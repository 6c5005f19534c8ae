---------------------------- MODULE FuseDevProofs ----------------------------
(***************************************************************************)
(* Proofs about FuseDev while the connection lasts: for any number of      *)
(* synchronous and background requests and of threads of the daemon, with  *)
(* signals at any time, until the control file aborts the connection.      *)
(* The invariant DevInv says of every thread of the daemon in which list   *)
(* the request is that it works on, and of every request who has it: its   *)
(* requester, a list, or one thread that will end it.                      *)
(***************************************************************************)
EXTENDS FuseDev, Integers, FiniteSetTheorems, TLAPS

(* No device is closed.                                                    *)
Lasting == Closers = {}

Flag == {"PENDING", "WAITING", "BACKGROUND", "FINISHED", "INTERRUPTED", "SENT",
         "LOCKED", "ABORTED", "PRIVATE"}
List == {"none", "pending", "bg_queue", "io", "processing"}
WaitPC == {"wait1", "intr", "qintr", "wait2", "wait3"}
SyncPC == {"start", "send", "put", "done"} \cup WaitPC
BgPC == {"start", "blocked", "get", "send", "done"}
CopyPC == {"rd_unlocked", "rd_locked", "rd_ok", "rd_err", "wr_unlocked",
           "wr_locked", "wr_done"}
ServerPC == {"idle", "gone"} \cup UsePC
PC == SyncPC \cup BgPC \cup ServerPC \cup {"open", "abort"}

Conn == [connected : BOOLEAN, iq : BOOLEAN, blocked : BOOLEAN,
         max_background : Nat, num_background : Int, active_background : Int,
         num_waiting : Int, congested : BOOLEAN, no_interrupt : BOOLEAN,
         dev_count : Int, lock : Killers \cup {None}]

(* The types of the variables while the connection lasts.                  *)
TypeOK ==
    /\ fc \in Conn /\ fc.connected /\ fc.iq /\ fc.lock = None
    /\ loc \in [AllQ -> List] /\ flags \in [AllQ -> SUBSET Flag]
    /\ count \in [AllQ -> Int] /\ alive \subseteq AllQ
    /\ interrupts \subseteq AllQ /\ intr_unique \subseteq AllQ
    /\ pc \in [AllQ \cup Enders -> PC]
    /\ cur \in [Enders -> AllQ \cup {None}] /\ ret \in [Enders -> {"idle"}]
    /\ \A q \in SyncReq : pc[q] \in SyncPC
    /\ \A q \in BgReq : pc[q] \in BgPC
    /\ \A s \in Servers : pc[s] \in ServerPC
    /\ \A t \in Killers : pc[t] \in {"open", "abort"}

(* A thread of the daemon: the list that its request is in, and the flags  *)
(* the request has.  A thread that has no part in the request any more     *)
(* finds it under way or ended.                                            *)
Ongoing(q) == InFlight(q) \/ "FINISHED" \in flags[q]
ServerOf(s) ==
    LET p == pc[s]
        q == cur[s]
    IN  /\ p \in UsePC => q \in AllQ /\ "PENDING" \notin flags[q]
        /\ p \in {"rd_size", "end"} \cup EndPC => loc[q] = "none"
        /\ p \in CopyPC => loc[q] = "io"
        /\ p \in LatePC \cup {"wr_qintr"}
           => \A r \in AllQ : r = q => Ongoing(r)
        /\ p \in {"rd_size", "end"} => "FINISHED" \notin flags[q]
        /\ p \in EndPC => "FINISHED" \in flags[q]
        /\ p = "end_put" => "BACKGROUND" \notin flags[q]
ServerInv == \A s \in Servers : ServerOf(s)

(* Two threads never have the same request.                                *)
AloneInv ==
    \A s, u \in Servers :
        s # u /\ pc[s] \in OwnPC /\ pc[u] \in OwnPC => cur[s] # cur[u]

(* A request: where it is when its thread is at pc[q] and has its flags.   *)
PlaceOf(q) ==
    /\ pc[q] \in {"start", "blocked", "get", "send"} => ~Ongoing(q)
    /\ pc[q] = "send" => "PENDING" \in flags[q]
                         /\ (q \in BgReq => "BACKGROUND" \in flags[q])
    /\ pc[q] \in WaitPC => InFlight(q) \/ "FINISHED" \in flags[q]
    /\ pc[q] \in WaitPC /\ "PENDING" \in flags[q] => loc[q] = "pending"
    /\ pc[q] = "qintr" => "PENDING" \notin flags[q]
    /\ loc[q] \in {"pending", "bg_queue"} => "PENDING" \in flags[q]
    /\ loc[q] \in {"io", "processing"} => "PENDING" \notin flags[q]
    /\ loc[q] = "bg_queue" => "BACKGROUND" \in flags[q]
    /\ "BACKGROUND" \in flags[q] => q \in BgReq
    /\ "FINISHED" \in flags[q] => loc[q] = "none"
    /\ flags[q] \cap {"ABORTED", "PRIVATE"} = {}
PlaceInv == \A q \in AllQ : PlaceOf(q)

(* The references: an allocated request has a requester or is in flight.   *)
RefOf(q) ==
    /\ q \in alive <=> Holds(q) \/ InFlight(q)
    /\ q \in alive => /\ count[q] = (IF Holds(q) THEN 1 ELSE 0)
                                    + (IF InFlight(q) THEN 1 ELSE 0)
                      /\ "WAITING" \in flags[q]
RefInv == \A q \in AllQ : RefOf(q)

(* Interrupts: FR_SENT means read, a request in processing is marked       *)
(* or is about to be, an interrupt that both sides know of is queued, or   *)
(* the reader is about to look; a queued one belongs to a request that has *)
(* not ended.                                                              *)
IntrOf(q) ==
    /\ "SENT" \in flags[q] => "PENDING" \notin flags[q]
    /\ loc[q] = "processing" /\ "SENT" \notin flags[q]
       => \E s \in Servers : cur[s] = q /\ pc[s] = "rd_sent"
    /\ /\ "INTERRUPTED" \in flags[q] /\ pc[q] \in {"wait2", "wait3"}
       /\ loc[q] = "processing" /\ q \notin interrupts \cup intr_unique
       => \E s \in Servers : cur[s] = q /\ pc[s] \in LatePC
    /\ q \in interrupts
       => /\ InFlight(q) /\ "PENDING" \notin flags[q]
          /\ "FINISHED" \in flags[q]
             => \E s \in Servers : cur[s] = q /\ pc[s] = "end_intr"
IntrInv == \A q \in AllQ : IntrOf(q)

(* num_waiting, counted by what is allocated and who waits to allocate.    *)
Blocked == {q \in BgReq : pc[q] \in {"blocked", "get"}}
WaitingInv == fc.num_waiting = Cardinality(alive) + Cardinality(Blocked)

DevInv ==
    /\ TypeOK /\ ServerInv /\ AloneInv /\ PlaceInv /\ RefInv /\ IntrInv
    /\ WaitingInv /\ BackgroundCounted

-----------------------------------------------------------------------------
(* Threads, finite sets, and a step that touches one request               *)

LEMMA Kinds ==
    ASSUME Lasting
    PROVE  /\ AllQ = SyncReq \cup BgReq /\ SyncReq \cap BgReq = {}
           /\ Enders = Servers \cup Killers /\ Servers \cap Killers = {}
           /\ AllQ \cap Enders = {} /\ None \notin AllQ \cup Enders
           /\ Killers = Ctl
  BY FuseDevAssumption DEF Lasting, AllQ, Enders, Killers

(* Two sets that agree outside q differ in size by what q makes.           *)
One(b) == IF b THEN 1 ELSE 0
LEMMA CardOne ==
    ASSUME NEW S, NEW T, NEW q, IsFiniteSet(S), S \ {q} = T \ {q}
    PROVE  /\ IsFiniteSet(T) /\ Cardinality(S) \in Nat
           /\ Cardinality(T) = Cardinality(S) + One(q \in T) - One(q \in S)
<1>1. Cardinality(S) \in Nat
  BY FS_CardinalityType
<1>2. CASE q \in S <=> q \in T
  <2>1. S = T
    BY <1>2
  <2>2. Cardinality(T) = Cardinality(S)
    BY <2>1
  <2> QED BY <1>1, <1>2, <2>1, <2>2 DEF One
<1>3. CASE q \in S /\ q \notin T
  <2>1. T = S \ {q}
    BY <1>3
  <2>2. IsFiniteSet(T) /\ Cardinality(T) = Cardinality(S) - 1
    BY <1>3, <2>1, FS_RemoveElement
  <2> QED BY <1>1, <1>3, <2>2 DEF One
<1>4. CASE q \notin S /\ q \in T
  <2>1. T = S \cup {q}
    BY <1>4
  <2>2. IsFiniteSet(T) /\ Cardinality(T) = Cardinality(S) + 1
    BY <1>4, <2>1, FS_AddElement
  <2> QED BY <1>1, <1>4, <2>2 DEF One
<1> QED BY <1>2, <1>3, <1>4

LEMMA FiniteReqs ==
    ASSUME NEW S, S \subseteq AllQ
    PROVE  IsFiniteSet(S) /\ Cardinality(S) \in Nat
  BY FuseDevAssumption, FS_Subset, FS_CardinalityType

(* Thread t steps; it is request q's own thread, or a thread of the daemon *)
(* that works on q.  No other request is touched, except that requests may *)
(* leave bg_queue.                                                         *)
Same(p) ==
    /\ flags'[p] = flags[p] /\ count'[p] = count[p]
    /\ (p \in alive') = (p \in alive)
    /\ (p \in interrupts') = (p \in interrupts)
    /\ (p \in intr_unique') = (p \in intr_unique)
Actor(t, q) ==
    \/ t = q
    \/ /\ t \in Servers
       /\ pc[t] \in UsePC => cur[t] = q
       /\ pc'[t] \in UsePC => cur'[t] = q
Step(t, q) ==
    /\ q \in AllQ /\ Actor(t, q) /\ TypeOK'
    /\ \A u \in (AllQ \cup Enders) \ {t} : pc'[u] = pc[u]
    /\ \A u \in Enders \ {t} : cur'[u] = cur[u] /\ ret'[u] = ret[u]
    /\ \A p \in AllQ \ {q} :
         /\ Same(p)
         /\ loc'[p] = loc[p] \/ (loc[p] = "bg_queue" /\ loc'[p] = "pending")

(* Who has q: a list, thread t, or another thread.                         *)
Owns(t, q) == t \in Servers /\ pc[t] \in OwnPC /\ cur[t] = q
OtherOwns(t, q) == \E u \in Servers \ {t} : pc[u] \in OwnPC /\ cur[u] = q

LEMMA Flight ==
    ASSUME Lasting, TypeOK, NEW t, NEW q \in AllQ
    PROVE  InFlight(q) <=> loc[q] # "none" \/ Owns(t, q) \/ OtherOwns(t, q)
<1>1. \A u \in Killers : pc[u] \notin OwnPC
  BY DEF TypeOK, OwnPC, EndPC
<1> QED BY <1>1, Kinds DEF InFlight, Owns, OtherOwns

LEMMA FlightAfter ==
    ASSUME Lasting, TypeOK, NEW t, NEW q, Step(t, q)
    PROVE  InFlight(q)' <=> loc'[q] # "none" \/ Owns(t, q)' \/ OtherOwns(t, q)
<1>1. \A u \in Killers : pc'[u] \notin OwnPC
  BY DEF TypeOK, OwnPC, Step, EndPC
<1>2. \A u \in Servers \ {t} : pc'[u] = pc[u] /\ cur'[u] = cur[u]
  BY Kinds DEF Step
<1> QED BY <1>1, <1>2, Kinds DEF InFlight, Owns, OtherOwns

(* The other requests are in flight as before, and keep their invariants.  *)
LEMMA OthersFlight ==
    ASSUME Lasting, DevInv, NEW t, NEW q, Step(t, q), NEW p \in AllQ \ {q}
    PROVE  /\ InFlight(p)' <=> InFlight(p)
           /\ Holds(p)' <=> Holds(p)
           /\ pc'[p] = pc[p]
           /\ \A s \in Servers, x \in ServerPC \ {"idle", "gone"} :
                 (cur'[s] = p /\ pc'[s] = x) <=> (cur[s] = p /\ pc[s] = x)
<1>1. p # t
  BY Kinds DEF Step, Actor
<1>2. pc'[p] = pc[p]
  BY <1>1 DEF Step
<1>3. ASSUME NEW s \in Servers, NEW x \in ServerPC \ {"idle", "gone"}
      PROVE  (cur'[s] = p /\ pc'[s] = x) <=> (cur[s] = p /\ pc[s] = x)
  <2>1. CASE s = t
    BY <2>1, <1>3, Kinds DEF Step, Actor, ServerPC
  <2>2. CASE s # t
    BY <2>2, Kinds DEF Step
  <2> QED BY <2>1, <2>2
<1>4. \A s \in Servers :
        (cur'[s] = p /\ pc'[s] \in OwnPC) <=> (cur[s] = p /\ pc[s] \in OwnPC)
  BY <1>3 DEF ServerPC, UsePC, OwnPC, EndPC, LatePC
<1>5. \A u \in Killers : pc'[u] \notin OwnPC /\ pc[u] \notin OwnPC
  BY DEF TypeOK, OwnPC, Step, DevInv, EndPC
<1>6. loc'[p] # "none" <=> loc[p] # "none"
  BY DEF Step
<1>7. InFlight(p)' <=> InFlight(p)
  BY <1>4, <1>5, <1>6, Kinds DEF InFlight
<1>8. Holds(p)' <=> Holds(p)
  BY <1>2 DEF Holds
<1> QED BY <1>2, <1>3, <1>7, <1>8

LEMMA OthersPlace ==
    ASSUME Lasting, DevInv, NEW t, NEW q, Step(t, q), NEW p \in AllQ \ {q}
    PROVE  PlaceOf(p)' /\ RefOf(p)' /\ IntrOf(p)'
<1>1. /\ InFlight(p)' <=> InFlight(p)
      /\ Holds(p)' <=> Holds(p)
      /\ pc'[p] = pc[p]
      /\ \A s \in Servers, x \in ServerPC \ {"idle", "gone"} :
            (cur'[s] = p /\ pc'[s] = x) <=> (cur[s] = p /\ pc[s] = x)
  BY OthersFlight
<1>2. /\ Same(p) /\ loc[p] \in List
      /\ loc'[p] = loc[p] \/ (loc[p] = "bg_queue" /\ loc'[p] = "pending")
  BY DEF Step, DevInv, TypeOK
<1>3. PlaceOf(p) /\ RefOf(p) /\ IntrOf(p)
  BY DEF DevInv, PlaceInv, RefInv, IntrInv
<1>4. PlaceOf(p)'
  <2>1. pc[p] \in WaitPC /\ "PENDING" \in flags[p] => loc'[p] = "pending"
    BY <1>2, <1>3 DEF PlaceOf
  <2> QED BY <1>1, <1>2, <1>3, <2>1 DEF PlaceOf, Ongoing, Same
<1>5. RefOf(p)'
  BY <1>1, <1>2, <1>3 DEF RefOf, Same
<1>6. IntrOf(p)'
  <2>1. \A x \in {"rd_sent", "end_intr"} \cup LatePC :
          x \in ServerPC \ {"idle", "gone"}
    BY DEF ServerPC, UsePC, OwnPC, LatePC, EndPC
  <2>2. \A X \in SUBSET ({"rd_sent", "end_intr"} \cup LatePC) :
          (\E s \in Servers : cur'[s] = p /\ pc'[s] \in X)
          <=> (\E s \in Servers : cur[s] = p /\ pc[s] \in X)
    BY <1>1, <2>1
  <2>3. /\ (\E s \in Servers : cur'[s] = p /\ pc'[s] \in {"rd_sent"})
           <=> (\E s \in Servers : cur[s] = p /\ pc[s] \in {"rd_sent"})
        /\ (\E s \in Servers : cur'[s] = p /\ pc'[s] \in LatePC)
           <=> (\E s \in Servers : cur[s] = p /\ pc[s] \in LatePC)
        /\ (\E s \in Servers : cur'[s] = p /\ pc'[s] \in {"end_intr"})
           <=> (\E s \in Servers : cur[s] = p /\ pc[s] \in {"end_intr"})
    BY <2>2
  <2>4. loc'[p] = "processing" <=> loc[p] = "processing"
    BY <1>2
  <2> QED BY <1>1, <1>2, <1>3, <2>3, <2>4 DEF IntrOf, Same
<1> QED BY <1>4, <1>5, <1>6

(* A thread of the daemon that works on another request.                   *)
LEMMA OthersServe ==
    ASSUME Lasting, DevInv, NEW t, NEW q, Step(t, q), NEW u \in Servers \ {t},
           pc[u] \in UsePC => cur[u] # q
    PROVE  ServerOf(u)'
<1>1. pc'[u] = pc[u] /\ cur'[u] = cur[u] /\ ret'[u] = ret[u]
  BY Kinds DEF Step
<1>2. ServerOf(u)
  BY DEF DevInv, ServerInv
<1>3. CASE pc[u] \in UsePC
  <2>1. cur[u] \in AllQ \ {q}
    BY <1>2, <1>3 DEF ServerOf
  <2>2. PICK p \in AllQ \ {q} : p = cur[u]
    BY <2>1
  <2>3. /\ flags'[p] = flags[p]
        /\ loc'[p] = loc[p] \/ (loc[p] = "bg_queue" /\ loc'[p] = "pending")
    BY DEF Step, Same
  <2>4. Ongoing(p) => Ongoing(p)'
    <3>1. InFlight(p)' <=> InFlight(p)
      BY OthersFlight
    <3> QED BY <2>3, <3>1 DEF Ongoing
  <2> QED BY <1>1, <1>2, <1>3, <2>2, <2>3, <2>4 DEF ServerOf
<1>4. CASE pc[u] \notin UsePC
  BY <1>1, <1>4 DEF ServerOf, UsePC, OwnPC, CopyPC, LatePC, EndPC
<1> QED BY <1>3, <1>4

(* What a step that touches q has to show.                                 *)
Served(t, q) ==
    /\ t \in Servers => ServerOf(t)'
    /\ \A u \in Servers \ {t} : pc[u] \in UsePC /\ cur[u] = q => ServerOf(u)'
    /\ Owns(t, q)' => ~OtherOwns(t, q)
Kept(q) == PlaceOf(q)' /\ RefOf(q)' /\ IntrOf(q)'

LEMMA StepKeeps ==
    ASSUME Lasting, DevInv, NEW t, NEW q, Step(t, q), Served(t, q), Kept(q),
           WaitingInv', BackgroundCounted'
    PROVE  DevInv'
<1>1. TypeOK'
  BY DEF Step
<1>2. ServerInv'
  <2>1. ASSUME NEW u \in Servers PROVE ServerOf(u)'
    <3>1. CASE u = t
      BY <3>1 DEF Served
    <3>2. CASE u # t /\ pc[u] \in UsePC /\ cur[u] = q
      BY <3>2 DEF Served
    <3>3. CASE u # t /\ ~(pc[u] \in UsePC /\ cur[u] = q)
      BY <3>3, OthersServe
    <3> QED BY <3>1, <3>2, <3>3
  <2> QED BY <2>1 DEF ServerInv
<1>3. AloneInv'
  <2>1. ASSUME NEW s \in Servers, NEW u \in Servers, s # u,
               pc'[s] \in OwnPC, pc'[u] \in OwnPC, cur'[s] = cur'[u]
        PROVE  FALSE
    <3>1. \A v \in Servers \ {t} : pc'[v] = pc[v] /\ cur'[v] = cur[v]
      BY Kinds DEF Step
    <3>2. CASE s # t /\ u # t
      BY <2>1, <3>1, <3>2 DEF DevInv, AloneInv
    <3>3. CASE s = t
      <4>1. t \in Servers /\ t # q
        BY <3>3, Kinds DEF Step
      <4>2. cur'[t] = q
        BY <4>1, <3>3, <2>1 DEF Step, Actor, UsePC, LatePC
      <4>3. Owns(t, q)'
        BY <4>1, <4>2, <3>3, <2>1 DEF Owns
      <4>4. OtherOwns(t, q)
        BY <4>2, <3>1, <3>3, <2>1 DEF OtherOwns
      <4> QED BY <4>3, <4>4 DEF Served
    <3>4. CASE u = t
      <4>1. t \in Servers /\ t # q
        BY <3>4, Kinds DEF Step
      <4>2. cur'[t] = q
        BY <4>1, <3>4, <2>1 DEF Step, Actor, UsePC, LatePC
      <4>3. Owns(t, q)'
        BY <4>1, <4>2, <3>4, <2>1 DEF Owns
      <4>4. OtherOwns(t, q)
        BY <4>2, <3>1, <3>4, <2>1 DEF OtherOwns
      <4> QED BY <4>3, <4>4 DEF Served
    <3> QED BY <3>2, <3>3, <3>4
  <2> QED BY <2>1 DEF AloneInv
<1>4. PlaceInv' /\ RefInv' /\ IntrInv'
  <2>1. ASSUME NEW p \in AllQ PROVE PlaceOf(p)' /\ RefOf(p)' /\ IntrOf(p)'
    BY OthersPlace DEF Kept
  <2> QED BY <2>1 DEF PlaceInv, RefInv, IntrInv
<1> QED BY <1>1, <1>2, <1>3, <1>4 DEF DevInv

(* num_waiting: the step counts what q makes of it.                        *)
Waits(q) == One(q \in alive) + One(q \in Blocked)

LEMMA WaitingStep ==
    ASSUME Lasting, DevInv, NEW t, NEW q, Step(t, q),
           fc'.num_waiting = fc.num_waiting + Waits(q)' - Waits(q)
    PROVE  WaitingInv'
<1>1. alive \ {q} = alive' \ {q} /\ alive \subseteq AllQ
  BY DEF Step, Same, DevInv, TypeOK
<1>2. Blocked \ {q} = Blocked' \ {q} /\ Blocked \subseteq AllQ
  <2>1. \A p \in BgReq \ {q} : pc'[p] = pc[p]
    BY OthersFlight, Kinds
  <2> QED BY <2>1, Kinds DEF Blocked
<1>3. PICK a1 \in Nat, a2 \in Int :
        /\ a1 = Cardinality(alive) /\ a2 = Cardinality(alive')
        /\ a2 = a1 + One(q \in alive') - One(q \in alive)
  <2>1. IsFiniteSet(alive) /\ Cardinality(alive) \in Nat
    BY <1>1, FiniteReqs
  <2> DEFINE X == alive
             Y == alive'
  <2>2. IsFiniteSet(X) /\ X \ {q} = Y \ {q}
    BY <1>1, <2>1
  <2> HIDE DEF X, Y
  <2>3. Cardinality(Y) = Cardinality(X) + One(q \in Y) - One(q \in X)
    BY <2>2, CardOne
  <2> QED BY <2>1, <2>3 DEF X, Y, One
<1>4. PICK b1 \in Nat, b2 \in Int :
        /\ b1 = Cardinality(Blocked) /\ b2 = Cardinality(Blocked')
        /\ b2 = b1 + One(q \in Blocked') - One(q \in Blocked)
  <2>1. IsFiniteSet(Blocked) /\ Cardinality(Blocked) \in Nat
    BY <1>2, FiniteReqs
  <2> DEFINE X == Blocked
             Y == Blocked'
  <2>2. IsFiniteSet(X) /\ X \ {q} = Y \ {q}
    BY <1>2, <2>1
  <2> HIDE DEF X, Y
  <2>3. Cardinality(Y) = Cardinality(X) + One(q \in Y) - One(q \in X)
    BY <2>2, CardOne
  <2> QED BY <2>1, <2>3 DEF X, Y, One
<1>5. fc.num_waiting = a1 + b1
  BY <1>3, <1>4 DEF DevInv, WaitingInv, Blocked
<1>6. fc'.num_waiting = a2 + b2
  BY <1>3, <1>4, <1>5 DEF Waits, One
<1> QED BY <1>3, <1>4, <1>6 DEF WaitingInv, Blocked

(* num_background and active_background when q keeps its part in them.     *)
LEMMA BackgroundStep ==
    ASSUME Lasting, DevInv, NEW t, NEW q, Step(t, q),
           fc'.num_background = fc.num_background,
           fc'.active_background = fc.active_background,
           \A p \in AllQ \ {q} : loc'[p] = loc[p],
           (q \in Background') = (q \in Background),
           q \in Background => (loc'[q] = "bg_queue" <=> loc[q] = "bg_queue")
    PROVE  BackgroundCounted'
<1>1. \A p \in BgReq \ {q} : (p \in Background') = (p \in Background)
  <2>1. ASSUME NEW p \in BgReq \ {q}
        PROVE  (InFlight(p)' <=> InFlight(p)) /\ flags'[p] = flags[p]
    BY OthersFlight, Kinds DEF Step, Same
  <2> QED BY <2>1 DEF Background
<1>2. Background' = Background
  BY <1>1 DEF Background
<1>3. (Background \ On("bg_queue"))' = Background \ On("bg_queue")
  BY <1>2, Kinds DEF On, Background
<1> QED BY <1>2, <1>3 DEF DevInv, BackgroundCounted

(* A step that neither allocates nor frees nor counts.                     *)
Uncounted(q) ==
    /\ fc'.num_waiting = fc.num_waiting
    /\ fc'.num_background = fc.num_background
    /\ fc'.active_background = fc.active_background
    /\ alive' = alive /\ \A p \in AllQ \ {q} : loc'[p] = loc[p]
    /\ (q \in Blocked') = (q \in Blocked)
    /\ (q \in Background') = (q \in Background)
    /\ q \in Background => (loc'[q] = "bg_queue" <=> loc[q] = "bg_queue")

LEMMA UncountedStep ==
    ASSUME Lasting, DevInv, NEW t, NEW q, Step(t, q), Served(t, q), Kept(q),
           Uncounted(q)
    PROVE  DevInv'
<1>1. fc'.num_waiting = fc.num_waiting + Waits(q)' - Waits(q)
  BY DEF Uncounted, Waits, One, DevInv, TypeOK, Conn
<1>2. WaitingInv'
  BY <1>1, WaitingStep
<1>3. BackgroundCounted'
  BY BackgroundStep DEF Uncounted
<1> QED BY <1>2, <1>3, StepKeeps

-----------------------------------------------------------------------------
(* The requesters of synchronous requests                                  *)

(* No thread of the daemon uses a request that is not in flight, or that   *)
(* nobody has read.                                                        *)
Unused(q) == \A u \in Servers : pc[u] \in UsePC => cur[u] # q
LEMMA NotUsed ==
    ASSUME Lasting, DevInv, NEW q \in AllQ,
           ~Ongoing(q) \/ "PENDING" \in flags[q]
    PROVE  Unused(q)
<1>1. ASSUME NEW u \in Servers, pc[u] \in UsePC, cur[u] = q PROVE FALSE
  <2>1. ServerOf(u) /\ pc[u] \in UsePC /\ u \in Enders
    BY <1>1, Kinds DEF DevInv, ServerInv
  <2>2. "PENDING" \notin flags[q]
    BY <2>1, <1>1 DEF ServerOf
  <2>3. pc[u] \notin OwnPC
    BY <2>1, <2>2, <1>1 DEF Ongoing, InFlight
  <2>4. pc[u] \in LatePC \cup {"wr_qintr"}
    BY <2>1, <2>3 DEF UsePC, LatePC
  <2> QED BY <2>1, <2>2, <2>4, <1>1 DEF ServerOf
<1> QED BY <1>1 DEF Unused

(* The other threads have q as before, when its own thread steps.          *)
LEMMA RequesterFlight ==
    ASSUME Lasting, DevInv, NEW q \in AllQ, Step(q, q)
    PROVE  /\ loc'[q] = loc[q] => (InFlight(q)' <=> InFlight(q))
           /\ loc'[q] # "none" => InFlight(q)'
           /\ Unused(q) /\ loc'[q] = "none" => ~InFlight(q)'
           /\ \A s \in Servers : pc'[s] = pc[s] /\ cur'[s] = cur[s]
<1>1. q \notin Servers
  BY Kinds
<1>2. InFlight(q) <=> loc[q] # "none" \/ Owns(q, q) \/ OtherOwns(q, q)
  BY Flight DEF DevInv
<1>3. InFlight(q)' <=> loc'[q] # "none" \/ Owns(q, q)' \/ OtherOwns(q, q)
  BY FlightAfter DEF DevInv
<1>4. ~Owns(q, q) /\ ~Owns(q, q)'
  BY <1>1 DEF Owns
<1>5. Unused(q) => ~OtherOwns(q, q)
  BY DEF Unused, OtherOwns, UsePC, LatePC
<1>6. \A s \in Servers : pc'[s] = pc[s] /\ cur'[s] = cur[s]
  BY <1>1, Kinds DEF Step
<1> QED BY <1>2, <1>3, <1>4, <1>5, <1>6

(* A requester that leaves the lists and the flags that the daemon's       *)
(* threads look at.                                                        *)
LEMMA RequesterServed ==
    ASSUME Lasting, DevInv, NEW q \in AllQ, Step(q, q),
           \/ Unused(q)
           \/ loc'[q] = loc[q] /\ flags'[q] \ {"INTERRUPTED"} = flags[q] \ {"INTERRUPTED"}
    PROVE  Served(q, q)
<1>1. q \notin Servers
  BY Kinds
<1>2. ASSUME NEW u \in Servers, pc[u] \in UsePC, cur[u] = q PROVE ServerOf(u)'
  <2>1. pc'[u] = pc[u] /\ cur'[u] = cur[u] /\ ret'[u] = ret[u]
    BY <1>1, Kinds DEF Step
  <2>2. ServerOf(u)
    BY DEF DevInv, ServerInv
  <2>3. loc'[q] = loc[q]
        /\ \A f \in {"PENDING", "FINISHED", "BACKGROUND"} :
             f \in flags'[q] <=> f \in flags[q]
    BY <1>2 DEF Unused
  <2>4. Ongoing(q) => Ongoing(q)'
    <3>1. InFlight(q)' <=> InFlight(q)
      BY <2>3, RequesterFlight
    <3> QED BY <2>3, <3>1 DEF Ongoing
  <2> QED BY <2>1, <2>2, <2>3, <2>4, <1>2 DEF ServerOf
<1> QED BY <1>1, <1>2 DEF Served, Owns

(* What is known of q before the step.                                     *)
LEMMA Before ==
    ASSUME Lasting, DevInv, NEW q \in AllQ
    PROVE  /\ PlaceOf(q) /\ RefOf(q) /\ IntrOf(q)
           /\ fc \in Conn /\ fc.connected /\ fc.iq /\ fc.lock = None
           /\ loc[q] \in List /\ flags[q] \subseteq Flag /\ count[q] \in Int
           /\ q \in SyncReq => pc[q] \in SyncPC
           /\ q \in BgReq => pc[q] \in BgPC
  BY DEF DevInv, PlaceInv, RefInv, IntrInv, TypeOK

(* The types of the variables of the requests after a step.                *)
ReqTypes ==
    /\ fc' \in Conn /\ fc'.connected /\ fc'.iq /\ fc'.lock = None
    /\ loc' \in [AllQ -> List] /\ flags' \in [AllQ -> SUBSET Flag]
    /\ count' \in [AllQ -> Int] /\ alive' \subseteq AllQ
    /\ interrupts' \subseteq AllQ /\ intr_unique' \subseteq AllQ
OnlyFor(q) == \A p \in AllQ \ {q} : Same(p) /\ loc'[p] = loc[p]

LEMMA RequesterStep ==
    ASSUME Lasting, DevInv, NEW q \in AllQ, NEW x,
           q \in SyncReq => x \in SyncPC, q \in BgReq => x \in BgPC,
           pc' = [pc EXCEPT ![q] = x], UNCHANGED <<cur, ret>>, ReqTypes,
           \A p \in AllQ \ {q} :
              Same(p) /\ (loc'[p] = loc[p]
                          \/ (loc[p] = "bg_queue" /\ loc'[p] = "pending"))
    PROVE  Step(q, q) /\ pc'[q] = x
<1>1. /\ pc \in [AllQ \cup Enders -> PC] /\ cur \in [Enders -> AllQ \cup {None}]
      /\ ret \in [Enders -> {"idle"}]
      /\ \A p \in SyncReq : pc[p] \in SyncPC
      /\ \A p \in BgReq : pc[p] \in BgPC
      /\ \A s \in Servers : pc[s] \in ServerPC
      /\ \A t \in Killers : pc[t] \in {"open", "abort"}
  BY DEF DevInv, TypeOK
<1>2. x \in PC
  BY Kinds DEF PC
<1>3. /\ pc' \in [AllQ \cup Enders -> PC] /\ pc'[q] = x
      /\ \A u \in (AllQ \cup Enders) \ {q} : pc'[u] = pc[u]
  BY <1>1, <1>2
<1>4. /\ \A p \in SyncReq : pc'[p] \in SyncPC
      /\ \A p \in BgReq : pc'[p] \in BgPC
      /\ \A s \in Servers : pc'[s] \in ServerPC
      /\ \A t \in Killers : pc'[t] \in {"open", "abort"}
  BY <1>1, <1>3, Kinds
<1>5. TypeOK'
  BY <1>1, <1>3, <1>4 DEF TypeOK, ReqTypes
<1> QED BY <1>3, <1>5, Kinds DEF Step, Actor

(* The three waits of request_wait_answer, and what they test, change      *)
(* nothing but the thread's place.                                         *)
LEMMA Waiting ==
    ASSUME Lasting, DevInv, NEW q \in SyncReq, NEW x,
           pc' = [pc EXCEPT ![q] = x], pc[q] \in WaitPC,
           \/ x = "put" /\ "FINISHED" \in flags[q]
           \/ x \in {"wait2", "wait3"} /\ pc[q] # "qintr"
              /\ (pc[q] = "intr" => "SENT" \notin flags[q])
              /\ (pc[q] # "intr" => pc[q] = "wait2")
           \/ x = "qintr" /\ "SENT" \in flags[q],
           UNCHANGED <<fc, listVars, reqVars, cur, ret>>
    PROVE  DevInv'
<1>1. q \in AllQ /\ q \notin BgReq
  BY Kinds
<1>a. x \in SyncPC /\ ReqTypes
  BY DEF DevInv, TypeOK, SyncPC, WaitPC, ReqTypes, listVars, reqVars
<1>2. Step(q, q)
  BY <1>1, <1>a, RequesterStep DEF Same, listVars, reqVars
<1>3. Served(q, q)
  BY <1>1, <1>2, RequesterServed DEF listVars, reqVars
<1>4. /\ InFlight(q)' <=> InFlight(q)
      /\ \A s \in Servers : pc'[s] = pc[s] /\ cur'[s] = cur[s]
  BY <1>1, <1>2, RequesterFlight DEF listVars
<1>5. pc'[q] = x
  BY <1>1 DEF DevInv, TypeOK
<1>6. PlaceOf(q) /\ RefOf(q) /\ IntrOf(q) /\ loc[q] \in List
  BY <1>1, Before
<1>7. PlaceOf(q)'
  BY <1>1, <1>4, <1>5, <1>6 DEF PlaceOf, IntrOf, WaitPC, listVars, reqVars
<1>8. RefOf(q)'
  BY <1>4, <1>5, <1>6 DEF RefOf, Holds, HoldPC, WaitPC, listVars, reqVars
<1>9. IntrOf(q)'
  <2>1. \A X : (\E s \in Servers : cur'[s] = q /\ pc'[s] \in X)
               <=> (\E s \in Servers : cur[s] = q /\ pc[s] \in X)
    BY <1>4
  <2> QED BY <1>4, <1>5, <1>6, <2>1 DEF IntrOf, listVars, reqVars, LatePC, WaitPC
<1>10. Uncounted(q)
  <2>1. q \notin Background /\ q \notin Background' /\ q \notin Blocked
        /\ q \notin Blocked'
    BY <1>1 DEF Background, Blocked
  <2> QED BY <2>1 DEF Uncounted, listVars, reqVars
<1> QED BY <1>2, <1>3, <1>7, <1>8, <1>9, <1>10, <1>1, UncountedStep DEF Kept

LEMMA By_wait_finished ==
    ASSUME Lasting, DevInv, NEW q \in SyncReq, wait_finished(q) PROVE DevInv'
<1>1. pc[q] \in WaitPC /\ pc' = [pc EXCEPT ![q] = "put"] /\ "FINISHED" \in flags[q]
      /\ UNCHANGED <<fc, listVars, reqVars, cur, ret>>
  BY DEF wait_finished, WaitPC
<1> QED BY <1>1, Waiting

LEMMA By_wait_test_sent ==
    ASSUME Lasting, DevInv, NEW q \in SyncReq, wait_test_sent(q) PROVE DevInv'
<1>1. PICK x : /\ x = (IF "SENT" \in flags[q] THEN "qintr" ELSE NextWait(q))
               /\ pc' = [pc EXCEPT ![q] = x]
  BY DEF wait_test_sent, Goto
<1>2. pc[q] = "intr" /\ UNCHANGED <<fc, listVars, reqVars, cur, ret>>
  BY DEF wait_test_sent, Goto
<1>3. NextWait(q) \in {"wait2", "wait3"}
  BY DEF NextWait
<1>4. \/ x = "qintr" /\ "SENT" \in flags[q]
      \/ x \in {"wait2", "wait3"} /\ "SENT" \notin flags[q]
  BY <1>1, <1>3
<1>5. pc[q] \in WaitPC /\ pc[q] # "qintr"
  BY <1>2 DEF WaitPC
<1> QED BY <1>1, <1>2, <1>4, <1>5, Waiting

(* A request is allocated: it has one holder, its requester.               *)
LEMMA Allocated ==
    ASSUME Lasting, DevInv, NEW q \in AllQ, fuse_request_alloc(q),
           pc[q] \in {"start", "get"}, pc' = [pc EXCEPT ![q] = "send"],
           UNCHANGED <<loc, interrupts, cur, ret>>, ReqTypes \/ fc' = fc,
           fc' \in Conn, fc'.connected, fc'.iq, fc'.lock = None,
           fc'.num_background = fc.num_background,
           fc'.active_background = fc.active_background,
           fc'.num_waiting = fc.num_waiting + 1 - One(q \in Blocked)
    PROVE  DevInv'
<1>0. /\ PlaceOf(q) /\ RefOf(q) /\ IntrOf(q) /\ loc[q] \in List
      /\ q \in SyncReq => pc[q] \in SyncPC
  BY Before
<1>1. q \notin alive /\ ~InFlight(q) /\ loc[q] = "none" /\ q \notin interrupts
      /\ ~Ongoing(q) /\ "FINISHED" \notin flags[q]
  BY <1>0 DEF PlaceOf, RefOf, Holds, HoldPC, IntrOf, InFlight, Ongoing
<1>2. Unused(q)
  BY <1>1, NotUsed
<1>3. /\ flags'[q] = {"PENDING", "WAITING"}
                     \cup (IF q \in BgReq THEN {"BACKGROUND"} ELSE {})
      /\ count'[q] = 1 /\ alive' = alive \cup {q}
      /\ UNCHANGED intr_unique
      /\ \A p \in AllQ \ {q} : flags'[p] = flags[p] /\ count'[p] = count[p]
      /\ flags' \in [AllQ -> SUBSET Flag] /\ count' \in [AllQ -> Int]
  BY DEF fuse_request_alloc, DevInv, TypeOK, Flag
<1>4. ReqTypes
  BY <1>3 DEF ReqTypes, DevInv, TypeOK
<1>5. Step(q, q) /\ pc'[q] = "send"
  <2>1. "send" \in SyncPC /\ "send" \in BgPC
    BY DEF SyncPC, BgPC
  <2>2. \A p \in AllQ \ {q} : Same(p) /\ loc'[p] = loc[p]
    BY <1>3 DEF Same
  <2> QED BY <2>1, <2>2, <1>4, RequesterStep
<1>6. Served(q, q)
  BY <1>2, <1>5, RequesterServed
<1>7. ~InFlight(q)'
  BY <1>1, <1>2, <1>5, RequesterFlight
<1>8. PlaceOf(q)'
  BY <1>1, <1>3, <1>5, <1>7, Kinds DEF PlaceOf, WaitPC, Ongoing
<1>9. RefOf(q)'
  BY <1>3, <1>5, <1>7 DEF RefOf, Holds, HoldPC
<1>10. IntrOf(q)'
  BY <1>1, <1>3 DEF IntrOf
<1>11. WaitingInv'
  <2>1. q \notin Blocked' /\ q \in alive'
    BY <1>3, <1>5 DEF Blocked
  <2>2. Waits(q)' = 1 /\ Waits(q) = One(q \in Blocked)
    BY <2>1, <1>1 DEF Waits, One
  <2>3. fc'.num_waiting = fc.num_waiting + Waits(q)' - Waits(q)
    BY <2>2
  <2> QED BY <2>3, <1>5, WaitingStep
<1>12. BackgroundCounted'
  <2>1. q \notin Background /\ q \notin Background'
    BY <1>1, <1>7 DEF Background
  <2> QED BY <2>1, <1>5, BackgroundStep
<1> QED BY <1>5, <1>6, <1>8, <1>9, <1>10, <1>11, <1>12, StepKeeps DEF Kept

(* A requester that ends without a request.                                *)
Skips(q, x) ==
    /\ pc[q] \in {"start", "get", "blocked"} /\ pc' = [pc EXCEPT ![q] = x]
    /\ x = "done" \/ (q \in BgReq /\ x \in {"get", "blocked"})
    /\ UNCHANGED <<loc, interrupts, reqVars, cur, ret>>
    /\ fc' \in Conn /\ fc'.connected /\ fc'.iq /\ fc'.lock = None
    /\ fc'.num_background = fc.num_background
    /\ fc'.active_background = fc.active_background
    /\ fc'.num_waiting = fc.num_waiting + One(x # "done") - One(q \in Blocked)

LEMMA NotAllocated ==
    ASSUME Lasting, DevInv, NEW q \in AllQ, NEW x, Skips(q, x)
    PROVE  DevInv'
<1> USE DEF Skips
<1>0. /\ PlaceOf(q) /\ RefOf(q) /\ IntrOf(q) /\ loc[q] \in List
      /\ q \in SyncReq => pc[q] \in SyncPC
  BY Before
<1>1. q \notin alive /\ ~InFlight(q) /\ loc[q] = "none" /\ q \notin interrupts
      /\ ~Ongoing(q) /\ "FINISHED" \notin flags[q]
  BY <1>0 DEF PlaceOf, RefOf, Holds, HoldPC, IntrOf, InFlight, Ongoing
<1>2. Unused(q)
  BY <1>1, NotUsed
<1>4. ReqTypes
  BY DEF ReqTypes, DevInv, TypeOK, reqVars
<1>5. Step(q, q) /\ pc'[q] = x
  <2>1. (q \in SyncReq => x \in SyncPC) /\ (q \in BgReq => x \in BgPC)
    BY Kinds DEF SyncPC, BgPC
  <2>2. \A p \in AllQ \ {q} : Same(p) /\ loc'[p] = loc[p]
    BY DEF Same, reqVars
  <2> QED BY <2>1, <2>2, <1>4, RequesterStep
<1>6. Served(q, q)
  BY <1>2, <1>5, RequesterServed
<1>7. ~InFlight(q)'
  BY <1>1, <1>2, <1>5, RequesterFlight
<1>8. PlaceOf(q)'
  <2>1. x \notin WaitPC /\ x # "send" /\ x # "qintr"
    BY DEF WaitPC
  <2> QED BY <1>0, <1>1, <1>5, <1>7, <2>1 DEF PlaceOf, reqVars, Ongoing
<1>9. RefOf(q)'
  <2>1. x \notin HoldPC
    BY DEF HoldPC
  <2> QED BY <2>1, <1>1, <1>5, <1>7 DEF RefOf, Holds, reqVars
<1>10. IntrOf(q)'
  BY <1>0, <1>1 DEF IntrOf, reqVars
<1>11. WaitingInv'
  <2>1. q \notin alive' /\ (q \in Blocked' <=> x # "done")
    BY <1>1, <1>5, Kinds DEF Blocked, reqVars
  <2>2. Waits(q)' = One(x # "done") /\ Waits(q) = One(q \in Blocked)
    BY <2>1, <1>1 DEF Waits, One
  <2>3. fc'.num_waiting = fc.num_waiting + Waits(q)' - Waits(q)
    BY <2>2
  <2> QED BY <2>3, <1>5, WaitingStep
<1>12. BackgroundCounted'
  <2>1. q \notin Background /\ q \notin Background'
    BY <1>1, <1>7 DEF Background
  <2> QED BY <2>1, <1>5, BackgroundStep
<1> QED BY <1>5, <1>6, <1>8, <1>9, <1>10, <1>11, <1>12, StepKeeps DEF Kept

LEMMA By_fuse_get_req ==
    ASSUME Lasting, DevInv, NEW q \in SyncReq, fuse_get_req(q) PROVE DevInv'
<1>1. q \in AllQ /\ q \notin BgReq /\ q \notin Blocked /\ pc[q] = "start"
      /\ UNCHANGED <<loc, interrupts, cur, ret>>
  BY Kinds DEF fuse_get_req, Goto, Blocked, listVars
<1>2. fc \in Conn /\ fc.connected /\ fc.iq /\ fc.lock = None
  BY DEF DevInv, TypeOK
<1>3. CASE /\ Goto(q, "start", "send") /\ fuse_request_alloc(q)
           /\ fc' = [fc EXCEPT !.num_waiting = @ + 1]
  <2>1. /\ fc' \in Conn /\ fc'.connected /\ fc'.iq /\ fc'.lock = None
        /\ fc'.num_background = fc.num_background
        /\ fc'.active_background = fc.active_background
        /\ fc'.num_waiting = fc.num_waiting + 1 - One(q \in Blocked)
    BY <1>1, <1>2, <1>3 DEF Conn, One
  <2>2. ReqTypes
    BY <1>1, <1>3, <2>1 DEF ReqTypes, fuse_request_alloc, DevInv, TypeOK, Flag
  <2> QED BY <1>1, <1>3, <2>1, <2>2, Allocated DEF Goto
<1>4. CASE Goto(q, "start", "done") /\ UNCHANGED <<fc, reqVars>>
  <2>1. PICK x : x = "done"
    OBVIOUS
  <2>2. pc' = [pc EXCEPT ![q] = x] /\ fc' = fc /\ UNCHANGED reqVars
    BY <1>4, <2>1 DEF Goto
  <2>3. fc'.num_waiting = fc.num_waiting + One(x # "done") - One(q \in Blocked)
    BY <1>1, <1>2, <2>1, <2>2 DEF Conn, One
  <2>4. /\ fc' \in Conn /\ fc'.connected /\ fc'.iq /\ fc'.lock = None
        /\ fc'.num_background = fc.num_background
        /\ fc'.active_background = fc.active_background
    BY <1>2, <2>2
  <2>5. x = "done" \/ (q \in BgReq /\ x \in {"get", "blocked"})
    BY <2>1
  <2>6. pc[q] \in {"start", "get", "blocked"}
    BY <1>1
  <2>7. UNCHANGED <<loc, interrupts, reqVars, cur, ret>>
    BY <1>1, <2>2
  <2>8. Skips(q, x)
    BY <2>2, <2>3, <2>4, <2>5, <2>6, <2>7 DEF Skips
  <2> QED BY <1>1, <2>8, NotAllocated
<1> QED BY <1>3, <1>4 DEF fuse_get_req

LEMMA By_fuse_request_send ==
    ASSUME Lasting, DevInv, NEW q \in SyncReq, fuse_request_send(q) PROVE DevInv'
<1>1. q \in AllQ /\ q \notin BgReq
  BY Kinds
<1>2. /\ PlaceOf(q) /\ RefOf(q) /\ IntrOf(q) /\ loc[q] \in List
      /\ fc.iq /\ count[q] \in Int
  BY <1>1, Before
<1>3. PICK x : /\ x \in {"wait1", "wait2", "wait3"}
               /\ pc[q] = "send" /\ pc' = [pc EXCEPT ![q] = x]
  BY <1>2 DEF fuse_request_send, Goto, NextWait
<1>4. /\ loc' = [loc EXCEPT ![q] = "pending"]
      /\ count' = [count EXCEPT ![q] = @ + 1]
      /\ UNCHANGED <<fc, interrupts, flags, alive, intr_unique, cur, ret>>
  BY <1>2 DEF fuse_request_send, Move
<1>5. /\ ~InFlight(q) /\ loc[q] = "none" /\ "PENDING" \in flags[q]
      /\ "FINISHED" \notin flags[q] /\ q \in alive /\ count[q] = 1
      /\ q \notin interrupts
  BY <1>2, <1>3 DEF PlaceOf, Ongoing, InFlight, RefOf, Holds, HoldPC, IntrOf
<1>6. Unused(q)
  BY <1>1, <1>5, NotUsed
<1>7. loc'[q] = "pending" /\ count'[q] = 2
  BY <1>1, <1>4, <1>5 DEF DevInv, TypeOK
<1>8. ReqTypes
  <2>1. loc' \in [AllQ -> List] /\ count' \in [AllQ -> Int]
    BY <1>1, <1>4 DEF DevInv, TypeOK, List
  <2> QED BY <2>1, <1>4 DEF ReqTypes, DevInv, TypeOK
<1>9. Step(q, q) /\ pc'[q] = x
  <2>1. x \in SyncPC
    BY <1>3 DEF SyncPC, WaitPC
  <2>2. \A p \in AllQ \ {q} : Same(p) /\ loc'[p] = loc[p]
    BY <1>4 DEF Same, DevInv, TypeOK
  <2> QED BY <1>1, <1>3, <1>4, <1>8, <2>1, <2>2, RequesterStep
<1>10. Served(q, q)
  BY <1>1, <1>6, <1>9, RequesterServed
<1>11. InFlight(q)'
  BY <1>1, <1>7, <1>9, RequesterFlight
<1>12. PlaceOf(q)'
  BY <1>2, <1>3, <1>4, <1>5, <1>7, <1>9, <1>11 DEF PlaceOf, WaitPC
<1>13. RefOf(q)'
  BY <1>2, <1>3, <1>4, <1>5, <1>7, <1>9, <1>11 DEF RefOf, Holds, HoldPC
<1>14. IntrOf(q)'
  BY <1>2, <1>4, <1>5, <1>7 DEF IntrOf
<1>15. Uncounted(q)
  <2>1. q \notin Background /\ q \notin Background' /\ q \notin Blocked
        /\ q \notin Blocked'
    BY <1>1 DEF Background, Blocked
  <2> QED BY <2>1, <1>4 DEF Uncounted, DevInv, TypeOK
<1> QED BY <1>1, <1>9, <1>10, <1>12, <1>13, <1>14, <1>15, UncountedStep DEF Kept

LEMMA By_wait_interrupted ==
    ASSUME Lasting, DevInv, NEW q \in SyncReq, wait_interrupted(q) PROVE DevInv'
<1>1. q \in AllQ /\ q \notin BgReq
  BY Kinds
<1>2. PlaceOf(q) /\ RefOf(q) /\ IntrOf(q) /\ loc[q] \in List
  BY <1>1, Before
<1>3. /\ pc[q] = "wait1" /\ pc' = [pc EXCEPT ![q] = "intr"]
      /\ flags' = [flags EXCEPT ![q] = @ \cup {"INTERRUPTED"}]
      /\ UNCHANGED <<fc, loc, interrupts, count, alive, intr_unique, cur, ret>>
  BY DEF wait_interrupted, Goto, Set, listVars
<1>4. flags'[q] = flags[q] \cup {"INTERRUPTED"}
  BY <1>1, <1>3 DEF DevInv, TypeOK
<1>5. ReqTypes
  BY <1>3 DEF ReqTypes, DevInv, TypeOK, Flag
<1>6. Step(q, q) /\ pc'[q] = "intr"
  <2>1. "intr" \in SyncPC
    BY DEF SyncPC, WaitPC
  <2>2. \A p \in AllQ \ {q} : Same(p) /\ loc'[p] = loc[p]
    BY <1>3 DEF Same, DevInv, TypeOK
  <2> QED BY <1>1, <1>3, <1>5, <2>1, <2>2, RequesterStep
<1>7. Served(q, q)
  BY <1>1, <1>3, <1>4, <1>6, RequesterServed
<1>8. /\ InFlight(q)' <=> InFlight(q)
      /\ \A s \in Servers : pc'[s] = pc[s] /\ cur'[s] = cur[s]
  BY <1>1, <1>3, <1>6, RequesterFlight
<1>9. PlaceOf(q)'
  BY <1>1, <1>2, <1>3, <1>4, <1>6, <1>8 DEF PlaceOf, WaitPC
<1>10. RefOf(q)'
  BY <1>2, <1>3, <1>4, <1>6, <1>8 DEF RefOf, Holds, HoldPC
<1>11. IntrOf(q)'
  BY <1>2, <1>3, <1>4, <1>6, <1>8 DEF IntrOf
<1>12. Uncounted(q)
  <2>1. q \notin Background /\ q \notin Background' /\ q \notin Blocked
        /\ q \notin Blocked'
    BY <1>1 DEF Background, Blocked
  <2> QED BY <2>1, <1>3 DEF Uncounted
<1> QED BY <1>1, <1>6, <1>7, <1>9, <1>10, <1>11, <1>12, UncountedStep DEF Kept

LEMMA By_wait_queue_interrupt ==
    ASSUME Lasting, DevInv, NEW q \in SyncReq, wait_queue_interrupt(q)
    PROVE  DevInv'
<1>1. q \in AllQ /\ q \notin BgReq
  BY Kinds
<1>2. PlaceOf(q) /\ RefOf(q) /\ IntrOf(q) /\ loc[q] \in List
  BY <1>1, Before
<1>3. /\ pc[q] = "qintr"
      /\ interrupts' = IF "FINISHED" \in flags[q] THEN interrupts
                                                 ELSE interrupts \cup {q}
      /\ UNCHANGED <<fc, loc, flags, count, alive, intr_unique, cur, ret>>
  BY DEF wait_queue_interrupt, queue_interrupt, Goto, reqVars
<1>4. PICK x : x \in {"wait2", "wait3"} /\ pc' = [pc EXCEPT ![q] = x]
  BY DEF wait_queue_interrupt, Goto, NextWait
<1>5. ReqTypes
  BY <1>1, <1>3 DEF ReqTypes, DevInv, TypeOK
<1>6. Step(q, q) /\ pc'[q] = x
  <2>1. x \in SyncPC
    BY <1>4 DEF SyncPC, WaitPC
  <2>2. \A p \in AllQ \ {q} : Same(p) /\ loc'[p] = loc[p]
    BY <1>3 DEF Same
  <2> QED BY <1>1, <1>3, <1>4, <1>5, <2>1, <2>2, RequesterStep
<1>7. Served(q, q)
  BY <1>1, <1>3, <1>6, RequesterServed
<1>8. /\ InFlight(q)' <=> InFlight(q)
      /\ \A s \in Servers : pc'[s] = pc[s] /\ cur'[s] = cur[s]
  BY <1>1, <1>3, <1>6, RequesterFlight
<1>9. PlaceOf(q)'
  BY <1>1, <1>2, <1>3, <1>4, <1>6, <1>8 DEF PlaceOf, WaitPC
<1>10. RefOf(q)'
  BY <1>2, <1>3, <1>4, <1>6, <1>8 DEF RefOf, Holds, HoldPC
<1>11. IntrOf(q)'
  <2>1. CASE "FINISHED" \in flags[q]
    BY <1>2, <1>3, <1>6, <1>8, <2>1 DEF IntrOf, PlaceOf
  <2>2. CASE "FINISHED" \notin flags[q]
    <3>1. InFlight(q) /\ "PENDING" \notin flags[q]
      BY <1>2, <1>3, <2>2 DEF PlaceOf, WaitPC
    <3> QED BY <1>2, <1>3, <1>6, <1>8, <2>2, <3>1 DEF IntrOf
  <2> QED BY <2>1, <2>2
<1>12. Uncounted(q)
  <2>1. q \notin Background /\ q \notin Background' /\ q \notin Blocked
        /\ q \notin Blocked'
    BY <1>1 DEF Background, Blocked
  <2> QED BY <2>1, <1>3 DEF Uncounted
<1> QED BY <1>1, <1>6, <1>7, <1>9, <1>10, <1>11, <1>12, UncountedStep DEF Kept

(* A fatal signal takes back a request that nobody has read.               *)
LEMMA By_wait_killed ==
    ASSUME Lasting, DevInv, NEW q \in SyncReq, wait_killed(q) PROVE DevInv'
<1>1. q \in AllQ /\ q \notin BgReq
  BY Kinds
<1>2. PlaceOf(q) /\ RefOf(q) /\ IntrOf(q) /\ loc[q] \in List /\ count[q] \in Int
  BY <1>1, Before
<1>3. CASE /\ "PENDING" \in flags[q] /\ Goto(q, "wait2", "put")
           /\ Move(q, "none") /\ count' = [count EXCEPT ![q] = @ - 1]
  <2>1. /\ pc[q] = "wait2" /\ pc' = [pc EXCEPT ![q] = "put"]
        /\ loc' = [loc EXCEPT ![q] = "none"]
        /\ count' = [count EXCEPT ![q] = @ - 1]
        /\ UNCHANGED <<fc, interrupts, flags, alive, intr_unique, cur, ret>>
    BY <1>3 DEF wait_killed, Goto, Move
  <2>2. /\ loc[q] = "pending" /\ InFlight(q) /\ q \in alive /\ count[q] = 2
        /\ q \notin interrupts /\ "SENT" \notin flags[q]
    BY <1>2, <1>3, <2>1
       DEF PlaceOf, WaitPC, InFlight, RefOf, Holds, HoldPC, IntrOf
  <2>3. Unused(q)
    BY <1>1, <1>3, NotUsed
  <2>4. loc'[q] = "none" /\ count'[q] = 1
    BY <1>1, <2>1, <2>2 DEF DevInv, TypeOK
  <2>5. ReqTypes
    <3>1. loc' \in [AllQ -> List] /\ count' \in [AllQ -> Int]
      BY <1>1, <2>1 DEF DevInv, TypeOK, List
    <3> QED BY <3>1, <2>1 DEF ReqTypes, DevInv, TypeOK
  <2>6. Step(q, q) /\ pc'[q] = "put"
    <3>1. "put" \in SyncPC
      BY DEF SyncPC
    <3>2. \A p \in AllQ \ {q} : Same(p) /\ loc'[p] = loc[p]
      BY <2>1 DEF Same, DevInv, TypeOK
    <3> QED BY <1>1, <2>1, <2>5, <3>1, <3>2, RequesterStep
  <2>7. Served(q, q)
    BY <1>1, <2>3, <2>6, RequesterServed
  <2>8. ~InFlight(q)'
    BY <1>1, <2>3, <2>4, <2>6, RequesterFlight
  <2>9. PlaceOf(q)'
    BY <1>1, <1>2, <1>3, <2>1, <2>4, <2>6, <2>8 DEF PlaceOf, WaitPC
  <2>10. RefOf(q)'
    BY <1>2, <2>1, <2>2, <2>4, <2>6, <2>8 DEF RefOf, Holds, HoldPC
  <2>11. IntrOf(q)'
    BY <1>2, <2>1, <2>2, <2>4 DEF IntrOf
  <2>12. Uncounted(q)
    <3>1. q \notin Background /\ q \notin Background' /\ q \notin Blocked
          /\ q \notin Blocked'
      BY <1>1 DEF Background, Blocked
    <3> QED BY <3>1, <2>1 DEF Uncounted, DevInv, TypeOK
  <2> QED BY <1>1, <2>6, <2>7, <2>9, <2>10, <2>11, <2>12, UncountedStep DEF Kept
<1>4. CASE Goto(q, "wait2", "wait3") /\ UNCHANGED <<loc, count>>
  <2>1. PICK x : x = "wait3"
    OBVIOUS
  <2>2. /\ pc[q] = "wait2" /\ pc' = [pc EXCEPT ![q] = x]
        /\ UNCHANGED <<fc, listVars, reqVars, cur, ret>>
    BY <1>4, <2>1 DEF wait_killed, Goto, listVars, reqVars
  <2>3. pc[q] \in WaitPC
    BY <2>2 DEF WaitPC
  <2> QED BY <2>1, <2>2, <2>3, Waiting
<1> QED BY <1>3, <1>4 DEF wait_killed

(* The requester drops its reference.                                      *)
LEMMA RequesterPuts ==
    ASSUME Lasting, DevInv, NEW q \in AllQ, Holds(q), fuse_put_request(q),
           pc' = [pc EXCEPT ![q] = "done"],
           UNCHANGED <<loc, interrupts, flags, intr_unique, cur, ret>>
    PROVE  DevInv'
<1>1. PlaceOf(q) /\ RefOf(q) /\ IntrOf(q) /\ loc[q] \in List /\ count[q] \in Int
      /\ fc \in Conn /\ fc.connected /\ fc.iq /\ fc.lock = None
  BY Before
<1>2. /\ q \in alive /\ "WAITING" \in flags[q]
      /\ count[q] = 1 + One(InFlight(q))
  BY <1>1 DEF RefOf, One
<1>3. /\ count' = [count EXCEPT ![q] = @ - 1]
      /\ ~InFlight(q) => alive' = alive \ {q}
                         /\ fc' = [fc EXCEPT !.num_waiting = @ - 1]
      /\ InFlight(q) => alive' = alive /\ fc' = fc
  BY <1>1, <1>2 DEF fuse_put_request, One
<1>4. /\ fc' \in Conn /\ fc'.connected /\ fc'.iq /\ fc'.lock = None
      /\ fc'.num_background = fc.num_background
      /\ fc'.active_background = fc.active_background
      /\ fc'.num_waiting = fc.num_waiting - One(~InFlight(q))
  BY <1>1, <1>3 DEF Conn, One
<1>5. ReqTypes
  <2>1. count' \in [AllQ -> Int] /\ alive' \subseteq AllQ
    BY <1>3 DEF DevInv, TypeOK
  <2> QED BY <2>1, <1>4 DEF ReqTypes, DevInv, TypeOK
<1>6. Step(q, q) /\ pc'[q] = "done"
  <2>1. "done" \in SyncPC /\ "done" \in BgPC
    BY DEF SyncPC, BgPC
  <2>2. \A p \in AllQ \ {q} : Same(p) /\ loc'[p] = loc[p]
    BY <1>3 DEF Same, DevInv, TypeOK
  <2> QED BY <1>5, <2>1, <2>2, RequesterStep
<1>7. Served(q, q)
  BY <1>6, RequesterServed
<1>8. /\ InFlight(q)' <=> InFlight(q)
      /\ \A s \in Servers : pc'[s] = pc[s] /\ cur'[s] = cur[s]
  BY <1>6, RequesterFlight
<1>9. PlaceOf(q)'
  BY <1>1, <1>6, <1>8 DEF PlaceOf, WaitPC
<1>10. RefOf(q)'
  <2>1. count'[q] = One(InFlight(q)) /\ (q \in alive' <=> InFlight(q))
    BY <1>2, <1>3 DEF DevInv, TypeOK, One
  <2>2. ~Holds(q)'
    BY <1>6 DEF Holds, HoldPC
  <2> QED BY <1>2, <1>8, <2>1, <2>2 DEF RefOf, One
<1>11. IntrOf(q)'
  BY <1>1, <1>6, <1>8 DEF IntrOf
<1>12. WaitingInv'
  <2>1. q \notin Blocked /\ q \notin Blocked' /\ (q \in alive' <=> InFlight(q))
    BY <1>2, <1>3, <1>6 DEF Blocked, Holds, HoldPC
  <2>2. Waits(q) = 1 /\ Waits(q)' = One(InFlight(q))
    BY <1>2, <2>1 DEF Waits, One
  <2>3. fc'.num_waiting = fc.num_waiting + Waits(q)' - Waits(q)
    BY <1>1, <1>4, <2>2 DEF One, Conn
  <2> QED BY <2>3, <1>6, WaitingStep
<1>13. BackgroundCounted'
  <2>1. (q \in Background') = (q \in Background)
    BY <1>8 DEF Background
  <2> QED BY <2>1, <1>4, <1>6, BackgroundStep
<1> QED BY <1>6, <1>7, <1>9, <1>10, <1>11, <1>12, <1>13, StepKeeps DEF Kept

LEMMA By_requester_put ==
    ASSUME Lasting, DevInv, NEW q \in SyncReq, requester_put(q) PROVE DevInv'
<1>1. /\ q \in AllQ /\ Holds(q) /\ pc' = [pc EXCEPT ![q] = "done"]
      /\ UNCHANGED <<loc, interrupts, flags, intr_unique, cur, ret>>
      /\ fuse_put_request(q)
  BY Kinds DEF requester_put, Goto, Holds, HoldPC, listVars
<1> QED BY <1>1, RequesterPuts

-----------------------------------------------------------------------------
(* The requesters of background requests                                   *)

(* A step that changes nothing DevInv depends on: it may change the limit  *)
(* or another field of the connection, or start the thread that aborts.    *)
Rests ==
    /\ TypeOK' /\ fc'.num_waiting = fc.num_waiting
    /\ fc'.num_background = fc.num_background
    /\ fc'.active_background = fc.active_background
    /\ \A t \in AllQ \cup Servers : pc'[t] = pc[t]
    /\ UNCHANGED <<loc, flags, count, alive, interrupts, intr_unique, cur, ret>>

LEMMA Idling ==
    ASSUME Lasting, DevInv, Rests PROVE DevInv'
<1> USE DEF Rests
<1>2. ASSUME NEW q \in AllQ
      PROVE  (InFlight(q)' <=> InFlight(q)) /\ (Holds(q)' <=> Holds(q))
  <2>1. \A u \in Killers : pc[u] \notin OwnPC /\ pc'[u] \notin OwnPC
    BY DEF DevInv, TypeOK, OwnPC, EndPC
  <2> QED BY <2>1, Kinds DEF InFlight, Holds
<1>1. ServerInv' /\ AloneInv'
  <2>1. ASSUME NEW s \in Servers PROVE ServerOf(s)'
    <3>1. ServerOf(s)
      BY DEF DevInv, ServerInv
    <3>2. \A r \in AllQ : Ongoing(r) => Ongoing(r)'
      BY <1>2 DEF Ongoing
    <3> QED BY <3>1, <3>2 DEF ServerOf
  <2> QED BY <2>1 DEF DevInv, ServerInv, AloneInv
<1>3. PlaceInv' /\ RefInv'
  <2>1. ASSUME NEW q \in AllQ PROVE PlaceOf(q)' /\ RefOf(q)'
    <3>1. PlaceOf(q) /\ RefOf(q)
      BY DEF DevInv, PlaceInv, RefInv
    <3> QED BY <1>2, <3>1 DEF PlaceOf, RefOf, Ongoing
  <2> QED BY <2>1 DEF PlaceInv, RefInv
<1>4. IntrInv'
  <2>1. ASSUME NEW q \in AllQ PROVE IntrOf(q)'
    <3>1. IntrOf(q) /\ (InFlight(q)' <=> InFlight(q))
      BY <1>2 DEF DevInv, IntrInv
    <3> QED BY <3>1 DEF IntrOf
  <2> QED BY <2>1 DEF IntrInv
<1>5. WaitingInv'
  <2>1. Blocked' = Blocked
    BY Kinds DEF Blocked
  <2> QED BY <2>1 DEF DevInv, WaitingInv, Blocked
<1>6. BackgroundCounted'
  <2>1. Background' = Background /\ On("bg_queue")' = On("bg_queue")
    BY <1>2, Kinds DEF Background, On
  <2> QED BY <2>1 DEF DevInv, BackgroundCounted
<1> QED BY <1>1, <1>3, <1>4, <1>5, <1>6 DEF DevInv

(* A thread that waits for its turn, or gives up.                          *)
Queues(q, x, n) ==
    /\ pc[q] \in {"start", "get", "blocked"} /\ pc' = [pc EXCEPT ![q] = x]
    /\ x \in {"get", "blocked", "done"}
    /\ UNCHANGED <<loc, interrupts, reqVars, cur, ret>>
    /\ fc' = [fc EXCEPT !.num_waiting = @ + n]
    /\ n = One(x # "done") - One(pc[q] # "start")

LEMMA Queueing ==
    ASSUME Lasting, DevInv, NEW q \in BgReq, NEW x, NEW n \in Int, Queues(q, x, n)
    PROVE  DevInv'
<1> USE DEF Queues
<1>1. q \in AllQ /\ fc \in Conn /\ fc.connected /\ fc.iq /\ fc.lock = None
  BY Kinds DEF DevInv, TypeOK
<1>2. /\ fc' \in Conn /\ fc'.connected /\ fc'.iq /\ fc'.lock = None
      /\ fc'.num_background = fc.num_background
      /\ fc'.active_background = fc.active_background
      /\ fc'.num_waiting = fc.num_waiting + n
  BY <1>1 DEF Conn
<1>3. q \in Blocked <=> pc[q] # "start"
  BY DEF Blocked
<1>4. fc'.num_waiting = fc.num_waiting + One(x # "done") - One(q \in Blocked)
  BY <1>1, <1>2, <1>3 DEF One, Conn
<1>5. x = "done" \/ (q \in BgReq /\ x \in {"get", "blocked"})
  OBVIOUS
<1>6. Skips(q, x)
  BY <1>2, <1>4, <1>5 DEF Skips
<1> HIDE DEF Queues
<1> QED BY <1>1, <1>6, NotAllocated

LEMMA By_fuse_get_req_for_background ==
    ASSUME Lasting, DevInv, NEW q \in BgReq, fuse_get_req_for_background(q)
    PROVE  DevInv'
<1>1. PICK x : x \in {"get", "blocked", "done"} /\ x # "done"
               /\ pc' = [pc EXCEPT ![q] = x] /\ pc[q] = "start"
  BY DEF fuse_get_req_for_background, Goto
<1>2. PICK n \in Int : n = 1
  OBVIOUS
<1>3. /\ fc' = [fc EXCEPT !.num_waiting = @ + n]
      /\ UNCHANGED <<loc, interrupts, reqVars, cur, ret>>
  BY <1>2 DEF fuse_get_req_for_background, listVars
<1>4. n = One(x # "done") - One(pc[q] # "start")
  BY <1>1, <1>2 DEF One
<1>5. pc[q] \in {"start", "get", "blocked"}
  BY <1>1
<1>6. Queues(q, x, n)
  BY <1>1, <1>3, <1>4, <1>5 DEF Queues
<1> QED BY <1>6, Queueing

LEMMA By_blocked_woken ==
    ASSUME Lasting, DevInv, NEW q \in BgReq, blocked_woken(q) PROVE DevInv'
<1>1. CASE UNCHANGED pc
  <2>1. Rests
    BY <1>1 DEF blocked_woken, Rests, DevInv, TypeOK, listVars, reqVars
  <2> QED BY <2>1, Idling
<1>2. CASE Goto(q, "blocked", "get")
  <2>1. PICK x : x = "get"
    OBVIOUS
  <2>2. PICK n \in Int : n = 0
    OBVIOUS
  <2>3. /\ pc' = [pc EXCEPT ![q] = x] /\ pc[q] = "blocked"
        /\ UNCHANGED <<loc, interrupts, reqVars, cur, ret>> /\ fc' = fc
    BY <1>2, <2>1 DEF blocked_woken, Goto, listVars
  <2>4. fc' = [fc EXCEPT !.num_waiting = @ + n]
    BY <2>2, <2>3 DEF DevInv, TypeOK, Conn
  <2>5. n = One(x # "done") - One(pc[q] # "start")
    BY <2>1, <2>2, <2>3 DEF One
  <2>6. pc[q] \in {"start", "get", "blocked"} /\ x \in {"get", "blocked", "done"}
    BY <2>1, <2>3
  <2>7. Queues(q, x, n)
    BY <2>3, <2>4, <2>5, <2>6 DEF Queues
  <2> QED BY <2>7, Queueing
<1> QED BY <1>1, <1>2 DEF blocked_woken

LEMMA By_blocked_killed ==
    ASSUME Lasting, DevInv, NEW q \in BgReq, blocked_killed(q) PROVE DevInv'
<1>1. CASE /\ Goto(q, "blocked", "done")
           /\ fc' = [fc EXCEPT !.num_waiting = @ - 1]
  <2>1. PICK x : x = "done"
    OBVIOUS
  <2>2. PICK n \in Int : n = -1
    OBVIOUS
  <2>3. /\ pc' = [pc EXCEPT ![q] = x] /\ pc[q] = "blocked"
        /\ UNCHANGED <<loc, interrupts, reqVars, cur, ret>>
    BY <1>1, <2>1 DEF blocked_killed, Goto, listVars
  <2>4. fc' = [fc EXCEPT !.num_waiting = @ + n]
    BY <1>1, <2>2 DEF DevInv, TypeOK, Conn
  <2>5. n = One(x # "done") - One(pc[q] # "start")
    BY <2>1, <2>2, <2>3 DEF One
  <2>6. pc[q] \in {"start", "get", "blocked"} /\ x \in {"get", "blocked", "done"}
    BY <2>1, <2>3
  <2>7. Queues(q, x, n)
    BY <2>3, <2>4, <2>5, <2>6 DEF Queues
  <2> QED BY <2>7, Queueing
<1>2. CASE Goto(q, "blocked", "get") /\ UNCHANGED fc
  <2>1. PICK x : x = "get"
    OBVIOUS
  <2>2. PICK n \in Int : n = 0
    OBVIOUS
  <2>3. /\ pc' = [pc EXCEPT ![q] = x] /\ pc[q] = "blocked"
        /\ UNCHANGED <<loc, interrupts, reqVars, cur, ret>> /\ fc' = fc
    BY <1>2, <2>1 DEF blocked_killed, Goto, listVars
  <2>4. fc' = [fc EXCEPT !.num_waiting = @ + n]
    BY <2>2, <2>3 DEF DevInv, TypeOK, Conn
  <2>5. n = One(x # "done") - One(pc[q] # "start")
    BY <2>1, <2>2, <2>3 DEF One
  <2>6. pc[q] \in {"start", "get", "blocked"} /\ x \in {"get", "blocked", "done"}
    BY <2>1, <2>3
  <2>7. Queues(q, x, n)
    BY <2>3, <2>4, <2>5, <2>6 DEF Queues
  <2> QED BY <2>7, Queueing
<1> QED BY <1>1, <1>2 DEF blocked_killed

LEMMA By_get_req_alloc ==
    ASSUME Lasting, DevInv, NEW q \in BgReq, get_req_alloc(q) PROVE DevInv'
<1>1. /\ q \in AllQ /\ q \in Blocked /\ pc[q] = "get"
      /\ UNCHANGED <<loc, interrupts, cur, ret>>
  BY Kinds DEF get_req_alloc, Goto, Blocked, listVars
<1>2. fc \in Conn /\ fc.connected /\ fc.iq /\ fc.lock = None
  BY DEF DevInv, TypeOK
<1>3. CASE Goto(q, "get", "send") /\ fuse_request_alloc(q) /\ UNCHANGED fc
  <2>1. fc' = fc /\ fc'.num_waiting = fc.num_waiting + 1 - One(q \in Blocked)
    BY <1>1, <1>2, <1>3 DEF Conn, One
  <2>2. /\ fc' \in Conn /\ fc'.connected /\ fc'.iq /\ fc'.lock = None
        /\ fc'.num_background = fc.num_background
        /\ fc'.active_background = fc.active_background
    BY <1>2, <2>1
  <2>3. pc[q] \in {"start", "get"} /\ pc' = [pc EXCEPT ![q] = "send"]
    BY <1>3 DEF Goto
  <2> QED BY <1>1, <1>3, <2>1, <2>2, <2>3, Allocated
<1>4. CASE /\ Goto(q, "get", "done") /\ UNCHANGED reqVars
           /\ fc' = [fc EXCEPT !.num_waiting = @ - 1]
  <2>1. PICK x : x = "done"
    OBVIOUS
  <2>2. PICK n \in Int : n = -1
    OBVIOUS
  <2>3. pc' = [pc EXCEPT ![q] = x] /\ UNCHANGED <<loc, interrupts, reqVars, cur, ret>>
    BY <1>1, <1>4, <2>1 DEF Goto
  <2>4. fc' = [fc EXCEPT !.num_waiting = @ + n]
    BY <1>2, <1>4, <2>2 DEF Conn
  <2>5. n = One(x # "done") - One(pc[q] # "start")
    BY <1>1, <2>1, <2>2 DEF One
  <2>6. pc[q] \in {"start", "get", "blocked"} /\ x \in {"get", "blocked", "done"}
    BY <1>1, <2>1
  <2>7. Queues(q, x, n)
    BY <2>3, <2>4, <2>5, <2>6 DEF Queues
  <2> QED BY <2>7, Queueing
<1> QED BY <1>3, <1>4 DEF get_req_alloc

LEMMA By_background_unsent ==
    ASSUME Lasting, DevInv, NEW q \in BgReq, background_unsent(q) PROVE DevInv'
<1>1. /\ q \in AllQ /\ Holds(q) /\ pc' = [pc EXCEPT ![q] = "done"]
      /\ UNCHANGED <<loc, interrupts, flags, intr_unique, cur, ret>>
      /\ fuse_put_request(q)
  BY Kinds DEF background_unsent, Goto, Holds, HoldPC, listVars
<1> QED BY <1>1, RequesterPuts

(* Background requests leave bg_queue.  S are those that flush_bg_queue    *)
(* moves; the counts of the requests under way follow.                     *)
Active == Background \ On("bg_queue")
Flushed(f, l, S) ==
    /\ S \subseteq {q \in AllQ : l[q] = "bg_queue"}
    /\ fc' = [f EXCEPT !.active_background = @ + Cardinality(S)]
    /\ loc' = [q \in AllQ |-> IF q \in S THEN "pending" ELSE l[q]]

LEMMA Flushing ==
    ASSUME NEW f, NEW l, flush_bg_queue(f, l)
    PROVE  \E S : Flushed(f, l, S)
  BY DEF flush_bg_queue, Flushed

LEMMA CardJoin ==
    ASSUME NEW S, NEW T, IsFiniteSet(S), IsFiniteSet(T), T \cap S = {}
    PROVE  /\ Cardinality(S \cup T) = Cardinality(S) + Cardinality(T)
           /\ Cardinality(S) \in Nat /\ Cardinality(T) \in Nat
<1>1. Cardinality(S \cup T) = Cardinality(S) + Cardinality(T)
                              - Cardinality(S \cap T)
  BY FS_Union
<1>2. S \cap T = {}
  OBVIOUS
<1>3. Cardinality(S \cap T) = 0
  BY <1>2, FS_EmptySet
<1>4. PICK a \in Nat, b \in Nat : a = Cardinality(S) /\ b = Cardinality(T)
  BY FS_CardinalityType
<1>5. Cardinality(S \cup T) = a + b - 0
  BY <1>1, <1>3, <1>4
<1>6. Cardinality(S \cup T) = a + b
  BY <1>5
<1> QED BY <1>4, <1>6

LEMMA FlushCounted ==
    ASSUME Lasting, DevInv, NEW t, NEW q, Step(t, q), NEW S \in SUBSET AllQ,
           fc'.num_background = fc.num_background + One(q \in Background')
                                - One(q \in Background),
           fc'.active_background = fc.active_background - One(q \in Active)
                                   + Cardinality(S),
           Active' = (Active \ {q}) \cup S, S \cap (Active \ {q}) = {}
    PROVE  BackgroundCounted'
<1>1. /\ Background \subseteq AllQ /\ Background \ {q} = Background' \ {q}
      /\ Active \subseteq AllQ
  <2>1. ASSUME NEW p \in BgReq \ {q}
        PROVE  (p \in Background') = (p \in Background)
    BY OthersFlight, Kinds DEF Step, Same, Background
  <2> QED BY <2>1, Kinds DEF Background, Active
<1>2. Cardinality(Background') = Cardinality(Background) + One(q \in Background')
                                 - One(q \in Background)
  <2> DEFINE X == Background
             Y == Background'
  <2>1. IsFiniteSet(X) /\ X \ {q} = Y \ {q}
    BY <1>1, FiniteReqs
  <2> HIDE DEF X, Y
  <2>2. Cardinality(Y) = Cardinality(X) + One(q \in Y) - One(q \in X)
    BY <2>1, CardOne
  <2> QED BY <2>2 DEF X, Y
<1>3. Cardinality(Active') = Cardinality(Active) - One(q \in Active)
                             + Cardinality(S)
  <2> DEFINE X == Active
             Y == Active \ {q}
  <2>1. IsFiniteSet(X) /\ X \ {q} = Y \ {q} /\ q \notin Y
    BY <1>1, FiniteReqs
  <2>2. IsFiniteSet(Y) /\ IsFiniteSet(S) /\ S \cap Y = {} /\ Active' = Y \cup S
    BY <1>1, FiniteReqs
  <2> HIDE DEF X, Y
  <2>3. Cardinality(Y) = Cardinality(X) + One(q \in Y) - One(q \in X)
    BY <2>1, CardOne
  <2>4. /\ Cardinality(Y \cup S) = Cardinality(Y) + Cardinality(S)
        /\ Cardinality(Y) \in Nat /\ Cardinality(S) \in Nat
    BY <2>2, CardJoin
  <2>5. One(q \in Y) = 0 /\ Cardinality(X) \in Nat /\ One(q \in X) \in Nat
    BY <2>1, FS_CardinalityType DEF One
  <2>6. PICK x \in Nat, y \in Nat, o \in Nat, z \in Nat :
          /\ x = Cardinality(X) /\ y = Cardinality(Y)
          /\ o = One(q \in X) /\ z = Cardinality(S)
    BY <2>4, <2>5
  <2>7. y = x + 0 - o
    BY <2>3, <2>5, <2>6
  <2>8. Cardinality(Active') = y + z
    BY <2>2, <2>4, <2>6
  <2>9. Cardinality(Active') = x - o + z
    BY <2>7, <2>8
  <2> QED BY <2>6, <2>9 DEF X
<1>4. /\ fc.num_background = Cardinality(Background)
      /\ fc.active_background = Cardinality(Active)
  BY DEF DevInv, BackgroundCounted, Active
<1>5. /\ fc'.num_background = Cardinality(Background')
      /\ fc'.active_background = Cardinality(Active')
  BY <1>2, <1>3, <1>4
<1> QED BY <1>5 DEF BackgroundCounted, Active

LEMMA By_fuse_request_send_background ==
    ASSUME Lasting, DevInv, NEW q \in BgReq, fuse_request_send_background(q)
    PROVE  DevInv'
<1>1. q \in AllQ /\ q \notin SyncReq
  BY Kinds
<1>2. PlaceOf(q) /\ RefOf(q) /\ IntrOf(q) /\ loc[q] \in List /\ count[q] \in Int
      /\ fc \in Conn /\ fc.connected /\ fc.iq /\ fc.lock = None
  BY <1>1, Before
<1>3. /\ pc[q] = "send" /\ pc' = [pc EXCEPT ![q] = "done"]
      /\ background_queued(q)
      /\ UNCHANGED <<count, alive, interrupts, flags, intr_unique, cur, ret>>
  BY <1>2 DEF fuse_request_send_background, Goto
<1>4. /\ ~InFlight(q) /\ loc[q] = "none" /\ "PENDING" \in flags[q]
      /\ "FINISHED" \notin flags[q] /\ "BACKGROUND" \in flags[q]
      /\ q \in alive /\ count[q] = 1 /\ q \notin interrupts
      /\ "WAITING" \in flags[q]
  BY <1>2, <1>3 DEF PlaceOf, Ongoing, InFlight, RefOf, Holds, HoldPC, IntrOf
<1>5. PICK l : l = [loc EXCEPT ![q] = "bg_queue"]
  OBVIOUS
<1>6. PICK f : /\ f \in Conn /\ f.connected /\ f.iq /\ f.lock = None
               /\ f.num_background = fc.num_background + 1
               /\ f.active_background = fc.active_background
               /\ f.num_waiting = fc.num_waiting
               /\ flush_bg_queue(f, l)
  <2> DEFINE g == [fc EXCEPT !.num_background = @ + 1]
             h == [g EXCEPT
                     !.blocked = @ \/ g.num_background = fc.max_background,
                     !.congested = @ \/ g.num_background = CongestionThreshold]
  <2>1. flush_bg_queue(h, l)
    BY <1>3, <1>5 DEF background_queued
  <2>2. /\ g \in Conn /\ g.connected /\ g.iq /\ g.lock = None
        /\ g.num_background = fc.num_background + 1
        /\ g.active_background = fc.active_background
        /\ g.num_waiting = fc.num_waiting
    BY <1>2 DEF Conn
  <2> HIDE DEF g
  <2>3. /\ h \in Conn /\ h.connected /\ h.iq /\ h.lock = None
        /\ h.num_background = g.num_background
        /\ h.active_background = g.active_background
        /\ h.num_waiting = g.num_waiting
    BY <2>2 DEF Conn
  <2> HIDE DEF h
  <2> QED BY <2>1, <2>2, <2>3
<1>7. PICK S : Flushed(f, l, S)
  BY <1>6, Flushing
<1>8. /\ \A p \in AllQ \ {q} : l[p] = loc[p]
      /\ l[q] = "bg_queue"
  BY <1>1, <1>5 DEF DevInv, TypeOK
<1>9. /\ S \in SUBSET AllQ /\ Cardinality(S) \in Nat
      /\ \A p \in S : l[p] = "bg_queue" /\ loc'[p] = "pending"
      /\ \A p \in AllQ \ S : loc'[p] = l[p]
      /\ fc' = [f EXCEPT !.active_background = @ + Cardinality(S)]
  BY <1>7, FiniteReqs DEF Flushed
<1>10. /\ fc' \in Conn /\ fc'.connected /\ fc'.iq /\ fc'.lock = None
       /\ fc'.num_background = fc.num_background + 1
       /\ fc'.active_background = fc.active_background + Cardinality(S)
       /\ fc'.num_waiting = fc.num_waiting
  BY <1>6, <1>9 DEF Conn
<1>11. /\ loc'[q] \in {"pending", "bg_queue"}
       /\ \A p \in AllQ \ {q} :
            loc'[p] = loc[p] \/ (loc[p] = "bg_queue" /\ loc'[p] = "pending")
       /\ loc' \in [AllQ -> List]
  <2>1. loc'[q] \in {"pending", "bg_queue"}
       /\ \A p \in AllQ \ {q} :
            loc'[p] = loc[p] \/ (loc[p] = "bg_queue" /\ loc'[p] = "pending")
    BY <1>1, <1>8, <1>9
  <2>2. \A p \in AllQ : loc'[p] \in List
    BY <2>1 DEF DevInv, TypeOK, List
  <2>3. loc' = [p \in AllQ |-> loc'[p]]
    BY <1>7 DEF Flushed
  <2> QED BY <2>1, <2>2, <2>3
<1>12. ReqTypes
  BY <1>3, <1>10, <1>11 DEF ReqTypes, DevInv, TypeOK
<1>13. Step(q, q) /\ pc'[q] = "done"
  <2>1. "done" \in BgPC
    BY DEF BgPC
  <2>2. \A p \in AllQ \ {q} : Same(p)
    BY <1>3 DEF Same
  <2> QED BY <1>1, <1>3, <1>11, <1>12, <2>1, <2>2, RequesterStep
<1>14. Unused(q)
  BY <1>1, <1>4, NotUsed
<1>15. Served(q, q)
  BY <1>1, <1>13, <1>14, RequesterServed
<1>16. InFlight(q)'
  BY <1>1, <1>11, <1>13, RequesterFlight
<1>17. PlaceOf(q)'
  BY <1>2, <1>3, <1>4, <1>11, <1>13, <1>16 DEF PlaceOf, WaitPC
<1>18. RefOf(q)'
  BY <1>3, <1>4, <1>13, <1>16 DEF RefOf, Holds, HoldPC
<1>19. IntrOf(q)'
  BY <1>2, <1>3, <1>4, <1>11, <1>13 DEF IntrOf
<1>20. WaitingInv'
  <2>1. Waits(q)' = Waits(q)
    BY <1>3, <1>13 DEF Waits, Blocked
  <2>2. Waits(q) \in Int /\ fc.num_waiting \in Int
    BY <1>2 DEF Waits, One, Conn
  <2>3. fc'.num_waiting = fc.num_waiting + Waits(q)' - Waits(q)
    BY <1>10, <2>1, <2>2
  <2> QED BY <2>3, <1>13, WaitingStep
<1>21. BackgroundCounted'
  <2>1. q \notin Background /\ q \notin Active /\ q \in Background'
    BY <1>3, <1>4, <1>16 DEF Background, Active
  <2>2. \A p \in BgReq \ {q} : (p \in Background') = (p \in Background)
    BY <1>13, OthersFlight, Kinds DEF Step, Same, Background
  <2>3. ASSUME NEW p \in S \ {q} PROVE p \in Background \ Active
    <3>1. p \in AllQ /\ loc[p] = "bg_queue"
      BY <2>3, <1>8, <1>9
    <3>2. PlaceOf(p)
      BY <3>1 DEF DevInv, PlaceInv
    <3> QED BY <3>1, <3>2 DEF PlaceOf, Background, InFlight, Active, On
  <2>4. S \cap (Active \ {q}) = {}
    BY <2>3
  <2>5. Active' = (Active \ {q}) \cup S
    <3>1. ASSUME NEW p \in Active' PROVE p \in (Active \ {q}) \cup S
      <4>1. p \in BgReq /\ p \in AllQ /\ p \in Background' /\ loc'[p] # "bg_queue"
        BY <3>1, Kinds DEF Active, Background, On
      <4> QED BY <4>1, <1>8, <1>9, <2>2 DEF Active, On
    <3>2. ASSUME NEW p \in Active \ {q} PROVE p \in Active'
      <4>1. p \in BgReq /\ p \in AllQ /\ p \in Background' /\ loc[p] # "bg_queue"
        BY <3>2, <2>2, Kinds DEF Active, Background, On
      <4> QED BY <4>1, <1>11, <3>2 DEF Active, On
    <3>3. ASSUME NEW p \in S PROVE p \in Active'
      <4>1. p \in Background'
        BY <2>1, <2>2, <2>3 DEF Background
      <4> QED BY <4>1, <1>9 DEF Active, On
    <3> QED BY <2>1, <3>1, <3>2, <3>3
  <2>6. /\ fc'.num_background = fc.num_background + One(q \in Background')
                                - One(q \in Background)
        /\ fc'.active_background = fc.active_background - One(q \in Active)
                                   + Cardinality(S)
    BY <1>2, <1>9, <1>10, <2>1 DEF One, Conn
  <2> QED BY <1>9, <1>13, <2>4, <2>5, <2>6, FlushCounted
<1> QED BY <1>13, <1>15, <1>17, <1>18, <1>19, <1>20, <1>21, StepKeeps DEF Kept


-----------------------------------------------------------------------------
(* The threads of the daemon                                               *)

(* Thread s goes to x and works on request q, before or after the step.    *)
Serves(s, q, x) ==
    /\ q \in AllQ /\ x \in ServerPC /\ pc' = [pc EXCEPT ![s] = x]
    /\ pc[s] \in UsePC => cur[s] = q
    /\ \/ cur' = cur /\ (x \in UsePC => cur[s] = q)
       \/ cur' = [cur EXCEPT ![s] = q]
    /\ ret' = ret \/ ret' = [ret EXCEPT ![s] = "idle"]
    /\ ReqTypes
    /\ \A p \in AllQ \ {q} :
          Same(p) /\ (loc'[p] = loc[p]
                      \/ (loc[p] = "bg_queue" /\ loc'[p] = "pending"))

LEMMA ServerStep ==
    ASSUME Lasting, DevInv, NEW s \in Servers, NEW q, NEW x, Serves(s, q, x)
    PROVE  /\ Step(s, q) /\ pc'[s] = x /\ pc'[q] = pc[q]
           /\ x \in UsePC => cur'[s] = q
           /\ \A u \in Servers \ {s} : pc'[u] = pc[u] /\ cur'[u] = cur[u]
           /\ Holds(q)' <=> Holds(q)
<1> USE DEF Serves
<1>1. /\ pc \in [AllQ \cup Enders -> PC] /\ cur \in [Enders -> AllQ \cup {None}]
      /\ ret \in [Enders -> {"idle"}]
      /\ \A p \in SyncReq : pc[p] \in SyncPC
      /\ \A p \in BgReq : pc[p] \in BgPC
      /\ \A u \in Servers : pc[u] \in ServerPC
      /\ \A t \in Killers : pc[t] \in {"open", "abort"}
  BY DEF DevInv, TypeOK
<1>2. s \in Enders /\ s \in AllQ \cup Enders /\ s \notin AllQ /\ s \notin Killers
  BY Kinds
<1>3. x \in PC
  BY DEF PC
<1>4. /\ pc' \in [AllQ \cup Enders -> PC] /\ pc'[s] = x
      /\ \A u \in (AllQ \cup Enders) \ {s} : pc'[u] = pc[u]
  BY <1>1, <1>2, <1>3
<1>5. /\ cur' \in [Enders -> AllQ \cup {None}]
      /\ x \in UsePC => cur'[s] = q
      /\ \A u \in Enders \ {s} : cur'[u] = cur[u]
  BY <1>1, <1>2
<1>6. /\ ret' \in [Enders -> {"idle"}]
      /\ \A u \in Enders \ {s} : ret'[u] = ret[u]
  BY <1>1, <1>2
<1>7. /\ \A p \in SyncReq : pc'[p] \in SyncPC
      /\ \A p \in BgReq : pc'[p] \in BgPC
      /\ \A u \in Servers : pc'[u] \in ServerPC
      /\ \A t \in Killers : pc'[t] \in {"open", "abort"}
  BY <1>1, <1>2, <1>4, Kinds
<1>8. TypeOK'
  BY <1>4, <1>5, <1>6, <1>7 DEF TypeOK, ReqTypes
<1>9. Actor(s, q)
  BY <1>4, <1>5 DEF Actor
<1>10. Step(s, q)
  BY <1>4, <1>5, <1>6, <1>8, <1>9 DEF Step
<1>11. pc'[q] = pc[q]
  BY <1>2, <1>4
<1>12. \A u \in Servers \ {s} : pc'[u] = pc[u] /\ cur'[u] = cur[u]
  BY <1>4, <1>5, Kinds
<1> QED BY <1>4, <1>5, <1>10, <1>11, <1>12 DEF Holds

LEMMA ServerFlight ==
    ASSUME Lasting, DevInv, NEW s \in Servers, NEW q, NEW x, Serves(s, q, x)
    PROVE  InFlight(q)' <=> loc'[q] # "none" \/ x \in OwnPC \/ OtherOwns(s, q)
<1>1. Step(s, q) /\ pc'[s] = x /\ (x \in UsePC => cur'[s] = q)
  BY ServerStep
<1>2. InFlight(q)' <=> loc'[q] # "none" \/ Owns(s, q)' \/ OtherOwns(s, q)
  BY <1>1, FlightAfter DEF DevInv
<1>3. Owns(s, q)' <=> x \in OwnPC
  BY <1>1 DEF Owns, UsePC, LatePC
<1> QED BY <1>2, <1>3

(* The thread that has a request is the only one to have it.               *)
Sole(s, q) == \A u \in Servers \ {s} : pc[u] \in OwnPC => cur[u] # q
LEMMA OwnerAlone ==
    ASSUME Lasting, DevInv, NEW s \in Servers, pc[s] \in OwnPC
    PROVE  Sole(s, cur[s]) /\ InFlight(cur[s]) /\ cur[s] \in AllQ
<1>1. ServerOf(s)
  BY DEF DevInv, ServerInv
<1>2. cur[s] \in AllQ
  BY <1>1 DEF ServerOf, UsePC, LatePC
<1>3. Sole(s, cur[s])
  BY DEF DevInv, AloneInv, Sole
<1>4. InFlight(cur[s])
  BY Kinds DEF InFlight
<1> QED BY <1>2, <1>3, <1>4

(* The thread carries q on: q is in flight before and after, and no        *)
(* reference and no count changes.                                         *)
Alike(q) == /\ loc'[q] = loc[q]
            /\ \A f \in {"PENDING", "FINISHED", "BACKGROUND"} :
                  f \in flags'[q] <=> f \in flags[q]
Carries(s, q, x) ==
    /\ Serves(s, q, x) /\ UNCHANGED <<fc, count, alive>>
    /\ \A p \in AllQ \ {q} : loc'[p] = loc[p]
    /\ \A f \in {"WAITING", "BACKGROUND"} : f \in flags'[q] <=> f \in flags[q]
    /\ "PENDING" \notin flags'[q] /\ flags'[q] \cap {"ABORTED", "PRIVATE"} = {}
    /\ "FINISHED" \in flags'[q] => loc'[q] = "none"
    /\ loc[q] # "bg_queue" /\ loc'[q] \in {"none", "io", "processing"}
    /\ InFlight(q) /\ InFlight(q)'
    /\ Sole(s, q) \/ Alike(q)
    /\ x \in OwnPC => Sole(s, q)

LEMMA ServerServed ==
    ASSUME Lasting, DevInv, NEW s \in Servers, NEW q, NEW x, Serves(s, q, x),
           Sole(s, q) \/ Alike(q), x \in OwnPC => Sole(s, q), ServerOf(s)',
           "PENDING" \notin flags'[q], Ongoing(q)'
    PROVE  Served(s, q)
<1>1. /\ Step(s, q) /\ pc'[s] = x
      /\ \A u \in Servers \ {s} : pc'[u] = pc[u] /\ cur'[u] = cur[u]
  BY ServerStep
<1>2. ASSUME NEW u \in Servers \ {s}, pc[u] \in UsePC, cur[u] = q
      PROVE  ServerOf(u)'
  <2>1. ServerOf(u)
    BY DEF DevInv, ServerInv
  <2>2. CASE Alike(q)
    BY <1>1, <1>2, <2>1, <2>2 DEF ServerOf, Alike
  <2>3. CASE Sole(s, q)
    <3>1. pc[u] \in LatePC \cup {"wr_qintr"} /\ pc[u] \notin OwnPC
      BY <1>2, <2>3 DEF Sole, UsePC, LatePC
    <3>2. q \in AllQ
      BY DEF Serves
    <3> QED BY <1>1, <1>2, <3>1, <3>2 DEF ServerOf, OwnPC, LatePC, CopyPC, EndPC
  <2> QED BY <2>2, <2>3
<1>3. Owns(s, q)' => ~OtherOwns(s, q)
  BY <1>1 DEF Owns, OtherOwns, Sole, UsePC, LatePC
<1> QED BY <1>2, <1>3 DEF Served

LEMMA Carried ==
    ASSUME Lasting, DevInv, NEW s \in Servers, NEW q, NEW x, Carries(s, q, x),
           ServerOf(s)', IntrOf(q)'
    PROVE  DevInv'
<1>1. q \in AllQ /\ Serves(s, q, x)
  BY DEF Carries, Serves
<1>2. Step(s, q) /\ pc'[q] = pc[q] /\ (Holds(q)' <=> Holds(q))
  BY <1>1, ServerStep
<1>3. Served(s, q)
  BY <1>1, ServerServed DEF Carries, Ongoing
<1>4. PlaceOf(q) /\ RefOf(q)
  BY <1>1, Before
<1>5. PlaceOf(q)'
  BY <1>2, <1>4 DEF PlaceOf, Carries, Ongoing
<1>6. RefOf(q)'
  BY <1>2, <1>4 DEF RefOf, Carries
<1>7. Uncounted(q)
  <2>1. (q \in Blocked') = (q \in Blocked)
    BY <1>2 DEF Blocked
  <2>2. (q \in Background') = (q \in Background)
    BY DEF Background, Carries
  <2> QED BY <2>1, <2>2 DEF Uncounted, Carries
<1> QED BY <1>2, <1>3, <1>5, <1>6, <1>7, UncountedStep DEF Kept

(* The step moves q to list l and gives it the flags F.                    *)
Touches(s, q, x, l, F) ==
    /\ q \in AllQ /\ x \in ServerPC /\ pc' = [pc EXCEPT ![s] = x]
    /\ pc[s] \in UsePC => cur[s] = q
    /\ \/ cur' = cur /\ (x \in UsePC => cur[s] = q)
       \/ cur' = [cur EXCEPT ![s] = q]
    /\ ret' = ret \/ ret' = [ret EXCEPT ![s] = "idle"]
    /\ l \in {"none", "io", "processing"} /\ loc' = [loc EXCEPT ![q] = l]
    /\ F \subseteq Flag /\ flags' = [flags EXCEPT ![q] = F]
    /\ interrupts' \subseteq AllQ /\ interrupts' \ {q} = interrupts \ {q}
    /\ intr_unique' \subseteq AllQ /\ intr_unique' \ {q} = intr_unique \ {q}
    /\ UNCHANGED <<fc, count, alive>>

(* What ServerOf asks for at x.                                            *)
Fits(x, l, F) ==
    /\ x \in {"rd_size", "end"} \cup EndPC => l = "none"
    /\ x \in CopyPC => l = "io"
    /\ x \in {"rd_size", "end"} => "FINISHED" \notin F
    /\ x \in EndPC => "FINISHED" \in F
    /\ x = "end_put" => "BACKGROUND" \notin F

(* What is left to show when thread s carries q on.                        *)
Carry(s, q, x, l, F) ==
    /\ Touches(s, q, x, l, F)
    /\ \A f \in {"WAITING", "BACKGROUND"} : f \in F <=> f \in flags[q]
    /\ "PENDING" \notin F /\ F \cap {"ABORTED", "PRIVATE"} = {}
    /\ "FINISHED" \in F => l = "none"
    /\ loc[q] # "bg_queue" /\ InFlight(q)
    /\ l # "none" \/ x \in OwnPC \/ OtherOwns(s, q)
    /\ \/ Sole(s, q)
       \/ /\ l = loc[q]
          /\ \A f \in {"PENDING", "FINISHED", "BACKGROUND"} :
                f \in F <=> f \in flags[q]
    /\ x \in OwnPC => Sole(s, q)
    /\ Fits(x, l, F)

LEMMA Touched ==
    ASSUME Lasting, DevInv, NEW s \in Servers, NEW q, NEW x, NEW l, NEW F,
           Touches(s, q, x, l, F)
    PROVE  /\ Serves(s, q, x) /\ loc'[q] = l /\ flags'[q] = F
           /\ \A p \in AllQ \ {q} : loc'[p] = loc[p]
<1> USE DEF Touches
<1>1. /\ loc \in [AllQ -> List] /\ flags \in [AllQ -> SUBSET Flag]
      /\ count \in [AllQ -> Int] /\ alive \subseteq AllQ
      /\ fc \in Conn /\ fc.connected /\ fc.iq /\ fc.lock = None
  BY DEF DevInv, TypeOK
<1>2. /\ loc' \in [AllQ -> List] /\ loc'[q] = l
      /\ \A p \in AllQ \ {q} : loc'[p] = loc[p]
  BY <1>1 DEF List
<1>3. /\ flags' \in [AllQ -> SUBSET Flag] /\ flags'[q] = F
      /\ \A p \in AllQ \ {q} : flags'[p] = flags[p]
  BY <1>1
<1>4. ReqTypes
  BY <1>1, <1>2, <1>3 DEF ReqTypes
<1>5. \A p \in AllQ \ {q} : Same(p)
  BY <1>3 DEF Same
<1> QED BY <1>2, <1>3, <1>4, <1>5 DEF Serves

LEMMA Carrying ==
    ASSUME Lasting, DevInv, NEW s \in Servers, NEW q, NEW x, NEW l, NEW F,
           Carry(s, q, x, l, F), IntrOf(q)'
    PROVE  DevInv'
<1>0. Touches(s, q, x, l, F)
  BY DEF Carry
<1>1. /\ Serves(s, q, x) /\ loc'[q] = l /\ flags'[q] = F
      /\ \A p \in AllQ \ {q} : loc'[p] = loc[p]
      /\ UNCHANGED <<fc, count, alive>> /\ l \in {"none", "io", "processing"}
      /\ q \in AllQ
  <2>1. /\ Serves(s, q, x) /\ loc'[q] = l /\ flags'[q] = F
        /\ \A p \in AllQ \ {q} : loc'[p] = loc[p]
    BY <1>0, Touched
  <2>2. /\ UNCHANGED <<fc, count, alive>> /\ l \in {"none", "io", "processing"}
        /\ q \in AllQ
    BY <1>0 DEF Touches
  <2> QED BY <2>1, <2>2
<1>2. InFlight(q)'
  BY <1>1, ServerFlight DEF Carry
<1>3. pc'[s] = x /\ (x \in UsePC => cur'[s] = q)
  BY <1>1, ServerStep
<1>4. Carries(s, q, x)
  BY <1>1, <1>2 DEF Carries, Carry, Alike
<1>5. ServerOf(s)'
  <2>1. x \in LatePC \cup {"wr_qintr"} => \A r \in AllQ : r = q => Ongoing(r)'
    BY <1>2 DEF Ongoing
  <2> QED BY <1>1, <1>3, <2>1
          DEF ServerOf, Carry, Fits, UsePC, OwnPC, CopyPC, LatePC, EndPC
<1> QED BY <1>4, <1>5, Carried

(* Who is about to mark q, to look at it, or to take it off the list of    *)
(* interrupts, still is, unless it is s.                                   *)
LEMMA StillThere ==
    ASSUME Lasting, DevInv, NEW s \in Servers, NEW q, NEW x, Serves(s, q, x),
           NEW X, pc[s] \notin X,
           \E u \in Servers : cur[u] = q /\ pc[u] \in X
    PROVE  \E u \in Servers : cur'[u] = q /\ pc'[u] \in X
<1>1. \A u \in Servers \ {s} : pc'[u] = pc[u] /\ cur'[u] = cur[u]
  BY ServerStep
<1> QED BY <1>1

(* What is known of a thread and its request.                              *)
LEMMA BeforeServe ==
    ASSUME Lasting, DevInv, NEW s \in Servers, pc[s] \in UsePC
    PROVE  /\ cur[s] \in AllQ /\ ServerOf(s)
           /\ pc[s] \in OwnPC => Sole(s, cur[s]) /\ InFlight(cur[s])
           /\ PlaceOf(cur[s]) /\ IntrOf(cur[s])
           /\ loc[cur[s]] \in List /\ flags[cur[s]] \subseteq Flag
           /\ loc = [loc EXCEPT ![cur[s]] = loc[cur[s]]]
           /\ flags = [flags EXCEPT ![cur[s]] = flags[cur[s]]]
           /\ interrupts \subseteq AllQ /\ intr_unique \subseteq AllQ
<1>1. ServerOf(s) /\ cur[s] \in AllQ
  BY DEF DevInv, ServerInv, ServerOf
<1>3. PlaceOf(cur[s]) /\ IntrOf(cur[s])
  BY <1>1, Before
<1>4. pc[s] \in OwnPC => Sole(s, cur[s]) /\ InFlight(cur[s])
  BY OwnerAlone
<1>5. /\ loc[cur[s]] \in List /\ flags[cur[s]] \subseteq Flag
      /\ loc = [loc EXCEPT ![cur[s]] = loc[cur[s]]]
      /\ flags = [flags EXCEPT ![cur[s]] = flags[cur[s]]]
      /\ interrupts \subseteq AllQ /\ intr_unique \subseteq AllQ
  BY <1>1 DEF DevInv, TypeOK
<1> QED BY <1>1, <1>3, <1>4, <1>5

(* A thread that has q goes on with it, or hands it to processing.         *)
OwnerMoves(s, q, x, l, F) ==
    /\ pc[s] \in OwnPC /\ q = cur[s] /\ Touches(s, q, x, l, F) /\ Fits(x, l, F)
    /\ F \ {"LOCKED", "FINISHED"} = flags[q] \ {"LOCKED", "FINISHED"}
    /\ "FINISHED" \in F => l = "none" /\ (q \in interrupts' => x = "end_intr")
    /\ x \in OwnPC \/ x = "rd_sent"
    /\ l = "processing" <=> x = "rd_sent"
    /\ interrupts' \subseteq interrupts

LEMMA OwnerMoving ==
    ASSUME Lasting, DevInv, NEW s \in Servers, NEW q, NEW x, NEW l, NEW F,
           OwnerMoves(s, q, x, l, F)
    PROVE  DevInv'
<1> USE DEF OwnerMoves
<1>1. pc[s] \in UsePC
  BY DEF UsePC, LatePC
<1>2. /\ q \in AllQ /\ ServerOf(s) /\ Sole(s, q) /\ InFlight(q)
      /\ PlaceOf(q) /\ IntrOf(q) /\ loc[q] \in List
  BY <1>1, BeforeServe
<1>3. /\ "PENDING" \notin flags[q] /\ loc[q] # "processing"
      /\ loc[q] # "bg_queue"
      /\ flags[q] \cap {"ABORTED", "PRIVATE"} = {}
  BY <1>1, <1>2 DEF ServerOf, PlaceOf, IntrOf, OwnPC, CopyPC, EndPC
<1>4. l # "none" \/ x \in OwnPC
  OBVIOUS
<1>5. Carry(s, q, x, l, F)
  BY <1>2, <1>3, <1>4 DEF Carry
<1>6. /\ Serves(s, q, x) /\ loc'[q] = l /\ flags'[q] = F
  BY Touched
<1>7. InFlight(q)'
  BY <1>4, <1>6, ServerFlight
<1>8. pc'[s] = x /\ cur'[s] = q
  BY <1>6, ServerStep DEF UsePC, LatePC
<1>9. IntrOf(q)'
  <2>1. "PENDING" \notin F
    BY <1>3
  <2>2. l = "processing" => cur'[s] = q /\ pc'[s] = "rd_sent" /\ pc'[s] \in LatePC
    BY <1>8 DEF LatePC
  <2>3. q \in interrupts' /\ "FINISHED" \in F => cur'[s] = q /\ pc'[s] = "end_intr"
    BY <1>8
  <2> QED BY <1>6, <1>7, <2>1, <2>2, <2>3 DEF IntrOf
<1> HIDE DEF OwnerMoves
<1> QED BY <1>5, <1>9, Carrying

(* fuse_read_interrupt: the daemon reads the INTERRUPT message of q.       *)
LEMMA By_fuse_read_interrupt ==
    ASSUME Lasting, DevInv, NEW s \in Servers, fuse_read_interrupt(s)
    PROVE  DevInv'
<1>1. PICK q \in interrupts : /\ interrupts' = interrupts \ {q}
                              /\ intr_unique' = intr_unique \cup {q}
  BY DEF fuse_read_interrupt
<1>2. /\ pc[s] = "idle"
      /\ UNCHANGED <<fc, loc, flags, count, alive, pc, cur, ret>>
  BY DEF fuse_read_interrupt
<1>3. /\ interrupts \subseteq AllQ /\ intr_unique \subseteq AllQ /\ q \in AllQ
      /\ pc = [pc EXCEPT ![s] = "idle"]
      /\ loc = [loc EXCEPT ![q] = loc[q]]
      /\ flags = [flags EXCEPT ![q] = flags[q]]
  BY <1>1, <1>2, Kinds DEF DevInv, TypeOK
<1>4. /\ PlaceOf(q) /\ IntrOf(q) /\ loc[q] \in List /\ flags[q] \subseteq Flag
      /\ TypeOK
  BY <1>3, Before DEF DevInv
<1>5. /\ InFlight(q) /\ "PENDING" \notin flags[q]
      /\ loc[q] \in {"none", "io", "processing"}
      /\ "FINISHED" \in flags[q] => loc[q] = "none"
      /\ flags[q] \cap {"ABORTED", "PRIVATE"} = {}
  BY <1>1, <1>4 DEF IntrOf, PlaceOf, List
<1>6. loc[q] # "none" \/ OtherOwns(s, q)
  <2>1. InFlight(q) <=> loc[q] # "none" \/ Owns(s, q) \/ OtherOwns(s, q)
    BY <1>3, <1>4, Flight
  <2> QED BY <1>2, <1>5, <2>1 DEF Owns, OwnPC, EndPC
<1>7. PICK x, l, F : x = "idle" /\ l = loc[q] /\ F = flags[q]
  OBVIOUS
<1>8. Touches(s, q, x, l, F)
  <2>1. x \in ServerPC /\ x \notin UsePC /\ pc[s] \notin UsePC
    BY <1>2, <1>7 DEF ServerPC, UsePC, OwnPC, EndPC, LatePC
  <2> QED BY <1>1, <1>2, <1>3, <1>4, <1>5, <1>7, <2>1 DEF Touches
<1>9. Carry(s, q, x, l, F)
  <2>1. x \notin OwnPC \cup CopyPC \cup LatePC \cup EndPC
        /\ x \notin {"rd_size", "end", "end_put", "wr_qintr"}
    BY <1>7 DEF OwnPC, CopyPC, LatePC, EndPC
  <2> QED BY <1>5, <1>6, <1>7, <1>8, <2>1 DEF Carry, Fits
<1>10. IntrOf(q)'
  BY <1>1, <1>2, <1>4 DEF IntrOf
<1> QED BY <1>9, <1>10, Carrying

LEMMA By_read_pending ==
    ASSUME Lasting, DevInv, NEW s \in Servers, read_pending(s) PROVE DevInv'
<1>1. PICK q \in AllQ : /\ loc[q] = "pending" /\ Clear(q, "PENDING")
                        /\ Move(q, "none") /\ cur' = [cur EXCEPT ![s] = q]
  BY DEF read_pending, On
<1>2. /\ pc[s] = "idle" /\ pc' = [pc EXCEPT ![s] = "rd_size"]
      /\ UNCHANGED <<fc, interrupts, count, alive, intr_unique, ret>>
  BY DEF read_pending, Goto
<1>3. PICK x, l, F : x = "rd_size" /\ l = "none" /\ F = flags[q] \ {"PENDING"}
  OBVIOUS
<1>4. /\ PlaceOf(q) /\ IntrOf(q) /\ flags[q] \subseteq Flag
      /\ interrupts \subseteq AllQ /\ intr_unique \subseteq AllQ
  BY Before DEF DevInv, TypeOK
<1>5. /\ InFlight(q) /\ "PENDING" \in flags[q] /\ "FINISHED" \notin flags[q]
      /\ "SENT" \notin flags[q]
      /\ flags[q] \cap {"ABORTED", "PRIVATE"} = {} /\ q \notin interrupts
  BY <1>1, <1>4 DEF PlaceOf, InFlight, IntrOf
<1>6. Sole(s, q)
  BY <1>5, NotUsed DEF Unused, Sole, UsePC
<1>7. Touches(s, q, x, l, F)
  <2>1. x \in ServerPC /\ pc[s] \notin UsePC
    BY <1>2, <1>3 DEF ServerPC, UsePC, OwnPC, EndPC, LatePC
  <2>2. F \subseteq Flag /\ flags' = [flags EXCEPT ![q] = F]
        /\ loc' = [loc EXCEPT ![q] = l]
    BY <1>1, <1>3, <1>4 DEF Clear, Move
  <2> QED BY <1>1, <1>2, <1>3, <1>4, <2>1, <2>2 DEF Touches
<1>8. Carry(s, q, x, l, F)
  <2>1. /\ x \in OwnPC /\ x \notin CopyPC \cup LatePC \cup EndPC
        /\ x # "end_put" /\ x # "wr_qintr"
    BY <1>3 DEF OwnPC, CopyPC, LatePC, EndPC
  <2> QED BY <1>1, <1>3, <1>5, <1>6, <1>7, <2>1 DEF Carry, Fits
<1>9. loc'[q] = l /\ flags'[q] = F
  BY <1>7, Touched
<1>10. IntrOf(q)'
  BY <1>2, <1>3, <1>5, <1>9 DEF IntrOf
<1> QED BY <1>8, <1>10, Carrying

(* What a thread that has q knows of it.                                   *)
Has(s, q, F) ==
    /\ q \in AllQ /\ F \subseteq Flag /\ q = cur[s] /\ F = flags[q]
    /\ pc[s] \in CopyPC => loc[q] = "io" /\ "FINISHED" \notin F
    /\ pc[s] \notin CopyPC => loc[q] = "none"
    /\ pc[s] \in {"rd_size", "end"} => "FINISHED" \notin F
    /\ pc[s] \in EndPC => "FINISHED" \in F
    /\ pc[s] \in EndPC \ {"end_intr"} => q \notin interrupts
    /\ F \cap {"ABORTED", "PRIVATE"} = {}
    /\ loc = [loc EXCEPT ![q] = loc[q]] /\ flags = [flags EXCEPT ![q] = F]
    /\ interrupts \subseteq AllQ /\ intr_unique \subseteq AllQ
    /\ cur = [cur EXCEPT ![s] = q]

LEMMA Owner ==
    ASSUME Lasting, DevInv, NEW s \in Servers, pc[s] \in OwnPC
    PROVE  \E q, F : Has(s, q, F)
<1>0. pc[s] \in UsePC
  BY DEF UsePC, LatePC
<1>1. PICK q : q = cur[s]
  OBVIOUS
<1>2. /\ q \in AllQ /\ ServerOf(s) /\ Sole(s, q) /\ PlaceOf(q) /\ IntrOf(q)
      /\ flags[q] \in SUBSET Flag
      /\ loc = [loc EXCEPT ![q] = loc[q]]
      /\ flags = [flags EXCEPT ![q] = flags[q]]
      /\ interrupts \subseteq AllQ /\ intr_unique \subseteq AllQ
  BY <1>0, <1>1, BeforeServe
<1>3. /\ pc[s] \in CopyPC => loc[q] = "io"
      /\ pc[s] \notin CopyPC => loc[q] = "none"
      /\ pc[s] \in {"rd_size", "end"} => "FINISHED" \notin flags[q]
      /\ pc[s] \in EndPC => "FINISHED" \in flags[q]
  BY <1>0, <1>1, <1>2 DEF ServerOf, OwnPC, CopyPC, EndPC
<1>4. /\ flags[q] \cap {"ABORTED", "PRIVATE"} = {}
      /\ pc[s] \in CopyPC => "FINISHED" \notin flags[q]
  BY <1>2, <1>3 DEF PlaceOf
<1>5. ASSUME pc[s] \in EndPC \ {"end_intr"}, q \in interrupts PROVE FALSE
  <2>1. PICK u \in Servers : cur[u] = q /\ pc[u] = "end_intr"
    BY <1>2, <1>3, <1>5 DEF IntrOf
  <2> QED BY <1>2, <1>5, <2>1 DEF Sole, UsePC, OwnPC, EndPC, LatePC
<1>6. cur = [cur EXCEPT ![s] = q]
  BY <1>1, Kinds DEF DevInv, TypeOK
<1> QED BY <1>1, <1>2, <1>3, <1>4, <1>5, <1>6 DEF Has

LEMMA By_read_too_large ==
    ASSUME Lasting, DevInv, NEW s \in Servers, read_too_large(s) PROVE DevInv'
<1>1. /\ pc[s] = "rd_size" /\ pc' = [pc EXCEPT ![s] = "end"]
      /\ cur' = [cur EXCEPT ![s] = cur[s]] /\ ret' = [ret EXCEPT ![s] = "idle"]
      /\ UNCHANGED <<fc, loc, interrupts, flags, count, alive, intr_unique>>
  BY DEF read_too_large, CallEnd, Goto, listVars, reqVars
<1>2. PICK q, F : Has(s, q, F)
  BY <1>1, Owner DEF OwnPC, EndPC
<1>3. PICK x, l : x = "end" /\ l = "none"
  OBVIOUS
<1>4. OwnerMoves(s, q, x, l, F)
  BY <1>1, <1>2, <1>3 DEF OwnerMoves, Touches, Fits, Has, ServerPC, UsePC, OwnPC,
     CopyPC, LatePC, EndPC
<1> QED BY <1>4, OwnerMoving

LEMMA By_read_io ==
    ASSUME Lasting, DevInv, NEW s \in Servers, read_io(s) PROVE DevInv'
<1>1. /\ pc[s] = "rd_size" /\ pc' = [pc EXCEPT ![s] = "rd_unlocked"]
      /\ loc' = [loc EXCEPT ![cur[s]] = "io"]
      /\ UNCHANGED <<fc, interrupts, flags, count, alive, intr_unique, cur, ret>>
  BY DEF read_io, Move, Goto, reqVars
<1>2. PICK q, F : Has(s, q, F)
  BY <1>1, Owner DEF OwnPC, EndPC
<1>3. PICK x, l : x = "rd_unlocked" /\ l = "io"
  OBVIOUS
<1>4. OwnerMoves(s, q, x, l, F)
  BY <1>1, <1>2, <1>3 DEF OwnerMoves, Touches, Fits, Has, ServerPC, UsePC, OwnPC,
     CopyPC, LatePC, EndPC
<1> QED BY <1>4, OwnerMoving

(* The copy: the request is locked, unlocked, and copied, or that fails.   *)
LEMMA Copying ==
    ASSUME Lasting, DevInv, NEW s \in Servers, NEW x, NEW G,
           pc[s] \in CopyPC, x \in CopyPC, pc' = [pc EXCEPT ![s] = x],
           G \ {"LOCKED"} = flags[cur[s]] \ {"LOCKED"},
           flags' = [flags EXCEPT ![cur[s]] = G],
           UNCHANGED <<fc, loc, interrupts, count, alive, intr_unique, cur, ret>>
    PROVE  DevInv'
<1>1. PICK q, F : Has(s, q, F)
  BY Owner DEF OwnPC, CopyPC, EndPC
<1>2. PICK l : l = "io"
  OBVIOUS
<1>3. G \subseteq Flag
  BY <1>1 DEF Has, Flag
<1>4. OwnerMoves(s, q, x, l, G)
  <2>1. /\ x \in OwnPC /\ x \in UsePC /\ x \in ServerPC /\ pc[s] \in OwnPC
        /\ x \notin {"rd_size", "end"} \cup EndPC \cup LatePC \cup {"wr_qintr"}
    BY DEF ServerPC, UsePC, OwnPC, CopyPC, LatePC, EndPC
  <2>2. Fits(x, l, G)
    BY <1>2, <2>1 DEF Fits, EndPC
  <2>3. Touches(s, q, x, l, G)
    BY <1>1, <1>2, <1>3, <2>1 DEF Touches, Has
  <2>4. "FINISHED" \notin G
    BY <1>1 DEF Has
  <2>5. x # "rd_sent" /\ l # "processing"
    BY <1>2, <2>1 DEF LatePC
  <2> QED BY <1>1, <1>2, <2>1, <2>2, <2>3, <2>4, <2>5 DEF OwnerMoves, Has
<1> QED BY <1>4, OwnerMoving

LEMMA By_lock_request ==
    ASSUME Lasting, DevInv, NEW s \in Servers, lock_request(s) PROVE DevInv'
<1>1. pc[s] \in {"rd_unlocked", "wr_unlocked"}
  BY DEF lock_request, Locked
<1>2. PICK q, F : Has(s, q, F)
  BY <1>1, Owner DEF OwnPC, EndPC
<1>3. UNCHANGED <<fc, loc, interrupts, count, alive, intr_unique, cur, ret>>
  BY DEF lock_request, listVars
<1>4. PICK x, G : /\ x \in CopyPC /\ pc' = [pc EXCEPT ![s] = x]
                  /\ G \ {"LOCKED"} = flags[cur[s]] \ {"LOCKED"}
                  /\ flags' = [flags EXCEPT ![cur[s]] = G]
  <2>1. CASE Set(cur[s], "LOCKED") /\ pc' = [pc EXCEPT ![s] = Locked[@]]
    <3>1. Locked[pc[s]] \in CopyPC
      BY <1>1 DEF Locked, CopyPC
    <3> QED BY <2>1, <3>1 DEF Set
  <2>2. CASE UNCHANGED flags /\ pc' = [pc EXCEPT ![s] = Failed(@)]
    <3>1. Failed(pc[s]) \in CopyPC
      BY <1>1 DEF Failed, CopyPC
    <3> QED BY <1>2, <2>2, <3>1 DEF Has
  <2> QED BY <2>1, <2>2 DEF lock_request
<1>5. pc[s] \in CopyPC
  BY <1>1 DEF CopyPC
<1> QED BY <1>3, <1>4, <1>5, Copying

LEMMA By_unlock_request ==
    ASSUME Lasting, DevInv, NEW s \in Servers, unlock_request(s) PROVE DevInv'
<1>1. pc[s] \in {"rd_locked", "wr_locked"}
  BY DEF unlock_request, Unlocked
<1>2. PICK q, F : Has(s, q, F)
  BY <1>1, Owner DEF OwnPC, EndPC
<1>3. UNCHANGED <<fc, loc, interrupts, count, alive, intr_unique, cur, ret>>
  BY DEF unlock_request, listVars
<1>4. Unlocked[pc[s]] \in CopyPC /\ pc[s] \in CopyPC
  BY <1>1 DEF Unlocked, CopyPC
<1>5. Clear(cur[s], "LOCKED") /\ pc' = [pc EXCEPT ![s] = Unlocked[@]]
  BY <1>2 DEF unlock_request, Has
<1>6. PICK x, G : /\ x \in CopyPC /\ pc' = [pc EXCEPT ![s] = x]
                  /\ G \ {"LOCKED"} = flags[cur[s]] \ {"LOCKED"}
                  /\ flags' = [flags EXCEPT ![cur[s]] = G]
  BY <1>4, <1>5 DEF Clear
<1> QED BY <1>3, <1>4, <1>6, Copying

LEMMA By_copy_done ==
    ASSUME Lasting, DevInv, NEW s \in Servers, copy_done(s) PROVE DevInv'
<1>1. pc[s] \in {"rd_locked", "wr_locked"} /\ pc' = [pc EXCEPT ![s] = Copied[@]]
      /\ UNCHANGED <<fc, loc, interrupts, flags, count, alive, intr_unique, cur, ret>>
  BY DEF copy_done, Copied, listVars, reqVars
<1>2. PICK q, F : Has(s, q, F)
  BY <1>1, Owner DEF OwnPC, EndPC
<1>3. Copied[pc[s]] \in CopyPC /\ pc[s] \in CopyPC
  BY <1>1 DEF Copied, CopyPC
<1>4. PICK x, G : /\ x \in CopyPC /\ pc' = [pc EXCEPT ![s] = x]
                  /\ G \ {"LOCKED"} = flags[cur[s]] \ {"LOCKED"}
                  /\ flags' = [flags EXCEPT ![cur[s]] = G]
  BY <1>1, <1>2, <1>3 DEF Has
<1> QED BY <1>1, <1>3, <1>4, Copying

(* The copy is over: the request goes to processing, or it ends.           *)
LEMMA Ending ==
    ASSUME Lasting, DevInv, NEW s \in Servers, pc[s] \in CopyPC,
           pc' = [pc EXCEPT ![s] = "end"], cur' = [cur EXCEPT ![s] = cur[s]],
           ret' = [ret EXCEPT ![s] = "idle"], Clear(cur[s], "LOCKED"),
           IF "PRIVATE" \in flags[cur[s]] THEN UNCHANGED loc
                                          ELSE Move(cur[s], "none"),
           UNCHANGED <<fc, interrupts, count, alive, intr_unique>>
    PROVE  DevInv'
<1>1. PICK q, F : Has(s, q, F)
  BY Owner DEF OwnPC, CopyPC, EndPC
<1>2. PICK x, l, G : x = "end" /\ l = "none" /\ G = F \ {"LOCKED"}
  OBVIOUS
<1>3. Touches(s, q, x, l, G)
  <2>1. loc' = [loc EXCEPT ![q] = l] /\ flags' = [flags EXCEPT ![q] = G]
    BY <1>1, <1>2 DEF Has, Move, Clear
  <2>2. x \in ServerPC
    BY <1>2 DEF ServerPC, UsePC, OwnPC, EndPC, LatePC
  <2> QED BY <1>1, <1>2, <2>1, <2>2 DEF Touches, Has
<1>4. OwnerMoves(s, q, x, l, G)
  BY <1>1, <1>2, <1>3 DEF OwnerMoves, Fits, Has, OwnPC, CopyPC, LatePC, EndPC
<1> QED BY <1>4, OwnerMoving

LEMMA By_write_done ==
    ASSUME Lasting, DevInv, NEW s \in Servers, write_done(s) PROVE DevInv'
<1>1. /\ pc[s] = "wr_done" /\ pc' = [pc EXCEPT ![s] = "end"]
      /\ cur' = [cur EXCEPT ![s] = cur[s]] /\ ret' = [ret EXCEPT ![s] = "idle"]
      /\ Clear(cur[s], "LOCKED")
      /\ IF "PRIVATE" \in flags[cur[s]] THEN UNCHANGED loc
                                        ELSE Move(cur[s], "none")
      /\ UNCHANGED <<fc, interrupts, count, alive, intr_unique>>
  BY DEF write_done, CallEnd, Goto
<1>2. pc[s] \in CopyPC
  BY <1>1 DEF CopyPC
<1> QED BY <1>1, <1>2, Ending

LEMMA By_read_done ==
    ASSUME Lasting, DevInv, NEW s \in Servers, read_done(s) PROVE DevInv'
<1>1. /\ pc[s] \in {"rd_ok", "rd_err"} /\ Clear(cur[s], "LOCKED")
      /\ UNCHANGED <<fc, interrupts, count, alive, intr_unique>>
  BY DEF read_done
<1>2. pc[s] \in CopyPC
  BY <1>1 DEF CopyPC
<1>3. CASE /\ Move(cur[s], "processing") /\ Goto(s, pc[s], "rd_sent")
           /\ UNCHANGED <<cur, ret>>
  <2>1. PICK q, F : Has(s, q, F)
    BY <1>2, Owner DEF OwnPC, CopyPC, EndPC
  <2>2. PICK x, l, G : x = "rd_sent" /\ l = "processing" /\ G = F \ {"LOCKED"}
    OBVIOUS
  <2>3. Touches(s, q, x, l, G)
    <3>1. loc' = [loc EXCEPT ![q] = l] /\ flags' = [flags EXCEPT ![q] = G]
      BY <1>1, <1>3, <2>1, <2>2 DEF Has, Move, Clear
    <3>2. x \in ServerPC
      BY <2>2 DEF ServerPC, UsePC, LatePC
    <3> QED BY <1>1, <1>3, <2>1, <2>2, <3>1, <3>2 DEF Touches, Has, Goto
  <2>4. OwnerMoves(s, q, x, l, G)
    BY <1>1, <1>2, <2>1, <2>2, <2>3
       DEF OwnerMoves, Fits, Has, OwnPC, CopyPC, LatePC, EndPC
  <2> QED BY <2>4, OwnerMoving
<1>4. CASE /\ CallEnd(s, cur[s], pc[s], "idle")
           /\ IF "PRIVATE" \in flags[cur[s]] THEN UNCHANGED loc
                                             ELSE Move(cur[s], "none")
  BY <1>1, <1>2, <1>4, Ending DEF CallEnd, Goto
<1> QED BY <1>3, <1>4 DEF read_done

(* request_end marks the request as finished, and takes its interrupt off  *)
(* the list.                                                               *)
LEMMA By_end_finished ==
    ASSUME Lasting, DevInv, NEW s \in Servers, end_finished(s) PROVE DevInv'
<1>1. pc[s] = "end" /\ Set(cur[s], "FINISHED")
      /\ UNCHANGED <<fc, loc, interrupts, count, alive, intr_unique, cur, ret>>
  BY DEF end_finished, Goto, listVars
<1>2. PICK q, F : Has(s, q, F)
  BY <1>1, Owner DEF OwnPC, EndPC
<1>3. pc' = [pc EXCEPT ![s] = "end_intr"]
  BY <1>1, <1>2 DEF end_finished, Goto, Has
<1>4. PICK x, l, G : x = "end_intr" /\ l = "none" /\ G = F \cup {"FINISHED"}
  OBVIOUS
<1>5. Touches(s, q, x, l, G)
  <2>1. loc[q] = "none" /\ G \subseteq Flag
    BY <1>1, <1>2, <1>4 DEF Has, CopyPC, Flag
  <2>2. loc' = [loc EXCEPT ![q] = l] /\ flags' = [flags EXCEPT ![q] = G]
    BY <1>1, <1>2, <1>4, <2>1 DEF Has, Set
  <2>3. x \in ServerPC
    BY <1>4 DEF ServerPC, UsePC, OwnPC, EndPC, LatePC
  <2> QED BY <1>1, <1>2, <1>3, <1>4, <2>1, <2>2, <2>3 DEF Touches, Has
<1>6. OwnerMoves(s, q, x, l, G)
  BY <1>1, <1>2, <1>4, <1>5 DEF OwnerMoves, Fits, Has, OwnPC, CopyPC, LatePC, EndPC
<1> QED BY <1>6, OwnerMoving

LEMMA By_end_interrupt ==
    ASSUME Lasting, DevInv, NEW s \in Servers, end_interrupt(s) PROVE DevInv'
<1>1. /\ pc[s] = "end_intr" /\ pc' = [pc EXCEPT ![s] = "end_bg"]
      /\ interrupts' = interrupts \ {cur[s]}
      /\ UNCHANGED <<fc, loc, flags, count, alive, intr_unique, cur, ret>>
  BY DEF end_interrupt, Goto, reqVars
<1>2. PICK q, F : Has(s, q, F)
  BY <1>1, Owner DEF OwnPC, EndPC
<1>3. PICK x, l : x = "end_bg" /\ l = "none"
  OBVIOUS
<1>4. Touches(s, q, x, l, F)
  BY <1>1, <1>2, <1>3 DEF Touches, Has, ServerPC, UsePC, OwnPC, CopyPC, EndPC, LatePC
<1>5. OwnerMoves(s, q, x, l, F)
  BY <1>1, <1>2, <1>3, <1>4 DEF OwnerMoves, Fits, Has, OwnPC, CopyPC, LatePC, EndPC
<1> QED BY <1>5, OwnerMoving

-----------------------------------------------------------------------------
(* A thread that uses a request that it does not have                      *)

(* Only interrupts, FR_SENT and the thread's place change.  The request is *)
(* under way, with this or another thread, or it has ended.                *)
Looks(s, q, x, F) ==
    /\ q \in AllQ /\ x \in LatePC \cup {"wr_qintr", "idle"}
    /\ Ongoing(q) /\ "PENDING" \notin flags[q] /\ pc[s] \notin OwnPC
    /\ pc' = [pc EXCEPT ![s] = x]
    /\ \/ pc[s] \in UsePC /\ cur[s] = q /\ cur' = cur
       \/ pc[s] \notin UsePC /\ cur' = [cur EXCEPT ![s] = q]
    /\ F \ {"SENT"} = flags[q] \ {"SENT"}
    /\ flags' = [flags EXCEPT ![q] = F]
    /\ \/ interrupts' = interrupts
       \/ "FINISHED" \notin flags[q] /\ interrupts' = interrupts \cup {q}
    /\ UNCHANGED <<fc, loc, count, alive, intr_unique, ret>>
    /\ pc[s] = "rd_sent" => "SENT" \in F
    /\ "SENT" \in flags[q] => "SENT" \in F
    /\ pc[s] \in LatePC => \/ x \in LatePC \/ q \in interrupts'
                           \/ "INTERRUPTED" \notin F \/ loc[q] # "processing"

LEMMA Looking ==
    ASSUME Lasting, DevInv, NEW s \in Servers, NEW q, NEW x, NEW F,
           Looks(s, q, x, F)
    PROVE  DevInv'
<1> USE DEF Looks
<1>1. /\ PlaceOf(q) /\ RefOf(q) /\ IntrOf(q) /\ flags[q] \subseteq Flag
      /\ interrupts \subseteq AllQ /\ intr_unique \subseteq AllQ
      /\ loc = [loc EXCEPT ![q] = loc[q]] /\ loc[q] \in List /\ TypeOK
  BY Before DEF DevInv, TypeOK
<1>2. /\ flags[q] \cap {"ABORTED", "PRIVATE"} = {}
      /\ loc[q] \in {"none", "io", "processing"}
      /\ "FINISHED" \in flags[q] => loc[q] = "none"
  BY <1>1 DEF PlaceOf, List
<1>3. PICK l : l = loc[q]
  OBVIOUS
<1>4. /\ x \in ServerPC /\ x \notin OwnPC
      /\ x \notin CopyPC \cup EndPC \cup {"rd_size", "end", "end_put"}
  BY DEF ServerPC, UsePC, OwnPC, LatePC, CopyPC, EndPC
<1>5. Touches(s, q, x, l, F)
  <2>1. F \subseteq Flag
    BY <1>1 DEF Flag
  <2>2. l \in {"none", "io", "processing"} /\ loc' = [loc EXCEPT ![q] = l]
    BY <1>1, <1>2, <1>3
  <2> QED BY <1>1, <1>4, <2>1, <2>2 DEF Touches
<1>6. /\ Serves(s, q, x) /\ loc'[q] = loc[q] /\ flags'[q] = F
  BY <1>3, <1>5, Touched
<1>7. /\ Step(s, q) /\ pc'[s] = x /\ pc'[q] = pc[q]
      /\ x \in UsePC => cur'[s] = q
      /\ Holds(q)' <=> Holds(q)
  BY <1>6, ServerStep
<1>8. InFlight(q)' <=> InFlight(q)
  <2>1. InFlight(q)' <=> loc[q] # "none" \/ OtherOwns(s, q)
    BY <1>4, <1>6, ServerFlight
  <2>2. InFlight(q) <=> loc[q] # "none" \/ Owns(s, q) \/ OtherOwns(s, q)
    BY <1>1, Flight
  <2> QED BY <2>1, <2>2 DEF Owns
<1>9. /\ "PENDING" \notin F /\ Ongoing(q)'
      /\ \A f \in Flag \ {"SENT"} : f \in F <=> f \in flags[q]
  <2>1. \A f \in Flag \ {"SENT"} : f \in F <=> f \in flags[q]
    OBVIOUS
  <2> QED BY <1>6, <1>8, <2>1 DEF Ongoing, Flag
<1>10. Served(s, q)
  <2>1. ServerOf(s)'
    <3>1. x \in LatePC \cup {"wr_qintr"} => \A r \in AllQ : r = q => Ongoing(r)'
      BY <1>9
    <3> QED BY <1>4, <1>6, <1>7, <1>9, <3>1 DEF ServerOf, UsePC, LatePC
  <2>2. Alike(q)
    BY <1>6, <1>9 DEF Alike, Flag
  <2> QED BY <1>4, <1>6, <1>9, <2>1, <2>2, ServerServed
<1>11. PlaceOf(q)'
  BY <1>1, <1>6, <1>7, <1>8, <1>9 DEF PlaceOf, Ongoing, Flag
<1>12. RefOf(q)'
  BY <1>1, <1>6, <1>7, <1>8, <1>9 DEF RefOf, Flag
<1>13. IntrOf(q)'
  <2>1. loc[q] = "processing" /\ "SENT" \notin F
        => \E u \in Servers : cur'[u] = q /\ pc'[u] = "rd_sent"
    <3>1. SUFFICES ASSUME loc[q] = "processing", "SENT" \notin F
                   PROVE  \E u \in Servers : cur'[u] = q /\ pc'[u] = "rd_sent"
      OBVIOUS
    <3>2. PICK X : X = {"rd_sent"}
      OBVIOUS
    <3>3. "SENT" \notin flags[q] /\ pc[s] \notin X
      BY <3>1, <3>2
    <3>4. \E u \in Servers : cur[u] = q /\ pc[u] \in X
      BY <1>1, <3>1, <3>2, <3>3 DEF IntrOf
    <3>5. \E u \in Servers : cur'[u] = q /\ pc'[u] \in X
      BY <1>6, <3>3, <3>4, StillThere
    <3> QED BY <3>2, <3>5
  <2>2. ASSUME "INTERRUPTED" \in F, pc[q] \in {"wait2", "wait3"},
               loc[q] = "processing", q \notin interrupts' \cup intr_unique
        PROVE  \E u \in Servers : cur'[u] = q /\ pc'[u] \in LatePC
    <3>1. \E u \in Servers : cur[u] = q /\ pc[u] \in LatePC
      BY <1>1, <2>2 DEF IntrOf
    <3>2. CASE pc[s] \in LatePC
      BY <1>7, <2>2, <3>2 DEF UsePC, LatePC
    <3>3. CASE pc[s] \notin LatePC
      BY <1>6, <3>1, <3>3, StillThere
    <3> QED BY <3>2, <3>3
  <2>3. ASSUME q \in interrupts'
        PROVE  /\ InFlight(q)
               /\ "FINISHED" \in F
                  => \E u \in Servers : cur'[u] = q /\ pc'[u] = "end_intr"
    <3>1. CASE q \notin interrupts
      BY <1>9, <2>3, <3>1 DEF Ongoing, Flag
    <3>2. CASE q \in interrupts
      <4>1. SUFFICES ASSUME "FINISHED" \in F
                     PROVE  \E u \in Servers : cur'[u] = q /\ pc'[u] = "end_intr"
        BY <1>1, <3>2 DEF IntrOf
      <4>2. PICK X : X = {"end_intr"}
        OBVIOUS
      <4>3. \E u \in Servers : cur[u] = q /\ pc[u] \in X
        BY <1>1, <1>9, <3>2, <4>1, <4>2 DEF IntrOf, Flag
      <4>4. pc[s] \notin X
        BY <4>2 DEF OwnPC, EndPC
      <4>5. \E u \in Servers : cur'[u] = q /\ pc'[u] \in X
        BY <1>6, <4>3, <4>4, StillThere
      <4> QED BY <4>2, <4>5
    <3> QED BY <3>1, <3>2
  <2> QED BY <1>6, <1>7, <1>8, <1>9, <2>1, <2>2, <2>3 DEF IntrOf
<1>14. Uncounted(q)
  <2>1. (q \in Blocked') = (q \in Blocked)
    BY <1>7 DEF Blocked
  <2>2. (q \in Background') = (q \in Background)
    BY <1>6, <1>8, <1>9 DEF Background, Flag
  <2> QED BY <2>1, <2>2 DEF Uncounted
<1> HIDE DEF Looks
<1> QED BY <1>7, <1>10, <1>11, <1>12, <1>13, <1>14, UncountedStep DEF Kept

(* What a late thread finds.                                               *)
LEMMA LateFinds ==
    ASSUME Lasting, DevInv, NEW s \in Servers,
           pc[s] \in LatePC \cup {"wr_qintr"}
    PROVE  /\ cur[s] \in AllQ /\ "PENDING" \notin flags[cur[s]]
           /\ \A r \in AllQ : r = cur[s] => Ongoing(r)
           /\ pc[s] \in UsePC /\ pc[s] \notin OwnPC
           /\ flags = [flags EXCEPT ![cur[s]] = flags[cur[s]]]
           /\ PlaceOf(cur[s])
<1>1. pc[s] \in UsePC /\ pc[s] \notin OwnPC
  BY DEF UsePC, LatePC, OwnPC, EndPC
<1>2. ServerOf(s) /\ cur[s] \in AllQ
  BY <1>1, BeforeServe
<1>3. PlaceOf(cur[s]) /\ flags = [flags EXCEPT ![cur[s]] = flags[cur[s]]]
  BY <1>1, BeforeServe
<1> QED BY <1>1, <1>2, <1>3 DEF ServerOf

(* FR_SENT is set after fpq->lock is dropped, then FR_INTERRUPTED is read. *)
LEMMA By_read_sent ==
    ASSUME Lasting, DevInv, NEW s \in Servers, read_sent(s) PROVE DevInv'
<1>1. /\ pc[s] = "rd_sent" /\ pc' = [pc EXCEPT ![s] = "rd_intr"]
      /\ flags' = [flags EXCEPT ![cur[s]] = @ \cup {"SENT"}]
      /\ UNCHANGED <<fc, loc, interrupts, count, alive, intr_unique, cur, ret>>
  BY DEF read_sent, Goto, Set, listVars
<1>2. PICK q \in AllQ : q = cur[s]
  BY <1>1, LateFinds DEF LatePC
<1>3. PICK x, F : x = "rd_intr" /\ F = flags[q] \cup {"SENT"}
  OBVIOUS
<1>4. /\ Ongoing(q) /\ "PENDING" \notin flags[q]
      /\ pc[s] \in UsePC /\ pc[s] \notin OwnPC
  BY <1>1, <1>2, LateFinds DEF LatePC
<1>5. Looks(s, q, x, F)
  BY <1>1, <1>2, <1>3, <1>4 DEF Looks, LatePC
<1> QED BY <1>5, Looking

LEMMA By_read_test_interrupted ==
    ASSUME Lasting, DevInv, NEW s \in Servers, read_test_interrupted(s)
    PROVE  DevInv'
<1>1. /\ pc[s] = "rd_intr"
      /\ UNCHANGED <<fc, loc, interrupts, flags, count, alive, intr_unique, cur, ret>>
  BY DEF read_test_interrupted, Goto, listVars, reqVars
<1>2. PICK q \in AllQ : q = cur[s]
  BY <1>1, LateFinds DEF LatePC
<1>3. PICK F : F = flags[q]
  OBVIOUS
<1>4. /\ Ongoing(q) /\ "PENDING" \notin flags[q]
      /\ pc[s] \in UsePC /\ pc[s] \notin OwnPC
      /\ flags = [flags EXCEPT ![q] = F]
  BY <1>1, <1>2, <1>3, LateFinds DEF LatePC
<1>5. PICK x : /\ pc' = [pc EXCEPT ![s] = x]
               /\ x = IF "INTERRUPTED" \in F THEN "rd_qintr" ELSE "idle"
  BY <1>2, <1>3 DEF read_test_interrupted, Goto
<1>6. Looks(s, q, x, F)
  BY <1>1, <1>2, <1>3, <1>4, <1>5 DEF Looks, LatePC
<1> QED BY <1>6, Looking

LEMMA By_server_queue_interrupt ==
    ASSUME Lasting, DevInv, NEW s \in Servers, server_queue_interrupt(s)
    PROVE  DevInv'
<1>1. /\ pc[s] \in {"rd_qintr", "wr_qintr"} /\ pc' = [pc EXCEPT ![s] = "idle"]
      /\ interrupts' = IF "FINISHED" \in flags[cur[s]] THEN interrupts
                                                      ELSE interrupts \cup {cur[s]}
      /\ UNCHANGED <<fc, loc, flags, count, alive, intr_unique, cur, ret>>
  BY DEF server_queue_interrupt, queue_interrupt, Goto, reqVars
<1>2. PICK q \in AllQ : q = cur[s]
  BY <1>1, LateFinds DEF LatePC
<1>3. PICK x, F : x = "idle" /\ F = flags[q]
  OBVIOUS
<1>4. /\ Ongoing(q) /\ "PENDING" \notin flags[q] /\ PlaceOf(q)
      /\ pc[s] \in UsePC /\ pc[s] \notin OwnPC
      /\ flags = [flags EXCEPT ![q] = F]
  BY <1>1, <1>2, <1>3, LateFinds DEF LatePC
<1>5. \/ "FINISHED" \notin flags[q] /\ interrupts' = interrupts \cup {q}
      \/ interrupts' = interrupts /\ loc[q] # "processing"
  BY <1>1, <1>2, <1>4 DEF PlaceOf
<1>6. Looks(s, q, x, F)
  BY <1>1, <1>2, <1>3, <1>4, <1>5 DEF Looks, LatePC
<1> QED BY <1>6, Looking

-----------------------------------------------------------------------------
(* Replies                                                                 *)

(* Nobody else uses a request that the daemon answers.                     *)
LEMMA By_write_reply ==
    ASSUME Lasting, DevInv, NEW s \in Servers, write_reply(s) PROVE DevInv'
<1>1. PICK q \in AllQ :
        /\ loc[q] = "processing"
        /\ flags' = [flags EXCEPT ![q] = (@ \ {"SENT"}) \cup {"LOCKED"}]
        /\ loc' = [loc EXCEPT ![q] = "io"] /\ cur' = [cur EXCEPT ![s] = q]
  BY DEF write_reply, OnDev, Move
<1>2. /\ pc[s] = "idle" /\ pc' = [pc EXCEPT ![s] = "wr_locked"]
      /\ UNCHANGED <<fc, interrupts, count, alive, intr_unique, ret>>
  BY DEF write_reply, Goto
<1>3. PICK x, l, F : /\ x = "wr_locked" /\ l = "io"
                     /\ F = (flags[q] \ {"SENT"}) \cup {"LOCKED"}
  OBVIOUS
<1>4. /\ PlaceOf(q) /\ IntrOf(q) /\ flags[q] \subseteq Flag
      /\ interrupts \subseteq AllQ /\ intr_unique \subseteq AllQ
  BY Before DEF DevInv, TypeOK
<1>5. /\ InFlight(q) /\ "PENDING" \notin flags[q] /\ "FINISHED" \notin flags[q]
      /\ flags[q] \cap {"ABORTED", "PRIVATE"} = {}
  BY <1>1, <1>4 DEF PlaceOf, InFlight
<1>6. Sole(s, q)
  <2>1. ASSUME NEW u \in Servers \ {s}, pc[u] \in OwnPC, cur[u] = q PROVE FALSE
    <3>1. ServerOf(u)
      BY DEF DevInv, ServerInv
    <3> QED BY <1>1, <2>1, <3>1 DEF ServerOf, UsePC, OwnPC, CopyPC, EndPC, LatePC
  <2> QED BY <2>1 DEF Sole
<1>7. Touches(s, q, x, l, F)
  <2>1. x \in ServerPC /\ pc[s] \notin UsePC
    BY <1>2, <1>3 DEF ServerPC, UsePC, OwnPC, EndPC, LatePC
  <2>2. F \subseteq Flag
    BY <1>3, <1>4 DEF Flag
  <2> QED BY <1>1, <1>2, <1>3, <1>4, <2>1, <2>2 DEF Touches
<1>8. Carry(s, q, x, l, F)
  <2>1. Fits(x, l, F)
    BY <1>3 DEF Fits, CopyPC, LatePC, EndPC
  <2> QED BY <1>1, <1>3, <1>5, <1>6, <1>7, <2>1 DEF Carry
<1>9. Serves(s, q, x) /\ loc'[q] = l /\ flags'[q] = F
  BY <1>7, Touched
<1>10. InFlight(q)'
  BY <1>3, <1>9, ServerFlight
<1>11. IntrOf(q)'
  BY <1>2, <1>3, <1>5, <1>9, <1>10 DEF IntrOf
<1> QED BY <1>8, <1>11, Carrying

LEMMA By_write_interrupt_reply ==
    ASSUME Lasting, DevInv, NEW s \in Servers, write_interrupt_reply(s)
    PROVE  DevInv'
<1>1. /\ pc[s] = "idle"
      /\ UNCHANGED <<loc, interrupts, flags, count, alive, intr_unique, ret>>
  BY DEF write_interrupt_reply, Goto, listVars, reqVars
<1>2. CASE fc' = [fc EXCEPT !.no_interrupt = TRUE] /\ UNCHANGED <<pc, cur>>
  <2>1. fc \in Conn /\ fc.connected /\ fc.iq /\ fc.lock = None
    BY DEF DevInv, TypeOK
  <2>2. /\ fc' \in Conn /\ fc'.connected /\ fc'.iq /\ fc'.lock = None
        /\ fc'.num_waiting = fc.num_waiting
        /\ fc'.num_background = fc.num_background
        /\ fc'.active_background = fc.active_background
    BY <1>2, <2>1 DEF Conn
  <2>3. Rests
    BY <1>1, <1>2, <2>2 DEF Rests, DevInv, TypeOK
  <2> QED BY <2>3, Idling
<1>3. CASE \E q \in OnDev("processing", DevOf[s]) \cap intr_unique :
             /\ Goto(s, "idle", "wr_qintr") /\ cur' = [cur EXCEPT ![s] = q]
             /\ UNCHANGED fc
  <2>1. PICK q \in AllQ : /\ loc[q] = "processing"
                          /\ pc' = [pc EXCEPT ![s] = "wr_qintr"]
                          /\ cur' = [cur EXCEPT ![s] = q] /\ UNCHANGED fc
    BY <1>3 DEF OnDev, Goto
  <2>2. PICK x, F : x = "wr_qintr" /\ F = flags[q]
    OBVIOUS
  <2>3. flags = [flags EXCEPT ![q] = F]
    BY <2>2 DEF DevInv, TypeOK
  <2>4. pc[s] \notin UsePC /\ pc[s] \notin LatePC \cup OwnPC
        /\ pc[s] # "rd_sent"
    BY <1>1 DEF UsePC, OwnPC, LatePC, EndPC
  <2>5. Ongoing(q) /\ "PENDING" \notin flags[q]
    BY <2>1, Before DEF PlaceOf, Ongoing, InFlight
  <2>6. Looks(s, q, x, F)
    BY <1>1, <2>1, <2>2, <2>3, <2>4, <2>5 DEF Looks
  <2> QED BY <2>6, Looking
<1> QED BY <1>2, <1>3 DEF write_interrupt_reply

-----------------------------------------------------------------------------
(* The end of a request, and the other threads                             *)

LEMMA By_fuse_conn_max_background_write ==
    ASSUME Lasting, DevInv, fuse_conn_max_background_write PROVE DevInv'
<1>1. PICK n \in Nat : fc' = [fc EXCEPT !.max_background = n]
  BY FuseDevAssumption DEF fuse_conn_max_background_write
<1>2. fc \in Conn /\ fc.connected /\ fc.iq /\ fc.lock = None
  BY DEF DevInv, TypeOK
<1>3. /\ fc' \in Conn /\ fc'.connected /\ fc'.iq /\ fc'.lock = None
      /\ fc'.num_waiting = fc.num_waiting
      /\ fc'.num_background = fc.num_background
      /\ fc'.active_background = fc.active_background
  BY <1>1, <1>2 DEF Conn
<1>4. Rests
  BY <1>3 DEF Rests, DevInv, TypeOK, fuse_conn_max_background_write, listVars, reqVars
<1> QED BY <1>4, Idling

LEMMA By_fuse_conn_abort_write ==
    ASSUME Lasting, DevInv, NEW t \in Killers, fuse_conn_abort_write(t)
    PROVE  DevInv'
<1>1. /\ pc' = [pc EXCEPT ![t] = "abort"]
      /\ UNCHANGED <<fc, loc, interrupts, flags, count, alive, intr_unique, cur, ret>>
  BY DEF fuse_conn_abort_write, Goto, listVars, reqVars
<1>2. /\ pc \in [AllQ \cup Enders -> PC] /\ t \in Enders /\ "abort" \in PC
  BY Kinds DEF DevInv, TypeOK, PC
<1>3. /\ pc' \in [AllQ \cup Enders -> PC] /\ pc'[t] = "abort"
      /\ \A u \in (AllQ \cup Enders) \ {t} : pc'[u] = pc[u]
  BY <1>1, <1>2
<1>4. \A u \in AllQ \cup Servers : pc'[u] = pc[u]
  BY <1>3, Kinds
<1>5. TypeOK'
  <2>1. \A u \in Killers : pc'[u] \in {"open", "abort"}
    BY <1>3, Kinds DEF DevInv, TypeOK
  <2>2. /\ \A q \in SyncReq : pc'[q] \in SyncPC
        /\ \A q \in BgReq : pc'[q] \in BgPC
        /\ \A s \in Servers : pc'[s] \in ServerPC
    BY <1>4, Kinds DEF DevInv, TypeOK
  <2> QED BY <1>1, <1>3, <2>1, <2>2 DEF DevInv, TypeOK
<1>6. Rests
  BY <1>1, <1>4, <1>5 DEF Rests
<1> QED BY <1>6, Idling

(* The thread that ended a request drops the reference of the transport.   *)
LEMMA By_end_put ==
    ASSUME Lasting, DevInv, NEW s \in Servers, end_put(s) PROVE DevInv'
<1>1. /\ pc[s] = "end_put" /\ fuse_put_request(cur[s])
      /\ UNCHANGED <<loc, interrupts, flags, intr_unique, cur, ret>>
      /\ pc' = [pc EXCEPT ![s] = ret[s]]
  BY DEF end_put, Goto, listVars
<1>2. PICK q, F : Has(s, q, F)
  BY <1>1, Owner DEF OwnPC, EndPC
<1>3. PICK x : x = "idle"
  OBVIOUS
<1>4. /\ q \in AllQ /\ q = cur[s] /\ loc[q] = "none" /\ "FINISHED" \in flags[q]
      /\ q \notin interrupts
  BY <1>1, <1>2 DEF Has, CopyPC, EndPC
<1>5. /\ PlaceOf(q) /\ RefOf(q) /\ IntrOf(q) /\ count[q] \in Int
      /\ fc \in Conn /\ fc.connected /\ fc.iq /\ fc.lock = None
  BY <1>4, Before
<1>6. Sole(s, q) /\ InFlight(q) /\ ServerOf(s)
  BY <1>1, <1>4, OwnerAlone DEF OwnPC, DevInv, ServerInv, EndPC
<1>7. /\ q \in alive /\ "WAITING" \in flags[q]
      /\ count[q] = 1 + One(Holds(q))
  BY <1>5, <1>6 DEF RefOf, One
<1>8. /\ count' = [count EXCEPT ![q] = @ - 1]
      /\ ~Holds(q) => alive' = alive \ {q}
                      /\ fc' = [fc EXCEPT !.num_waiting = @ - 1]
      /\ Holds(q) => alive' = alive /\ fc' = fc
  BY <1>1, <1>4, <1>5, <1>7 DEF fuse_put_request, One
<1>9. /\ fc' \in Conn /\ fc'.connected /\ fc'.iq /\ fc'.lock = None
      /\ fc'.num_background = fc.num_background
      /\ fc'.active_background = fc.active_background
      /\ fc'.num_waiting = fc.num_waiting - One(~Holds(q))
  BY <1>5, <1>8 DEF Conn, One
<1>10. ReqTypes
  <2>1. count' \in [AllQ -> Int] /\ alive' \subseteq AllQ
    BY <1>4, <1>8 DEF DevInv, TypeOK
  <2> QED BY <1>1, <1>9, <2>1 DEF ReqTypes, DevInv, TypeOK
<1>11. Serves(s, q, x)
  <2>1. x \in ServerPC /\ x \notin UsePC /\ pc' = [pc EXCEPT ![s] = x]
    BY <1>1, <1>3, Kinds DEF DevInv, TypeOK, ServerPC, UsePC, OwnPC, EndPC, LatePC
  <2>2. \A p \in AllQ \ {q} : Same(p) /\ loc'[p] = loc[p]
    BY <1>1, <1>8 DEF Same, DevInv, TypeOK
  <2> QED BY <1>1, <1>4, <1>10, <2>1, <2>2 DEF Serves
<1>12. /\ Step(s, q) /\ pc'[s] = x /\ pc'[q] = pc[q]
       /\ Holds(q)' <=> Holds(q)
  BY <1>11, ServerStep
<1>13. ~InFlight(q)'
  <2>1. ~OtherOwns(s, q)
    BY <1>6 DEF Sole, OtherOwns, UsePC, LatePC
  <2> QED BY <1>1, <1>3, <1>4, <1>11, <2>1, ServerFlight DEF OwnPC, EndPC
<1>14. Served(s, q)
  <2>1. ServerOf(s)'
    BY <1>3, <1>12 DEF ServerOf, UsePC, OwnPC, CopyPC, LatePC, EndPC
  <2>2. "PENDING" \notin flags'[q] /\ Ongoing(q)'
    BY <1>1, <1>4, <1>6 DEF ServerOf, UsePC, OwnPC, EndPC, Ongoing
  <2> QED BY <1>3, <1>6, <1>11, <2>1, <2>2, ServerServed DEF OwnPC, EndPC
<1>15. PlaceOf(q)'
  BY <1>1, <1>4, <1>5, <1>6, <1>12, <1>13 DEF PlaceOf, Ongoing
<1>16. RefOf(q)'
  <2>1. count'[q] = One(Holds(q)) /\ (q \in alive' <=> Holds(q))
    BY <1>4, <1>7, <1>8 DEF DevInv, TypeOK, One
  <2> QED BY <1>1, <1>7, <1>12, <1>13, <2>1 DEF RefOf, One
<1>17. IntrOf(q)'
  BY <1>1, <1>4, <1>5 DEF IntrOf
<1>18. WaitingInv'
  <2>1. q \notin Blocked /\ q \notin Blocked' /\ (q \in alive' <=> Holds(q))
    BY <1>5, <1>6, <1>7, <1>8, <1>12 DEF Blocked, PlaceOf, Ongoing
  <2>2. Waits(q) = 1 /\ Waits(q)' = One(Holds(q))
    BY <1>7, <2>1 DEF Waits, One
  <2>3. fc'.num_waiting = fc.num_waiting + Waits(q)' - Waits(q)
    BY <1>5, <1>9, <2>2 DEF One, Conn
  <2> QED BY <1>12, <2>3, WaitingStep
<1>19. BackgroundCounted'
  <2>1. "BACKGROUND" \notin flags[q]
    BY <1>1, <1>4, <1>6 DEF ServerOf
  <2>2. q \notin Background /\ q \notin Background'
    BY <1>1, <2>1 DEF Background
  <2> QED BY <1>1, <1>9, <1>12, <2>2, BackgroundStep
<1> QED BY <1>12, <1>14, <1>15, <1>16, <1>17, <1>18, <1>19, StepKeeps DEF Kept

(* The accounting of background requests in request_end, with the flush of *)
(* bg_queue.                                                               *)
LEMMA By_end_background ==
    ASSUME Lasting, DevInv, NEW s \in Servers, end_background(s) PROVE DevInv'
<1>1. /\ pc[s] = "end_bg" /\ pc' = [pc EXCEPT ![s] = "end_put"]
      /\ UNCHANGED <<interrupts, count, alive, intr_unique, cur, ret>>
  BY DEF end_background, Goto
<1>2. PICK q, F : Has(s, q, F)
  BY <1>1, Owner DEF OwnPC, EndPC
<1>3. /\ q \in AllQ /\ q = cur[s] /\ loc[q] = "none" /\ "FINISHED" \in flags[q]
      /\ q \notin interrupts
  BY <1>1, <1>2 DEF Has, CopyPC, EndPC
<1>4. PICK x : x = "end_put"
  OBVIOUS
<1>5. CASE "BACKGROUND" \notin flags[q] /\ UNCHANGED <<fc, loc, flags>>
  <2>1. PICK l : l = "none"
    OBVIOUS
  <2>2. Touches(s, q, x, l, F)
    BY <1>1, <1>2, <1>3, <1>4, <1>5, <2>1 DEF Touches, Has, ServerPC, UsePC, OwnPC, EndPC, LatePC
  <2>3. OwnerMoves(s, q, x, l, F)
    BY <1>1, <1>2, <1>3, <1>4, <1>5, <2>1, <2>2
       DEF OwnerMoves, Fits, Has, OwnPC, CopyPC, LatePC, EndPC
  <2> QED BY <2>3, OwnerMoving
<1>6. CASE "BACKGROUND" \in flags[q] /\ ~UNCHANGED <<fc, loc, flags>>
  <2>1. /\ PlaceOf(q) /\ RefOf(q) /\ IntrOf(q) /\ flags[q] \subseteq Flag
        /\ fc \in Conn /\ fc.connected /\ fc.iq /\ fc.lock = None
    BY <1>3, Before
  <2>2. Sole(s, q) /\ InFlight(q) /\ ServerOf(s)
    BY <1>1, <1>3, OwnerAlone DEF OwnPC, DevInv, ServerInv, EndPC
  <2>3. PICK f : /\ f \in Conn /\ f.connected /\ f.iq /\ f.lock = None
                 /\ f.num_background = fc.num_background - 1
                 /\ f.active_background = fc.active_background - 1
                 /\ f.num_waiting = fc.num_waiting
                 /\ flush_bg_queue(f, loc)
    <3>1. /\ fc.blocked \in BOOLEAN /\ fc.congested \in BOOLEAN
          /\ fc.num_background \in Int /\ fc.active_background \in Int
      BY <2>1 DEF Conn
    <3>2. PICK b \in BOOLEAN, c \in BOOLEAN :
            /\ b = (fc.blocked /\ fc.num_background # fc.max_background)
            /\ c = (fc.congested /\ ~(/\ fc.num_background = CongestionThreshold
                                      /\ fc.connected))
      BY <3>1
    <3>3. PICK n \in Int, a \in Int : /\ n = fc.num_background - 1
                                     /\ a = fc.active_background - 1
      BY <3>1
    <3> DEFINE g == [fc EXCEPT !.blocked = b, !.num_background = n,
                               !.active_background = a, !.congested = c]
    <3>4. flush_bg_queue(g, loc)
      BY <1>3, <1>6, <3>2, <3>3 DEF end_background
    <3>5. g \in Conn
      BY <2>1 DEF Conn
    <3>6. /\ g.connected /\ g.iq /\ g.lock = None
          /\ g.num_background = n /\ g.active_background = a
          /\ g.num_waiting = fc.num_waiting
      BY <2>1 DEF Conn
    <3> HIDE DEF g
    <3> QED BY <3>3, <3>4, <3>5, <3>6
  <2>4. PICK S : Flushed(f, loc, S)
    BY <2>3, Flushing
  <2>5. /\ S \in SUBSET AllQ /\ Cardinality(S) \in Nat /\ q \notin S
        /\ \A p \in S : loc[p] = "bg_queue" /\ loc'[p] = "pending"
        /\ \A p \in AllQ \ S : loc'[p] = loc[p]
        /\ fc' = [f EXCEPT !.active_background = @ + Cardinality(S)]
    BY <1>3, <2>4, FiniteReqs DEF Flushed
  <2>6. /\ fc' \in Conn /\ fc'.connected /\ fc'.iq /\ fc'.lock = None
        /\ fc'.num_background = fc.num_background - 1
        /\ fc'.active_background = fc.active_background - 1 + Cardinality(S)
        /\ fc'.num_waiting = fc.num_waiting
    BY <2>3, <2>5 DEF Conn
  <2>7. /\ loc'[q] = "none"
        /\ \A p \in AllQ \ {q} :
             loc'[p] = loc[p] \/ (loc[p] = "bg_queue" /\ loc'[p] = "pending")
        /\ loc' \in [AllQ -> List]
    <3>1. loc'[q] = "none"
         /\ \A p \in AllQ \ {q} :
              loc'[p] = loc[p] \/ (loc[p] = "bg_queue" /\ loc'[p] = "pending")
      BY <1>3, <2>5
    <3>2. \A p \in AllQ : loc'[p] \in List
      BY <3>1 DEF DevInv, TypeOK, List
    <3>3. loc' = [p \in AllQ |-> loc'[p]]
      BY <2>4 DEF Flushed
    <3> QED BY <3>1, <3>2, <3>3
  <2>8. flags' = [flags EXCEPT ![q] = @ \ {"BACKGROUND"}]
    BY <1>3, <1>6 DEF end_background, Clear
  <2>9. /\ flags'[q] = flags[q] \ {"BACKGROUND"}
        /\ flags' \in [AllQ -> SUBSET Flag]
        /\ \A p \in AllQ \ {q} : flags'[p] = flags[p]
    BY <1>3, <2>1, <2>8 DEF DevInv, TypeOK
  <2>10. ReqTypes
    BY <1>1, <2>6, <2>7, <2>9 DEF ReqTypes, DevInv, TypeOK
  <2>11. Serves(s, q, x)
    <3>1. x \in ServerPC /\ pc' = [pc EXCEPT ![s] = x]
      BY <1>1, <1>4 DEF ServerPC, UsePC, OwnPC, EndPC, LatePC
    <3>2. \A p \in AllQ \ {q} : Same(p)
      BY <1>1, <2>9 DEF Same
    <3> QED BY <1>1, <1>3, <2>7, <2>10, <3>1, <3>2 DEF Serves
  <2>12. /\ Step(s, q) /\ pc'[s] = x /\ pc'[q] = pc[q] /\ cur'[s] = q
         /\ Holds(q)' <=> Holds(q)
    BY <1>1, <1>3, <2>11, ServerStep
  <2>13. InFlight(q)'
    BY <1>4, <2>11, ServerFlight DEF OwnPC, EndPC
  <2>14. Served(s, q)
    <3>1. ServerOf(s)'
      BY <1>3, <1>4, <2>2, <2>7, <2>9, <2>12, <1>1
         DEF ServerOf, UsePC, OwnPC, CopyPC, LatePC, EndPC
    <3>2. "PENDING" \notin flags'[q] /\ Ongoing(q)'
      BY <1>1, <1>3, <2>2, <2>9, <2>13
         DEF ServerOf, UsePC, OwnPC, EndPC, Ongoing
    <3> QED BY <2>2, <2>11, <3>1, <3>2, ServerServed
  <2>15. PlaceOf(q)'
    BY <1>3, <2>1, <2>7, <2>9, <2>12, <2>13, <2>2 DEF PlaceOf, Ongoing
  <2>16. RefOf(q)'
    BY <1>1, <2>1, <2>2, <2>9, <2>12, <2>13 DEF RefOf
  <2>17. IntrOf(q)'
    BY <1>1, <1>3, <2>1, <2>7, <2>9 DEF IntrOf
  <2>18. WaitingInv'
    <3>1. Waits(q)' = Waits(q)
      BY <1>1, <2>12 DEF Waits, Blocked
    <3>2. Waits(q) \in Int /\ fc.num_waiting \in Int
      BY <2>1 DEF Waits, One, Conn
    <3>3. fc'.num_waiting = fc.num_waiting + Waits(q)' - Waits(q)
      BY <2>6, <3>1, <3>2
    <3> QED BY <2>12, <3>3, WaitingStep
  <2>19. BackgroundCounted'
    <3>1. q \in Background /\ q \in Active /\ q \notin Background' /\ q \notin Active'
      BY <1>3, <1>6, <2>1, <2>2, <2>9 DEF PlaceOf, Background, Active, On
    <3>2. \A p \in BgReq \ {q} : (p \in Background') = (p \in Background)
      BY <2>12, OthersFlight, Kinds DEF Step, Same, Background
    <3>3. ASSUME NEW p \in S PROVE p \in Background \ Active /\ p # q
      <4>1. p \in AllQ /\ loc[p] = "bg_queue"
        BY <2>5
      <4>2. PlaceOf(p)
        BY <4>1 DEF DevInv, PlaceInv
      <4> QED BY <4>1, <4>2, <2>5 DEF PlaceOf, Background, InFlight, Active, On
    <3>4. S \cap (Active \ {q}) = {}
      BY <3>3
    <3>5. Active' = (Active \ {q}) \cup S
      <4>1. ASSUME NEW p \in Active' PROVE p \in (Active \ {q}) \cup S
        <5>1. p \in BgReq /\ p \in AllQ /\ p \in Background' /\ loc'[p] # "bg_queue"
          BY <4>1, Kinds DEF Active, Background, On
        <5> QED BY <5>1, <2>5, <3>1, <3>2 DEF Active, On
      <4>2. ASSUME NEW p \in Active \ {q} PROVE p \in Active'
        <5>1. p \in BgReq /\ p \in AllQ /\ p \in Background' /\ loc[p] # "bg_queue"
          BY <4>2, <3>2, Kinds DEF Active, Background, On
        <5> QED BY <5>1, <2>7, <4>2 DEF Active, On
      <4>3. ASSUME NEW p \in S PROVE p \in Active'
        <5>1. p \in Background'
          BY <3>2, <3>3 DEF Background
        <5> QED BY <5>1, <2>5 DEF Active, On
      <4> QED BY <4>1, <4>2, <4>3
    <3>6. /\ fc'.num_background = fc.num_background + One(q \in Background')
                                  - One(q \in Background)
          /\ fc'.active_background = fc.active_background - One(q \in Active)
                                     + Cardinality(S)
      BY <2>1, <2>5, <2>6, <3>1 DEF One, Conn
    <3> QED BY <2>5, <2>12, <3>4, <3>5, <3>6, FlushCounted
  <2> QED BY <2>12, <2>14, <2>15, <2>16, <2>17, <2>18, <2>19, StepKeeps DEF Kept
<1>7. CASE UNCHANGED <<fc, loc, flags>>
  <2>1. "BACKGROUND" \notin flags[q]
    <3>1. SUFFICES ASSUME "BACKGROUND" \in flags[q] PROVE FALSE
      OBVIOUS
    <3>2. flags'[q] = flags[q] \ {"BACKGROUND"}
      BY <1>3, <3>1 DEF end_background, Clear, DevInv, TypeOK
    <3> QED BY <1>7, <3>1, <3>2
  <2> QED BY <1>5, <1>7, <2>1
<1> QED BY <1>3, <1>5, <1>6, <1>7 DEF end_background

-----------------------------------------------------------------------------
(* The limit on background requests.  This part needs no hypothesis on the *)
(* threads: devices may be closed and the connection aborted.              *)

(* A thread that is past the start of fuse_abort_conn and has not yet      *)
(* lifted the limit has disconnected.                                      *)
AbortInv ==
    /\ DOMAIN pc = AllQ \cup Enders /\ DOMAIN ret = Enders
    /\ \A t \in Enders : /\ ret[t] # "ab_dev"
                         /\ pc[t] = "ab_dev" => ~fc.connected
LimitInv == fc \in Conn /\ DOMAIN loc = AllQ /\ AbortInv

(* What every step does to the connection and to the limit.                *)
LimitStep ==
    /\ LimitInv' /\ (fc'.connected => fc.connected)
    /\ BackgroundLimited => BackgroundLimited'

(* A step that leaves the counts alone and queues nothing, one that        *)
(* flushes bg_queue, and what both do to the threads.                      *)
Quiet ==
    /\ fc' \in Conn /\ (fc'.connected => fc.connected)
    /\ fc'.active_background = fc.active_background
    /\ fc'.connected => fc'.max_background = fc.max_background
    /\ DOMAIN loc' = AllQ
    /\ \A q \in AllQ : loc'[q] = "bg_queue" => loc[q] = "bg_queue"
Flushes ==
    \E f, l : /\ f \in Conn /\ f.connected = fc.connected
              /\ f.max_background = fc.max_background
              /\ f.active_background <= fc.active_background
              /\ flush_bg_queue(f, l)

LEMMA FlushLimits ==
    ASSUME LimitInv, Flushes
    PROVE  /\ fc' \in Conn /\ fc'.connected = fc.connected /\ DOMAIN loc' = AllQ
           /\ BackgroundLimited => BackgroundLimited'
<1>1. PICK f, l : /\ f \in Conn /\ f.connected = fc.connected
                  /\ f.max_background = fc.max_background
                  /\ f.active_background <= fc.active_background
                  /\ flush_bg_queue(f, l)
  BY DEF Flushes
<1>2. PICK bg : bg = {q \in AllQ : l[q] = "bg_queue"}
  OBVIOUS
<1>3. PICK n : n = IF Room(f) < Cardinality(bg) THEN Room(f) ELSE Cardinality(bg)
  OBVIOUS
<1>4. PICK S \in SUBSET bg :
        /\ Cardinality(S) = n
        /\ fc' = [f EXCEPT !.active_background = @ + n]
        /\ loc' = [q \in AllQ |-> IF q \in S THEN "pending" ELSE l[q]]
  BY <1>1, <1>2, <1>3 DEF flush_bg_queue
<1>5. /\ IsFiniteSet(bg) /\ Cardinality(bg) \in Nat /\ Room(f) \in Nat
      /\ f.max_background \in Nat /\ f.active_background \in Int
      /\ fc.active_background \in Int
  <2>1. bg \subseteq AllQ
    BY <1>2
  <2>2. /\ f.max_background \in Nat /\ f.active_background \in Int
        /\ fc.active_background \in Int
    BY <1>1 DEF LimitInv, Conn
  <2> QED BY <2>1, <2>2, FiniteReqs DEF Room
<1>6. n \in Nat /\ n <= Room(f)
  BY <1>3, <1>5
<1>7. /\ fc' \in Conn /\ fc'.connected = fc.connected
      /\ fc'.max_background = f.max_background
      /\ fc'.active_background = f.active_background + n
  BY <1>1, <1>4, <1>6 DEF Conn
<1>8. ASSUME BackgroundLimited, fc.connected PROVE fc'.active_background <= fc'.max_background
  <2>1. f.active_background <= f.max_background
    BY <1>1, <1>5, <1>8 DEF BackgroundLimited
  <2> QED BY <1>5, <1>6, <1>7, <2>1 DEF Room
<1>9. ASSUME BackgroundLimited, fc.connected, On("bg_queue")' # {}
      PROVE  fc'.active_background = fc'.max_background
  <2>1. PICK p \in AllQ : loc'[p] = "bg_queue"
    BY <1>9 DEF On
  <2>2. p \in bg /\ p \notin S
    BY <1>2, <1>4, <2>1
  <2>3. S # bg
    BY <2>2
  <2>4. n # Cardinality(bg)
    BY <1>4, <1>5, <2>3, FS_Subset
  <2>5. n = Room(f)
    BY <1>3, <2>4
  <2>6. f.active_background <= f.max_background
    BY <1>1, <1>5, <1>9 DEF BackgroundLimited
  <2> QED BY <1>5, <1>7, <2>5, <2>6 DEF Room
<1>10. DOMAIN loc' = AllQ
  BY <1>4
<1>11. BackgroundLimited => BackgroundLimited'
  BY <1>7, <1>8, <1>9 DEF BackgroundLimited
<1> QED BY <1>7, <1>10, <1>11

LEMMA LimitKept ==
    ASSUME LimitInv, Quiet \/ Flushes, AbortInv' PROVE LimitStep
<1>1. CASE Quiet
  <2>1. BackgroundLimited => BackgroundLimited'
    BY <1>1 DEF BackgroundLimited, Quiet, On
  <2> QED BY <1>1, <2>1 DEF LimitStep, LimitInv, Quiet
<1>2. CASE Flushes
  BY <1>2, FlushLimits DEF LimitStep, LimitInv
<1> QED BY <1>1, <1>2

LEMMA PutQuiet ==
    ASSUME LimitInv, NEW q, fuse_put_request(q), UNCHANGED loc
    PROVE  Quiet /\ fc'.connected = fc.connected
<1>1. fc \in Conn
  BY DEF LimitInv
<1>2. CASE UNCHANGED fc
  BY <1>1, <1>2 DEF Quiet, LimitInv
<1>3. CASE fc' = [fc EXCEPT !.num_waiting =
                    @ - (IF "WAITING" \in flags[q] THEN 1 ELSE 0)]
  <2>1. PICK n \in Int : n = fc.num_waiting - (IF "WAITING" \in flags[q] THEN 1 ELSE 0)
    BY <1>1 DEF Conn
  <2>2. fc' = [fc EXCEPT !.num_waiting = n]
    BY <1>3, <2>1
  <2>3. fc' \in Conn
    BY <1>1, <2>2 DEF Conn
  <2> QED BY <1>1, <2>2, <2>3 DEF Quiet, LimitInv, Conn
<1> QED BY <1>2, <1>3 DEF fuse_put_request

LEMMA SyncLimit ==
    ASSUME LimitInv, NEW q \in SyncReq, SyncRequester(q) PROVE LimitStep
<1> USE DEF Goto
<1>0. fc \in Conn /\ DOMAIN loc = AllQ /\ AbortInv
  BY DEF LimitInv
<1>1. CASE fuse_get_req(q)
  <2>1. UNCHANGED <<loc, ret>>
    BY <1>1 DEF fuse_get_req, listVars
  <2>2. fc' = fc \/ fc' = [fc EXCEPT !.num_waiting = @ + 1]
    BY <1>1 DEF fuse_get_req
  <2>3. fc' \in Conn
    BY <1>0, <2>2 DEF Conn
  <2>4. Quiet
    BY <1>0, <2>1, <2>2, <2>3 DEF Quiet, Conn
  <2>5. AbortInv'
    BY <1>0, <1>1, <2>1, <2>4 DEF AbortInv, Quiet, fuse_get_req
  <2> QED BY <2>4, <2>5, LimitKept
<1>2. CASE requester_put(q)
  <2>1. Quiet
    BY <1>2, PutQuiet DEF requester_put, listVars
  <2>2. AbortInv'
    BY <1>0, <1>2, <2>1 DEF AbortInv, Quiet, requester_put
  <2> QED BY <2>1, <2>2, LimitKept
<1>3. CASE \/ fuse_request_send(q) \/ wait_finished(q) \/ wait_interrupted(q)
           \/ wait_test_sent(q) \/ wait_queue_interrupt(q) \/ wait_killed(q)
  <2>1. UNCHANGED <<fc, ret>>
    BY <1>3 DEF fuse_request_send, wait_finished, wait_interrupted,
       wait_test_sent, wait_queue_interrupt, wait_killed
  <2>2. \/ loc' = loc \/ loc' = [loc EXCEPT ![q] = "pending"]
        \/ loc' = [loc EXCEPT ![q] = "none"]
    BY <1>3 DEF fuse_request_send, wait_finished, wait_interrupted,
       wait_test_sent, wait_queue_interrupt, wait_killed, listVars, Move,
       queue_interrupt
  <2>3. PICK x : x # "ab_dev" /\ pc' = [pc EXCEPT ![q] = x]
    BY <1>3 DEF fuse_request_send, wait_finished, wait_interrupted,
       wait_test_sent, wait_queue_interrupt, wait_killed, NextWait
  <2>4. Quiet
    BY <1>0, <2>1, <2>2 DEF Quiet
  <2>5. AbortInv'
    BY <1>0, <2>1, <2>3 DEF AbortInv
  <2> QED BY <2>4, <2>5, LimitKept
<1> QED BY <1>1, <1>2, <1>3 DEF SyncRequester

LEMMA BackgroundLimit ==
    ASSUME LimitInv, NEW q \in BgReq, BgRequester(q) PROVE LimitStep
<1> USE DEF Goto
<1>0. fc \in Conn /\ DOMAIN loc = AllQ /\ AbortInv
  BY DEF LimitInv
<1>1. CASE \/ fuse_get_req_for_background(q) \/ blocked_woken(q)
           \/ blocked_killed(q) \/ get_req_alloc(q)
  <2>1. UNCHANGED <<loc, ret>>
    BY <1>1 DEF fuse_get_req_for_background, blocked_woken, blocked_killed,
       get_req_alloc, listVars
  <2>2. \/ fc' = fc \/ fc' = [fc EXCEPT !.num_waiting = @ + 1]
        \/ fc' = [fc EXCEPT !.num_waiting = @ - 1]
    BY <1>1 DEF fuse_get_req_for_background, blocked_woken, blocked_killed,
       get_req_alloc
  <2>3. fc' \in Conn
    BY <1>0, <2>2 DEF Conn
  <2>4. Quiet
    BY <1>0, <2>1, <2>2, <2>3 DEF Quiet, Conn
  <2>5. PICK x : x # "ab_dev" /\ pc' \in {pc, [pc EXCEPT ![q] = x]}
    BY <1>1 DEF fuse_get_req_for_background, blocked_woken, blocked_killed,
       get_req_alloc
  <2>6. AbortInv'
    BY <1>0, <2>1, <2>4, <2>5 DEF AbortInv, Quiet
  <2> QED BY <2>4, <2>6, LimitKept
<1>2. CASE background_unsent(q)
  <2>1. Quiet
    BY <1>2, PutQuiet DEF background_unsent, listVars
  <2>2. AbortInv'
    BY <1>0, <1>2, <2>1 DEF AbortInv, Quiet, background_unsent
  <2> QED BY <2>1, <2>2, LimitKept
<1>3. CASE fuse_request_send_background(q)
  <2>1. pc' = [pc EXCEPT ![q] = "done"] /\ UNCHANGED ret
    BY <1>3 DEF fuse_request_send_background
  <2>2. CASE fc.connected /\ background_queued(q)
    <3>1. Flushes
      <4>0. PICK n \in Int : n = fc.num_background + 1
        BY <1>0 DEF Conn
      <4>a. fc.blocked \in BOOLEAN /\ fc.congested \in BOOLEAN
        BY <1>0 DEF Conn
      <4>1. PICK b \in BOOLEAN, c \in BOOLEAN :
              /\ b = (fc.blocked \/ n = fc.max_background)
              /\ c = (fc.congested \/ n = CongestionThreshold)
        BY <4>a
      <4> DEFINE f == [fc EXCEPT !.num_background = n]
                 g == [f EXCEPT !.blocked = b, !.congested = c]
      <4>2. f = [fc EXCEPT !.num_background = @ + 1] /\ f.num_background = n
            /\ f \in Conn /\ f.connected = fc.connected /\ f.blocked = fc.blocked
            /\ f.congested = fc.congested
            /\ f.max_background = fc.max_background
            /\ f.active_background = fc.active_background
        BY <1>0, <4>0 DEF Conn
      <4>3. flush_bg_queue(g, [loc EXCEPT ![q] = "bg_queue"])
        <5> HIDE DEF f
        <5>1. g = [f EXCEPT
                     !.blocked = @ \/ f.num_background = fc.max_background,
                     !.congested = @ \/ f.num_background = CongestionThreshold]
          BY <4>1, <4>2
        <5> HIDE DEF g
        <5> QED BY <2>2, <4>2, <5>1 DEF background_queued
      <4> HIDE DEF f
      <4>4. /\ g \in Conn /\ g.connected = f.connected
            /\ g.max_background = f.max_background
            /\ g.active_background = f.active_background
        BY <4>1, <4>2 DEF Conn
      <4>5. f.active_background <= fc.active_background
        BY <1>0, <4>2 DEF Conn
      <4> HIDE DEF g
      <4> QED BY <4>2, <4>3, <4>4, <4>5 DEF Flushes
    <3>2. AbortInv'
      BY <1>0, <2>1, <3>1, FlushLimits DEF AbortInv
    <3> QED BY <3>1, <3>2, LimitKept
  <2>3. CASE fuse_put_request(q) /\ UNCHANGED loc
    <3>1. Quiet
      BY <2>3, PutQuiet
    <3>2. AbortInv'
      BY <1>0, <2>1, <3>1 DEF AbortInv, Quiet
    <3> QED BY <3>1, <3>2, LimitKept
  <2> QED BY <1>3, <2>2, <2>3 DEF fuse_request_send_background
<1> QED BY <1>1, <1>2, <1>3 DEF BgRequester

LEMMA EndLimit ==
    ASSUME LimitInv, NEW t \in Enders, request_end(t) PROVE LimitStep
<1> USE DEF Goto
<1>0. fc \in Conn /\ DOMAIN loc = AllQ /\ AbortInv /\ ret[t] # "ab_dev"
  BY DEF LimitInv, AbortInv
<1>1. PICK x : x # "ab_dev" /\ pc' = [pc EXCEPT ![t] = x] /\ UNCHANGED ret
  BY <1>0 DEF request_end, end_finished, end_interrupt, end_background, end_put
<1>2. CASE end_finished(t) \/ end_interrupt(t)
  <2>1. Quiet
    BY <1>0, <1>2 DEF Quiet, end_finished, end_interrupt, listVars
  <2>2. AbortInv'
    BY <1>0, <1>1, <2>1 DEF AbortInv, Quiet
  <2> QED BY <2>1, <2>2, LimitKept
<1>3. CASE end_put(t)
  <2>1. Quiet
    BY <1>3, PutQuiet DEF end_put, listVars
  <2>2. AbortInv'
    BY <1>0, <1>1, <2>1 DEF AbortInv, Quiet
  <2> QED BY <2>1, <2>2, LimitKept
<1>4. CASE end_background(t) /\ "BACKGROUND" \notin flags[cur[t]]
  <2>1. Quiet
    BY <1>0, <1>4 DEF Quiet, end_background
  <2>2. AbortInv'
    BY <1>0, <1>1, <2>1 DEF AbortInv, Quiet
  <2> QED BY <2>1, <2>2, LimitKept
<1>5. CASE end_background(t) /\ "BACKGROUND" \in flags[cur[t]]
  <2>1. Flushes
    <3>1. /\ fc.blocked \in BOOLEAN /\ fc.congested \in BOOLEAN
          /\ fc.num_background \in Int /\ fc.active_background \in Int
      BY <1>0 DEF Conn
    <3>2. PICK b \in BOOLEAN, c \in BOOLEAN :
            /\ b = (fc.blocked /\ fc.num_background # fc.max_background)
            /\ c = (fc.congested /\ ~(/\ fc.num_background = CongestionThreshold
                                      /\ fc.connected))
      BY <3>1
    <3>3. PICK n \in Int, a \in Int : /\ n = fc.num_background - 1
                                     /\ a = fc.active_background - 1
      BY <3>1
    <3> DEFINE g == [fc EXCEPT !.blocked = b, !.num_background = n,
                               !.active_background = a, !.congested = c]
    <3>4. flush_bg_queue(g, loc)
      BY <1>5, <3>2, <3>3 DEF end_background
    <3>5. g \in Conn
      BY <1>0 DEF Conn
    <3>6. /\ g.connected = fc.connected /\ g.active_background = a
          /\ g.max_background = fc.max_background
      BY <1>0 DEF Conn
    <3> HIDE DEF g
    <3>7. g.active_background <= fc.active_background
      BY <3>1, <3>3, <3>6
    <3> QED BY <3>4, <3>5, <3>6, <3>7 DEF Flushes
  <2>2. AbortInv'
    BY <1>0, <1>1, <2>1, FlushLimits DEF AbortInv
  <2> QED BY <2>1, <2>2, LimitKept
<1> QED BY <1>2, <1>3, <1>4, <1>5 DEF request_end

LEMMA ServerLimit ==
    ASSUME LimitInv, NEW s \in Servers, Server(s) PROVE LimitStep
<1> USE DEF Goto
<1>0. fc \in Conn /\ DOMAIN loc = AllQ /\ AbortInv /\ s \in Enders
  BY DEF LimitInv, Enders
<1>1. CASE \/ read_disconnected(s) \/ fuse_read_interrupt(s)
           \/ read_test_interrupted(s) \/ server_queue_interrupt(s)
           \/ lock_request(s) \/ unlock_request(s) \/ copy_done(s)
           \/ read_sent(s)
  <2>1. UNCHANGED <<fc, loc, ret>>
    BY <1>1 DEF read_disconnected, fuse_read_interrupt, read_test_interrupted,
       server_queue_interrupt, lock_request, unlock_request, copy_done,
       read_sent, listVars, queue_interrupt
  <2>2. PICK x : x # "ab_dev" /\ pc' \in {pc, [pc EXCEPT ![s] = x]}
    BY <1>1 DEF read_disconnected, fuse_read_interrupt, read_test_interrupted,
       server_queue_interrupt, lock_request, unlock_request, copy_done,
       read_sent, Locked, Unlocked, Copied, Failed
  <2>3. Quiet
    BY <1>0, <2>1 DEF Quiet
  <2>4. AbortInv'
    BY <1>0, <2>1, <2>2 DEF AbortInv
  <2> QED BY <2>3, <2>4, LimitKept
<1>2. CASE \/ read_pending(s) \/ read_too_large(s) \/ read_io(s) \/ read_done(s)
           \/ write_reply(s) \/ write_done(s)
  <2>1. UNCHANGED fc
    BY <1>2 DEF read_pending, read_too_large, read_io, read_done, write_reply,
       write_done
  <2>2. PICK q, l : /\ l # "bg_queue"
                    /\ loc' \in {loc, [loc EXCEPT ![q] = l]}
    <3>1. CASE read_too_large(s)
      BY <3>1 DEF read_too_large, listVars
    <3>2. CASE read_pending(s) \/ read_io(s) \/ write_reply(s)
      BY <3>2 DEF read_pending, read_io, write_reply, Move
    <3>3. CASE read_done(s)
      BY <3>3 DEF read_done, Move
    <3>4. CASE write_done(s)
      BY <3>4 DEF write_done, Move
    <3> QED BY <1>2, <3>1, <3>2, <3>3, <3>4
  <2>3. PICK x : x # "ab_dev" /\ pc' = [pc EXCEPT ![s] = x]
    BY <1>2 DEF read_pending, read_too_large, read_io, read_done, write_reply,
       write_done, CallEnd
  <2>4. ret' \in {ret, [ret EXCEPT ![s] = "idle"]}
    BY <1>2 DEF read_pending, read_too_large, read_io, read_done, write_reply,
       write_done, CallEnd
  <2>5. Quiet
    BY <1>0, <2>1, <2>2 DEF Quiet
  <2>6. AbortInv'
    BY <1>0, <2>1, <2>3, <2>4 DEF AbortInv
  <2> QED BY <2>5, <2>6, LimitKept
<1>3. CASE write_interrupt_reply(s)
  <2>1. fc' = fc \/ fc' = [fc EXCEPT !.no_interrupt = TRUE]
    BY <1>3 DEF write_interrupt_reply
  <2>2. UNCHANGED <<loc, ret>>
    BY <1>3 DEF write_interrupt_reply, listVars
  <2>3. pc' \in {pc, [pc EXCEPT ![s] = "wr_qintr"]}
    BY <1>3 DEF write_interrupt_reply
  <2>4. fc' \in Conn
    BY <1>0, <2>1 DEF Conn
  <2>5. Quiet
    BY <1>0, <2>1, <2>2, <2>4 DEF Quiet, Conn
  <2>6. AbortInv'
    BY <1>0, <2>2, <2>3, <2>5 DEF AbortInv, Quiet
  <2> QED BY <2>5, <2>6, LimitKept
<1> QED BY <1>0, <1>1, <1>2, <1>3, EndLimit DEF Server

LEMMA KillerLimit ==
    ASSUME LimitInv, NEW t \in Killers, Killer(t) PROVE LimitStep
<1> USE DEF Goto
<1>0. fc \in Conn /\ DOMAIN loc = AllQ /\ AbortInv /\ t \in Enders
  BY DEF LimitInv, Enders
<1>1. CASE abort_start(t)
  <2>1. UNCHANGED <<loc, ret>>
    BY <1>1 DEF abort_start, listVars
  <2>2. CASE /\ pc' = [pc EXCEPT ![t] = "ab_dev"]
             /\ fc' = [fc EXCEPT !.connected = FALSE, !.blocked = FALSE, !.lock = t]
    <3>1. fc' \in Conn
      BY <1>0, <2>2 DEF Conn
    <3>2. ~fc'.connected /\ fc'.active_background = fc.active_background
      BY <1>0, <2>2 DEF Conn
    <3>3. Quiet
      BY <1>0, <2>1, <3>1, <3>2 DEF Quiet
    <3>4. AbortInv'
      BY <1>0, <2>1, <2>2, <3>2 DEF AbortInv
    <3> QED BY <3>3, <3>4, LimitKept
  <2>3. CASE pc' = [pc EXCEPT ![t] = "done"] /\ UNCHANGED fc
    <3>1. Quiet
      BY <1>0, <2>1, <2>3 DEF Quiet
    <3>2. AbortInv'
      BY <1>0, <2>1, <2>3 DEF AbortInv
    <3> QED BY <3>1, <3>2, LimitKept
  <2> QED BY <1>1, <2>2, <2>3 DEF abort_start
<1>2. CASE abort_device(t)
  <2>1. UNCHANGED <<fc, pc, ret>>
    BY <1>2 DEF abort_device
  <2>2. \A q \in AllQ : loc'[q] = "bg_queue" => loc[q] = "bg_queue"
    BY <1>2 DEF abort_device
  <2>3. DOMAIN loc' = AllQ
    BY <1>2 DEF abort_device
  <2>4. Quiet
    BY <1>0, <2>1, <2>2, <2>3 DEF Quiet
  <2>5. AbortInv'
    BY <1>0, <2>1 DEF AbortInv
  <2> QED BY <2>4, <2>5, LimitKept
<1>3. CASE abort_unlimited(t)
  <2>1. /\ pc[t] = "ab_dev" /\ pc' = [pc EXCEPT ![t] = "ab_bg"]
        /\ UNCHANGED <<loc, ret>>
        /\ fc' = [fc EXCEPT !.max_background = UINT_MAX]
    BY <1>3 DEF abort_unlimited, listVars
  <2>2. ~fc.connected
    BY <1>0, <2>1 DEF AbortInv
  <2>3. fc' \in Conn
    BY <1>0, <2>1, FuseDevAssumption DEF Conn
  <2>4. ~fc'.connected /\ fc'.active_background = fc.active_background
    BY <1>0, <2>1, <2>2 DEF Conn
  <2>5. Quiet
    BY <1>0, <2>1, <2>3, <2>4 DEF Quiet
  <2>6. AbortInv'
    BY <1>0, <2>1, <2>4 DEF AbortInv
  <2> QED BY <2>5, <2>6, LimitKept
<1>4. CASE abort_background(t)
  <2>1. flush_bg_queue(fc, loc)
    BY <1>4 DEF abort_background
  <2>2. fc.active_background <= fc.active_background
    BY <1>0 DEF Conn
  <2>3. Flushes
    BY <1>0, <2>1, <2>2 DEF Flushes
  <2>4. AbortInv'
    BY <1>0, <1>4, <2>3, FlushLimits DEF AbortInv, abort_background
  <2> QED BY <2>3, <2>4, LimitKept
<1>5. CASE abort_queue(t)
  <2>1. /\ pc' = [pc EXCEPT ![t] = "ab_end1"] /\ UNCHANGED ret
        /\ fc' = [fc EXCEPT !.iq = FALSE, !.lock = None]
    BY <1>5 DEF abort_queue
  <2>2. /\ DOMAIN loc' = AllQ
        /\ \A q \in AllQ : loc'[q] = "bg_queue" => loc[q] = "bg_queue"
    BY <1>5 DEF abort_queue
  <2>3. fc' \in Conn
    BY <1>0, <2>1 DEF Conn
  <2>4. Quiet
    BY <1>0, <2>1, <2>2, <2>3 DEF Quiet, Conn
  <2>5. AbortInv'
    BY <1>0, <2>1, <2>4 DEF AbortInv, Quiet
  <2> QED BY <2>4, <2>5, LimitKept
<1>6. CASE \/ abort_end1(t) \/ abort_end2(t) \/ fuse_conn_abort_write(t)
           \/ release_start(t) \/ fuse_dev_free(t)
  <2>1. UNCHANGED fc
    BY <1>6 DEF abort_end1, abort_end2, fuse_conn_abort_write, release_start,
       fuse_dev_free
  <2>2. PICK q, l : l # "bg_queue" /\ loc' \in {loc, [loc EXCEPT ![q] = l]}
    BY <1>6 DEF abort_end1, abort_end2, fuse_conn_abort_write, release_start,
       fuse_dev_free, end_requests, Move, listVars
  <2>3. PICK x, y : /\ x # "ab_dev" /\ pc' = [pc EXCEPT ![t] = x]
                    /\ y # "ab_dev" /\ ret' \in {ret, [ret EXCEPT ![t] = y]}
    BY <1>6 DEF abort_end1, abort_end2, fuse_conn_abort_write, release_start,
       fuse_dev_free, end_requests, CallEnd
  <2>4. Quiet
    BY <1>0, <2>1, <2>2 DEF Quiet
  <2>5. AbortInv'
    BY <1>0, <2>1, <2>3 DEF AbortInv
  <2> QED BY <2>4, <2>5, LimitKept
<1>7. CASE release_requests(t)
  <2>1. fc' = fc \/ fc' = [fc EXCEPT !.dev_count = @ - 1]
    BY <1>7 DEF release_requests
  <2>2. PICK q, l : l # "bg_queue" /\ loc' \in {loc, [loc EXCEPT ![q] = l]}
    BY <1>7 DEF release_requests, end_requests, Move
  <2>3. PICK x, y : /\ x # "ab_dev" /\ pc' = [pc EXCEPT ![t] = x]
                    /\ y # "ab_dev" /\ ret' \in {ret, [ret EXCEPT ![t] = y]}
    BY <1>7 DEF release_requests, end_requests, CallEnd
  <2>4. fc' \in Conn
    BY <1>0, <2>1 DEF Conn
  <2>5. Quiet
    BY <1>0, <2>1, <2>2, <2>4 DEF Quiet, Conn
  <2>6. AbortInv'
    BY <1>0, <2>3, <2>5 DEF AbortInv, Quiet
  <2> QED BY <2>5, <2>6, LimitKept
<1> QED BY <1>0, <1>1, <1>2, <1>3, <1>4, <1>5, <1>6, <1>7, EndLimit
       DEF Killer, fuse_abort_conn

LEMMA LimitNext ==
    ASSUME LimitInv, [Next]_vars
    PROVE  /\ LimitInv' /\ (fc'.connected => fc.connected)
           /\ BgLimits = {} => LimitStep
<1>1. CASE fuse_conn_max_background_write
  <2>1. PICK n \in BgLimits : fc' = [fc EXCEPT !.max_background = n]
    BY <1>1 DEF fuse_conn_max_background_write
  <2>2. fc' \in Conn /\ fc'.connected = fc.connected
    <3>1. n \in Nat /\ fc \in Conn
      BY FuseDevAssumption DEF LimitInv
    <3>2. fc' \in Conn
      BY <2>1, <3>1 DEF Conn
    <3> QED BY <2>1, <3>1, <3>2 DEF Conn
  <2>3. UNCHANGED <<loc, pc, ret>>
    BY <1>1 DEF fuse_conn_max_background_write, listVars
  <2> QED BY <2>1, <2>2, <2>3 DEF LimitInv, AbortInv
<1>2. CASE UNCHANGED vars
  <2>1. Quiet /\ AbortInv'
    BY <1>2 DEF Quiet, LimitInv, AbortInv, vars
  <2> QED BY <2>1, LimitKept DEF LimitStep
<1>3. CASE \/ \E q \in SyncReq : SyncRequester(q)
           \/ \E q \in BgReq : BgRequester(q)
           \/ \E s \in Servers : Server(s)
           \/ \E t \in Killers : Killer(t)
  BY <1>3, SyncLimit, BackgroundLimit, ServerLimit, KillerLimit DEF LimitStep
<1> QED BY <1>1, <1>2, <1>3 DEF Next

LEMMA LimitInit == Init => LimitInv /\ BackgroundLimited
<1>1. SUFFICES ASSUME Init PROVE LimitInv /\ BackgroundLimited
  OBVIOUS
<1>2. fc = [connected |-> TRUE, iq |-> TRUE, blocked |-> FALSE,
            max_background |-> MaxBackground, num_background |-> 0,
            active_background |-> 0, num_waiting |-> 0, congested |-> FALSE,
            no_interrupt |-> FALSE, dev_count |-> Cardinality(Devices),
            lock |-> None]
  BY <1>1 DEF Init
<1>3. Cardinality(Devices) \in Int /\ MaxBackground \in Nat
  BY FuseDevAssumption, FS_CardinalityType
<1>4. fc \in Conn
  BY <1>2, <1>3 DEF Conn
<1>5. DOMAIN loc = AllQ /\ DOMAIN pc = AllQ \cup Enders /\ DOMAIN ret = Enders
      /\ \A t \in Enders : ret[t] # "ab_dev" /\ pc[t] # "ab_dev"
  BY <1>1 DEF Init
<1>6. On("bg_queue") = {}
  BY <1>1 DEF Init, On
<1>7. BackgroundLimited
  BY <1>2, <1>3, <1>6 DEF BackgroundLimited
<1> QED BY <1>4, <1>5, <1>7 DEF LimitInv, AbortInv

(* THEOREM.  While the connection lasts, no more than max_background       *)
(* requests are active, and one waits in bg_queue only while that limit is *)
(* reached: the flushes of fuse_request_send_background and request_end    *)
(* (dev.c:338) forget none, for any number of requests, threads, devices   *)
(* closed and aborts, as long as nobody writes a new limit.                *)
THEOREM LimitHolds == BgLimits = {} => (Spec => []BackgroundLimited)
<1> SUFFICES ASSUME BgLimits = {} PROVE Spec => []BackgroundLimited
  OBVIOUS
<1> DEFINE Inv == LimitInv /\ BackgroundLimited
<1>1. Init => Inv
  BY LimitInit
<1>2. Inv /\ [Next]_vars => Inv'
  BY LimitNext DEF LimitStep
<1>3. Inv => BackgroundLimited
  OBVIOUS
<1> QED BY <1>1, <1>2, <1>3, PTL DEF Spec

-----------------------------------------------------------------------------
(* The invariant holds until the connection is aborted                     *)

LEMMA DevInit == Lasting /\ Init => DevInv
<1>1. SUFFICES ASSUME Lasting, Init PROVE DevInv
  OBVIOUS
<1>2. fc \in Conn
  BY <1>1, LimitInit DEF LimitInv
<1>3. /\ fc.connected /\ fc.iq /\ fc.lock = None /\ fc.num_waiting = 0
      /\ fc.num_background = 0 /\ fc.active_background = 0
  BY <1>1 DEF Init
<1>4. /\ loc = [q \in AllQ |-> "none"] /\ flags = [q \in AllQ |-> {}]
      /\ count = [q \in AllQ |-> 0] /\ alive = {} /\ interrupts = {}
      /\ intr_unique = {} /\ cur = [t \in Enders |-> None]
      /\ ret = [t \in Enders |-> "idle"]
  BY <1>1 DEF Init
<1>5. /\ \A q \in AllQ : pc[q] = "start"
      /\ \A s \in Servers : pc[s] = "idle"
      /\ \A t \in Killers : pc[t] = "open"
      /\ pc \in [AllQ \cup Enders -> PC]
  BY <1>1, Kinds DEF Init, PC, SyncPC, ServerPC
<1>6. TypeOK
  <2>1. loc \in [AllQ -> List] /\ flags \in [AllQ -> SUBSET Flag]
        /\ count \in [AllQ -> Int]
    BY <1>4 DEF List
  <2>2. /\ \A q \in SyncReq : pc[q] \in SyncPC
        /\ \A q \in BgReq : pc[q] \in BgPC
        /\ \A s \in Servers : pc[s] \in ServerPC
    BY <1>1, <1>5, Kinds DEF SyncPC, BgPC, ServerPC
  <2> QED BY <1>2, <1>3, <1>4, <1>5, <2>1, <2>2 DEF TypeOK
<1>7. \A q \in AllQ : ~InFlight(q) /\ ~Holds(q)
  <2>1. \A t \in Enders : pc[t] \notin OwnPC
    BY <1>1, <1>5, Kinds DEF OwnPC, EndPC
  <2> QED BY <1>4, <1>5, <2>1 DEF InFlight, Holds, HoldPC
<1>8. ServerInv /\ AloneInv
  <2>1. \A s \in Servers : pc[s] \notin UsePC \cup OwnPC \cup CopyPC \cup LatePC \cup EndPC
    BY <1>5 DEF UsePC, OwnPC, CopyPC, LatePC, EndPC
  <2> QED BY <1>5, <2>1 DEF ServerInv, ServerOf, AloneInv
<1>9. PlaceInv /\ RefInv /\ IntrInv
  BY <1>4, <1>5, <1>7
     DEF PlaceInv, PlaceOf, RefInv, RefOf, IntrInv, IntrOf, WaitPC, Ongoing
<1>10. WaitingInv
  <2>1. Blocked = {}
    BY <1>1, <1>5, Kinds DEF Blocked
  <2>2. Cardinality({}) = 0
    BY FS_EmptySet
  <2>3. Cardinality(alive) = 0 /\ Cardinality(Blocked) = 0
    BY <1>4, <2>1, <2>2
  <2> QED BY <1>3, <2>3 DEF WaitingInv, Blocked
<1>11. BackgroundCounted
  <2>1. Background = {} /\ Background \ On("bg_queue") = {}
    BY <1>1, <1>7, Kinds DEF Background
  <2>2. Cardinality({}) = 0
    BY FS_EmptySet
  <2> QED BY <1>3, <2>1, <2>2 DEF BackgroundCounted
<1> QED BY <1>6, <1>8, <1>9, <1>10, <1>11 DEF DevInv

LEMMA ServerKeeps ==
    ASSUME Lasting, DevInv, NEW s \in Servers, Server(s) PROVE DevInv'
<1>1. ~read_disconnected(s)
  BY DEF DevInv, TypeOK, read_disconnected
<1> QED BY <1>1, By_fuse_read_interrupt, By_read_pending, By_read_too_large,
       By_read_io, By_lock_request, By_unlock_request, By_copy_done,
       By_read_done, By_read_sent, By_read_test_interrupted,
       By_server_queue_interrupt, By_write_reply, By_write_interrupt_reply,
       By_write_done, By_end_finished, By_end_interrupt, By_end_background,
       By_end_put DEF Server, request_end

(* The thread that writes to "abort" does not get past abort_start while   *)
(* the connection lasts.                                                   *)
LEMMA KillerKeeps ==
    ASSUME Lasting, DevInv, NEW t \in Killers, Killer(t), ~abort_start(t)
    PROVE  DevInv'
<1>1. pc[t] \in {"open", "abort"} /\ t \notin Closers
  BY DEF DevInv, TypeOK, Lasting
<1>2. ~request_end(t)
  BY <1>1 DEF request_end, end_finished, end_interrupt, end_background, end_put, Goto
<1>3. ~fuse_abort_conn(t)
  BY <1>1 DEF fuse_abort_conn, abort_device, abort_unlimited, abort_background,
     abort_queue, abort_end1, abort_end2, end_requests, CallEnd, Goto
<1>4. fuse_conn_abort_write(t)
  BY <1>1, <1>2, <1>3 DEF Killer
<1> QED BY <1>4, By_fuse_conn_abort_write

LEMMA DevNext ==
    ASSUME Lasting, DevInv, [Next]_vars
    PROVE  DevInv' \/ \E t \in Killers : abort_start(t)
<1>1. CASE \E q \in SyncReq : SyncRequester(q)
  BY <1>1, By_fuse_get_req, By_fuse_request_send, By_wait_finished,
     By_wait_interrupted, By_wait_test_sent, By_wait_queue_interrupt,
     By_wait_killed, By_requester_put DEF SyncRequester
<1>2. CASE \E q \in BgReq : BgRequester(q)
  BY <1>2, By_fuse_get_req_for_background, By_blocked_woken, By_blocked_killed,
     By_get_req_alloc, By_fuse_request_send_background, By_background_unsent
     DEF BgRequester
<1>3. CASE \E s \in Servers : Server(s)
  BY <1>3, ServerKeeps
<1>4. CASE \E t \in Killers : Killer(t)
  BY <1>4, KillerKeeps
<1>5. CASE fuse_conn_max_background_write
  BY <1>5, By_fuse_conn_max_background_write
<1>6. CASE UNCHANGED vars
  <2>1. Rests
    BY <1>6 DEF Rests, DevInv, TypeOK, vars
  <2> QED BY <2>1, Idling
<1> QED BY <1>1, <1>2, <1>3, <1>4, <1>5, <1>6 DEF Next

(* abort_start disconnects.                                                *)
LEMMA AbortDisconnects ==
    ASSUME LimitInv, fc.connected, NEW t, abort_start(t) PROVE ~fc'.connected
  BY DEF abort_start, LimitInv, Conn

(* THEOREM.  Until the connection is aborted, DevInv holds.                *)
THEOREM DevInvariant == Lasting => (Spec => [](fc.connected => DevInv))
<1> SUFFICES ASSUME Lasting PROVE Spec => [](fc.connected => DevInv)
  OBVIOUS
<1> DEFINE Inv == LimitInv /\ (fc.connected => DevInv)
<1>1. Init => Inv
  BY DevInit, LimitInit
<1>2. Inv /\ [Next]_vars => Inv'
  <2>1. SUFFICES ASSUME Inv, [Next]_vars, fc'.connected PROVE DevInv'
    BY LimitNext
  <2>2. fc.connected /\ DevInv /\ LimitInv
    BY <2>1, LimitNext
  <2> QED BY <2>1, <2>2, DevNext, AbortDisconnects
<1>3. Inv => (fc.connected => DevInv)
  OBVIOUS
<1> QED BY <1>1, <1>2, <1>3, PTL DEF Spec

-----------------------------------------------------------------------------
(* What DevInv says                                                        *)

LEMMA RefsFollow ==
    ASSUME Lasting, DevInv PROVE RefsExact
<1>1. \A q \in AllQ : RefOf(q) /\ IntrOf(q)
  BY DEF DevInv, RefInv, IntrInv
<1>2. alive \subseteq AllQ /\ interrupts \subseteq AllQ
  BY DEF DevInv, TypeOK
<1>3. interrupts \subseteq alive
  BY <1>1, <1>2 DEF RefOf, IntrOf
<1> QED BY <1>1, <1>2, <1>3 DEF RefsExact, RefOf

LEMMA WaitingFollows ==
    ASSUME Lasting, DevInv PROVE WaitingExact
<1>1. \A q \in AllQ : RefOf(q) /\ PlaceOf(q)
  BY DEF DevInv, RefInv, PlaceInv
<1>2. alive \subseteq AllQ /\ Blocked \subseteq AllQ
  BY Kinds DEF DevInv, TypeOK, Blocked
<1>3. Blocked \cap alive = {}
  BY <1>1, <1>2 DEF RefOf, PlaceOf, Ongoing, Blocked, Holds, HoldPC
<1>4. {q \in AllQ : \/ Holds(q) \/ InFlight(q)
                    \/ q \in BgReq /\ pc[q] \in {"blocked", "get"}}
      = alive \cup Blocked
  BY <1>1, <1>2 DEF RefOf, Blocked
<1>5. Cardinality(alive \cup Blocked) = Cardinality(alive) + Cardinality(Blocked)
  BY <1>2, <1>3, FiniteReqs, CardJoin
<1> QED BY <1>4, <1>5 DEF WaitingExact, DevInv, WaitingInv

LEMMA InterruptsFollow ==
    ASSUME Lasting, DevInv PROVE NoLostInterrupt
<1>1. ASSUME NEW q \in SyncReq, "INTERRUPTED" \in flags[q],
             pc[q] \in {"wait2", "wait3"}, loc[q] = "processing", Returned(q)
      PROVE  q \in interrupts \cup intr_unique
  <2>1. IntrOf(q)
    BY Kinds DEF DevInv, IntrInv
  <2> QED BY <1>1, <2>1 DEF IntrOf, Returned
<1> QED BY <1>1 DEF NoLostInterrupt

(* THEOREM.  The reference count of a request is the number of its         *)
(* holders, also when a fatal signal's bail-out races a read (dev.c:440),  *)
(* and the list of interrupts keeps no freed request.                      *)
THEOREM ReferencesExact == Lasting => (Spec => [](fc.connected => RefsExact))
<1> SUFFICES ASSUME Lasting PROVE Spec => [](fc.connected => RefsExact)
  OBVIOUS
<1>1. (fc.connected => DevInv) => (fc.connected => RefsExact)
  BY RefsFollow
<1> QED BY <1>1, DevInvariant, PTL

(* THEOREM.  num_waiting is the number of requests that a requester or the *)
(* transport still has, and of the threads that wait for their turn or are *)
(* about to allocate (fuse_i.h:628).                                       *)
THEOREM WaitingCounted == Lasting => (Spec => [](fc.connected => WaitingExact))
<1> SUFFICES ASSUME Lasting PROVE Spec => [](fc.connected => WaitingExact)
  OBVIOUS
<1>1. (fc.connected => DevInv) => (fc.connected => WaitingExact)
  BY WaitingFollows
<1> QED BY <1>1, DevInvariant, PTL

(* THEOREM.  num_background and active_background count the background     *)
(* requests in flight and those that left bg_queue (dev.c:344, 387, 571),  *)
(* also while the control file changes the limit.                          *)
THEOREM BackgroundsCounted ==
    Lasting => (Spec => [](fc.connected => BackgroundCounted))
<1> SUFFICES ASSUME Lasting PROVE Spec => [](fc.connected => BackgroundCounted)
  OBVIOUS
<1>1. (fc.connected => DevInv) => (fc.connected => BackgroundCounted)
  BY DEF DevInv
<1> QED BY <1>1, DevInvariant, PTL

(* THEOREM.  An interrupt is not lost between the requester, which sets    *)
(* FR_INTERRUPTED and tests FR_SENT, and the reader, which sets FR_SENT    *)
(* and tests FR_INTERRUPTED.                                               *)
THEOREM InterruptsKept ==
    Lasting => (Spec => [](fc.connected => NoLostInterrupt))
<1> SUFFICES ASSUME Lasting PROVE Spec => [](fc.connected => NoLostInterrupt)
  OBVIOUS
<1>1. (fc.connected => DevInv) => (fc.connected => NoLostInterrupt)
  BY InterruptsFollow
<1> QED BY <1>1, DevInvariant, PTL

(* THEOREM.  Without a thread that aborts, all of it holds for ever.       *)
THEOREM UnabortedSafe ==
    Lasting /\ Ctl = {}
    => (Spec => [](/\ fc.connected /\ RefsExact /\ WaitingExact
                   /\ BackgroundCounted /\ NoLostInterrupt))
<1> DEFINE Safe == /\ fc.connected /\ RefsExact /\ WaitingExact
                   /\ BackgroundCounted /\ NoLostInterrupt
<1> SUFFICES ASSUME Lasting, Ctl = {} PROVE Spec => []Safe
  OBVIOUS
<1>1. Init => DevInv
  BY DevInit
<1>2. DevInv /\ [Next]_vars => DevInv'
  BY DevNext, Kinds
<1>3. DevInv => Safe
  BY RefsFollow, WaitingFollows, InterruptsFollow DEF DevInv, TypeOK
<1> QED BY <1>1, <1>2, <1>3, PTL DEF Spec
=============================================================================
