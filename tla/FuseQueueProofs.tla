--------------------------- MODULE FuseQueueProofs ---------------------------
(***************************************************************************)
(* The input queue of the FUSE device, for every value of the two batch    *)
(* sizes and any number of links and readers: forgets and requests share   *)
(* the reads, the forget list stays in one piece, and no message waits for *)
(* a reader that sleeps.                                                   *)
(*                                                                         *)
(* TurnsShared says nothing about forget_batch, so it is not inductive.    *)
(* TurnsInv adds the bookkeeping: what is left of the batch and what was   *)
(* already read from it never exceed the batch together, in either         *)
(* direction, and the counter stays within its two ends.  ListInv says     *)
(* which links the list is made of, with the list as a function on 0 .. n  *)
(* (the walk along next is the only induction), and WokenInv counts the    *)
(* readers that are awake against the messages that wait.                  *)
(***************************************************************************)
EXTENDS FuseQueue, FiniteSetTheorems, WellFoundedInduction, TLAPS

TurnsInv ==
    /\ pending \in Nat /\ batch \in Int /\ overReq \in Nat /\ overForget \in Nat
    /\ -ReqBatch < batch /\ batch <= ForgetBatch
    /\ overReq <= ForgetBatch /\ overForget <= ReqBatch
    /\ pending > 0 /\ batch > 0 => overReq + batch <= ForgetBatch
    /\ batch <= 0 => overForget <= -batch

(* The steps of a reader that change neither list leave the sharing alone; *)
(* a read of a forget or a request uses up one of the batch.               *)
LEMMA TakeKeepsTurns == TurnsInv /\ Take => TurnsInv'
<1> SUFFICES ASSUME TurnsInv, Take PROVE TurnsInv'
  OBVIOUS
<1>1. CASE fuse_read_interrupt
  BY <1>1, BatchAssumption DEF TurnsInv, fuse_read_interrupt
<1>2. CASE /\ interrupts = 0 /\ forget_pending /\ pending = 0
           /\ fuse_read_forget /\ UNCHANGED batch
  <2>1. pending' = 0 /\ batch' = batch /\ overReq' = 0 /\ overForget' = 0
    BY <1>2 DEF fuse_read_forget
  <2> QED
    BY <2>1, BatchAssumption DEF TurnsInv
<1>3. CASE /\ forget_pending /\ pending > 0 /\ batch > 0
           /\ batch' = next_turn(batch) /\ fuse_read_forget
  <2>1. pending' = pending /\ overReq' = overReq + 1 /\ overForget' = 0
    BY <1>3 DEF fuse_read_forget
  <2>2. batch' = batch - 1
    BY <1>3 DEF next_turn, TurnsInv
  <2> QED
    BY <1>3, <2>1, <2>2, BatchAssumption DEF TurnsInv
<1>4. CASE /\ forget_pending /\ pending > 0 /\ ~(batch > 0)
           /\ batch' = next_turn(batch) /\ read_request
  <2>1. pending' = pending - 1 /\ overReq' = 0 /\ overForget' = overForget + 1
    BY <1>4 DEF read_request
  <2>2. CASE batch - 1 <= -ReqBatch
    <3>1. batch' = ForgetBatch
      BY <1>4, <2>2 DEF next_turn, TurnsInv
    <3> QED
      BY <1>4, <2>1, <2>2, <3>1, BatchAssumption DEF TurnsInv
  <2>3. CASE ~(batch - 1 <= -ReqBatch)
    <3>1. batch' = batch - 1
      BY <1>4, <2>3 DEF next_turn
    <3> QED
      BY <1>4, <2>1, <2>3, <3>1, BatchAssumption DEF TurnsInv
  <2> QED
    BY <2>2, <2>3
<1>5. CASE /\ interrupts = 0 /\ ~forget_pending
           /\ read_request /\ UNCHANGED batch
  <2>1. /\ pending > 0 /\ pending' = pending - 1 /\ batch' = batch
        /\ overReq' = 0 /\ overForget' = 0
    BY <1>5 DEF read_request
  <2> QED
    BY <2>1, BatchAssumption DEF TurnsInv
<1> QED
  BY <1>1, <1>2, <1>3, <1>4, <1>5 DEF Take

(* What arrives, leaves or is aborted keeps the sharing: a request or a    *)
(* forget that finds its list empty starts a count of its own.             *)
LEMMA NextKeepsTurns == TurnsInv /\ [Next]_qvars => TurnsInv'
<1> SUFFICES ASSUME TurnsInv, [Next]_qvars PROVE TurnsInv'
  OBVIOUS
<1>1. ASSUME NEW l \in Links, fuse_queue_forget(l) PROVE TurnsInv'
  <2>1. /\ pending' = pending /\ batch' = batch /\ overReq' = overReq
        /\ overForget' \in {overForget, 0}
    BY <1>1 DEF fuse_queue_forget
  <2> QED
    BY <2>1, BatchAssumption DEF TurnsInv
<1>2. CASE queue_request
  <2>1. /\ pending' = pending + 1 /\ batch' = batch /\ overForget' = overForget
        /\ overReq' = IF pending > 0 THEN overReq ELSE 0
    BY <1>2 DEF queue_request
  <2> QED
    BY <2>1, BatchAssumption DEF TurnsInv
<1>3. CASE queue_interrupt
  BY <1>3 DEF queue_interrupt, TurnsInv
<1>4. CASE dequeue
  <2>1. /\ batch' = batch /\ overReq' = overReq /\ overForget' = overForget
        /\ \/ pending' = pending
           \/ pending > 0 /\ pending' = pending - 1
    BY <1>4 DEF dequeue
  <2> QED
    BY <2>1, BatchAssumption DEF TurnsInv
<1>5. ASSUME NEW r \in Readers, fuse_dev_do_read(r) PROVE TurnsInv'
  BY <1>5, TakeKeepsTurns DEF fuse_dev_do_read
<1>6. ASSUME NEW r \in Readers, reader_waits(r) PROVE TurnsInv'
  BY <1>6 DEF reader_waits, TurnsInv
<1>7. ASSUME NEW r \in Readers, reader_signalled(r) PROVE TurnsInv'
  BY <1>7 DEF reader_signalled, TurnsInv
<1>8. CASE fuse_abort_conn
  <2>1. pending' = 0 /\ batch' = batch /\ overReq' = 0 /\ overForget' = 0
    BY <1>8 DEF fuse_abort_conn
  <2> QED
    BY <2>1, BatchAssumption DEF TurnsInv
<1>9. CASE UNCHANGED qvars
  BY <1>9 DEF qvars, TurnsInv
<1> QED
  BY <1>1, <1>2, <1>3, <1>4, <1>5, <1>6, <1>7, <1>8, <1>9 DEF Next

(* fuse_dev_do_read starves neither side: whatever the batch sizes, at     *)
(* most ForgetBatch forget messages pass a waiting request and at most     *)
(* ReqBatch requests a waiting forget.                                     *)
THEOREM TurnsAreShared == Spec => []TurnsShared
<1>1. Init => TurnsInv
  BY BatchAssumption DEF Init, TurnsInv
<1>2. TurnsInv => TurnsShared
  BY DEF TurnsInv, TurnsShared
<1> QED
  BY <1>1, <1>2, NextKeepsTurns, PTL DEF Spec

-----------------------------------------------------------------------------
(* Natural numbers: a set that has no least element has none.              *)
LEMMA LeastNatural ==
    ASSUME NEW T \in SUBSET Nat, T # {}
    PROVE  \E x \in T : \A y \in T : x <= y
<1> DEFINE R == OpToRel(<, Nat)
<1>1. IsWellFoundedOn(R, Nat)
  BY NatLessThanWellFounded
<1>2. \A x, y \in Nat : y < x => <<y, x>> \in R
  BY DEF OpToRel
<1> HIDE DEF R
<1>3. PICK x \in T : \A y \in T : <<y, x>> \notin R
  BY <1>1, WFMin
<1>4. \A y \in T : ~(y < x)
  BY <1>2, <1>3
<1> QED
  BY <1>3, <1>4

(* The list that starts at forget_list_head is s[0], ..., s[n].            *)
IsList(n, s) ==
    /\ s[0] = Head
    /\ \A i, j \in 0..n : s[i] = s[j] => i = j
    /\ \A i \in 0..n : i < n => next[s[i]] = s[i + 1]
    /\ next[s[n]] = Nil
    /\ tail = s[n]
    /\ {s[i] : i \in 1..n} = queued \ taken

(* ForgetList says where next leads from the head; the next of a link that *)
(* was never queued must be NULL too, because fuse_queue_forget does not   *)
(* set it.                                                                 *)
ListInv ==
    /\ next \in [Links \cup {Head} -> Links \cup {Nil}]
    /\ queued \subseteq Links /\ taken \subseteq queued
    /\ \A l \in Links \ queued : next[l] = Nil
    /\ \E n \in Nat : \E s \in [0..n -> Links \cup {Head}] : IsList(n, s)

Least(i, n) == IF i <= n THEN i ELSE n

(* The walk of dequeue_forget visits the list in its order and stays at    *)
(* the last link.                                                          *)
LEMMA PlaceWalks ==
    ASSUME NEW n \in Nat, NEW s \in [0..n -> Links \cup {Head}], IsList(n, s),
           NEW k \in Nat
    PROVE  Place(k) = [i \in 0..k |-> s[Least(i, n)]]
<1> DEFINE Step(f) == [i \in 0..k |->
               IF i = 0 THEN Head
               ELSE IF next[f[i - 1]] = Nil THEN f[i - 1] ELSE next[f[i - 1]]]
           g == [i \in 0..k |-> s[Least(i, n)]]
           p == Place(k)
<1>1. \A i \in 0..n : s[i] # Nil
  BY QueueAssumption
<1>2. g = Step(g)
  <2> SUFFICES ASSUME NEW i \in 0..k PROVE g[i] = Step(g)[i]
    OBVIOUS
  <2>1. CASE i = 0
    BY <2>1 DEF IsList, Least
  <2>2. CASE i # 0 /\ i <= n
    <3>1. g[i - 1] = s[i - 1] /\ g[i] = s[i]
      BY <2>2 DEF Least
    <3>2. next[s[i - 1]] = s[i]
      BY <2>2 DEF IsList
    <3> QED
      BY <1>1, <2>2, <3>1, <3>2
  <2>3. CASE i # 0 /\ ~(i <= n)
    <3>1. g[i - 1] = s[n] /\ g[i] = s[n]
      BY <2>3 DEF Least
    <3> QED
      BY <2>3, <3>1 DEF IsList
  <2> QED
    BY <2>1, <2>2, <2>3
<1>3. p = CHOOSE f : f = Step(f)
  BY DEF Place
<1>4. p = Step(p)
  <2> HIDE DEF Step, g, p
  <2> QED
    BY <1>2, <1>3
<1> DEFINE T == {i \in 0..k : p[i] # g[i]}
<1>5. T = {}
  <2> SUFFICES ASSUME T # {} PROVE FALSE
    OBVIOUS
  <2>1. PICK i \in T : \A j \in T : i <= j
    <3>1. T \in SUBSET Nat
      OBVIOUS
    <3> HIDE DEF T
    <3> QED
      BY <3>1, LeastNatural
  <2>2. i \in 0..k /\ p[i] # g[i]
    BY <2>1
  <2>3. p[i] = Step(p)[i] /\ g[i] = Step(g)[i]
    <3> HIDE DEF p, g, Step
    <3> QED
      BY <1>2, <1>4
  <2>4. i # 0
    BY <2>2, <2>3
  <2>5. p[i - 1] = g[i - 1]
    <3>1. i - 1 \in 0..k /\ ~(i <= i - 1)
      BY <2>2, <2>4
    <3> HIDE DEF p, g
    <3> QED
      BY <2>1, <3>1
  <2> HIDE DEF p, g
  <2> QED
    BY <2>2, <2>3, <2>4, <2>5
<1>6. p = [i \in 0..k |-> p[i]]
  <2> HIDE DEF p
  <2> QED
    BY <1>4
<1>7. \A i \in 0..k : p[i] = g[i]
  <2> HIDE DEF p, g
  <2> QED
    BY <1>5
<1>8. p = g
  <2> HIDE DEF p
  <2> QED
    BY <1>6, <1>7
<1> QED
  BY <1>8

(* The list is no longer than there are links.                             *)
LEMMA ListBound ==
    ASSUME NEW n \in Nat, NEW s \in [0..n -> Links \cup {Head}], IsList(n, s)
    PROVE  Cardinality(Links) \in Nat /\ n <= Cardinality(Links)
<1> DEFINE f == [i \in 1..n |-> s[i]]
<1>1. f \in [1..n -> Links]
  BY DEF IsList
<1>2. \A i, j \in 1..n : f[i] = f[j] => i = j
  BY DEF IsList
<1>3. f \in Injection(1..n, Links)
  <2> HIDE DEF f
  <2> QED
    BY <1>1, <1>2 DEF Injection, IsInjective
<1>4. Cardinality(1..n) <= Cardinality(Links) /\ Cardinality(1..n) = n
  <2> HIDE DEF f
  <2> QED
    BY <1>3, FS_Injection, FS_Interval, QueueAssumption
<1> QED
  BY <1>4, FS_CardinalityType, QueueAssumption

(* The list as fuse_queue_forget leaves it.                                *)
LEMMA QueueKeepsList ==
    ASSUME ListInv, NEW l \in Links, fuse_queue_forget(l)
    PROVE  ListInv'
<1>1. CASE ~open
  <2>1. /\ next' = next /\ tail' = tail /\ l \notin queued
        /\ queued' = queued \cup {l} /\ taken' = taken \cup {l}
    BY <1>1 DEF fuse_queue_forget
  <2>2. queued' \ taken' = queued \ taken
    BY <2>1 DEF ListInv
  <2>3. ASSUME NEW n, NEW s, IsList(n, s) PROVE IsList(n, s)'
    BY <2>1, <2>2, <2>3 DEF IsList
  <2>4. \E n \in Nat : \E s \in [0..n -> Links \cup {Head}] : IsList(n, s)'
    BY <2>3 DEF ListInv
  <2> QED
    BY <2>1, <2>4 DEF ListInv
<1>2. CASE open
  <2>1. /\ next' = [next EXCEPT ![tail] = l] /\ tail' = l /\ l \notin queued
        /\ queued' = queued \cup {l} /\ taken' = taken
    BY <1>2 DEF fuse_queue_forget
  <2>a. PICK n \in Nat : \E s \in [0..n -> Links \cup {Head}] : IsList(n, s)
    BY DEF ListInv
  <2>2. PICK s \in [0..n -> Links \cup {Head}] : IsList(n, s)
    BY <2>a
  <2> DEFINE m == n + 1
             r == [i \in 0..m |-> IF i = m THEN l ELSE s[i]]
  <2>3. m \in Nat /\ r \in [0..m -> Links \cup {Head}]
    OBVIOUS
  <2>4. \A i \in 0..n : s[i] # l
    BY <2>1, <2>2, QueueAssumption DEF IsList, ListInv
  <2>5. next[l] = Nil /\ l # Head
    BY <2>1, QueueAssumption DEF ListInv
  <2>6. IsList(m, r)'
    <3>1. r[0] = Head
      BY <2>2 DEF IsList
    <3>2. \A i, j \in 0..m : r[i] = r[j] => i = j
      BY <2>2, <2>4 DEF IsList
    <3>3. ASSUME NEW i \in 0..m, i < m PROVE next'[r[i]] = r[i + 1]
      <4>1. CASE i = n
        BY <2>1, <2>2, <4>1 DEF IsList, ListInv
      <4>2. CASE i # n
        BY <2>1, <2>2, <3>3, <4>2 DEF IsList, ListInv
      <4> QED
        BY <4>1, <4>2
    <3>4. next'[r[m]] = Nil
      BY <2>1, <2>2, <2>4, <2>5 DEF IsList, ListInv
    <3>5. tail' = r[m]
      BY <2>1
    <3>6. {r[i] : i \in 1..m} = queued' \ taken'
      <4>1. {r[i] : i \in 1..m} = {s[i] : i \in 1..n} \cup {l}
        <5>1. \A i \in 1..m : r[i] = l \/ (i \in 1..n /\ r[i] = s[i])
          OBVIOUS
        <5>2. r[m] = l /\ m \in 1..m /\ \A i \in 1..n : i \in 1..m /\ r[i] = s[i]
          OBVIOUS
        <5> HIDE DEF r, m
        <5> QED
          BY <5>1, <5>2
      <4>2. {s[i] : i \in 1..n} = queued \ taken
        BY <2>2 DEF IsList
      <4>3. l \notin taken
        BY <2>1 DEF ListInv
      <4> QED
        BY <2>1, <4>1, <4>2, <4>3
    <3> QED
      BY <3>1, <3>2, <3>3, <3>4, <3>5, <3>6 DEF IsList
  <2>7. next' \in [Links \cup {Head} -> Links \cup {Nil}]
    BY <2>1, <2>2 DEF ListInv, IsList
  <2>8. \A k \in Links \ queued' : next'[k] = Nil
    <3>1. tail = Head \/ tail \in queued
      BY <2>2 DEF IsList
    <3> QED
      BY <2>1, <3>1, QueueAssumption DEF ListInv
  <2> QED
    BY <2>1, <2>3, <2>6, <2>7, <2>8 DEF ListInv
<1> QED
  BY <1>1, <1>2

(* The list as dequeue_forget leaves it; at least one link was taken.      *)
LEMMA DequeueKeepsList ==
    ASSUME ListInv, NEW k \in 1..Cardinality(Links), forget_pending,
           dequeue_forget(k), queued' = queued
    PROVE  ListInv' /\ taken \subseteq taken' /\ queued \cap taken' # taken
<1>0. Cardinality(Links) \in Nat /\ k \in Nat
  BY FS_CardinalityType, QueueAssumption
<1>a. PICK n \in Nat : \E s \in [0..n -> Links \cup {Head}] : IsList(n, s)
  BY DEF ListInv
<1>1. PICK s \in [0..n -> Links \cup {Head}] : IsList(n, s)
  BY <1>a
<1>2. n >= 1
  BY <1>1 DEF IsList, forget_pending
<1> DEFINE m == Least(k, n)
           step == Place(k)
<1>3. m \in 1..n
  BY <1>0, <1>2 DEF Least
<1>4. step = [i \in 0..k |-> s[Least(i, n)]]
  BY <1>0, <1>1, PlaceWalks
<1>5. step[k] = s[m]
  BY <1>0, <1>4
<1>6. {step[i] : i \in 1..k} = {s[i] : i \in 1..m}
  <2>1. \A i \in 1..k : Least(i, n) \in 1..m /\ step[i] = s[Least(i, n)]
    BY <1>0, <1>2, <1>4 DEF Least
  <2>2. \A i \in 1..m : i \in 1..k /\ Least(i, n) = i
    BY <1>0, <1>2 DEF Least
  <2> HIDE DEF step, m
  <2> QED
    BY <2>1, <2>2
<1>7. /\ next' = [next EXCEPT ![Head] = next[s[m]], ![s[m]] = Nil]
      /\ tail' = IF next[s[m]] = Nil THEN Head ELSE tail
      /\ taken' = taken \cup {s[i] : i \in 1..m}
  BY <1>5, <1>6 DEF dequeue_forget
<1> HIDE DEF m, step
<1>8. /\ \A i \in 1..n : s[i] \in queued \ taken
      /\ \A i \in 1..n : s[i] # Head
  BY <1>1 DEF IsList
<1>9. taken' \subseteq queued /\ taken \subseteq taken' /\ s[1] \in taken' \ taken
  BY <1>3, <1>7, <1>8 DEF ListInv
<1> DEFINE d == n - m
           r == [i \in 0..d |-> IF i = 0 THEN Head ELSE s[i + m]]
<1>10. d \in Nat /\ r \in [0..d -> Links \cup {Head}]
  BY <1>3
<1>11. IsList(d, r)'
  <2>1. r[0] = Head
    BY <1>10
  <2>2. \A i \in 1..d : i + m \in 1..n /\ r[i] = s[i + m]
    BY <1>3
  <2>3. \A i, j \in 0..d : r[i] = r[j] => i = j
    <3>1. ASSUME NEW i \in 1..d, NEW j \in 1..d, r[i] = r[j] PROVE i = j
      <4>1. i + m = j + m
        <5>1. i + m \in 0..n /\ j + m \in 0..n /\ s[i + m] = s[j + m]
          BY <2>2, <3>1
        <5> QED
          BY <1>1, <5>1 DEF IsList
      <4> QED
        BY <1>3, <4>1
    <3>2. \A i \in 1..d : r[i] # r[0]
      BY <1>8, <2>1, <2>2
    <3> HIDE DEF r
    <3> QED
      BY <1>10, <3>1, <3>2
  <2>4. \A i \in 0..d : r[i] # s[m]
    BY <1>1, <1>3, <1>8 DEF IsList
  <2>5. s[m] # Head /\ s[m] \in Links /\ Head \in DOMAIN next /\ s[m] \in DOMAIN next
    BY <1>1, <1>3, <1>8 DEF ListInv
  <2>6. /\ next'[Head] = next[s[m]]
        /\ \A x \in Links \cup {Head} : x # Head /\ x # s[m] => next'[x] = next[x]
    BY <1>7, <2>5 DEF ListInv
  <2>7. ASSUME NEW i \in 0..d, i < d PROVE next'[r[i]] = r[i + 1]
    <3>1. next[s[i + m]] = s[i + 1 + m] /\ r[i + 1] = s[i + 1 + m]
      <4>1. /\ i + m \in 0..n /\ i + m < n /\ i + 1 \in 1..d
            /\ (i + m) + 1 = i + 1 + m
        BY <1>3, <2>7
      <4> QED
        BY <1>1, <2>2, <4>1 DEF IsList
    <3>2. CASE i = 0
      BY <1>3, <2>1, <2>6, <3>1, <3>2
    <3>3. CASE i # 0
      <4>1. r[i] = s[i + m] /\ r[i] # Head /\ r[i] # s[m] /\ r[i] \in Links \cup {Head}
        <5>1. i \in 1..d
          BY <1>10, <3>3
        <5>2. r[i] \in Links \cup {Head}
          BY <1>10
        <5> HIDE DEF r, d
        <5> QED
          BY <1>8, <2>2, <2>4, <5>1, <5>2
      <4> QED
        BY <2>6, <3>1, <4>1
    <3> QED
      BY <3>2, <3>3
  <2>8. next'[r[d]] = Nil
    <3>1. CASE d = 0
      BY <1>1, <1>3, <2>1, <2>6, <3>1 DEF IsList
    <3>2. CASE d # 0
      <4>1. r[d] = s[n] /\ r[d] # Head /\ r[d] # s[m] /\ r[d] \in Links \cup {Head}
        BY <1>3, <1>8, <1>10, <2>2, <2>4, <3>2
      <4> QED
        BY <1>1, <2>6, <4>1 DEF IsList
    <3> QED
      BY <3>1, <3>2
  <2>9. tail' = r[d]
    <3>1. CASE d = 0
      BY <1>1, <1>3, <1>7, <2>1, <3>1 DEF IsList
    <3>2. CASE d # 0
      <4>1. next[s[m]] = s[m + 1] /\ s[m + 1] # Nil
        <5>1. m \in 0..n /\ m < n /\ m + 1 \in 0..n
          BY <1>3, <3>2
        <5>2. s[m + 1] # Nil
          BY <5>1, QueueAssumption
        <5> QED
          BY <1>1, <5>1, <5>2 DEF IsList
      <4>2. r[d] = s[n]
        BY <1>3, <3>2
      <4> QED
        BY <1>1, <1>7, <4>1, <4>2 DEF IsList
    <3> QED
      BY <3>1, <3>2
  <2>10. {r[i] : i \in 1..d} = queued' \ taken'
    <3>1. ASSUME NEW i \in 1..d PROVE r[i] \in queued \ taken'
      <4>1. i + m \in 1..n /\ r[i] = s[i + m]
        BY <2>2
      <4>2. \A j \in 1..m : s[j] # s[i + m]
        BY <1>1, <1>3, <4>1 DEF IsList
      <4> QED
        BY <1>7, <1>8, <4>1, <4>2
    <3>2. ASSUME NEW x \in queued \ taken' PROVE \E i \in 1..d : x = r[i]
      <4>1. PICK j \in 1..n : x = s[j]
        BY <1>1, <1>9 DEF IsList
      <4>2. j > m
        BY <1>3, <1>7, <4>1
      <4>3. j - m \in 1..d /\ r[j - m] = s[j]
        BY <1>3, <4>2
      <4> QED
        BY <4>1, <4>3
    <3> HIDE DEF r, d
    <3> QED
      BY <3>1, <3>2
  <2> QED
    BY <2>1, <2>3, <2>7, <2>8, <2>9, <2>10 DEF IsList
<1>12. next' \in [Links \cup {Head} -> Links \cup {Nil}]
  BY <1>1, <1>3, <1>7 DEF ListInv
<1>13. \A l \in Links \ queued : next'[l] = Nil
  BY <1>3, <1>7, <1>8, QueueAssumption DEF ListInv
<1> HIDE DEF d, r
<1> QED
  BY <1>9, <1>10, <1>11, <1>12, <1>13 DEF ListInv

(* Only an arrival, a read of forgets and an abort touch the list.         *)
LEMMA NextKeepsList == ListInv /\ [Next]_qvars => ListInv'
<1> SUFFICES ASSUME ListInv, [Next]_qvars PROVE ListInv'
  OBVIOUS
<1>1. ASSUME UNCHANGED <<next, tail, queued, taken>> PROVE ListInv'
  <2>1. \A n, s : IsList(n, s)' <=> IsList(n, s)
    BY <1>1 DEF IsList
  <2> QED
    BY <1>1, <2>1 DEF ListInv
<1>2. ASSUME NEW l \in Links, fuse_queue_forget(l) PROVE ListInv'
  BY <1>2, QueueKeepsList
<1>3. ASSUME NEW r \in Readers, fuse_dev_do_read(r) PROVE ListInv'
  <2>1. CASE forget_pending /\ fuse_read_forget
    BY <1>3, <2>1, DequeueKeepsList DEF fuse_dev_do_read, fuse_read_forget
  <2>2. CASE UNCHANGED <<next, tail, taken>>
    BY <1>1, <1>3, <2>2 DEF fuse_dev_do_read
  <2>3. (forget_pending /\ fuse_read_forget) \/ UNCHANGED <<next, tail, taken>>
    BY <1>3 DEF fuse_dev_do_read, Take, fuse_read_interrupt, read_request
  <2> QED
    BY <2>1, <2>2, <2>3
<1>4. CASE fuse_abort_conn
  <2>1. /\ next' = [l \in Links \cup {Head} |-> Nil] /\ tail' = Head
        /\ taken' = queued /\ queued' = queued
    BY <1>4 DEF fuse_abort_conn
  <2> DEFINE s == [i \in 0..0 |-> Head]
  <2>2. s \in [0..0 -> Links \cup {Head}] /\ s[0] = Head
    OBVIOUS
  <2>3. {s[i] : i \in 1..0} = {}
    OBVIOUS
  <2>4. IsList(0, s)'
    BY <2>1, <2>2, <2>3 DEF IsList
  <2> HIDE DEF s
  <2> QED
    BY <2>1, <2>2, <2>4 DEF ListInv
<1> QED
  BY <1>1, <1>2, <1>3, <1>4
  DEF Next, queue_request, queue_interrupt, dequeue, reader_waits, reader_signalled, qvars

(* The list is empty when the connection is made.                          *)
LEMMA InitList == Init => ListInv
<1> SUFFICES ASSUME Init PROVE ListInv
  OBVIOUS
<1> DEFINE s == [i \in 0..0 |-> Head]
<1>1. s \in [0..0 -> Links \cup {Head}] /\ s[0] = Head
  OBVIOUS
<1>2. {s[i] : i \in 1..0} = {}
  OBVIOUS
<1>3. IsList(0, s)
  BY <1>1, <1>2 DEF IsList, Init
<1> HIDE DEF s
<1> QED
  BY <1>1, <1>3 DEF ListInv, Init

(* What the pointers lead to is what was queued.                           *)
LEMMA ListIsForgetList == ListInv => ForgetList
<1> SUFFICES ASSUME ListInv PROVE ForgetList
  OBVIOUS
<1>a. PICK n \in Nat : \E s \in [0..n -> Links \cup {Head}] : IsList(n, s)
  BY DEF ListInv
<1>1. PICK s \in [0..n -> Links \cup {Head}] : IsList(n, s)
  BY <1>a
<1> DEFINE N == Cardinality(Links)
           step == Place(N)
<1>2. N \in Nat /\ n <= N
  BY <1>1, ListBound
<1>3. step = [i \in 0..N |-> s[Least(i, n)]]
  <2> HIDE DEF N
  <2> QED
    BY <1>1, <1>2, PlaceWalks
<1>4. tail = step[N]
  <2>1. Least(N, n) = n /\ N \in 0..N
    BY <1>2 DEF Least
  <2> HIDE DEF step, N
  <2> QED
    BY <1>1, <1>3, <2>1 DEF IsList
<1>5. {step[k] : k \in 0..N} = (queued \ taken) \cup {Head}
  <2>1. \A i \in 0..N : Least(i, n) \in 0..n /\ step[i] = s[Least(i, n)]
    <3>1. \A i \in 0..N : Least(i, n) \in 0..n
      BY <1>2 DEF Least
    <3> HIDE DEF step, N
    <3> QED
      BY <1>3, <3>1
  <2>2. \A i \in 0..n : i \in 0..N /\ step[i] = s[i]
    <3>1. \A i \in 0..n : i \in 0..N /\ Least(i, n) = i
      BY <1>2 DEF Least
    <3> HIDE DEF step, N
    <3> QED
      BY <2>1, <3>1
  <2>3. {s[i] : i \in 0..n} = (queued \ taken) \cup {Head}
    <3>1. /\ \A i \in 0..n : i = 0 \/ i \in 1..n
          /\ \A i \in 1..n : i \in 0..n
          /\ 0 \in 0..n
      OBVIOUS
    <3>2. {s[i] : i \in 1..n} = queued \ taken /\ s[0] = Head
      BY <1>1 DEF IsList
    <3> QED
      BY <3>1, <3>2
  <2> HIDE DEF step, N
  <2>4. {step[k] : k \in 0..N} = {s[i] : i \in 0..n}
    <3>1. ASSUME NEW k \in 0..N PROVE step[k] \in {s[i] : i \in 0..n}
      BY <2>1
    <3>2. ASSUME NEW i \in 0..n PROVE s[i] \in {step[k] : k \in 0..N}
      BY <2>2
    <3> QED
      BY <3>1, <3>2
  <2> QED
    BY <2>3, <2>4
<1> HIDE DEF step, N
<1>6. taken \subseteq queued
  BY DEF ListInv
<1> QED
  BY <1>4, <1>5, <1>6 DEF ForgetList, step, N

(* fuse_queue_forget and dequeue_forget, for any number of links and any   *)
(* length of a batch: no forget is lost or read twice, and the tail        *)
(* pointer is right, also when a batch ends in the middle of the list.     *)
THEOREM ForgetsListed == Spec => []ForgetList
<1>1. Init => ListInv
  BY InitList
<1>2. ListInv => ForgetList
  BY ListIsForgetList
<1> QED
  BY <1>1, <1>2, NextKeepsList, PTL DEF Spec

-----------------------------------------------------------------------------
(* WokenEnough with the types it counts in.                                *)
WokenInv ==
    /\ pending \in Nat /\ interrupts \in Nat
    /\ rd \in [Readers -> {"out", "asleep", "woken"}]
    /\ WokenEnough

(* The sets that are counted are finite.                                   *)
LEMMA CountsFinite ==
    ASSUME ListInv
    PROVE  /\ IsFiniteSet(Woken) /\ Cardinality(Woken) \in Nat
           /\ IsFiniteSet(queued \ taken) /\ Cardinality(queued \ taken) \in Nat
<1>1. Woken \in SUBSET Readers /\ queued \ taken \in SUBSET Links
  BY DEF Woken, ListInv
<1> QED
  BY <1>1, FS_Subset, FS_CardinalityType, QueueAssumption

(* wake_up makes one more reader look, or none sleeps.                     *)
LEMMA WakeAddsOne ==
    ASSUME WokenInv, ListInv, wake_up
    PROVE  /\ rd' \in [Readers -> {"out", "asleep", "woken"}]
           /\ Asleep' # {} => /\ Asleep # {}
                              /\ Cardinality(Woken') = Cardinality(Woken) + 1
<1>1. CASE Asleep = {}
  BY <1>1 DEF wake_up, WokenInv, Asleep
<1>2. CASE Asleep # {}
  <2>1. PICK r \in Asleep : rd' = [rd EXCEPT ![r] = "woken"]
    BY <1>2 DEF wake_up
  <2>2. r \in Readers /\ rd[r] = "asleep"
    BY DEF Asleep
  <2>3. Woken' = Woken \cup {r} /\ r \notin Woken
    BY <2>1, <2>2 DEF Woken, WokenInv
  <2>4. Cardinality(Woken') = Cardinality(Woken) + 1
    BY <2>3, CountsFinite, FS_AddElement
  <2> QED
    BY <1>2, <2>1, <2>2, <2>4 DEF WokenInv
<1> QED
  BY <1>1, <1>2

(* A reader that was awake goes, or stops looking: one fewer at most.      *)
LEMMA LeaveTakesOne ==
    ASSUME WokenInv, ListInv, NEW r \in Readers, rd[r] \in {"out", "woken"},
           rd' = [rd EXCEPT ![r] = "out"]
    PROVE  /\ rd' \in [Readers -> {"out", "asleep", "woken"}]
           /\ Asleep' = Asleep
           /\ Cardinality(Woken') >= Cardinality(Woken) - 1
           /\ Cardinality(Woken') \in Nat
<1>1. Woken' = Woken \ {r} /\ Asleep' = Asleep
  BY DEF Woken, Asleep, WokenInv
<1>2. /\ Cardinality(Woken') >= Cardinality(Woken) - 1
      /\ Cardinality(Woken') \in Nat
  <2>1. IsFiniteSet(Woken) /\ Cardinality(Woken) \in Nat
    BY CountsFinite
  <2>2. /\ IsFiniteSet(Woken \ {r})
        /\ Cardinality(Woken \ {r}) = IF r \in Woken THEN Cardinality(Woken) - 1
                                                   ELSE Cardinality(Woken)
    BY <2>1, FS_RemoveElement
  <2>3. Cardinality(Woken \ {r}) \in Nat
    BY <2>2, FS_CardinalityType
  <2> QED
    BY <1>1, <2>1, <2>2, <2>3
<1> QED
  BY <1>1, <1>2 DEF WokenInv

(* Something waits when a reader goes to sleep only if it arrives later.   *)
LEMMA NothingWaits ==
    ASSUME ListInv, WokenInv, ~request_pending
    PROVE  pending + interrupts + Cardinality(queued \ taken) = 0
<1>1. pending = 0 /\ interrupts = 0 /\ next[Head] = Nil
  BY DEF request_pending, forget_pending, WokenInv
<1>a. PICK n \in Nat : \E s \in [0..n -> Links \cup {Head}] : IsList(n, s)
  BY DEF ListInv
<1>2. PICK s \in [0..n -> Links \cup {Head}] : IsList(n, s)
  BY <1>a
<1>3. n = 0
  <2>1. n > 0 => next[s[0]] = s[0 + 1] /\ s[1] # Nil
    BY <1>2, QueueAssumption DEF IsList
  <2> QED
    BY <1>1, <1>2, <2>1 DEF IsList
<1>4. queued \ taken = {}
  BY <1>2, <1>3 DEF IsList
<1>5. Cardinality(queued \ taken) = 0
  BY <1>4, FS_EmptySet
<1> QED
  BY <1>1, <1>5

(* A read takes one thing at least of what waits.                          *)
LEMMA TakeTakesOne ==
    ASSUME ListInv, WokenInv, Take, queued' = queued
    PROVE  /\ pending' \in Nat /\ interrupts' \in Nat
           /\ pending' + interrupts' + Cardinality(queued' \ taken')
                 <= pending + interrupts + Cardinality(queued \ taken) - 1
<1> DEFINE D == queued \ taken
           E == queued' \ taken'
<1>1. IsFiniteSet(D) /\ Cardinality(D) \in Nat
  BY CountsFinite
<1>2. CASE fuse_read_interrupt
  <2>1. E = D
    BY <1>2 DEF fuse_read_interrupt
  <2> HIDE DEF D, E
  <2> QED
    BY <1>1, <1>2, <2>1 DEF fuse_read_interrupt, WokenInv, D, E
<1>3. CASE read_request
  <2>1. E = D
    BY <1>3 DEF read_request
  <2> HIDE DEF D, E
  <2> QED
    BY <1>1, <1>3, <2>1 DEF read_request, WokenInv, D, E
<1>4. CASE forget_pending /\ fuse_read_forget
  <2>1. taken \subseteq taken' /\ queued \cap taken' # taken /\ taken \subseteq queued
    BY <1>4, DequeueKeepsList DEF fuse_read_forget, ListInv
  <2>2. E \in SUBSET D /\ E # D
    BY <2>1
  <2> HIDE DEF D, E
  <2>3. IsFiniteSet(E) /\ Cardinality(E) \in Nat /\ Cardinality(E) <= Cardinality(D)
        /\ Cardinality(E) # Cardinality(D)
    BY <1>1, <2>2, FS_Subset, FS_CardinalityType
  <2>4. pending' = pending /\ interrupts' = interrupts
    BY <1>4 DEF fuse_read_forget
  <2>5. Cardinality(E) <= Cardinality(D) - 1
    BY <1>1, <2>3
  <2> QED
    BY <1>1, <2>3, <2>4, <2>5 DEF WokenInv, D, E
<1> QED
  BY <1>2, <1>3, <1>4 DEF Take

(* Every step keeps the balance of what waits and who is awake for it.     *)
LEMMA NextKeepsWoken == ListInv /\ WokenInv /\ [Next]_qvars => WokenInv'
<1> SUFFICES ASSUME ListInv, WokenInv, [Next]_qvars PROVE WokenInv'
  OBVIOUS
<1> DEFINE Q == pending + interrupts
           D == Cardinality(queued \ taken)
           W == Cardinality(Woken)
<1>0. /\ D \in Nat /\ W \in Nat /\ Q \in Nat
      /\ Asleep # {} /\ open => Q + D <= W
  BY CountsFinite DEF WokenInv, WokenEnough
<1>1. ASSUME NEW l \in Links, fuse_queue_forget(l) PROVE WokenInv'
  <2>1. CASE ~open
    <3>1. UNCHANGED <<pending, interrupts, rd, open>>
      BY <1>1, <2>1 DEF fuse_queue_forget
    <3> QED
      BY <2>1, <3>1 DEF WokenInv, WokenEnough
  <2>2. CASE open
    <3>1. wake_up /\ Q' = Q /\ UNCHANGED <<pending, interrupts, open>>
      BY <1>1, <2>2 DEF fuse_queue_forget
    <3>2. queued' \ taken' = (queued \ taken) \cup {l} /\ l \notin queued \ taken
      BY <1>1, <2>2 DEF fuse_queue_forget, ListInv
    <3>3. D' = D + 1
      BY <3>2, CountsFinite, FS_AddElement
    <3>4. rd' \in [Readers -> {"out", "asleep", "woken"}]
          /\ (Asleep' # {} => Asleep # {} /\ W' = W + 1)
      BY <3>1, WakeAddsOne
    <3> HIDE DEF Q, D, W
    <3>5. Asleep' # {} => Q' + D' <= W'
      BY <1>0, <2>2, <3>1, <3>3, <3>4
    <3> QED
      BY <3>1, <3>4, <3>5 DEF WokenInv, WokenEnough, Q, D, W
  <2> QED
    BY <2>1, <2>2
<1>2. CASE queue_request \/ queue_interrupt
  <2>1. wake_up /\ open /\ UNCHANGED <<open, queued, taken>>
    BY <1>2 DEF queue_request, queue_interrupt
  <2>2. /\ pending' \in Nat /\ interrupts' \in Nat
        /\ Q' \in Nat /\ Q' = Q + 1
    BY <1>2 DEF queue_request, queue_interrupt, WokenInv
  <2>3. rd' \in [Readers -> {"out", "asleep", "woken"}]
        /\ (Asleep' # {} => Asleep # {} /\ W' = W + 1)
    BY <2>1, WakeAddsOne
  <2>4. D' = D
    BY <2>1
  <2> HIDE DEF Q, D, W
  <2>5. Asleep' # {} => Q' + D' <= W'
    BY <1>0, <2>1, <2>2, <2>3, <2>4
  <2> QED
    BY <2>2, <2>3, <2>5 DEF WokenInv, WokenEnough, Q, D, W
<1>3. CASE dequeue
  <2>1. /\ pending' \in Nat /\ interrupts' \in Nat
        /\ Q' \in Nat /\ Q' = Q - 1
    BY <1>3 DEF dequeue, WokenInv
  <2>2. UNCHANGED <<rd, queued, taken, open>>
    BY <1>3 DEF dequeue
  <2>3. D' = D /\ W' = W /\ Asleep' = Asleep
    BY <2>2 DEF Woken, Asleep
  <2> HIDE DEF Q, D, W
  <2>4. Asleep' # {} /\ open' => Q' + D' <= W'
    BY <1>0, <2>1, <2>2, <2>3
  <2> QED
    BY <2>1, <2>2, <2>4 DEF WokenInv, WokenEnough, Q, D, W
<1>4. ASSUME NEW r \in Readers, fuse_dev_do_read(r) PROVE WokenInv'
  <2>1. /\ rd[r] \in {"out", "woken"} /\ Take /\ queued' = queued /\ open' = open
        /\ rd' = [rd EXCEPT ![r] = "out"]
    BY <1>4 DEF fuse_dev_do_read
  <2>2. /\ rd' \in [Readers -> {"out", "asleep", "woken"}]
        /\ Asleep' = Asleep /\ W' >= W - 1 /\ W' \in Nat
    BY <2>1, LeaveTakesOne
  <2>3. /\ pending' \in Nat /\ interrupts' \in Nat
        /\ Q' \in Nat /\ Q' + D' <= Q + D - 1
    BY <2>1, TakeTakesOne
  <2>4. ListInv'
    BY NextKeepsList
  <2>5. D' \in Nat
    <3>1. queued' \ taken' \in SUBSET Links
      BY <2>4 DEF ListInv
    <3> QED
      BY <3>1, FS_Subset, FS_CardinalityType, QueueAssumption
  <2> HIDE DEF Q, D, W
  <2>6. ASSUME Asleep' # {}, open' PROVE Q' + D' <= W'
    <3>1. Q + D <= W
      BY <1>0, <2>1, <2>2, <2>6
    <3>2. Q' + D' <= Q + D - 1 /\ W' >= W - 1 /\ W' \in Nat /\ Q' \in Nat
      BY <2>2, <2>3
    <3>3. ASSUME NEW a \in Nat, NEW b \in Nat, NEW c \in Nat, NEW u \in Nat,
                 a <= b - 1, b <= u, c >= u - 1
          PROVE  a <= c
      BY <3>3
    <3>4. Q' + D' \in Nat /\ Q + D \in Nat
      BY <1>0, <2>3, <2>5 DEF Q, D
    <3> QED
      BY <1>0, <3>1, <3>2, <3>3, <3>4
  <2> QED
    BY <2>2, <2>3, <2>6 DEF WokenInv, WokenEnough, Q, D, W
<1>5. ASSUME NEW r \in Readers, reader_waits(r) PROVE WokenInv'
  <2>1. UNCHANGED <<pending, interrupts, queued, taken, open>>
    BY <1>5 DEF reader_waits
  <2>2. rd' \in [Readers -> {"out", "asleep", "woken"}]
    BY <1>5 DEF reader_waits, WokenInv
  <2>3. CASE ~open
    BY <2>1, <2>2, <2>3 DEF WokenInv, WokenEnough
  <2>4. CASE open
    <3>1. Q + D = 0
      BY <1>5, <2>4, NothingWaits DEF reader_waits
    <3>2. W' \in Nat
      <4>1. Woken' \in SUBSET Readers
        BY DEF Woken
      <4> QED
        BY <4>1, FS_Subset, FS_CardinalityType, QueueAssumption
    <3>3. D' = D /\ Q' = Q
      BY <2>1
    <3> HIDE DEF Q, D, W
    <3>4. Q' + D' <= W'
      BY <3>1, <3>2, <3>3
    <3> QED
      BY <2>1, <2>2, <3>4 DEF WokenInv, WokenEnough, Q, D, W
  <2> QED
    BY <2>3, <2>4
<1>6. ASSUME NEW r \in Readers, reader_signalled(r) PROVE WokenInv'
  <2>1. /\ UNCHANGED <<pending, interrupts, queued, taken, open>>
        /\ rd[r] = "asleep" /\ rd' = [rd EXCEPT ![r] = "woken"]
    BY <1>6 DEF reader_signalled
  <2>2. /\ Woken' = Woken \cup {r} /\ r \notin Woken
        /\ Asleep' \subseteq Asleep
        /\ rd' \in [Readers -> {"out", "asleep", "woken"}]
    BY <2>1 DEF Woken, Asleep, WokenInv
  <2>3. W' = W + 1 /\ D' = D /\ Q' = Q
    BY <2>1, <2>2, CountsFinite, FS_AddElement
  <2> HIDE DEF Q, D, W
  <2>4. Asleep' # {} /\ open' => Q' + D' <= W'
    BY <1>0, <2>1, <2>2, <2>3
  <2> QED
    BY <2>1, <2>2, <2>4 DEF WokenInv, WokenEnough, Q, D, W
<1>7. CASE fuse_abort_conn
  BY <1>7 DEF fuse_abort_conn, WokenInv, WokenEnough
<1>8. CASE UNCHANGED qvars
  BY <1>8 DEF qvars, WokenInv, WokenEnough, Woken, Asleep
<1> QED
  BY <1>1, <1>2, <1>3, <1>4, <1>5, <1>6, <1>7, <1>8 DEF Next

(* The exclusive waiters of fuse_dev_do_read, for any number of readers:   *)
(* one wake-up for each arrival is enough, also with interrupted readers,  *)
(* requests that leave the queue by themselves and batches of forgets.     *)
THEOREM ReadersWoken == Spec => []WokenEnough
<1>1. Init => WokenInv
  BY DEF Init, WokenInv, WokenEnough, Asleep
<1>2. WokenInv => WokenEnough
  BY DEF WokenInv
<1> QED
  BY <1>1, <1>2, InitList, NextKeepsList, NextKeepsWoken, PTL DEF Spec
=============================================================================
