------------------------------ MODULE FuseQueue ------------------------------
(***************************************************************************)
(* The input queue of a FUSE connection as the daemon's readers see it:    *)
(* interrupts, forgets and requests wait in it, and fuse_dev_do_read       *)
(* decides which comes next.  Forgets are a linked list with a tail        *)
(* pointer; forget_batch shares the reads between forgets and requests;    *)
(* every arrival wakes one of the readers that sleep exclusively.  From    *)
(* old/fuse/dev.c.  FuseDev has the life of the requests after they are    *)
(* read.                                                                   *)
(*                                                                         *)
(* ForgetBatch and ReqBatch are the code's 16 and 8.                       *)
(***************************************************************************)
EXTENDS Integers, FiniteSets

CONSTANTS
    Links,          \* struct fuse_forget_link
    Readers,        \* threads of the daemon that read the device
    ForgetBatch,    \* forgets that may go before a waiting request
    ReqBatch,       \* requests that may go before a waiting forget
    MaxPending,     \* bound: requests in the queue
    MaxArrivals,    \* bound: requests and interrupts that arrive
    Head, Nil       \* forget_list_head; NULL

ASSUME BatchAssumption == ForgetBatch \in Nat \ {0} /\ ReqBatch \in Nat \ {0}

(* The head of the list is no link, and NULL points to neither.            *)
ASSUME QueueAssumption ==
    /\ IsFiniteSet(Links) /\ IsFiniteSet(Readers)
    /\ Head \notin Links /\ Nil \notin Links \cup {Head}

VARIABLES
    open,           \* fiq->connected
    pending,        \* requests on fiq->pending
    interrupts,     \* requests on fiq->interrupts
    next,           \* next of every link and of forget_list_head
    tail,           \* forget_list_tail
    batch,          \* fiq->forget_batch
    rd,             \* readers: "out", "asleep", "woken"
    arrived,        \* arrivals so far
    queued,         \* history: links handed to fuse_queue_forget
    taken,          \* history: links read by the daemon, lost or dropped
    overReq,        \* history: forgets read since a request last was, or came
    overForget      \* history: requests read since a forget last was, or came

qvars == <<open, pending, interrupts, next, tail, batch, rd, arrived, queued, taken,
           overReq, overForget>>

Init ==
    /\ open = TRUE /\ pending = 0 /\ interrupts = 0
    /\ next = [l \in Links \cup {Head} |-> Nil]
    /\ tail = Head
    /\ batch = 0
    /\ rd = [r \in Readers |-> "out"]
    /\ arrived = 0 /\ queued = {} /\ taken = {}
    /\ overReq = 0 /\ overForget = 0

forget_pending == next[Head] # Nil
request_pending == pending > 0 \/ interrupts > 0 \/ forget_pending
Asleep == {r \in Readers : rd[r] = "asleep"}
Woken == {r \in Readers : rd[r] = "woken"}

(* wake_up_locked: one exclusive sleeper.                                  *)
wake_up == IF Asleep = {} THEN UNCHANGED rd
           ELSE \E r \in Asleep : rd' = [rd EXCEPT ![r] = "woken"]

(***************************************************************************)
(* Arrivals.                                                               *)
(***************************************************************************)
fuse_queue_forget_silent(l) ==
    /\ l \notin queued
    /\ queued' = queued \cup {l}
    /\ IF open
       THEN /\ next' = [next EXCEPT ![tail] = l]
            /\ tail' = l
            /\ UNCHANGED <<taken, rd>>
       ELSE taken' = taken \cup {l} /\ UNCHANGED <<next, tail, rd>>
    /\ overForget' = IF forget_pending THEN overForget ELSE 0
    /\ UNCHANGED <<open, pending, interrupts, batch, arrived, overReq>>
fuse_queue_forget(l) ==
    /\ l \notin queued
    /\ queued' = queued \cup {l}
    /\ IF open
       THEN /\ next' = [next EXCEPT ![tail] = l]
            /\ tail' = l
            /\ wake_up
            /\ UNCHANGED taken
       ELSE taken' = taken \cup {l} /\ UNCHANGED <<next, tail, rd>>
    /\ overForget' = IF forget_pending THEN overForget ELSE 0
    /\ UNCHANGED <<open, pending, interrupts, batch, arrived, overReq>>

queue_request ==
    /\ open /\ pending < MaxPending /\ arrived < MaxArrivals
    /\ pending' = pending + 1 /\ arrived' = arrived + 1
    /\ overReq' = IF pending > 0 THEN overReq ELSE 0
    /\ wake_up
    /\ UNCHANGED <<open, interrupts, next, tail, batch, queued, taken, overForget>>

queue_interrupt ==
    /\ open /\ arrived < MaxArrivals
    /\ interrupts' = interrupts + 1 /\ arrived' = arrived + 1
    /\ wake_up
    /\ UNCHANGED <<open, pending, next, tail, batch, queued, taken, overReq, overForget>>

(* An interrupted requester takes its request off the pending list, or an  *)
(* answered request its interrupt.                                         *)
dequeue ==
    /\ \/ pending > 0 /\ pending' = pending - 1 /\ UNCHANGED interrupts
       \/ interrupts > 0 /\ interrupts' = interrupts - 1 /\ UNCHANGED pending
    /\ UNCHANGED <<open, next, tail, batch, rd, arrived, queued, taken, overReq, overForget>>

(***************************************************************************)
(* fuse_dev_do_read.                                                       *)
(***************************************************************************)

(* The link at place k of the list, or the last one; place 0 is the head.  *)
Place(n) == LET step[k \in 0..n] == IF k = 0 THEN Head
                                    ELSE IF next[step[k-1]] = Nil THEN step[k-1]
                                    ELSE next[step[k-1]]
            IN  step

(* The first n links leave, or all.                                        *)
dequeue_forget_tail_kept(n) ==
    LET step == Place(n)
    IN  /\ next' = [next EXCEPT ![Head] = next[step[n]], ![step[n]] = Nil]
        /\ UNCHANGED tail
        /\ taken' = taken \cup {step[k] : k \in 1..n}
dequeue_forget(n) ==
    LET step == Place(n)
    IN  /\ next' = [next EXCEPT ![Head] = next[step[n]], ![step[n]] = Nil]
        /\ tail' = IF next[step[n]] = Nil THEN Head ELSE tail
        /\ taken' = taken \cup {step[k] : k \in 1..n}

(* A single FORGET or a BATCH_FORGET, whose length is what the reader's    *)
(* buffer holds; a copy that fails loses them.                             *)
fuse_read_forget ==
    /\ \E n \in 1..Cardinality(Links) : dequeue_forget(n)
    /\ overForget' = 0
    /\ overReq' = IF pending > 0 THEN overReq + 1 ELSE 0
    /\ UNCHANGED <<pending, interrupts>>

read_request ==
    /\ pending > 0
    /\ pending' = pending - 1
    /\ overReq' = 0
    /\ overForget' = IF forget_pending THEN overForget + 1 ELSE 0
    /\ UNCHANGED <<interrupts, next, tail, taken>>

fuse_read_interrupt ==
    /\ interrupts > 0
    /\ interrupts' = interrupts - 1
    /\ UNCHANGED <<pending, next, tail, batch, taken, overReq, overForget>>

(* forget_batch is counted down, and reset, only while both wait.          *)
next_turn_never_reset(b) == b - 1
next_turn(b) == IF b <= 0 /\ b - 1 <= -ReqBatch THEN ForgetBatch ELSE b - 1

(* What comes next: interrupts, then forgets or requests.                  *)
Take ==
    \/ fuse_read_interrupt
    \/ /\ interrupts = 0 /\ forget_pending /\ pending = 0
       /\ fuse_read_forget /\ UNCHANGED batch
    \/ /\ interrupts = 0 /\ forget_pending /\ pending > 0
       /\ batch' = next_turn(batch)
       /\ IF batch > 0 THEN fuse_read_forget ELSE read_request
    \/ /\ interrupts = 0 /\ ~forget_pending
       /\ read_request /\ UNCHANGED batch

(* A reader that comes, or was woken, takes what is there.                 *)
fuse_dev_do_read(r) ==
    /\ rd[r] \in {"out", "woken"}
    /\ open /\ request_pending
    /\ Take
    /\ rd' = [rd EXCEPT ![r] = "out"]
    /\ UNCHANGED <<open, arrived, queued>>

(* Nothing is there: it sleeps, returns because of a signal, or gets       *)
(* -ENODEV.                                                                *)
reader_waits(r) ==
    /\ rd[r] \in {"out", "woken"} /\ ~(open /\ request_pending)
    /\ \/ open /\ rd' = [rd EXCEPT ![r] = "asleep"]
       \/ rd[r] = "woken" /\ rd' = [rd EXCEPT ![r] = "out"]
    /\ UNCHANGED <<open, pending, interrupts, next, tail, batch, arrived, queued, taken,
                   overReq, overForget>>

(* A signal: the reader looks at the queue before it returns.              *)
reader_signalled(r) ==
    /\ rd[r] = "asleep"
    /\ rd' = [rd EXCEPT ![r] = "woken"]
    /\ UNCHANGED <<open, pending, interrupts, next, tail, batch, arrived, queued, taken,
                   overReq, overForget>>

fuse_abort_conn ==
    /\ open /\ open' = FALSE
    /\ pending' = 0
    /\ next' = [l \in Links \cup {Head} |-> Nil] /\ tail' = Head
    /\ taken' = queued
    /\ rd' = [r \in Readers |-> IF rd[r] = "asleep" THEN "woken" ELSE rd[r]]
    /\ overReq' = 0 /\ overForget' = 0
    /\ UNCHANGED <<interrupts, batch, arrived, queued>>

Next ==
    \/ \E l \in Links : fuse_queue_forget(l)
    \/ queue_request \/ queue_interrupt \/ dequeue
    \/ \E r \in Readers : fuse_dev_do_read(r) \/ reader_waits(r) \/ reader_signalled(r)
    \/ fuse_abort_conn

Spec == Init /\ [][Next]_qvars

(***************************************************************************)
(* Properties.                                                             *)
(***************************************************************************)

(* Sharing of the reads in fuse_dev_do_read: while a request waits at most *)
(* ForgetBatch forget messages are read before the next request, and while *)
(* a forget waits at most ReqBatch requests before the next forget.        *)
TurnsShared == overReq <= ForgetBatch /\ overForget <= ReqBatch

(* The forget list of fuse_queue_forget and dequeue_forget: from the head  *)
(* one comes to exactly the links that were queued and not taken, and      *)
(* forget_list_tail is the last of them.                                   *)
ForgetList ==
    LET step == Place(Cardinality(Links))
    IN  /\ {step[k] : k \in 0..Cardinality(Links)} = (queued \ taken) \cup {Head}
        /\ tail = step[Cardinality(Links)]
        /\ taken \subseteq queued

(* Wake-ups of the readers of the device: when one sleeps although         *)
(* something waits, as many others as things wait are awake to take them.  *)
WokenEnough ==
    Asleep # {} /\ open =>
        pending + interrupts + Cardinality(queued \ taken) <= Cardinality(Woken)

=============================================================================
