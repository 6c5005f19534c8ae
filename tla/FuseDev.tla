------------------------------- MODULE FuseDev -------------------------------
(***************************************************************************)
(* The life of a request in old/fuse/dev.c, from fuse_get_req to the last  *)
(* fuse_put_request: the threads that make requests, the threads of the    *)
(* file system daemon that read requests from and write replies to a       *)
(* device, the end of a request, interrupts, the limit on background       *)
(* requests, and the ways a connection ends (a device closed, an abort).   *)
(*                                                                         *)
(* The connection is mounted and its INIT reply has arrived.  A step is    *)
(* what happens under one lock, or one access outside a lock; fc->lock is  *)
(* a variable because fuse_abort_conn holds it over several steps.  A      *)
(* request object is used once; its address is the identity of the thread  *)
(* that made it.  req->list is in one list at a time, named by loc.  The   *)
(* order inside a list is left open: any member may be taken first.        *)
(***************************************************************************)
EXTENDS Naturals, FiniteSets

CONSTANTS
    SyncReq,      \* requests sent with fuse_request_send
    BgReq,        \* requests sent with fuse_request_send_background
    Forced,       \* synchronous requests with FR_FORCE
    NoReply,      \* synchronous requests without FR_ISREPLY (fuse_force_forget)
    Signalled,    \* synchronous requests whose thread may get signals
    Servers,      \* the threads of the daemon
    Devices,      \* open files of /dev/fuse: the mount's and its clones
    DevOf,        \* DevOf[s]: the device server s reads and writes
    Closers,      \* the devices that the daemon may close
    Ctl,          \* {} or one thread that writes to the control file "abort"
    IntrReplies,  \* whether the daemon answers INTERRUPT messages
    MaxBackground,        \* fc->max_background when the connection starts
    CongestionThreshold,  \* fc->congestion_threshold
    BgLimits,     \* the limits written to the control file "max_background"
    UINT_MAX,     \* the largest unsigned
    None          \* no thread

AllQ    == SyncReq \cup BgReq
Killers == Closers \cup Ctl           \* threads that run fuse_abort_conn
Enders  == Servers \cup Killers       \* threads that run request_end

ASSUME FuseDevAssumption ==
    /\ IsFiniteSet(AllQ) /\ IsFiniteSet(Devices)
    /\ SyncReq \cap BgReq = {} /\ Servers \cap Devices = {}
    /\ AllQ \cap (Servers \cup Devices \cup Ctl) = {}
    /\ Ctl \cap (Servers \cup Devices) = {}
    /\ None \notin AllQ \cup Servers \cup Devices \cup Ctl
    /\ Forced \cup NoReply \cup Signalled \subseteq SyncReq
    /\ Closers \subseteq Devices /\ DevOf \in [Servers -> Devices]
    /\ IntrReplies \in BOOLEAN
    /\ MaxBackground \in Nat \ {0} /\ CongestionThreshold \in Nat
    /\ BgLimits \subseteq Nat /\ UINT_MAX \in Nat
    /\ Cardinality(BgReq) <= UINT_MAX

VARIABLES
    fc,        \* the connection, a record
    pqc,       \* pqc[d]: fpq->connected of device d
    loc,       \* loc[q]: the list req->list is in
    dev,       \* dev[q]: the device whose io or processing list that is
    interrupts,\* fiq->interrupts
    flags,     \* flags[q]: the FR_ flags that are set
    count,     \* count[q]: the reference count
    alive,     \* the requests that are allocated
    intr_unique, \* the requests whose INTERRUPT message was taken for a read
    asleep,    \* the threads asleep on fc->blocked_waitq
    pc,        \* pc[t]: the next step of thread t
    cur,       \* cur[t]: the request thread t works on
    ret        \* ret[t]: where request_end returns to

vars == <<fc, pqc, loc, dev, interrupts, flags, count, alive, intr_unique,
          asleep, pc, cur, ret>>

listVars == <<loc, dev, interrupts>>
reqVars  == <<flags, count, alive, intr_unique>>

Goto(t, from, to) == pc[t] = from /\ pc' = [pc EXCEPT ![t] = to]
On(l) == {q \in AllQ : loc[q] = l}
OnDev(l, d) == {q \in AllQ : loc[q] = l /\ dev[q] = d}
Move(q, l) == loc' = [loc EXCEPT ![q] = l]
Set(q, f) == flags' = [flags EXCEPT ![q] = @ \cup {f}]
Clear(q, f) == flags' = [flags EXCEPT ![q] = @ \ {f}]

(* wake_up(&fc->blocked_waitq): waiters are exclusive, one of them wakes *)
WakeOne == IF asleep = {} THEN asleep' = asleep
                          ELSE \E p \in asleep : asleep' = asleep \ {p}

Init ==
    /\ fc = [connected |-> TRUE, iq |-> TRUE, blocked |-> FALSE,
             max_background |-> MaxBackground, num_background |-> 0,
             active_background |-> 0, num_waiting |-> 0, congested |-> FALSE,
             no_interrupt |-> FALSE, dev_count |-> Cardinality(Devices),
             lock |-> None]
    /\ pqc = [d \in Devices |-> TRUE]
    /\ loc = [q \in AllQ |-> "none"]
    /\ dev \in [AllQ -> Devices] /\ \A p, q \in AllQ : dev[p] = dev[q]
    /\ interrupts = {}
    /\ flags = [q \in AllQ |-> {}] /\ count = [q \in AllQ |-> 0]
    /\ alive = {} /\ intr_unique = {} /\ asleep = {}
    /\ pc = [t \in AllQ \cup Enders |->
               IF t \in AllQ THEN "start" ELSE IF t \in Servers THEN "idle"
               ELSE "open"]
    /\ cur = [t \in Enders |-> None] /\ ret = [t \in Enders |-> "idle"]

-----------------------------------------------------------------------------
(* References and queues *)

(* fuse_request_alloc and the flags __fuse_get_req adds *)
fuse_request_alloc(q) ==
    /\ alive' = alive \cup {q}
    /\ count' = [count EXCEPT ![q] = 1]
    /\ flags' = [flags EXCEPT ![q] =
          {"PENDING", "WAITING"} \cup (IF q \in BgReq THEN {"BACKGROUND"} ELSE {})]
    /\ UNCHANGED intr_unique

(* the last reference: a background request that was never sent passes its *)
(* turn on, and the request is no longer counted as waiting                *)
fuse_put_request(q) ==
    /\ count' = [count EXCEPT ![q] = @ - 1]
    /\ IF count[q] = 1
       THEN /\ IF "BACKGROUND" \in flags[q] /\ ~fc.blocked
               THEN WakeOne ELSE UNCHANGED asleep
            /\ alive' = alive \ {q}
            /\ fc' = [fc EXCEPT !.num_waiting =
                        @ - (IF "WAITING" \in flags[q] THEN 1 ELSE 0)]
       ELSE UNCHANGED <<asleep, alive, fc>>

(* under fiq->waitq.lock *)
queue_interrupt(q) ==
    /\ interrupts' = IF "FINISHED" \in flags[q] THEN interrupts
                                                ELSE interrupts \cup {q}
    /\ UNCHANGED <<loc, dev>>

(* the number of requests flush_bg_queue may still move *)
Room(f) == IF f.max_background > f.active_background
           THEN f.max_background - f.active_background ELSE 0

(* mutant of flush_bg_queue: the limit is ignored *)
flush_bg_queue_unlimited(f, l) ==
    LET bg == {q \in AllQ : l[q] = "bg_queue"} IN
    /\ fc' = [f EXCEPT !.active_background = @ + Cardinality(bg)]
    /\ loc' = [q \in AllQ |-> IF q \in bg THEN "pending" ELSE l[q]]

(* move requests from bg_queue to pending while there is room; f and l are *)
(* fc and loc as the caller has left them                                  *)
flush_bg_queue(f, l) ==
    LET bg == {q \in AllQ : l[q] = "bg_queue"}
        n  == IF Room(f) < Cardinality(bg) THEN Room(f) ELSE Cardinality(bg)
    IN  \E S \in SUBSET bg :
          /\ Cardinality(S) = n
          /\ fc' = [f EXCEPT !.active_background = @ + n]
          /\ loc' = [q \in AllQ |-> IF q \in S THEN "pending" ELSE l[q]]

-----------------------------------------------------------------------------
(* Synchronous requests: fuse_get_req, fuse_request_send, fuse_put_request *)

fuse_get_req(q) ==
    /\ \/ /\ fc.connected /\ Goto(q, "start", "send")
          /\ fc' = [fc EXCEPT !.num_waiting = @ + 1]
          /\ fuse_request_alloc(q)
       \/ Goto(q, "start", "done") /\ UNCHANGED <<fc, reqVars>>  \* -ENOTCONN, -ENOMEM
    /\ UNCHANGED <<pqc, listVars, asleep, cur, ret>>

(* where request_wait_answer goes after the interruptible wait *)
NextWait(q) == IF q \in Forced THEN "wait3" ELSE "wait2"

fuse_request_send(q) ==
    /\ \/ ~fc.iq /\ Goto(q, "send", "put") /\ UNCHANGED <<loc, count>>
       \/ /\ fc.iq /\ Move(q, "pending") /\ count' = [count EXCEPT ![q] = @ + 1]
          /\ Goto(q, "send", IF fc.no_interrupt THEN NextWait(q) ELSE "wait1")
    /\ UNCHANGED <<fc, pqc, dev, interrupts, flags, alive, intr_unique, asleep,
                   cur, ret>>

(* the answer has come: leave any of the three waits *)
wait_finished(q) ==
    /\ pc[q] \in {"wait1", "wait2", "wait3"} /\ "FINISHED" \in flags[q]
    /\ pc' = [pc EXCEPT ![q] = "put"]
    /\ UNCHANGED <<fc, pqc, listVars, reqVars, asleep, cur, ret>>

(* any signal ends the first wait *)
wait_interrupted(q) ==
    /\ q \in Signalled /\ Goto(q, "wait1", "intr")
    /\ Set(q, "INTERRUPTED")
    /\ UNCHANGED <<fc, pqc, listVars, count, alive, intr_unique, asleep, cur,
                   ret>>

wait_test_sent(q) ==
    /\ Goto(q, "intr", IF "SENT" \in flags[q] THEN "qintr" ELSE NextWait(q))
    /\ UNCHANGED <<fc, pqc, listVars, reqVars, asleep, cur, ret>>

wait_queue_interrupt(q) ==
    /\ Goto(q, "qintr", NextWait(q)) /\ queue_interrupt(q)
    /\ UNCHANGED <<fc, pqc, reqVars, asleep, cur, ret>>

(* a fatal signal: a request nobody has read is taken back *)
wait_killed(q) ==
    /\ q \in Signalled
    /\ \/ /\ "PENDING" \in flags[q] /\ Goto(q, "wait2", "put")
          /\ Move(q, "none") /\ count' = [count EXCEPT ![q] = @ - 1]
       \/ /\ "PENDING" \notin flags[q] /\ Goto(q, "wait2", "wait3")
          /\ UNCHANGED <<loc, count>>
    /\ UNCHANGED <<fc, pqc, dev, interrupts, flags, alive, intr_unique, asleep,
                   cur, ret>>

(* mutant of requester_put: the requester keeps its reference *)
requester_put_missing(q) ==
    /\ Goto(q, "put", "done")
    /\ UNCHANGED <<fc, pqc, listVars, reqVars, asleep, cur, ret>>

requester_put(q) ==
    /\ Goto(q, "put", "done") /\ fuse_put_request(q)
    /\ UNCHANGED <<pqc, listVars, flags, intr_unique, cur, ret>>

-----------------------------------------------------------------------------
(* Background requests *)

(* __fuse_get_req(for_background): sleep while the connection is blocked *)
fuse_get_req_for_background(q) ==
    /\ fc' = [fc EXCEPT !.num_waiting = @ + 1]
    /\ \/ fc.blocked /\ Goto(q, "start", "blocked") /\ asleep' = asleep \cup {q}
       \/ ~fc.blocked /\ Goto(q, "start", "get") /\ UNCHANGED asleep
    /\ UNCHANGED <<pqc, listVars, reqVars, cur, ret>>

blocked_woken(q) ==
    /\ q \notin asleep
    /\ \/ fc.blocked /\ pc[q] = "blocked" /\ asleep' = asleep \cup {q}
          /\ UNCHANGED pc
       \/ ~fc.blocked /\ Goto(q, "blocked", "get") /\ UNCHANGED asleep
    /\ UNCHANGED <<fc, pqc, listVars, reqVars, cur, ret>>

(* mutant of blocked_killed: the killed waiter is still counted *)
blocked_killed_counted(q) ==
    /\ asleep' = asleep \ {q}
    /\ Goto(q, "blocked", IF fc.blocked THEN "done" ELSE "get")
    /\ UNCHANGED <<fc, pqc, listVars, reqVars, cur, ret>>

(* a fatal signal ends the wait, unless the connection is free by now *)
blocked_killed(q) ==
    /\ asleep' = asleep \ {q}
    /\ \/ /\ fc.blocked /\ Goto(q, "blocked", "done")
          /\ fc' = [fc EXCEPT !.num_waiting = @ - 1]
       \/ ~fc.blocked /\ Goto(q, "blocked", "get") /\ UNCHANGED fc
    /\ UNCHANGED <<pqc, listVars, reqVars, cur, ret>>

(* mutant of get_req_alloc: a failed allocation does not pass the turn on *)
get_req_alloc_no_wake(q) ==
    /\ \/ fc.connected /\ Goto(q, "get", "send") /\ fuse_request_alloc(q)
          /\ UNCHANGED fc
       \/ /\ Goto(q, "get", "done") /\ UNCHANGED reqVars
          /\ fc' = [fc EXCEPT !.num_waiting = @ - 1]
    /\ UNCHANGED <<pqc, listVars, asleep, cur, ret>>

(* the rest of __fuse_get_req; a failed allocation wakes the next waiter *)
get_req_alloc(q) ==
    /\ \/ /\ fc.connected /\ Goto(q, "get", "send") /\ fuse_request_alloc(q)
          /\ UNCHANGED <<fc, asleep>>
       \/ /\ Goto(q, "get", "done") /\ UNCHANGED reqVars
          /\ fc' = [fc EXCEPT !.num_waiting = @ - 1]
          /\ \/ ~fc.connected /\ UNCHANGED asleep
             \/ fc.connected /\ WakeOne
    /\ UNCHANGED <<pqc, listVars, cur, ret>>

(* fuse_request_send_background_locked *)
background_queued(q) ==
    LET f == [fc EXCEPT !.num_background = @ + 1] IN
    flush_bg_queue([f EXCEPT
        !.blocked = @ \/ f.num_background = fc.max_background,
        !.congested = @ \/ f.num_background = CongestionThreshold],
        [loc EXCEPT ![q] = "bg_queue"])

fuse_request_send_background(q) ==
    /\ fc.lock = None /\ Goto(q, "send", "done")
    /\ \/ fc.connected /\ background_queued(q)
          /\ UNCHANGED <<count, alive, asleep>>
       \/ ~fc.connected /\ fuse_put_request(q) /\ UNCHANGED loc
    /\ UNCHANGED <<pqc, dev, interrupts, flags, intr_unique, cur, ret>>

(* fuse_readpages: a caller that has nothing to send after all *)
background_unsent(q) ==
    /\ fc.lock = None /\ Goto(q, "send", "done") /\ fuse_put_request(q)
    /\ UNCHANGED <<pqc, listVars, flags, intr_unique, cur, ret>>

(* control.c: a write to "max_background"; fc->lock is not taken *)
fuse_conn_max_background_write ==
    /\ \E n \in BgLimits : n # fc.max_background
          /\ fc' = [fc EXCEPT !.max_background = n]
    /\ UNCHANGED <<pqc, listVars, reqVars, asleep, pc, cur, ret>>

-----------------------------------------------------------------------------
(* request_end, run by thread t on cur[t] *)

CallEnd(t, q, from, back) ==
    /\ Goto(t, from, "end")
    /\ cur' = [cur EXCEPT ![t] = q] /\ ret' = [ret EXCEPT ![t] = back]

(* test_and_set_bit(FR_FINISHED) *)
end_finished(t) ==
    /\ Goto(t, "end", IF "FINISHED" \in flags[cur[t]] THEN ret[t]
                                                     ELSE "end_intr")
    /\ Set(cur[t], "FINISHED")
    /\ UNCHANGED <<fc, pqc, listVars, count, alive, intr_unique, asleep, cur,
                   ret>>

end_interrupt(t) ==
    /\ Goto(t, "end_intr", "end_bg")
    /\ interrupts' = interrupts \ {cur[t]}
    /\ UNCHANGED <<fc, pqc, loc, dev, reqVars, asleep, cur, ret>>

(* mutant of end_background: active_background is not counted down *)
end_background_inactive(t) ==
    LET q == cur[t] IN
    /\ Goto(t, "end_bg", "end_put")
    /\ \/ "BACKGROUND" \notin flags[q] /\ UNCHANGED <<fc, loc, flags, asleep>>
       \/ /\ "BACKGROUND" \in flags[q] /\ fc.lock = None
          /\ Clear(q, "BACKGROUND") /\ WakeOne
          /\ flush_bg_queue([fc EXCEPT !.num_background = @ - 1], loc)
    /\ UNCHANGED <<pqc, dev, interrupts, count, alive, intr_unique, cur, ret>>

(* the accounting of background requests, under fc->lock *)
end_background(t) ==
    LET q == cur[t]
        f == [fc EXCEPT !.blocked = @ /\ fc.num_background # fc.max_background,
                        !.num_background = @ - 1, !.active_background = @ - 1,
                        !.congested = @ /\ ~(/\ fc.num_background = CongestionThreshold
                                             /\ fc.connected)]
    IN  /\ Goto(t, "end_bg", "end_put")
        /\ \/ "BACKGROUND" \notin flags[q] /\ UNCHANGED <<fc, loc, flags, asleep>>
           \/ /\ "BACKGROUND" \in flags[q] /\ fc.lock = None
              /\ Clear(q, "BACKGROUND")
              /\ IF f.blocked THEN UNCHANGED asleep ELSE WakeOne
              /\ flush_bg_queue(f, loc)
        /\ UNCHANGED <<pqc, dev, interrupts, count, alive, intr_unique, cur,
                       ret>>

(* wake the requester, call req->end, drop the reference *)
end_put(t) ==
    /\ Goto(t, "end_put", ret[t]) /\ fuse_put_request(cur[t])
    /\ UNCHANGED <<pqc, listVars, flags, intr_unique, cur, ret>>

request_end(t) ==
    end_finished(t) \/ end_interrupt(t) \/ end_background(t) \/ end_put(t)

-----------------------------------------------------------------------------
(* fuse_dev_do_read *)

(* -ENODEV: the daemon's thread gives up *)
read_disconnected(s) ==
    /\ ~fc.iq /\ Goto(s, "idle", "gone")
    /\ UNCHANGED <<fc, pqc, listVars, reqVars, asleep, cur, ret>>

(* The message leaves the list before it is copied, so it is gone from     *)
(* there, and intr_unique is set, also when the copy fails.  As a copy     *)
(* that fails half way has shown the daemon the header, it may answer a    *)
(* message whose read failed.                                              *)
fuse_read_interrupt(s) ==
    /\ fc.iq /\ pc[s] = "idle"
    /\ \E q \in interrupts :
          /\ interrupts' = interrupts \ {q}
          /\ intr_unique' = intr_unique \cup {q}
    /\ UNCHANGED <<fc, pqc, loc, dev, flags, count, alive, asleep, pc, cur, ret>>

read_pending(s) ==
    /\ fc.iq /\ interrupts = {} /\ Goto(s, "idle", "rd_size")
    /\ \E q \in On("pending") :
          /\ Clear(q, "PENDING") /\ Move(q, "none")
          /\ cur' = [cur EXCEPT ![s] = q]
    /\ UNCHANGED <<fc, pqc, dev, interrupts, count, alive, intr_unique, asleep,
                   ret>>

(* the daemon's buffer is too small: end the request and read again *)
read_too_large(s) ==
    /\ CallEnd(s, cur[s], "rd_size", "idle")
    /\ UNCHANGED <<fc, pqc, listVars, reqVars, asleep>>

read_io(s) ==
    /\ Goto(s, "rd_size", "rd_unlocked")
    /\ Move(cur[s], "io") /\ dev' = [dev EXCEPT ![cur[s]] = DevOf[s]]
    /\ UNCHANGED <<fc, pqc, interrupts, reqVars, asleep, cur, ret>>

(* fuse_copy_fill: a page of the daemon's buffer is faulted in with the    *)
(* request unlocked; then the request is locked, unless it was aborted.    *)
(* The fault, or the copy, may fail.                                       *)
Locked   == [rd_unlocked |-> "rd_locked", wr_unlocked |-> "wr_locked"]
Copied   == [rd_locked |-> "rd_ok", wr_locked |-> "wr_done"]
Unlocked == [rd_locked |-> "rd_unlocked", wr_locked |-> "wr_unlocked"]
Failed(p) == IF p \in {"rd_unlocked", "rd_locked"} THEN "rd_err" ELSE "wr_done"

lock_request(s) ==
    /\ pc[s] \in DOMAIN Locked
    /\ \/ /\ "ABORTED" \notin flags[cur[s]] /\ Set(cur[s], "LOCKED")
          /\ pc' = [pc EXCEPT ![s] = Locked[@]]
       \/ UNCHANGED flags /\ pc' = [pc EXCEPT ![s] = Failed(@)]
    /\ UNCHANGED <<fc, pqc, listVars, count, alive, intr_unique, asleep, cur,
                   ret>>

unlock_request(s) ==
    /\ pc[s] \in DOMAIN Unlocked
    /\ \/ /\ "ABORTED" \notin flags[cur[s]] /\ Clear(cur[s], "LOCKED")
          /\ pc' = [pc EXCEPT ![s] = Unlocked[@]]
       \/ /\ "ABORTED" \in flags[cur[s]] /\ UNCHANGED flags
          /\ pc' = [pc EXCEPT ![s] = Failed(@)]
    /\ UNCHANGED <<fc, pqc, listVars, count, alive, intr_unique, asleep, cur,
                   ret>>

copy_done(s) ==
    /\ pc[s] \in DOMAIN Copied
    /\ pc' = [pc EXCEPT ![s] = Copied[@]]
    /\ UNCHANGED <<fc, pqc, listVars, reqVars, asleep, cur, ret>>

(* the copy is over: to the processing list, or the end of the request *)
read_done(s) ==
    LET q == cur[s]
        sent == pc[s] = "rd_ok" /\ pqc[DevOf[s]] /\ q \notin NoReply
    IN  /\ pc[s] \in {"rd_ok", "rd_err"} /\ Clear(q, "LOCKED")
        /\ \/ sent /\ Move(q, "processing") /\ Goto(s, pc[s], "rd_sent")
              /\ UNCHANGED <<cur, ret>>
           \/ /\ ~sent /\ CallEnd(s, q, pc[s], "idle")
              /\ IF "PRIVATE" \in flags[q] THEN UNCHANGED loc ELSE Move(q, "none")
        /\ UNCHANGED <<fc, pqc, dev, interrupts, count, alive, intr_unique,
                       asleep>>

(* fpq->lock is no longer held, and no reference is *)
read_sent(s) ==
    /\ Goto(s, "rd_sent", "rd_intr") /\ Set(cur[s], "SENT")
    /\ UNCHANGED <<fc, pqc, listVars, count, alive, intr_unique, asleep, cur,
                   ret>>

(* mutant of read_test_interrupted: FR_INTERRUPTED is not looked at *)
read_ignore_interrupted(s) ==
    /\ Goto(s, "rd_intr", "idle")
    /\ UNCHANGED <<fc, pqc, listVars, reqVars, asleep, cur, ret>>

read_test_interrupted(s) ==
    /\ Goto(s, "rd_intr",
            IF "INTERRUPTED" \in flags[cur[s]] THEN "rd_qintr" ELSE "idle")
    /\ UNCHANGED <<fc, pqc, listVars, reqVars, asleep, cur, ret>>

server_queue_interrupt(s) ==
    /\ pc[s] \in {"rd_qintr", "wr_qintr"} /\ Goto(s, pc[s], "idle")
    /\ queue_interrupt(cur[s])
    /\ UNCHANGED <<fc, pqc, reqVars, asleep, cur, ret>>

-----------------------------------------------------------------------------
(* fuse_dev_do_write.  The request is found on the processing list, on     *)
(* which it is before the read that fetched it has returned: another       *)
(* thread of the daemon that sees it in the buffer may answer it by then.  *)

write_reply(s) ==
    /\ pqc[DevOf[s]] /\ Goto(s, "idle", "wr_locked")
    /\ \E q \in OnDev("processing", DevOf[s]) :
          /\ flags' = [flags EXCEPT ![q] = (@ \ {"SENT"}) \cup {"LOCKED"}]
          /\ Move(q, "io") /\ cur' = [cur EXCEPT ![s] = q]
    /\ UNCHANGED <<fc, pqc, dev, interrupts, count, alive, intr_unique, asleep,
                   ret>>

(* the answer to an INTERRUPT message: -ENOSYS, or -EAGAIN *)
write_interrupt_reply(s) ==
    /\ IntrReplies /\ pqc[DevOf[s]]
    /\ \E q \in OnDev("processing", DevOf[s]) \cap intr_unique :
          \/ /\ fc' = [fc EXCEPT !.no_interrupt = TRUE]
             /\ pc[s] = "idle" /\ UNCHANGED <<pc, cur>>
          \/ /\ Goto(s, "idle", "wr_qintr") /\ cur' = [cur EXCEPT ![s] = q]
             /\ UNCHANGED fc
    /\ UNCHANGED <<pqc, listVars, reqVars, asleep, ret>>

write_done(s) ==
    LET q == cur[s] IN
    /\ CallEnd(s, q, "wr_done", "idle") /\ Clear(q, "LOCKED")
    /\ IF "PRIVATE" \in flags[q] THEN UNCHANGED loc ELSE Move(q, "none")
    /\ UNCHANGED <<fc, pqc, dev, interrupts, count, alive, intr_unique, asleep>>

-----------------------------------------------------------------------------
(* fuse_abort_conn, run by the control file or by the last close *)

abort_start(t) ==
    /\ fc.lock = None
    /\ \/ /\ fc.connected /\ Goto(t, "abort", "ab_dev")
          /\ fc' = [fc EXCEPT !.connected = FALSE, !.blocked = FALSE, !.lock = t]
       \/ ~fc.connected /\ Goto(t, "abort", "done") /\ UNCHANGED fc
    /\ UNCHANGED <<pqc, listVars, reqVars, asleep, cur, ret>>

(* one device of fc->devices: unlocked requests under I/O are made private *)
abort_device(t) ==
    /\ pc[t] = "ab_dev"
    /\ \E d \in Devices :
         LET io == OnDev("io", d)
             unlocked == {q \in io : "LOCKED" \notin flags[q]}
         IN  /\ pqc[d] /\ pqc' = [pqc EXCEPT ![d] = FALSE]
             /\ flags' = [q \in AllQ |->
                   flags[q] \cup (IF q \in io THEN {"ABORTED"} ELSE {})
                            \cup (IF q \in unlocked THEN {"PRIVATE"} ELSE {})]
             /\ loc' = [q \in AllQ |->
                   IF q \in unlocked THEN "to_end1"
                   ELSE IF q \in OnDev("processing", d) THEN "to_end2"
                   ELSE loc[q]]
    /\ UNCHANGED <<fc, dev, interrupts, count, alive, intr_unique, asleep, pc,
                   cur, ret>>

(* no limit any more ... *)
abort_unlimited(t) ==
    /\ Goto(t, "ab_dev", "ab_bg") /\ \A d \in Devices : ~pqc[d]
    /\ fc' = [fc EXCEPT !.max_background = UINT_MAX]
    /\ UNCHANGED <<pqc, listVars, reqVars, asleep, cur, ret>>

(* mutant of abort_background: the background queue is left alone *)
abort_background_unflushed(t) ==
    /\ Goto(t, "ab_bg", "ab_iq")
    /\ UNCHANGED <<fc, pqc, listVars, reqVars, asleep, cur, ret>>

(* ... so that every background request goes to pending *)
abort_background(t) ==
    /\ Goto(t, "ab_bg", "ab_iq") /\ flush_bg_queue(fc, loc)
    /\ UNCHANGED <<pqc, dev, interrupts, reqVars, asleep, cur, ret>>

(* disconnect the input queue, wake everybody, release fc->lock *)
abort_queue(t) ==
    LET mine == On("pending") \cup On("to_end2") IN
    /\ Goto(t, "ab_iq", "ab_end1")
    /\ fc' = [fc EXCEPT !.iq = FALSE, !.lock = None]
    /\ loc' = [q \in AllQ |-> IF q \in mine THEN "to_end2" ELSE loc[q]]
    /\ flags' = [q \in AllQ |-> IF q \in mine THEN flags[q] \ {"PENDING"}
                                              ELSE flags[q]]
    /\ asleep' = {}
    /\ UNCHANGED <<pqc, dev, interrupts, count, alive, intr_unique, cur, ret>>

(* mutant of abort_end1: no reference is taken *)
abort_end1_unreferenced(t) ==
    /\ \/ /\ On("to_end1") = {} /\ Goto(t, "ab_end1", "ab_end2")
          /\ UNCHANGED <<loc, cur, ret>>
       \/ \E q \in On("to_end1") :
             CallEnd(t, q, "ab_end1", "ab_end1") /\ Move(q, "none")
    /\ UNCHANGED <<fc, pqc, dev, interrupts, reqVars, asleep>>

(* the private list: take a reference, end the request *)
abort_end1(t) ==
    /\ \/ /\ On("to_end1") = {} /\ Goto(t, "ab_end1", "ab_end2")
          /\ UNCHANGED <<loc, count, cur, ret>>
       \/ \E q \in On("to_end1") :
             /\ CallEnd(t, q, "ab_end1", "ab_end1")
             /\ count' = [count EXCEPT ![q] = @ + 1] /\ Move(q, "none")
    /\ UNCHANGED <<fc, pqc, dev, interrupts, flags, alive, intr_unique, asleep>>

(* end_requests on a list, one request at a time *)
end_requests(t, list, from) ==
    \E q \in list :
        /\ CallEnd(t, q, from, from)
        /\ Clear(q, "SENT") /\ Move(q, "none")

abort_end2(t) ==
    /\ \/ /\ On("to_end2") = {} /\ Goto(t, "ab_end2", "done")
          /\ UNCHANGED <<loc, flags, cur, ret>>
       \/ end_requests(t, On("to_end2"), "ab_end2")
    /\ UNCHANGED <<fc, pqc, dev, interrupts, count, alive, intr_unique, asleep>>

fuse_abort_conn(t) ==
    \/ abort_start(t) \/ abort_device(t) \/ abort_unlimited(t)
    \/ abort_background(t) \/ abort_queue(t) \/ abort_end1(t) \/ abort_end2(t)

(* control.c: a write to "abort" *)
fuse_conn_abort_write(t) ==
    /\ t \in Ctl /\ Goto(t, "open", "abort")
    /\ UNCHANGED <<fc, pqc, listVars, reqVars, asleep, cur, ret>>

-----------------------------------------------------------------------------
(* fuse_dev_release: the last reference to the device's file is gone, so   *)
(* none of its threads is inside a read or a write                         *)
release_start(d) ==
    /\ Goto(d, "open", "rel")
    /\ \A s \in Servers : DevOf[s] = d => pc[s] \in {"idle", "gone"}
    /\ UNCHANGED <<fc, pqc, listVars, reqVars, asleep, cur, ret>>

(* end_requests(processing), then the last device aborts the connection *)
release_requests(d) ==
    /\ \/ /\ end_requests(d, OnDev("processing", d), "rel")
          /\ UNCHANGED fc
       \/ /\ OnDev("processing", d) = {}
          /\ fc' = [fc EXCEPT !.dev_count = @ - 1]
          /\ Goto(d, "rel", IF fc.dev_count = 1 THEN "abort" ELSE "free")
          /\ UNCHANGED <<loc, flags, cur, ret>>
    /\ UNCHANGED <<pqc, dev, interrupts, count, alive, intr_unique, asleep>>

(* take the device off fc->devices: a later abort does not see it *)
fuse_dev_free(d) ==
    /\ fc.lock = None /\ Goto(d, "free", "done")
    /\ pqc' = [pqc EXCEPT ![d] = FALSE]
    /\ UNCHANGED <<fc, listVars, reqVars, asleep, cur, ret>>

-----------------------------------------------------------------------------
SyncRequester(q) ==
    \/ fuse_get_req(q) \/ fuse_request_send(q) \/ wait_finished(q)
    \/ wait_interrupted(q) \/ wait_test_sent(q) \/ wait_queue_interrupt(q)
    \/ wait_killed(q) \/ requester_put(q)

BgRequester(q) ==
    \/ fuse_get_req_for_background(q) \/ blocked_woken(q) \/ blocked_killed(q)
    \/ get_req_alloc(q) \/ fuse_request_send_background(q)
    \/ background_unsent(q)

(* a closed device has no threads any more *)
Server(s) ==
    /\ DevOf[s] \in Closers => pc[DevOf[s]] = "open"
    /\ \/ read_disconnected(s) \/ fuse_read_interrupt(s) \/ read_pending(s)
       \/ read_too_large(s) \/ read_io(s) \/ lock_request(s)
       \/ unlock_request(s) \/ copy_done(s) \/ read_done(s) \/ read_sent(s)
       \/ read_test_interrupted(s) \/ server_queue_interrupt(s)
       \/ write_reply(s) \/ write_interrupt_reply(s) \/ write_done(s)
       \/ request_end(s)

Killer(t) ==
    \/ fuse_abort_conn(t) \/ request_end(t) \/ fuse_conn_abort_write(t)
    \/ t \in Closers /\ (release_start(t) \/ release_requests(t) \/ fuse_dev_free(t))

Next ==
    \/ \E q \in SyncReq : SyncRequester(q)
    \/ \E q \in BgReq : BgRequester(q)
    \/ \E s \in Servers : Server(s)
    \/ \E t \in Killers : Killer(t)
    \/ fuse_conn_max_background_write

Spec == Init /\ [][Next]_vars

(* Fairness.  The kernel schedules every thread; a user's signal, close or *)
(* abort may never come.  The daemon goes on reading and answering         *)
(* (otherwise nothing is promised until its device is closed), and a copy  *)
(* ends after finitely many pages.  A page fault ends too: the daemon's    *)
(* buffer is not backed by the file system that it serves.                 *)
RequesterFairness ==
    /\ \A q \in SyncReq :
         WF_vars(\/ fuse_get_req(q) \/ fuse_request_send(q) \/ wait_finished(q)
                 \/ wait_test_sent(q) \/ wait_queue_interrupt(q)
                 \/ requester_put(q))
    /\ \A q \in BgReq :
         WF_vars(\/ fuse_get_req_for_background(q) \/ blocked_woken(q)
                 \/ get_req_alloc(q) \/ fuse_request_send_background(q))

KillerFairness ==
    \A t \in Killers :
        WF_vars(\/ fuse_abort_conn(t) \/ request_end(t)
                \/ t \in Closers /\ (release_requests(t) \/ fuse_dev_free(t)))

ServerFairness ==
    \A s \in Servers : WF_vars(Server(s)) /\ SF_vars(copy_done(s))

FairSpec == Spec /\ RequesterFairness /\ KillerFairness /\ ServerFairness

-----------------------------------------------------------------------------
(* Properties *)

HoldPC == {"send", "wait1", "intr", "qintr", "wait2", "wait3", "put"}
EndPC  == {"end_intr", "end_bg", "end_put"}
OwnPC  == {"rd_size", "rd_unlocked", "rd_locked", "rd_ok", "rd_err",
           "wr_unlocked", "wr_locked", "wr_done", "end"} \cup EndPC
LatePC == {"rd_sent", "rd_intr", "rd_qintr"}
UsePC  == OwnPC \cup LatePC \cup {"wr_qintr"}

(* the requester has its reference *)
Holds(q) == pc[q] \in HoldPC

(* the request is queued, or a thread that will end it has it *)
InFlight(q) ==
    \/ loc[q] # "none"
    \/ \E t \in Enders : cur[t] = q /\ pc[t] \in OwnPC

(* the read that fetched the request has returned *)
Returned(q) == \A s \in Servers : cur[s] = q => pc[s] \notin LatePC

(* Whatever interleaves with an abort from the control file, with closes   *)
(* and with signals, nothing is freed under its requester, under a thread  *)
(* of the daemon that copies it or ends it, or under the abort while it    *)
(* ends it, and no list but one holds a freed request.  When the abort and *)
(* a copying thread end a request both (dev.c:2123, 1305), the reference   *)
(* that the abort took is what keeps it for the other one.  Three places   *)
(* use a request without a reference and are left out, because they do     *)
(* meet a freed one: the abort's private list, of which dev.c:2068 says    *)
(* that a request which finishes "will in that case be removed from the    *)
(* list before we touch it" (no thread removes it, dev.c:1305, 1891), with *)
(* the abort's entry into request_end that follows; a read after it has    *)
(* dropped fpq->lock (LatePC, dev.c:1296); and the answer to an INTERRUPT  *)
(* message (dev.c:1867).                                                   *)
NoUseAfterFree ==
    /\ \A q \in AllQ : Holds(q) \/ loc[q] \notin {"none", "to_end1"} => q \in alive
    /\ \A s \in Servers : pc[s] \in OwnPC => cur[s] \in alive
    /\ \A t \in Killers : pc[t] \in EndPC => cur[t] \in alive
    /\ interrupts \subseteq alive

(* The reference count is the number of its holders, the requester and the *)
(* transport, and a request without holder is freed: no reference leaks    *)
(* and none is dropped twice, in particular not by the bail-out of         *)
(* request_wait_answer racing a read (dev.c:440).  The list of interrupts, *)
(* which has no reference of its own, keeps none that is freed (dev.c:401).*)
RefsExact ==
    /\ \A q \in alive :
         count[q] = (IF Holds(q) THEN 1 ELSE 0) + (IF InFlight(q) THEN 1 ELSE 0)
    /\ alive = {q \in AllQ : Holds(q) \/ InFlight(q)}
    /\ interrupts \subseteq alive

(* num_waiting, which the control file system shows, is "the number of     *)
(* requests waiting for completion" (fuse_i.h:628): those that a requester *)
(* or the transport still has, and the background requests whose thread    *)
(* waits for its turn or is about to allocate; however they end, by an     *)
(* answer, by a device that is closed, killed in the wait, or never sent.  *)
WaitingExact ==
    fc.num_waiting =
        Cardinality({q \in AllQ : \/ Holds(q) \/ InFlight(q)
                                  \/ q \in BgReq /\ pc[q] \in {"blocked", "get"}})

(* The WARN_ON of request_end that FR_SENT is clear (dev.c:372): a request *)
(* that ends is not marked as sent.                                        *)
EndedUnsent ==
    \A t \in Enders : pc[t] = "end_bg" => "SENT" \notin flags[cur[t]]

(* An interrupt is not lost: the requester sets FR_INTERRUPTED and tests   *)
(* FR_SENT, the reader sets FR_SENT and tests FR_INTERRUPTED; when both    *)
(* have done so and the request is with the daemon, one of them has queued *)
(* the interrupt, and it is in the list or was taken for a read (whose     *)
(* copy may fail).                                                         *)
NoLostInterrupt ==
    \A q \in SyncReq :
        /\ "INTERRUPTED" \in flags[q] /\ pc[q] \in {"wait2", "wait3"}
        /\ loc[q] = "processing" /\ Returned(q)
        => q \in interrupts \cup intr_unique

(* num_background counts the background requests that are queued or under  *)
(* way, active_background those that left bg_queue (dev.c:344, 387, 571),  *)
(* also when the limit changes meanwhile.                                  *)
Background == {q \in BgReq : "BACKGROUND" \in flags[q] /\ InFlight(q)}

BackgroundCounted ==
    /\ fc.num_background = Cardinality(Background)
    /\ fc.active_background = Cardinality(Background \ On("bg_queue"))

(* No more than max_background are active, and a request waits in bg_queue *)
(* only while that limit is reached: none is forgotten there (dev.c:338).  *)
BackgroundLimited ==
    fc.connected =>
        /\ fc.active_background <= fc.max_background
        /\ On("bg_queue") # {} => fc.active_background = fc.max_background

(* Every request that was queued ends: it is answered, it is taken back by *)
(* a killed requester, its device is closed, or the connection is aborted  *)
(* ("Abort all requests.  Emergency exit in case of a malicious or         *)
(* accidental deadlock", dev.c:2055), also when it never left bg_queue.    *)
RequestEnds == \A q \in AllQ : InFlight(q) ~> ~InFlight(q)

(* A thread asleep because there were too many background requests is      *)
(* woken: each end of one wakes a waiter, who passes an unused turn on.    *)
WaiterWoken == \A q \in BgReq : q \in asleep ~> q \notin asleep

=============================================================================
