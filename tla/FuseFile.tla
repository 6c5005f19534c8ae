------------------------------ MODULE FuseFile ------------------------------
(***************************************************************************)
(* Open files of FUSE: struct fuse_file, its reference count, the daemon's *)
(* handle, the reserved request that carries RELEASE and may be borrowed   *)
(* by FLUSH, the polled_files tree and flock.  From old/fuse/file.c, and   *)
(* from old/tmp/fuse/file.c where that copy differs: there the count       *)
(* starts at 1 instead of 0, fuse_sync_release ends in fuse_file_put, and  *)
(* the unlock of a flock on close is sent.  The variable copy says which   *)
(* copy is loaded.                                                         *)
(*                                                                         *)
(* The struct file (fds, references of running calls, the last fput) is    *)
(* the VFS's and external.  A daemon without OPEN keeps no handle for      *)
(* regular files; it has OPENDIR.                                          *)
(***************************************************************************)
EXTENDS Integers, FiniteSets

CONSTANTS
    Files,      \* files, each opened again after its release
    Users,      \* threads that make system calls
    MaxFds,     \* bound: descriptors of one file
    MaxIo       \* bound: background requests of one file

VARIABLES
    copy,       \* "old" or "tmp"
    implOpen,   \* does the daemon implement OPEN
    no_open,    \* fc->no_open
    no_flush,   \* fc->no_flush
    st,         \* of every file: "none", "opening", "open", "put", "freed"
    dir,        \* is it a directory
    fds,        \* descriptors
    count,      \* ff->count
    io,         \* background requests that hold ff
    handle,     \* has the daemon an open handle
    reserved,   \* ff->reserved_req: "here", "used" or the borrowing thread
    refs,       \* references to the borrowed request
    polled,     \* fc->polled_files
    flock,      \* ff->flock
    lk,         \* does the daemon hold a flock for the handle
    ready,      \* has the daemon something to read
    want,       \* has the daemon been asked to notify
    call        \* the system call every thread is in

conn == <<copy, implOpen, no_open, no_flush>>
ffv == <<st, dir, fds, count, io, handle, reserved, refs, polled, flock, lk>>
fvars == <<conn, ffv, ready, want, call>>

NoCall == [op |-> "none", pc |-> "idle", f |-> "none", woken |-> FALSE]

Init ==
    /\ copy \in {"old", "tmp"}
    /\ implOpen \in BOOLEAN
    /\ no_open = FALSE /\ no_flush = FALSE
    /\ st = [f \in Files |-> "none"]
    /\ dir = [f \in Files |-> FALSE]
    /\ fds = [f \in Files |-> 0]
    /\ count = [f \in Files |-> 0]
    /\ io = [f \in Files |-> 0]
    /\ handle = [f \in Files |-> FALSE]
    /\ reserved = [f \in Files |-> "here"]
    /\ refs = [f \in Files |-> 0]
    /\ polled = {}
    /\ flock = [f \in Files |-> FALSE]
    /\ lk = [f \in Files |-> FALSE]
    /\ ready = [f \in Files |-> FALSE]
    /\ want = [f \in Files |-> FALSE]
    /\ call = [t \in Users |-> NoCall]

At(t, op, pc) == call[t].op = op /\ call[t].pc = pc
InCall(f) == {t \in Users : call[t].pc # "idle" /\ call[t].f = f}

(* References to the struct file: descriptors, running calls and the       *)
(* request that was borrowed from it.                                      *)
FileRefs(f) == fds[f] + Cardinality(InCall(f))
               + (IF reserved[f] \in Users THEN 1 ELSE 0)

Enter(t, op, f, pc) ==
    call' = [call EXCEPT ![t] = [op |-> op, pc |-> pc, f |-> f, woken |-> FALSE]]
Goto(t, pc) == call' = [call EXCEPT ![t].pc = pc]

(***************************************************************************)
(* open and create.                                                        *)
(***************************************************************************)

(* A new fuse_file; the counts of the two copies differ until the file has *)
(* it in private_data.                                                     *)
fuse_file_alloc(f) == count' = [count EXCEPT ![f] = 0]
fuse_file_alloc_tmp(f) == count' = [count EXCEPT ![f] = 1]
fuse_file_get(f) == count' = [count EXCEPT ![f] = @ + 1]
(* file->private_data = fuse_file_get(ff), or = ff.                        *)
Attach_always_gets(f) == fuse_file_get(f)
Attach(f) == IF copy = "old" THEN fuse_file_get(f) ELSE UNCHANGED count

fuse_do_open(t, f, isdir, op) ==
    /\ call[t].pc = "idle"
    /\ st[f] = "none" /\ ~handle[f] /\ ~lk[f]
    /\ op = "create" => implOpen /\ ~isdir
    /\ IF copy = "old" THEN fuse_file_alloc(f) ELSE fuse_file_alloc_tmp(f)
    /\ st' = [st EXCEPT ![f] = "opening"]
    /\ dir' = [dir EXCEPT ![f] = isdir]
    /\ reserved' = [reserved EXCEPT ![f] = "here"]
    /\ Enter(t, op, f, IF op = "open" /\ no_open /\ ~isdir THEN "done" ELSE "sent")
    /\ flock' = [flock EXCEPT ![f] = FALSE]
    /\ UNCHANGED <<conn, fds, io, handle, refs, polled, lk, ready, want>>

(* The daemon's answer to OPEN, OPENDIR or CREATE.                         *)
ServeOpen(t) ==
    LET f == call[t].f
    IN  /\ call[t].op \in {"open", "create"} /\ call[t].pc = "sent"
        /\ \/ /\ implOpen \/ dir[f]
              /\ handle' = [handle EXCEPT ![f] = TRUE]
              /\ Goto(t, "done")
           \/ ~implOpen /\ ~dir[f] /\ Goto(t, "nosys") /\ UNCHANGED handle
           \/ Goto(t, "failed") /\ UNCHANGED handle
        /\ UNCHANGED <<conn, st, dir, fds, count, io, reserved, refs, polled,
                       flock, lk, ready, want>>

(* Success, or ENOSYS for a file, which is remembered.                     *)
open_done(t) ==
    LET f == call[t].f
    IN  /\ call[t].op \in {"open", "create"} /\ call[t].pc \in {"done", "nosys"}
        /\ no_open' = (no_open \/ call[t].pc = "nosys")
        /\ Attach(f)
        /\ st' = [st EXCEPT ![f] = "open"]
        /\ fds' = [fds EXCEPT ![f] = 1]
        /\ call' = [call EXCEPT ![t] = NoCall]
        /\ UNCHANGED <<copy, implOpen, no_flush, dir, io, handle, reserved,
                       refs, polled, flock, lk, ready, want>>

open_failed(t) ==
    LET f == call[t].f
    IN  /\ call[t].op \in {"open", "create"} /\ call[t].pc = "failed"
        /\ st' = [st EXCEPT ![f] = "none"]
        /\ count' = [count EXCEPT ![f] = 0]
        /\ call' = [call EXCEPT ![t] = NoCall]
        /\ UNCHANGED <<conn, dir, fds, io, handle, reserved, refs, polled,
                       flock, lk, ready, want>>

(***************************************************************************)
(* The reference count and RELEASE.                                        *)
(***************************************************************************)

(* The last reference sends RELEASE in the reserved request, unless the    *)
(* daemon has no OPEN, and frees ff.  "freed": RELEASE is on its way.      *)
fuse_file_put(f) ==
    /\ count' = [count EXCEPT ![f] = @ - 1]
    /\ IF count[f] = 1
       THEN IF no_open
            THEN st' = [st EXCEPT ![f] = "none"] /\ UNCHANGED reserved
            ELSE /\ st' = [st EXCEPT ![f] = "freed"]
                 /\ reserved' = [reserved EXCEPT ![f] = "used"]
       ELSE st' = [st EXCEPT ![f] = "put"] /\ UNCHANGED reserved

(* The file leaves polled_files and its pollers are woken.                 *)
Erase_missing(f) == UNCHANGED polled
Erase(f) == polled' = polled \ {f}
fuse_prepare_release(f) ==
    /\ Erase(f)
    /\ call' = [t \in Users |-> IF call[t].f = f /\ call[t].op = "poll"
                                THEN [call[t] EXCEPT !.woken = TRUE] ELSE call[t]]

(* CREATE succeeded and the open did not (no inode, or finish_open): the   *)
(* handle is released at once.                                             *)
fuse_sync_release(t) ==
    LET f == call[t].f
    IN  /\ At(t, "create", "done")
        /\ IF copy = "old"
           THEN /\ st' = [st EXCEPT ![f] = "freed"]
                /\ reserved' = [reserved EXCEPT ![f] = "used"]
                /\ UNCHANGED count
           ELSE fuse_file_put(f)
        /\ call' = [call EXCEPT ![t] = NoCall]
        /\ UNCHANGED <<conn, dir, fds, io, handle, refs, polled, flock, lk,
                       ready, want>>

(* The last fput: the unlock of a flock is sent (copy tmp only, old leaves *)
(* it to RELEASE) and may fail, then fuse_release_common.                  *)
fuse_release_common(f) ==
    /\ st[f] = "open"
    /\ FileRefs(f) = 0
    /\ lk' \in {lk, [lk EXCEPT ![f] = @ /\ copy = "old"]}
    /\ fuse_prepare_release(f)
    /\ fuse_file_put(f)
    /\ UNCHANGED <<conn, dir, fds, io, handle, refs, flock, ready, want>>

(* The daemon handles RELEASE; FUSE_RELEASE_FLOCK_UNLOCK drops its lock.   *)
Unlocks(f) == flock[f]
ServeRelease(f) ==
    /\ st[f] = "freed"
    /\ st' = [st EXCEPT ![f] = "none"]
    /\ handle' = [handle EXCEPT ![f] = FALSE]
    /\ lk' = [lk EXCEPT ![f] = @ /\ ~Unlocks(f)]
    /\ flock' = [flock EXCEPT ![f] = FALSE]
    /\ want' = [want EXCEPT ![f] = FALSE]
    /\ UNCHANGED <<conn, dir, fds, count, io, reserved, refs, polled, ready, call>>

(***************************************************************************)
(* Background I/O: fuse_readpages and writeback hold a reference to ff.    *)
(***************************************************************************)
fuse_async_io(f) ==
    /\ st[f] = "open" /\ fds[f] > 0 /\ ~dir[f]
    /\ io[f] < MaxIo
    /\ io' = [io EXCEPT ![f] = @ + 1]
    /\ fuse_file_get(f)
    /\ UNCHANGED <<conn, st, dir, fds, handle, reserved, refs, polled, flock,
                   lk, ready, want, call>>

(* fuse_readpages_end, fuse_writepage_free.                                *)
async_io_end(f) ==
    /\ io[f] > 0
    /\ io' = [io EXCEPT ![f] = @ - 1]
    /\ IF count[f] > 1 THEN count' = [count EXCEPT ![f] = @ - 1]
                            /\ UNCHANGED <<st, reserved>>
                       ELSE fuse_file_put(f)
    /\ UNCHANGED <<conn, dir, fds, handle, refs, polled, flock, lk, ready,
                   want, call>>

(***************************************************************************)
(* close: FLUSH, with the file's reserved request if there is no memory.   *)
(***************************************************************************)
fuse_flush(t, f) ==
    /\ call[t].pc = "idle"
    /\ st[f] = "open" /\ fds[f] > 0
    /\ fds' = [fds EXCEPT ![f] = @ - 1]
    /\ \/ ~no_flush /\ ~dir[f] /\ Enter(t, "flush", f, "sent")  \* allocated
       \/ ~no_flush /\ ~dir[f] /\ Enter(t, "flush", f, "wait")  \* no memory
       \/ (no_flush \/ dir[f]) /\ Enter(t, "flush", f, "done")
    /\ UNCHANGED <<conn, st, dir, count, io, handle, reserved, refs, polled,
                   flock, lk, ready, want>>

(* A waiter looks at reserved_req before it sleeps, and when it is woken.  *)
get_reserved_req(t) ==
    LET f == call[t].f
    IN  /\ At(t, "flush", "wait")
        /\ IF reserved[f] = "here"
           THEN /\ reserved' = [reserved EXCEPT ![f] = t]
                /\ refs' = [refs EXCEPT ![f] = 2]
                /\ Goto(t, "sent")
           ELSE Goto(t, "asleep") /\ UNCHANGED <<reserved, refs>>
        /\ UNCHANGED <<conn, st, dir, fds, count, io, handle, polled, flock,
                       lk, ready, want>>

(* put_reserved_req: wake_up_all.                                          *)
WakeReserved_none(f, c) == c
WakeReserved(f, c) == [t \in Users |->
    IF c[t].op = "flush" /\ c[t].f = f /\ c[t].pc = "asleep"
    THEN [c[t] EXCEPT !.pc = "wait"] ELSE c[t]]

(* The caller and the transport drop the borrowed request; the last one    *)
(* gives it back.                                                          *)
PutRequest(f, c) ==
    /\ refs' = [refs EXCEPT ![f] = @ - 1]
    /\ IF refs[f] = 1 THEN /\ reserved' = [reserved EXCEPT ![f] = "here"]
                           /\ call' = WakeReserved(f, c)
                      ELSE call' = c /\ UNCHANGED reserved

(* The daemon answers FLUSH: the caller can go on, and the transport still *)
(* holds its reference.  ENOSYS is remembered.                             *)
ServeFlush(t) ==
    /\ At(t, "flush", "sent")
    /\ no_flush' \in {no_flush, TRUE}
    /\ Goto(t, "answered")
    /\ UNCHANGED <<copy, implOpen, no_open, ffv, ready, want>>

flush_put(t) ==
    LET f == call[t].f
    IN  /\ At(t, "flush", "answered")
        /\ IF reserved[f] = t
           THEN PutRequest(f, [call EXCEPT ![t].pc = "done"])
           ELSE Goto(t, "done") /\ UNCHANGED <<reserved, refs>>
        /\ UNCHANGED <<conn, st, dir, fds, count, io, handle, polled, flock,
                       lk, ready, want>>

transport_put(f) ==
    /\ reserved[f] \in Users
    /\ LET t == reserved[f] IN
         \/ refs[f] = 2 /\ At(t, "flush", "answered") /\ call[t].f = f
         \/ refs[f] = 1 /\ ~(call[t].f = f /\ call[t].op = "flush"
                             /\ call[t].pc \in {"sent", "answered"})
    /\ PutRequest(f, call)
    /\ UNCHANGED <<conn, st, dir, fds, count, io, handle, polled, flock, lk,
                   ready, want>>

(***************************************************************************)
(* Requests that only use the handle: ioctl, lseek, fsync, locks; and poll. *)
(***************************************************************************)
fuse_file_flock(t, f) ==
    /\ call[t].pc = "idle"
    /\ st[f] = "open" /\ fds[f] > 0 /\ ~dir[f]
    /\ flock' = [flock EXCEPT ![f] = TRUE]
    /\ Enter(t, "setlk", f, "sent")
    /\ UNCHANGED <<conn, st, dir, fds, count, io, handle, reserved, refs,
                   polled, lk, ready, want>>

(* Locked, unlocked, or refused.                                           *)
ServeLock(t) ==
    /\ At(t, "setlk", "sent")
    /\ \E v \in {TRUE, FALSE, lk[call[t].f]} : lk' = [lk EXCEPT ![call[t].f] = v]
    /\ Goto(t, "done")
    /\ UNCHANGED <<conn, st, dir, fds, count, io, handle, reserved, refs,
                   polled, flock, ready, want>>

(* The file is on the tree before the request is sent.                     *)
fuse_register_polled_file(f) == polled' = polled \cup {f}
fuse_file_poll(t, f) ==
    /\ call[t].pc = "idle"
    /\ st[f] = "open" /\ fds[f] > 0 /\ ~dir[f]
    /\ fuse_register_polled_file(f)
    /\ Enter(t, "poll", f, "sent")
    /\ UNCHANGED <<conn, st, dir, fds, count, io, handle, reserved, refs,
                   flock, lk, ready, want>>

(* The daemon answers POLL, and remembers to notify if nothing is ready.   *)
ServePoll(t) ==
    LET f == call[t].f
    IN  /\ At(t, "poll", "sent")
        /\ IF ready[f] THEN Goto(t, "done") /\ UNCHANGED want
                       ELSE Goto(t, "asleep") /\ want' = [want EXCEPT ![f] = TRUE]
        /\ UNCHANGED <<conn, ffv, ready>>

Event(f) ==
    /\ st[f] = "open"
    /\ ready' = [ready EXCEPT ![f] = ~@]
    /\ UNCHANGED <<conn, ffv, want, call>>

(* NOTIFY_POLL: the pollers of a file that is on the tree are woken.       *)
fuse_notify_poll_wakeup(f) ==
    /\ ready[f] /\ want[f]
    /\ want' = [want EXCEPT ![f] = FALSE]
    /\ call' = [t \in Users |->
            IF f \in polled /\ call[t].op = "poll" /\ call[t].f = f
            THEN [call[t] EXCEPT !.woken = TRUE] ELSE call[t]]
    /\ UNCHANGED <<conn, ffv, ready>>

(* A woken poller asks again; a signal ends the wait.                      *)
poll_again(t) ==
    /\ At(t, "poll", "asleep")
    /\ \/ call[t].woken /\ call' = [call EXCEPT ![t].pc = "sent", ![t].woken = FALSE]
       \/ Goto(t, "done")
    /\ UNCHANGED <<conn, ffv, ready, want>>

(* The system call returns and drops its reference to the file.            *)
Return(t) ==
    /\ call[t].pc = "done"
    /\ call[t].op \notin {"open", "create"}
    /\ call' = [call EXCEPT ![t] = NoCall]
    /\ UNCHANGED <<conn, ffv, ready, want>>

Dup(f) ==
    /\ st[f] = "open" /\ fds[f] \in 1..(MaxFds - 1)
    /\ fds' = [fds EXCEPT ![f] = @ + 1]
    /\ UNCHANGED <<conn, st, dir, count, io, handle, reserved, refs, polled,
                   flock, lk, ready, want, call>>

Next ==
    \/ \E t \in Users, f \in Files :
         \/ \E d \in BOOLEAN, op \in {"open", "create"} : fuse_do_open(t, f, d, op)
         \/ fuse_flush(t, f) \/ fuse_file_flock(t, f) \/ fuse_file_poll(t, f)
    \/ \E t \in Users :
         \/ ServeOpen(t) \/ open_done(t) \/ open_failed(t) \/ fuse_sync_release(t)
         \/ get_reserved_req(t) \/ ServeFlush(t) \/ flush_put(t)
         \/ ServeLock(t) \/ ServePoll(t) \/ poll_again(t) \/ Return(t)
    \/ \E f \in Files :
         \/ fuse_release_common(f) \/ ServeRelease(f) \/ fuse_async_io(f)
         \/ async_io_end(f) \/ transport_put(f) \/ Event(f)
         \/ fuse_notify_poll_wakeup(f) \/ Dup(f)

Spec == Init /\ [][Next]_fvars

(***************************************************************************)
(* Properties.                                                             *)
(***************************************************************************)

(* ff->count is the struct file's reference plus one for every background  *)
(* request, and ff exists as long as one of them does (fuse_file_get,      *)
(* fuse_file_put, in both copies), so ff is freed exactly once.            *)
CountExact ==
    \A f \in Files :
        /\ st[f] \in {"open", "put"}
           => count[f] = io[f] + (IF st[f] = "open" THEN 1 ELSE 0) /\ count[f] > 0
        /\ st[f] \in {"none", "freed"} => io[f] = 0 /\ count[f] = 0

(* The daemon's handle outlives every request that names it ("if some      *)
(* asynchronous READ or WRITE requests are outstanding, the sending will   *)
(* be delayed") and is released with ff, and no flock survives it.         *)
(* For a daemon without OPEN fuse_file_put drops RELEASEDIR too, and with  *)
(* RELEASE the unlock of a flock, which the old copy sends nowhere else    *)
(* and whose request may fail in the other: those are left out.            *)
HandleReleased ==
    \A f \in Files :
        (implOpen \/ ~dir[f])
        => /\ (implOpen /\ (st[f] \in {"open", "put"} \/ InCall(f) # {})
               /\ st[f] # "opening") => handle[f]
           /\ st[f] = "none" => ~handle[f] /\ (implOpen => ~lk[f])

(* struct fuse_file: ff lives exactly as long as its references, and the   *)
(* daemon's handle and flock as long as ff (fuse_file_put, fuse_release,   *)
(* fuse_sync_release).                                                     *)
HandleExact == CountExact /\ HandleReleased

(* When the file is released its reserved request is there: a FLUSH that   *)
(* borrowed it holds the file.  And nobody sleeps while it is there, so no *)
(* wake-up is lost (get_reserved_req, put_reserved_req).                   *)
ReservedSafe ==
    \A f \in Files :
        /\ st[f] \in {"put", "none"} => reserved[f] \notin Users
        /\ reserved[f] = "here" =>
             \A t \in Users : ~(At(t, "flush", "asleep") /\ call[t].f = f)

(* A poller sleeps only while the daemon has nothing for it or still has   *)
(* to notify, and only live files are on polled_files.                     *)
PollWoken ==
    /\ \A t \in Users : At(t, "poll", "asleep") /\ ready[call[t].f]
                        => call[t].woken \/ want[call[t].f]
    /\ \A f \in polled : st[f] = "open"

=============================================================================
