------------------------------ MODULE FuseSize ------------------------------
(***************************************************************************)
(* The size of a FUSE file without the writeback cache: i_size, kept by    *)
(* the kernel, against the daemon's size.  Writes, direct I/O (synchronous *)
(* and asynchronous), truncation, fallocate, open with O_TRUNC, reads that *)
(* come back short and GETATTR run at the same time; attr_version and      *)
(* FUSE_I_SIZE_UNSTABLE decide whose answer counts.  From old/fuse/file.c, *)
(* dir.c and inode.c.                                                      *)
(*                                                                         *)
(* Sizes are in pages, a request carries whole pages.  fc->attr_version    *)
(* and fi->attr_version only matter by comparison: a call remembers newer  *)
(* (the inode's version passed the one it read) and eq (they were equal    *)
(* and still are), which is open when READ is sent: the last update may    *)
(* have been another inode's.  A request that fails has not changed the    *)
(* daemon's file.                                                          *)
(***************************************************************************)
EXTENDS Integers, FiniteSets, FiniteSetsExt

CONSTANTS
    Callers,    \* threads
    MaxSize,    \* bound: the largest size, in pages
    MaxCalls,   \* bound: calls made
    None        \* no holder of the inode lock

VARIABLES
    dsize,      \* the daemon's size (external)
    isize,      \* inode->i_size
    valid,      \* fi->i_time is in the future: attributes are trusted
    async_dio,  \* fc->async_dio, from the daemon's INIT
    unstable,   \* FUSE_I_SIZE_UNSTABLE
    ilock,      \* holder of the inode lock
    calls,      \* calls made so far, up to MaxCalls
    thr,        \* the call of every thread
    aio,        \* the struct fuse_io_priv of an asynchronous direct I/O
    raced       \* history: one of the known races has happened (see Races)

svars == <<dsize, isize, valid, async_dio, unstable, ilock, calls, thr, aio, raced>>

Sizes == 0..MaxSize
Idle == [op |-> "none", st |-> "idle", pos |-> 0, left |-> 0, k |-> 0, got |-> 0,
         res |-> 0, big |-> FALSE, newer |-> FALSE, eq |-> FALSE]
NoIo == [st |-> "none", write |-> FALSE, pos |-> 0, n |-> 0, blocking |-> FALSE,
         reqs |-> 0, ref |-> 0, bytes |-> -1, err |-> FALSE, size |-> 0, done |-> FALSE,
         out |-> <<"no", "no">>, fin |-> {}, ret |-> {}, failed |-> FALSE]

Init ==
    /\ dsize \in Sizes /\ isize = dsize
    /\ valid = TRUE /\ async_dio \in BOOLEAN /\ unstable = FALSE
    /\ ilock = None
    /\ calls = 0
    /\ thr = [t \in Callers |-> Idle]
    /\ aio = NoIo
    /\ raced = FALSE

At(t, op, s) == thr[t].op = op /\ thr[t].st = s
Larger(a, b) == IF a > b THEN a ELSE b

(* Calls of thr after fi->attr_version = ++fc->attr_version, and the call  *)
(* of t replaced by c.                                                     *)
Bumped(t, c) == [u \in Callers |-> IF u = t THEN c
                                   ELSE IF thr[u].op \in {"getattr", "read"}
                                   THEN [thr[u] EXCEPT !.newer = TRUE, !.eq = FALSE]
                                   ELSE thr[u]]
Set(t, c) == thr' = [thr EXCEPT ![t] = c]
Begin(op, s) == [Idle EXCEPT !.op = op, !.st = s]
inode_lock(t) == ilock = None /\ ilock' = t

(* The races in which the code loses track of the size.  raced records     *)
(* them, and SizeCoherent speaks of the executions without:                *)
(*  - OPEN with O_TRUNC does not take the inode lock: a SETATTR that was   *)
(*    answered before it is applied after it, and the same with an         *)
(*    asynchronous direct write that has already dropped the attributes;   *)
(*  - a direct write within i_size extends the daemon's file, partly fails *)
(*    and advances no version: a truncation overtook its requests, or OPEN *)
(*    with O_TRUNC, against an earlier write, left i_size too large;       *)
(*  - the truncation that undoes a failed extending direct write fails.    *)
Races(op) ==
    LET ops == {thr[u].op : u \in Callers} \cup {op}
    IN  raced' = (raced \/ ("open" \in ops /\ ops \cap {"setattr", "aio"} # {}))

(***************************************************************************)
(* GETATTR and short reads.                                                *)
(***************************************************************************)
fuse_do_getattr(t) ==
    /\ thr[t] = Idle
    /\ Set(t, Begin("getattr", "sent"))
    /\ UNCHANGED <<dsize, isize, valid, unstable, ilock, aio, raced>>

ServeGetattr(t) ==
    /\ At(t, "getattr", "sent")
    /\ Set(t, [thr[t] EXCEPT !.st = "served", !.got = dsize])
    /\ UNCHANGED <<dsize, isize, valid, unstable, ilock, aio, raced>>

fuse_change_attributes(t) ==
    /\ At(t, "getattr", "served")
    /\ IF thr[t].newer \/ unstable
       THEN Set(t, Idle) /\ UNCHANGED <<isize, valid>>
       ELSE /\ thr' = Bumped(t, Idle)
            /\ isize' = thr[t].got /\ valid' = TRUE
    /\ UNCHANGED <<dsize, unstable, ilock, aio, raced>>

(* READ of the page p, of one call or of readahead.                        *)
fuse_send_read(t, p, e) ==
    /\ thr[t] = Idle /\ p < isize
    /\ Set(t, [Begin("read", "sent") EXCEPT !.pos = p, !.eq = e])
    /\ UNCHANGED <<dsize, isize, valid, unstable, ilock, aio, raced>>

ServeRead(t) ==
    /\ At(t, "read", "sent")
    /\ Set(t, [thr[t] EXCEPT !.st = "served", !.got = IF thr[t].pos < dsize THEN 1 ELSE 0])
    /\ UNCHANGED <<dsize, isize, valid, unstable, ilock, aio, raced>>

UpToDate_unchecked(t) == TRUE
UpToDate(t) == thr[t].eq
fuse_read_update_size(t) ==
    /\ At(t, "read", "served")
    /\ IF thr[t].got = 0 /\ UpToDate(t) /\ thr[t].pos < isize /\ ~unstable
       THEN isize' = thr[t].pos /\ thr' = Bumped(t, Idle)
       ELSE Set(t, Idle) /\ UNCHANGED isize
    /\ UNCHANGED <<dsize, valid, unstable, ilock, aio, raced>>

(***************************************************************************)
(* Writes: through the page cache (write), with FOPEN_DIRECT_IO (odirect)  *)
(* and synchronous direct I/O (dio), all one request after the other.      *)
(***************************************************************************)
fuse_perform_write(t, pos, n) ==
    /\ thr[t] = Idle /\ inode_lock(t)
    /\ Set(t, [Begin("write", "fill") EXCEPT !.pos = pos, !.left = n])
    /\ unstable' = (unstable \/ isize < pos + n)
    /\ UNCHANGED <<dsize, isize, valid, aio, raced>>

fuse_direct_write(t, op, pos, n) ==
    /\ thr[t] = Idle /\ inode_lock(t)
    /\ op = "dio" => ~async_dio
    /\ Set(t, [Begin(op, "fill") EXCEPT !.pos = pos, !.left = n, !.big = pos + n > isize])
    /\ UNCHANGED <<dsize, isize, valid, unstable, aio, raced>>

Writing(t) == thr[t].op \in {"write", "odirect", "dio"}

(* The next request takes k of the pages that are left, or none: no page,  *)
(* no request, a fault.                                                    *)
fuse_fill_write_pages(t) ==
    /\ Writing(t) /\ thr[t].st = "fill"
    /\ \/ \E k \in 1..thr[t].left : Set(t, [thr[t] EXCEPT !.st = "sent", !.k = k])
       \/ Set(t, [thr[t] EXCEPT !.st = "end", !.got = -1])
    /\ UNCHANGED <<dsize, isize, valid, unstable, ilock, aio, raced>>

ServeWrite(t) ==
    /\ Writing(t) /\ thr[t].st = "sent"
    /\ \E w \in -1..thr[t].k :
          /\ Set(t, [thr[t] EXCEPT !.st = "served", !.got = w])
          /\ dsize' = IF w > 0 THEN Larger(dsize, thr[t].pos + w) ELSE dsize
    /\ UNCHANGED <<isize, valid, unstable, ilock, aio, raced>>

fuse_send_write(t) ==
    LET c == thr[t]
        w == IF c.got < 0 THEN 0 ELSE c.got
    IN  /\ Writing(t) /\ c.st = "served"
        /\ Set(t, [c EXCEPT !.res = @ + w, !.pos = @ + w, !.left = @ - w,
                            !.st = IF c.got = c.k /\ c.left > w THEN "fill" ELSE "end"])
        /\ UNCHANGED <<dsize, isize, valid, unstable, ilock, aio, raced>>

fuse_write_update_size(t, pos, c) ==
    /\ isize' = Larger(isize, pos)
    /\ thr' = Bumped(t, c)

(* After the loop: the size.  The rest of a short direct write goes        *)
(* through the page cache; a failed one that was to extend the file is     *)
(* truncated off.                                                          *)
write_end(t) ==
    LET c == thr[t]
        rest == IF c.op = "dio" /\ c.res > 0 /\ c.left > 0
                THEN [c EXCEPT !.op = "write", !.st = "resume"]
                ELSE [c EXCEPT !.st = "clear"]
    IN  /\ Writing(t) /\ c.st = "end"
        /\ IF c.res > 0
           THEN fuse_write_update_size(t, c.pos, rest)
           ELSE Set(t, rest) /\ UNCHANGED isize
        /\ valid' = (valid /\ c.op = "write")
        /\ UNCHANGED <<dsize, unstable, ilock, aio, raced>>

(* fuse_file_write_iter calls fuse_perform_write for the rest.             *)
write_resume(t) ==
    /\ At(t, "write", "resume")
    /\ Set(t, [thr[t] EXCEPT !.st = "fill", !.res = 0])
    /\ unstable' = (unstable \/ isize < thr[t].pos + thr[t].left)
    /\ UNCHANGED <<dsize, isize, valid, ilock, aio, raced>>

write_clear(t) ==
    LET c == thr[t]
    IN  /\ Writing(t) /\ c.st = "clear"
        /\ unstable' = (unstable /\ c.op # "write")
        /\ valid' = (valid /\ c.op # "write")
        /\ IF c.op = "dio" /\ c.res = 0 /\ c.got < 0 /\ c.big
           THEN /\ Set(t, [Idle EXCEPT !.op = "setattr", !.st = "begin", !.pos = isize, !.big = TRUE])
                /\ UNCHANGED ilock
           ELSE Set(t, Idle) /\ ilock' = None
        /\ UNCHANGED <<dsize, isize, aio, raced>>

(***************************************************************************)
(* Truncation and other SETATTRs, fallocate, open with O_TRUNC.            *)
(***************************************************************************)
(* left = 1: the size is set, to pos.                                      *)
fuse_setattr(t, n, truncate) ==
    /\ thr[t] = Idle /\ inode_lock(t)
    /\ Set(t, [Idle EXCEPT !.op = "setattr", !.st = "sent", !.pos = n,
                           !.left = IF truncate THEN 1 ELSE 0])
    /\ unstable' = (unstable \/ truncate)
    /\ Races("setattr")
    /\ UNCHANGED <<dsize, isize, valid, aio>>

(* After a failed direct write; the inode lock is held.                    *)
fuse_do_truncate(t) ==
    /\ At(t, "setattr", "begin")
    /\ Set(t, [thr[t] EXCEPT !.st = "sent", !.left = 1])
    /\ unstable' = TRUE
    /\ Races("setattr")
    /\ UNCHANGED <<dsize, isize, valid, ilock, aio>>

ServeSetattr(t) ==
    /\ At(t, "setattr", "sent")
    /\ \/ /\ dsize' = IF thr[t].left = 1 THEN thr[t].pos ELSE dsize
          /\ Set(t, [thr[t] EXCEPT !.st = "served", !.got = dsize'])
          /\ UNCHANGED raced
       \/ /\ Set(t, [thr[t] EXCEPT !.st = "served", !.got = -1])
          /\ raced' = (raced \/ thr[t].big)
          /\ UNCHANGED dsize
    /\ UNCHANGED <<isize, valid, unstable, ilock, aio>>

fuse_do_setattr(t) ==
    /\ At(t, "setattr", "served")
    /\ IF thr[t].got >= 0
       THEN /\ isize' = thr[t].got /\ valid' = TRUE
            /\ thr' = Bumped(t, [thr[t] EXCEPT !.st = "clear"])
       ELSE Set(t, [thr[t] EXCEPT !.st = "clear"]) /\ UNCHANGED <<isize, valid>>
    /\ UNCHANGED <<dsize, unstable, ilock, aio, raced>>

(* clear_bit after the pages have been dropped; the caller unlocks.        *)
setattr_clear(t) ==
    /\ At(t, "setattr", "clear")
    /\ unstable' = FALSE /\ ilock' = None
    /\ Set(t, Idle)
    /\ UNCHANGED <<dsize, isize, valid, aio, raced>>

fuse_file_fallocate(t, n) ==
    /\ thr[t] = Idle /\ inode_lock(t)
    /\ Set(t, [Idle EXCEPT !.op = "fallocate", !.st = "sent", !.pos = n])
    /\ unstable' = TRUE
    /\ UNCHANGED <<dsize, isize, valid, aio, raced>>

ServeFallocate(t) ==
    /\ At(t, "fallocate", "sent")
    /\ \/ /\ dsize' = Larger(dsize, thr[t].pos)
          /\ Set(t, [thr[t] EXCEPT !.st = "served"])
       \/ Set(t, [thr[t] EXCEPT !.st = "served", !.got = -1]) /\ UNCHANGED dsize
    /\ UNCHANGED <<isize, valid, unstable, ilock, aio, raced>>

fallocate_done(t) ==
    /\ At(t, "fallocate", "served")
    /\ IF thr[t].got = 0
       THEN fuse_write_update_size(t, thr[t].pos, Idle) /\ valid' = FALSE
       ELSE Set(t, Idle) /\ UNCHANGED <<isize, valid>>
    /\ unstable' = FALSE /\ ilock' = None
    /\ UNCHANGED <<dsize, aio, raced>>

fuse_open_common(t) ==
    /\ thr[t] = Idle
    /\ Set(t, [Idle EXCEPT !.op = "open", !.st = "sent"])
    /\ Races("open")
    /\ UNCHANGED <<dsize, isize, valid, unstable, ilock, aio>>

ServeOpen(t) ==
    /\ At(t, "open", "sent")
    /\ \/ Set(t, [thr[t] EXCEPT !.st = "served"]) /\ dsize' = 0
       \/ Set(t, Idle) /\ UNCHANGED dsize
    /\ UNCHANGED <<isize, valid, unstable, ilock, aio, raced>>

fuse_finish_open(t) ==
    /\ At(t, "open", "served")
    /\ isize' = 0 /\ valid' = FALSE
    /\ thr' = Bumped(t, Idle)
    /\ UNCHANGED <<dsize, unstable, ilock, aio, raced>>

(***************************************************************************)
(* Direct I/O with async_dio: the requests of one call run in parallel,    *)
(* their completions and the submitter share a fuse_io_priv.               *)
(***************************************************************************)

(* fuse_get_res_by_io: -1 stands for an error.                             *)
fuse_get_res_by_io(o) ==
    CASE o.err -> -1
      [] ~o.err /\ o.bytes >= 0 /\ o.write -> -1
      [] OTHER -> IF o.bytes < 0 THEN o.size ELSE o.bytes

NewIo(w, pos, n, blocking) ==
    [NoIo EXCEPT !.st = "live", !.write = w, !.pos = pos, !.n = n, !.blocking = blocking,
                 !.reqs = 1, !.ref = IF blocking THEN 2 ELSE 1]
NewIo_unheld(w, pos, n, blocking) == [NewIo(w, pos, n, blocking) EXCEPT !.reqs = 0]

io_init(w, pos, n, blocking) == NewIo(w, pos, n, blocking)

fuse_direct_IO(t, w, pos, n, sync) ==
    /\ thr[t] = Idle /\ async_dio
    /\ aio.st # "live" /\ \A u \in Callers : thr[u].op # "aio"
    /\ ~w => pos < isize
    /\ IF w THEN inode_lock(t) ELSE UNCHANGED ilock
    /\ aio' = io_init(w, pos, n, sync \/ (w /\ pos + n > isize))
    /\ Set(t, [Idle EXCEPT !.op = "aio", !.st = "submit", !.big = w /\ pos + n > isize])
    /\ Races("aio")
    /\ UNCHANGED <<dsize, isize, valid, unstable>>

(* One request more, or the loop of fuse_direct_io ends: all are sent, or  *)
(* no further request could be had, which is an error if none was sent.    *)
fuse_async_req_send(t) ==
    /\ At(t, "aio", "submit")
    /\ \/ /\ aio.size < aio.n
          /\ aio' = [aio EXCEPT !.ref = @ + 1, !.size = @ + 1, !.reqs = @ + 1,
                                !.out[aio.size + 1] = "sent"]
          /\ UNCHANGED thr
       \/ /\ Set(t, [thr[t] EXCEPT !.st = "submitted"])
          /\ aio' = [aio EXCEPT !.failed = (aio.size = 0)]
    /\ UNCHANGED <<dsize, isize, valid, unstable, ilock, raced>>

ServeAio(j) ==
    /\ aio.out[j] = "sent"
    /\ LET p == aio.pos + j - 1
       IN  \E r \in {"ok", "short", "err"} :
             /\ ~aio.write => r = "err" \/ (r = "ok") = (p < dsize)
             /\ aio' = [aio EXCEPT !.out[j] = r]
             /\ dsize' = IF aio.write /\ r = "ok" THEN Larger(dsize, p + 1) ELSE dsize
             /\ raced' = (raced \/ (dsize' > dsize
                                    /\ ~\E t \in Callers : thr[t].op = "aio" /\ thr[t].big))
    /\ UNCHANGED <<isize, valid, unstable, ilock, thr>>

(* The io after fuse_aio_complete: the error or the position is recorded,  *)
(* the last one completes the wait or the iocb, and drops its reference.   *)
fuse_aio_complete(o, err, pos) ==
    LET o1 == IF err THEN [o EXCEPT !.err = TRUE]
              ELSE IF pos >= 0 /\ (o.bytes < 0 \/ pos < o.bytes)
                   THEN [o EXCEPT !.bytes = pos] ELSE o
        left == o.reqs - 1
        o2 == [o1 EXCEPT !.reqs = left, !.done = @ \/ (left = 0 /\ o.blocking),
                         !.ret = IF left = 0 /\ ~o.blocking
                                 THEN @ \cup {<<Cardinality(@), fuse_get_res_by_io(o1)>>} ELSE @,
                         !.ref = @ - 1]
    IN  [o2 EXCEPT !.st = IF o2.ref = 0 THEN "freed" ELSE @]

(* fi->attr_version advances when an iocb completes without error.         *)
AioBump(o, t, c) ==
    IF o.ret # aio.ret /\ \A r \in o.ret : r[2] >= 0
    THEN thr' = Bumped(t, c)
    ELSE thr' = [u \in Callers |-> IF u = t THEN c ELSE thr[u]]

fuse_aio_complete_req(j) ==
    LET o == [fuse_aio_complete(aio, aio.out[j] = "err",
                                IF aio.out[j] = "short" THEN j - 1 ELSE -1)
              EXCEPT !.fin = @ \cup {j}]
    IN  /\ aio.out[j] \in {"ok", "short", "err"} /\ j \notin aio.fin
        /\ aio' = o
        /\ AioBump(o, None, Idle)
        /\ UNCHANGED <<dsize, isize, valid, unstable, ilock, raced>>

(* The submitter's own completion, which drops its reference: the io of a  *)
(* call that does not block may be freed here.                             *)
aio_submitted(t) ==
    /\ At(t, "aio", "submitted")
    /\ valid' = FALSE
    /\ aio' = fuse_aio_complete(aio, aio.failed, -1)
    /\ AioBump(aio', t, [thr[t] EXCEPT !.st = "check"])
    /\ UNCHANGED <<dsize, isize, unstable, ilock, raced>>

(* Then io->blocking is read, to wait or to return -EIOCBQUEUED: whatever  *)
(* the memory holds if the io is freed.  A caller misled so waits for a    *)
(* completion that nobody was told of.                                     *)
aio_check(t) ==
    /\ At(t, "aio", "check")
    /\ \/ /\ aio.blocking \/ aio.st = "freed"
          /\ Set(t, [thr[t] EXCEPT !.st = "wait"])
          /\ UNCHANGED ilock
       \/ /\ ~aio.blocking
          /\ Set(t, Idle)
          /\ ilock' = IF ilock = t THEN None ELSE ilock
    /\ UNCHANGED <<dsize, isize, valid, unstable, aio, raced>>

aio_wait(t) ==
    LET r == fuse_get_res_by_io(aio)
        unlocked == ilock' = IF ilock = t THEN None ELSE ilock
    IN  /\ At(t, "aio", "wait") /\ aio.done
        /\ aio' = [aio EXCEPT !.ref = @ - 1, !.st = IF aio.ref = 1 THEN "freed" ELSE @,
                              !.ret = @ \cup {<<Cardinality(@), r>>}]
        /\ \/ /\ aio.write /\ r > 0
              /\ fuse_write_update_size(t, aio.pos + aio.size, Idle)
              /\ unlocked
           \/ /\ r < 0 /\ thr[t].big
              /\ Set(t, [Idle EXCEPT !.op = "setattr", !.st = "begin", !.pos = isize, !.big = TRUE])
              /\ UNCHANGED <<isize, ilock>>
           \/ /\ ~(aio.write /\ r > 0) /\ ~(r < 0 /\ thr[t].big)
              /\ Set(t, Idle)
              /\ unlocked
              /\ UNCHANGED isize
        /\ UNCHANGED <<dsize, valid, unstable, raced>>

(* The calls a thread makes, and what follows.                             *)
Call(t) ==
    \/ fuse_do_getattr(t) \/ fuse_open_common(t)
    \/ \E p \in Sizes : (\E e \in BOOLEAN : fuse_send_read(t, p, e)) \/ fuse_file_fallocate(t, p)
    \/ \E p \in Sizes, n \in 1..2 :
          /\ p + n <= MaxSize
          /\ \/ fuse_perform_write(t, p, n)
             \/ \E op \in {"odirect", "dio"} : fuse_direct_write(t, op, p, n)
             \/ \E w, s \in BOOLEAN : fuse_direct_IO(t, w, p, n, s)
    \/ \E n \in Sizes : fuse_setattr(t, n, TRUE)
    \/ fuse_setattr(t, 0, FALSE)

Step(t) ==
    \/ ServeGetattr(t) \/ fuse_change_attributes(t)
    \/ ServeRead(t) \/ fuse_read_update_size(t)
    \/ fuse_fill_write_pages(t) \/ ServeWrite(t) \/ fuse_send_write(t)
    \/ write_end(t) \/ write_resume(t) \/ write_clear(t)
    \/ fuse_do_truncate(t) \/ ServeSetattr(t) \/ fuse_do_setattr(t) \/ setattr_clear(t)
    \/ ServeFallocate(t) \/ fallocate_done(t)
    \/ ServeOpen(t) \/ fuse_finish_open(t)
    \/ fuse_async_req_send(t) \/ aio_submitted(t) \/ aio_check(t) \/ aio_wait(t)

Next ==
    /\ UNCHANGED async_dio
    /\ \/ \E t \in Callers : Call(t) /\ calls < MaxCalls /\ calls' = calls + 1
       \/ \E t \in Callers : Step(t) /\ UNCHANGED calls
       \/ \E j \in 1..2 : (ServeAio(j) \/ fuse_aio_complete_req(j)) /\ UNCHANGED calls

Spec == Init /\ [][Next]_svars

(***************************************************************************)
(* Properties.                                                             *)
(***************************************************************************)
Changing(t) == thr[t].op \notin {"none", "getattr", "read"}

(* No operation that changes the size is under way, attributes are valid   *)
(* and none of the known races happened: i_size is the daemon's size,      *)
(* whatever GETATTR and READ answers are still on their way.               *)
SizeCoherent ==
    valid /\ ~raced /\ aio.st # "live" /\ (\A t \in Callers : ~Changing(t))
        => isize = dsize

(* What the outcomes of the requests of a direct I/O add up to: an error   *)
(* if one failed or a write was short, else the longest prefix that was    *)
(* transferred.                                                            *)
AioResult ==
    LET js == 1..aio.size
    IN  IF aio.failed \/ \E j \in js : aio.out[j] = "err" THEN -1
        ELSE IF \A j \in js : aio.out[j] = "ok" THEN aio.size
        ELSE IF aio.write THEN -1
        ELSE Min({j - 1 : j \in {i \in js : aio.out[i] = "short"}})

(* The submitter still holds a reference: until its own completion, and    *)
(* until it has waited if the call blocks.                                 *)
Holds(t) ==
    /\ thr[t].op = "aio"
    /\ thr[t].st \in {"submit", "submitted"} \/ aio.blocking

(* A direct I/O completes once, after its last request, with the result    *)
(* the requests add up to; its fuse_io_priv is freed when the last holder, *)
(* the submitter or a request, is done with it, and not before.  The read  *)
(* of io->blocking in aio_check is not a holder's: with a call that does   *)
(* not block it may come after the free (file.c:2905).                     *)
AioExact ==
    LET over == aio.fin = 1..aio.size /\ ~\E t \in Callers : Holds(t)
    IN  /\ aio.ret # {} => aio.fin = 1..aio.size /\ aio.ret = {<<0, AioResult>>}
        /\ aio.st = "freed" <=> (aio.st # "none" /\ over)
        /\ aio.st = "freed" => aio.ret # {}

=============================================================================
