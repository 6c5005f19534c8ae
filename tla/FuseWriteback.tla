---------------------------- MODULE FuseWriteback ----------------------------
(***************************************************************************)
(* Writeback of one regular file of a connection with writeback_cache, in  *)
(* old/fuse/file.c, and the truncation of that file in old/fuse/dir.c: how *)
(* dirty pages are copied into WRITE requests, how the requests are queued *)
(* and sent, how a page that is written again while a request carries it   *)
(* gets a secondary request, and how fsync and truncate keep writes off    *)
(* with the bias FUSE_NOWRITE.                                             *)
(*                                                                         *)
(* Offsets and sizes are in pages.  The contents of a page is a version:   *)
(* every store into a page takes the next one, 0 is a hole.  A thread runs *)
(* one operation at a time; fc->lock is a variable because loops keep it   *)
(* over several steps and fuse_send_writepage drops it in the middle.  The *)
(* request queue of dev.c is the sequence pend (module FuseDev has the     *)
(* rest of it); the page cache, the page locks and write_cache_pages are   *)
(* the kernel's, modelled from how this code uses them.                    *)
(***************************************************************************)
EXTENDS Integers, Sequences, FiniteSets, FiniteSetsExt

CONSTANTS
    Threads,       \* threads of the kernel
    Ops,           \* Ops[t]: the operations thread t runs
    Reqs,          \* request objects
    NumPages,      \* pages of the file
    MaxPages,      \* FUSE_MAX_PAGES_PER_REQ (or what max_write allows)
    Sizes,         \* the sizes that truncate sets
    MaxVersion,    \* bound: stores into pages
    None           \* no thread, no request

FUSE_NOWRITE == -2147483647 - 1     \* INT_MIN
Pages == 0 .. NumPages - 1
OpNames == {"flush", "fsync", "reclaim", "write", "mkwrite", "truncate"}

ASSUME FuseWritebackAssumption ==
    /\ IsFiniteSet(Threads) /\ IsFiniteSet(Reqs)
    /\ Threads \cap Reqs = {} /\ None \notin Threads \cup Reqs
    /\ Ops \in [Threads -> SUBSET OpNames]
    /\ NumPages \in Nat \ {0} /\ MaxPages \in Nat \ {0} /\ MaxVersion \in Nat
    /\ Sizes \subseteq 0 .. NumPages
    /\ Cardinality(Reqs) + FUSE_NOWRITE < 0     \* an int counts the requests

VARIABLES
    connected,   \* fc->connected
    fclock,      \* the thread or the ending request that holds fc->lock
    ilock,       \* the thread that holds the inode's i_mutex
    isize,       \* inode->i_size
    mapErr,      \* AS_EIO of the mapping
    cache,       \* cache[p]: the contents of page p
    dirty,       \* the dirty pages
    plock,       \* plock[p]: the thread that holds the lock of page p
    pinned,      \* mapped pages that a direct read is going to fill
    writectr,    \* fi->writectr
    queued,      \* fi->queued_writes
    writepages,  \* fi->writepages; its order is left open
    asleep,      \* threads asleep on fi->page_waitq
    req,         \* req[q]: a request object
    pend,        \* requests the daemon has not read
    server,      \* server[p]: the contents of page p in the daemon's file
    ssize,       \* the size of the daemon's file
    th,          \* th[t]: the registers of thread t
    ver,         \* the last version stored
    snap,        \* history: the contents when the fsync that runs began
    lost,        \* history: lost[p]: the last version of p an error dropped
    raced        \* history: pages copied into a request already read, or
                 \*   into a second request while one was listed

inodeVars == <<connected, ilock, isize, mapErr, snap>>
dataVars  == <<cache, pinned, ver, lost, raced>>
pageVars  == <<dataVars, dirty, plock>>
listVars  == <<writepages, queued, writectr, asleep>>
reqVars   == <<listVars, req, pend, fclock>>
srvVars   == <<server, ssize>>
vars == <<inodeVars, th, pageVars, reqVars, srvVars>>

(* A request: idx is misc.write.in.offset, data its pages (req->pages),    *)
(* size what misc.write.in.size crops them to, chain the requests reached  *)
(* through misc.write.next, wire what the daemon's read copied.            *)
FreeReq == [st |-> "free", idx |-> 0, data |-> <<>>, size |-> 0,
            chain |-> <<>>, wire |-> <<>>]

(* Registers: pages are the ones whose PageWriteback the thread has set    *)
(* (data.orig_pages), req is data.req, cur the next page of a loop, after  *)
(* the step that follows a subroutine.                                     *)
Idle == [op |-> "none", pc |-> "idle", page |-> 0, pages |-> {}, req |-> None,
         isw |-> FALSE, cur |-> 0, after |-> "idle", crop |-> 0,
         old |-> None, err |-> FALSE, size |-> 0]

Init ==
    /\ connected = TRUE /\ fclock = None /\ ilock = None /\ mapErr = FALSE
    /\ isize = NumPages /\ ssize = NumPages
    /\ cache = [p \in Pages |-> 0] /\ server = [p \in Pages |-> 0]
    /\ dirty = {} /\ plock = [p \in Pages |-> None] /\ pinned = {}
    /\ writectr = 0 /\ queued = <<>> /\ writepages = {} /\ asleep = {}
    /\ req = [q \in Reqs |-> FreeReq] /\ pend = <<>>
    /\ th = [t \in Threads |-> Idle]
    /\ ver = 0 /\ snap = [p \in Pages |-> 0] /\ raced = {}
    /\ lost = [p \in Pages |-> 0]

-----------------------------------------------------------------------------
(* Requests and pages *)

At(t, op, pc) == th[t].pc = pc /\ th[t].op \in op
Goto(t, pc) == th' = [th EXCEPT ![t].pc = pc]
FcLock(h) == fclock \in {None, h}       \* h holds fc->lock or can take it

Num(q) == Len(req[q].data)
Span(q) == req[q].idx .. req[q].idx + Num(q) - 1
Pending(q) == req[q].st \in {"new", "chained", "queued", "pending"}  \* FR_PENDING

(* fuse_page_is_writeback, fuse_range_is_writeback *)
fuse_page_is_writeback(p) == \E q \in writepages : p \in Span(q)

(* PageWriteback, between set_page_writeback and end_page_writeback *)
PageWriteback(p) == \E t \in Threads : p \in th[t].pages

(* the page is tagged dirty: one that is cleaned for I/O stays so, locked, *)
(* until set_page_writeback                                                *)
DirtyTag(p) ==
    \/ p \in dirty
    \/ \E t \in Threads :
          /\ plock[p] = t /\ th[t].page = p
          /\ \/ th[t].pc \in {"fill", "alloc", "writepage"}
             \/ th[t].pc \in {"send", "flush"} /\ th[t].after = "alloc"

(* mutant of fuse_send_writepage: no crop to the size of the file *)
send_uncropped(r, w, q, size, h) ==
    IF connected
    THEN /\ req' = [r EXCEPT ![q].st = "pending", ![q].size = Len(r[q].data)]
         /\ writectr' = writectr + 1 /\ pend' = Append(pend, q)
         /\ writepages' = w /\ fclock' = h /\ UNCHANGED asleep
    ELSE /\ req' = [r EXCEPT ![q] = FreeReq]
         /\ writepages' = w \ {q} /\ asleep' = {} /\ fclock' = None
         /\ UNCHANGED <<writectr, pend>>

(* fuse_send_writepage with fuse_writepage_finish and fuse_writepage_free: *)
(* send request q, or drop it and fc->lock for a moment                    *)
fuse_send_writepage(r, w, q, size, h) ==
    IF connected /\ r[q].idx < size
    THEN /\ req' = [r EXCEPT ![q].st = "pending",
                             ![q].size = Min({Len(r[q].data), size - r[q].idx})]
         /\ writectr' = writectr + 1 /\ pend' = Append(pend, q)
         /\ writepages' = w /\ fclock' = h /\ UNCHANGED asleep
    ELSE /\ req' = [r EXCEPT ![q] = FreeReq]
         /\ writepages' = w \ {q} /\ asleep' = {} /\ fclock' = None
         /\ UNCHANGED <<writectr, pend>>

(* one round of the loop of fuse_flush_writepages, or its end, where the   *)
(* caller unlocks fc->lock and calls end_page_writeback                    *)
fuse_flush_writepages(t) ==
    /\ th[t].pc = "flush" /\ FcLock(t)
    /\ IF writectr >= 0 /\ queued # <<>>
       THEN /\ queued' = Tail(queued)
            /\ fuse_send_writepage(req, writepages, Head(queued), th[t].crop, t)
            /\ UNCHANGED th
       ELSE /\ fclock' = None
            /\ th' = [th EXCEPT ![t].pc = th[t].after, ![t].pages = {}, ![t].crop = 0,
                                ![t].after = "idle"]
            /\ UNCHANGED <<listVars, req, pend>>
    /\ UNCHANGED <<inodeVars, pageVars, srvVars>>

-----------------------------------------------------------------------------
(* fuse_writepages, run by the flusher and by fsync *)

(* the flusher begins; fsync begins: fuse_fsync_common, under i_mutex *)
flush_begin(t) ==
    /\ th[t].pc = "idle" /\ "flush" \in Ops[t] /\ dirty # {}
    /\ th' = [th EXCEPT ![t].op = "flush", ![t].pc = "scan"]
    /\ UNCHANGED <<inodeVars, pageVars, reqVars, srvVars>>

fsync_begin(t) ==
    /\ th[t].pc = "idle" /\ "fsync" \in Ops[t] /\ ilock = None
    /\ ilock' = t /\ snap' = cache
    /\ th' = [th EXCEPT ![t].op = "fsync", ![t].pc = "scan"]
    /\ UNCHANGED <<connected, isize, mapErr, pageVars, reqVars, srvVars>>

(* write_cache_pages: the next dirty page, locked.  A page under           *)
(* PageWriteback is waited for by fsync and skipped by the flusher.        *)
write_cache_pages(t) ==
    /\ th[t].pc = "scan"
    /\ LET tagged == {p \in Pages : p >= th[t].cur /\ DirtyTag(p)}
           p == Min(tagged)
       IN IF tagged = {}
          THEN Goto(t, "scanned") /\ UNCHANGED <<dirty, plock>>
          ELSE /\ plock[p] = None
               /\ th[t].op = "fsync" => ~PageWriteback(p)
               /\ IF PageWriteback(p)
                  THEN /\ th' = [th EXCEPT ![t].cur = p + 1]
                       /\ UNCHANGED <<dirty, plock>>
                  ELSE /\ plock' = [plock EXCEPT ![p] = t] /\ dirty' = dirty \ {p}
                       /\ th' = [th EXCEPT ![t].pc = "fill", ![t].page = p]
    /\ UNCHANGED <<inodeVars, dataVars, reqVars, srvVars>>

(* fuse_writepages_fill: is the page under writeback, and does it end the  *)
(* request that is being filled?                                           *)
fill_check(t) ==
    /\ th[t].pc = "fill" /\ FcLock(t)
    /\ LET p == th[t].page
           isw == fuse_page_is_writeback(p)
           full == /\ th[t].req # None
                   /\ isw \/ Num(th[t].req) = MaxPages \/ Max(th[t].pages) + 1 # p
       IN th' = [th EXCEPT ![t].isw = isw,
                           ![t].after = IF full THEN "alloc" ELSE "idle",
                           ![t].pc = IF full THEN "send" ELSE "alloc"]
    /\ UNCHANGED <<inodeVars, pageVars, reqVars, srvVars>>

(* history: an error drops what the cache has of the page *)
Lose(p) == lost' = [lost EXCEPT ![p] = cache[p]]

(* an allocation fails, or no file is open for writing: the page stays     *)
(* clean and the scan ends                                                 *)
fill_fails(t) ==
    /\ th[t].pc = "alloc"
    /\ Lose(th[t].page)
    /\ plock' = [plock EXCEPT ![th[t].page] = None]
    /\ th' = [th EXCEPT ![t].pc = "scanned", ![t].page = 0, ![t].isw = FALSE,
                        ![t].err = TRUE]
    /\ UNCHANGED <<inodeVars, cache, pinned, ver, raced, dirty, reqVars,
                   srvVars>>

(* a request to fill, new if there is none, and set_page_writeback *)
fill_alloc(t) ==
    /\ th[t].pc = "alloc" /\ FcLock(t)
    /\ LET next == [th EXCEPT ![t].pc = IF th[t].isw THEN "inflight" ELSE "count",
                              ![t].pages = @ \cup {th[t].page}]
       IN IF th[t].req # None
          THEN th' = next /\ UNCHANGED <<writepages, req>>
          ELSE \E q \in {x \in Reqs : req[x].st = "free"} :
                  /\ req' = [req EXCEPT ![q].st = "new", ![q].idx = th[t].page]
                  /\ writepages' = writepages \cup {q}
                  /\ th' = [next EXCEPT ![t].req = q]
    /\ UNCHANGED <<inodeVars, pageVars, queued, writectr, asleep, pend, fclock,
                   srvVars>>

(* the copy of the page joins the request; the page is unlocked *)
fill_count(t) ==
    /\ th[t].pc = "count" /\ FcLock(t)
    /\ LET p == th[t].page
       IN /\ req' = [req EXCEPT ![th[t].req].data = Append(@, cache[p])]
          /\ plock' = [plock EXCEPT ![p] = None]
          /\ th' = [th EXCEPT ![t].pc = "scan", ![t].cur = p + 1, ![t].page = 0,
                              ![t].isw = FALSE]
    /\ UNCHANGED <<inodeVars, dataVars, dirty, listVars, pend, fclock, srvVars>>

(* the end of fuse_writepages_fill when a request in flight took the page *)
filled(t) ==
    /\ plock' = [plock EXCEPT ![th[t].page] = None]
    /\ th' = [th EXCEPT ![t].pc = "scan", ![t].cur = th[t].page + 1, ![t].page = 0,
                        ![t].pages = {}, ![t].req = None, ![t].isw = FALSE,
                        ![t].old = None]

(* the request whose pages or whose secondary requests hold page p: the    *)
(* last one-page request for p, else the listed request itself             *)
Carrier(q, p) ==
    LET list == <<q>> \o req[q].chain
        same == {i \in 1 .. Len(list) : Num(list[i]) = 1 /\ req[list[i]].idx = p}
    IN IF same = {} THEN 1 ELSE Max(same)

(* fuse_writepage_in_flight: the new request is set aside; if a listed one *)
(* has the page, a one-page request that is still pending gets the new     *)
(* contents (fc->lock is kept), any other gets the new one chained to it   *)
fuse_writepage_in_flight(t) ==
    /\ th[t].pc = "inflight" /\ FcLock(t)
    /\ LET p == th[t].page
           new == th[t].req
           holders == {q \in writepages \ {new} : p \in Span(q)}
       IN \/ /\ holders = {} /\ Goto(t, "count")
             /\ UNCHANGED <<plock, writepages, req, fclock>>
          \/ \E q \in holders :
                LET i == Carrier(q, p)
                    list == <<q>> \o req[q].chain
                IN /\ writepages' = writepages \ {new}
                   /\ IF Num(list[i]) = 1 /\ Pending(list[i])
                      THEN /\ th' = [th EXCEPT ![t].pc = "inplace", ![t].old = list[i]]
                           /\ fclock' = t /\ UNCHANGED <<plock, req>>
                      ELSE /\ req' = [req EXCEPT
                                 ![new].st = "chained", ![new].data = <<cache[p]>>,
                                 ![q].chain = SubSeq(@, 1, i - 1) \o <<new>>
                                                 \o SubSeq(@, i, Len(@))]
                           /\ filled(t) /\ UNCHANGED fclock
    /\ UNCHANGED <<inodeVars, dataVars, dirty, queued, writectr, asleep, pend,
                   srvVars>>

(* copy_highpage into the pending request and the end of the new one.  The *)
(* daemon may have taken the request since: it reads under another lock    *)
inplace_copy(t) ==
    /\ th[t].pc = "inplace"
    /\ LET p == th[t].page
       IN /\ req' = [req EXCEPT ![th[t].old].data = <<cache[p]>>,
                                ![th[t].req] = FreeReq]
          /\ raced' = IF Pending(th[t].old) THEN raced ELSE raced \cup {p}
    /\ fclock' = None /\ filled(t)
    /\ UNCHANGED <<inodeVars, cache, pinned, ver, lost, dirty, listVars, pend,
                   srvVars>>

(* fuse_writepages_send *)
fuse_writepages_send(t) ==
    /\ th[t].pc = "send" /\ FcLock(t)
    /\ LET q == th[t].req
       IN /\ queued' = Append(queued, q)
          /\ req' = [req EXCEPT ![q].st = "queued"]
    /\ fclock' = t
    /\ th' = [th EXCEPT ![t].pc = "flush", ![t].crop = isize, ![t].req = None]
    /\ UNCHANGED <<inodeVars, pageVars, writepages, writectr, asleep, pend,
                   srvVars>>

(* fuse_writepages after the scan: the last request is sent, and then      *)
(* errors are ignored                                                      *)
writepages_last(t) ==
    /\ th[t].pc = "scanned"
    /\ IF th[t].req # None
       THEN th' = [th EXCEPT ![t].pc = "send", ![t].after = "written",
                             ![t].err = FALSE, ![t].cur = 0]
       ELSE th' = [th EXCEPT ![t].pc = "written", ![t].cur = 0]
    /\ UNCHANGED <<inodeVars, pageVars, reqVars, srvVars>>

flush_end(t) ==
    /\ At(t, {"flush"}, "written")
    /\ th' = [th EXCEPT ![t] = Idle]
    /\ UNCHANGED <<inodeVars, pageVars, reqVars, srvVars>>

-----------------------------------------------------------------------------
(* One page: fuse_writepage, fuse_writepage_locked *)

(* reclaim calls ->writepage with a page it has locked and cleaned *)
reclaim_begin(t, p) ==
    /\ th[t].pc = "idle" /\ "reclaim" \in Ops[t]
    /\ p \in dirty /\ plock[p] = None /\ ~PageWriteback(p)
    /\ plock' = [plock EXCEPT ![p] = t] /\ dirty' = dirty \ {p}
    /\ th' = [th EXCEPT ![t].op = "reclaim", ![t].pc = "writepage", ![t].page = p]
    /\ UNCHANGED <<inodeVars, dataVars, reqVars, srvVars>>

(* fuse_writepage: a page in flight is dirty again and is not unlocked *)
fuse_writepage(t) ==
    /\ th[t].pc = "writepage" /\ FcLock(t)
    /\ LET p == th[t].page
       IN IF fuse_page_is_writeback(p)
          THEN /\ dirty' = dirty \cup {p}
               /\ th' = [th EXCEPT ![t] = Idle]
          ELSE /\ th' = [th EXCEPT ![t].pc = "locked", ![t].pages = {p},
                                   ![t].after = "reclaimed"]
               /\ UNCHANGED dirty
    /\ UNCHANGED <<inodeVars, dataVars, plock, reqVars, srvVars>>

(* fuse_writepage_locked without memory, or without a file *)
writepage_fails(t) ==
    /\ th[t].pc = "locked"
    /\ Lose(th[t].page)
    /\ th' = [th EXCEPT ![t].pc = th[t].after, ![t].after = "idle",
                        ![t].pages = {}, ![t].err = TRUE]
    /\ UNCHANGED <<inodeVars, cache, pinned, ver, raced, dirty, plock, reqVars,
                   srvVars>>

(* fuse_writepage_locked: a request of one page *)
fuse_writepage_locked(t) ==
    /\ th[t].pc = "locked" /\ FcLock(t)
    /\ \E q \in {x \in Reqs : req[x].st = "free"} :
          /\ req' = [req EXCEPT ![q].st = "queued", ![q].idx = th[t].page,
                                ![q].data = <<cache[th[t].page]>>]
          /\ writepages' = writepages \cup {q}
          /\ queued' = Append(queued, q)
    /\ raced' = IF fuse_page_is_writeback(th[t].page) THEN raced \cup {th[t].page}
                                                      ELSE raced
    /\ fclock' = t
    /\ th' = [th EXCEPT ![t].pc = "flush", ![t].crop = isize]
    /\ UNCHANGED <<inodeVars, cache, pinned, ver, lost, dirty, plock, writectr,
                   asleep, pend, srvVars>>

reclaim_end(t) ==
    /\ At(t, {"reclaim"}, "reclaimed")
    /\ plock' = [plock EXCEPT ![th[t].page] = None]
    /\ th' = [th EXCEPT ![t] = Idle]
    /\ UNCHANGED <<inodeVars, dataVars, dirty, reqVars, srvVars>>

-----------------------------------------------------------------------------
(* Waiting on fi->page_waitq *)

(* fuse_wait_on_page_writeback: look, and sleep or go on *)
fuse_wait_on_page_writeback(t) ==
    /\ th[t].pc = "waitpage" /\ t \notin asleep /\ FcLock(t)
    /\ IF fuse_page_is_writeback(th[t].page)
       THEN asleep' = asleep \cup {t} /\ UNCHANGED th
       ELSE /\ th' = [th EXCEPT ![t].pc = th[t].after, ![t].after = "idle"]
            /\ UNCHANGED asleep
    /\ UNCHANGED <<inodeVars, pageVars, writepages, queued, writectr, req, pend,
                   fclock, srvVars>>

(* mutant of fuse_set_nowrite: sent writes are not waited for *)
set_nowrite_unwaited(t) ==
    /\ th[t].pc = "nowrite" /\ FcLock(t)
    /\ writectr' = writectr + FUSE_NOWRITE /\ Goto(t, "section")
    /\ UNCHANGED <<inodeVars, pageVars, writepages, queued, asleep, req, pend,
                   fclock, srvVars>>

(* fuse_set_nowrite: the bias, and the wait for the writes that were sent *)
fuse_set_nowrite(t) ==
    /\ th[t].pc = "nowrite" /\ FcLock(t)
    /\ writectr' = writectr + FUSE_NOWRITE /\ Goto(t, "waitwrites")
    /\ UNCHANGED <<inodeVars, pageVars, writepages, queued, asleep, req, pend,
                   fclock, srvVars>>

set_nowrite_wait(t) ==
    /\ th[t].pc = "waitwrites" /\ t \notin asleep
    /\ IF writectr # FUSE_NOWRITE
       THEN asleep' = asleep \cup {t} /\ UNCHANGED th
       ELSE Goto(t, "section") /\ UNCHANGED asleep
    /\ UNCHANGED <<inodeVars, pageVars, writepages, queued, writectr, req, pend,
                   fclock, srvVars>>

(* __fuse_release_nowrite for a file of the given size *)
fuse_release_nowrite(t, size, after) ==
    /\ FcLock(t)
    /\ writectr' = 0 /\ fclock' = t
    /\ th' = [th EXCEPT ![t].pc = "flush", ![t].crop = size, ![t].after = after]
    /\ UNCHANGED <<writepages, queued, asleep, req, pend>>

-----------------------------------------------------------------------------
(* fsync, after fuse_writepages *)

fsync_return(t) ==
    /\ th' = [th EXCEPT ![t] = Idle] /\ ilock' = None
    /\ snap' = [p \in Pages |-> 0]

(* mutant of fsync_wait: PageWriteback is not waited for *)
fsync_hasty(t) ==
    /\ At(t, {"fsync"}, "written")
    /\ mapErr' = FALSE
    /\ IF th[t].err \/ mapErr
       THEN fsync_return(t)
       ELSE Goto(t, "nowrite") /\ UNCHANGED <<ilock, snap>>
    /\ UNCHANGED <<connected, isize, pageVars, reqVars, srvVars>>

(* filemap_write_and_wait_range returns, with an error or without *)
fsync_wait(t) ==
    /\ At(t, {"fsync"}, "written") /\ \A p \in Pages : ~PageWriteback(p)
    /\ mapErr' = FALSE
    /\ IF th[t].err \/ mapErr
       THEN fsync_return(t)
       ELSE Goto(t, "nowrite") /\ UNCHANGED <<ilock, snap>>
    /\ UNCHANGED <<connected, isize, pageVars, reqVars, srvVars>>

(* fuse_sync_writes, fuse_release_nowrite *)
fsync_release(t) ==
    /\ At(t, {"fsync"}, "section")
    /\ fuse_release_nowrite(t, isize, "synced")
    /\ UNCHANGED <<inodeVars, pageVars, srvVars>>

(* filemap_check_errors *)
fsync_check(t) ==
    /\ At(t, {"fsync"}, "synced")
    /\ mapErr' = FALSE
    /\ IF mapErr THEN fsync_return(t)
                 ELSE Goto(t, "durable") /\ UNCHANGED <<ilock, snap>>
    /\ UNCHANGED <<connected, isize, pageVars, reqVars, srvVars>>

(* the FSYNC request would be sent here; fsync returns *)
fsync_end(t) ==
    /\ At(t, {"fsync"}, "durable") /\ fsync_return(t)
    /\ UNCHANGED <<connected, isize, mapErr, pageVars, reqVars, srvVars>>

-----------------------------------------------------------------------------
(* Stores into pages *)

(* the next version of page p is in the cache and the page is dirty *)
Store(p) ==
    /\ ver < MaxVersion
    /\ ver' = ver + 1 /\ cache' = [cache EXCEPT ![p] = ver + 1]
    /\ dirty' = dirty \cup {p}

(* write(2) begins under i_mutex; a store through a mapping begins with a  *)
(* fault on a page of the file                                             *)
write_begin(t, p) ==
    /\ th[t].pc = "idle" /\ ver < MaxVersion
    /\ \/ /\ "write" \in Ops[t] /\ ilock = None /\ ilock' = t
          /\ th' = [th EXCEPT ![t].op = "write", ![t].pc = "lock", ![t].page = p]
       \/ /\ "mkwrite" \in Ops[t] /\ p < isize /\ UNCHANGED ilock
          /\ th' = [th EXCEPT ![t].op = "mkwrite", ![t].pc = "lock", ![t].page = p]
    /\ UNCHANGED <<connected, isize, mapErr, snap, pageVars, reqVars, srvVars>>

(* fuse_write_begin and fuse_page_mkwrite lock the page; for the latter it *)
(* may be gone                                                             *)
write_lock(t) ==
    /\ th[t].pc = "lock" /\ plock[th[t].page] = None
    /\ IF th[t].op = "mkwrite" /\ th[t].page >= isize
       THEN th' = [th EXCEPT ![t] = Idle] /\ UNCHANGED plock
       ELSE /\ plock' = [plock EXCEPT ![th[t].page] = t]
            /\ th' = [th EXCEPT ![t].pc = "waitpage", ![t].after = "store"]
    /\ UNCHANGED <<inodeVars, dataVars, dirty, reqVars, srvVars>>

(* fuse_write_end, with fuse_write_update_size; nothing may be copied *)
fuse_write_end(t) ==
    /\ At(t, {"write"}, "store") /\ FcLock(t)
    /\ \/ Store(th[t].page) /\ isize' = Max({isize, th[t].page + 1})
       \/ UNCHANGED <<isize, cache, ver, dirty>>
    /\ plock' = [plock EXCEPT ![th[t].page] = None]
    /\ th' = [th EXCEPT ![t] = Idle] /\ ilock' = None
    /\ UNCHANGED <<connected, mapErr, snap, pinned, lost, raced, reqVars,
                   srvVars>>

(* after fuse_page_mkwrite: the page is stored into, or it is pinned for a *)
(* direct read that stores into it                                         *)
mkwrite_end(t) ==
    /\ At(t, {"mkwrite"}, "store")
    /\ Store(th[t].page)
    /\ pinned' \in {pinned, pinned \cup {th[t].page}}
    /\ plock' = [plock EXCEPT ![th[t].page] = None]
    /\ th' = [th EXCEPT ![t] = Idle]
    /\ UNCHANGED <<inodeVars, lost, raced, reqVars, srvVars>>

(* fuse_release_user_pages: the direct read has filled the page, which is  *)
(* marked dirty under the page lock; nothing waits for its writeback       *)
fuse_release_user_pages(p) ==
    /\ p \in pinned /\ plock[p] = None
    /\ Store(p) /\ pinned' = pinned \ {p}
    /\ UNCHANGED <<inodeVars, th, lost, raced, plock, reqVars, srvVars>>

-----------------------------------------------------------------------------
(* fuse_do_setattr with a size *)

setattr_begin(t, size) ==
    /\ th[t].pc = "idle" /\ "truncate" \in Ops[t] /\ ilock = None
    /\ ilock' = t
    /\ th' = [th EXCEPT ![t].op = "truncate", ![t].pc = "nowrite", ![t].size = size]
    /\ UNCHANGED <<connected, isize, mapErr, snap, pageVars, reqVars, srvVars>>

(* the daemon truncates its file; or SETATTR fails and                     *)
(* fuse_release_nowrite lets writes through again                          *)
setattr_request(t) ==
    /\ At(t, {"truncate"}, "section")
    /\ \/ /\ connected
          /\ ssize' = th[t].size
          /\ server' = [p \in Pages |-> IF p >= th[t].size THEN 0 ELSE server[p]]
          /\ Goto(t, "replied") /\ UNCHANGED reqVars
       \/ fuse_release_nowrite(t, isize, "unlock") /\ UNCHANGED srvVars
    /\ UNCHANGED <<inodeVars, pageVars>>

(* the new size, and __fuse_release_nowrite under the same lock *)
setattr_apply(t) ==
    /\ At(t, {"truncate"}, "replied")
    /\ isize' = th[t].size
    /\ fuse_release_nowrite(t, th[t].size,
                            IF isize = th[t].size THEN "unlock" ELSE "truncate")
    /\ UNCHANGED <<connected, ilock, mapErr, snap, pageVars, srvVars>>

(* truncate_pagecache, page by page; a page under PageWriteback is waited  *)
(* for                                                                     *)
truncate_pagecache(t) ==
    /\ th[t].pc = "truncate"
    /\ LET p == Max({th[t].cur, th[t].size})
       IN IF p \notin Pages
          THEN /\ th' = [th EXCEPT ![t].pc = "invalidate", ![t].cur = 0]
               /\ UNCHANGED pageVars
          ELSE /\ plock[p] = None /\ ~PageWriteback(p)
               /\ cache' = [cache EXCEPT ![p] = 0] /\ dirty' = dirty \ {p}
               /\ pinned' = pinned \ {p} /\ lost' = [lost EXCEPT ![p] = 0]
               /\ th' = [th EXCEPT ![t].cur = p + 1]
               /\ UNCHANGED <<ver, raced, plock>>
    /\ UNCHANGED <<inodeVars, reqVars, srvVars>>

(* invalidate_inode_pages2, page by page: a dirty page is laundered, a     *)
(* clean one leaves the cache and loses its pins                           *)
invalidate_inode_pages2(t) ==
    /\ th[t].pc = "invalidate"
    /\ LET p == th[t].cur
       IN \/ p \notin Pages /\ Goto(t, "unlock") /\ UNCHANGED pageVars
          \/ /\ p \in Pages /\ plock[p] = None /\ ~PageWriteback(p)
             /\ IF p \in dirty
                THEN /\ plock' = [plock EXCEPT ![p] = t] /\ dirty' = dirty \ {p}
                     /\ th' = [th EXCEPT ![t].pc = "locked", ![t].page = p,
                                  ![t].pages = {p}, ![t].after = "launder"]
                     /\ UNCHANGED pinned
                ELSE /\ pinned' = pinned \ {p}
                     /\ th' = [th EXCEPT ![t].cur = p + 1]
                     /\ UNCHANGED <<dirty, plock>>
             /\ UNCHANGED <<cache, ver, lost, raced>>
    /\ UNCHANGED <<inodeVars, reqVars, srvVars>>

(* fuse_launder_page after fuse_writepage_locked: wait for the write, or   *)
(* fail and leave the page in the cache                                    *)
fuse_launder_page(t) ==
    /\ th[t].pc = "launder"
    /\ IF th[t].err
       THEN /\ plock' = [plock EXCEPT ![th[t].page] = None]
            /\ th' = [th EXCEPT ![t].pc = "invalidate", ![t].cur = th[t].page + 1,
                                ![t].page = 0, ![t].err = FALSE]
       ELSE /\ th' = [th EXCEPT ![t].pc = "waitpage", ![t].after = "laundered"]
            /\ UNCHANGED plock
    /\ UNCHANGED <<inodeVars, dataVars, dirty, reqVars, srvVars>>

(* the laundered page leaves the cache *)
laundered(t) ==
    /\ th[t].pc = "laundered"
    /\ pinned' = pinned \ {th[t].page}
    /\ plock' = [plock EXCEPT ![th[t].page] = None]
    /\ th' = [th EXCEPT ![t].pc = "invalidate", ![t].cur = th[t].page + 1,
                        ![t].page = 0]
    /\ UNCHANGED <<inodeVars, cache, ver, lost, raced, dirty, reqVars, srvVars>>

setattr_end(t) ==
    /\ th[t].pc = "unlock"
    /\ ilock' = None /\ th' = [th EXCEPT ![t] = Idle]
    /\ UNCHANGED <<connected, isize, mapErr, snap, pageVars, reqVars, srvVars>>

-----------------------------------------------------------------------------
(* The daemon, and the end of a request *)

(* fuse_dev_do_read: FR_PENDING is cleared under fiq->waitq.lock ... *)
dev_read(q) ==
    /\ pend # <<>> /\ q = Head(pend) /\ connected
    /\ pend' = Tail(pend)
    /\ req' = [req EXCEPT ![q].st = "read"]
    /\ UNCHANGED <<inodeVars, th, pageVars, listVars, fclock, srvVars>>

(* ... and the pages are copied to the daemon without a lock *)
dev_copy(q) ==
    /\ req[q].st = "read"
    /\ req' = [req EXCEPT ![q].st = "copied",
                          ![q].wire = SubSeq(req[q].data, 1, req[q].size)]
    /\ UNCHANGED <<inodeVars, th, pageVars, listVars, pend, fclock, srvVars>>

(* the daemon has written what it read, and request_end calls req->end *)
dev_reply(q) ==
    /\ req[q].st = "copied" /\ connected
    /\ LET i == req[q].idx
           n == req[q].size
       IN /\ server' = [p \in Pages |-> IF p \in i .. i + n - 1
                                        THEN req[q].wire[p - i + 1] ELSE server[p]]
          /\ ssize' = Max({ssize, i + n})
    /\ req' = [req EXCEPT ![q].st = "ending", ![q].wire = <<>>]
    /\ UNCHANGED <<inodeVars, th, pageVars, listVars, pend, fclock>>

(* the read or the write fails, or an abort ends the request: the error of *)
(* the reply is set on the mapping                                         *)
dev_error(q) ==
    /\ \/ req[q].st \in {"read", "copied"} /\ UNCHANGED pend
       \/ /\ req[q].st = "pending" /\ ~connected
          /\ pend' = SelectSeq(pend, LAMBDA x : x # q)
    /\ mapErr' = TRUE
    /\ lost' = [p \in Pages |-> IF p \in Span(q)
                  THEN Max({lost[p], req[q].data[p - req[q].idx + 1]}) ELSE lost[p]]
    /\ req' = [req EXCEPT ![q].st = "ending", ![q].wire = <<>>]
    /\ UNCHANGED <<connected, ilock, isize, snap, th, cache, pinned, ver, raced,
                   dirty, plock, listVars, fclock, srvVars>>

(* fuse_writepage_end: one round of its loop, a secondary request that is  *)
(* listed and sent, whatever the bias of writectr                          *)
writepage_end_next(q) ==
    /\ req[q].st = "ending" /\ FcLock(q) /\ req[q].chain # <<>>
    /\ LET next == Head(req[q].chain)
       IN fuse_send_writepage([req EXCEPT ![q].chain = Tail(@)],
             writepages \cup {next}, next, req[q].idx + req[q].size, q)
    /\ UNCHANGED <<inodeVars, th, pageVars, queued, srvVars>>

(* mutant of writepage_end_count: counted down before the secondary ones *)
end_count_early(q) ==
    /\ req[q].st = "ending" /\ FcLock(q)
    /\ writectr' = writectr - 1 /\ fclock' = q
    /\ req' = [req EXCEPT ![q].st = "finishing"]
    /\ UNCHANGED <<inodeVars, th, pageVars, writepages, queued, asleep, pend,
                   srvVars>>

(* fuse_writepage_end after its loop *)
writepage_end_count(q) ==
    /\ req[q].st = "ending" /\ FcLock(q) /\ req[q].chain = <<>>
    /\ writectr' = writectr - 1 /\ fclock' = q
    /\ req' = [req EXCEPT ![q].st = "finishing"]
    /\ UNCHANGED <<inodeVars, th, pageVars, writepages, queued, asleep, pend,
                   srvVars>>

(* mutant of fuse_writepage_finish: no wake-up *)
finish_silently(q) ==
    /\ req[q].st = "finishing"
    /\ writepages' = writepages \ {q} /\ fclock' = None
    /\ req' = [req EXCEPT ![q] = FreeReq]
    /\ UNCHANGED <<inodeVars, th, pageVars, queued, writectr, asleep, pend,
                   srvVars>>

(* fuse_writepage_finish, fuse_writepage_free *)
fuse_writepage_finish(q) ==
    /\ req[q].st = "finishing"
    /\ writepages' = writepages \ {q} /\ asleep' = {} /\ fclock' = None
    /\ req' = [req EXCEPT ![q] = FreeReq]
    /\ UNCHANGED <<inodeVars, th, pageVars, queued, writectr, pend, srvVars>>

(* fuse_abort_conn *)
abort_conn ==
    /\ connected /\ fclock = None
    /\ connected' = FALSE
    /\ UNCHANGED <<ilock, isize, mapErr, snap, th, pageVars, reqVars, srvVars>>

-----------------------------------------------------------------------------
Start(t) ==
    \/ flush_begin(t) \/ fsync_begin(t)
    \/ \E p \in Pages : reclaim_begin(t, p) \/ write_begin(t, p)
    \/ \E s \in Sizes : setattr_begin(t, s)

Step(t) ==
    \/ fuse_flush_writepages(t) \/ write_cache_pages(t)
    \/ fill_check(t) \/ fill_fails(t) \/ fill_alloc(t) \/ fill_count(t)
    \/ fuse_writepage_in_flight(t) \/ inplace_copy(t)
    \/ fuse_writepages_send(t) \/ writepages_last(t) \/ flush_end(t)
    \/ fuse_writepage(t) \/ writepage_fails(t) \/ fuse_writepage_locked(t)
    \/ reclaim_end(t) \/ fuse_wait_on_page_writeback(t)
    \/ fuse_set_nowrite(t) \/ set_nowrite_wait(t)
    \/ fsync_wait(t) \/ fsync_release(t) \/ fsync_check(t) \/ fsync_end(t)
    \/ write_lock(t) \/ fuse_write_end(t) \/ mkwrite_end(t)
    \/ setattr_request(t) \/ setattr_apply(t) \/ truncate_pagecache(t)
    \/ invalidate_inode_pages2(t) \/ fuse_launder_page(t) \/ laundered(t)
    \/ setattr_end(t)

Serve(q) ==
    \/ dev_read(q) \/ dev_copy(q) \/ dev_reply(q) \/ dev_error(q)
    \/ writepage_end_next(q) \/ writepage_end_count(q) \/ fuse_writepage_finish(q)

Next ==
    \/ \E t \in Threads : Start(t) \/ Step(t)
    \/ \E q \in Reqs : Serve(q)
    \/ \E p \in Pages : fuse_release_user_pages(p)
    \/ abort_conn

Spec == Init /\ [][Next]_vars

-----------------------------------------------------------------------------
(* Properties *)

Sent == {q \in Reqs : req[q].st \in {"pending", "read", "copied", "ending"}}
InSection(t) == th[t].pc \in {"section", "replied"}
Biased == \E t \in Threads : th[t].pc = "waitwrites" \/ InSection(t)

(* fi->writectr counts the writes that were sent and did not end, and it   *)
(* has the bias exactly while a truncate or an fsync keeps writes off.  So *)
(* no write is in flight from the return of fuse_set_nowrite to            *)
(* fuse_release_nowrite (the third case of the comment in                  *)
(* fuse_writepage_end), and the BUG_ONs of the two never fire              *)
WritectrExact ==
    /\ writectr = Cardinality(Sent) + (IF Biased THEN FUSE_NOWRITE ELSE 0)
    /\ \A t \in Threads : th[t].pc = "nowrite" => writectr >= 0
    /\ \A t \in Threads : InSection(t) => writectr = FUSE_NOWRITE

(* a write never makes the daemon's file longer than the file is, or is    *)
(* about to be when a truncate that the daemon has done is applied         *)
TruncateHolds ==
    \/ ssize <= isize
    \/ \E t \in Threads : At(t, {"truncate"}, "replied") /\ ssize <= th[t].size

(* a page that is clean and that no request and no thread has in its hands *)
(* is in the daemon's file, unless an error dropped it: a store, however   *)
(* often it is repeated while older ones are in flight, is not forgotten   *)
(* (not looked at while the daemon has truncated and the inode has not)    *)
Carried(p) ==
    \/ plock[p] # None
    \/ \E q \in writepages :
          \/ p \in Span(q)
          \/ \E i \in 1 .. Len(req[q].chain) : p \in Span(req[q].chain[i])
DataReachesServer ==
    connected /\ (\A t \in Threads : th[t].pc # "replied") => \A p \in Pages :
        p < isize /\ p \notin dirty \cup raced /\ ~Carried(p)
           => server[p] = cache[p] \/ (cache[p] # 0 /\ lost[p] = cache[p])

(* when fsync returns without an error, the daemon's file has what was in  *)
(* the cache when fsync began, or a later store                            *)
FsyncDurable ==
    \A t \in Threads : th[t].pc = "durable" /\ connected =>
        \A p \in Pages : p < isize /\ p \notin raced /\ lost[p] < snap[p]
                            => server[p] >= snap[p]

(* a thread asleep on fi->page_waitq waits for something that has not      *)
(* happened: fuse_writepage_finish wakes it when the write it waits for is *)
(* off the list, and after fi->writectr was counted down                   *)
NoLostWakeup ==
    fclock = None => \A t \in asleep :
        \/ th[t].pc = "waitpage" /\ fuse_page_is_writeback(th[t].page)
        \/ th[t].pc = "waitwrites" /\ writectr # FUSE_NOWRITE

=============================================================================
