------------------------------ MODULE FuseDir ------------------------------
(***************************************************************************)
(* Directory operations and attributes of FUSE: old/fuse/dir.c and the     *)
(* inode cache of old/fuse/inode.c.  Threads call the operations of one    *)
(* directory; each sends one request to the daemon, sleeps, and applies    *)
(* the reply to the dentry and inode caches, which other operations have   *)
(* changed meanwhile.  The daemon counts, for every node, how often its    *)
(* replies named the node; the kernel counts the same in fi->nlookup and   *)
(* gives the count back with FORGET when it evicts the inode.              *)
(*                                                                         *)
(* Data is abstracted to what the replies are compared by.                 *)
(*   - Versions.  fc->attr_version only grows and an operation reads it    *)
(*     when it starts, so fi->attr_version > attr_version holds exactly if *)
(*     the inode was updated since: rq[t].newer is the set of those nodes. *)
(*   - Attributes.  A copy of a node's attributes is fresh or not:         *)
(*     rq[t].old is the set of nodes changed since t's reply was made.     *)
(*     inode[n].attr is "expired" (i_time has passed), or valid and        *)
(*     "fresh", "undone" (older than a change by setattr, link or unlink)  *)
(*     or "late" (older, and from a reply to a request that was sent       *)
(*     before the node's previous inode was evicted).                      *)
(*   - Timeouts.  LOOKUP_REVAL revalidates a dentry whose time has not    *)
(*     passed, and fuse_permission refreshes attributes whose time has not *)
(*     passed, so the times guard nothing: a hashed dentry counts as valid *)
(*     and attributes expire only where the code makes them.               *)
(* A reply may be malformed: it names a node with a file type that is none *)
(* or is not the one asked for.  Several error labels then discard the     *)
(* lookup that the reply counts without a FORGET; lost[n] counts them.     *)
(* Left out: a reply that changes the type of a node whose inode is cached *)
(* (make_bad_inode); it discards no lookup, for the bad inode gives its    *)
(* count back when it is evicted and fuse_iget counts the reply in a new   *)
(* inode.                                                                  *)
(* The VFS (i_rwsem of the directory and the inodes, d_alloc_parallel, the *)
(* reference counts) is external.  Nodes are not directories with aliases, *)
(* so d_splice_alias does not fail.                                        *)
(***************************************************************************)
EXTENDS Naturals, Sequences, FiniteSets

CONSTANTS
    Names,      \* the names in the directory
    Nodes,      \* node ids of the daemon
    Threads,    \* threads that call the operations
    Ops,        \* the operations they call
    None,       \* no node, no name
    MaxOps,     \* bound: operations, the daemon's changes included
    MaxFail     \* bound: failed allocations and malformed replies

(* Errors and the states of a dentry are none of the daemon's node ids.    *)
ASSUME FuseDirAssumption ==
    /\ IsFiniteSet(Names) /\ IsFiniteSet(Threads)
    /\ None \notin Names \cup Nodes
    /\ Nodes \cap {"absent", "negative", "ok", "ENOENT", "EIO", "EINTR",
                   "ENOSYS"} = {}
    /\ Ops \subseteq {"lookup", "revalidate", "getattr", "access", "setattr",
                     "create", "mknod", "link", "unlink", "rmdir", "rename",
                     "exchange", "readdirplus", "get_dentry", "notify"}

VARIABLES
    dirent,     \* the daemon's directory: Names -> Nodes or None
    known,      \* the daemon's lookup count of every node
    pend,       \* names the daemon changed and has not yet invalidated
    raced,      \* names a RENAME gave a dentry while pend held the source
    dcache,     \* dentries: "absent", "negative" or the node
    inode,      \* the inode cache
    forgets,    \* fiq->forget_list: node and count
    lost,       \* history: lookups discarded without a FORGET, of every node
    rq,         \* the operation every thread is in
    enosys,     \* fc->no_create, no_rename2, no_access
    fails,      \* failed allocations and malformed replies so far
    ops         \* operations so far

vars == <<dirent, known, pend, raced, dcache, inode, forgets, lost, rq,
          enosys, fails, ops>>

(* The operations that hold the directory's lock.                          *)
Shared == {"lookup", "readdirplus"}
Exclusive == {"create", "mknod", "link", "unlink", "rmdir", "rename",
              "exchange"}
(* The operations that read fc->attr_version when they start.              *)
Versioned == {"lookup", "revalidate", "getattr", "readdirplus", "get_dentry"}
(* The operations that lock the inodes they change.                        *)
Locking == {"setattr", "link", "unlink", "rmdir", "rename", "exchange"}

(* x and y: the dentries in use (None once unhashed), q: the name in the   *)
(* request, n and m: the nodes of x (or the operation's target) and of y.  *)
Idle == [op |-> "idle", st |-> "idle", x |-> None, y |-> None, q |-> None,
         n |-> None, m |-> None, out |-> None, newer |-> {}, gone |-> {},
         old |-> {}, todo |-> {}]
NoInode == [present |-> FALSE, nlookup |-> 0, attr |-> "expired"]

(* A mounted file system, with the entries in Warm looked up once.         *)
Init ==
    /\ dirent \in [Names -> Nodes \cup {None}]
    /\ \E Warm \in SUBSET {x \in Names : dirent[x] # None} :
         LET Found(n) == Cardinality({x \in Warm : dirent[x] = n})
         IN  /\ known = [n \in Nodes |-> Found(n)]
             /\ dcache = [x \in Names |-> IF x \in Warm THEN dirent[x]
                                                       ELSE "absent"]
             /\ inode = [n \in Nodes |->
                    IF Found(n) = 0 THEN NoInode
                    ELSE [present |-> TRUE, nlookup |-> Found(n),
                          attr |-> "fresh"]]
    /\ pend = {}
    /\ raced = {}
    /\ forgets = <<>>
    /\ lost = [n \in Nodes |-> 0]
    /\ rq = [t \in Threads |-> Idle]
    /\ enosys = {}
    /\ fails = 0
    /\ ops = 0

Busy(t) == rq[t].st # "idle"
InOps(t, S) == Busy(t) /\ rq[t].op \in S

(* inode_lock(dir), shared or exclusive, and inode_lock of the victims.    *)
CanShare == \A u \in Threads : ~InOps(u, Exclusive)
CanExclude == \A u \in Threads : ~InOps(u, Exclusive \cup Shared)
CanLock(n) == \A u \in Threads : ~(InOps(u, Locking) /\ n \in {rq[u].n, rq[u].m})

(* d_alloc_parallel: a second lookup of the name waits for the first.      *)
InLookup(x) == \E u \in Threads : InOps(u, {"lookup"}) /\ rq[u].x = x

(***************************************************************************)
(* Starting an operation: t takes its locks, reads fc->attr_version        *)
(* (newer is empty) and sends its request.                                 *)
(***************************************************************************)
Operation == ops < MaxOps /\ ops' = ops + 1
Send(t, op, x, y, n) ==
    /\ op \in Ops
    /\ ~Busy(t)
    /\ Operation
    /\ rq' = [rq EXCEPT ![t] = [Idle EXCEPT !.op = op, !.st = "sent",
                          !.x = x, !.q = x, !.y = y, !.n = n,
                          !.m = IF y = None THEN None ELSE dcache[y]]]
    /\ UNCHANGED <<dirent, known, pend, raced, dcache, inode, forgets, lost,
                   enosys, fails>>

fuse_lookup(t, x) ==
    /\ dcache[x] = "absent"
    /\ CanShare
    /\ ~InLookup(x)
    /\ Send(t, "lookup", x, None, None)

(* Only a positive dentry sends a request.                                 *)
fuse_dentry_revalidate(t, x) ==
    /\ dcache[x] \in Nodes
    /\ Send(t, "revalidate", x, None, dcache[x])

(* For a negative dentry the VFS drops it and redoes the lookup.           *)
revalidate_negative(x) ==
    /\ dcache[x] = "negative"
    /\ dcache' = [dcache EXCEPT ![x] = "absent"]
    /\ UNCHANGED <<dirent, known, pend, raced, inode, forgets, lost, rq,
                   enosys, fails, ops>>

(* Called by fuse_update_attributes when i_time has passed, and by         *)
(* fuse_permission also when permission was denied with valid attributes.  *)
fuse_do_getattr(t, x) ==
    /\ dcache[x] \in Nodes
    /\ Send(t, "getattr", None, None, dcache[x])

fuse_access(t, x) ==
    /\ dcache[x] \in Nodes
    /\ "access" \notin enosys
    /\ Send(t, "access", None, None, dcache[x])

fuse_do_setattr(t, x) ==
    /\ dcache[x] \in Nodes
    /\ CanLock(dcache[x])
    /\ Send(t, "setattr", None, None, dcache[x])

(* open(O_CREAT) of a negative dentry: CREATE, or MKNOD if the daemon has  *)
(* no CREATE.  mkdir and symlink go through create_new_entry like mknod.   *)
fuse_atomic_open(t, x) ==
    /\ dcache[x] = "negative"
    /\ CanExclude
    /\ Send(t, IF "create" \in enosys THEN "mknod" ELSE "create",
            x, None, None)

fuse_mknod(t, x) ==
    /\ dcache[x] = "negative"
    /\ CanExclude
    /\ Send(t, "mknod", x, None, None)

fuse_link(t, x, y) ==
    /\ dcache[x] \in Nodes
    /\ dcache[y] = "negative"
    /\ CanExclude
    /\ CanLock(dcache[x])
    /\ Send(t, "link", None, y, dcache[x])

fuse_remove(t, x, op) ==
    /\ op \in {"unlink", "rmdir"}
    /\ dcache[x] \in Nodes
    /\ CanExclude
    /\ CanLock(dcache[x])
    /\ Send(t, op, x, None, dcache[x])

(* rename(2), and renameat2(2) with RENAME_EXCHANGE.                       *)
fuse_rename2(t, x, y, op) ==
    /\ op \in {"rename", "exchange"}
    /\ x # y
    /\ dcache[x] \in Nodes
    /\ IF op = "exchange" THEN dcache[y] \in Nodes /\ "rename2" \notin enosys
                          ELSE dcache[y] # "absent"
    /\ CanExclude
    /\ CanLock(dcache[x])
    /\ CanLock(dcache[y])
    /\ Send(t, op, x, y, dcache[x])

fuse_readdir(t) ==
    /\ CanShare
    /\ Send(t, "readdirplus", None, None, None)

(* A file handle of an exported file system whose inode is not cached: the *)
(* daemon is asked for the node by its number.                             *)
fuse_get_dentry(t, n) ==
    /\ ~inode[n].present
    /\ Send(t, "get_dentry", None, None, n)

(***************************************************************************)
(* The daemon (external).  It handles a request in one step, may refuse it *)
(* with an error, and changes its own directory, after which it invalidates *)
(* the entry.                                                              *)
(***************************************************************************)
Reply(t, out, todo) ==
    [rq EXCEPT ![t].st = "done", ![t].out = out, ![t].todo = todo]

(* Node n's attributes change: every other copy is out of date.            *)
ReplyChanged(t, out, n) ==
    [u \in Threads |->
        IF u = t THEN [rq[t] EXCEPT !.st = "done", !.out = out]
        ELSE IF rq[u].st \in {"done", "linking"} /\ rq[u].op \in Versioned
             THEN [rq[u] EXCEPT !.old = @ \cup {n}] ELSE rq[u]]
Outdate(n) == [inode EXCEPT ![n].attr = IF @ = "fresh" THEN "undone" ELSE @]

Count(S, n) == Cardinality({e \in S : e[2] = n})
Learn(S) == [n \in Nodes |-> known[n] + Count(S, n)]
Entries == {<<x, dirent[x]>> : x \in {z \in Names : dirent[z] # None}}
Unused(n) == known[n] = 0 /\ \A z \in Names : dirent[z] # n
NoAttrChange(t, out, todo) == rq' = Reply(t, out, todo) /\ UNCHANGED inode

ServeLookup(t) ==
    LET n == dirent[rq[t].q]
    IN  /\ rq[t].op \in {"lookup", "revalidate"}
        /\ IF n = None
           THEN NoAttrChange(t, "ENOENT", {}) /\ UNCHANGED known
           ELSE /\ known' = Learn({<<rq[t].q, n>>})
                /\ NoAttrChange(t, n, {})
        /\ UNCHANGED dirent

ServeGetDentry(t) ==
    /\ rq[t].op = "get_dentry"
    /\ IF Unused(rq[t].n)
       THEN NoAttrChange(t, "ENOENT", {}) /\ UNCHANGED known
       ELSE /\ known' = Learn({<<".", rq[t].n>>})
            /\ NoAttrChange(t, rq[t].n, {})
    /\ UNCHANGED dirent

ServeReaddir(t) ==
    /\ rq[t].op = "readdirplus"
    /\ known' = Learn(Entries)
    /\ NoAttrChange(t, "ok", Entries)
    /\ UNCHANGED dirent

ServeAttr(t) ==
    /\ \/ rq[t].op \in {"getattr", "access"} /\ NoAttrChange(t, "ok", {})
       \/ rq[t].op = "setattr" /\ rq' = ReplyChanged(t, "ok", rq[t].n)
                               /\ inode' = Outdate(rq[t].n)
    /\ UNCHANGED <<dirent, known>>

ServeCreate(t) ==
    /\ rq[t].op \in {"create", "mknod"}
    /\ dirent[rq[t].x] = None
    /\ \E n \in Nodes : /\ Unused(n)
                        /\ dirent' = [dirent EXCEPT ![rq[t].x] = n]
                        /\ known' = Learn({<<rq[t].x, n>>})
                        /\ NoAttrChange(t, n, {})

ServeLink(t) ==
    LET n == rq[t].n
    IN  /\ rq[t].op = "link"
        /\ dirent[rq[t].y] = None
        /\ dirent' = [dirent EXCEPT ![rq[t].y] = n]
        /\ known' = Learn({<<rq[t].y, n>>})
        /\ rq' = ReplyChanged(t, n, n)
        /\ inode' = Outdate(n)

ServeRemove(t) ==
    LET x == rq[t].x
    IN  /\ rq[t].op \in {"unlink", "rmdir"}
        /\ dirent[x] # None
        /\ dirent' = [dirent EXCEPT ![x] = None]
        /\ \/ /\ rq[t].op = "unlink"
              /\ dirent[x] = rq[t].n
              /\ rq' = ReplyChanged(t, "ok", rq[t].n)
              /\ inode' = Outdate(rq[t].n)
           \/ /\ rq[t].op = "rmdir" \/ dirent[x] # rq[t].n
              /\ NoAttrChange(t, "ok", {})
           \/ NoAttrChange(t, "EINTR", {})
        /\ UNCHANGED known

(* The kernel will move its dentry of x to y (and of y to x).  When the    *)
(* daemon has changed x and the kernel does not know, y gets a dentry that *)
(* the notification for x will not find.                                   *)
ServeRename(t) ==
    LET x == rq[t].x
        y == rq[t].y
        swap == rq[t].op = "exchange"
        Wrong(z) == z \in pend \cup raced
    IN  /\ rq[t].op \in {"rename", "exchange"}
        /\ dirent[x] # None
        /\ dirent' = [dirent EXCEPT ![y] = dirent[x],
                                    ![x] = IF swap THEN dirent[y] ELSE None]
        /\ raced' = (raced \ {x, y}) \cup {z \in {x, y} :
                        IF z = y THEN Wrong(x) ELSE swap /\ Wrong(y)}
        /\ \E out \in {"ok", "EINTR"} : NoAttrChange(t, out, {})
        /\ UNCHANGED known

(* An error: the request was not performed.                                *)
ServeError(t) ==
    /\ \/ NoAttrChange(t, "EIO", {})
       \/ rq[t].op \in Locking /\ NoAttrChange(t, "EINTR", {})
       \/ rq[t].op \in {"create", "exchange", "access"}
          /\ NoAttrChange(t, "ENOSYS", {})
    /\ UNCHANGED <<dirent, known>>

Serve(t) ==
    /\ rq[t].st = "sent"
    /\ \/ /\ \/ ServeLookup(t) \/ ServeGetDentry(t) \/ ServeReaddir(t)
             \/ ServeAttr(t) \/ ServeCreate(t) \/ ServeLink(t)
             \/ ServeRemove(t) \/ ServeError(t)
          /\ UNCHANGED raced
       \/ ServeRename(t)
    /\ UNCHANGED <<pend, dcache, forgets, lost, enosys, fails, ops>>

DaemonChange(x) ==
    /\ "notify" \in Ops
    /\ Operation
    /\ \E n \in Nodes \cup {None} : /\ dirent[x] # n
                                    /\ dirent' = [dirent EXCEPT ![x] = n]
    /\ pend' = pend \cup {x}
    /\ UNCHANGED <<known, raced, dcache, inode, forgets, lost, rq, enosys,
                   fails>>

ReadForget ==
    /\ forgets # <<>>
    /\ known' = [known EXCEPT ![Head(forgets).n] = @ - Head(forgets).k]
    /\ forgets' = Tail(forgets)
    /\ UNCHANGED <<dirent, pend, raced, dcache, inode, lost, rq, enosys,
                   fails, ops>>

(***************************************************************************)
(* Applying a reply.                                                       *)
(***************************************************************************)
fuse_queue_forget(n, k) == forgets' = Append(forgets, [n |-> n, k |-> k])

(* fi->attr_version = ++fc->attr_version, seen by the operations in flight. *)
Bump(r, n) == [u \in Threads |->
    IF r[u].op \notin Versioned THEN r[u] ELSE [r[u] EXCEPT !.newer = @ \cup {n}]]

(* The inode was updated after the operation read its attribute version;   *)
(* check says whether it read one.                                         *)
StaleReply_ignored(t, n, check) == FALSE
StaleReply(t, n, check) == check /\ n \in rq[t].newer

(* fi->i_time = 0: the attributes are asked for before they are used.      *)
fuse_invalidate_attr(n) == inode' = [inode EXCEPT ![n].attr = "expired"]

(* The inode cache after a reply of t with attributes of n.                *)
fuse_change_attributes(t, n, i, check) ==
    IF StaleReply(t, n, check) THEN i
    ELSE [i EXCEPT !.attr = IF n \notin rq[t].old THEN "fresh"
                            ELSE IF n \in rq[t].gone THEN "late" ELSE "undone"]

(* The same reply also bumps the version, and r is what becomes of t.      *)
Apply(t, n, count, check, r) ==
    LET i == [inode[n] EXCEPT !.present = TRUE, !.nlookup = @ + count]
        s == [rq EXCEPT ![t] = r]
    IN  /\ inode' = [inode EXCEPT ![n] = fuse_change_attributes(t, n, i, check)]
        /\ rq' = IF StaleReply(t, n, check) THEN s ELSE Bump(s, n)

(* fuse_iget: finds or makes the inode and counts the lookup.  Only a new  *)
(* inode needs memory; when there is none the caller gives the count back. *)
fuse_iget(t, n, check, r) == Apply(t, n, 1, check, r)
Failure == fails < MaxFail /\ fails' = fails + 1
give_back(t, n, r) ==
    /\ Failure
    /\ fuse_queue_forget(n, 1)
    /\ rq' = [rq EXCEPT ![t] = r]
    /\ UNCHANGED <<inode, lost>>
iget_fails(t, n, r) == ~inode[n].present /\ give_back(t, n, r)

(* The error labels for a malformed reply free the forget structure and    *)
(* do not send it: the daemon keeps a count that the kernel never returns. *)
out_put_forget(t, n) ==
    /\ Failure
    /\ lost' = [lost EXCEPT ![n] = @ + 1]
    /\ rq' = [rq EXCEPT ![t] = Idle]
    /\ UNCHANGED <<inode, dcache, forgets>>

(* The dentry that was called x leaves the hash table or is moved: the     *)
(* threads that use it go on with the new name, or with none.              *)
Follow(r, f) == [u \in Threads |->
    IF r[u].op \in {"revalidate"} /\ r[u].x \in DOMAIN f
    THEN [r[u] EXCEPT !.x = f[r[u].x]] ELSE r[u]]
Unhashed(S) == [z \in S |-> None]
UsedByOther(t, x) == \E u \in Threads \ {t} : InOps(u, {"revalidate"})
                                              /\ rq[u].x = x

(* An operation gives its dentry a node, if it has not been unhashed.      *)
Instantiate(x, d) == IF dcache[x] = "absent" THEN dcache
                                             ELSE [dcache EXCEPT ![x] = d]
Quiet == UNCHANGED <<dirent, known, pend, raced, ops>>

lookup_done(t) ==
    LET x == rq[t].x  n == rq[t].out
    IN  /\ rq[t].op = "lookup"
        /\ \/ /\ n \in Nodes
              /\ fuse_iget(t, n, TRUE, Idle)
              /\ dcache' = [dcache EXCEPT ![x] = n]
              /\ UNCHANGED <<forgets, lost, fails>>
           \/ n \in Nodes /\ iget_fails(t, n, Idle) /\ UNCHANGED dcache
           \/ n \in Nodes /\ out_put_forget(t, n)
           \/ /\ n = "ENOENT"
              /\ dcache' = [dcache EXCEPT ![x] = "negative"]
              /\ rq' = [rq EXCEPT ![t] = Idle]
              /\ UNCHANGED <<inode, forgets, lost, fails>>
           \/ /\ n \notin Nodes \cup {"ENOENT"}
              /\ rq' = [rq EXCEPT ![t] = Idle]
              /\ UNCHANGED <<inode, dcache, forgets, lost, fails>>
        /\ UNCHANGED enosys

(* The reply counts for the node it names, not for the dentry's node.      *)
forget_other(n, mine) == fuse_queue_forget(n, 1)

(* The same node: count the lookup and refresh.  Anything else: count it   *)
(* when only the file type is wrong, give the count of another node back,  *)
(* and let the VFS drop the dentry.                                        *)
revalidate_done(t) ==
    LET x == rq[t].x  n == rq[t].out
    IN  /\ rq[t].op = "revalidate"
        /\ \/ /\ n = rq[t].n
              /\ Apply(t, n, 1, TRUE, Idle)
              /\ UNCHANGED <<dcache, forgets, fails>>
           \/ /\ \/ /\ n = rq[t].n
                    /\ Failure
                    /\ inode' = [inode EXCEPT ![n].nlookup = @ + 1]
                    /\ UNCHANGED forgets
                 \/ /\ n # rq[t].n
                    /\ IF n \in Nodes THEN forget_other(n, rq[t].n)
                                      ELSE UNCHANGED forgets
                    /\ UNCHANGED <<inode, fails>>
              /\ dcache' = IF x = None THEN dcache
                                       ELSE [dcache EXCEPT ![x] = "absent"]
              /\ rq' = Follow([rq EXCEPT ![t] = Idle], Unhashed({x}))
        /\ UNCHANGED <<lost, enosys>>

getattr_done(t) ==
    /\ rq[t].op = "getattr"
    /\ IF rq[t].out = "ok" THEN Apply(t, rq[t].n, 0, TRUE, Idle)
                           ELSE rq' = [rq EXCEPT ![t] = Idle] /\ UNCHANGED inode
    /\ UNCHANGED <<dcache, forgets, lost, enosys, fails>>

access_done(t) ==
    /\ rq[t].op = "access"
    /\ enosys' = enosys \cup (IF rq[t].out = "ENOSYS" THEN {"access"} ELSE {})
    /\ rq' = [rq EXCEPT ![t] = Idle]
    /\ UNCHANGED <<inode, dcache, forgets, lost, fails>>

setattr_done(t) ==
    LET n == rq[t].n
    IN  /\ rq[t].op = "setattr"
        /\ \/ rq[t].out = "ok" /\ Apply(t, n, 0, FALSE, Idle)
           \/ /\ rq[t].out # "ok"
              /\ IF rq[t].out = "EINTR" THEN fuse_invalidate_attr(n)
                                        ELSE UNCHANGED inode
              /\ rq' = [rq EXCEPT ![t] = Idle]
        /\ UNCHANGED <<dcache, forgets, lost, enosys, fails>>

(* A new node for the name x: no version is checked.                       *)
NewEntry(t, x, n) ==
    \/ /\ n \in Nodes
       /\ fuse_iget(t, n, FALSE, Idle)
       /\ dcache' = Instantiate(x, n)
       /\ UNCHANGED <<forgets, lost, fails>>
    \/ n \in Nodes /\ iget_fails(t, n, Idle) /\ UNCHANGED dcache
    \/ n \in Nodes /\ out_put_forget(t, n)
    \/ /\ n \notin Nodes
       /\ rq' = [rq EXCEPT ![t] = Idle]
       /\ UNCHANGED <<inode, dcache, forgets, lost, fails>>

(* A daemon without CREATE is asked again with MKNOD.                      *)
fuse_create_open(t) ==
    LET x == rq[t].x
    IN  /\ rq[t].op = "create"
        /\ \/ /\ rq[t].out # "ENOSYS"
              /\ NewEntry(t, x, rq[t].out)
              /\ UNCHANGED enosys
           \/ /\ rq[t].out = "ENOSYS"
              /\ enosys' = enosys \cup {"create"}
              /\ rq' = [rq EXCEPT ![t] = [Idle EXCEPT !.op = "mknod",
                                !.st = "sent", !.x = x, !.q = x]]
              /\ UNCHANGED <<inode, dcache, forgets, lost, fails>>

create_new_entry(t) ==
    /\ rq[t].op = "mknod"
    /\ NewEntry(t, rq[t].x, rq[t].out)
    /\ UNCHANGED enosys

(* create_new_entry and then, on success, the link count changes: the      *)
(* version is bumped and the attributes are marked stale.  After EIO for a *)
(* malformed reply they are not, whatever the daemon did.                  *)
link_done(t) ==
    LET y == rq[t].y  n == rq[t].n
    IN  /\ rq[t].op = "link"
        /\ \/ /\ rq[t].out = n
              /\ inode' = [inode EXCEPT ![n].nlookup = @ + 1,
                                        ![n].attr = "expired"]
              /\ rq' = Bump([rq EXCEPT ![t] = Idle], n)
              /\ dcache' = Instantiate(y, n)
              /\ UNCHANGED <<forgets, lost, fails>>
           \/ rq[t].out = n /\ out_put_forget(t, n)
           \/ /\ rq[t].out # n
              /\ IF rq[t].out = "EINTR" THEN fuse_invalidate_attr(n)
                                        ELSE UNCHANGED inode
              /\ rq' = [rq EXCEPT ![t] = Idle]
              /\ UNCHANGED <<dcache, forgets, lost, fails>>
        /\ UNCHANGED enosys

(* fuse_unlink bumps the version, fuse_rmdir does not.  The VFS then makes *)
(* the dentry negative, or unhashes it if it is in use; after EINTR it is  *)
(* unhashed because nobody knows what happened.                            *)
remove_done(t) ==
    LET x == rq[t].x
        n == rq[t].n
        r == [rq EXCEPT ![t] = Idle]
    IN  /\ rq[t].op \in {"unlink", "rmdir"}
        /\ \/ /\ rq[t].out = "ok"
              /\ IF rq[t].op = "unlink"
                 THEN /\ fuse_invalidate_attr(n)
                      /\ rq' = Follow(Bump(r, n), Unhashed({x}))
                 ELSE rq' = Follow(r, Unhashed({x})) /\ UNCHANGED inode
              /\ dcache' = Instantiate(x, IF UsedByOther(t, x) THEN "absent"
                                                              ELSE "negative")
           \/ /\ rq[t].out = "EINTR"
              /\ dcache' = [dcache EXCEPT ![x] = "absent"]
              /\ rq' = Follow(r, Unhashed({x}))
              /\ UNCHANGED <<inode>>
           \/ /\ rq[t].out \notin {"ok", "EINTR"}
              /\ rq' = r
              /\ UNCHANGED <<inode, dcache>>
        /\ UNCHANGED <<forgets, lost, enosys, fails>>

(* Success: the attributes of the renamed and the replaced node are marked *)
(* stale and the VFS moves or exchanges the dentries.                      *)
rename_done(t) ==
    LET x == rq[t].x
        y == rq[t].y
        r == [rq EXCEPT ![t] = Idle]
        swap == rq[t].op = "exchange"
    IN  /\ rq[t].op \in {"rename", "exchange"}
        /\ \/ /\ rq[t].out = "ok"
              /\ inode' = [n \in Nodes |->
                    IF n \in {rq[t].n, rq[t].m}
                    THEN [inode[n] EXCEPT !.attr = "expired"] ELSE inode[n]]
              /\ dcache' = [dcache EXCEPT ![y] = rq[t].n,
                              ![x] = IF swap THEN rq[t].m ELSE "absent"]
              /\ rq' = Follow(r, [z \in {x, y} |-> IF z = x THEN y
                                            ELSE IF swap THEN x ELSE None])
              /\ UNCHANGED enosys
           \/ /\ rq[t].out = "EINTR"
              /\ dcache' = [dcache EXCEPT ![x] = "absent",
                              ![y] = IF @ \in Nodes THEN "absent" ELSE @]
              /\ rq' = Follow(r, Unhashed({x, y}))
              /\ UNCHANGED <<inode, enosys>>
           \/ /\ rq[t].out \notin {"ok", "EINTR"}
              /\ enosys' = enosys \cup
                    (IF swap /\ rq[t].out = "ENOSYS" THEN {"rename2"} ELSE {})
              /\ rq' = r
              /\ UNCHANGED <<inode, dcache>>
        /\ UNCHANGED <<forgets, lost, fails>>

(* The nodes of a file handle: the dentry made for it is anonymous.        *)
get_dentry_done(t) ==
    LET n == rq[t].out
    IN  /\ rq[t].op = "get_dentry"
        /\ \/ /\ n \in Nodes
              /\ fuse_iget(t, n, TRUE, Idle)
              /\ UNCHANGED <<dcache, forgets, lost, fails>>
           \/ n \in Nodes /\ iget_fails(t, n, Idle) /\ UNCHANGED dcache
           \/ n \in Nodes /\ out_put_forget(t, n)
           \/ /\ n \notin Nodes
              /\ rq' = [rq EXCEPT ![t] = Idle]
              /\ UNCHANGED <<inode, dcache, forgets, lost, fails>>
        /\ UNCHANGED enosys

(* parse_dirplusfile links every entry of the reply, the ones that do not  *)
(* fit into the caller's buffer too; an entry that cannot be linked is     *)
(* forgotten at once.                                                      *)
readdir_done_over(t) ==
    /\ rq[t].op = "readdirplus"
    /\ rq' = [rq EXCEPT ![t] = IF Cardinality(rq[t].todo) # 1 THEN Idle
                               ELSE [@ EXCEPT !.st = "linking"]]
    /\ UNCHANGED <<inode, dcache, forgets, lost, enosys, fails>>
readdir_done(t) ==
    /\ rq[t].op = "readdirplus"
    /\ rq' = [rq EXCEPT ![t] = IF rq[t].todo = {} THEN Idle
                               ELSE [@ EXCEPT !.st = "linking"]]
    /\ UNCHANGED <<inode, dcache, forgets, lost, enosys, fails>>

fuse_direntplus_link(t) ==
    \E e \in rq[t].todo :
        LET x == e[1]
            n == e[2]
            rest == rq[t].todo \ {e}
            r == IF rest = {} THEN Idle ELSE [rq[t] EXCEPT !.todo = rest]
        IN  /\ rq[t].st = "linking"
            /\ ~InLookup(x)
            /\ \/ /\ Apply(t, n, 1, TRUE, r)
                  /\ dcache' = [dcache EXCEPT ![x] = n]
                  /\ UNCHANGED <<forgets, lost, fails>>
               \/ give_back(t, n, r) /\ UNCHANGED dcache
               \/ /\ dcache[x] # n
                  /\ iget_fails(t, n, r)
                  /\ dcache' = [dcache EXCEPT ![x] = "absent"]
            /\ Quiet
            /\ UNCHANGED enosys

(* A malformed name ends the loop: the entry and those after it in the     *)
(* reply are neither linked nor forgotten.                                 *)
parse_dirplusfile_eio(t) ==
    /\ rq[t].st = "linking"
    /\ Failure
    /\ lost' = [n \in Nodes |-> lost[n] + Count(rq[t].todo, n)]
    /\ rq' = [rq EXCEPT ![t] = Idle]
    /\ Quiet
    /\ UNCHANGED <<inode, dcache, forgets, enosys>>

Finish(t) ==
    /\ rq[t].st = "done"
    /\ \/ lookup_done(t) \/ revalidate_done(t) \/ getattr_done(t)
       \/ access_done(t) \/ setattr_done(t) \/ fuse_create_open(t)
       \/ create_new_entry(t)
       \/ link_done(t) \/ remove_done(t) \/ rename_done(t)
       \/ get_dentry_done(t) \/ readdir_done(t)
    /\ Quiet

(***************************************************************************)
(* The caches shrink and the daemon invalidates entries.                   *)
(***************************************************************************)
(* A dentry nobody uses is dropped.                                        *)
ShrinkDentry(x) ==
    /\ dcache[x] # "absent"
    /\ \A u \in Threads : Busy(u) => x \notin {rq[u].x, rq[u].y}
    /\ dcache' = [dcache EXCEPT ![x] = "absent"]
    /\ UNCHANGED <<dirent, known, pend, raced, inode, forgets, lost, rq,
                   enosys, fails, ops>>

(* The last reference is gone: the whole count goes back to the daemon.    *)
Referenced(n) ==
    \/ \E x \in Names : dcache[x] = n
    \/ \E u \in Threads : Busy(u) /\ n \in {rq[u].n, rq[u].m}
                         /\ rq[u].op # "get_dentry"
fuse_evict_inode(n) ==
    /\ inode[n].present
    /\ ~Referenced(n)
    /\ fuse_queue_forget(n, inode[n].nlookup)
    /\ inode' = [inode EXCEPT ![n] = NoInode]
    /\ rq' = [u \in Threads |-> IF rq[u].op \in Versioned
                THEN [rq[u] EXCEPT !.newer = @ \ {n}, !.gone = @ \cup {n}]
                ELSE rq[u]]
    /\ UNCHANGED <<dirent, known, pend, raced, dcache, lost, enosys, fails,
                   ops>>

(* NOTIFY_INVAL_ENTRY and NOTIFY_DELETE: under the directory's lock the    *)
(* dentry is expired and unhashed.                                         *)
reverse_inval_unlocked(x) ==
    /\ x \in pend
    /\ dcache' = [dcache EXCEPT ![x] = "absent"]
    /\ rq' = Follow(rq, Unhashed({x}))
    /\ pend' = pend \ {x}
    /\ raced' = raced \ {x}
    /\ UNCHANGED <<dirent, known, inode, forgets, lost, enosys, fails, ops>>
fuse_reverse_inval_entry(x) ==
    /\ x \in pend
    /\ CanExclude
    /\ dcache' = [dcache EXCEPT ![x] = "absent"]
    /\ rq' = Follow(rq, Unhashed({x}))
    /\ pend' = pend \ {x}
    /\ raced' = raced \ {x}
    /\ UNCHANGED <<dirent, known, inode, forgets, lost, enosys, fails, ops>>

Start(t) ==
    \/ \E x \in Names :
         \/ fuse_lookup(t, x) \/ fuse_dentry_revalidate(t, x)
         \/ fuse_do_getattr(t, x) \/ fuse_access(t, x) \/ fuse_do_setattr(t, x)
         \/ fuse_atomic_open(t, x) \/ fuse_mknod(t, x)
         \/ \E op \in {"unlink", "rmdir"} : fuse_remove(t, x, op)
         \/ \E y \in Names :
              \/ fuse_link(t, x, y)
              \/ \E op \in {"rename", "exchange"} : fuse_rename2(t, x, y, op)
    \/ fuse_readdir(t)
    \/ \E n \in Nodes : fuse_get_dentry(t, n)

Next ==
    \/ \E t \in Threads :
         \/ Start(t) \/ Serve(t) \/ Finish(t)
         \/ fuse_direntplus_link(t) \/ parse_dirplusfile_eio(t)
    \/ \E x \in Names : \/ revalidate_negative(x) \/ ShrinkDentry(x)
                        \/ fuse_reverse_inval_entry(x)
                        \/ DaemonChange(x)
    \/ \E n \in Nodes : fuse_evict_inode(n)
    \/ ReadForget

Spec == Init /\ [][Next]_vars

(***************************************************************************)
(* Properties.                                                             *)
(***************************************************************************)

(* Replies that name n and that the kernel has not counted yet.            *)
InReply(n) ==
    Cardinality({t \in Threads : rq[t].st = "done" /\ rq[t].out = n})
    + Cardinality({p \in Threads \X (Names \X Nodes) :
                     p[2] \in rq[p[1]].todo /\ p[2][2] = n})

(* What the FORGETs of the list s give back for n.                         *)
Share(f, n) == IF f.n = n THEN f.k ELSE 0
Owed(s, n) ==
    LET sum[i \in 0..Len(s)] == IF i = 0 THEN 0 ELSE sum[i - 1] + Share(s[i], n)
    IN  sum[Len(s)]
Forgotten(n) == Owed(forgets, n)

(* For every node the daemon's count is exactly what the kernel still owes *)
(* it: fi->nlookup, the FORGETs on their way and the replies on theirs     *)
(* (fuse_iget, fuse_queue_forget, fuse_force_forget), and what the error   *)
(* labels for malformed replies lost (fuse_lookup_name, fuse_create_open,  *)
(* create_new_entry, parse_dirplusfile): no other path loses a count, and  *)
(* none gives back a count twice.                                          *)
LookupExact ==
    \A n \in Nodes :
        known[n] = inode[n].nlookup + Forgotten(n) + InReply(n) + lost[n]

(* A request names a node only while the daemon still knows the node, so   *)
(* no FORGET overtakes the use of a node (fuse_evict_inode).               *)
NodeKnown ==
    \A t \in Threads : (Busy(t) /\ rq[t].n \in Nodes /\ rq[t].op # "get_dentry")
                       => known[rq[t].n] > 0

(* nlookup and FORGET: but for the lookups in lost, the daemon's count of  *)
(* a node reaches zero when the kernel has dropped it, and no request of   *)
(* the kernel names it afterwards.                                         *)
LookupBalanced == LookupExact /\ NodeKnown

(* An operation that changed n has its reply and has not applied it.       *)
Changing(n) == \E t \in Threads :
    rq[t].st = "done" /\ rq[t].n = n /\ rq[t].op \in {"setattr", "link", "unlink"}

(* A reply to GETATTR or LOOKUP never undoes a change that setattr, link   *)
(* or unlink reported as done: valid attributes are up to date, unless the *)
(* changing operation is still applying its own reply, or the inode was    *)
(* made by a reply sent before the previous inode of the node was evicted, *)
(* or a reply for the node was malformed (fuse_link then reports EIO and   *)
(* does not mark the attributes stale although the daemon made the link).  *)
AttrNotUndone ==
    \A n \in Nodes :
        inode[n].attr = "undone" => Changing(n) \/ lost[n] > 0

(* A dentry that is used without asking the daemon names the node that the *)
(* daemon has there, unless a directory operation or an invalidation for   *)
(* that name is on its way (fuse_reverse_inval_entry takes the directory's *)
(* lock, fuse_dentry_revalidate takes none).  Names in raced are left out: *)
(* d_move gave them the dentry of a name that the daemon had changed       *)
(* before it served the rename, and no notification drops that one.        *)
EntryCoherent ==
    \A x \in Names \ (pend \cup raced) :
        dcache[x] \in Nodes
        => \/ dirent[x] = dcache[x]
           \/ \E t \in Threads : /\ rq[t].st = "done"
                                 /\ rq[t].op \in Exclusive
                                 /\ x \in {rq[t].x, rq[t].y}

=============================================================================
