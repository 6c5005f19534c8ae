---------------------------- MODULE FuseDirProofs ----------------------------
(***************************************************************************)
(* Proofs about FuseDir, for any number of names, nodes, threads and       *)
(* operations and any set of enabled operations.                           *)
(***************************************************************************)
EXTENDS FuseDir, FiniteSetTheorems, WellFoundedInduction, TLAPS

USE FuseDirAssumption

Errors == {"ENOENT", "EIO", "EINTR", "ENOSYS"}
Dentry == Nodes \cup {"absent", "negative"}
MaybeName == Names \cup {None}
Request ==
    [op : {"idle", "lookup", "revalidate", "getattr", "access", "setattr",
           "create", "mknod", "link", "unlink", "rmdir", "rename", "exchange",
           "readdirplus", "get_dentry"},
     st : {"idle", "sent", "done", "linking"},
     x : MaybeName, y : MaybeName, q : MaybeName,
     n : Nodes \cup {None}, m : Dentry \cup {None},
     out : Nodes \cup Errors \cup {"ok", None},
     newer : SUBSET Nodes, gone : SUBSET Nodes, old : SUBSET Nodes,
     todo : SUBSET (Names \X Nodes)]
Inode == [present : BOOLEAN, nlookup : Nat,
          attr : {"expired", "fresh", "undone", "late"}]

TypeOK ==
    /\ dirent \in [Names -> Nodes \cup {None}]
    /\ pend \subseteq Names
    /\ raced \subseteq Names
    /\ dcache \in [Names -> Dentry]
    /\ inode \in [Nodes -> Inode]
    /\ lost \in [Nodes -> Nat]
    /\ rq \in [Threads -> Request]

(* What every operation has been given, as long as it lasts.               *)
Moving == {"rename", "exchange"}
OpInv ==
    \A t \in Threads :
        LET op == rq[t].op IN
        /\ op = "idle" <=> rq[t].st = "idle"
        /\ rq[t].st = "linking" => op = "readdirplus"
        /\ op \in {"lookup", "create", "mknod", "unlink", "rmdir"} \cup Moving
           => rq[t].x \in Names
        /\ op \in {"lookup", "revalidate"} => rq[t].q \in Names
        /\ op = "lookup" => rq[t].q = rq[t].x
        /\ op \in {"link"} \cup Moving => rq[t].y \in Names
        /\ op \in Moving => rq[t].x # rq[t].y
        /\ op \in {"unlink", "rmdir"} => rq[t].y = None
        /\ op \in {"revalidate", "getattr", "access", "setattr", "link",
                   "unlink", "rmdir", "get_dentry"} \cup Moving
           => rq[t].n \in Nodes
        /\ op = "exchange" => rq[t].m \in Nodes
        /\ op \notin Versioned => rq[t].old = {}

(* An operation that changes the directory is alone with it.               *)
LockInv ==
    \A t, u \in Threads :
        t # u /\ rq[t].op \in Exclusive => rq[u].op \notin Exclusive \cup Shared

(* What a reply says of a name is still so when it is applied, unless the  *)
(* daemon has changed the name itself (pend) or renamed such a name        *)
(* (raced); RENAME moves the node that the kernel thinks it moves.         *)
Done(t) == rq[t].st = "done"
Sent(t) == rq[t].st = "sent"
Agrees(x, n) == x \notin pend \cup raced => dirent[x] = n
ReplyInv ==
    \A t \in Threads :
        /\ rq[t].op \in {"lookup", "create", "mknod"} /\ Done(t)
           /\ rq[t].out \in Nodes => Agrees(rq[t].x, rq[t].out)
        /\ rq[t].op = "readdirplus"
           => \A e \in rq[t].todo : Agrees(e[1], e[2])
        /\ rq[t].op = "link" /\ Done(t) /\ rq[t].out = rq[t].n
           => Agrees(rq[t].y, rq[t].n)
        /\ rq[t].op \in Moving /\ Sent(t) => Agrees(rq[t].x, rq[t].n)
        /\ rq[t].op = "exchange" /\ Sent(t) => Agrees(rq[t].y, rq[t].m)
        /\ rq[t].op \in Moving /\ Done(t) /\ rq[t].out = "ok"
           => Agrees(rq[t].y, rq[t].n)
        /\ rq[t].op = "exchange" /\ Done(t) /\ rq[t].out = "ok"
           => Agrees(rq[t].x, rq[t].m)

(* A name that is being created has no node.                               *)
NewNameInv ==
    \A t \in Threads :
        /\ rq[t].op \in {"create", "mknod"} => dcache[rq[t].x] \notin Nodes
        /\ rq[t].op = "link" => dcache[rq[t].y] \notin Nodes

(* A dentry differs from the daemon's entry only while the operation that  *)
(* removed or moved the entry, perhaps without knowing it, is finishing.   *)
Unsettled(x) ==
    \E t \in Threads : /\ rq[t].op \in {"unlink", "rmdir"} \cup Moving
                       /\ Done(t) /\ rq[t].out \in {"ok", "EINTR"}
                       /\ x \in {rq[t].x, rq[t].y}
DentryInv ==
    \A x \in Names \ (pend \cup raced) :
        dcache[x] \in Nodes => dirent[x] = dcache[x] \/ Unsettled(x)

EntryInv == TypeOK /\ OpInv /\ LockInv /\ ReplyInv /\ NewNameInv /\ DentryInv

(* The version check (fc->attr_version): a copy of n's attributes that is  *)
(* out of date is known to be so, or the operation that changed n has not  *)
(* yet applied its reply, or the inode has been evicted since.  A link     *)
(* whose reply was malformed applies none, and leaves a mark in lost.      *)
Changed(n) ==
    \E t \in Threads :
        /\ Done(t) /\ rq[t].n = n
        /\ \/ rq[t].op \in {"setattr", "unlink"} /\ rq[t].out = "ok"
           \/ rq[t].op = "link" /\ rq[t].out = n

AttrInv ==
    /\ \A n \in Nodes : inode[n].attr = "undone" => Changed(n) \/ lost[n] > 0
    /\ \A t \in Threads : \A n \in rq[t].old :
         n \in rq[t].newer \cup rq[t].gone \/ Changed(n) \/ lost[n] > 0

-----------------------------------------------------------------------------
(* What a step leaves alone in an operation: everything but its versions,  *)
(* and for a revalidation, which follows its dentry, the name.             *)
Similar(a, b) ==
    /\ a.op = b.op /\ a.st = b.st /\ a.q = b.q /\ a.y = b.y
    /\ a.n = b.n /\ a.m = b.m /\ a.out = b.out /\ a.todo = b.todo
    /\ b.op # "revalidate" => a.x = b.x
SameVersions(a, b) == a.newer = b.newer /\ a.gone = b.gone /\ a.old = b.old

LEMMA IdleRequest == Idle \in Request
  BY DEF Idle, Request, MaybeName

(* fi->attr_version = ++fc->attr_version changes nothing but newer.        *)
LEMMA BumpKeeps ==
    ASSUME NEW r \in [Threads -> Request], NEW n \in Nodes
    PROVE  /\ Bump(r, n) \in [Threads -> Request]
           /\ \A u \in Threads :
                /\ Similar(Bump(r, n)[u], r[u])
                /\ Bump(r, n)[u].gone = r[u].gone /\ Bump(r, n)[u].old = r[u].old
                /\ r[u].op \in Versioned => Bump(r, n)[u].newer = r[u].newer \cup {n}
                /\ r[u].op \notin Versioned => Bump(r, n)[u] = r[u]
<1>1. ASSUME NEW a \in Request
      PROVE  LET b == [a EXCEPT !.newer = @ \cup {n}]
             IN  /\ b \in Request /\ Similar(b, a) /\ b.gone = a.gone
                 /\ b.old = a.old /\ b.newer = a.newer \cup {n}
  BY DEF Request, Similar
<1>2. ASSUME NEW u \in Threads
      PROVE  Bump(r, n)[u] = IF r[u].op \notin Versioned THEN r[u]
                             ELSE [r[u] EXCEPT !.newer = @ \cup {n}]
  BY DEF Bump
<1>3. Bump(r, n) = [u \in Threads |-> Bump(r, n)[u]]
  BY DEF Bump
<1>4. ASSUME NEW a \in Request PROVE Similar(a, a)
  BY DEF Similar
<1>5. ASSUME NEW u \in Threads
      PROVE  /\ Bump(r, n)[u] \in Request
             /\ Similar(Bump(r, n)[u], r[u])
             /\ Bump(r, n)[u].gone = r[u].gone /\ Bump(r, n)[u].old = r[u].old
             /\ r[u].op \in Versioned => Bump(r, n)[u].newer = r[u].newer \cup {n}
             /\ r[u].op \notin Versioned => Bump(r, n)[u] = r[u]
  BY <1>1, <1>2, <1>4
<1> QED
  BY <1>3, <1>5

(* d_move and d_drop concern the revalidations that use the dentry.        *)
LEMMA FollowKeeps ==
    ASSUME NEW r \in [Threads -> Request], NEW S, NEW f \in [S -> MaybeName]
    PROVE  /\ Follow(r, f) \in [Threads -> Request]
           /\ \A u \in Threads : /\ Similar(Follow(r, f)[u], r[u])
                                 /\ SameVersions(Follow(r, f)[u], r[u])
                                 /\ r[u].op # "revalidate" => Follow(r, f)[u] = r[u]
<1>1. ASSUME NEW a \in Request, NEW z \in MaybeName, a.op = "revalidate"
      PROVE  /\ [a EXCEPT !.x = z] \in Request
             /\ Similar([a EXCEPT !.x = z], a)
             /\ SameVersions([a EXCEPT !.x = z], a)
  BY <1>1 DEF Request, Similar, SameVersions
<1>2. ASSUME NEW u \in Threads
      PROVE  Follow(r, f)[u] = IF r[u].op = "revalidate" /\ r[u].x \in S
                               THEN [r[u] EXCEPT !.x = f[r[u].x]] ELSE r[u]
  BY DEF Follow
<1>3. Follow(r, f) = [u \in Threads |-> Follow(r, f)[u]]
  BY DEF Follow
<1>4. ASSUME NEW a \in Request PROVE Similar(a, a) /\ SameVersions(a, a)
  BY DEF Similar, SameVersions
<1>5. ASSUME NEW u \in Threads
      PROVE  /\ Follow(r, f)[u] \in Request
             /\ Similar(Follow(r, f)[u], r[u])
             /\ SameVersions(Follow(r, f)[u], r[u])
             /\ r[u].op # "revalidate" => Follow(r, f)[u] = r[u]
  <2>1. CASE r[u].op = "revalidate" /\ r[u].x \in S
    <3>1. f[r[u].x] \in MaybeName /\ r[u] \in Request
      BY <2>1
    <3>2. Follow(r, f)[u] = [r[u] EXCEPT !.x = f[r[u].x]]
      BY <1>2, <2>1
    <3> QED
      BY <1>1, <2>1, <3>1, <3>2
  <2>2. CASE ~(r[u].op = "revalidate" /\ r[u].x \in S)
    <3>1. r[u] \in Request /\ Follow(r, f)[u] = r[u]
      BY <1>2, <2>2
    <3> QED
      BY <1>4, <3>1
  <2> QED
    BY <2>1, <2>2
<1> QED
  BY <1>3, <1>5

(* What a thread that starts an operation has checked.                     *)
Began(t) ==
    LET r == rq'[t] IN
    /\ rq[t].st = "idle" /\ UNCHANGED <<dirent, pend, raced, dcache, inode, lost>>
    /\ rq' = [rq EXCEPT ![t] = r]
    /\ r \in Request /\ r.st = "sent"
    /\ r.newer = {} /\ r.gone = {} /\ r.old = {} /\ r.todo = {}
    /\ \/ r.op \in {"revalidate", "getattr", "access", "setattr", "get_dentry"}
          /\ r.n \in Nodes /\ (r.op = "revalidate" => r.q \in Names)
       \/ r.op = "lookup" /\ CanShare /\ r.x \in Names /\ r.q = r.x
       \/ r.op = "readdirplus" /\ CanShare
       \/ r.op \in {"create", "mknod"} /\ CanExclude
          /\ r.x \in Names /\ dcache[r.x] = "negative"
       \/ r.op = "link" /\ CanExclude
          /\ r.y \in Names /\ dcache[r.y] = "negative" /\ r.n \in Nodes
       \/ r.op \in {"unlink", "rmdir"} /\ CanExclude
          /\ r.x \in Names /\ r.y = None /\ r.n \in Nodes
       \/ r.op \in Moving /\ CanExclude
          /\ r.x \in Names /\ r.y \in Names /\ r.x # r.y
          /\ r.n = dcache[r.x] /\ r.n \in Nodes
          /\ (r.op = "exchange" => r.m = dcache[r.y] /\ r.m \in Nodes)

Sends(t, op, x, y, n) ==
    /\ rq[t].st = "idle" /\ UNCHANGED <<dirent, pend, raced, dcache, inode, lost>>
    /\ rq' = [rq EXCEPT ![t] = rq'[t]]
    /\ rq'[t] \in Request /\ rq'[t].st = "sent" /\ rq'[t].op = op
    /\ rq'[t].newer = {} /\ rq'[t].gone = {} /\ rq'[t].old = {}
    /\ rq'[t].todo = {}
    /\ rq'[t].x = x /\ rq'[t].q = x /\ rq'[t].y = y /\ rq'[t].n = n
    /\ y \in Names => rq'[t].m = dcache[y]

LEMMA SendFacts ==
    ASSUME TypeOK, NEW t \in Threads, NEW op, op # "notify",
           NEW x \in MaybeName, NEW y \in MaybeName, NEW n \in Nodes \cup {None},
           Send(t, op, x, y, n)
    PROVE  Sends(t, op, x, y, n)
<1> DEFINE r == [Idle EXCEPT !.op = op, !.st = "sent", !.x = x, !.q = x, !.y = y,
                             !.n = n, !.m = IF y = None THEN None ELSE dcache[y]]
<1>1. rq' = [rq EXCEPT ![t] = r] /\ rq[t].st = "idle"
      /\ UNCHANGED <<dirent, pend, raced, dcache, inode, lost>>
  BY DEF Send, Busy
<1>2. /\ r \in Request /\ r.st = "sent" /\ r.op = op
      /\ r.newer = {} /\ r.gone = {} /\ r.old = {} /\ r.todo = {}
      /\ r.x = x /\ r.q = x /\ r.y = y /\ r.n = n
      /\ y \in Names => r.m = dcache[y]
  <2>1. op \in Ops /\ dcache \in [Names -> Dentry]
    BY DEF Send, TypeOK
  <2> QED
    BY <2>1 DEF Idle, Request, MaybeName, Dentry
<1>3. rq'[t] = r
  BY <1>1 DEF TypeOK
<1> HIDE DEF r
<1> QED
  BY <1>1, <1>2, <1>3 DEF Sends

LEMMA StartFacts ==
    ASSUME TypeOK, NEW t \in Threads, Start(t) PROVE Began(t)
<1> USE DEF Began, TypeOK, MaybeName, Dentry, Moving
<1>1. ASSUME NEW x \in Names, fuse_lookup(t, x) PROVE Began(t)
  <2>1. Sends(t, "lookup", x, None, None)
    BY <1>1, SendFacts DEF fuse_lookup
  <2> QED
    BY <1>1, <2>1 DEF Sends, fuse_lookup
<1>2. ASSUME NEW x \in Names, fuse_dentry_revalidate(t, x) PROVE Began(t)
  <2>1. Sends(t, "revalidate", x, None, dcache[x])
    BY <1>2, SendFacts DEF fuse_dentry_revalidate
  <2> QED
    BY <1>2, <2>1 DEF Sends, fuse_dentry_revalidate
<1>3. ASSUME NEW x \in Names, fuse_do_getattr(t, x) PROVE Began(t)
  <2>1. Sends(t, "getattr", None, None, dcache[x])
    BY <1>3, SendFacts DEF fuse_do_getattr
  <2> QED
    BY <1>3, <2>1 DEF Sends, fuse_do_getattr
<1>4. ASSUME NEW x \in Names, fuse_access(t, x) PROVE Began(t)
  <2>1. Sends(t, "access", None, None, dcache[x])
    BY <1>4, SendFacts DEF fuse_access
  <2> QED
    BY <1>4, <2>1 DEF Sends, fuse_access
<1>5. ASSUME NEW x \in Names, fuse_do_setattr(t, x) PROVE Began(t)
  <2>1. Sends(t, "setattr", None, None, dcache[x])
    BY <1>5, SendFacts DEF fuse_do_setattr
  <2> QED
    BY <1>5, <2>1 DEF Sends, fuse_do_setattr
<1>6. ASSUME NEW x \in Names, fuse_atomic_open(t, x) PROVE Began(t)
  <2>1. PICK op \in {"create", "mknod"} : Sends(t, op, x, None, None)
    BY <1>6, SendFacts DEF fuse_atomic_open
  <2> QED
    BY <1>6, <2>1 DEF Sends, fuse_atomic_open
<1>7. ASSUME NEW x \in Names, fuse_mknod(t, x) PROVE Began(t)
  <2>1. Sends(t, "mknod", x, None, None)
    BY <1>7, SendFacts DEF fuse_mknod
  <2> QED
    BY <1>7, <2>1 DEF Sends, fuse_mknod
<1>8. ASSUME NEW x \in Names, NEW op \in {"unlink", "rmdir"}, fuse_remove(t, x, op)
      PROVE  Began(t)
  <2>1. Sends(t, op, x, None, dcache[x])
    BY <1>8, SendFacts DEF fuse_remove
  <2> QED
    BY <1>8, <2>1 DEF Sends, fuse_remove
<1>9. ASSUME NEW x \in Names, NEW y \in Names, fuse_link(t, x, y) PROVE Began(t)
  <2>1. Sends(t, "link", None, y, dcache[x])
    BY <1>9, SendFacts DEF fuse_link
  <2> QED
    BY <1>9, <2>1 DEF Sends, fuse_link
<1>10. ASSUME NEW x \in Names, NEW y \in Names, NEW op \in Moving,
              fuse_rename2(t, x, y, op)
       PROVE  Began(t)
  <2>1. Sends(t, op, x, y, dcache[x])
    BY <1>10, SendFacts DEF fuse_rename2
  <2> QED
    BY <1>10, <2>1 DEF Sends, fuse_rename2
<1>11. ASSUME fuse_readdir(t) PROVE Began(t)
  <2>1. Sends(t, "readdirplus", None, None, None)
    BY <1>11, SendFacts DEF fuse_readdir
  <2> QED
    BY <1>11, <2>1 DEF Sends, fuse_readdir
<1>12. ASSUME NEW n \in Nodes, fuse_get_dentry(t, n) PROVE Began(t)
  <2>1. Sends(t, "get_dentry", None, None, n)
    BY <1>12, SendFacts DEF fuse_get_dentry
  <2> QED
    BY <1>12, <2>1 DEF Sends, fuse_get_dentry
<1> QED
  BY <1>1, <1>2, <1>3, <1>4, <1>5, <1>6, <1>7, <1>8, <1>9, <1>10, <1>11, <1>12
     DEF Start

(* The daemon answers: the request keeps what it asked, the others keep    *)
(* everything but the freshness of what they were told.                    *)
Answered(t) ==
    /\ rq' \in [Threads -> Request] /\ rq'[t].st = "done"
    /\ rq'[t].op = rq[t].op /\ rq'[t].x = rq[t].x /\ rq'[t].y = rq[t].y
    /\ rq'[t].q = rq[t].q /\ rq'[t].n = rq[t].n /\ rq'[t].m = rq[t].m
    /\ SameVersions(rq'[t], rq[t])
    /\ \A u \in Threads \ {t} : /\ Similar(rq'[u], rq[u])
                                /\ rq'[u].newer = rq[u].newer
                                /\ rq'[u].gone = rq[u].gone
                                /\ rq[u].op \notin Versioned => rq'[u].old = rq[u].old

ChangedBy(t, n) ==
    /\ rq[t].st = "done" /\ rq[t].n = n
    /\ \/ rq[t].op \in {"setattr", "unlink"} /\ rq[t].out = "ok"
       \/ rq[t].op = "link" /\ rq[t].out = n

(* The attributes of n change, and t's reply says so.                      *)
AttrChange(t) ==
    \/ inode' = inode /\ \A u \in Threads : rq'[u].old = rq[u].old
    \/ \E n \in Nodes : /\ ChangedBy(t, n)'
                        /\ \A k \in Nodes \ {n} : inode'[k] = inode[k]
                        /\ \A u \in Threads : rq'[u].old \subseteq rq[u].old \cup {n}

(* The daemon's directory changes as the reply says, or not at all.        *)
EntryChange(t) ==
    LET op == rq[t].op  x == rq[t].x  y == rq[t].y  n == rq[t].n
        out == rq'[t].out
    IN  \/ /\ dirent' = dirent
           /\ op = "lookup" /\ out \in Nodes => out = dirent[rq[t].q]
           /\ op = "readdirplus" => rq'[t].todo \subseteq Entries
           /\ op \in {"create", "mknod"} => out \notin Nodes
           /\ op = "link" => out # n
           /\ op \in Moving => out # "ok"
        \/ /\ op \in {"create", "mknod"} /\ out \in Nodes
           /\ dirent' = [dirent EXCEPT ![x] = out]
        \/ op = "link" /\ out = n /\ dirent' = [dirent EXCEPT ![y] = n]
        \/ /\ op \in {"unlink", "rmdir"} /\ out \in {"ok", "EINTR"}
           /\ dirent' = [dirent EXCEPT ![x] = None]

(* A wrong dentry moves with the entry, a right one makes its new name     *)
(* right.                                                                  *)
Moves(t) ==
    LET op == rq[t].op  x == rq[t].x  y == rq[t].y
    IN  /\ op \in Moving /\ rq'[t].out \in {"ok", "EINTR"}
        /\ dirent' = [dirent EXCEPT ![y] = dirent[x],
                        ![x] = IF op = "exchange" THEN dirent[y] ELSE None]
        /\ y \notin raced' => x \notin pend \cup raced
        /\ op = "exchange" /\ x \notin raced' => y \notin pend \cup raced
        /\ \A z \in Names \ {x, y} : z \in raced' <=> z \in raced
        /\ raced' \subseteq Names

DirentChange(t) == (EntryChange(t) /\ raced' = raced) \/ Moves(t)

Served(t) ==
    /\ rq[t].st = "sent" /\ UNCHANGED <<pend, dcache, lost>>
    /\ dirent' \in [Names -> Nodes \cup {None}] /\ inode' \in [Nodes -> Inode]
    /\ Answered(t) /\ AttrChange(t) /\ DirentChange(t)

Replied(t, out, todo) ==
    /\ Answered(t) /\ inode' = inode /\ rq'[t].out = out
    /\ rq'[t].todo = todo /\ \A u \in Threads : rq'[u].old = rq[u].old

LEMMA ReplyFacts ==
    ASSUME TypeOK, NEW t \in Threads, NEW out \in Nodes \cup Errors \cup {"ok"},
           NEW todo \in SUBSET (Names \X Nodes), NoAttrChange(t, out, todo)
    PROVE  Replied(t, out, todo)
<1> DEFINE r == [rq[t] EXCEPT !.st = "done", !.out = out, !.todo = todo]
<1>1. inode' = inode /\ rq' = [rq EXCEPT ![t] = r]
  BY DEF NoAttrChange, Reply, TypeOK
<1>2. rq[t] \in Request
  BY DEF TypeOK
<1>3. /\ r \in Request /\ r.st = "done" /\ r.op = rq[t].op
      /\ r.x = rq[t].x /\ r.y = rq[t].y /\ r.q = rq[t].q /\ r.n = rq[t].n
      /\ r.m = rq[t].m /\ SameVersions(r, rq[t]) /\ r.out = out /\ r.todo = todo
  BY <1>2 DEF Request, SameVersions
<1> HIDE DEF r
<1> QED
  BY <1>1, <1>3 DEF Replied, Answered, TypeOK, Similar, SameVersions

RepliedChange(t, out, n) ==
    /\ Answered(t) /\ inode' \in [Nodes -> Inode] /\ rq'[t].out = out
    /\ \A k \in Nodes \ {n} : inode'[k] = inode[k]
    /\ \A u \in Threads : rq'[u].old \subseteq rq[u].old \cup {n}

LEMMA ReplyChangedFacts ==
    ASSUME TypeOK, NEW t \in Threads, NEW out \in Nodes \cup Errors \cup {"ok"},
           NEW n \in Nodes, rq' = ReplyChanged(t, out, n), inode' = Outdate(n)
    PROVE  RepliedChange(t, out, n)
<1>1. ASSUME NEW a \in Request
      PROVE  LET b == [a EXCEPT !.st = "done", !.out = out]
             IN  /\ b \in Request /\ b.st = "done" /\ b.op = a.op
                 /\ b.x = a.x /\ b.y = a.y /\ b.q = a.q /\ b.n = a.n
                 /\ b.m = a.m /\ SameVersions(b, a) /\ b.out = out
  BY DEF Request, SameVersions
<1>2. ASSUME NEW a \in Request
      PROVE  LET b == [a EXCEPT !.old = @ \cup {n}]
             IN  /\ b \in Request /\ Similar(b, a) /\ b.newer = a.newer
                 /\ b.gone = a.gone /\ b.old = a.old \cup {n}
  BY DEF Request, Similar
<1>3. rq'[t] = [rq[t] EXCEPT !.st = "done", !.out = out]
  BY DEF ReplyChanged
<1>4. ASSUME NEW u \in Threads \ {t}
      PROVE  /\ rq'[u] \in Request /\ Similar(rq'[u], rq[u])
             /\ rq'[u].newer = rq[u].newer /\ rq'[u].gone = rq[u].gone
             /\ rq[u].op \notin Versioned => rq'[u].old = rq[u].old
             /\ rq'[u].old \subseteq rq[u].old \cup {n}
  <2>1. rq'[u] = IF rq[u].st \in {"done", "linking"} /\ rq[u].op \in Versioned
                 THEN [rq[u] EXCEPT !.old = @ \cup {n}] ELSE rq[u]
    BY DEF ReplyChanged
  <2>2. rq[u] \in Request /\ Similar(rq[u], rq[u])
    BY DEF TypeOK, Similar
  <2> QED
    BY <1>2, <2>1, <2>2
<1>5. rq[t] \in Request /\ rq' = [u \in Threads |-> rq'[u]]
  BY DEF TypeOK, ReplyChanged
<1> DEFINE D(a) == [a EXCEPT !.st = "done", !.out = out]
<1>6. /\ rq'[t] \in Request /\ rq'[t].st = "done" /\ rq'[t].op = rq[t].op
      /\ rq'[t].x = rq[t].x /\ rq'[t].y = rq[t].y /\ rq'[t].q = rq[t].q
      /\ rq'[t].n = rq[t].n /\ rq'[t].m = rq[t].m
      /\ SameVersions(rq'[t], rq[t]) /\ rq'[t].out = out
  <2>1. rq'[t] = D(rq[t])
    BY <1>3
  <2>2. \A a \in Request :
          /\ D(a) \in Request /\ D(a).st = "done" /\ D(a).op = a.op
          /\ D(a).x = a.x /\ D(a).y = a.y /\ D(a).q = a.q /\ D(a).n = a.n
          /\ D(a).m = a.m /\ SameVersions(D(a), a) /\ D(a).out = out
    BY <1>1
  <2> HIDE DEF D
  <2> QED
    BY <1>5, <2>1, <2>2
<1>7. rq' \in [Threads -> Request]
  <2>1. \A u \in Threads : rq'[u] \in Request
    BY <1>4, <1>6
  <2> QED
    BY <1>5, <2>1
<1>8. Answered(t)
  BY <1>4, <1>6, <1>7 DEF Answered
<1>9. inode' \in [Nodes -> Inode] /\ \A k \in Nodes \ {n} : inode'[k] = inode[k]
  BY DEF Outdate, TypeOK, Inode
<1> QED
  BY <1>4, <1>6, <1>8, <1>9 DEF SameVersions, RepliedChange

LEMMA ServeFacts ==
    ASSUME TypeOK, OpInv, NEW t \in Threads, Serve(t) PROVE Served(t)
<1> DEFINE op == rq[t].op  x == rq[t].x  y == rq[t].y  n == rq[t].n  q == rq[t].q
           out == rq'[t].out
<1>1. /\ rq[t].st = "sent" /\ UNCHANGED <<pend, dcache, lost>>
      /\ dirent \in [Names -> Nodes \cup {None}] /\ inode \in [Nodes -> Inode]
      /\ raced \subseteq Names
  BY DEF Serve, TypeOK
<1>2. /\ op \in {"lookup", "create", "mknod", "unlink", "rmdir"} \cup Moving
         => x \in Names
      /\ op = "lookup" => q = x
      /\ op \in {"lookup", "revalidate"} => q \in Names
      /\ op \in {"link"} \cup Moving => y \in Names
      /\ op \in {"setattr", "link", "unlink", "get_dentry"} => n \in Nodes
      /\ Entries \subseteq Names \X Nodes
  BY <1>1 DEF OpInv, Entries
<1>3. ASSUME NEW o \in Nodes \cup Errors \cup {"ok"},
             NEW todo \in SUBSET (Names \X Nodes), NoAttrChange(t, o, todo),
             dirent' \in [Names -> Nodes \cup {None}],
             rq'[t].out = o /\ rq'[t].todo = todo => DirentChange(t)
      PROVE  Served(t)
  <2>1. Replied(t, o, todo)
    BY <1>3, ReplyFacts
  <2> QED
    BY <1>1, <1>3, <2>1 DEF Replied, Served, AttrChange
<1>4. ASSUME NEW o \in Nodes \cup {"ok"}, NEW k \in Nodes, k = rq[t].n,
             rq' = ReplyChanged(t, o, k), inode' = Outdate(k),
             dirent' \in [Names -> Nodes \cup {None}],
             \/ op \in {"setattr", "unlink"} /\ o = "ok"
             \/ op = "link" /\ o = k,
             rq'[t].out = o => DirentChange(t)
      PROVE  Served(t)
  <2>1. RepliedChange(t, o, k)
    BY <1>4, ReplyChangedFacts
  <2>2. ChangedBy(t, k)'
    BY <1>4, <2>1 DEF RepliedChange, Answered, ChangedBy
  <2> QED
    BY <1>1, <1>4, <2>1, <2>2 DEF RepliedChange, Served, AttrChange
<1>5. "ok" \notin Nodes /\ Errors \cap Nodes = {} /\ "ok" \notin Errors
  BY DEF Errors
<1> HIDE DEF out, op, x, y, n, q
<1>6. ASSUME ServeLookup(t), raced' = raced PROVE Served(t)
  <2>1. CASE dirent[q] = None
    <3>1. NoAttrChange(t, "ENOENT", {}) /\ dirent' = dirent
      BY <1>6, <2>1 DEF ServeLookup, q
    <3>2. rq'[t].out = "ENOENT" => DirentChange(t)
      BY <1>5, <1>6, <3>1 DEF ServeLookup, DirentChange, EntryChange, Moving, Errors
    <3> QED
      BY <1>1, <1>3, <3>1, <3>2 DEF Errors
  <2>2. CASE dirent[q] # None
    <3>1. NoAttrChange(t, dirent[q], {}) /\ dirent' = dirent
      BY <1>6, <2>2 DEF ServeLookup, q
    <3>2. dirent[q] \in Nodes
      BY <1>1, <1>2, <1>6, <2>2 DEF ServeLookup, op
    <3>3. rq'[t].out = dirent[q] => DirentChange(t)
      BY <1>5, <1>6, <3>1 DEF ServeLookup, DirentChange, EntryChange, Moving, q
    <3> QED
      BY <1>1, <1>3, <3>1, <3>2, <3>3
  <2> QED
    BY <2>1, <2>2
<1>7. ASSUME ServeGetDentry(t), raced' = raced PROVE Served(t)
  BY <1>1, <1>2, <1>3, <1>4, <1>5, <1>7 DEF ServeGetDentry, DirentChange, EntryChange, Moving, Errors, op, x, y, n, q
<1>8. ASSUME ServeReaddir(t), raced' = raced PROVE Served(t)
  BY <1>1, <1>2, <1>3, <1>4, <1>5, <1>8 DEF ServeReaddir, DirentChange, EntryChange, Moving, Errors, op, x, y, n, q
<1>9. ASSUME ServeAttr(t), raced' = raced PROVE Served(t)
  <2>1. rq'[t].out = "ok" => DirentChange(t)
    BY <1>5, <1>9 DEF ServeAttr, DirentChange, EntryChange, Moving
  <2>2. CASE NoAttrChange(t, "ok", {})
    BY <1>1, <1>3, <1>9, <2>1, <2>2 DEF ServeAttr
  <2>3. CASE op = "setattr" /\ rq' = ReplyChanged(t, "ok", n) /\ inode' = Outdate(n)
    <3>1. n \in Nodes /\ dirent' = dirent
      BY <1>2, <1>9, <2>3 DEF ServeAttr
    <3>2. PICK k \in Nodes : k = n
      BY <3>1
    <3> QED
      <4>1. k = rq[t].n /\ rq' = ReplyChanged(t, "ok", k) /\ inode' = Outdate(k)
        BY <2>3, <3>2 DEF n
      <4>2. dirent' \in [Names -> Nodes \cup {None}]
        BY <1>1, <3>1
      <4> QED
        BY <1>4, <2>1, <2>3, <4>1, <4>2
  <2> QED
    BY <1>9, <2>2, <2>3 DEF ServeAttr, op, n
<1>10. ASSUME ServeCreate(t), raced' = raced PROVE Served(t)
  <2>1. PICK k \in Nodes : /\ dirent' = [dirent EXCEPT ![x] = k]
                           /\ NoAttrChange(t, k, {})
    BY <1>10 DEF ServeCreate, x
  <2>2. rq'[t].out = k => DirentChange(t)
    BY <1>10, <2>1 DEF ServeCreate, DirentChange, EntryChange, x
  <2> QED
    BY <1>1, <1>3, <2>1, <2>2
<1>11. ASSUME ServeLink(t), raced' = raced PROVE Served(t)
  <2>1. /\ op = "link" /\ n \in Nodes /\ y \in Names
        /\ dirent' = [dirent EXCEPT ![y] = n]
        /\ rq' = ReplyChanged(t, n, n) /\ inode' = Outdate(n)
    BY <1>2, <1>11 DEF ServeLink, op, n, y
  <2>2. rq'[t].out = n => DirentChange(t)
    BY <1>11, <2>1 DEF DirentChange, EntryChange, op, n, y
  <2>3. dirent' \in [Names -> Nodes \cup {None}]
    BY <1>1, <2>1
  <2>4. PICK k \in Nodes : k = n
    BY <2>1
  <2>5. PICK o \in Nodes \cup {"ok"} : o = n
    BY <2>1
  <2>6. /\ k = rq[t].n /\ rq' = ReplyChanged(t, o, k) /\ inode' = Outdate(k)
        /\ op = "link" /\ o = k /\ (rq'[t].out = o => DirentChange(t))
    BY <2>1, <2>2, <2>4, <2>5 DEF n
  <2> QED
    BY <1>4, <2>3, <2>6
<1>12. ASSUME ServeRemove(t), raced' = raced PROVE Served(t)
  <2>1. dirent' = [dirent EXCEPT ![x] = None] /\ op \in {"unlink", "rmdir"}
    BY <1>12 DEF ServeRemove, x, op
  <2>2. rq'[t].out \in {"ok", "EINTR"} => DirentChange(t)
    BY <1>12, <2>1 DEF DirentChange, EntryChange, x, op
  <2>3. dirent' \in [Names -> Nodes \cup {None}]
    BY <1>1, <2>1
  <2>4. CASE \E o \in {"ok", "EINTR"} : NoAttrChange(t, o, {})
    BY <1>3, <2>2, <2>3, <2>4 DEF Errors
  <2>5. CASE op = "unlink" /\ rq' = ReplyChanged(t, "ok", n) /\ inode' = Outdate(n)
    <3>1. PICK k \in Nodes : k = n
      BY <1>2, <2>5
    <3> QED
      <4>1. k = rq[t].n /\ rq' = ReplyChanged(t, "ok", k) /\ inode' = Outdate(k)
        BY <2>5, <3>1 DEF n
      <4> QED
        BY <1>4, <2>2, <2>3, <2>5, <4>1
  <2> QED
    BY <1>12, <2>4, <2>5 DEF ServeRemove, op, n
<1>13. ASSUME ServeRename(t) PROVE Served(t)
  <2>1. /\ op \in Moving /\ x \in Names /\ y \in Names
        /\ dirent' = [dirent EXCEPT ![y] = dirent[x],
                        ![x] = IF op = "exchange" THEN dirent[y] ELSE None]
        /\ raced' = (raced \ {x, y}) \cup {z \in {x, y} :
                        IF z = y THEN x \in pend \cup raced
                                 ELSE op = "exchange" /\ y \in pend \cup raced}
    BY <1>2, <1>13 DEF ServeRename, Moving, op, x, y
  <2>2. x # y
    BY <2>1 DEF OpInv, op, x, y
  <2>3. PICK o \in {"ok", "EINTR"} : NoAttrChange(t, o, {})
    BY <1>13 DEF ServeRename
  <2>4. /\ y \notin raced' => x \notin pend \cup raced
        /\ op = "exchange" /\ x \notin raced' => y \notin pend \cup raced
        /\ \A z \in Names \ {x, y} : z \in raced' <=> z \in raced
        /\ raced' \subseteq Names
    BY <1>1, <2>1, <2>2
  <2>5. rq'[t].out = o => DirentChange(t)
    BY <2>1, <2>3, <2>4 DEF DirentChange, Moves, op, x, y
  <2>6. dirent' \in [Names -> Nodes \cup {None}]
    BY <1>1, <2>1
  <2>7. o \in Nodes \cup Errors \cup {"ok"} /\ {} \in SUBSET (Names \X Nodes)
    BY <2>3 DEF Errors
  <2> QED
    BY <1>3, <2>3, <2>5, <2>6, <2>7
<1>14. ASSUME ServeError(t), raced' = raced PROVE Served(t)
  BY <1>1, <1>2, <1>3, <1>4, <1>5, <1>14 DEF ServeError, DirentChange, EntryChange, Moving, Errors, op, x, y, n, q
<1> QED
  BY <1>6, <1>7, <1>8, <1>9, <1>10, <1>11, <1>12, <1>13, <1>14 DEF Serve

(* A reply is applied, wholly or to one entry: t ends, asks again with     *)
(* MKNOD, or goes on linking entries.  The others may be told of a version *)
(* and of a moved dentry.                                                  *)
Continues(t) ==
    \/ rq'[t] = Idle
    \/ /\ rq[t].op = "create" /\ rq[t].out = "ENOSYS" /\ dcache' = dcache
       /\ rq'[t].op = "mknod" /\ rq'[t].st = "sent" /\ rq'[t].x = rq[t].x
       /\ rq'[t].old = {}
    \/ /\ rq[t].op = "readdirplus" /\ rq'[t].op = "readdirplus"
       /\ rq'[t].st = "linking" /\ rq'[t].todo \subseteq rq[t].todo
       /\ rq'[t].old = rq[t].old /\ rq'[t].gone = rq[t].gone
       /\ rq[t].newer \subseteq rq'[t].newer

OthersKept(t) ==
    \A u \in Threads \ {t} : /\ Similar(rq'[u], rq[u])
                             /\ rq[u].newer \subseteq rq'[u].newer
                             /\ rq'[u].gone = rq[u].gone
                             /\ rq'[u].old = rq[u].old

(* A dentry gets a node only from an operation that holds the directory's  *)
(* lock, and then the daemon's node; what t left unsettled, it settles.    *)
Unsettles(t, x) ==
    /\ rq[t].op \in {"unlink", "rmdir"} \cup Moving
    /\ rq[t].st = "done" /\ rq[t].out \in {"ok", "EINTR"}
    /\ x \in {rq[t].x, rq[t].y}

DcacheChange(t) ==
    \A z \in Names :
        \/ dcache'[z] \notin Nodes
        \/ rq[t].op \in Exclusive \cup Shared /\ Agrees(z, dcache'[z])
        \/ dcache'[z] = dcache[z] /\ ~Unsettles(t, z)

(* Attributes become undone only by a reply that nobody knows to be stale, *)
(* and a change that is applied is made known.                             *)
AttrApplied(t) ==
    \A n \in Nodes :
        /\ inode'[n].attr = "undone"
           => \/ inode[n].attr = "undone"
              \/ n \in rq[t].old \ (rq[t].newer \cup rq[t].gone)
        /\ ChangedBy(t, n)
           => \/ lost'[n] > 0
              \/ /\ inode'[n].attr # "undone"
                 /\ \A u \in Threads \ {t} : rq[u].op \in Versioned
                                             => n \in rq'[u].newer

(* The lookups lost are never found again.                                 *)
LostKept == lost' \in [Nodes -> Nat] /\ \A n \in Nodes : lost[n] <= lost'[n]

Applied(t) ==
    /\ rq[t].st \in {"done", "linking"} /\ UNCHANGED <<dirent, pend, raced>>
    /\ LostKept
    /\ dcache' \in [Names -> Dentry] /\ inode' \in [Nodes -> Inode]
    /\ rq' \in [Threads -> Request]
    /\ Continues(t) /\ OthersKept(t) /\ DcacheChange(t) /\ AttrApplied(t)

(* fuse_iget and fuse_change_attributes.                                   *)
ApplyEffect(t, n, check, r) ==
    /\ inode' \in [Nodes -> Inode] /\ rq' \in [Threads -> Request]
    /\ OthersKept(t)
    /\ Similar(rq'[t], r) /\ rq'[t].old = r.old /\ rq'[t].gone = r.gone
    /\ r.newer \subseteq rq'[t].newer /\ (r.op \notin Versioned => rq'[t] = r)
    /\ \A k \in Nodes \ {n} : inode'[k] = inode[k]
    /\ inode'[n].attr = "undone"
       => \/ inode[n].attr = "undone" /\ check
          \/ n \in rq[t].old \ rq[t].gone /\ (check => n \notin rq[t].newer)
    /\ ~check => \A u \in Threads \ {t} : rq[u].op \in Versioned
                                          => n \in rq'[u].newer

LEMMA ApplyFacts ==
    ASSUME TypeOK, NEW t \in Threads, NEW n \in Nodes, NEW count \in {0, 1},
           NEW check \in BOOLEAN, NEW r \in Request, Apply(t, n, count, check, r)
    PROVE  ApplyEffect(t, n, check, r)
<1> DEFINE i == [inode[n] EXCEPT !.present = TRUE, !.nlookup = @ + count]
           s == [rq EXCEPT ![t] = r]
           j == fuse_change_attributes(t, n, i, check)
<1>1. inode' = [inode EXCEPT ![n] = j]
      /\ rq' = IF StaleReply(t, n, check) THEN s ELSE Bump(s, n)
  BY DEF Apply
<1>2. i \in Inode /\ i.attr = inode[n].attr
  <2>1. inode[n] \in Inode /\ inode[n].nlookup + count \in Nat
    BY DEF TypeOK, Inode
  <2> QED
    BY <2>1 DEF Inode
<1>3. /\ j \in Inode
      /\ j.attr = "undone" => \/ inode[n].attr = "undone" /\ StaleReply(t, n, check)
                              \/ n \in rq[t].old \ rq[t].gone
                                 /\ ~StaleReply(t, n, check)
  <2> HIDE DEF i
  <2> QED
    BY <1>2 DEF fuse_change_attributes, Inode
<1>4. StaleReply(t, n, check) <=> check /\ n \in rq[t].newer
  BY DEF StaleReply
<1>5. s \in [Threads -> Request] /\ s[t] = r /\ \A u \in Threads \ {t} : s[u] = rq[u]
  BY DEF TypeOK
<1> HIDE DEF i, s, j
<1>6. \A a \in Request : Similar(a, a)
  BY DEF Similar
<1>7. /\ rq' \in [Threads -> Request]
      /\ \A u \in Threads : /\ Similar(rq'[u], s[u])
                            /\ rq'[u].gone = s[u].gone /\ rq'[u].old = s[u].old
                            /\ s[u].newer \subseteq rq'[u].newer
                            /\ s[u].op \notin Versioned => rq'[u] = s[u]
                            /\ ~StaleReply(t, n, check) /\ s[u].op \in Versioned
                               => n \in rq'[u].newer
  <2>1. CASE StaleReply(t, n, check)
    BY <1>1, <1>5, <1>6, <2>1
  <2>2. CASE ~StaleReply(t, n, check)
    BY <1>1, <1>5, <2>2, BumpKeeps
  <2> QED
    BY <2>1, <2>2
<1>8. inode' \in [Nodes -> Inode] /\ inode'[n] = j
      /\ \A k \in Nodes \ {n} : inode'[k] = inode[k]
  BY <1>1, <1>3 DEF TypeOK
<1> QED
  BY <1>3, <1>4, <1>5, <1>7, <1>8 DEF ApplyEffect, OthersKept

(* The replies of one thread that name n: the node it was answered with,   *)
(* and the entries it has still to link.                                   *)
Listed(r, n) == {e \in r.todo : e[2] = n}
Mine(r, n) == (IF r.st = "done" /\ r.out = n THEN 1 ELSE 0)
              + Cardinality(Listed(r, n))

LEMMA ListedFinite ==
    ASSUME NEW r \in Request, NEW n \in Nodes
    PROVE  IsFiniteSet(Listed(r, n)) /\ Cardinality(Listed(r, n)) \in Nat
           /\ Mine(r, n) \in Nat
<1>1. Listed(r, n) \subseteq Names \X {n}
  BY DEF Listed, Request
<1>2. IsFiniteSet(Names \X {n})
  BY FS_Product, FS_Singleton
<1>3. IsFiniteSet(Listed(r, n)) /\ Cardinality(Listed(r, n)) \in Nat
  BY <1>1, <1>2, FS_Subset, FS_CardinalityType
<1> QED
  BY <1>3 DEF Mine

(* The ends of an operation.                                               *)
Ended(t) == rq' \in [Threads -> Request] /\ rq'[t] = Idle /\ OthersKept(t)

LEMMA EndFacts ==
    ASSUME TypeOK, NEW t \in Threads, rq' = [rq EXCEPT ![t] = Idle]
    PROVE  Ended(t)
<1>1. rq' \in [Threads -> Request] /\ rq'[t] = Idle
      /\ \A u \in Threads \ {t} : rq'[u] = rq[u]
  BY IdleRequest DEF TypeOK
<1> QED
  BY <1>1 DEF Ended, OthersKept, Similar

LEMMA EndFollowFacts ==
    ASSUME TypeOK, NEW t \in Threads, NEW S, NEW f \in [S -> MaybeName],
           rq' = Follow([rq EXCEPT ![t] = Idle], f)
    PROVE  Ended(t)
<1> DEFINE s == [rq EXCEPT ![t] = Idle]
<1>1. s \in [Threads -> Request] /\ s[t] = Idle
      /\ \A u \in Threads \ {t} : s[u] = rq[u]
  BY IdleRequest DEF TypeOK
<1>2. rq' = Follow(s, f)
  OBVIOUS
<1> HIDE DEF s
<1>3. /\ rq' \in [Threads -> Request]
      /\ \A u \in Threads : /\ Similar(rq'[u], s[u]) /\ SameVersions(rq'[u], s[u])
                            /\ s[u].op # "revalidate" => rq'[u] = s[u]
  <2> DEFINE g == Follow(s, f)
  <2>1. /\ g \in [Threads -> Request]
        /\ \A u \in Threads : /\ Similar(g[u], s[u]) /\ SameVersions(g[u], s[u])
                              /\ s[u].op # "revalidate" => g[u] = s[u]
    BY <1>1, FollowKeeps
  <2> HIDE DEF g
  <2> QED
    BY <1>2, <2>1 DEF g
<1>4. Idle.op # "revalidate"
  BY DEF Idle
<1> QED
  BY <1>1, <1>3, <1>4 DEF Ended, OthersKept, SameVersions

LEMMA EndBumpFollowFacts ==
    ASSUME TypeOK, NEW t \in Threads, NEW n \in Nodes, NEW S,
           NEW f \in [S -> MaybeName],
           \/ rq' = Follow(Bump([rq EXCEPT ![t] = Idle], n), f)
           \/ rq' = Bump([rq EXCEPT ![t] = Idle], n)
    PROVE  /\ Ended(t)
           /\ \A u \in Threads \ {t} : rq[u].op \in Versioned => n \in rq'[u].newer
<1> DEFINE s == [rq EXCEPT ![t] = Idle]
           b == Bump(s, n)
<1>1. s \in [Threads -> Request] /\ s[t] = Idle
      /\ \A u \in Threads \ {t} : s[u] = rq[u]
  BY IdleRequest DEF TypeOK
<1>2. Idle.op # "revalidate" /\ Idle.op \notin Versioned
  BY DEF Idle, Versioned
<1> HIDE DEF s
<1>3. /\ b \in [Threads -> Request]
      /\ \A u \in Threads :
           /\ Similar(b[u], s[u]) /\ b[u].gone = s[u].gone /\ b[u].old = s[u].old
           /\ s[u].newer \subseteq b[u].newer
           /\ s[u].op \in Versioned => n \in b[u].newer
           /\ s[u].op \notin Versioned => b[u] = s[u]
  BY <1>1, BumpKeeps
<1>4. rq' = Follow(b, f) \/ rq' = b
  BY DEF s
<1> HIDE DEF b
<1>5. \A a \in Request : Similar(a, a) /\ SameVersions(a, a)
  BY DEF Similar, SameVersions
<1>6. /\ rq' \in [Threads -> Request]
      /\ \A u \in Threads : /\ Similar(rq'[u], b[u]) /\ SameVersions(rq'[u], b[u])
                            /\ b[u].op # "revalidate" => rq'[u] = b[u]
  BY <1>3, <1>4, <1>5, FollowKeeps
<1>7. rq'[t] = Idle
  BY <1>1, <1>2, <1>3, <1>6
<1>8. ASSUME NEW u \in Threads \ {t}
      PROVE  /\ Similar(rq'[u], rq[u]) /\ rq[u].newer \subseteq rq'[u].newer
             /\ rq'[u].gone = rq[u].gone /\ rq'[u].old = rq[u].old
             /\ rq[u].op \in Versioned => n \in rq'[u].newer
  <2>1. Similar(b[u], rq[u]) /\ Similar(rq'[u], b[u])
    BY <1>1, <1>3, <1>6
  <2>2. Similar(rq'[u], rq[u])
    BY <2>1 DEF Similar
  <2> QED
    BY <1>1, <1>3, <1>6, <2>2 DEF SameVersions
<1> QED
  BY <1>6, <1>7, <1>8 DEF Ended, OthersKept

LEMMA FinishFacts ==
    ASSUME TypeOK, OpInv, ReplyInv, NEW t \in Threads, Finish(t) PROVE Applied(t)
<1> DEFINE op == rq[t].op  out == rq[t].out
<1>1. /\ rq[t].st = "done" /\ UNCHANGED <<dirent, pend, raced>>
      /\ lost \in [Nodes -> Nat]
      /\ dcache \in [Names -> Dentry] /\ inode \in [Nodes -> Inode]
      /\ rq[t] \in Request /\ rq[t].old \subseteq Nodes
      /\ "absent" \notin Nodes /\ "negative" \notin Nodes
      /\ {"absent", "negative"} \subseteq Dentry /\ Nodes \subseteq Dentry
  BY DEF Finish, Quiet, TypeOK, Request, Dentry
<1>2. /\ op \in {"lookup", "create", "mknod", "unlink", "rmdir"} \cup Moving
         => rq[t].x \in Names
      /\ op \in {"link"} \cup Moving => rq[t].y \in Names
      /\ op \in Moving => rq[t].x # rq[t].y
      /\ op \in {"revalidate", "getattr", "access", "setattr", "link",
                 "unlink", "rmdir", "get_dentry"} \cup Moving => rq[t].n \in Nodes
      /\ op = "exchange" => rq[t].m \in Nodes
      /\ op \notin Versioned => rq[t].old = {}
  BY DEF OpInv
<1>23. ASSUME lost' = lost PROVE LostKept
  BY <1>1, <1>23 DEF LostKept
<1>3. ASSUME Ended(t), dcache' \in [Names -> Dentry], inode' \in [Nodes -> Inode],
             DcacheChange(t), AttrApplied(t), lost' = lost
      PROVE  Applied(t)
  BY <1>1, <1>3, <1>23 DEF Applied, Ended, Continues
<1>4. ASSUME op \notin {"unlink", "rmdir"} \cup Moving
             \/ out \notin {"ok", "EINTR"},
             dcache' = dcache
      PROVE  DcacheChange(t) /\ dcache' \in [Names -> Dentry]
  BY <1>1, <1>4 DEF DcacheChange, Unsettles
<1>5. ASSUME inode' = inode, op \in {"setattr", "unlink"} => out # "ok",
             op = "link" => out # rq[t].n
      PROVE  AttrApplied(t) /\ inode' \in [Nodes -> Inode]
  BY <1>1, <1>5 DEF AttrApplied, ChangedBy
<1>6. ASSUME NEW n \in Nodes, NEW count \in {0, 1}, Apply(t, n, count, TRUE, Idle),
             op \in Versioned
      PROVE  Ended(t) /\ AttrApplied(t) /\ inode' \in [Nodes -> Inode]
  <2>1. ApplyEffect(t, n, TRUE, Idle)
    BY <1>6, IdleRequest, ApplyFacts
  <2>2. Idle.op \notin Versioned
    BY DEF Idle, Versioned
  <2> QED
    BY <1>6, <2>1, <2>2
       DEF ApplyEffect, Ended, AttrApplied, ChangedBy, Versioned
<1>7. ASSUME NEW n \in Nodes, NEW count \in {0, 1}, Apply(t, n, count, FALSE, Idle),
             op \in {"setattr", "create", "mknod"}, op = "setattr" => n = rq[t].n
      PROVE  Ended(t) /\ AttrApplied(t) /\ inode' \in [Nodes -> Inode]
  <2>1. ApplyEffect(t, n, FALSE, Idle)
    BY <1>7, IdleRequest, ApplyFacts
  <2>2. Idle.op \notin Versioned
    BY DEF Idle, Versioned
  <2>3. rq[t].old = {}
    BY <1>2, <1>7 DEF Versioned
  <2> QED
    BY <1>7, <2>1, <2>2, <2>3 DEF ApplyEffect, Ended, AttrApplied, ChangedBy
<1>8. ASSUME NEW n, iget_fails(t, n, Idle)
      PROVE  Ended(t) /\ inode' = inode /\ lost' = lost
  BY <1>8, EndFacts DEF iget_fails, give_back
<1>9. ASSUME NEW x \in Names, NEW d \in Nodes, Agrees(x, d),
             op \in Exclusive \cup Shared,
             op \notin {"unlink", "rmdir"} \cup Moving,
             dcache' = [dcache EXCEPT ![x] = d] \/ dcache' = dcache
      PROVE  DcacheChange(t) /\ dcache' \in [Names -> Dentry]
  BY <1>1, <1>9 DEF DcacheChange, Unsettles
<1>24. ASSUME NEW n \in Nodes, out_put_forget(t, n),
              op \notin {"unlink", "rmdir", "setattr"} \cup Moving,
              op = "link" => n = rq[t].n
       PROVE  Applied(t)
  <2>1. /\ lost' = [lost EXCEPT ![n] = @ + 1] /\ rq' = [rq EXCEPT ![t] = Idle]
        /\ inode' = inode /\ dcache' = dcache
    BY <1>24 DEF out_put_forget
  <2>2. LostKept /\ lost'[n] > 0
    BY <1>1, <2>1 DEF LostKept
  <2>3. AttrApplied(t) /\ inode' \in [Nodes -> Inode]
    BY <1>1, <1>24, <2>1, <2>2 DEF AttrApplied, ChangedBy
  <2>4. Ended(t) /\ DcacheChange(t) /\ dcache' \in [Names -> Dentry]
    BY <1>4, <1>24, <2>1, EndFacts
  <2> QED
    BY <1>1, <2>2, <2>3, <2>4 DEF Applied, Ended, Continues
<1> HIDE DEF op, out
<1>10. ASSUME lookup_done(t) PROVE Applied(t)
  <2>1. op = "lookup" /\ op \in Versioned /\ op \in Shared
        /\ op \notin {"unlink", "rmdir"} \cup Moving
    BY <1>10 DEF lookup_done, op, Versioned, Shared, Moving
  <2>2. CASE out \in Nodes /\ fuse_iget(t, out, TRUE, Idle)
             /\ dcache' = [dcache EXCEPT ![rq[t].x] = out] /\ lost' = lost
    <3>1. Agrees(rq[t].x, out)
      BY <1>1, <2>1, <2>2 DEF ReplyInv, Done, op, out
    <3>2. DcacheChange(t) /\ dcache' \in [Names -> Dentry]
      BY <1>2, <1>9, <2>1, <2>2, <3>1
    <3> QED
      BY <1>3, <1>6, <2>1, <2>2, <3>2 DEF fuse_iget
  <2>3. CASE iget_fails(t, out, Idle) /\ dcache' = dcache
    BY <1>3, <1>4, <1>5, <1>8, <2>1, <2>3
  <2>4. CASE dcache' = [dcache EXCEPT ![rq[t].x] = "negative"]
             /\ rq' = [rq EXCEPT ![t] = Idle] /\ inode' = inode /\ lost' = lost
    <3>1. DcacheChange(t) /\ dcache' \in [Names -> Dentry]
      BY <1>1, <2>1, <2>4 DEF DcacheChange, Unsettles, op
    <3> QED
      BY <1>3, <1>5, <2>1, <2>4, <3>1, EndFacts
  <2>5. CASE /\ rq' = [rq EXCEPT ![t] = Idle] /\ inode' = inode /\ dcache' = dcache
             /\ lost' = lost
    BY <1>3, <1>4, <1>5, <2>1, <2>5, EndFacts
  <2>6. CASE out \in Nodes /\ out_put_forget(t, out)
    BY <1>24, <2>1, <2>6
  <2> QED
    BY <1>10, <2>2, <2>3, <2>4, <2>5, <2>6 DEF lookup_done, out
<1>11. ASSUME revalidate_done(t) PROVE Applied(t)
  <2>1. op = "revalidate" /\ op \in Versioned /\ lost' = lost
        /\ op \notin {"unlink", "rmdir"} \cup Moving
    BY <1>11 DEF revalidate_done, op, Versioned, Moving
  <2>2. CASE Apply(t, rq[t].n, 1, TRUE, Idle) /\ dcache' = dcache
    BY <1>2, <1>3, <1>4, <1>6, <2>1, <2>2
  <2>3. CASE /\ \/ inode' = inode
                \/ inode' = [inode EXCEPT ![rq[t].n].nlookup = @ + 1]
             /\ rq' = Follow([rq EXCEPT ![t] = Idle], Unhashed({rq[t].x}))
             /\ dcache' = IF rq[t].x = None THEN dcache
                          ELSE [dcache EXCEPT ![rq[t].x] = "absent"]
    <3>1. DcacheChange(t) /\ dcache' \in [Names -> Dentry]
      BY <1>1, <2>1, <2>3 DEF DcacheChange, Unsettles, op
    <3>2. Unhashed({rq[t].x}) \in [{rq[t].x} -> MaybeName]
      BY DEF Unhashed, MaybeName
    <3>3. Ended(t)
      BY <2>3, <3>2, EndFollowFacts
    <3>4. AttrApplied(t) /\ inode' \in [Nodes -> Inode]
      <4>1. inode' \in [Nodes -> Inode]
            /\ \A k \in Nodes : inode'[k].attr = inode[k].attr
        BY <1>1, <1>2, <2>1, <2>3 DEF Inode
      <4> QED
        BY <2>1, <4>1 DEF AttrApplied, ChangedBy, op
    <3> QED
      BY <1>3, <2>1, <3>1, <3>3, <3>4
  <2> QED
    BY <1>11, <2>2, <2>3 DEF revalidate_done
<1>12. ASSUME getattr_done(t) PROVE Applied(t)
  <2>1. op = "getattr" /\ op \in Versioned /\ dcache' = dcache /\ lost' = lost
        /\ op \notin {"unlink", "rmdir"} \cup Moving
    BY <1>12 DEF getattr_done, op, Versioned, Moving
  <2>2. CASE Apply(t, rq[t].n, 0, TRUE, Idle)
    BY <1>2, <1>3, <1>4, <1>6, <2>1, <2>2
  <2>3. CASE rq' = [rq EXCEPT ![t] = Idle] /\ inode' = inode
    BY <1>3, <1>4, <1>5, <2>1, <2>3, EndFacts
  <2> QED
    BY <1>12, <2>2, <2>3 DEF getattr_done
<1>13. ASSUME access_done(t) PROVE Applied(t)
  <2>1. op = "access" /\ op \notin {"unlink", "rmdir"} \cup Moving
        /\ rq' = [rq EXCEPT ![t] = Idle] /\ inode' = inode /\ dcache' = dcache
        /\ lost' = lost
    BY <1>13 DEF access_done, op, Moving
  <2> QED
    BY <1>3, <1>4, <1>5, <2>1, EndFacts
<1>14. ASSUME setattr_done(t) PROVE Applied(t)
  <2>1. op = "setattr" /\ dcache' = dcache /\ lost' = lost
        /\ op \notin {"unlink", "rmdir"} \cup Moving
    BY <1>14 DEF setattr_done, op, Moving
  <2>2. CASE Apply(t, rq[t].n, 0, FALSE, Idle)
    BY <1>2, <1>3, <1>4, <1>7, <2>1, <2>2
  <2>3. CASE /\ out # "ok" /\ rq' = [rq EXCEPT ![t] = Idle]
             /\ inode' = inode \/ fuse_invalidate_attr(rq[t].n)
    <3>1. AttrApplied(t) /\ inode' \in [Nodes -> Inode]
      BY <1>1, <2>1, <2>3
         DEF AttrApplied, ChangedBy, fuse_invalidate_attr, Inode, op, out
    <3> QED
      BY <1>3, <1>4, <2>1, <2>3, <3>1, EndFacts
  <2> QED
    BY <1>14, <2>2, <2>3 DEF setattr_done, out
<1>15. ASSUME NewEntry(t, rq[t].x, out), op \in {"create", "mknod"} PROVE Applied(t)
  <2>1. op \in Exclusive /\ op \notin {"unlink", "rmdir"} \cup Moving
        /\ op \notin {"setattr", "unlink", "link"} /\ rq[t].x \in Names
    BY <1>2, <1>15 DEF Exclusive, Moving
  <2>2. CASE out \in Nodes /\ fuse_iget(t, out, FALSE, Idle)
             /\ dcache' = Instantiate(rq[t].x, out) /\ lost' = lost
    <3>1. Agrees(rq[t].x, out)
      BY <1>1, <1>15, <2>2 DEF ReplyInv, Done, op, out
    <3>2. DcacheChange(t) /\ dcache' \in [Names -> Dentry]
      BY <1>9, <2>1, <2>2, <3>1 DEF Instantiate
    <3> QED
      BY <1>3, <1>7, <1>15, <2>1, <2>2, <3>2 DEF fuse_iget
  <2>3. CASE iget_fails(t, out, Idle) /\ dcache' = dcache
    BY <1>3, <1>4, <1>5, <1>8, <2>1, <2>3
  <2>4. CASE /\ rq' = [rq EXCEPT ![t] = Idle] /\ inode' = inode /\ dcache' = dcache
             /\ lost' = lost
    BY <1>3, <1>4, <1>5, <2>1, <2>4, EndFacts
  <2>5. CASE out \in Nodes /\ out_put_forget(t, out)
    BY <1>15, <1>24, <2>1, <2>5
  <2> QED
    BY <1>15, <2>2, <2>3, <2>4, <2>5 DEF NewEntry
<1>16. ASSUME fuse_create_open(t) PROVE Applied(t)
  <2>1. op = "create" /\ op \notin {"unlink", "rmdir"} \cup Moving
    BY <1>16 DEF fuse_create_open, op, Moving
  <2>2. CASE out # "ENOSYS"
    BY <1>15, <1>16, <2>1, <2>2 DEF fuse_create_open, out
  <2>3. CASE out = "ENOSYS"
    <3> DEFINE r == [Idle EXCEPT !.op = "mknod", !.st = "sent", !.x = rq[t].x,
                                 !.q = rq[t].x]
    <3>1. rq' = [rq EXCEPT ![t] = r] /\ inode' = inode /\ dcache' = dcache
          /\ lost' = lost
      BY <1>16, <2>3 DEF fuse_create_open, out
    <3>2. /\ r \in Request /\ r.op = "mknod" /\ r.st = "sent" /\ r.x = rq[t].x
          /\ r.old = {}
      <4>1. rq[t].x \in Names
        BY <1>2, <2>1
      <4> QED
        BY <4>1 DEF Idle, Request, MaybeName
    <3> HIDE DEF r
    <3>3. rq' \in [Threads -> Request] /\ rq'[t] = r
          /\ \A u \in Threads \ {t} : rq'[u] = rq[u]
      BY <3>1, <3>2 DEF TypeOK
    <3>4. Continues(t) /\ OthersKept(t)
      BY <2>1, <2>3, <3>1, <3>2, <3>3 DEF Continues, OthersKept, Similar, op, out
    <3>5. DcacheChange(t) /\ dcache' \in [Names -> Dentry] /\ AttrApplied(t)
          /\ inode' \in [Nodes -> Inode]
      BY <1>4, <1>5, <2>1, <3>1
    <3> QED
      BY <1>1, <1>23, <3>1, <3>3, <3>4, <3>5 DEF Applied
  <2> QED
    BY <2>2, <2>3
<1>17. ASSUME create_new_entry(t) PROVE Applied(t)
  BY <1>15, <1>17 DEF create_new_entry, op, out
<1>18. ASSUME link_done(t) PROVE Applied(t)
  <2>1. op = "link" /\ op \in Exclusive /\ op \notin {"unlink", "rmdir"} \cup Moving
        /\ rq[t].n \in Nodes /\ rq[t].y \in Names
    BY <1>2, <1>18 DEF link_done, op, Exclusive, Moving
  <2>4. CASE out = rq[t].n /\ out_put_forget(t, out)
    BY <1>24, <2>1, <2>4
  <2>2. CASE out = rq[t].n /\ ~out_put_forget(t, out)
    <3>1. /\ lost' = lost
          /\ inode' = [inode EXCEPT ![rq[t].n].nlookup = @ + 1,
                                    ![rq[t].n].attr = "expired"]
          /\ rq' = Bump([rq EXCEPT ![t] = Idle], rq[t].n)
          /\ dcache' = Instantiate(rq[t].y, rq[t].n)
      BY <1>18, <2>2 DEF link_done, out
    <3>2. inode' \in [Nodes -> Inode] /\ inode'[rq[t].n].attr = "expired"
          /\ \A k \in Nodes \ {rq[t].n} : inode'[k] = inode[k]
      BY <1>1, <2>1, <3>1 DEF Inode
    <3>3. Agrees(rq[t].y, rq[t].n)
      BY <1>1, <2>1, <2>2 DEF ReplyInv, Done, op, out
    <3>4. DcacheChange(t) /\ dcache' \in [Names -> Dentry]
      BY <1>9, <2>1, <3>1, <3>3 DEF Instantiate
    <3>5. /\ Ended(t)
          /\ \A u \in Threads \ {t} : rq[u].op \in Versioned
                                      => rq[t].n \in rq'[u].newer
      <4>1. [z \in {} |-> None] \in [{} -> MaybeName]
        OBVIOUS
      <4> QED
        BY <2>1, <3>1, <4>1, EndBumpFollowFacts
    <3>6. AttrApplied(t)
      BY <3>2, <3>5 DEF AttrApplied, ChangedBy
    <3> QED
      BY <1>3, <3>1, <3>2, <3>4, <3>5, <3>6
  <2>3. CASE out # rq[t].n
    <3>1. /\ inode' = inode \/ fuse_invalidate_attr(rq[t].n)
          /\ rq' = [rq EXCEPT ![t] = Idle] /\ dcache' = dcache /\ lost' = lost
      BY <1>18, <2>3 DEF link_done, out
    <3>2. AttrApplied(t) /\ inode' \in [Nodes -> Inode]
      BY <1>1, <2>1, <2>3, <3>1
         DEF AttrApplied, ChangedBy, fuse_invalidate_attr, Inode, op, out
    <3> QED
      BY <1>3, <1>4, <2>1, <3>1, <3>2, EndFacts
  <2> QED
    BY <2>2, <2>3, <2>4
<1>19. ASSUME remove_done(t) PROVE Applied(t)
  <2>1. op \in {"unlink", "rmdir"} /\ rq[t].n \in Nodes /\ rq[t].x \in Names
        /\ lost' = lost
    BY <1>2, <1>19 DEF remove_done, op
  <2>2. Unhashed({rq[t].x}) \in [{rq[t].x} -> MaybeName]
    BY DEF Unhashed, MaybeName
  <2>3. ASSUME \/ dcache' = [dcache EXCEPT ![rq[t].x] = "absent"]
               \/ dcache' = [dcache EXCEPT ![rq[t].x] = "negative"]
               \/ dcache' = dcache /\ dcache[rq[t].x] = "absent"
        PROVE  DcacheChange(t) /\ dcache' \in [Names -> Dentry]
    <3>1. rq[t].y \notin Names
      BY <2>1 DEF OpInv, op
    <3> QED
      BY <1>1, <2>1, <2>3, <3>1 DEF DcacheChange, Unsettles
  <2>4. CASE out = "ok"
    <3>1. DcacheChange(t) /\ dcache' \in [Names -> Dentry]
      BY <1>19, <2>3, <2>4 DEF remove_done, Instantiate, out
    <3>2. CASE op = "unlink"
      <4>1. /\ inode' = [inode EXCEPT ![rq[t].n].attr = "expired"]
            /\ rq' = Follow(Bump([rq EXCEPT ![t] = Idle], rq[t].n),
                            Unhashed({rq[t].x}))
        BY <1>19, <2>4, <3>2 DEF remove_done, fuse_invalidate_attr, op, out
      <4>2. inode' \in [Nodes -> Inode] /\ inode'[rq[t].n].attr = "expired"
            /\ \A k \in Nodes \ {rq[t].n} : inode'[k] = inode[k]
        BY <1>1, <2>1, <4>1 DEF Inode
      <4>3. /\ Ended(t)
            /\ \A u \in Threads \ {t} : rq[u].op \in Versioned
                                        => rq[t].n \in rq'[u].newer
        BY <2>1, <2>2, <4>1, EndBumpFollowFacts
      <4>4. AttrApplied(t)
        BY <4>2, <4>3 DEF AttrApplied, ChangedBy
      <4> QED
        BY <1>3, <2>1, <3>1, <4>2, <4>3, <4>4
    <3>3. CASE op = "rmdir"
      <4>1. /\ inode' = inode
            /\ rq' = Follow([rq EXCEPT ![t] = Idle], Unhashed({rq[t].x}))
        BY <1>19, <2>4, <3>3 DEF remove_done, op, out
      <4>2. Ended(t)
        BY <2>2, <4>1, EndFollowFacts
      <4> QED
        BY <1>3, <1>5, <2>1, <3>1, <3>3, <4>1, <4>2
    <3> QED
      BY <2>1, <3>2, <3>3
  <2>5. CASE out = "EINTR"
    <3>1. /\ inode' = inode /\ dcache' = [dcache EXCEPT ![rq[t].x] = "absent"]
          /\ rq' = Follow([rq EXCEPT ![t] = Idle], Unhashed({rq[t].x}))
      BY <1>19, <2>5 DEF remove_done, out
    <3>2. Ended(t)
      BY <2>2, <3>1, EndFollowFacts
    <3> QED
      BY <1>3, <1>5, <2>1, <2>3, <2>5, <3>1, <3>2
  <2>6. CASE out \notin {"ok", "EINTR"}
    <3>1. rq' = [rq EXCEPT ![t] = Idle] /\ inode' = inode /\ dcache' = dcache
      BY <1>19, <2>6 DEF remove_done, out
    <3> QED
      BY <1>3, <1>4, <1>5, <2>1, <2>6, <3>1, EndFacts
  <2> QED
    BY <2>4, <2>5, <2>6
<1>20. ASSUME rename_done(t) PROVE Applied(t)
  <2> DEFINE x == rq[t].x  y == rq[t].y
  <2>1. /\ op \in Moving /\ op \in Exclusive /\ x \in Names /\ y \in Names /\ x # y
        /\ rq[t].n \in Nodes /\ (op = "exchange" => rq[t].m \in Nodes)
        /\ op \notin {"setattr", "unlink", "link"} /\ lost' = lost
    BY <1>2, <1>20 DEF rename_done, op, Moving, Exclusive
  <2>2. CASE out = "ok"
    <3> DEFINE f == [z \in {x, y} |-> IF z = x THEN y
                                      ELSE IF op = "exchange" THEN x ELSE None]
    <3>1. /\ inode' = [n \in Nodes |-> IF n \in {rq[t].n, rq[t].m}
                         THEN [inode[n] EXCEPT !.attr = "expired"] ELSE inode[n]]
          /\ dcache' = [dcache EXCEPT ![y] = rq[t].n,
                          ![x] = IF op = "exchange" THEN rq[t].m ELSE "absent"]
          /\ rq' = Follow([rq EXCEPT ![t] = Idle], f)
      BY <1>20, <2>2 DEF rename_done, op, out
    <3>2. inode' \in [Nodes -> Inode]
          /\ \A n \in Nodes : inode'[n].attr = "undone" => inode[n].attr = "undone"
      BY <1>1, <3>1 DEF Inode
    <3>3. AttrApplied(t)
      BY <2>1, <3>2 DEF AttrApplied, ChangedBy, op
    <3>4. f \in [{x, y} -> MaybeName]
      BY <2>1 DEF MaybeName
    <3>5. Ended(t)
      <4> HIDE DEF f
      <4> QED
        BY <3>1, <3>4, EndFollowFacts
    <3>6. Agrees(y, rq[t].n) /\ (op = "exchange" => Agrees(x, rq[t].m))
      BY <1>1, <2>1, <2>2 DEF ReplyInv, Done, op, out
    <3>7. DcacheChange(t) /\ dcache' \in [Names -> Dentry]
      <4>1. dcache' \in [Names -> Dentry] /\ dcache'[y] = rq[t].n
            /\ dcache'[x] = (IF op = "exchange" THEN rq[t].m ELSE "absent")
            /\ \A z \in Names \ {x, y} : dcache'[z] = dcache[z]
        BY <1>1, <2>1, <3>1
      <4> QED
        BY <1>1, <2>1, <3>6, <4>1 DEF DcacheChange, Unsettles, op
    <3> QED
      BY <1>3, <2>1, <3>2, <3>3, <3>5, <3>7
  <2>3. CASE out = "EINTR"
    <3>1. /\ inode' = inode
          /\ dcache' = [dcache EXCEPT ![x] = "absent",
                          ![y] = IF @ \in Nodes THEN "absent" ELSE @]
          /\ rq' = Follow([rq EXCEPT ![t] = Idle], Unhashed({x, y}))
      BY <1>20, <2>3 DEF rename_done, out
    <3>2. Unhashed({x, y}) \in [{x, y} -> MaybeName]
      BY DEF Unhashed, MaybeName
    <3>3. Ended(t)
      BY <3>1, <3>2, EndFollowFacts
    <3>4. DcacheChange(t) /\ dcache' \in [Names -> Dentry]
      <4>1. dcache' \in [Names -> Dentry] /\ dcache'[y] \notin Nodes
            /\ dcache'[x] \notin Nodes
            /\ \A z \in Names \ {x, y} : dcache'[z] = dcache[z]
        BY <1>1, <2>1, <3>1
      <4> QED
        BY <4>1 DEF DcacheChange, Unsettles
    <3> QED
      BY <1>3, <1>5, <2>1, <3>1, <3>3, <3>4
  <2>4. CASE out \notin {"ok", "EINTR"}
    <3>1. rq' = [rq EXCEPT ![t] = Idle] /\ inode' = inode /\ dcache' = dcache
      BY <1>20, <2>4 DEF rename_done, out
    <3> QED
      BY <1>3, <1>4, <1>5, <2>1, <2>4, <3>1, EndFacts
  <2> QED
    BY <2>2, <2>3, <2>4
<1>21. ASSUME get_dentry_done(t) PROVE Applied(t)
  <2>1. op = "get_dentry" /\ op \in Versioned /\ dcache' = dcache
        /\ op \notin {"unlink", "rmdir"} \cup Moving
    BY <1>21 DEF get_dentry_done, out_put_forget, op, Versioned, Moving
  <2>2. CASE out \in Nodes /\ fuse_iget(t, out, TRUE, Idle) /\ lost' = lost
    BY <1>3, <1>4, <1>6, <2>1, <2>2 DEF fuse_iget
  <2>3. CASE iget_fails(t, out, Idle)
    BY <1>3, <1>4, <1>5, <1>8, <2>1, <2>3
  <2>4. CASE rq' = [rq EXCEPT ![t] = Idle] /\ inode' = inode /\ lost' = lost
    BY <1>3, <1>4, <1>5, <2>1, <2>4, EndFacts
  <2>5. CASE out \in Nodes /\ out_put_forget(t, out)
    BY <1>24, <2>1, <2>5
  <2> QED
    BY <1>21, <2>2, <2>3, <2>4, <2>5 DEF get_dentry_done, out
<1>22. ASSUME readdir_done(t) PROVE Applied(t)
  <2>1. op = "readdirplus" /\ inode' = inode /\ dcache' = dcache /\ lost' = lost
        /\ op \notin {"unlink", "rmdir"} \cup Moving
    BY <1>22 DEF readdir_done, op, Moving
  <2>2. CASE rq' = [rq EXCEPT ![t] = Idle]
    BY <1>3, <1>4, <1>5, <2>1, <2>2, EndFacts
  <2>3. CASE rq' = [rq EXCEPT ![t] = [@ EXCEPT !.st = "linking"]]
    <3> DEFINE r == [rq[t] EXCEPT !.st = "linking"]
    <3>1. /\ r \in Request /\ r.op = rq[t].op /\ r.st = "linking"
          /\ r.todo = rq[t].todo /\ r.old = rq[t].old /\ r.gone = rq[t].gone
          /\ r.newer = rq[t].newer
      BY <1>1 DEF Request
    <3>2. rq' = [rq EXCEPT ![t] = r]
      BY <2>3 DEF TypeOK
    <3> HIDE DEF r
    <3>3. rq' \in [Threads -> Request] /\ rq'[t] = r
          /\ \A u \in Threads \ {t} : rq'[u] = rq[u]
      BY <3>1, <3>2 DEF TypeOK
    <3>4. Continues(t) /\ OthersKept(t)
      BY <2>1, <3>1, <3>3 DEF Continues, OthersKept, Similar, op
    <3>5. DcacheChange(t) /\ dcache' \in [Names -> Dentry] /\ AttrApplied(t)
          /\ inode' \in [Nodes -> Inode]
      BY <1>4, <1>5, <2>1
    <3> QED
      BY <1>1, <1>23, <2>1, <3>3, <3>4, <3>5 DEF Applied
  <2> QED
    BY <1>22, <2>2, <2>3 DEF readdir_done
<1> QED
  BY <1>10, <1>11, <1>12, <1>13, <1>14, <1>16, <1>17, <1>18, <1>19, <1>20, <1>21,
      <1>22 DEF Finish

LEMMA LinkFacts ==
    ASSUME TypeOK, OpInv, ReplyInv, NEW t \in Threads, fuse_direntplus_link(t)
    PROVE  Applied(t)
<1>1. PICK e \in rq[t].todo :
        LET rest == rq[t].todo \ {e}
            r == IF rest = {} THEN Idle ELSE [rq[t] EXCEPT !.todo = rest]
        IN  /\ rq[t].st = "linking" /\ UNCHANGED <<dirent, pend, raced, lost>>
            /\ \/ /\ Apply(t, e[2], 1, TRUE, r)
                  /\ dcache' = [dcache EXCEPT ![e[1]] = e[2]]
               \/ /\ give_back(t, e[2], r)
                  /\ \/ dcache' = [dcache EXCEPT ![e[1]] = "absent"]
                     \/ dcache' = dcache
  BY DEF fuse_direntplus_link, Quiet, iget_fails, give_back
<1> DEFINE rest == rq[t].todo \ {e}
           r == IF rest = {} THEN Idle ELSE [rq[t] EXCEPT !.todo = rest]
<1>2. /\ rq[t] \in Request /\ rq[t].op = "readdirplus" /\ e[1] \in Names /\ e[2] \in Nodes
      /\ dcache \in [Names -> Dentry] /\ inode \in [Nodes -> Inode]
      /\ Agrees(e[1], e[2]) /\ rq[t].st = "linking" /\ UNCHANGED <<dirent, pend, raced>>
      /\ LostKept
  <2>1. rq[t] \in Request /\ rq[t].op = "readdirplus"
    BY <1>1 DEF TypeOK, OpInv
  <2>2. e \in Names \X Nodes
    BY <2>1 DEF Request
  <2> QED
    BY <1>1, <2>1, <2>2 DEF TypeOK, ReplyInv, LostKept
<1>3. \/ r = Idle
      \/ /\ r \in Request /\ r.op = "readdirplus" /\ r.st = "linking"
         /\ r.todo = rest /\ r.old = rq[t].old /\ r.gone = rq[t].gone
         /\ r.newer = rq[t].newer
  BY <1>2 DEF Request
<1>4. r \in Request /\ Idle.op \notin Versioned
  BY <1>3, IdleRequest DEF Idle, Versioned
<1>5. rest \subseteq rq[t].todo
  OBVIOUS
<1>6. /\ rq[t].op \in Shared /\ rq[t].op \notin {"unlink", "rmdir"} \cup Moving
      /\ rq[t].op \notin {"setattr", "link", "unlink"}
      /\ "absent" \notin Nodes /\ "absent" \in Dentry /\ Nodes \subseteq Dentry
  BY <1>2 DEF Shared, Moving, Dentry
<1>7. CASE Apply(t, e[2], 1, TRUE, r) /\ dcache' = [dcache EXCEPT ![e[1]] = e[2]]
  <2>1. ApplyEffect(t, e[2], TRUE, r)
    BY <1>2, <1>4, <1>7, ApplyFacts
  <2> HIDE DEF r, rest
  <2>2. Continues(t)
    <3>1. CASE r = Idle
      BY <1>4, <2>1, <3>1 DEF ApplyEffect, Continues
    <3>2. CASE r # Idle
      BY <1>2, <1>3, <1>5, <2>1, <3>2 DEF ApplyEffect, Continues, Similar
    <3> QED
      BY <3>1, <3>2
  <2>3. AttrApplied(t)
    BY <1>6, <2>1 DEF ApplyEffect, AttrApplied, ChangedBy
  <2>4. DcacheChange(t) /\ dcache' \in [Names -> Dentry]
    BY <1>2, <1>6, <1>7 DEF DcacheChange, Unsettles
  <2> QED
    BY <1>2, <2>1, <2>2, <2>3, <2>4 DEF Applied, ApplyEffect
<1>8. CASE /\ give_back(t, e[2], r)
           /\ \/ dcache' = [dcache EXCEPT ![e[1]] = "absent"]
              \/ dcache' = dcache
  <2>1. rq' = [rq EXCEPT ![t] = r] /\ inode' = inode
    BY <1>8 DEF give_back
  <2> HIDE DEF r, rest
  <2>2. rq' \in [Threads -> Request] /\ rq'[t] = r
        /\ \A u \in Threads \ {t} : rq'[u] = rq[u]
    BY <1>4, <2>1 DEF TypeOK
  <2>3. OthersKept(t)
    BY <2>2 DEF OthersKept, Similar
  <2>4. Continues(t)
    BY <1>2, <1>3, <1>5, <2>2 DEF Continues
  <2>5. AttrApplied(t)
    BY <1>6, <2>1 DEF AttrApplied, ChangedBy
  <2>6. DcacheChange(t) /\ dcache' \in [Names -> Dentry]
    BY <1>2, <1>6, <1>8 DEF DcacheChange, Unsettles
  <2> QED
    BY <1>2, <2>1, <2>2, <2>3, <2>4, <2>5, <2>6 DEF Applied
<1> QED
  BY <1>1, <1>7, <1>8

(* A malformed name: the rest of the reply is dropped.                     *)
LEMMA ParseErrorFacts ==
    ASSUME TypeOK, OpInv, NEW t \in Threads, parse_dirplusfile_eio(t)
    PROVE  Applied(t)
<1>1. /\ rq[t].op = "readdirplus" /\ rq[t].st = "linking" /\ rq[t] \in Request
      /\ UNCHANGED <<dirent, pend, raced, dcache, inode>>
      /\ rq' = [rq EXCEPT ![t] = Idle]
      /\ lost' = [n \in Nodes |-> lost[n] + Count(rq[t].todo, n)]
  BY DEF parse_dirplusfile_eio, Quiet, OpInv, TypeOK
<1>2. \A n \in Nodes : Count(rq[t].todo, n) \in Nat
  <2>1. \A n : Count(rq[t].todo, n) = Cardinality(Listed(rq[t], n))
    BY DEF Count, Listed
  <2> QED
    BY <1>1, <2>1, ListedFinite
<1>3. LostKept
  BY <1>1, <1>2 DEF LostKept, TypeOK
<1>4. Ended(t)
  BY <1>1, EndFacts
<1>5. DcacheChange(t) /\ AttrApplied(t)
      /\ dcache' \in [Names -> Dentry] /\ inode' \in [Nodes -> Inode]
  BY <1>1 DEF DcacheChange, AttrApplied, Unsettles, ChangedBy, Moving, TypeOK
<1> QED
  BY <1>1, <1>3, <1>4, <1>5 DEF Applied, Ended, Continues

-----------------------------------------------------------------------------
(* Every step is one of these: a thread begins, is answered or applies a   *)
(* reply, or one of the caches or the daemon's directory changes.          *)
LEMMA BeganStep ==
    ASSUME EntryInv, NEW t \in Threads, Began(t) PROVE EntryInv'
<1> USE DEF EntryInv
<1> DEFINE r == rq'[t]
<1>1. /\ r \in Request /\ r.st = "sent" /\ rq'[t] = r
      /\ \A u \in Threads \ {t} : rq'[u] = rq[u]
      /\ rq' \in [Threads -> Request]
      /\ UNCHANGED <<dirent, pend, raced, dcache, inode, lost>>
  BY DEF Began, TypeOK
<1>2. TypeOK'
  BY <1>1 DEF TypeOK
<1>3. OpInv'
  <2>1. ASSUME NEW u \in Threads, u # t PROVE OpInv!(u)'
    BY <1>1, <2>1 DEF OpInv
  <2>2. OpInv!(t)'
    BY <1>1 DEF Began, OpInv, Versioned, Moving
  <2> QED
    BY <2>1, <2>2 DEF OpInv
<1>4. LockInv'
  <2>1. \A u \in Threads : rq[u].op \in Exclusive \cup Shared => rq[u].st # "idle"
    BY DEF OpInv, Exclusive, Shared
  <2>2. r.op \in Exclusive => \A u \in Threads : rq[u].op \notin Exclusive \cup Shared
    BY <2>1 DEF Began, CanExclude, InOps, Busy, Exclusive, Shared, Moving
  <2>3. r.op \in Shared => \A u \in Threads : rq[u].op \notin Exclusive
    BY <2>1 DEF Began, CanShare, InOps, Busy, Exclusive, Shared, Moving
  <2> QED
    BY <1>1, <2>2, <2>3 DEF LockInv
<1>5. ReplyInv'
  <2>1. r.op \in Moving => /\ Agrees(r.x, r.n)
                           /\ r.op = "exchange" => Agrees(r.y, r.m)
    <3>1. ASSUME r.op \in Moving PROVE \A u \in Threads : ~InOps(u, Exclusive)
      BY <3>1 DEF Began, CanExclude, InOps, Moving
    <3>2. ASSUME r.op \in Moving PROVE \A x \in Names : ~Unsettled(x)
      BY <3>1, <3>2 DEF Unsettled, InOps, Busy, Done, Exclusive, Moving
    <3> QED
      BY <3>2 DEF DentryInv, Agrees, Began, Moving
  <2>2. ASSUME NEW u \in Threads, u # t PROVE ReplyInv!(u)'
    BY <1>1, <2>2 DEF ReplyInv, Agrees, Done, Sent
  <2>3. ReplyInv!(t)'
    BY <1>1, <2>1 DEF ReplyInv, Agrees, Done, Sent, Began, Moving
  <2> QED
    BY <2>2, <2>3 DEF ReplyInv
<1>6. NewNameInv'
  BY <1>1 DEF NewNameInv, Began, Moving
<1>7. DentryInv'
  <2>1. \A x \in Names : Unsettled(x) => Unsettled(x)'
    BY <1>1 DEF Unsettled, Done, Began
  <2> QED
    BY <1>1, <2>1 DEF DentryInv
<1> QED
  BY <1>2, <1>3, <1>4, <1>5, <1>6, <1>7

LEMMA ServedStep ==
    ASSUME EntryInv, NEW t \in Threads, Served(t) PROVE EntryInv'
<1> USE DEF EntryInv
<1>1. /\ rq' \in [Threads -> Request] /\ rq[t].st = "sent" /\ rq'[t].st = "done"
      /\ rq'[t].op = rq[t].op /\ rq'[t].x = rq[t].x /\ rq'[t].y = rq[t].y
      /\ rq'[t].q = rq[t].q /\ rq'[t].n = rq[t].n /\ rq'[t].m = rq[t].m
      /\ rq'[t].old = rq[t].old
      /\ \A u \in Threads \ {t} : /\ Similar(rq'[u], rq[u])
                                  /\ rq[u].op \notin Versioned
                                     => rq'[u].old = rq[u].old
      /\ pend' = pend /\ dcache' = dcache /\ lost' = lost
  BY DEF Served, Answered, SameVersions
<1>2. TypeOK'
  <2>1. raced' \subseteq Names
    BY DEF Served, DirentChange, Moves, TypeOK
  <2> QED
    BY <1>1, <2>1 DEF TypeOK, Served
<1>3. OpInv'
  BY <1>1 DEF OpInv, Similar, Moving
<1>4. LockInv'
  BY <1>1 DEF LockInv, Similar
<1>5. NewNameInv'
  BY <1>1 DEF NewNameInv, Similar
<1>6. ReplyInv'
  <2>1. ASSUME NEW u \in Threads, u # t PROVE ReplyInv!(u)'
    <3>1. Similar(rq'[u], rq[u])
      BY <1>1, <2>1
    <3>2. CASE dirent' = dirent /\ raced' = raced
      BY <1>1, <3>1, <3>2 DEF ReplyInv, Agrees, Done, Sent, Similar, Moving
    <3>3. CASE ~(dirent' = dirent /\ raced' = raced)
      <4>1. rq[t].op \in Exclusive
        BY <3>3 DEF Served, DirentChange, EntryChange, Moves, Exclusive, Moving
      <4>2. rq[u].op \notin Exclusive \cup Shared
        BY <2>1, <4>1 DEF LockInv
      <4> QED
        BY <3>1, <4>2 DEF ReplyInv, Exclusive, Shared, Similar, Moving
    <3> QED
      BY <3>2, <3>3
  <2>2. ReplyInv!(t)'
    <3>1. CASE EntryChange(t) /\ raced' = raced
      BY <1>1, <3>1 DEF ReplyInv, OpInv, Agrees, Done, Sent, EntryChange, Moving,
          Entries, TypeOK
    <3>2. CASE Moves(t)
      BY <1>1, <3>2 DEF ReplyInv, OpInv, Agrees, Done, Sent, Moves, Moving, TypeOK
    <3> QED
      BY <3>1, <3>2 DEF Served, DirentChange
  <2> QED
    BY <2>1, <2>2 DEF ReplyInv
<1>7. DentryInv'
  <2>1. \A x \in Names : Unsettled(x) => Unsettled(x)'
    BY <1>1 DEF Unsettled, Done, Similar, Moving
  <2>2. ASSUME NEW x \in Names,
               \/ dirent'[x] # dirent[x]
               \/ x \in raced /\ x \notin raced'
        PROVE  dcache[x] \notin Nodes \/ Unsettled(x)'
    <3>1. CASE EntryChange(t) /\ raced' = raced
      BY <1>1, <2>2, <3>1 DEF EntryChange, Unsettled, Done, NewNameInv, TypeOK,
          OpInv, Moving
    <3>2. CASE Moves(t)
      BY <1>1, <2>2, <3>2 DEF Moves, Unsettled, Done, TypeOK, OpInv, Moving
    <3> QED
      BY <3>1, <3>2 DEF Served, DirentChange
  <2> QED
    BY <1>1, <2>1, <2>2 DEF DentryInv
<1> QED
  BY <1>2, <1>3, <1>4, <1>5, <1>6, <1>7

LEMMA AppliedStep ==
    ASSUME EntryInv, NEW t \in Threads, Applied(t) PROVE EntryInv'
<1> USE DEF EntryInv
<1>1. /\ \A u \in Threads \ {t} : Similar(rq'[u], rq[u]) /\ rq'[u].old = rq[u].old
      /\ UNCHANGED <<dirent, pend, raced>>
  BY DEF Applied, OthersKept
<1>2. \/ rq'[t].op = "idle" /\ rq'[t].st = "idle" /\ rq'[t].old = {}
      \/ /\ rq[t].op = "create" /\ dcache' = dcache /\ rq'[t].op = "mknod"
         /\ rq'[t].st = "sent" /\ rq'[t].x = rq[t].x /\ rq'[t].old = {}
      \/ /\ rq[t].op = "readdirplus" /\ rq'[t].op = "readdirplus"
         /\ rq'[t].st = "linking" /\ rq'[t].todo \subseteq rq[t].todo
  BY DEF Applied, Continues, Idle
<1>3. TypeOK'
  BY <1>1 DEF TypeOK, Applied, LostKept
<1>4. OpInv'
  <2>1. ASSUME NEW u \in Threads, u # t PROVE OpInv!(u)'
    BY <1>1, <2>1 DEF OpInv, Similar, Moving
  <2>2. OpInv!(t)'
    BY <1>2 DEF OpInv, Versioned, Moving
  <2> QED
    BY <2>1, <2>2 DEF OpInv
<1>5. LockInv'
  BY <1>1, <1>2 DEF LockInv, Similar, Exclusive, Shared
<1>6. ReplyInv'
  <2>1. ASSUME NEW u \in Threads, u # t PROVE ReplyInv!(u)'
    BY <1>1, <2>1 DEF ReplyInv, Agrees, Done, Sent, Similar, Moving
  <2>2. ReplyInv!(t)'
    BY <1>1, <1>2 DEF ReplyInv, Agrees, Done, Sent, Moving
  <2> QED
    BY <2>1, <2>2 DEF ReplyInv
<1>7. NewNameInv'
  <2>1. ASSUME NEW u \in Threads, u # t PROVE NewNameInv!(u)'
    <3>1. ASSUME rq[u].op \in {"create", "mknod", "link"}
          PROVE  rq[t].op \notin Exclusive \cup Shared
      BY <2>1, <3>1 DEF LockInv, Exclusive
    <3>2. ASSUME rq[u].op \in {"create", "mknod", "link"}, NEW z \in Names,
                 dcache[z] \notin Nodes
          PROVE  dcache'[z] \notin Nodes
      BY <3>1, <3>2 DEF Applied, DcacheChange
    <3> QED
      BY <1>1, <2>1, <3>2 DEF NewNameInv, OpInv, Similar
  <2>2. NewNameInv!(t)'
    BY <1>2 DEF NewNameInv
  <2> QED
    BY <2>1, <2>2 DEF NewNameInv
<1>8. DentryInv'
  <2>1. ASSUME NEW x \in Names, Unsettled(x), ~Unsettles(t, x) PROVE Unsettled(x)'
    BY <1>1, <2>1 DEF Unsettled, Unsettles, Done, Similar, Moving
  <2> QED
    BY <1>1, <2>1 DEF DentryInv, Applied, DcacheChange, Agrees
<1> QED
  BY <1>3, <1>4, <1>5, <1>6, <1>7, <1>8

(* The caches shrink, the daemon changes an entry or invalidates it.       *)
LEMMA DropStep ==
    ASSUME EntryInv, NEW x \in Names, UNCHANGED <<dirent, pend, raced, inode, lost, rq>>,
           dcache' = [dcache EXCEPT ![x] = "absent"]
    PROVE  EntryInv'
  BY DEF EntryInv, TypeOK, OpInv, LockInv, ReplyInv, NewNameInv, DentryInv, Unsettled,
      Agrees, Done, Sent, Dentry, Moving

LEMMA DaemonStep ==
    ASSUME EntryInv, NEW x \in Names, DaemonChange(x) PROVE EntryInv'
<1>1. /\ UNCHANGED <<raced, dcache, inode, lost, rq>> /\ pend' = pend \cup {x}
      /\ dirent' \in [Names -> Nodes \cup {None}]
      /\ \A z \in Names \ {x} : dirent'[z] = dirent[z]
  BY DEF DaemonChange, EntryInv, TypeOK
<1>2. \A z, n : Agrees(z, n) /\ z \in Names => Agrees(z, n)'
  BY <1>1 DEF Agrees
<1>3. ReplyInv'
  BY <1>1, <1>2 DEF EntryInv, TypeOK, Request, ReplyInv, OpInv, Done, Sent, Moving
<1> QED
  BY <1>1, <1>3 DEF EntryInv, TypeOK, OpInv, LockInv, NewNameInv, DentryInv, Unsettled,
      Done, Moving

LEMMA InvalStep ==
    ASSUME EntryInv, NEW x \in Names, fuse_reverse_inval_entry(x) PROVE EntryInv'
<1> USE DEF EntryInv
<1>1. /\ UNCHANGED <<dirent, inode, lost>> /\ CanExclude
      /\ pend' = pend \ {x} /\ raced' = raced \ {x}
      /\ dcache' = [dcache EXCEPT ![x] = "absent"]
      /\ rq' = Follow(rq, Unhashed({x}))
  BY DEF fuse_reverse_inval_entry
<1>2. /\ rq' \in [Threads -> Request]
      /\ \A u \in Threads : Similar(rq'[u], rq[u]) /\ SameVersions(rq'[u], rq[u])
  <2>1. Unhashed({x}) \in [{x} -> MaybeName] /\ rq \in [Threads -> Request]
    BY DEF Unhashed, MaybeName, TypeOK
  <2> QED
    BY <1>1, <2>1, FollowKeeps
<1>3. \A u \in Threads : rq[u].op \notin Exclusive \cup Shared
  BY <1>1 DEF CanExclude, InOps, Busy, OpInv, Exclusive, Shared
<1>4. TypeOK' /\ OpInv' /\ LockInv'
  <2>1. TypeOK'
    BY <1>1, <1>2 DEF TypeOK, Dentry
  <2>2. OpInv'
    BY <1>2 DEF OpInv, Similar, SameVersions, Moving
  <2>3. LockInv'
    BY <1>2, <1>3 DEF LockInv, Similar
  <2> QED
    BY <2>1, <2>2, <2>3
<1>5. ReplyInv' /\ NewNameInv'
  BY <1>2, <1>3 DEF ReplyInv, NewNameInv, Similar, Exclusive, Shared, Moving
<1>6. DentryInv'
  <2>1. \A z \in Names : ~Unsettled(z)
    BY <1>3 DEF Unsettled, Exclusive, Moving
  <2> QED
    BY <1>1, <2>1 DEF DentryInv, TypeOK
<1> QED
  BY <1>4, <1>5, <1>6

LEMMA EvictFacts ==
    ASSUME TypeOK, NEW n \in Nodes, fuse_evict_inode(n)
    PROVE  /\ UNCHANGED <<dirent, pend, raced, dcache, lost>>
           /\ inode' \in [Nodes -> Inode] /\ inode'[n].attr = "expired"
           /\ \A k \in Nodes \ {n} : inode'[k] = inode[k]
           /\ rq' \in [Threads -> Request]
           /\ \A u \in Threads :
                /\ Similar(rq'[u], rq[u]) /\ rq'[u].x = rq[u].x
                /\ rq'[u].old = rq[u].old
                /\ rq[u].newer \cup rq[u].gone \subseteq rq'[u].newer \cup rq'[u].gone
<1>1. /\ UNCHANGED <<dirent, pend, raced, dcache, lost>>
      /\ inode' = [inode EXCEPT ![n] = NoInode]
      /\ rq' = [u \in Threads |-> IF rq[u].op \in Versioned
                  THEN [rq[u] EXCEPT !.newer = @ \ {n}, !.gone = @ \cup {n}]
                  ELSE rq[u]]
  BY DEF fuse_evict_inode
<1>2. NoInode \in Inode /\ NoInode.attr = "expired"
  BY DEF NoInode, Inode
<1> DEFINE G(a) == [a EXCEPT !.newer = @ \ {n}, !.gone = @ \cup {n}]
<1>3. ASSUME NEW a \in Request
      PROVE  /\ G(a) \in Request /\ Similar(G(a), a)
             /\ G(a).x = a.x /\ G(a).old = a.old
             /\ a.newer \cup a.gone \subseteq G(a).newer \cup G(a).gone
  BY DEF Request, Similar
<1>4. ASSUME NEW u \in Threads
      PROVE  /\ rq'[u] \in Request
             /\ Similar(rq'[u], rq[u]) /\ rq'[u].x = rq[u].x
             /\ rq'[u].old = rq[u].old
             /\ rq[u].newer \cup rq[u].gone \subseteq rq'[u].newer \cup rq'[u].gone
  <2>1. rq[u] \in Request /\ Similar(rq[u], rq[u])
    BY DEF TypeOK, Similar
  <2>2. rq'[u] = G(rq[u]) \/ rq'[u] = rq[u]
    BY <1>1
  <2> HIDE DEF G
  <2> QED
    BY <1>3, <2>1, <2>2
<1> QED
  BY <1>1, <1>2, <1>4 DEF TypeOK

LEMMA EvictStep ==
    ASSUME EntryInv, NEW n \in Nodes, fuse_evict_inode(n) PROVE EntryInv'
<1>1. /\ UNCHANGED <<dirent, pend, raced, dcache, lost>> /\ inode' \in [Nodes -> Inode]
      /\ rq' \in [Threads -> Request]
      /\ \A u \in Threads : Similar(rq'[u], rq[u]) /\ rq'[u].x = rq[u].x
                            /\ rq'[u].old = rq[u].old
  BY EvictFacts DEF EntryInv
<1> QED
  BY <1>1 DEF EntryInv, TypeOK, OpInv, LockInv, ReplyInv, NewNameInv, DentryInv,
      Unsettled, Agrees, Done, Sent, Similar, Moving

(* EntryInv holds initially: what has been looked up is what the daemon    *)
(* has, and no operation is under way.                                     *)
LEMMA EntryInvInit == Init => EntryInv
<1> SUFFICES ASSUME Init PROVE EntryInv
  OBVIOUS
<1>1. PICK Warm \in SUBSET {x \in Names : dirent[x] # None} :
        LET Found(n) == Cardinality({x \in Warm : dirent[x] = n})
        IN  /\ dcache = [x \in Names |-> IF x \in Warm THEN dirent[x] ELSE "absent"]
            /\ inode = [n \in Nodes |-> IF Found(n) = 0 THEN NoInode
                         ELSE [present |-> TRUE, nlookup |-> Found(n),
                               attr |-> "fresh"]]
  BY DEF Init
<1> DEFINE Found(n) == Cardinality({x \in Warm : dirent[x] = n})
<1>2. \A n : Found(n) \in Nat
  <2> TAKE n
  <2>1. IsFiniteSet({x \in Warm : dirent[x] = n})
    BY FS_Subset
  <2> QED
    BY <2>1, FS_CardinalityType
<1>3. inode \in [Nodes -> Inode]
  <2> HIDE DEF Found
  <2> QED
    BY <1>1, <1>2 DEF Inode, NoInode, Found
<1>4. /\ dirent \in [Names -> Nodes \cup {None}] /\ pend = {} /\ raced = {}
      /\ lost = [n \in Nodes |-> 0]
      /\ rq = [t \in Threads |-> Idle]
  BY DEF Init
<1>5. /\ \A t \in Threads : rq[t] = Idle
      /\ Idle.op = "idle" /\ Idle.st = "idle" /\ Idle.old = {}
  BY <1>4 DEF Idle
<1>6. dcache \in [Names -> Dentry]
      /\ \A x \in Names : dcache[x] \in Nodes => dirent[x] = dcache[x]
  BY <1>1, <1>4 DEF Dentry
<1>7. TypeOK
  BY <1>3, <1>4, <1>6, IdleRequest DEF TypeOK
<1> QED
  BY <1>4, <1>5, <1>6, <1>7 DEF EntryInv, OpInv, LockInv, ReplyInv, NewNameInv,
      DentryInv, Exclusive, Moving

(* The steps of the model, by what they do to the state above.             *)
LEMMA StepCases ==
    ASSUME EntryInv, [Next]_vars
    PROVE  \/ \E t \in Threads : Began(t) \/ Served(t) \/ Applied(t)
           \/ \E x \in Names : /\ UNCHANGED <<dirent, pend, raced, inode, lost, rq>>
                               /\ dcache' = [dcache EXCEPT ![x] = "absent"]
           \/ \E x \in Names : fuse_reverse_inval_entry(x) \/ DaemonChange(x)
           \/ \E n \in Nodes : fuse_evict_inode(n)
           \/ UNCHANGED <<dirent, pend, raced, dcache, inode, lost, rq>>
<1>1. ASSUME NEW t \in Threads, Start(t) PROVE Began(t)
  BY <1>1, StartFacts DEF EntryInv
<1>2. ASSUME NEW t \in Threads, Serve(t) PROVE Served(t)
  BY <1>2, ServeFacts DEF EntryInv
<1>3. ASSUME NEW t \in Threads,
             \/ Finish(t)
             \/ fuse_direntplus_link(t) \/ parse_dirplusfile_eio(t)
      PROVE  Applied(t)
  BY <1>3, FinishFacts, LinkFacts, ParseErrorFacts DEF EntryInv
<1>4. ASSUME NEW x \in Names, revalidate_negative(x) \/ ShrinkDentry(x)
      PROVE  /\ UNCHANGED <<dirent, pend, raced, inode, lost, rq>>
             /\ dcache' = [dcache EXCEPT ![x] = "absent"]
  BY <1>4 DEF revalidate_negative, ShrinkDentry
<1>5. CASE ReadForget
  BY <1>5 DEF ReadForget
<1>6. CASE UNCHANGED vars
  BY <1>6 DEF vars
<1> QED
  BY <1>1, <1>2, <1>3, <1>4, <1>5, <1>6 DEF Next

(* The inductive invariant of the directory.                               *)
THEOREM EntryInvariant == Spec => []EntryInv
<1>1. ASSUME EntryInv, [Next]_vars PROVE EntryInv'
  <2>1. ASSUME UNCHANGED <<dirent, pend, raced, dcache, inode, lost, rq>> PROVE EntryInv'
    BY <1>1, <2>1 DEF EntryInv, TypeOK, OpInv, LockInv, ReplyInv, NewNameInv,
        DentryInv, Unsettled, Agrees, Done, Sent
  <2> QED
    BY <1>1, <2>1, StepCases, BeganStep, ServedStep, AppliedStep, DropStep,
        DaemonStep, InvalStep, EvictStep
<1> QED
  BY <1>1, EntryInvInit, PTL DEF Spec

(* A dentry names the node that the daemon has there, unless a directory   *)
(* operation or an invalidation for the name is on its way: the replies of *)
(* LOOKUP and READDIRPLUS are applied under the directory's lock, and so   *)
(* are the invalidations, while fuse_dentry_revalidate, which takes no     *)
(* lock, only ever drops a dentry.                                         *)
THEOREM EntriesCoherent == Spec => []EntryCoherent
<1>1. EntryInv => EntryCoherent
  BY DEF EntryInv, DentryInv, Unsettled, EntryCoherent, Done, Exclusive, Moving
<1> QED
  BY <1>1, EntryInvariant, PTL

(* Attributes: one step per kind of step.                                  *)
LEMMA AttrInvStep ==
    ASSUME EntryInv, AttrInv, [Next]_vars PROVE AttrInv'
<1>1. \A n : Changed(n) <=> \E t \in Threads : ChangedBy(t, n)
  BY DEF Changed, ChangedBy, Done
<1>2. \A n : Changed(n)' <=> \E t \in Threads : ChangedBy(t, n)'
  BY DEF Changed, ChangedBy, Done
<1>3. ASSUME NEW t \in Threads, Began(t) PROVE AttrInv'
  <2>1. \A u \in Threads \ {t} : rq'[u] = rq[u]
    BY <1>3 DEF Began, EntryInv, TypeOK
  <2>2. \A n : Changed(n) => Changed(n)'
    BY <1>1, <1>2, <1>3, <2>1 DEF ChangedBy, Began
  <2> QED
    BY <1>3, <2>1, <2>2 DEF AttrInv, Began
<1>4. ASSUME NEW t \in Threads, Served(t) PROVE AttrInv'
  <2>1. /\ rq[t].st = "sent" /\ SameVersions(rq'[t], rq[t])
        /\ \A u \in Threads \ {t} : /\ Similar(rq'[u], rq[u])
                                    /\ rq'[u].newer = rq[u].newer
                                    /\ rq'[u].gone = rq[u].gone
    BY <1>4 DEF Served, Answered
  <2>2. \A n : Changed(n) => Changed(n)'
    BY <1>1, <1>2, <2>1 DEF ChangedBy, Similar
  <2>3. CASE inode' = inode /\ \A u \in Threads : rq'[u].old = rq[u].old
    BY <1>4, <2>1, <2>2, <2>3 DEF AttrInv, SameVersions, Served
  <2>4. ASSUME NEW n \in Nodes, ChangedBy(t, n)',
               \A k \in Nodes \ {n} : inode'[k] = inode[k],
               \A u \in Threads : rq'[u].old \subseteq rq[u].old \cup {n}
        PROVE  AttrInv'
    <3>1. Changed(n)'
      BY <1>2, <2>4
    <3> QED
      BY <1>4, <2>1, <2>2, <2>4, <3>1 DEF AttrInv, SameVersions, Served
  <2> QED
    BY <1>4, <2>3, <2>4 DEF Served, AttrChange
<1>5. ASSUME NEW t \in Threads, Applied(t) PROVE AttrInv'
  <2>1. /\ OthersKept(t) /\ AttrApplied(t) /\ LostKept
        /\ \/ rq'[t].old = {}
           \/ /\ rq'[t].old = rq[t].old /\ rq'[t].gone = rq[t].gone
              /\ rq[t].newer \subseteq rq'[t].newer
    BY <1>5 DEF Applied, Continues, Idle
  <2>2. ASSUME NEW n, Changed(n), ~ChangedBy(t, n) PROVE Changed(n)'
    BY <1>1, <1>2, <2>1, <2>2 DEF ChangedBy, OthersKept, Similar
  <2>3. \A u \in Threads : rq[u].op \notin Versioned => rq[u].old = {}
    BY DEF EntryInv, OpInv
  <2>4. rq[t].old \subseteq Nodes /\ \A u \in Threads : rq[u].old \subseteq Nodes
    BY DEF EntryInv, TypeOK, Request
  <2>7. \A n \in Nodes : lost[n] > 0 => lost'[n] > 0
    BY <2>1 DEF LostKept, EntryInv, TypeOK
  <2>5. ASSUME NEW n \in Nodes, inode'[n].attr = "undone"
        PROVE  Changed(n)' \/ lost'[n] > 0
    BY <2>1, <2>2, <2>5, <2>7 DEF AttrApplied, AttrInv
  <2>6. ASSUME NEW u \in Threads, NEW n \in rq'[u].old
        PROVE  n \in rq'[u].newer \cup rq'[u].gone \/ Changed(n)' \/ lost'[n] > 0
    <3>1. CASE u # t
      BY <2>1, <2>2, <2>3, <2>4, <2>6, <2>7, <3>1 DEF OthersKept, AttrApplied, AttrInv
    <3>2. CASE u = t
      <4>1. ~ChangedBy(t, n)
        BY <2>1, <2>3, <2>6, <3>2 DEF ChangedBy, Versioned
      <4> QED
        BY <2>1, <2>2, <2>4, <2>6, <2>7, <3>2, <4>1 DEF AttrInv
    <3> QED
      BY <3>1, <3>2
  <2> QED
    BY <2>5, <2>6 DEF AttrInv
<1>6. ASSUME UNCHANGED <<inode, lost, rq>> PROVE AttrInv'
  BY <1>6 DEF AttrInv, Changed, Done
<1>7. ASSUME NEW x \in Names, fuse_reverse_inval_entry(x) PROVE AttrInv'
  <2>1. Unhashed({x}) \in [{x} -> MaybeName] /\ rq \in [Threads -> Request]
    BY DEF Unhashed, MaybeName, EntryInv, TypeOK
  <2>2. /\ inode' = inode /\ lost' = lost
        /\ \A u \in Threads : Similar(rq'[u], rq[u]) /\ SameVersions(rq'[u], rq[u])
    BY <1>7, <2>1, FollowKeeps DEF fuse_reverse_inval_entry
  <2>3. \A n : Changed(n) => Changed(n)'
    BY <1>1, <1>2, <2>2 DEF ChangedBy, Similar
  <2> QED
    BY <2>2, <2>3 DEF AttrInv, SameVersions
<1>8. ASSUME NEW n \in Nodes, fuse_evict_inode(n) PROVE AttrInv'
  <2>1. /\ lost' = lost /\ inode'[n].attr = "expired"
        /\ \A k \in Nodes \ {n} : inode'[k] = inode[k]
        /\ \A u \in Threads :
             /\ Similar(rq'[u], rq[u]) /\ rq'[u].old = rq[u].old
             /\ rq[u].newer \cup rq[u].gone \subseteq rq'[u].newer \cup rq'[u].gone
    BY <1>8, EvictFacts DEF EntryInv
  <2>2. \A k : Changed(k) => Changed(k)'
    BY <1>1, <1>2, <2>1 DEF ChangedBy, Similar
  <2> QED
    BY <2>1, <2>2 DEF AttrInv
<1>9. ASSUME NEW x \in Names, DaemonChange(x) PROVE UNCHANGED <<inode, lost, rq>>
  BY <1>9 DEF DaemonChange
<1> QED
  BY <1>3, <1>4, <1>5, <1>6, <1>7, <1>8, <1>9, StepCases

(* A reply to GETATTR, LOOKUP or READDIRPLUS never undoes a change that    *)
(* setattr, link or unlink has applied: each of them bumps the version of  *)
(* the inode (fuse_change_attributes, fuse_link, fuse_unlink), and a reply *)
(* made before the change is then ignored.                                 *)
THEOREM ChangesStay == Spec => []AttrNotUndone
<1>1. Init => AttrInv
  BY DEF Init, AttrInv, Idle, NoInode
<1>2. AttrInv => AttrNotUndone
  BY DEF AttrInv, AttrNotUndone, Changed, Changing, Done
<1> QED
  BY <1>1, <1>2, EntryInvariant, AttrInvStep, PTL DEF Spec


-----------------------------------------------------------------------------
(* The lookup counts.  The replies that name a node, and what else         *)
(* LookupExact needs: only a READDIRPLUS brings a list, only the           *)
(* operations in Naming are answered with a node.                          *)
Naming == {"lookup", "revalidate", "create", "mknod", "link", "get_dentry"}
Forget == [n : Nodes, k : Nat]
CountType == known \in [Nodes -> Nat] /\ forgets \in Seq(Forget)
NamingInv ==
    \A t \in Threads :
        /\ rq[t].op # "readdirplus" \/ rq[t].st \in {"idle", "sent"}
           => rq[t].todo = {}
        /\ Done(t) /\ rq[t].out \in Nodes => rq[t].op \in Naming
        /\ Done(t) /\ rq[t].op = "link" /\ rq[t].out \in Nodes
           => rq[t].out = rq[t].n

(* A node that a dentry or a request refers to has been looked up and not  *)
(* been forgotten (fuse_evict_inode).                                      *)
Held(n) == n \in Nodes => inode[n].nlookup > 0
RefInv ==
    /\ \A x \in Names : Held(dcache[x])
    /\ \A t \in Threads : rq[t].op \notin {"idle", "get_dentry"}
                          => Held(rq[t].n) /\ Held(rq[t].m)

CountInv == CountType /\ NamingInv /\ RefInv /\ LookupExact

(* A set of natural numbers has a least element: the induction principle   *)
(* of the sums below.                                                      *)
LEMMA LeastNatural ==
    ASSUME NEW T \in SUBSET Nat, T # {}
    PROVE  \E x \in T : \A y \in T : x <= y
<1> DEFINE R == OpToRel(<, Nat)
<1>1. IsWellFoundedOn(R, Nat)
  BY NatLessThanWellFounded
<1>2. \A x, y \in Nat : y < x => <<y, x>> \in R
  BY DEF OpToRel
<1> HIDE DEF R
<1>3. PICK x \in T : \A y \in T : <<y, x>> \notin R
  BY <1>1, WFMin
<1>4. \A y \in T : ~(y < x)
  BY <1>2, <1>3
<1> QED
  BY <1>3, <1>4

LEMMA ShareNat == \A e \in Forget : \A n : Share(e, n) \in Nat
  BY DEF Share, Forget

LEMMA ForgetsOf ==
    ASSUME NEW s \in Seq(Forget)
    PROVE  Len(s) \in Nat /\ \A i \in 1..Len(s) : s[i] \in Forget
  OBVIOUS

(* f holds the partial sums of the first k FORGETs of s for the node n.    *)
Sums(s, n, k, f) ==
    /\ f \in [0..k -> Nat] /\ f[0] = 0
    /\ \A i \in 1..k : f[i] = f[i - 1] + Share(s[i], n)

LEMMA SumsExist ==
    ASSUME NEW s \in Seq(Forget), NEW n
    PROVE  \E f : Sums(s, n, Len(s), f)
<1> DEFINE P(k) == \E f : Sums(s, n, k, f)
           T == {k \in 0..Len(s) : ~P(k)}
<1>1. Len(s) \in Nat /\ \A i \in 1..Len(s) : Share(s[i], n) \in Nat
  BY ShareNat, ForgetsOf
<1>2. P(0)
  <2>1. Sums(s, n, 0, [i \in 0..0 |-> 0])
    BY DEF Sums
  <2> QED
    BY <2>1
<1>3. ASSUME NEW k \in 1..Len(s), P(k - 1) PROVE P(k)
  <2>1. PICK f : Sums(s, n, k - 1, f)
    BY <1>3
  <2> DEFINE g == [i \in 0..k |-> IF i = k THEN f[k - 1] + Share(s[k], n) ELSE f[i]]
  <2>2. k \in Nat /\ k - 1 \in 0..(k - 1) /\ Share(s[k], n) \in Nat
    BY <1>1
  <2>3. g \in [0..k -> Nat]
    BY <2>1, <2>2 DEF Sums
  <2>4. g[0] = 0
    BY <2>1, <2>2 DEF Sums
  <2>5. ASSUME NEW i \in 1..k PROVE g[i] = g[i - 1] + Share(s[i], n)
    <3>1. CASE i = k
      BY <2>2, <3>1
    <3>2. CASE i # k
      <4>1. i \in 1..(k - 1) /\ i - 1 \in 0..k /\ i - 1 # k /\ i \in 0..k
        BY <2>2, <3>2
      <4>2. f[i] = f[i - 1] + Share(s[i], n)
        BY <2>1, <4>1 DEF Sums
      <4> QED
        BY <3>2, <4>1, <4>2
    <3> QED
      BY <3>1, <3>2
  <2> HIDE DEF g
  <2>6. Sums(s, n, k, g)
    BY <2>3, <2>4, <2>5 DEF Sums
  <2> QED
    BY <2>6
<1>4. T = {}
  <2> SUFFICES ASSUME T # {} PROVE FALSE
    OBVIOUS
  <2>1. T \in SUBSET Nat /\ \A k \in T : k \in 0..Len(s) /\ ~P(k)
    BY <1>1
  <2>2. \A k \in 0..Len(s) : ~P(k) => k \in T
    OBVIOUS
  <2> HIDE DEF T, P
  <2>3. PICK k \in T : \A j \in T : k <= j
    BY <2>1, LeastNatural
  <2>4. k \in 0..Len(s) /\ ~P(k) /\ k # 0
    BY <1>2, <2>1, <2>3
  <2>5. k \in 1..Len(s) /\ k - 1 \in 0..Len(s) /\ ~(k <= k - 1)
    BY <1>1, <2>4
  <2>6. P(k - 1)
    BY <2>2, <2>3, <2>5
  <2> QED
    BY <1>3, <2>4, <2>5, <2>6
<1> HIDE DEF P
<1>5. P(Len(s))
  <2>1. Len(s) \in 0..Len(s)
    BY <1>1
  <2> QED
    BY <1>4, <2>1
<1> QED
  BY <1>5 DEF P

LEMMA OwedSums ==
    ASSUME NEW s \in Seq(Forget), NEW n, NEW f, Sums(s, n, Len(s), f)
    PROVE  Owed(s, n) = f[Len(s)]
<1> DEFINE k == Len(s)
           Step(h) == [i \in 0..k |-> IF i = 0 THEN 0 ELSE h[i - 1] + Share(s[i], n)]
           p == CHOOSE h : h = Step(h)
<1>1. k \in Nat /\ f = [i \in 0..k |-> f[i]]
  BY DEF Sums
<1>2. f = Step(f)
  <2>1. ASSUME NEW i \in 0..k PROVE f[i] = Step(f)[i]
    <3>1. f[0] = 0 /\ (i # 0 => i \in 1..k)
      BY <1>1 DEF Sums
    <3>2. i # 0 => f[i] = f[i - 1] + Share(s[i], n)
      BY <3>1 DEF Sums
    <3> QED
      BY <3>1, <3>2
  <2>2. Step(f) = [i \in 0..k |-> Step(f)[i]]
    OBVIOUS
  <2> HIDE DEF Step
  <2> QED
    BY <1>1, <2>1, <2>2
<1>3. Owed(s, n) = p[k]
  BY DEF Owed
<1>4. p = Step(p)
  <2> HIDE DEF Step
  <2> QED
    BY <1>2
<1> DEFINE T == {i \in 0..k : p[i] # f[i]}
<1>5. T = {}
  <2> SUFFICES ASSUME T # {} PROVE FALSE
    OBVIOUS
  <2>1. PICK i \in T : \A j \in T : i <= j
    <3>1. T \in SUBSET Nat
      BY <1>1
    <3> HIDE DEF T
    <3> QED
      BY <3>1, LeastNatural
  <2>2. i \in 0..k /\ p[i] # f[i]
    BY <2>1
  <2>3. p[i] = Step(p)[i] /\ f[i] = Step(f)[i]
    <3> HIDE DEF p, Step
    <3> QED
      BY <1>2, <1>4
  <2> HIDE DEF p
  <2>4. i # 0
    BY <2>2, <2>3
  <2>5. p[i - 1] = f[i - 1]
    <3>1. i - 1 \in 0..k /\ ~(i <= i - 1)
      BY <1>1, <2>2, <2>4
    <3> QED
      BY <2>1, <3>1
  <2> QED
    BY <2>2, <2>3, <2>4, <2>5
<1>6. k \in 0..k
  BY <1>1
<1> HIDE DEF p, k
<1> QED
  BY <1>3, <1>5, <1>6 DEF k

(* fuse_queue_forget adds a FORGET at the end of the list ...              *)
LEMMA OwedAppend ==
    ASSUME NEW s \in Seq(Forget), NEW n, NEW e \in Forget
    PROVE  /\ Owed(s, n) \in Nat /\ Share(e, n) \in Nat
           /\ Append(s, e) \in Seq(Forget)
           /\ Owed(Append(s, e), n) = Owed(s, n) + Share(e, n)
<1>1. PICK f : Sums(s, n, Len(s), f)
  BY SumsExist
<1> DEFINE a == Append(s, e)
           k == Len(s)
           g == [i \in 0..(k + 1) |-> IF i = k + 1 THEN f[k] + Share(e, n) ELSE f[i]]
<1>2. /\ k \in Nat /\ Share(e, n) \in Nat /\ a \in Seq(Forget) /\ Len(a) = k + 1
      /\ a[k + 1] = e /\ \A i \in 1..k : a[i] = s[i]
  BY DEF Share, Forget
<1>3. f \in [0..k -> Nat] /\ f[0] = 0 /\ k \in 0..k
      /\ \A i \in 1..k : f[i] = f[i - 1] + Share(s[i], n)
  BY <1>1, <1>2 DEF Sums
<1>4. g \in [0..(k + 1) -> Nat] /\ g[0] = 0 /\ g[k + 1] = f[k] + Share(e, n)
      /\ \A i \in 0..k : g[i] = f[i]
  BY <1>2, <1>3
<1> HIDE DEF g, k, a
<1>5. ASSUME NEW i \in 1..(k + 1) PROVE g[i] = g[i - 1] + Share(a[i], n)
  <2>1. CASE i = k + 1
    <3>1. i - 1 = k
      BY <1>2, <2>1
    <3> QED
      BY <1>2, <1>3, <1>4, <2>1, <3>1
  <2>2. CASE i # k + 1
    <3>1. i \in 1..k /\ i \in 0..k /\ i - 1 \in 0..k
      BY <1>2, <2>2
    <3> QED
      BY <1>2, <1>3, <1>4, <3>1
  <2> QED
    BY <2>1, <2>2
<1>6. Sums(a, n, Len(a), g)
  BY <1>2, <1>4, <1>5 DEF Sums
<1>7. Owed(a, n) = g[k + 1]
  BY <1>2, <1>6, OwedSums
<1>8. Owed(s, n) = f[k]
  BY <1>1, OwedSums DEF k
<1> QED
  BY <1>2, <1>3, <1>4, <1>7, <1>8 DEF a

(* ... and the daemon reads the first one.                                 *)
LEMMA OwedTail ==
    ASSUME NEW s \in Seq(Forget), NEW n, s # <<>>
    PROVE  /\ Owed(s, n) \in Nat /\ Owed(Tail(s), n) \in Nat
           /\ Head(s) \in Forget /\ Share(Head(s), n) \in Nat
           /\ Tail(s) \in Seq(Forget)
           /\ Owed(s, n) = Share(Head(s), n) + Owed(Tail(s), n)
<1> DEFINE b == Tail(s)
           k == Len(b)
           w == Share(Head(s), n)
<1>1. /\ b \in Seq(Forget) /\ k \in Nat /\ Len(s) = k + 1 /\ Head(s) \in Forget
      /\ w \in Nat /\ s[1] = Head(s) /\ \A i \in 1..k : s[i + 1] = b[i]
  <2>1. b \in Seq(Forget) /\ k \in Nat /\ Len(s) = k + 1 /\ Head(s) = s[1]
    OBVIOUS
  <2>2. 1 \in 1..Len(s) /\ s[1] \in Forget
    <3>1. 1 \in 1..Len(s)
      BY <2>1
    <3> QED
      BY <3>1, ForgetsOf
  <2>3. \A i \in 1..k : s[i + 1] = b[i]
    OBVIOUS
  <2> QED
    BY <2>1, <2>2, <2>3, ShareNat
<1>2. PICK f : Sums(b, n, k, f)
  BY <1>1, SumsExist
<1> DEFINE g == [i \in 0..(k + 1) |-> IF i = 0 THEN 0 ELSE w + f[i - 1]]
<1> HIDE DEF k, b, w
<1>3. f \in [0..k -> Nat] /\ f[0] = 0 /\ k \in 0..k
      /\ \A i \in 1..k : f[i] = f[i - 1] + Share(b[i], n)
  BY <1>1, <1>2 DEF Sums
<1>4. /\ g[0] = 0
      /\ \A i \in 1..(k + 1) : g[i] = w + f[i - 1] /\ f[i - 1] \in Nat
      /\ g = [i \in 0..(k + 1) |-> g[i]]
  BY <1>1, <1>3
<1>5. \A i \in 0..(k + 1) : i = 0 \/ i \in 1..(k + 1)
  BY <1>1
<1> HIDE DEF g
<1>6. g \in [0..(k + 1) -> Nat]
  <2>1. ASSUME NEW i \in 0..(k + 1) PROVE g[i] \in Nat
    <3>1. CASE i = 0
      BY <1>4, <3>1
    <3>2. CASE i \in 1..(k + 1)
      <4>1. g[i] = w + f[i - 1] /\ f[i - 1] \in Nat
        BY <1>4, <3>2
      <4> QED
        BY <1>1, <4>1
    <3> QED
      BY <1>5, <3>1, <3>2
  <2> QED
    BY <1>4, <2>1
<1>7. ASSUME NEW i \in 1..(k + 1) PROVE g[i] = g[i - 1] + Share(s[i], n)
  <2>1. CASE i = 1
    <3>1. g[1] = w + f[0] /\ g[0] = 0 /\ i - 1 = 0 /\ f[0] = 0 /\ s[1] = Head(s)
      <4>1. i - 1 = 0 /\ i \in 1..(k + 1)
        BY <2>1
      <4> QED
        BY <1>1, <1>3, <1>4, <2>1, <4>1
    <3> QED
      BY <1>1, <2>1, <3>1 DEF w
  <2>2. CASE i # 1
    <3>1. i - 1 \in 1..k /\ i - 1 \in 1..(k + 1) /\ (i - 1) + 1 = i
      BY <1>1, <2>2
    <3>2. s[i] = b[i - 1]
      BY <1>1, <3>1
    <3>3. f[i - 1] = f[(i - 1) - 1] + Share(b[i - 1], n)
      BY <1>3, <3>1
    <3>4. /\ g[i] = w + f[i - 1] /\ g[i - 1] = w + f[(i - 1) - 1]
          /\ f[(i - 1) - 1] \in Nat /\ f[i - 1] \in Nat
      BY <1>4, <3>1
    <3>5. Share(b[i - 1], n) \in Nat
      BY <1>1, <3>1, ShareNat, ForgetsOf DEF k
    <3> QED
      BY <1>1, <3>2, <3>3, <3>4, <3>5
  <2> QED
    BY <2>1, <2>2
<1>8. Sums(s, n, Len(s), g)
  BY <1>1, <1>4, <1>6, <1>7 DEF Sums
<1>9. Owed(s, n) = g[k + 1]
  BY <1>1, <1>8, OwedSums
<1>10. Owed(b, n) = f[k]
  BY <1>1, <1>2, OwedSums DEF k
<1>11. k + 1 \in 1..(k + 1) /\ (k + 1) - 1 = k
  BY <1>1
<1>12. g[k + 1] = w + f[k] /\ f[k] \in Nat
  BY <1>4, <1>11
<1>13. w + f[k] \in Nat
  BY <1>1, <1>12
<1> QED
  BY <1>1, <1>9, <1>10, <1>12, <1>13 DEF w, b

LEMMA ReplySplit ==
    ASSUME NEW q \in [Threads -> Request], NEW t \in Threads, NEW n \in Nodes
    PROVE  LET A(S) == {u \in S : q[u].st = "done" /\ q[u].out = n}
               B(S) == {p \in S \X (Names \X Nodes) :
                          p[2] \in q[p[1]].todo /\ p[2][2] = n}
               U == Threads \ {t}
           IN  /\ Cardinality(A(U)) \in Nat /\ Cardinality(B(U)) \in Nat
               /\ Cardinality(A(Threads)) + Cardinality(B(Threads))
                  = (Cardinality(A(U)) + Cardinality(B(U))) + Mine(q[t], n)
<1> DEFINE A(S) == {u \in S : q[u].st = "done" /\ q[u].out = n}
           B(S) == {p \in S \X (Names \X Nodes) :
                      p[2] \in q[p[1]].todo /\ p[2][2] = n}
           U == Threads \ {t}
           a == IF q[t].st = "done" /\ q[t].out = n THEN 1 ELSE 0
           L == Listed(q[t], n)
           N == Names \X {n}
<1>1. IsFiniteSet(U) /\ IsFiniteSet(A(U)) /\ Cardinality(A(U)) \in Nat
  <2>1. U \subseteq Threads /\ A(U) \subseteq Threads
    OBVIOUS
  <2> QED
    BY <2>1, FS_Subset, FS_CardinalityType
<1>2. IsFiniteSet(B(U)) /\ Cardinality(B(U)) \in Nat
  <2>1. IsFiniteSet(N)
    BY FS_Product, FS_Singleton
  <2>2. IsFiniteSet(U \X N)
    BY <1>1, <2>1, FS_Product
  <2>3. B(U) \subseteq U \X N
    OBVIOUS
  <2> QED
    BY <2>2, <2>3, FS_Subset, FS_CardinalityType
<1>3. IsFiniteSet(L) /\ Cardinality(L) \in Nat
  BY ListedFinite
<1>4. Cardinality(A(Threads)) = Cardinality(A(U)) + a
  <2>1. CASE a = 1
    <3>1. A(Threads) = A(U) \cup {t} /\ t \notin A(U)
      BY <2>1
    <3> QED
      BY <1>1, <2>1, <3>1, FS_AddElement
  <2>2. CASE a = 0
    <3>1. A(Threads) = A(U)
      BY <2>2
    <3> HIDE DEF A, U, a
    <3> QED
      BY <1>1, <2>2, <3>1
  <2> QED
    BY <2>1, <2>2
<1>5. Cardinality(B(Threads)) = Cardinality(B(U)) + Cardinality(L)
  <2> DEFINE M == {t} \X L
  <2>1. L \subseteq Names \X Nodes
    BY DEF Listed, Request
  <2>2. B(U) \cap M = {}
    OBVIOUS
  <2>3. B(Threads) \subseteq B(U) \cup M
    BY DEF Listed
  <2>4. B(U) \cup M \subseteq B(Threads)
    BY <2>1 DEF Listed
  <2>5. IsFiniteSet({t}) /\ Cardinality({t}) = 1
    BY FS_Singleton
  <2> HIDE DEF L
  <2>6. IsFiniteSet(M) /\ Cardinality(M) = 1 * Cardinality(L)
    BY <1>3, <2>5, FS_Product
  <2> HIDE DEF B, M
  <2>7. B(Threads) = B(U) \cup M
    BY <2>3, <2>4
  <2>8. Cardinality(B(Threads)) = Cardinality(B(U)) + Cardinality(M)
    <3>1. Cardinality(B(U) \cap M) = 0
      BY <2>2, FS_EmptySet
    <3>2. Cardinality(B(U) \cup M)
          = Cardinality(B(U)) + Cardinality(M) - Cardinality(B(U) \cap M)
      BY <1>2, <2>6, FS_Union
    <3> QED
      BY <1>2, <1>3, <2>6, <2>7, <3>1, <3>2
  <2> QED
    BY <1>3, <2>6, <2>8
<1>6. Mine(q[t], n) = a + Cardinality(L) /\ a \in Nat
  BY DEF Mine
<1> HIDE DEF A, B, U, a, L
<1>7. Cardinality(A(Threads)) + Cardinality(B(Threads))
      = (Cardinality(A(U)) + Cardinality(B(U))) + Mine(q[t], n)
  BY <1>1, <1>2, <1>3, <1>4, <1>5, <1>6
<1> QED
  BY <1>1, <1>2, <1>7 DEF A, B, U

(* A step that leaves the replies of the other threads alone changes       *)
(* InReply by what it changes in the thread's own.                         *)
LEMMA ReplyCount ==
    ASSUME rq \in [Threads -> Request], rq' \in [Threads -> Request],
           NEW t \in Threads, NEW n \in Nodes,
           \A u \in Threads \ {t} : Similar(rq'[u], rq[u])
    PROVE  /\ InReply(n) \in Nat /\ InReply(n)' \in Nat
           /\ Mine(rq[t], n) \in Nat /\ Mine(rq'[t], n) \in Nat
           /\ InReply(n)' + Mine(rq[t], n) = InReply(n) + Mine(rq'[t], n)
<1> DEFINE A(q, S) == {u \in S : q[u].st = "done" /\ q[u].out = n}
           B(q, S) == {p \in S \X (Names \X Nodes) :
                         p[2] \in q[p[1]].todo /\ p[2][2] = n}
           U == Threads \ {t}
           R(q) == Cardinality(A(q, U)) + Cardinality(B(q, U))
<1>1. A(rq', U) = A(rq, U) /\ B(rq', U) = B(rq, U)
  <2>1. \A u \in U : rq'[u].st = rq[u].st /\ rq'[u].out = rq[u].out
                     /\ rq'[u].todo = rq[u].todo
    BY DEF Similar
  <2>2. A(rq', U) = A(rq, U)
    BY <2>1
  <2>3. ASSUME NEW p \in U \X (Names \X Nodes)
        PROVE  p[2] \in rq'[p[1]].todo <=> p[2] \in rq[p[1]].todo
    BY <2>1
  <2>4. B(rq', U) = B(rq, U)
    BY <2>3
  <2> QED
    BY <2>2, <2>4
<1>2. R(rq') = R(rq)
  <2> HIDE DEF A, B, U
  <2> QED
    BY <1>1
<1>3. /\ R(rq) \in Nat /\ InReply(n) = R(rq) + Mine(rq[t], n)
  <2>1. /\ Cardinality(A(rq, U)) \in Nat /\ Cardinality(B(rq, U)) \in Nat
        /\ Cardinality(A(rq, Threads)) + Cardinality(B(rq, Threads))
           = R(rq) + Mine(rq[t], n)
    BY ReplySplit
  <2>2. InReply(n) = Cardinality(A(rq, Threads)) + Cardinality(B(rq, Threads))
    BY DEF InReply
  <2> HIDE DEF A, B, U
  <2> QED
    BY <2>1, <2>2
<1>4. /\ R(rq') \in Nat /\ InReply(n)' = R(rq') + Mine(rq'[t], n)
  <2>1. /\ Cardinality(A(rq', U)) \in Nat /\ Cardinality(B(rq', U)) \in Nat
        /\ Cardinality(A(rq', Threads)) + Cardinality(B(rq', Threads))
           = R(rq') + Mine(rq'[t], n)
    BY ReplySplit
  <2>2. InReply(n)' = Cardinality(A(rq', Threads)) + Cardinality(B(rq', Threads))
    BY DEF InReply
  <2> HIDE DEF A, B, U
  <2> QED
    BY <2>1, <2>2
<1>5. Mine(rq[t], n) \in Nat /\ Mine(rq'[t], n) \in Nat
  BY ListedFinite
<1> HIDE DEF R
<1> QED
  BY <1>2, <1>3, <1>4, <1>5

(* What becomes of one reply that names n: fi->nlookup counts it, or a     *)
(* FORGET gives it back; what is malformed is lost.                        *)
SameLookups == \A k \in Nodes : inode'[k].nlookup = inode[k].nlookup
Settles(n) ==
    /\ lost' = lost
    /\ \/ /\ forgets' = forgets
          /\ \A k \in Nodes : inode'[k].nlookup
                              = inode[k].nlookup + (IF k = n THEN 1 ELSE 0)
       \/ forgets' = Append(forgets, [n |-> n, k |-> 1]) /\ SameLookups

NewDentriesHeld ==
    \A z \in Names : \/ dcache'[z] = dcache[z]
                     \/ dcache'[z] \in Nodes => inode'[dcache'[z]].nlookup > 0

(* A thread applies a reply, or the part of it that names one node.        *)
Counted(t) ==
    /\ known' = known
    /\ \/ \E n \in Nodes :
            /\ Settles(n)
            /\ \A k \in Nodes : Mine(rq[t], k)
                                = Mine(rq'[t], k) + (IF k = n THEN 1 ELSE 0)
       \/ /\ forgets' = forgets /\ SameLookups
          /\ \A k \in Nodes : lost'[k] + Mine(rq'[t], k)
                              = lost[k] + Mine(rq[t], k)
    /\ NewDentriesHeld
    /\ \/ rq'[t] = Idle
       \/ /\ rq'[t].op = "mknod" /\ rq'[t].st = "sent" /\ rq'[t].todo = {}
          /\ rq'[t].n = None /\ rq'[t].m = None
       \/ /\ rq'[t].op = "readdirplus" /\ rq'[t].st = "linking"
          /\ rq[t].op = "readdirplus"
          /\ rq'[t].n = rq[t].n /\ rq'[t].m = rq[t].m

LEMMA ApplyCounts ==
    ASSUME TypeOK, NEW t \in Threads, NEW n \in Nodes, NEW count \in {0, 1},
           NEW check \in BOOLEAN, NEW r \in Request, Apply(t, n, count, check, r)
    PROVE  \A k \in Nodes : inode'[k].nlookup
                            = inode[k].nlookup + (IF k = n THEN count ELSE 0)
<1> DEFINE i == [inode[n] EXCEPT !.present = TRUE, !.nlookup = @ + count]
           j == fuse_change_attributes(t, n, i, check)
<1>1. inode' = [inode EXCEPT ![n] = j]
  BY DEF Apply
<1>2. i \in Inode /\ i.nlookup = inode[n].nlookup + count
  <2>1. inode[n] \in Inode /\ inode[n].nlookup + count \in Nat
    BY DEF TypeOK, Inode
  <2> QED
    BY <2>1 DEF Inode
<1>3. j.nlookup = i.nlookup
  <2> HIDE DEF i
  <2> QED
    BY <1>2 DEF fuse_change_attributes, Inode
<1> HIDE DEF i, j
<1>4. inode'[n] = j /\ \A k \in Nodes \ {n} : inode'[k] = inode[k]
  BY <1>1 DEF TypeOK
<1>5. \A k \in Nodes : inode[k].nlookup \in Nat
  BY DEF TypeOK, Inode
<1> QED
  BY <1>2, <1>3, <1>4, <1>5

LEMMA MineFacts ==
    /\ \A r \in Request : r.todo = {}
       => \A n \in Nodes : Mine(r, n) = IF r.st = "done" /\ r.out = n THEN 1 ELSE 0
    /\ \A n \in Nodes : Mine(Idle, n) = 0
<1>1. ASSUME NEW r, r.todo = {}, NEW n \in Nodes
      PROVE  Mine(r, n) = IF r.st = "done" /\ r.out = n THEN 1 ELSE 0
  <2>1. Listed(r, n) = {}
    BY <1>1 DEF Listed
  <2>2. Cardinality(Listed(r, n)) = 0
    BY <2>1, FS_EmptySet
  <2> QED
    BY <2>2 DEF Mine
<1>2. Idle.todo = {} /\ Idle.st # "done"
  BY DEF Idle
<1> QED
  BY <1>1, <1>2

LEMMA FinishCounts ==
    ASSUME EntryInv, NamingInv, RefInv, NEW t \in Threads, Finish(t)
    PROVE  Counted(t)
<1> DEFINE op == rq[t].op  out == rq[t].out
<1>1. /\ rq[t].st = "done" /\ known' = known /\ Applied(t)
      /\ rq[t] \in Request /\ dcache \in [Names -> Dentry]
      /\ inode \in [Nodes -> Inode]
  BY FinishFacts DEF Finish, Quiet, EntryInv, TypeOK
<1>2. /\ op \notin {"create", "readdirplus"} \/ (op = "create" /\ out # "ENOSYS")
         => rq'[t] = Idle
      /\ \A k \in Nodes : inode[k].nlookup \in Nat /\ inode'[k].nlookup \in Nat
      /\ "absent" \notin Nodes /\ "negative" \notin Nodes
  <2>1. Continues(t) /\ inode' \in [Nodes -> Inode]
    BY <1>1 DEF Applied
  <2> QED
    BY <1>1, <2>1 DEF Continues, Inode
<1>3. /\ op # "readdirplus" => rq[t].todo = {}
      /\ out \in Nodes => op \in Naming
      /\ op = "link" /\ out \in Nodes => out = rq[t].n
  BY <1>1 DEF NamingInv, Done
<1>4. /\ op \in {"lookup", "create", "mknod", "unlink", "rmdir"} \cup Moving
         => rq[t].x \in Names
      /\ op \in {"link"} \cup Moving => rq[t].y \in Names
      /\ op \in Moving => rq[t].x # rq[t].y
      /\ op \in {"revalidate", "getattr", "setattr", "link",
                 "unlink", "rmdir", "get_dentry"} \cup Moving => rq[t].n \in Nodes
      /\ op = "exchange" => rq[t].m \in Nodes
  BY DEF EntryInv, OpInv
<1>5. op \notin {"idle", "get_dentry"} => Held(rq[t].n) /\ Held(rq[t].m)
  BY DEF RefInv
<1>6. op # "readdirplus" => \A k \in Nodes : Mine(rq[t], k) = IF out = k THEN 1 ELSE 0
  BY <1>1, <1>3, MineFacts
<1> HIDE DEF op, out
<1>7. ASSUME NEW n \in Nodes, out = n, Settles(n), rq'[t] = Idle, NewDentriesHeld,
             op # "readdirplus"
      PROVE  Counted(t)
  <2>1. \A k \in Nodes : Mine(rq[t], k) = Mine(rq'[t], k) + (IF k = n THEN 1 ELSE 0)
    BY <1>6, <1>7, MineFacts
  <2> QED
    BY <1>1, <1>7, <2>1 DEF Counted
<1>8. ASSUME out \notin Nodes, forgets' = forgets, SameLookups, NewDentriesHeld,
             op # "readdirplus",
             rq'[t] = Idle, lost' = lost
      PROVE  Counted(t)
  <2>1. \A k \in Nodes : lost'[k] + Mine(rq'[t], k) = lost[k] + Mine(rq[t], k)
    BY <1>6, <1>8, MineFacts
  <2> QED
    BY <1>1, <1>8, <2>1 DEF Counted
<1>9. ASSUME NEW n \in Nodes, NEW check \in BOOLEAN, Apply(t, n, 1, check, Idle),
             forgets' = forgets, lost' = lost
      PROVE  Settles(n) /\ inode'[n].nlookup > 0
  <2>1. \A k \in Nodes : inode'[k].nlookup
                         = inode[k].nlookup + (IF k = n THEN 1 ELSE 0)
    BY <1>9, IdleRequest, ApplyCounts DEF EntryInv
  <2> QED
    BY <1>2, <1>9, <2>1 DEF Settles
<1>10. ASSUME NEW n \in Nodes, NEW check \in BOOLEAN, Apply(t, n, 0, check, Idle)
       PROVE  SameLookups
  <2>1. \A k \in Nodes : inode'[k].nlookup
                         = inode[k].nlookup + (IF k = n THEN 0 ELSE 0)
    BY <1>10, IdleRequest, ApplyCounts DEF EntryInv
  <2> QED
    BY <1>2, <2>1 DEF SameLookups
<1>11. ASSUME NEW n, iget_fails(t, n, Idle) PROVE Settles(n)
  BY <1>11 DEF iget_fails, give_back, fuse_queue_forget, Settles, SameLookups
<1>12. dcache' = dcache => NewDentriesHeld
  BY DEF NewDentriesHeld
<1>13. ASSUME NEW x, NEW n \in Nodes, inode'[n].nlookup > 0,
              dcache' = [dcache EXCEPT ![x] = n]
       PROVE  NewDentriesHeld
  BY <1>1, <1>13 DEF NewDentriesHeld
<1>14. ASSUME NEW x, NEW d \in {"absent", "negative"},
              dcache' = [dcache EXCEPT ![x] = d]
       PROVE  NewDentriesHeld
  BY <1>1, <1>2, <1>14 DEF NewDentriesHeld
<1>15. inode' = inode => SameLookups
  BY DEF SameLookups
<1>16. ASSUME NEW n \in Nodes, fuse_invalidate_attr(n) PROVE SameLookups
  BY <1>1, <1>16 DEF fuse_invalidate_attr, SameLookups, Inode
<1>30. ASSUME NEW n \in Nodes, out = n, out_put_forget(t, n), rq'[t] = Idle,
              op # "readdirplus"
       PROVE  Counted(t)
  <2>1. /\ forgets' = forgets /\ SameLookups /\ NewDentriesHeld
        /\ lost' = [lost EXCEPT ![n] = @ + 1]
    BY <1>12, <1>15, <1>30 DEF out_put_forget
  <2>2. \A k \in Nodes : /\ lost[k] \in Nat
                         /\ lost'[k] = lost[k] + (IF k = n THEN 1 ELSE 0)
    BY <2>1 DEF EntryInv, TypeOK
  <2>3. \A k \in Nodes : /\ Mine(rq'[t], k) = 0
                         /\ Mine(rq[t], k) = (IF k = n THEN 1 ELSE 0)
    BY <1>6, <1>30, MineFacts
  <2>4. \A k \in Nodes : lost'[k] + Mine(rq'[t], k) = lost[k] + Mine(rq[t], k)
    BY <2>2, <2>3
  <2> QED
    BY <1>1, <1>30, <2>1, <2>4 DEF Counted
<1>17. ASSUME lookup_done(t) PROVE Counted(t)
  <2>1. op = "lookup" /\ rq'[t] = Idle
    BY <1>2, <1>17 DEF lookup_done, op
  <2>2. CASE /\ out \in Nodes /\ fuse_iget(t, out, TRUE, Idle)
             /\ forgets' = forgets /\ lost' = lost
             /\ dcache' = [dcache EXCEPT ![rq[t].x] = out]
    BY <1>7, <1>9, <1>13, <2>1, <2>2 DEF fuse_iget
  <2>3. CASE out \in Nodes /\ iget_fails(t, out, Idle) /\ dcache' = dcache
    BY <1>7, <1>11, <1>12, <2>1, <2>3
  <2>4. CASE out \notin Nodes /\ inode' = inode /\ forgets' = forgets
             /\ (dcache' = dcache \/ dcache' = [dcache EXCEPT ![rq[t].x] = "negative"])
             /\ lost' = lost
    BY <1>8, <1>12, <1>14, <1>15, <2>1, <2>4
  <2>5. CASE out \in Nodes /\ out_put_forget(t, out)
    BY <1>30, <2>1, <2>5
  <2> QED
    BY <1>17, <2>2, <2>3, <2>4, <2>5 DEF lookup_done, out
<1>18. ASSUME revalidate_done(t) PROVE Counted(t)
  <2>1. op = "revalidate" /\ rq'[t] = Idle /\ rq[t].n \in Nodes /\ lost' = lost
    BY <1>2, <1>4, <1>18 DEF revalidate_done, op
  <2>2. CASE out = rq[t].n /\ Apply(t, out, 1, TRUE, Idle)
             /\ dcache' = dcache /\ forgets' = forgets
    BY <1>7, <1>9, <1>12, <2>1, <2>2
  <2>3. CASE /\ out # rq[t].n /\ inode' = inode
             /\ IF out \in Nodes THEN forget_other(out, rq[t].n)
                                 ELSE forgets' = forgets
             /\ dcache' = IF rq[t].x = None THEN dcache
                          ELSE [dcache EXCEPT ![rq[t].x] = "absent"]
    <3>1. NewDentriesHeld /\ SameLookups
      BY <1>12, <1>14, <1>15, <2>3
    <3>2. CASE out \in Nodes
      <4>1. Settles(out)
        BY <2>1, <2>3, <3>1, <3>2 DEF forget_other, fuse_queue_forget, Settles
      <4> QED
        BY <1>7, <2>1, <3>1, <3>2, <4>1
    <3>3. CASE out \notin Nodes
      BY <1>8, <2>1, <2>3, <3>1, <3>3
    <3> QED
      BY <3>2, <3>3
  <2>4. CASE /\ out = rq[t].n /\ forgets' = forgets
             /\ inode' = [inode EXCEPT ![out].nlookup = @ + 1]
             /\ dcache' = IF rq[t].x = None THEN dcache
                          ELSE [dcache EXCEPT ![rq[t].x] = "absent"]
    <3>1. NewDentriesHeld
      BY <1>12, <1>14, <2>4
    <3>2. \A k \in Nodes : inode'[k].nlookup
                           = inode[k].nlookup + (IF k = out THEN 1 ELSE 0)
      BY <1>1, <1>2, <2>1, <2>4 DEF Inode
    <3>3. Settles(out)
      BY <2>1, <2>4, <3>2 DEF Settles
    <3> QED
      BY <1>7, <2>1, <2>4, <3>1, <3>3
  <2> QED
    BY <1>18, <2>2, <2>3, <2>4 DEF revalidate_done, out
<1>19. ASSUME getattr_done(t) PROVE Counted(t)
  <2>1. op = "getattr" /\ rq'[t] = Idle /\ rq[t].n \in Nodes /\ out \notin Nodes
    BY <1>2, <1>3, <1>4, <1>19 DEF getattr_done, op, Naming
  <2>2. dcache' = dcache /\ forgets' = forgets /\ lost' = lost
        /\ (Apply(t, rq[t].n, 0, TRUE, Idle) \/ inode' = inode)
    BY <1>19 DEF getattr_done
  <2> QED
    BY <1>8, <1>10, <1>12, <1>15, <2>1, <2>2
<1>20. ASSUME access_done(t) PROVE Counted(t)
  <2>1. op = "access" /\ rq'[t] = Idle /\ out \notin Nodes
    BY <1>2, <1>3, <1>20 DEF access_done, op, Naming
  <2>2. dcache' = dcache /\ forgets' = forgets /\ inode' = inode /\ lost' = lost
    BY <1>20 DEF access_done
  <2> QED
    BY <1>8, <1>12, <1>15, <2>1, <2>2
<1>21. ASSUME setattr_done(t) PROVE Counted(t)
  <2>1. op = "setattr" /\ rq'[t] = Idle /\ rq[t].n \in Nodes /\ out \notin Nodes
    BY <1>2, <1>3, <1>4, <1>21 DEF setattr_done, op, Naming
  <2>2. dcache' = dcache /\ forgets' = forgets /\ lost' = lost
        /\ (Apply(t, rq[t].n, 0, FALSE, Idle) \/ inode' = inode
            \/ fuse_invalidate_attr(rq[t].n))
    BY <1>21 DEF setattr_done
  <2> QED
    BY <1>8, <1>10, <1>12, <1>15, <1>16, <2>1, <2>2
<1>22. ASSUME NewEntry(t, rq[t].x, out), op \in {"create", "mknod"}, rq'[t] = Idle
       PROVE  Counted(t)
  <2>1. op # "readdirplus" /\ rq[t].x \in Names
    BY <1>4, <1>22
  <2>2. CASE /\ out \in Nodes /\ fuse_iget(t, out, FALSE, Idle)
             /\ forgets' = forgets /\ lost' = lost
             /\ dcache' = Instantiate(rq[t].x, out)
    BY <1>7, <1>9, <1>12, <1>13, <1>22, <2>1, <2>2 DEF fuse_iget, Instantiate
  <2>3. CASE out \in Nodes /\ iget_fails(t, out, Idle) /\ dcache' = dcache
    BY <1>7, <1>11, <1>12, <1>22, <2>1, <2>3
  <2>4. CASE out \notin Nodes /\ inode' = inode /\ forgets' = forgets
             /\ dcache' = dcache /\ lost' = lost
    BY <1>8, <1>12, <1>15, <1>22, <2>1, <2>4
  <2>5. CASE out \in Nodes /\ out_put_forget(t, out)
    BY <1>22, <1>30, <2>1, <2>5
  <2> QED
    BY <1>22, <2>2, <2>3, <2>4, <2>5 DEF NewEntry
<1>23. ASSUME fuse_create_open(t) PROVE Counted(t)
  <2>1. op = "create"
    BY <1>23 DEF fuse_create_open, op
  <2>2. CASE out # "ENOSYS"
    <3>1. rq'[t] = Idle /\ NewEntry(t, rq[t].x, out)
      BY <1>2, <1>23, <2>1, <2>2 DEF fuse_create_open, out
    <3> QED
      BY <1>22, <2>1, <3>1
  <2>3. CASE out = "ENOSYS"
    <3> DEFINE r == [Idle EXCEPT !.op = "mknod", !.st = "sent", !.x = rq[t].x,
                                 !.q = rq[t].x]
    <3>1. rq' = [rq EXCEPT ![t] = r] /\ inode' = inode /\ dcache' = dcache
          /\ forgets' = forgets /\ lost' = lost
      BY <1>23, <2>3 DEF fuse_create_open, out
    <3>2. /\ r.op = "mknod" /\ r.st = "sent" /\ r.todo = {} /\ r.n = None
          /\ r.m = None /\ r \in Request
      <4>1. rq[t].x \in Names
        BY <1>4, <2>1
      <4> QED
        BY <4>1 DEF Idle, Request, MaybeName
    <3> HIDE DEF r
    <3>3. rq'[t] = r
      BY <3>1 DEF EntryInv, TypeOK
    <3>4. out \notin Nodes
      BY <2>3
    <3>5. \A k \in Nodes : lost'[k] + Mine(rq'[t], k) = lost[k] + Mine(rq[t], k)
      BY <1>6, <2>1, <3>1, <3>2, <3>3, <3>4, MineFacts
    <3> QED
      BY <1>1, <1>12, <1>15, <3>1, <3>2, <3>3, <3>5 DEF Counted
  <2> QED
    BY <2>2, <2>3
<1>24. ASSUME create_new_entry(t) PROVE Counted(t)
  <2>1. op = "mknod" /\ NewEntry(t, rq[t].x, out)
    BY <1>24 DEF create_new_entry, op, out
  <2> QED
    BY <1>2, <1>22, <2>1
<1>25. ASSUME link_done(t) PROVE Counted(t)
  <2>1. op = "link" /\ rq'[t] = Idle /\ rq[t].n \in Nodes /\ rq[t].y \in Names
        /\ forgets' = forgets
    BY <1>2, <1>4, <1>25 DEF link_done, out_put_forget, op
  <2>4. CASE out = rq[t].n /\ out_put_forget(t, rq[t].n)
    BY <1>30, <2>1, <2>4
  <2>2. CASE /\ out = rq[t].n /\ lost' = lost
             /\ inode' = [inode EXCEPT ![rq[t].n].nlookup = @ + 1,
                                       ![rq[t].n].attr = "expired"]
             /\ dcache' = Instantiate(rq[t].y, rq[t].n)
    <3>1. /\ lost' = lost
          /\ inode' = [inode EXCEPT ![rq[t].n].nlookup = @ + 1,
                                    ![rq[t].n].attr = "expired"]
          /\ dcache' = Instantiate(rq[t].y, rq[t].n)
      BY <2>2
    <3>2. \A k \in Nodes : inode'[k].nlookup
                           = inode[k].nlookup + (IF k = rq[t].n THEN 1 ELSE 0)
      BY <1>1, <1>2, <2>1, <3>1 DEF Inode
    <3>5. Settles(rq[t].n)
      BY <2>1, <3>1, <3>2 DEF Settles
    <3>6. inode'[rq[t].n].nlookup = inode[rq[t].n].nlookup + 1
      BY <2>1, <3>2
    <3>3. Settles(rq[t].n) /\ inode'[rq[t].n].nlookup > 0
      BY <1>2, <2>1, <3>5, <3>6
    <3>4. NewDentriesHeld
      BY <1>12, <1>13, <2>1, <3>1, <3>3 DEF Instantiate
    <3> QED
      BY <1>7, <2>1, <2>2, <3>3, <3>4
  <2>3. CASE out # rq[t].n
    <3>1. /\ inode' = inode \/ fuse_invalidate_attr(rq[t].n)
          /\ dcache' = dcache /\ lost' = lost
      BY <1>25, <2>3 DEF link_done, out
    <3>2. out \notin Nodes
      BY <1>3, <2>1, <2>3
    <3> QED
      BY <1>8, <1>12, <1>15, <1>16, <2>1, <3>1, <3>2
  <2> QED
    BY <1>25, <2>2, <2>3, <2>4 DEF link_done, out
<1>26. ASSUME remove_done(t) PROVE Counted(t)
  <2>1. /\ op \in {"unlink", "rmdir"} /\ rq'[t] = Idle /\ rq[t].n \in Nodes
        /\ rq[t].x \in Names /\ out \notin Nodes
        /\ forgets' = forgets /\ lost' = lost
    BY <1>2, <1>3, <1>4, <1>26 DEF remove_done, op, Naming
  <2>2. /\ inode' = inode \/ fuse_invalidate_attr(rq[t].n)
        /\ \/ dcache' = dcache
           \/ \E d \in {"absent", "negative"} : dcache' = [dcache EXCEPT ![rq[t].x] = d]
    BY <1>26 DEF remove_done, Instantiate
  <2> QED
    BY <1>8, <1>12, <1>14, <1>15, <1>16, <2>1, <2>2
<1>27. ASSUME rename_done(t) PROVE Counted(t)
  <2> DEFINE x == rq[t].x  y == rq[t].y
  <2>1. /\ op \in Moving /\ rq'[t] = Idle /\ rq[t].n \in Nodes /\ x \in Names
        /\ y \in Names /\ x # y /\ (op = "exchange" => rq[t].m \in Nodes)
        /\ out \notin Nodes /\ forgets' = forgets /\ lost' = lost
    BY <1>2, <1>3, <1>4, <1>27 DEF rename_done, op, Naming, Moving
  <2>2. CASE out = "ok"
    <3>1. /\ inode' = [n \in Nodes |-> IF n \in {rq[t].n, rq[t].m}
                         THEN [inode[n] EXCEPT !.attr = "expired"] ELSE inode[n]]
          /\ dcache' = [dcache EXCEPT ![y] = rq[t].n,
                          ![x] = IF op = "exchange" THEN rq[t].m ELSE "absent"]
      BY <1>27, <2>2 DEF rename_done, op, out
    <3>2. SameLookups
      BY <1>1, <3>1 DEF SameLookups, Inode
    <3>3. inode'[rq[t].n].nlookup > 0
          /\ (op = "exchange" => inode'[rq[t].m].nlookup > 0)
      BY <1>5, <2>1, <3>2 DEF SameLookups, Held, Moving
    <3>4. dcache'[y] = rq[t].n
          /\ dcache'[x] = (IF op = "exchange" THEN rq[t].m ELSE "absent")
          /\ \A z \in Names \ {x, y} : dcache'[z] = dcache[z]
      BY <1>1, <2>1, <3>1
    <3>5. NewDentriesHeld
      BY <1>2, <2>1, <3>3, <3>4 DEF NewDentriesHeld
    <3> QED
      BY <1>8, <2>1, <3>2, <3>5 DEF Moving
  <2>3. CASE out = "EINTR"
    <3>1. /\ inode' = inode
          /\ dcache' = [dcache EXCEPT ![x] = "absent",
                          ![y] = IF @ \in Nodes THEN "absent" ELSE @]
      BY <1>27, <2>3 DEF rename_done, out
    <3>2. dcache'[y] \notin Nodes /\ dcache'[x] \notin Nodes
          /\ \A z \in Names \ {x, y} : dcache'[z] = dcache[z]
      BY <1>1, <1>2, <2>1, <3>1
    <3>3. NewDentriesHeld
      BY <3>2 DEF NewDentriesHeld
    <3> QED
      BY <1>8, <1>15, <2>1, <3>1, <3>3 DEF Moving
  <2>4. CASE out \notin {"ok", "EINTR"}
    <3>1. inode' = inode /\ dcache' = dcache
      BY <1>27, <2>4 DEF rename_done, out
    <3> QED
      BY <1>8, <1>12, <1>15, <2>1, <3>1 DEF Moving
  <2> QED
    BY <2>2, <2>3, <2>4
<1>28. ASSUME get_dentry_done(t) PROVE Counted(t)
  <2>1. op = "get_dentry" /\ rq'[t] = Idle /\ dcache' = dcache
    BY <1>2, <1>28 DEF get_dentry_done, out_put_forget, op
  <2>2. CASE /\ out \in Nodes /\ fuse_iget(t, out, TRUE, Idle)
             /\ forgets' = forgets /\ lost' = lost
    BY <1>7, <1>9, <1>12, <2>1, <2>2 DEF fuse_iget
  <2>3. CASE out \in Nodes /\ iget_fails(t, out, Idle)
    BY <1>7, <1>11, <1>12, <2>1, <2>3
  <2>4. CASE out \notin Nodes /\ inode' = inode /\ forgets' = forgets /\ lost' = lost
    BY <1>8, <1>12, <1>15, <2>1, <2>4
  <2>5. CASE out \in Nodes /\ out_put_forget(t, out)
    BY <1>30, <2>1, <2>5
  <2> QED
    BY <1>28, <2>2, <2>3, <2>4, <2>5 DEF get_dentry_done, out
<1>29. ASSUME readdir_done(t) PROVE Counted(t)
  <2>1. op = "readdirplus" /\ inode' = inode /\ dcache' = dcache
        /\ forgets' = forgets /\ lost' = lost /\ out \notin Nodes
    BY <1>3, <1>29 DEF readdir_done, op, Naming
  <2>2. CASE rq[t].todo = {}
    <3>1. rq'[t] = Idle
      BY <1>29, <2>2 DEF readdir_done, EntryInv, TypeOK
    <3>2. \A k \in Nodes : Mine(rq[t], k) = 0 /\ Mine(rq'[t], k) = 0
      BY <1>1, <2>1, <2>2, <3>1, MineFacts DEF out
    <3> QED
      BY <1>1, <1>12, <1>15, <2>1, <3>1, <3>2 DEF Counted
  <2>3. CASE rq[t].todo # {}
    <3> DEFINE r == [rq[t] EXCEPT !.st = "linking"]
    <3>1. /\ r.op = rq[t].op /\ r.st = "linking" /\ r.todo = rq[t].todo
          /\ r.n = rq[t].n /\ r.m = rq[t].m
      BY <1>1 DEF Request
    <3>2. rq'[t] = r
      BY <1>29, <2>3 DEF readdir_done, EntryInv, TypeOK
    <3> HIDE DEF r
    <3>3. \A k \in Nodes : Mine(rq'[t], k) = Mine(rq[t], k)
      BY <2>1, <3>1, <3>2 DEF Mine, Listed, out
    <3> QED
      BY <1>1, <1>12, <1>15, <2>1, <3>1, <3>2, <3>3 DEF Counted, op
  <2> QED
    BY <2>2, <2>3
<1> QED
  BY <1>17, <1>18, <1>19, <1>20, <1>21, <1>23, <1>24, <1>25, <1>26, <1>27, <1>28,
      <1>29 DEF Finish

LEMMA LinkCounts ==
    ASSUME EntryInv, NamingInv, NEW t \in Threads, fuse_direntplus_link(t)
    PROVE  Counted(t)
<1>1. PICK e \in rq[t].todo :
        LET rest == rq[t].todo \ {e}
            r == IF rest = {} THEN Idle ELSE [rq[t] EXCEPT !.todo = rest]
        IN  /\ rq[t].st = "linking" /\ known' = known /\ lost' = lost
            /\ \/ /\ Apply(t, e[2], 1, TRUE, r) /\ forgets' = forgets
                  /\ dcache' = [dcache EXCEPT ![e[1]] = e[2]]
               \/ /\ give_back(t, e[2], r)
                  /\ \/ dcache' = [dcache EXCEPT ![e[1]] = "absent"]
                     \/ dcache' = dcache
  BY DEF fuse_direntplus_link, Quiet, iget_fails, give_back
<1> DEFINE rest == rq[t].todo \ {e}
           r == IF rest = {} THEN Idle ELSE [rq[t] EXCEPT !.todo = rest]
           n == e[2]
<1>2. /\ rq[t] \in Request /\ rq[t].op = "readdirplus" /\ n \in Nodes
      /\ dcache \in [Names -> Dentry] /\ inode \in [Nodes -> Inode] /\ TypeOK
      /\ "absent" \notin Nodes
  <2>1. rq[t] \in Request /\ rq[t].op = "readdirplus"
    BY <1>1 DEF EntryInv, TypeOK, OpInv
  <2>2. e \in Names \X Nodes
    BY <2>1 DEF Request
  <2> QED
    BY <1>1, <2>1, <2>2 DEF EntryInv, TypeOK
<1>3. /\ r \in Request /\ r.todo = rest /\ r.st # "done"
      /\ \/ r = Idle
         \/ /\ r.op = "readdirplus" /\ r.st = "linking"
            /\ r.n = rq[t].n /\ r.m = rq[t].m
  <2>1. CASE rest = {}
    BY <2>1, IdleRequest DEF Idle
  <2>2. CASE rest # {}
    <3> DEFINE s == [rq[t] EXCEPT !.todo = rest]
    <3>1. rest \in SUBSET (Names \X Nodes)
      BY <1>2 DEF Request
    <3>2. /\ s \in Request /\ s.todo = rest /\ s.st = rq[t].st
          /\ s.op = rq[t].op /\ s.n = rq[t].n /\ s.m = rq[t].m
      BY <1>2, <3>1 DEF Request
    <3>3. r = s
      BY <2>2
    <3> HIDE DEF r, s
    <3> QED
      BY <1>1, <1>2, <3>2, <3>3
  <2> QED
    BY <2>1, <2>2
<1>4. ASSUME NEW k \in Nodes
      PROVE  Mine(rq[t], k) = Mine(r, k) + (IF k = n THEN 1 ELSE 0)
  <2> HIDE DEF r
  <2>1. /\ IsFiniteSet(Listed(rq[t], k)) /\ Cardinality(Listed(rq[t], k)) \in Nat
        /\ Cardinality(Listed(r, k)) \in Nat /\ IsFiniteSet(Listed(r, k))
    BY <1>2, <1>3, ListedFinite
  <2>2. Mine(rq[t], k) = 0 + Cardinality(Listed(rq[t], k))
    BY <1>1 DEF Mine
  <2>3. Mine(r, k) = 0 + Cardinality(Listed(r, k))
    BY <1>3 DEF Mine
  <2>4. CASE k = n
    <3>1. Listed(rq[t], k) = Listed(r, k) \cup {e} /\ e \notin Listed(r, k)
      BY <1>3, <2>4 DEF Listed
    <3>2. Cardinality(Listed(rq[t], k)) = Cardinality(Listed(r, k)) + 1
      BY <2>1, <3>1, FS_AddElement
    <3> QED
      BY <2>1, <2>2, <2>3, <2>4, <3>2
  <2>5. CASE k # n
    <3>1. Listed(rq[t], k) = Listed(r, k)
      BY <1>3, <2>5 DEF Listed
    <3> QED
      BY <2>1, <2>2, <2>3, <2>5, <3>1
  <2> QED
    BY <2>4, <2>5
<1>5. CASE /\ Apply(t, n, 1, TRUE, r) /\ forgets' = forgets
           /\ dcache' = [dcache EXCEPT ![e[1]] = n]
  <2> HIDE DEF r, n
  <2>1. Similar(rq'[t], r) /\ (r.op \notin Versioned => rq'[t] = r)
    <3>1. ApplyEffect(t, n, TRUE, r)
      BY <1>2, <1>3, <1>5, ApplyFacts
    <3> QED
      BY <3>1 DEF ApplyEffect
  <2>2. \A k \in Nodes : inode'[k].nlookup
                         = inode[k].nlookup + (IF k = n THEN 1 ELSE 0)
    BY <1>2, <1>3, <1>5, ApplyCounts
  <2>3. inode[n].nlookup \in Nat
    BY <1>2 DEF Inode
  <2>4. NewDentriesHeld
    BY <1>2, <1>5, <2>2, <2>3 DEF NewDentriesHeld
  <2>5. \A k \in Nodes : Mine(rq'[t], k) = Mine(r, k)
    BY <2>1 DEF Similar, Mine, Listed
  <2>6. Idle.op \notin Versioned
    BY DEF Idle, Versioned
  <2>7. \A k \in Nodes : Mine(rq[t], k)
                         = Mine(rq'[t], k) + (IF k = n THEN 1 ELSE 0)
    BY <1>4, <2>5
  <2>8. \/ rq'[t] = Idle
        \/ /\ rq'[t].op = "readdirplus" /\ rq'[t].st = "linking"
           /\ rq'[t].n = rq[t].n /\ rq'[t].m = rq[t].m
    BY <1>3, <2>1, <2>6 DEF Similar
  <2> QED
    BY <1>1, <1>2, <1>5, <2>2, <2>4, <2>7, <2>8 DEF Counted, Settles
<1>6. CASE /\ give_back(t, n, r)
           /\ \/ dcache' = [dcache EXCEPT ![e[1]] = "absent"]
              \/ dcache' = dcache
  <2>1. rq' = [rq EXCEPT ![t] = r] /\ Settles(n)
    BY <1>6 DEF give_back, fuse_queue_forget, Settles, SameLookups
  <2> HIDE DEF r, n
  <2>2. rq'[t] = r
    BY <2>1, <1>2 DEF TypeOK
  <2>3. NewDentriesHeld
    BY <1>2, <1>6 DEF NewDentriesHeld
  <2>4. \A k \in Nodes : Mine(rq[t], k)
                         = Mine(rq'[t], k) + (IF k = n THEN 1 ELSE 0)
    BY <1>4, <2>2
  <2> QED
    BY <1>1, <1>2, <1>3, <2>1, <2>2, <2>3, <2>4 DEF Counted
<1> QED
  BY <1>1, <1>5, <1>6

LEMMA ParseErrorCounts ==
    ASSUME EntryInv, NEW t \in Threads, parse_dirplusfile_eio(t)
    PROVE  Counted(t)
<1>1. /\ rq[t].st = "linking" /\ rq[t] \in Request /\ rq'[t] = Idle
      /\ UNCHANGED <<known, dcache, inode, forgets>>
      /\ lost' = [n \in Nodes |-> lost[n] + Count(rq[t].todo, n)]
  BY DEF parse_dirplusfile_eio, Quiet, EntryInv, TypeOK
<1>2. \A k \in Nodes : /\ Count(rq[t].todo, k) = Mine(rq[t], k)
                       /\ Mine(rq[t], k) \in Nat /\ lost[k] \in Nat
  <2>1. \A k : Count(rq[t].todo, k) = Cardinality(Listed(rq[t], k))
    BY DEF Count, Listed
  <2>2. \A k \in Nodes : /\ Cardinality(Listed(rq[t], k)) \in Nat
                         /\ Mine(rq[t], k) = 0 + Cardinality(Listed(rq[t], k))
    BY <1>1, ListedFinite DEF Mine
  <2> QED
    BY <2>1, <2>2 DEF EntryInv, TypeOK
<1>3. \A k \in Nodes : lost'[k] + Mine(rq'[t], k) = lost[k] + Mine(rq[t], k)
  BY <1>1, <1>2, MineFacts
<1>4. SameLookups /\ NewDentriesHeld
  BY <1>1 DEF SameLookups, NewDentriesHeld
<1> QED
  BY <1>1, <1>3, <1>4 DEF Counted

(* The daemon answers: it counts every node that its reply names.          *)
Told(t) ==
    /\ known' \in [Nodes -> Nat]
    /\ \A k \in Nodes : known'[k] = known[k] + Mine(rq'[t], k)
    /\ UNCHANGED <<forgets, dcache, lost>> /\ SameLookups
    /\ rq'[t].op # "readdirplus" => rq'[t].todo = {}
    /\ rq'[t].out \in Nodes => rq'[t].op \in Naming
    /\ rq'[t].op = "link" /\ rq'[t].out \in Nodes => rq'[t].out = rq'[t].n

LEMMA LearnOne ==
    ASSUME known \in [Nodes -> Nat], NEW a, NEW n \in Nodes
    PROVE  Learn({<<a, n>>}) = [k \in Nodes |-> known[k] + (IF n = k THEN 1 ELSE 0)]
<1>1. ASSUME NEW k \in Nodes
      PROVE  Count({<<a, n>>}, k) = IF n = k THEN 1 ELSE 0
  <2>1. CASE n = k
    <3>1. {e \in {<<a, n>>} : e[2] = k} = {<<a, n>>}
      BY <2>1
    <3> QED
      BY <2>1, <3>1, FS_Singleton DEF Count
  <2>2. CASE n # k
    <3>1. {e \in {<<a, n>>} : e[2] = k} = {}
      BY <2>2
    <3> QED
      BY <2>2, <3>1, FS_EmptySet DEF Count
  <2> QED
    BY <2>1, <2>2
<1> QED
  BY <1>1 DEF Learn

LEMMA ServeCounts ==
    ASSUME EntryInv, CountType, NamingInv, NEW t \in Threads, Serve(t)
    PROVE  Told(t)
<1> DEFINE op == rq[t].op  n == rq[t].n
<1>1. /\ rq[t].st = "sent" /\ UNCHANGED <<dcache, forgets, lost>>
      /\ rq[t].todo = {}
      /\ rq[t] \in Request /\ rq \in [Threads -> Request]
      /\ inode \in [Nodes -> Inode] /\ known \in [Nodes -> Nat]
      /\ dirent \in [Names -> Nodes \cup {None}]
  BY DEF Serve, EntryInv, TypeOK, NamingInv, CountType
<1>2. /\ op \in {"lookup", "revalidate"} => rq[t].q \in Names
      /\ op \in {"setattr", "link", "unlink", "get_dentry"} => n \in Nodes
      /\ Entries \subseteq Names \X Nodes
  BY <1>1 DEF EntryInv, OpInv, Entries
<1>3. "ok" \notin Nodes /\ Errors \cap Nodes = {}
  BY DEF Errors
<1>4. ASSUME NEW out \in Nodes \cup Errors \cup {"ok"},
             NEW todo \in SUBSET (Names \X Nodes), NoAttrChange(t, out, todo)
      PROVE  /\ SameLookups /\ rq'[t].op = op /\ rq'[t].st = "done"
             /\ rq'[t].out = out /\ rq'[t].todo = todo /\ rq'[t].n = n
             /\ rq'[t] \in Request
  <2>1. Replied(t, out, todo)
    BY <1>4, ReplyFacts DEF EntryInv
  <2> QED
    BY <2>1 DEF Replied, Answered, SameLookups
<1>5. ASSUME NEW out \in Nodes \cup Errors \cup {"ok"}, NEW k \in Nodes,
             rq' = ReplyChanged(t, out, k), inode' = Outdate(k)
      PROVE  /\ SameLookups /\ rq'[t].op = op /\ rq'[t].st = "done"
             /\ rq'[t].out = out /\ rq'[t].todo = {} /\ rq'[t].n = n
             /\ rq'[t] \in Request
  <2>1. SameLookups
    BY <1>1, <1>5 DEF SameLookups, Outdate, Inode
  <2>2. rq'[t] = [rq[t] EXCEPT !.st = "done", !.out = out]
    BY <1>5 DEF ReplyChanged
  <2>3. rq'[t].todo = {}
    BY <1>1, <2>2 DEF Request
  <2>4. RepliedChange(t, out, k)
    BY <1>5, ReplyChangedFacts DEF EntryInv
  <2> QED
    BY <2>1, <2>3, <2>4 DEF RepliedChange, Answered
<1> HIDE DEF op, n
<1>6. ASSUME SameLookups, rq'[t].op = op, rq'[t].st = "done", rq'[t].todo = {},
             rq'[t] \in Request, rq'[t].out \notin Nodes, known' = known
      PROVE  Told(t)
  <2>1. \A k \in Nodes : Mine(rq'[t], k) = 0
    BY <1>6, MineFacts
  <2> QED
    BY <1>1, <1>6, <2>1 DEF Told
<1>7. ASSUME SameLookups, rq'[t].op = op, rq'[t].st = "done", rq'[t].todo = {},
             rq'[t] \in Request, NEW k \in Nodes, rq'[t].out = k, op \in Naming,
             op = "link" => rq'[t].n = k,
             NEW a, known' = Learn({<<a, k>>})
      PROVE  Told(t)
  <2>1. \A j \in Nodes : Mine(rq'[t], j) = IF k = j THEN 1 ELSE 0
    BY <1>7, MineFacts
  <2>2. known' = [j \in Nodes |-> known[j] + (IF k = j THEN 1 ELSE 0)]
    <3>1. Learn({<<a, k>>}) = [j \in Nodes |-> known[j] + (IF k = j THEN 1 ELSE 0)]
      BY <1>1, LearnOne
    <3> QED
      BY <1>7, <3>1
  <2>3. known' \in [Nodes -> Nat]
        /\ \A j \in Nodes : known'[j] = known[j] + (IF k = j THEN 1 ELSE 0)
    BY <1>1, <2>2
  <2> QED
    BY <1>1, <1>7, <2>1, <2>3 DEF Told
<1>8. ASSUME NEW o \in Errors \cup {"ok"}, NoAttrChange(t, o, {}), known' = known
      PROVE  Told(t)
  <2>1. o \notin Nodes /\ o \in Nodes \cup Errors \cup {"ok"}
        /\ {} \in SUBSET (Names \X Nodes)
    BY <1>3
  <2> QED
    BY <1>4, <1>6, <1>8, <2>1
<1>9. ASSUME NEW k \in Nodes, NoAttrChange(t, k, {}), NEW a,
             known' = Learn({<<a, k>>}), op \in Naming \ {"link"}
      PROVE  Told(t)
  <2>1. k \in Nodes \cup Errors \cup {"ok"} /\ {} \in SUBSET (Names \X Nodes)
    OBVIOUS
  <2> QED
    BY <1>4, <1>7, <1>9, <2>1
<1>10. ASSUME NEW k \in Nodes, rq' = ReplyChanged(t, "ok", k), inode' = Outdate(k),
              known' = known
       PROVE  Told(t)
  BY <1>3, <1>5, <1>6, <1>10
<1>11. ASSUME ServeLookup(t) PROVE Told(t)
  <2>1. op \in Naming \ {"link"} /\ rq[t].q \in Names
    BY <1>2, <1>11 DEF ServeLookup, Naming, op
  <2>2. CASE dirent[rq[t].q] = None
    BY <1>8, <1>11, <2>2 DEF ServeLookup, Errors
  <2>3. CASE dirent[rq[t].q] # None
    <3>1. dirent[rq[t].q] \in Nodes
      BY <1>1, <2>1, <2>3
    <3>2. known' = Learn({<<rq[t].q, dirent[rq[t].q]>>})
          /\ NoAttrChange(t, dirent[rq[t].q], {})
      BY <1>11, <2>3 DEF ServeLookup
    <3> QED
      BY <1>9, <2>1, <3>1, <3>2
  <2> QED
    BY <2>2, <2>3
<1>12. ASSUME ServeGetDentry(t) PROVE Told(t)
  <2>1. op \in Naming \ {"link"} /\ n \in Nodes
    BY <1>2, <1>12 DEF ServeGetDentry, Naming, op
  <2>2. CASE Unused(n)
    BY <1>8, <1>12, <2>2 DEF ServeGetDentry, Errors, n
  <2>3. CASE ~Unused(n)
    <3>1. known' = Learn({<<".", n>>}) /\ NoAttrChange(t, n, {})
      BY <1>12, <2>3 DEF ServeGetDentry, n
    <3> QED
      BY <1>9, <2>1, <3>1
  <2> QED
    BY <2>2, <2>3
<1>13. ASSUME ServeReaddir(t) PROVE Told(t)
  <2>1. op = "readdirplus" /\ known' = Learn(Entries) /\ NoAttrChange(t, "ok", Entries)
    BY <1>13 DEF ServeReaddir, op
  <2>2. /\ SameLookups /\ rq'[t].op = op /\ rq'[t].st = "done"
        /\ rq'[t].out = "ok" /\ rq'[t].todo = Entries /\ rq'[t] \in Request
    BY <1>2, <1>4, <2>1
  <2>3. ASSUME NEW k \in Nodes
        PROVE  Mine(rq'[t], k) = Count(Entries, k) /\ Count(Entries, k) \in Nat
    <3>1. Listed(rq'[t], k) = {e \in Entries : e[2] = k}
      BY <2>2 DEF Listed
    <3>2. Cardinality(Listed(rq'[t], k)) \in Nat
      BY <2>2, ListedFinite
    <3>3. Mine(rq'[t], k) = 0 + Cardinality(Listed(rq'[t], k))
      BY <1>3, <2>2 DEF Mine
    <3> QED
      BY <3>1, <3>2, <3>3 DEF Count
  <2>4. known' \in [Nodes -> Nat]
        /\ \A k \in Nodes : known'[k] = known[k] + Mine(rq'[t], k)
    BY <1>1, <2>1, <2>3 DEF Learn
  <2> QED
    BY <1>1, <1>3, <2>1, <2>2, <2>4 DEF Told
<1>14. ASSUME ServeAttr(t) PROVE Told(t)
  <2>1. known' = known
    BY <1>14 DEF ServeAttr
  <2>2. CASE NoAttrChange(t, "ok", {})
    BY <1>8, <2>1, <2>2
  <2>3. CASE op = "setattr" /\ rq' = ReplyChanged(t, "ok", n) /\ inode' = Outdate(n)
    BY <1>2, <1>10, <2>1, <2>3
  <2> QED
    BY <1>14, <2>2, <2>3 DEF ServeAttr, op, n
<1>15. ASSUME ServeCreate(t) PROVE Told(t)
  <2>1. PICK k \in Nodes : known' = Learn({<<rq[t].x, k>>}) /\ NoAttrChange(t, k, {})
    BY <1>15 DEF ServeCreate
  <2>2. op \in Naming \ {"link"}
    BY <1>15 DEF ServeCreate, Naming, op
  <2> QED
    BY <1>9, <2>1, <2>2
<1>16. ASSUME ServeLink(t) PROVE Told(t)
  <2>1. op = "link" /\ n \in Nodes /\ op \in Naming
    BY <1>2, <1>16 DEF ServeLink, op, Naming
  <2>2. known' = Learn({<<rq[t].y, n>>}) /\ rq' = ReplyChanged(t, n, n)
        /\ inode' = Outdate(n)
    BY <1>16 DEF ServeLink, n
  <2>3. /\ SameLookups /\ rq'[t].op = op /\ rq'[t].st = "done"
        /\ rq'[t].out = n /\ rq'[t].todo = {} /\ rq'[t].n = n
        /\ rq'[t] \in Request
    BY <1>5, <2>1, <2>2
  <2> QED
    BY <1>7, <2>1, <2>2, <2>3
<1>17. ASSUME ServeRemove(t) PROVE Told(t)
  <2>1. known' = known
    BY <1>17 DEF ServeRemove
  <2>2. CASE NoAttrChange(t, "ok", {}) \/ NoAttrChange(t, "EINTR", {})
    BY <1>8, <2>1, <2>2 DEF Errors
  <2>3. CASE op = "unlink" /\ rq' = ReplyChanged(t, "ok", n) /\ inode' = Outdate(n)
    BY <1>2, <1>10, <2>1, <2>3
  <2> QED
    BY <1>17, <2>2, <2>3 DEF ServeRemove, op, n
<1>18. ASSUME ServeRename(t) PROVE Told(t)
  <2>1. known' = known /\ \E o \in {"ok", "EINTR"} : NoAttrChange(t, o, {})
    BY <1>18 DEF ServeRename
  <2> QED
    BY <1>8, <2>1 DEF Errors
<1>19. ASSUME ServeError(t) PROVE Told(t)
  <2>1. known' = known /\ \E o \in Errors : NoAttrChange(t, o, {})
    BY <1>19 DEF ServeError, Errors
  <2> QED
    BY <1>8, <2>1
<1> QED
  BY <1>11, <1>12, <1>13, <1>14, <1>15, <1>16, <1>17, <1>18, <1>19 DEF Serve

(* A thread starts an operation on nodes that its dentries refer to.       *)
Asks(t) ==
    /\ UNCHANGED <<known, forgets, inode, dcache, lost>> /\ rq'[t].st = "sent"
    /\ rq'[t].todo = {}
    /\ rq'[t].op # "get_dentry" => Held(rq'[t].n) /\ Held(rq'[t].m)

LEMMA SendAsks ==
    ASSUME TypeOK, RefInv, NEW t \in Threads, NEW op, NEW x, NEW y \in MaybeName,
           NEW n, op # "get_dentry" => Held(n), Send(t, op, x, y, n)
    PROVE  Asks(t)
<1> DEFINE m == IF y = None THEN None ELSE dcache[y]
           r == [Idle EXCEPT !.op = op, !.st = "sent", !.x = x, !.q = x, !.y = y,
                             !.n = n, !.m = m]
<1>1. /\ rq' = [rq EXCEPT ![t] = r]
      /\ UNCHANGED <<known, forgets, inode, dcache, lost>>
  BY DEF Send
<1>2. Held(m)
  BY DEF RefInv, Held, MaybeName
<1> HIDE DEF m
<1>3. r.st = "sent" /\ r.op = op /\ r.todo = {} /\ r.n = n /\ r.m = m
  BY DEF Idle
<1>4. rq'[t] = r
  BY <1>1 DEF TypeOK
<1> HIDE DEF r
<1> QED
  BY <1>1, <1>2, <1>3, <1>4 DEF Asks

LEMMA StartAsks ==
    ASSUME TypeOK, RefInv, NEW t \in Threads, Start(t) PROVE Asks(t)
<1>1. None \in MaybeName /\ Names \subseteq MaybeName /\ Held(None)
  BY DEF MaybeName, Held
<1>2. \A x \in Names : Held(dcache[x])
  BY DEF RefInv
<1>3. ASSUME NEW x \in Names,
             \/ fuse_lookup(t, x) \/ fuse_dentry_revalidate(t, x)
             \/ fuse_do_getattr(t, x) \/ fuse_access(t, x) \/ fuse_do_setattr(t, x)
             \/ fuse_atomic_open(t, x) \/ fuse_mknod(t, x)
             \/ \E op \in {"unlink", "rmdir"} : fuse_remove(t, x, op)
      PROVE  Asks(t)
  <2>1. \E op, z : Send(t, op, z, None, None) \/ Send(t, op, z, None, dcache[x])
    BY <1>3 DEF fuse_lookup, fuse_dentry_revalidate, fuse_do_getattr, fuse_access,
        fuse_do_setattr, fuse_atomic_open, fuse_mknod, fuse_remove
  <2> QED
    BY <1>1, <1>2, <2>1, SendAsks
<1>4. ASSUME NEW x \in Names, NEW y \in Names,
             \/ fuse_link(t, x, y)
             \/ \E op \in {"rename", "exchange"} : fuse_rename2(t, x, y, op)
      PROVE  Asks(t)
  <2>1. \E op, z : Send(t, op, z, y, dcache[x])
    BY <1>4 DEF fuse_link, fuse_rename2
  <2> QED
    BY <1>1, <1>2, <2>1, SendAsks
<1>5. ASSUME fuse_readdir(t) PROVE Asks(t)
  BY <1>1, <1>5, SendAsks DEF fuse_readdir
<1>6. ASSUME NEW n \in Nodes, fuse_get_dentry(t, n) PROVE Asks(t)
  BY <1>1, <1>6, SendAsks DEF fuse_get_dentry
<1> QED
  BY <1>3, <1>4, <1>5, <1>6 DEF Start

LEMMA RepliesKept ==
    ASSUME rq \in [Threads -> Request], rq' \in [Threads -> Request],
           \A u \in Threads : Similar(rq'[u], rq[u]), NEW n \in Nodes
    PROVE  InReply(n)' = InReply(n) /\ InReply(n) \in Nat
<1>1. CASE Threads = {}
  <2>1. {t \in Threads : rq[t].st = "done" /\ rq[t].out = n} = {}
        /\ {p \in Threads \X (Names \X Nodes) :
              p[2] \in rq[p[1]].todo /\ p[2][2] = n} = {}
    BY <1>1
  <2>2. {t \in Threads : rq'[t].st = "done" /\ rq'[t].out = n} = {}
        /\ {p \in Threads \X (Names \X Nodes) :
              p[2] \in rq'[p[1]].todo /\ p[2][2] = n} = {}
    BY <1>1
  <2>3. InReply(n) = Cardinality({}) + Cardinality({})
    BY <2>1 DEF InReply
  <2>4. InReply(n)' = Cardinality({}) + Cardinality({})
    BY <2>2 DEF InReply
  <2>5. Cardinality({}) = 0
    BY FS_EmptySet
  <2> QED
    BY <2>3, <2>4, <2>5
<1>2. CASE Threads # {}
  <2>1. PICK t \in Threads : TRUE
    BY <1>2
  <2>2. /\ InReply(n) \in Nat /\ InReply(n)' \in Nat
        /\ Mine(rq[t], n) \in Nat /\ Mine(rq'[t], n) \in Nat
        /\ InReply(n)' + Mine(rq[t], n) = InReply(n) + Mine(rq'[t], n)
    BY ReplyCount
  <2>3. Mine(rq'[t], n) = Mine(rq[t], n)
    BY DEF Similar, Mine, Listed
  <2>4. ASSUME NEW a \in Nat, NEW b \in Nat, NEW c \in Nat, a + c = b + c PROVE a = b
    BY <2>4
  <2> QED
    BY <2>2, <2>3, <2>4
<1> QED
  BY <1>1, <1>2

(* The counts of one node before and after a step.                         *)
LEMMA StillExact ==
    ASSUME EntryInv, CountType, LookupExact, TypeOK', CountType', NEW t \in Threads,
           \A u \in Threads \ {t} : Similar(rq'[u], rq[u]),
           \A k \in Nodes :
             known'[k] + (inode[k].nlookup + Owed(forgets, k) + Mine(rq[t], k)
                          + lost[k])
             = known[k] + (inode'[k].nlookup + Owed(forgets', k) + Mine(rq'[t], k)
                           + lost'[k])
    PROVE  LookupExact'
<1> SUFFICES ASSUME NEW k \in Nodes
             PROVE  known'[k] = inode'[k].nlookup + Forgotten(k)' + InReply(k)' + lost'[k]
  BY DEF LookupExact
<1>1. rq \in [Threads -> Request] /\ rq' \in [Threads -> Request]
  BY DEF EntryInv, TypeOK
<1>2. /\ InReply(k) \in Nat /\ InReply(k)' \in Nat
      /\ Mine(rq[t], k) \in Nat /\ Mine(rq'[t], k) \in Nat
      /\ InReply(k)' + Mine(rq[t], k) = InReply(k) + Mine(rq'[t], k)
  BY <1>1, ReplyCount
<1>3. known[k] \in Nat /\ known'[k] \in Nat /\ inode[k].nlookup \in Nat
      /\ inode'[k].nlookup \in Nat /\ lost[k] \in Nat /\ lost'[k] \in Nat
  BY DEF EntryInv, TypeOK, CountType, Inode
<1>4. Owed(forgets, k) \in Nat /\ Owed(forgets', k) \in Nat
  <2>1. \E e : e \in Forget
    <3>1. [n |-> k, k |-> 0] \in Forget
      BY DEF Forget
    <3> QED
      BY <3>1
  <2> QED
    BY <2>1, OwedAppend DEF CountType
<1>5. known[k] = inode[k].nlookup + Owed(forgets, k) + InReply(k) + lost[k]
      /\ Forgotten(k)' = Owed(forgets', k)
  BY DEF LookupExact, Forgotten
<1>6. known'[k] + (inode[k].nlookup + Owed(forgets, k) + Mine(rq[t], k) + lost[k])
      = known[k] + (inode'[k].nlookup + Owed(forgets', k) + Mine(rq'[t], k) + lost'[k])
  OBVIOUS
<1>7. ASSUME NEW K \in Nat, NEW K1 \in Nat, NEW L \in Nat, NEW L1 \in Nat,
             NEW F \in Nat, NEW F1 \in Nat, NEW R \in Nat, NEW R1 \in Nat,
             NEW M \in Nat, NEW M1 \in Nat, NEW W \in Nat, NEW W1 \in Nat,
             K = L + F + R + W, R1 + M = R + M1,
             K1 + (L + F + M + W) = K + (L1 + F1 + M1 + W1)
      PROVE  K1 = L1 + F1 + R1 + W1
  BY <1>7
<1> QED
  BY <1>2, <1>3, <1>4, <1>5, <1>6, <1>7

LEMMA CountInvStep ==
    ASSUME EntryInv, EntryInv', CountInv, [Next]_vars PROVE CountInv'
<1> USE DEF CountInv
<1>1. /\ TypeOK /\ TypeOK' /\ rq \in [Threads -> Request]
      /\ rq' \in [Threads -> Request] /\ forgets \in Seq(Forget)
      /\ known \in [Nodes -> Nat]
      /\ \A k \in Nodes : inode[k].nlookup \in Nat /\ inode'[k].nlookup \in Nat
      /\ \A k \in Nodes : known[k] \in Nat /\ lost[k] \in Nat /\ lost'[k] \in Nat
  BY DEF EntryInv, TypeOK, CountType, Inode
<1>2. \A t \in Threads : rq[t].op = "idle" <=> rq[t].st = "idle"
  BY DEF EntryInv, OpInv
<1>3. \A t \in Threads, k \in Nodes : Mine(rq[t], k) \in Nat /\ Mine(rq'[t], k) \in Nat
  BY <1>1, ListedFinite
<1>4. \A k \in Nodes : Owed(forgets, k) \in Nat
  <2> TAKE k \in Nodes
  <2>1. [n |-> k, k |-> 0] \in Forget
    BY DEF Forget
  <2> QED
    BY <1>1, <2>1, OwedAppend
<1>5. ASSUME NEW n \in Nodes, NEW c \in Nat,
             forgets' = Append(forgets, [n |-> n, k |-> c])
      PROVE  /\ forgets' \in Seq(Forget)
             /\ \A k \in Nodes : Owed(forgets', k)
                                 = Owed(forgets, k) + (IF n = k THEN c ELSE 0)
  <2> DEFINE e == [n |-> n, k |-> c]
  <2>1. e \in Forget /\ \A k : Share(e, k) = IF n = k THEN c ELSE 0
    BY DEF Forget, Share
  <2>2. forgets' = Append(forgets, e)
    BY <1>5
  <2> HIDE DEF e
  <2> QED
    BY <1>1, <2>1, <2>2, OwedAppend
<1>6. ASSUME \A u \in Threads : Similar(rq'[u], rq[u]) PROVE NamingInv'
  BY <1>6 DEF NamingInv, Similar, Done
<1>7. ASSUME NEW t \in Threads, \A u \in Threads \ {t} : Similar(rq'[u], rq[u]),
             rq'[t].op # "readdirplus" \/ rq'[t].st \in {"idle", "sent"}
             => rq'[t].todo = {},
             rq'[t].st = "done" /\ rq'[t].out \in Nodes => rq'[t].op \in Naming,
             rq'[t].st = "done" /\ rq'[t].op = "link" /\ rq'[t].out \in Nodes
             => rq'[t].out = rq'[t].n
      PROVE  NamingInv'
  <2> SUFFICES ASSUME NEW u \in Threads
               PROVE  (/\ rq[u].op # "readdirplus" \/ rq[u].st \in {"idle", "sent"}
                          => rq[u].todo = {}
                       /\ Done(u) /\ rq[u].out \in Nodes => rq[u].op \in Naming
                       /\ Done(u) /\ rq[u].op = "link" /\ rq[u].out \in Nodes
                          => rq[u].out = rq[u].n)'
    BY DEF NamingInv
  <2> QED
    BY <1>7 DEF NamingInv, Similar, Done
<1>8. ASSUME \A k \in Nodes : inode[k].nlookup <= inode'[k].nlookup
      PROVE  \A v : Held(v) => (v \in Nodes => inode'[v].nlookup > 0)
  BY <1>1, <1>8 DEF Held
<1>9. ASSUME NEW t \in Threads, Start(t) PROVE CountInv'
  <2>1. Began(t) /\ Asks(t)
    BY <1>1, <1>9, StartFacts, StartAsks
  <2>2. /\ UNCHANGED <<known, forgets, inode, dcache, lost>> /\ rq[t].st = "idle"
        /\ rq[t].todo = {} /\ rq'[t].st = "sent" /\ rq'[t].todo = {}
        /\ \A u \in Threads \ {t} : rq'[u] = rq[u]
    BY <1>1, <2>1 DEF Began, Asks, NamingInv
  <2>3. \A u \in Threads \ {t} : Similar(rq'[u], rq[u])
    BY <2>2 DEF Similar
  <2>4. CountType'
    BY <2>2 DEF CountType
  <2>5. NamingInv'
    BY <1>7, <2>2, <2>3
  <2>6. RefInv'
    BY <2>1, <2>2 DEF RefInv, Held, Asks
  <2>7. \A k \in Nodes : Mine(rq[t], k) = 0 /\ Mine(rq'[t], k) = 0
    BY <1>1, <2>2, MineFacts
  <2>8. LookupExact'
    BY <1>1, <2>2, <2>3, <2>4, <2>7, StillExact
  <2> QED
    BY <2>4, <2>5, <2>6, <2>8
<1>10. ASSUME NEW t \in Threads, Serve(t) PROVE CountInv'
  <2>1. Served(t) /\ Told(t)
    BY <1>1, <1>10, ServeFacts, ServeCounts DEF EntryInv
  <2>2. /\ rq[t].st = "sent" /\ rq[t].todo = {} /\ rq'[t].st = "done"
        /\ rq'[t].op = rq[t].op /\ rq'[t].n = rq[t].n /\ rq'[t].m = rq[t].m
        /\ UNCHANGED <<forgets, dcache, lost>> /\ SameLookups
        /\ \A u \in Threads \ {t} : Similar(rq'[u], rq[u])
    BY <2>1 DEF Served, Answered, Told, NamingInv
  <2>3. CountType'
    BY <2>1, <2>2 DEF CountType, Told
  <2>4. NamingInv'
    BY <1>7, <2>1, <2>2 DEF Told
  <2>5. RefInv'
    BY <2>2 DEF RefInv, Held, SameLookups, Similar
  <2>6. \A k \in Nodes : Mine(rq[t], k) = 0
    BY <1>1, <2>2, MineFacts
  <2>7. ASSUME NEW k \in Nodes
        PROVE  known'[k] + (inode[k].nlookup + Owed(forgets, k) + Mine(rq[t], k)
                            + lost[k])
               = known[k] + (inode'[k].nlookup + Owed(forgets', k) + Mine(rq'[t], k)
                             + lost'[k])
    <3>1. known'[k] = known[k] + Mine(rq'[t], k) /\ inode'[k].nlookup = inode[k].nlookup
      BY <2>1, <2>2 DEF Told, SameLookups
    <3> QED
      BY <1>1, <1>3, <1>4, <2>2, <2>6, <3>1
  <2>8. LookupExact'
    BY <1>1, <2>2, <2>3, <2>7, StillExact
  <2> QED
    BY <2>3, <2>4, <2>5, <2>8
<1>11. ASSUME NEW t \in Threads,
              Finish(t) \/ fuse_direntplus_link(t) \/ parse_dirplusfile_eio(t)
       PROVE  CountInv'
  <2>1. Applied(t) /\ Counted(t)
    BY <1>11, FinishFacts, LinkFacts, ParseErrorFacts, FinishCounts, LinkCounts,
       ParseErrorCounts DEF EntryInv
  <2>2. \A u \in Threads \ {t} : Similar(rq'[u], rq[u])
    BY <2>1 DEF Applied, OthersKept
  <2>3. known' = known /\ NewDentriesHeld
    BY <2>1 DEF Counted
  <2>4. /\ forgets' \in Seq(Forget)
        /\ \A k \in Nodes : inode[k].nlookup <= inode'[k].nlookup
        /\ \A k \in Nodes :
             known'[k] + (inode[k].nlookup + Owed(forgets, k) + Mine(rq[t], k)
                          + lost[k])
             = known[k] + (inode'[k].nlookup + Owed(forgets', k) + Mine(rq'[t], k)
                           + lost'[k])
    <3>1. CASE /\ forgets' = forgets /\ SameLookups
               /\ \A k \in Nodes : lost'[k] + Mine(rq'[t], k)
                                   = lost[k] + Mine(rq[t], k)
      <4> SUFFICES ASSUME NEW k \in Nodes
                   PROVE  inode[k].nlookup + Owed(forgets, k) + Mine(rq[t], k)
                          + lost[k]
                          = inode[k].nlookup + Owed(forgets, k) + Mine(rq'[t], k)
                            + lost'[k]
        BY <1>1, <2>3, <3>1 DEF SameLookups
      <4>1. lost'[k] + Mine(rq'[t], k) = lost[k] + Mine(rq[t], k)
        BY <3>1
      <4>2. /\ inode[k].nlookup \in Nat /\ Owed(forgets, k) \in Nat
            /\ Mine(rq[t], k) \in Nat /\ Mine(rq'[t], k) \in Nat
            /\ lost[k] \in Nat /\ lost'[k] \in Nat
        BY <1>1, <1>3, <1>4
      <4> QED
        BY <4>1, <4>2
    <3>2. ASSUME NEW n \in Nodes, Settles(n),
                 \A k \in Nodes : Mine(rq[t], k)
                                  = Mine(rq'[t], k) + (IF k = n THEN 1 ELSE 0)
          PROVE  /\ forgets' \in Seq(Forget)
                 /\ \A k \in Nodes :
                      /\ inode[k].nlookup <= inode'[k].nlookup
                      /\ known'[k] + (inode[k].nlookup + Owed(forgets, k)
                                      + Mine(rq[t], k) + lost[k])
                         = known[k] + (inode'[k].nlookup + Owed(forgets', k)
                                       + Mine(rq'[t], k) + lost'[k])
      <4> DEFINE Sum1(k) == known'[k] + (inode[k].nlookup + Owed(forgets, k)
                                        + Mine(rq[t], k) + lost[k])
                 Sum2(k) == known[k] + (inode'[k].nlookup + Owed(forgets', k)
                                        + Mine(rq'[t], k) + lost'[k])
      <4>1. CASE /\ forgets' = forgets
                 /\ \A k \in Nodes : inode'[k].nlookup
                                     = inode[k].nlookup + (IF k = n THEN 1 ELSE 0)
        <5> SUFFICES ASSUME NEW k \in Nodes
                     PROVE  /\ inode[k].nlookup <= inode'[k].nlookup
                            /\ Sum1(k) = Sum2(k)
          BY <1>1, <4>1
        <5>1. /\ inode'[k].nlookup = inode[k].nlookup + (IF k = n THEN 1 ELSE 0)
              /\ Mine(rq[t], k) = Mine(rq'[t], k) + (IF k = n THEN 1 ELSE 0)
              /\ forgets' = forgets /\ known' = known /\ lost' = lost
          BY <2>3, <3>2, <4>1 DEF Settles
        <5>2. inode[k].nlookup \in Nat /\ Mine(rq'[t], k) \in Nat
              /\ Owed(forgets, k) \in Nat /\ known[k] \in Nat /\ lost[k] \in Nat
          BY <1>1, <1>3, <1>4
        <5> QED
          BY <5>1, <5>2
      <4>2. CASE forgets' = Append(forgets, [n |-> n, k |-> 1]) /\ SameLookups
        <5>1. /\ forgets' \in Seq(Forget)
              /\ \A k \in Nodes : Owed(forgets', k)
                                  = Owed(forgets, k) + (IF n = k THEN 1 ELSE 0)
          BY <1>5, <4>2
        <5> SUFFICES ASSUME NEW k \in Nodes
                     PROVE  /\ inode[k].nlookup <= inode'[k].nlookup
                            /\ Sum1(k) = Sum2(k)
          BY <5>1
        <5>2. /\ inode'[k].nlookup = inode[k].nlookup
              /\ Mine(rq[t], k) = Mine(rq'[t], k) + (IF k = n THEN 1 ELSE 0)
              /\ Owed(forgets', k) = Owed(forgets, k) + (IF n = k THEN 1 ELSE 0)
              /\ known' = known /\ lost' = lost
          BY <2>3, <3>2, <4>2, <5>1 DEF SameLookups, Settles
        <5>3. inode[k].nlookup \in Nat /\ Mine(rq'[t], k) \in Nat
              /\ Owed(forgets, k) \in Nat /\ known[k] \in Nat /\ lost[k] \in Nat
          BY <1>1, <1>3, <1>4
        <5> QED
          BY <5>2, <5>3
      <4> QED
        BY <3>2, <4>1, <4>2 DEF Settles
    <3> QED
      BY <2>1, <3>1, <3>2 DEF Counted
  <2>5. CountType'
    BY <1>1, <2>3, <2>4 DEF CountType
  <2>6. NamingInv'
    <3>1. Idle.todo = {} /\ Idle.st = "idle"
      BY DEF Idle
    <3> QED
      BY <1>7, <2>1, <2>2, <3>1 DEF Counted
  <2>7. RefInv'
    <3>1. \A v : Held(v) => (v \in Nodes => inode'[v].nlookup > 0)
      BY <1>8, <2>4
    <3>2. ASSUME NEW z \in Names PROVE Held(dcache[z])'
      BY <2>3, <3>1 DEF NewDentriesHeld, RefInv, Held
    <3>3. ASSUME NEW u \in Threads \ {t}, rq'[u].op \notin {"idle", "get_dentry"}
          PROVE  Held(rq[u].n)' /\ Held(rq[u].m)'
      <4>1. rq'[u].n = rq[u].n /\ rq'[u].m = rq[u].m /\ rq'[u].op = rq[u].op
        BY <2>2 DEF Similar
      <4>2. Held(rq[u].n) /\ Held(rq[u].m)
        BY <3>3, <4>1 DEF RefInv
      <4> QED
        BY <3>1, <4>1, <4>2 DEF Held
    <3>4. ASSUME rq'[t].op \notin {"idle", "get_dentry"}
          PROVE  Held(rq[t].n)' /\ Held(rq[t].m)'
      <4>1. Idle.op = "idle" /\ None \notin Nodes
        BY DEF Idle
      <4>2. CASE rq'[t].n = None /\ rq'[t].m = None
        BY <4>1, <4>2 DEF Held
      <4>3. CASE /\ rq[t].op = "readdirplus"
                 /\ rq'[t].n = rq[t].n /\ rq'[t].m = rq[t].m
        <5>1. Held(rq[t].n) /\ Held(rq[t].m)
          BY <4>3 DEF RefInv
        <5> QED
          BY <3>1, <4>3, <5>1 DEF Held
      <4> QED
        BY <2>1, <3>4, <4>1, <4>2, <4>3 DEF Counted
    <3> QED
      BY <3>2, <3>3, <3>4 DEF RefInv
  <2>8. LookupExact'
    BY <1>1, <2>2, <2>4, <2>5, StillExact
  <2> QED
    BY <2>5, <2>6, <2>7, <2>8
<1>12. ASSUME UNCHANGED <<known, forgets, inode, lost>>,
              \A u \in Threads : Similar(rq'[u], rq[u]),
              \A z \in Names : dcache'[z] = dcache[z] \/ dcache'[z] \notin Nodes
       PROVE  CountInv'
  <2>1. CountType' /\ NamingInv'
    BY <1>6, <1>12 DEF CountType
  <2>2. RefInv'
    BY <1>12 DEF RefInv, Held, Similar
  <2>3. LookupExact'
    BY <1>1, <1>12, RepliesKept DEF LookupExact, Forgotten
  <2> QED
    BY <2>1, <2>2, <2>3
<1>13. ASSUME NEW x \in Names,
              revalidate_negative(x) \/ ShrinkDentry(x) \/ DaemonChange(x)
       PROVE  CountInv'
  <2>1. UNCHANGED <<known, forgets, inode, lost, rq>>
        /\ (dcache' = dcache \/ dcache' = [dcache EXCEPT ![x] = "absent"])
    BY <1>13 DEF revalidate_negative, ShrinkDentry, DaemonChange
  <2>2. \A z \in Names : dcache'[z] = dcache[z] \/ dcache'[z] \notin Nodes
    BY <1>1, <2>1 DEF TypeOK
  <2>3. \A u \in Threads : Similar(rq'[u], rq[u])
    BY <2>1 DEF Similar
  <2> QED
    BY <1>12, <2>1, <2>2, <2>3
<1>14. ASSUME NEW x \in Names, fuse_reverse_inval_entry(x) PROVE CountInv'
  <2>1. /\ UNCHANGED <<known, forgets, inode, lost>>
        /\ rq' = Follow(rq, Unhashed({x}))
        /\ dcache' = [dcache EXCEPT ![x] = "absent"]
    BY <1>14 DEF fuse_reverse_inval_entry
  <2>2. \A z \in Names : dcache'[z] = dcache[z] \/ dcache'[z] \notin Nodes
    BY <1>1, <2>1 DEF TypeOK
  <2>3. \A u \in Threads : Similar(rq'[u], rq[u])
    <3>1. Unhashed({x}) \in [{x} -> MaybeName]
      BY DEF Unhashed, MaybeName
    <3> QED
      BY <1>1, <2>1, <3>1, FollowKeeps
  <2> QED
    BY <1>12, <2>1, <2>2, <2>3
<1>15. ASSUME NEW n \in Nodes, fuse_evict_inode(n) PROVE CountInv'
  <2>1. /\ UNCHANGED <<known, dcache, lost>> /\ ~Referenced(n)
        /\ inode' = [inode EXCEPT ![n] = NoInode]
        /\ forgets' = Append(forgets, [n |-> n, k |-> inode[n].nlookup])
    BY <1>15 DEF fuse_evict_inode, fuse_queue_forget
  <2>2. \A u \in Threads : Similar(rq'[u], rq[u])
    BY <1>1, <1>15, EvictFacts
  <2>3. /\ forgets' \in Seq(Forget)
        /\ \A k \in Nodes : Owed(forgets', k)
                            = Owed(forgets, k) + (IF n = k THEN inode[n].nlookup ELSE 0)
    BY <1>1, <1>5, <2>1
  <2>4. inode'[n].nlookup = 0 /\ \A k \in Nodes \ {n} : inode'[k] = inode[k]
    BY <1>1, <2>1 DEF TypeOK, NoInode
  <2>5. CountType' /\ NamingInv'
    BY <1>1, <1>6, <2>1, <2>2, <2>3 DEF CountType
  <2>6. RefInv'
    <3>1. ASSUME NEW z \in Names PROVE Held(dcache[z])'
      BY <2>1, <2>4 DEF Referenced, RefInv, Held
    <3>2. ASSUME NEW u \in Threads, rq'[u].op \notin {"idle", "get_dentry"}
          PROVE  Held(rq[u].n)' /\ Held(rq[u].m)'
      <4>1. rq'[u].n = rq[u].n /\ rq'[u].m = rq[u].m /\ rq'[u].op = rq[u].op
        BY <2>2 DEF Similar
      <4>2. rq[u].n # n /\ rq[u].m # n
        BY <1>2, <2>1, <3>2, <4>1 DEF Referenced, Busy
      <4> QED
        BY <2>4, <3>2, <4>1, <4>2 DEF RefInv, Held
    <3> QED
      BY <3>1, <3>2 DEF RefInv
  <2>7. LookupExact'
    <3> SUFFICES ASSUME NEW k \in Nodes
                 PROVE  known'[k] = inode'[k].nlookup + Forgotten(k)' + InReply(k)' + lost'[k]
      BY DEF LookupExact
    <3>1. InReply(k)' = InReply(k) /\ InReply(k) \in Nat
      BY <1>1, <2>2, RepliesKept
    <3>2. known[k] = inode[k].nlookup + Owed(forgets, k) + InReply(k) + lost[k]
          /\ Forgotten(k)' = Owed(forgets', k) /\ known'[k] = known[k]
          /\ lost'[k] = lost[k]
      BY <2>1 DEF LookupExact, Forgotten
    <3>3. /\ inode[k].nlookup \in Nat /\ Owed(forgets, k) \in Nat
          /\ inode'[k].nlookup + Owed(forgets', k) = inode[k].nlookup + Owed(forgets, k)
      BY <1>1, <1>4, <2>3, <2>4
    <3>4. inode'[k].nlookup \in Nat /\ lost[k] \in Nat /\ inode[n].nlookup \in Nat
      BY <1>1
    <3>5. Owed(forgets', k) \in Nat
      BY <2>3, <3>3, <3>4
    <3> QED
      BY <3>1, <3>2, <3>3, <3>4, <3>5
  <2> QED
    BY <2>5, <2>6, <2>7
<1>16. ASSUME ReadForget PROVE CountInv'
  <2> DEFINE f == Head(forgets)
  <2>1. /\ forgets # <<>> /\ forgets' = Tail(forgets)
        /\ known' = [known EXCEPT ![f.n] = @ - f.k]
        /\ UNCHANGED <<dcache, inode, lost, rq>>
    BY <1>16 DEF ReadForget
  <2>2. /\ f \in Forget /\ forgets' \in Seq(Forget)
        /\ \A k \in Nodes : /\ Owed(forgets', k) \in Nat /\ Share(f, k) \in Nat
                            /\ Owed(forgets, k) = Share(f, k) + Owed(forgets', k)
    BY <1>1, <2>1, OwedTail
  <2>3. f.n \in Nodes /\ f.k \in Nat /\ \A k \in Nodes : Share(f, k) = IF f.n = k THEN f.k ELSE 0
    BY <2>2 DEF Forget, Share
  <2> HIDE DEF f
  <2>4. \A u \in Threads : Similar(rq'[u], rq[u])
    BY <2>1 DEF Similar
  <2>5. ASSUME NEW k \in Nodes
        PROVE  /\ known'[k] \in Nat
               /\ known'[k] = inode'[k].nlookup + Forgotten(k)' + InReply(k)'
                              + lost'[k]
    <3>1. InReply(k)' = InReply(k) /\ InReply(k) \in Nat
      BY <1>1, <2>4, RepliesKept
    <3>2. known[k] = inode[k].nlookup + Owed(forgets, k) + InReply(k) + lost[k]
          /\ Forgotten(k)' = Owed(forgets', k) /\ inode'[k].nlookup = inode[k].nlookup
          /\ lost'[k] = lost[k]
      BY <2>1 DEF LookupExact, Forgotten
    <3>3. known'[k] = known[k] - Share(f, k)
      BY <1>1, <2>1, <2>3
    <3>4. inode[k].nlookup \in Nat /\ lost[k] \in Nat
      BY <1>1
    <3>5. /\ Owed(forgets', k) \in Nat /\ Share(f, k) \in Nat
          /\ Owed(forgets, k) = Share(f, k) + Owed(forgets', k)
      BY <2>2
    <3> QED
      BY <3>1, <3>2, <3>3, <3>4, <3>5
  <2>6. CountType'
    <3>1. known' = [k \in Nodes |-> known'[k]]
      BY <1>1, <2>1
    <3> QED
      BY <2>2, <2>5, <3>1 DEF CountType
  <2>7. NamingInv' /\ RefInv'
    BY <1>6, <2>1, <2>4 DEF RefInv, Held
  <2>8. LookupExact'
    BY <2>5 DEF LookupExact
  <2> QED
    BY <2>6, <2>7, <2>8
<1>17. CASE UNCHANGED vars
  <2>1. UNCHANGED <<known, forgets, inode, dcache, lost, rq>>
    BY <1>17 DEF vars
  <2>2. \A u \in Threads : Similar(rq'[u], rq[u])
    BY <2>1 DEF Similar
  <2> QED
    BY <1>12, <2>1, <2>2
<1> QED
  BY <1>9, <1>10, <1>11, <1>13, <1>14, <1>15, <1>16, <1>17 DEF Next

(* Initially the kernel has counted what it has looked up.                 *)
LEMMA CountInvInit == Init => CountInv
<1> SUFFICES ASSUME Init PROVE CountInv
  OBVIOUS
<1>1. PICK Warm \in SUBSET {x \in Names : dirent[x] # None} :
        LET Found(n) == Cardinality({x \in Warm : dirent[x] = n})
        IN  /\ known = [n \in Nodes |-> Found(n)]
            /\ dcache = [x \in Names |-> IF x \in Warm THEN dirent[x] ELSE "absent"]
            /\ inode = [n \in Nodes |-> IF Found(n) = 0 THEN NoInode
                         ELSE [present |-> TRUE, nlookup |-> Found(n),
                               attr |-> "fresh"]]
  BY DEF Init
<1> DEFINE Found(n) == Cardinality({x \in Warm : dirent[x] = n})
<1>2. \A n : Found(n) \in Nat /\ (Found(n) = 0 => {x \in Warm : dirent[x] = n} = {})
  <2> TAKE n
  <2> DEFINE S == {x \in Warm : dirent[x] = n}
  <2>1. IsFiniteSet(S)
    BY FS_Subset
  <2> HIDE DEF S
  <2>2. Cardinality(S) \in Nat /\ (Cardinality(S) = 0 => S = {})
    BY <2>1, FS_CardinalityType, FS_EmptySet
  <2> QED
    BY <2>2 DEF S
<1>3. /\ dirent \in [Names -> Nodes \cup {None}] /\ forgets = <<>>
      /\ rq = [t \in Threads |-> Idle] /\ \A n \in Nodes : lost[n] = 0
  BY DEF Init
<1>4. /\ \A t \in Threads : rq[t] = Idle
      /\ Idle.op = "idle" /\ Idle.st = "idle" /\ Idle.todo = {}
  BY <1>3 DEF Idle
<1>5. \A n \in Nodes : known[n] = Found(n) /\ inode[n].nlookup = Found(n)
  <2>1. NoInode.nlookup = 0
    BY DEF NoInode
  <2>2. \A n \in Nodes : known[n] = Found(n)
    BY <1>1
  <2>3. \A n \in Nodes : inode[n] = IF Found(n) = 0 THEN NoInode
                         ELSE [present |-> TRUE, nlookup |-> Found(n),
                               attr |-> "fresh"]
    BY <1>1
  <2> HIDE DEF Found
  <2>4. ASSUME NEW n \in Nodes PROVE inode[n].nlookup = Found(n)
    <3>1. CASE Found(n) = 0
      BY <2>1, <2>3, <3>1
    <3>2. CASE Found(n) # 0
      <4>1. inode[n] = [present |-> TRUE, nlookup |-> Found(n), attr |-> "fresh"]
        BY <2>3, <3>2
      <4> QED
        BY <4>1
    <3> QED
      BY <3>1, <3>2
  <2> QED
    BY <2>2, <2>4
<1>6. CountType
  <2>1. known = [n \in Nodes |-> Found(n)]
    BY <1>1
  <2> HIDE DEF Found
  <2> QED
    BY <1>2, <1>3, <2>1 DEF CountType
<1>7. NamingInv
  BY <1>4 DEF NamingInv, Done
<1>8. RefInv
  <2>1. ASSUME NEW x \in Names, dcache[x] \in Nodes PROVE inode[dcache[x]].nlookup > 0
    <3>1. x \in Warm /\ dirent[x] = dcache[x]
      BY <1>1, <2>1
    <3>2. Found(dcache[x]) # 0
      BY <1>2, <3>1
    <3>3. Found(dcache[x]) \in Nat /\ inode[dcache[x]].nlookup = Found(dcache[x])
      BY <1>2, <1>5, <2>1
    <3> HIDE DEF Found
    <3> QED
      BY <3>2, <3>3
  <2> QED
    BY <1>4, <2>1 DEF RefInv, Held
<1>9. LookupExact
  <2> SUFFICES ASSUME NEW n \in Nodes
               PROVE  known[n] = inode[n].nlookup + Forgotten(n) + InReply(n) + lost[n]
    BY DEF LookupExact
  <2>1. InReply(n) = 0
    <3>1. {t \in Threads : rq[t].st = "done" /\ rq[t].out = n} = {}
          /\ {p \in Threads \X (Names \X Nodes) :
                p[2] \in rq[p[1]].todo /\ p[2][2] = n} = {}
      BY <1>4
    <3>2. InReply(n) = Cardinality({}) + Cardinality({})
      BY <3>1 DEF InReply
    <3>3. Cardinality({}) = 0
      BY FS_EmptySet
    <3> QED
      BY <3>2, <3>3
  <2>2. Forgotten(n) = 0
    <3>1. forgets \in Seq(Forget) /\ Len(forgets) = 0
      BY <1>3
    <3>2. Sums(forgets, n, Len(forgets), [i \in 0..0 |-> 0])
      BY <3>1 DEF Sums
    <3>3. Owed(forgets, n) = [i \in 0..0 |-> 0][Len(forgets)]
      BY <3>1, <3>2, OwedSums
    <3> QED
      BY <3>1, <3>3 DEF Forgotten
  <2>3. known[n] = Found(n) /\ inode[n].nlookup = Found(n) /\ Found(n) \in Nat
    BY <1>2, <1>5
  <2> HIDE DEF Found
  <2> QED
    BY <1>3, <2>1, <2>2, <2>3
<1> QED
  BY <1>6, <1>7, <1>8, <1>9 DEF CountInv

(* For every node the daemon's count is what the kernel still owes it,     *)
(* fi->nlookup, the FORGETs and the replies on their way, and what the     *)
(* error labels for malformed replies dropped, whatever else fails in      *)
(* between (fuse_iget, fuse_queue_forget, fuse_force_forget); so a FORGET  *)
(* never overtakes a request that names the node.                          *)
THEOREM LookupsBalanced == Spec => []LookupBalanced
<1>1. ASSUME EntryInv, CountInv PROVE LookupBalanced
  <2>1. ASSUME NEW t \in Threads, Busy(t), rq[t].n \in Nodes, rq[t].op # "get_dentry"
        PROVE  known[rq[t].n] > 0
    <3> DEFINE k == rq[t].n
    <3>1. rq[t].op # "idle"
      BY <1>1, <2>1 DEF Busy, EntryInv, OpInv
    <3>2. inode[k].nlookup > 0 /\ k \in Nodes
      BY <1>1, <2>1, <3>1 DEF CountInv, RefInv, Held
    <3> HIDE DEF k
    <3>3. InReply(k) \in Nat
      <4>1. rq \in [Threads -> Request] /\ \A u \in Threads : Similar(rq[u], rq[u])
        BY <1>1 DEF EntryInv, TypeOK, Similar
      <4> DEFINE A == {u \in Threads : rq[u].st = "done" /\ rq[u].out = k}
                 B == {p \in Threads \X (Names \X Nodes) :
                         p[2] \in rq[p[1]].todo /\ p[2][2] = k}
                 N == Names \X {k}
      <4>2. IsFiniteSet(N)
        BY FS_Product, FS_Singleton
      <4>3. IsFiniteSet(Threads \X N)
        BY <4>2, FS_Product
      <4>4. A \subseteq Threads /\ B \subseteq Threads \X N
        OBVIOUS
      <4>5. Cardinality(A) \in Nat /\ Cardinality(B) \in Nat
        <5> HIDE DEF A, B, N
        <5> QED
          BY <4>3, <4>4, FS_Subset, FS_CardinalityType
      <4>6. InReply(k) = Cardinality(A) + Cardinality(B)
        BY DEF InReply
      <4> HIDE DEF A, B
      <4> QED
        BY <4>5, <4>6
    <3>4. Forgotten(k) \in Nat
      <4>1. [n |-> k, k |-> 0] \in Forget
        BY <3>2 DEF Forget
      <4> QED
        BY <1>1, <4>1, OwedAppend DEF CountInv, CountType, Forgotten
    <3>5. known[k] = inode[k].nlookup + Forgotten(k) + InReply(k) + lost[k]
          /\ inode[k].nlookup \in Nat /\ lost[k] \in Nat
      BY <1>1, <3>2 DEF CountInv, LookupExact, EntryInv, TypeOK, Inode
    <3>6. known[k] > 0
      BY <3>2, <3>3, <3>4, <3>5
    <3> QED
      BY <3>6 DEF k
  <2> QED
    BY <1>1, <2>1 DEF LookupBalanced, NodeKnown, CountInv
<1>2. Spec => []CountInv
  <2>1. EntryInv /\ EntryInv' /\ CountInv /\ [Next]_vars => CountInv'
    BY CountInvStep
  <2> QED
    BY <2>1, CountInvInit, EntryInvariant, PTL DEF Spec
<1> QED
  BY <1>1, <1>2, EntryInvariant, PTL
=============================================================================
