--------------------------- MODULE FuseFilesProofs ---------------------------
(***************************************************************************)
(* Proofs about FUSE files: the ACL cache (FuseXattr), open files          *)
(* (FuseFile, the instance F of MCFuseFiles) and the size of a file        *)
(* (FuseSize, its instance S), for any number of threads, files and calls  *)
(* and a file of any size.                                                 *)
(*                                                                         *)
(* AclCoherent says who is to blame for a stale copy in the cache.  The    *)
(* copy may be stale before it gets there: AclInv says the same of an      *)
(* answer that a caller of get_acl, whose sentinel is in the cache, is     *)
(* about to store, and that the call to blame has changed the ACL, so that *)
(* its end empties the cache.  No sentinel survives its caller.            *)
(***************************************************************************)
EXTENDS MCFuseFiles, FiniteSetTheorems, TLAPS

(* What the cache holds when it holds no sentinel.                         *)
Marks == {"none", "fresh", "stale"}

By == {"none", "xattr", "acl", "setattr"}
Op == {"none", "setxattr", "getxattr", "listxattr", "removexattr", "setattr"}
Calls == [by : By, op : Op, st : {"idle", "sent", "done"},
          out : {"none", "ok", "old", "error", "ENOSYS"}]

(* t has changed the ACL and not yet emptied the cache.                    *)
Changed(t) == call[t].st = "done" /\ call[t].out = "ok" /\ ChangesAcl(t)

(* The cache holds a stale ACL, or will when the caller it waits for ends. *)
Stale == acl = "stale" \/ (acl \in Callers /\ call[acl].out = "old")

AclInv ==
    /\ call \in [Callers -> Calls]
    /\ acl \in Marks \cup Callers
    /\ acl \in Callers => /\ call[acl].st # "idle"
                          /\ call[acl].by = "acl" /\ call[acl].op = "getxattr"
    /\ Stale => \E t \in Callers : Changed(t)

(* A new call: no copy becomes stale, and it takes the place of no other.  *)
LEMMA RequestKeepsAcl ==
    ASSUME AclInv, NEW t \in Callers, NEW by \in By, NEW op \in Op,
           Request(t, by, op),
           \/ acl' = acl
           \/ acl = "none" /\ acl' = t /\ by = "acl" /\ op = "getxattr"
    PROVE  AclInv'
<1>1. call[t].st = "idle"
  BY DEF Request
<1>2. /\ call' \in [Callers -> Calls]
      /\ call'[t] = [by |-> by, op |-> op, st |-> "sent", out |-> "none"]
      /\ \A u \in Callers \ {t} : call'[u] = call[u]
  BY DEF Request, AclInv, Calls
<1>3. acl' \in Marks \cup Callers
  BY DEF AclInv
<1>4. acl' \in Callers => /\ call'[acl'].st # "idle"
                          /\ call'[acl'].by = "acl" /\ call'[acl'].op = "getxattr"
  BY <1>1, <1>2, CallersAssumption DEF AclInv, Marks
<1>5. ASSUME Stale' PROVE \E u \in Callers : Changed(u)'
  <2>1. acl' = acl /\ acl # t
    BY <1>1, <1>2, <1>5, CallersAssumption DEF Stale, AclInv, Marks
  <2>2. Stale
    BY <1>2, <1>5, <2>1 DEF Stale
  <2>3. PICK u \in Callers : Changed(u)
    BY <2>2 DEF AclInv
  <2>4. u # t
    BY <1>1, <2>3 DEF Changed
  <2>5. Changed(u)'
    BY <1>2, <2>3, <2>4 DEF Changed, ChangesAcl
  <2> QED
    BY <2>5
<1> QED
  BY <1>2, <1>3, <1>4, <1>5 DEF AclInv

(* The daemon answers: a change makes the copies stale, and the call that  *)
(* made it is there to be blamed.                                          *)
LEMMA ServeKeepsAcl ==
    ASSUME AclInv, NEW t \in Callers, Serve(t)
    PROVE  AclInv'
<1>1. CASE /\ call' = [u \in Callers |->
                IF u = t THEN [call[t] EXCEPT !.st = "done", !.out = "ok"]
                ELSE IF ChangesAcl(t) /\ call[u].out = "ok"
                     THEN [call[u] EXCEPT !.out = "old"] ELSE call[u]]
           /\ acl' = IF ChangesAcl(t) /\ acl = "fresh" THEN "stale" ELSE acl
  <2>1. /\ call' \in [Callers -> Calls]
        /\ \A u \in Callers : /\ call'[u].by = call[u].by
                              /\ call'[u].op = call[u].op
                              /\ call'[u].st = IF u = t THEN "done" ELSE call[u].st
    BY <1>1 DEF AclInv, Calls
  <2>2. call'[t].out = "ok"
    BY <1>1 DEF AclInv, Calls
  <2>3. /\ acl' \in Marks \cup Callers
        /\ acl' \in Callers => acl' = acl
    BY <1>1, CallersAssumption DEF AclInv, Marks
  <2>4. acl' \in Callers => /\ call'[acl'].st # "idle"
                            /\ call'[acl'].by = "acl" /\ call'[acl'].op = "getxattr"
    BY <2>1, <2>3 DEF AclInv
  <2>5. CASE ChangesAcl(t)
    <3>1. Changed(t)'
      BY <2>1, <2>2, <2>5 DEF Changed, ChangesAcl
    <3> QED
      BY <2>1, <2>3, <2>4, <3>1 DEF AclInv
  <2>6. CASE ~ChangesAcl(t)
    <3>1. /\ acl' = acl
          /\ \A u \in Callers \ {t} : call'[u] = call[u]
      BY <1>1, <2>6
    <3>2. ASSUME Stale' PROVE \E u \in Callers : Changed(u)'
      <4>1. Stale
        BY <2>2, <3>1, <3>2 DEF Stale
      <4>2. PICK u \in Callers : Changed(u)
        BY <4>1 DEF AclInv
      <4>3. u # t
        BY <4>2, <2>6 DEF Changed
      <4>4. Changed(u)'
        BY <3>1, <4>2, <4>3 DEF Changed, ChangesAcl
      <4> QED
        BY <4>4
    <3> QED
      BY <2>1, <2>3, <2>4, <3>2 DEF AclInv
  <2> QED
    BY <2>5, <2>6
<1>2. CASE /\ call' = [call EXCEPT ![t].st = "done", ![t].out =
                        IF call[t].op \in impl \cup {"setattr"} THEN "error"
                                                               ELSE "ENOSYS"]
           /\ UNCHANGED acl
  <2>1. /\ call' \in [Callers -> Calls]
        /\ \A u \in Callers \ {t} : call'[u] = call[u]
        /\ call'[t].st = "done" /\ call'[t].by = call[t].by /\ call'[t].op = call[t].op
        /\ call'[t].out # "old"
    BY <1>2 DEF AclInv, Calls
  <2>2. acl' \in Callers => /\ call'[acl'].st # "idle"
                            /\ call'[acl'].by = "acl" /\ call'[acl'].op = "getxattr"
    BY <1>2, <2>1 DEF AclInv
  <2>3. ASSUME Stale' PROVE \E u \in Callers : Changed(u)'
    <3>1. Stale
      BY <1>2, <2>1, <2>3 DEF Stale
    <3>2. PICK u \in Callers : Changed(u)
      BY <3>1 DEF AclInv
    <3>3. u # t
      BY <3>2 DEF Changed, Serve
    <3>4. Changed(u)'
      BY <2>1, <3>2, <3>3 DEF Changed, ChangesAcl
    <3> QED
      BY <3>4
  <2> QED
    BY <1>2, <2>1, <2>2, <2>3 DEF AclInv
<1> QED
  BY <1>1, <1>2 DEF Serve

(* A call ends: if it was to blame the cache is empty afterwards.          *)
LEMMA FinishKeepsAcl ==
    ASSUME AclInv, NEW t \in Callers, Finish(t)
    PROVE  AclInv'
<1>1. /\ call' \in [Callers -> Calls]
      /\ call'[t] = NoCall
      /\ \A u \in Callers \ {t} : call'[u] = call[u]
  BY DEF Finish, AclInv, Calls, NoCall, By, Op
<1>2. /\ acl' \in {acl} \cup Marks
      /\ acl' # t
  BY CallersAssumption
    DEF Finish, get_acl_done, set_acl_done, setattr_done, xattr_done, AclInv, Marks
<1>3. acl' \in Callers => /\ call'[acl'].st # "idle"
                          /\ call'[acl'].by = "acl" /\ call'[acl'].op = "getxattr"
  BY <1>1, <1>2, CallersAssumption DEF AclInv, Marks
<1>4. ASSUME Stale' PROVE \E u \in Callers : Changed(u)'
  <2>1. Stale
    BY <1>1, <1>2, <1>4, CallersAssumption
      DEF Stale, Finish, get_acl_done, set_acl_done, setattr_done, xattr_done, Marks
  <2>2. PICK u \in Callers : Changed(u)
    BY <2>1 DEF AclInv
  <2>3. u # t
    <3>1. ASSUME u = t PROVE acl' = "none"
      BY <2>2, <3>1 DEF Changed, ChangesAcl, Finish, get_acl_done, set_acl_done,
                        setattr_done, xattr_done
    <3> QED
      BY <1>4, <3>1, CallersAssumption DEF Stale, Marks
  <2>4. Changed(u)'
    BY <1>1, <2>2, <2>3 DEF Changed, ChangesAcl
  <2> QED
    BY <2>4
<1> QED
  BY <1>1, <1>2, <1>3, <1>4 DEF AclInv

LEMMA NextKeepsAcl ==
    ASSUME AclInv, [Next]_xvars
    PROVE  AclInv'
<1>1. ASSUME NEW t \in Callers, fuse_getxattr(t) PROVE AclInv'
  BY <1>1, RequestKeepsAcl DEF fuse_getxattr, By, Op
<1>2. ASSUME NEW t \in Callers, fuse_listxattr(t) PROVE AclInv'
  BY <1>2, RequestKeepsAcl DEF fuse_listxattr, By, Op
<1>3. ASSUME NEW t \in Callers, fuse_xattr_set(t) PROVE AclInv'
  BY <1>3, RequestKeepsAcl DEF fuse_xattr_set, By, Op
<1>4. ASSUME NEW t \in Callers, fuse_get_acl(t) PROVE AclInv'
  BY <1>4, RequestKeepsAcl DEF fuse_get_acl, By, Op
<1>5. ASSUME NEW t \in Callers, fuse_set_acl(t) PROVE AclInv'
  BY <1>5, RequestKeepsAcl DEF fuse_set_acl, By, Op
<1>6. ASSUME NEW t \in Callers, fuse_setattr(t) PROVE AclInv'
  BY <1>6, RequestKeepsAcl DEF fuse_setattr, By, Op
<1>7. ASSUME NEW t \in Callers, Serve(t) PROVE AclInv'
  BY <1>7, ServeKeepsAcl
<1>8. ASSUME NEW t \in Callers, Finish(t) PROVE AclInv'
  BY <1>8, FinishKeepsAcl
<1>9. CASE forget_all_cached_acls
  BY <1>9, CallersAssumption DEF forget_all_cached_acls, AclInv, Stale, Marks
<1>10. CASE UNCHANGED xvars
  BY <1>10 DEF xvars, AclInv, Stale, Changed, ChangesAcl
<1> QED
  BY <1>1, <1>2, <1>3, <1>4, <1>5, <1>6, <1>7, <1>8, <1>9, <1>10 DEF Next

(* The cached ACL is the daemon's for any number of threads that read and  *)
(* change it, except between the daemon's answer to a change and the       *)
(* forget_all_cached_acls of the call that made it.                        *)
THEOREM AclIsCoherent == Spec => []AclCoherent
<1>1. Init => AclInv
  BY CallersAssumption DEF Init, AclInv, NoCall, Calls, By, Op, Stale, Marks
<1>2. AclInv /\ [Next]_xvars => AclInv'
  BY NextKeepsAcl
<1>3. AclInv => AclCoherent
  BY DEF AclInv, AclCoherent, Stale, Changed
<1> QED
  BY <1>1, <1>2, <1>3, PTL DEF Spec


-----------------------------------------------------------------------------
(* FuseFile.                                                               *)
Opens == {"open", "create"}
Uses == {"flush", "setlk", "poll"}
Call == [op : {"none"} \cup Opens \cup Uses,
         pc : {"idle", "sent", "wait", "asleep", "answered", "done", "nosys", "failed"},
         f : Files \cup {"none"}, woken : BOOLEAN]

FileType ==
    /\ copy \in {"old", "tmp"} /\ implOpen \in BOOLEAN /\ no_open \in BOOLEAN
    /\ st \in [Files -> {"none", "opening", "open", "put", "freed"}]
    /\ dir \in [Files -> BOOLEAN] /\ handle \in [Files -> BOOLEAN]
    /\ fds \in [Files -> Nat] /\ count \in [Files -> Nat] /\ io \in [Files -> Nat]
    /\ reserved \in [Files -> Users \cup {"here", "used"}]
    /\ polled \subseteq Files
    /\ flock \in [Files -> BOOLEAN] /\ lk \in [Files -> BOOLEAN]
    /\ want \in [Files -> BOOLEAN]
    /\ fcall \in [Users -> Call]

(* Before a file has its fuse_file in private_data, its count is the one   *)
(* of the copy's fuse_file_alloc.                                          *)
FirstCount == IF copy = "old" THEN 0 ELSE 1

(* A file: the count in every state, the handle, who may have the request  *)
(* and the flock.                                                          *)
FileOk(f) ==
    /\ st[f] \in {"none", "freed"} => count[f] = 0 /\ io[f] = 0
    /\ st[f] = "opening" => count[f] = FirstCount /\ io[f] = 0 /\ ~lk[f]
    /\ st[f] = "open" => count[f] = io[f] + 1
    /\ st[f] = "put" => count[f] = io[f] /\ io[f] > 0
    /\ st[f] \in {"open", "put"} /\ implOpen => handle[f]
    /\ st[f] = "none" /\ (implOpen \/ ~dir[f]) => ~handle[f]
    /\ ~implOpen /\ ~dir[f] => ~handle[f]
    /\ reserved[f] \in Users \/ f \in polled => st[f] = "open"
    /\ lk[f] /\ implOpen => flock[f] /\ st[f] \in {"open", "put", "freed"}

(* A system call: an open knows what the daemon said, everything else has  *)
(* an open file.  setlk marks the file before it asks for the lock, a poll *)
(* puts it on polled_files, and only who is to be woken sleeps.            *)
CallOk(c) ==
    \/ c.op = "none" /\ c.pc = "idle"
    \/ /\ c.op \in Opens /\ c.pc \in {"sent", "failed", "nosys", "done"}
       /\ c.f \in Files /\ st[c.f] = "opening"
       /\ c.pc # "done" => ~handle[c.f]
       /\ c.pc = "nosys" => ~implOpen
       /\ c.pc = "done" /\ implOpen => handle[c.f]
    \/ /\ c.op \in Uses /\ c.pc \in {"sent", "wait", "asleep", "answered", "done"}
       /\ c.f \in Files /\ st[c.f] = "open"
       /\ c.op = "setlk" => flock[c.f]
       /\ c.op = "poll" => c.f \in polled
       /\ c.op = "poll" /\ c.pc = "asleep" => c.woken \/ want[c.f]
       /\ c.op = "flush" /\ c.pc = "asleep" => reserved[c.f] # "here"

(* One thread opens a file.                                                *)
OpenAlone ==
    \A t, u \in Users : fcall[t].op \in Opens /\ fcall[u].op \in Opens
                        /\ fcall[t].f = fcall[u].f => t = u

FileInv ==
    /\ FileType
    /\ no_open => ~implOpen
    /\ \A f \in Files : FileOk(f)
    /\ \A t \in Users : CallOk(fcall[t])
    /\ OpenAlone

LEMMA FileInvInit == F!Init => FileInv
<1> SUFFICES ASSUME F!Init PROVE FileInv
  OBVIOUS
<1> USE DEF F!Init, F!NoCall
<1>1. FileType
  BY DEF FileType, Call
<1>2. \A f \in Files : FileOk(f)
  BY FilesAssumption DEF FileOk
<1>3. \A t \in Users : CallOk(fcall[t])
  BY DEF CallOk
<1>4. OpenAlone
  BY DEF OpenAlone, Opens
<1> QED
  BY <1>1, <1>2, <1>3, <1>4 DEF FileInv

(* A thread that opens a file is alone with it.                            *)
LEMMA OpenerAlone ==
    ASSUME FileInv, NEW t \in Users, fcall[t].op \in Opens
    PROVE  /\ fcall[t].f \in Files /\ st[fcall[t].f] = "opening"
           /\ CallOk(fcall[t]) /\ FileOk(fcall[t].f)
           /\ \A u \in Users \ {t} : fcall[u].op = "none" \/ fcall[u].f # fcall[t].f
<1>1. CallOk(fcall[t]) /\ fcall[t].f \in Files /\ st[fcall[t].f] = "opening"
  BY DEF FileInv, CallOk, Opens, Uses
<1>2. ASSUME NEW u \in Users \ {t}, fcall[u].op # "none", fcall[u].f = fcall[t].f
      PROVE  FALSE
  <2>1. CallOk(fcall[u])
    BY DEF FileInv
  <2>2. fcall[u].op \in Opens
    BY <1>1, <1>2, <2>1 DEF CallOk
  <2> QED
    BY <1>2, <2>2 DEF FileInv, OpenAlone
<1> QED
  BY <1>1, <1>2 DEF FileInv

LEMMA DoOpen ==
    ASSUME FileInv, NEW t \in Users, NEW f \in Files, NEW d \in BOOLEAN, NEW op \in {"open", "create"}, F!fuse_do_open(t, f, d, op)
    PROVE  FileInv'
<1> USE DEF F!fuse_do_open, F!fuse_file_alloc, F!fuse_file_alloc_tmp, F!Enter, F!conn
<1>1. FileType'
  BY DEF FileInv, FileType, Call, Opens, Uses
<1>2. \A g \in Files : FileOk(g)'
  <2>1. FileOk(f) /\ st[f] = "none"
    BY DEF FileInv
  <2>2. FileOk(f)'
    <3>1. /\ st'[f] = "opening" /\ reserved'[f] = "here" /\ io'[f] = 0
          /\ ~lk'[f] /\ ~handle'[f] /\ f \notin polled'
      BY <2>1 DEF FileInv, FileType, FileOk
    <3>2. count'[f] = FirstCount'
      BY DEF FirstCount, FileInv, FileType
    <3> QED
      BY <3>1, <3>2, FilesAssumption DEF FileOk
  <2>3. ASSUME NEW g \in Files \ {f} PROVE FileOk(g)'
    <3>1. FileOk(g)
      BY DEF FileInv
    <3> QED
      BY <3>1 DEF FileInv, FileType, FileOk, FirstCount
  <2> QED
    BY <2>2, <2>3
<1>3. \A u \in Users : CallOk(fcall[u])'
  BY DEF FileInv, FileType, CallOk, Opens, Uses, Call
<1>4. OpenAlone'
  BY DEF FileInv, FileType, CallOk, OpenAlone, Opens, Uses, Call
<1>5. no_open' => ~implOpen'
  BY DEF FileInv, FileType, CallOk, Opens, Uses, Call
<1> QED
  BY <1>1, <1>2, <1>3, <1>4, <1>5 DEF FileInv

LEMMA ServeOpen ==
    ASSUME FileInv, NEW t \in Users, F!ServeOpen(t)
    PROVE  FileInv'
<1> USE DEF F!ServeOpen, F!Goto, F!conn
<1> DEFINE f == fcall[t].f
<1>0. /\ fcall[t] \in Call /\ CallOk(fcall[t]) /\ FileOk(f)
      /\ f \in Files /\ st[f] = "opening"
      /\ \A u \in Users \ {t} : fcall[u].op = "none" \/ fcall[u].f # f
  BY OpenerAlone DEF Opens, FileInv, FileType
<1>x. st \in [Files -> {"none", "opening", "open", "put", "freed"}]
      /\ fcall \in [Users -> Call]
  BY DEF FileInv, FileType
<1>1. FileType'
  <2>1. fcall' \in [Users -> Call]
    BY <1>0, <1>x DEF Call, Opens, Uses
  <2> QED
    BY <1>0, <2>1 DEF FileInv, FileType
<1>2. \A g \in Files : FileOk(g)'
  BY DEF FileInv, FileType, FileOk, FirstCount, CallOk, Opens, Uses, Call
<1>3. \A u \in Users : CallOk(fcall[u])'
  <2>1. CallOk(fcall[t])'
    BY <1>0, <1>x DEF FileInv, FileType, CallOk, Opens, Uses, Call
  <2>2. ASSUME NEW u \in Users \ {t} PROVE CallOk(fcall[u])'
    <3>1. CallOk(fcall[u]) /\ fcall[u] \in Call
      BY <1>x DEF FileInv
    <3>2. fcall'[u] = fcall[u] /\ (fcall[u].op = "none" \/ fcall[u].f # f)
      BY <1>0, <1>x
    <3> QED
      BY <1>0, <1>x, <3>1, <3>2 DEF FileInv, FileType, CallOk, Opens, Uses
  <2> QED
    BY <2>1, <2>2
<1>4. OpenAlone'
  BY DEF FileInv, FileType, CallOk, OpenAlone, Opens, Uses, Call
<1>5. no_open' => ~implOpen'
  BY DEF FileInv, FileType, CallOk, Opens, Uses, Call
<1> QED
  BY <1>1, <1>2, <1>3, <1>4, <1>5 DEF FileInv

LEMMA OpenDone ==
    ASSUME FileInv, NEW t \in Users, F!open_done(t)
    PROVE  FileInv'
<1> USE DEF F!open_done, F!Attach, F!fuse_file_get, F!NoCall, F!conn
<1> DEFINE f == fcall[t].f
<1>0. /\ fcall[t] \in Call /\ CallOk(fcall[t]) /\ FileOk(f)
      /\ f \in Files /\ st[f] = "opening"
      /\ \A u \in Users \ {t} : fcall[u].op = "none" \/ fcall[u].f # f
  BY OpenerAlone DEF Opens, FileInv, FileType
<1>x. st \in [Files -> {"none", "opening", "open", "put", "freed"}]
      /\ fcall \in [Users -> Call]
  BY DEF FileInv, FileType
<1>1. FileType'
  <2>1. fcall' \in [Users -> Call]
    BY <1>0, <1>x DEF Call, Opens, Uses
  <2> QED
    BY <1>0, <2>1 DEF FileInv, FileType
<1>2. \A g \in Files : FileOk(g)'
  BY DEF FileInv, FileType, FileOk, FirstCount, CallOk, Opens, Uses, Call
<1>3. \A u \in Users : CallOk(fcall[u])'
  <2>1. CallOk(fcall[t])'
    BY <1>0, <1>x DEF FileInv, FileType, CallOk, Opens, Uses, Call
  <2>2. ASSUME NEW u \in Users \ {t} PROVE CallOk(fcall[u])'
    <3>1. CallOk(fcall[u]) /\ fcall[u] \in Call
      BY <1>x DEF FileInv
    <3>2. fcall'[u] = fcall[u] /\ (fcall[u].op = "none" \/ fcall[u].f # f)
      BY <1>0, <1>x
    <3> QED
      BY <1>0, <1>x, <3>1, <3>2 DEF FileInv, FileType, CallOk, Opens, Uses
  <2> QED
    BY <2>1, <2>2
<1>4. OpenAlone'
  BY DEF FileInv, FileType, CallOk, OpenAlone, Opens, Uses, Call
<1>5. no_open' => ~implOpen'
  BY DEF FileInv, FileType, CallOk, Opens, Uses, Call
<1> QED
  BY <1>1, <1>2, <1>3, <1>4, <1>5 DEF FileInv

LEMMA OpenFailed ==
    ASSUME FileInv, NEW t \in Users, F!open_failed(t)
    PROVE  FileInv'
<1> USE DEF F!open_failed, F!NoCall, F!conn
<1> DEFINE f == fcall[t].f
<1>0. /\ fcall[t] \in Call /\ CallOk(fcall[t]) /\ FileOk(f)
      /\ f \in Files /\ st[f] = "opening"
      /\ \A u \in Users \ {t} : fcall[u].op = "none" \/ fcall[u].f # f
  BY OpenerAlone DEF Opens, FileInv, FileType
<1>x. st \in [Files -> {"none", "opening", "open", "put", "freed"}]
      /\ fcall \in [Users -> Call]
  BY DEF FileInv, FileType
<1>1. FileType'
  <2>1. fcall' \in [Users -> Call]
    BY <1>0, <1>x DEF Call, Opens, Uses
  <2> QED
    BY <1>0, <2>1 DEF FileInv, FileType
<1>2. \A g \in Files : FileOk(g)'
  BY DEF FileInv, FileType, FileOk, FirstCount, CallOk, Opens, Uses, Call
<1>3. \A u \in Users : CallOk(fcall[u])'
  <2>1. CallOk(fcall[t])'
    BY <1>0, <1>x DEF FileInv, FileType, CallOk, Opens, Uses, Call
  <2>2. ASSUME NEW u \in Users \ {t} PROVE CallOk(fcall[u])'
    <3>1. CallOk(fcall[u]) /\ fcall[u] \in Call
      BY <1>x DEF FileInv
    <3>2. fcall'[u] = fcall[u] /\ (fcall[u].op = "none" \/ fcall[u].f # f)
      BY <1>0, <1>x
    <3> QED
      BY <1>0, <1>x, <3>1, <3>2 DEF FileInv, FileType, CallOk, Opens, Uses
  <2> QED
    BY <2>1, <2>2
<1>4. OpenAlone'
  BY DEF FileInv, FileType, CallOk, OpenAlone, Opens, Uses, Call
<1>5. no_open' => ~implOpen'
  BY DEF FileInv, FileType, CallOk, Opens, Uses, Call
<1> QED
  BY <1>1, <1>2, <1>3, <1>4, <1>5 DEF FileInv

LEMMA SyncRelease ==
    ASSUME FileInv, NEW t \in Users, F!fuse_sync_release(t)
    PROVE  FileInv'
<1> USE DEF F!fuse_sync_release, F!fuse_file_put, F!At, F!NoCall, F!conn
<1> DEFINE f == fcall[t].f
<1>0. /\ fcall[t] \in Call /\ CallOk(fcall[t]) /\ FileOk(f)
      /\ f \in Files /\ st[f] = "opening"
      /\ \A u \in Users \ {t} : fcall[u].op = "none" \/ fcall[u].f # f
  BY OpenerAlone DEF Opens, FileInv, FileType
<1>x. st \in [Files -> {"none", "opening", "open", "put", "freed"}]
      /\ fcall \in [Users -> Call]
  BY DEF FileInv, FileType
<1>y. \E s \in {"none", "freed"} : st' = [st EXCEPT ![f] = s]
      /\ (s = "none" => no_open)
  BY <1>0, <1>x DEF FileInv, FileType, FileOk, FirstCount
<1>z. count' \in [Files -> Nat] /\ count' = [count EXCEPT ![f] = 0]
  BY <1>0, <1>x DEF FileInv, FileType, FileOk, FirstCount
<1>w. /\ reserved' \in [Files -> Users \cup {"here", "used"}]
      /\ reserved'[f] \notin Users /\ \A g \in Files \ {f} : reserved'[g] = reserved[g]
  BY <1>0, <1>x, FilesAssumption DEF FileInv, FileType, FileOk
<1>1. FileType'
  <2>1. fcall' \in [Users -> Call]
    BY <1>0, <1>x DEF Call, Opens, Uses
  <2>2. st' \in [Files -> {"none", "opening", "open", "put", "freed"}]
    BY <1>x, <1>y
  <2> QED
    BY <2>1, <2>2, <1>z, <1>w DEF FileInv, FileType
<1>2. \A g \in Files : FileOk(g)'
  <2>1. ASSUME NEW g \in Files, g = f PROVE FileOk(g)'
    <3>1. st'[g] \in {"none", "freed"} /\ (st'[g] = "none" => no_open)
      BY <1>0, <1>x, <1>y, <2>1
    <3>2. count'[g] = 0 /\ io'[g] = 0 /\ ~lk'[g] /\ g \notin polled' /\ handle' = handle
      BY <1>0, <1>z, <2>1 DEF FileInv, FileType, FileOk
    <3>3. (no_open => ~implOpen) /\ UNCHANGED <<implOpen, dir>>
          /\ (~implOpen /\ ~dir[g] => ~handle[g]) /\ reserved'[g] \notin Users
      BY <1>0, <1>w, <2>1 DEF FileInv, FileOk
    <3> QED
      BY <3>1, <3>2, <3>3 DEF FileOk
  <2>2. ASSUME NEW g \in Files \ {f} PROVE FileOk(g)'
    <3>1. FileOk(g)
      BY DEF FileInv
    <3>2. st'[g] = st[g] /\ count'[g] = count[g] /\ reserved'[g] = reserved[g]
      BY <1>0, <1>x, <1>y, <1>z, <1>w DEF FileInv, FileType
    <3> QED
      BY <3>1, <3>2 DEF FileOk, FirstCount
  <2> QED
    BY <2>1, <2>2
<1>3. \A u \in Users : CallOk(fcall[u])'
  <2>1. CallOk(fcall[t])'
    BY <1>0, <1>x DEF FileInv, FileType, CallOk, Opens, Uses, Call
  <2>2. ASSUME NEW u \in Users \ {t} PROVE CallOk(fcall[u])'
    <3>1. CallOk(fcall[u]) /\ fcall[u] \in Call
      BY <1>x DEF FileInv
    <3>2. fcall'[u] = fcall[u] /\ (fcall[u].op = "none" \/ fcall[u].f # f)
      BY <1>0, <1>x
    <3> QED
      BY <1>0, <1>x, <3>1, <3>2 DEF FileInv, FileType, CallOk, Opens, Uses
  <2> QED
    BY <2>1, <2>2
<1>4. OpenAlone'
  BY DEF FileInv, FileType, CallOk, OpenAlone, Opens, Uses, Call
<1>5. no_open' => ~implOpen'
  BY DEF FileInv, FileType, CallOk, Opens, Uses, Call
<1> QED
  BY <1>1, <1>2, <1>3, <1>4, <1>5 DEF FileInv

LEMMA ServeRelease ==
    ASSUME FileInv, NEW f \in Files, F!ServeRelease(f)
    PROVE  FileInv'
<1> USE DEF F!ServeRelease, F!Unlocks, F!conn
<1>1. FileType'
  BY DEF FileInv, FileType, Call, Opens, Uses
<1>2. \A g \in Files : FileOk(g)'
  BY DEF FileInv, FileType, FileOk, FirstCount, CallOk, Opens, Uses, Call
<1>3. \A u \in Users : CallOk(fcall[u])'
  BY DEF FileInv, FileType, CallOk, Opens, Uses, Call
<1>4. OpenAlone'
  BY DEF FileInv, FileType, CallOk, OpenAlone, Opens, Uses, Call
<1>5. no_open' => ~implOpen'
  BY DEF FileInv, FileType, CallOk, Opens, Uses, Call
<1> QED
  BY <1>1, <1>2, <1>3, <1>4, <1>5 DEF FileInv

LEMMA AsyncIo ==
    ASSUME FileInv, NEW f \in Files, F!fuse_async_io(f)
    PROVE  FileInv'
<1> USE DEF F!fuse_async_io, F!fuse_file_get, F!conn
<1>1. FileType'
  BY DEF FileInv, FileType, Call, Opens, Uses
<1>2. \A g \in Files : FileOk(g)'
  BY DEF FileInv, FileType, FileOk, FirstCount, CallOk, Opens, Uses, Call
<1>3. \A u \in Users : CallOk(fcall[u])'
  BY DEF FileInv, FileType, CallOk, Opens, Uses, Call
<1>4. OpenAlone'
  BY DEF FileInv, FileType, CallOk, OpenAlone, Opens, Uses, Call
<1>5. no_open' => ~implOpen'
  BY DEF FileInv, FileType, CallOk, Opens, Uses, Call
<1> QED
  BY <1>1, <1>2, <1>3, <1>4, <1>5 DEF FileInv

LEMMA AsyncEnd ==
    ASSUME FileInv, NEW f \in Files, F!async_io_end(f)
    PROVE  FileInv'
<1> USE DEF F!async_io_end, F!fuse_file_put, F!conn
<1>0. FileOk(f) /\ st \in [Files -> {"none", "opening", "open", "put", "freed"}]
      /\ io[f] \in Nat /\ count[f] \in Nat /\ io[f] > 0
  BY DEF FileInv, FileType
<1>x. /\ st[f] \in {"open", "put"}
      /\ st[f] = "open" => count[f] > 1
  BY <1>0 DEF FileOk, FirstCount
<1>y. /\ io' = [io EXCEPT ![f] = io[f] - 1] /\ count' = [count EXCEPT ![f] = count[f] - 1]
      /\ io[f] - 1 \in Nat /\ count[f] - 1 \in Nat
  BY <1>0, <1>x DEF FileOk
<1>w. \/ /\ st' = st /\ reserved' = reserved /\ count[f] > 1
      \/ /\ st[f] = "put" /\ count[f] = 1 /\ st' = [st EXCEPT ![f] = "none"]
         /\ reserved' = reserved /\ no_open
      \/ /\ st[f] = "put" /\ count[f] = 1 /\ st' = [st EXCEPT ![f] = "freed"]
         /\ reserved' = [reserved EXCEPT ![f] = "used"]
  BY <1>0, <1>x DEF FileOk
<1>1. FileType'
  <2>1. io' \in [Files -> Nat] /\ count' \in [Files -> Nat]
    BY <1>y DEF FileInv, FileType
  <2>2. /\ st' \in [Files -> {"none", "opening", "open", "put", "freed"}]
        /\ reserved' \in [Files -> Users \cup {"here", "used"}]
    BY <1>w DEF FileInv, FileType
  <2> QED
    BY <2>1, <2>2 DEF FileInv, FileType
<1>2. \A g \in Files : FileOk(g)'
  <2>1. FileOk(f)'
    <3>1. io'[f] = io[f] - 1 /\ count'[f] = count[f] - 1
      BY <1>y DEF FileInv, FileType
    <3>2. CASE st' = st /\ reserved' = reserved /\ count[f] > 1
      BY <1>0, <1>x, <3>1, <3>2 DEF FileOk, FirstCount
    <3>3. CASE /\ st[f] = "put" /\ count[f] = 1 /\ st' = [st EXCEPT ![f] = "none"]
               /\ reserved' = reserved /\ no_open
      <4>1. st'[f] = "none" /\ ~implOpen
        BY <1>0, <3>3 DEF FileInv
      <4> QED
        BY <1>0, <3>1, <3>3, <4>1 DEF FileOk
    <3>4. CASE /\ st[f] = "put" /\ count[f] = 1 /\ st' = [st EXCEPT ![f] = "freed"]
               /\ reserved' = [reserved EXCEPT ![f] = "used"]
      <4>1. st'[f] = "freed" /\ reserved'[f] = "used"
        BY <1>0, <3>4 DEF FileInv, FileType
      <4> QED
        BY <1>0, <3>1, <3>4, <4>1, FilesAssumption DEF FileOk
    <3> QED
      BY <1>w, <3>2, <3>3, <3>4
  <2>2. ASSUME NEW g \in Files \ {f} PROVE FileOk(g)'
    <3>1. FileOk(g)
      BY DEF FileInv
    <3>2. st'[g] = st[g] /\ count'[g] = count[g] /\ reserved'[g] = reserved[g] /\ io'[g] = io[g]
      BY <1>0, <1>y, <1>w DEF FileInv, FileType
    <3> QED
      BY <3>1, <3>2 DEF FileOk, FirstCount
  <2> QED
    BY <2>1, <2>2
<1>3. \A u \in Users : CallOk(fcall[u])'
  <2>1. \A u \in Users : CallOk(fcall[u])
    BY DEF FileInv
  <2>2. \A g \in Files : st[g] = "opening" \/ st[g] = "open" => st'[g] = st[g]
    BY <1>0, <1>x DEF FileInv, FileType
  <2>3. \A g \in Files : st[g] = "open" /\ reserved'[g] = "here" => reserved[g] = "here"
    BY <1>0, <1>x DEF FileInv, FileType
  <2> QED
    BY <2>1, <2>2, <2>3 DEF CallOk, FileInv, FileType, Call
<1>4. OpenAlone'
  BY DEF FileInv, FileType, CallOk, OpenAlone, Opens, Uses, Call
<1>5. no_open' => ~implOpen'
  BY DEF FileInv, FileType, CallOk, Opens, Uses, Call
<1> QED
  BY <1>1, <1>2, <1>3, <1>4, <1>5 DEF FileInv

LEMMA Flush ==
    ASSUME FileInv, NEW t \in Users, NEW f \in Files, F!fuse_flush(t, f)
    PROVE  FileInv'
<1> USE DEF F!fuse_flush, F!Enter, F!conn
<1>1. FileType'
  <2>1. fcall' \in [Users -> Call]
    <3>1. PICK p \in {"sent", "wait", "done"} : F!Enter(t, "flush", f, p)
      BY DEF F!fuse_flush
    <3>2. fcall \in [Users -> Call]
      BY DEF FileInv, FileType
    <3> QED
      BY <3>1, <3>2 DEF F!Enter, Call, Uses
  <2>2. fds' \in [Files -> Nat]
    BY DEF FileInv, FileType
  <2> QED
    BY <2>1, <2>2 DEF FileInv, FileType
<1>2. \A g \in Files : FileOk(g)'
  BY DEF FileInv, FileType, FileOk, FirstCount, CallOk, Opens, Uses, Call
<1>3. \A u \in Users : CallOk(fcall[u])'
  BY DEF FileInv, FileType, CallOk, Opens, Uses, Call
<1>4. OpenAlone'
  BY DEF FileInv, FileType, CallOk, OpenAlone, Opens, Uses, Call
<1>5. no_open' => ~implOpen'
  BY DEF FileInv, FileType, CallOk, Opens, Uses, Call
<1> QED
  BY <1>1, <1>2, <1>3, <1>4, <1>5 DEF FileInv

LEMMA GetReserved ==
    ASSUME FileInv, NEW t \in Users, F!get_reserved_req(t)
    PROVE  FileInv'
<1> USE DEF F!get_reserved_req, F!At, F!Goto, F!conn
<1>1. FileType'
  BY DEF FileInv, FileType, Call, Opens, Uses
<1>2. \A g \in Files : FileOk(g)'
  BY DEF FileInv, FileType, FileOk, FirstCount, CallOk, Opens, Uses, Call
<1>3. \A u \in Users : CallOk(fcall[u])'
  BY DEF FileInv, FileType, CallOk, Opens, Uses, Call
<1>4. OpenAlone'
  BY DEF FileInv, FileType, CallOk, OpenAlone, Opens, Uses, Call
<1>5. no_open' => ~implOpen'
  BY DEF FileInv, FileType, CallOk, Opens, Uses, Call
<1> QED
  BY <1>1, <1>2, <1>3, <1>4, <1>5 DEF FileInv

LEMMA ServeFlush ==
    ASSUME FileInv, NEW t \in Users, F!ServeFlush(t)
    PROVE  FileInv'
<1> USE DEF F!ServeFlush, F!At, F!Goto, F!ffv, F!conn
<1>1. FileType'
  BY DEF FileInv, FileType, Call, Opens, Uses
<1>2. \A g \in Files : FileOk(g)'
  BY DEF FileInv, FileType, FileOk, FirstCount, CallOk, Opens, Uses, Call
<1>3. \A u \in Users : CallOk(fcall[u])'
  BY DEF FileInv, FileType, CallOk, Opens, Uses, Call
<1>4. OpenAlone'
  BY DEF FileInv, FileType, CallOk, OpenAlone, Opens, Uses, Call
<1>5. no_open' => ~implOpen'
  BY DEF FileInv, FileType, CallOk, Opens, Uses, Call
<1> QED
  BY <1>1, <1>2, <1>3, <1>4, <1>5 DEF FileInv

LEMMA FlushPut ==
    ASSUME FileInv, NEW t \in Users, F!flush_put(t)
    PROVE  FileInv'
<1> USE DEF F!flush_put, F!PutRequest, F!WakeReserved, F!At, F!Goto, F!conn
<1>1. FileType'
  BY DEF FileInv, FileType, Call, Opens, Uses
<1>2. \A g \in Files : FileOk(g)'
  BY DEF FileInv, FileType, FileOk, FirstCount, CallOk, Opens, Uses, Call
<1>3. \A u \in Users : CallOk(fcall[u])'
  BY DEF FileInv, FileType, CallOk, Opens, Uses, Call
<1>4. OpenAlone'
  BY DEF FileInv, FileType, CallOk, OpenAlone, Opens, Uses, Call
<1>5. no_open' => ~implOpen'
  BY DEF FileInv, FileType, CallOk, Opens, Uses, Call
<1> QED
  BY <1>1, <1>2, <1>3, <1>4, <1>5 DEF FileInv

LEMMA TransportPut ==
    ASSUME FileInv, NEW f \in Files, F!transport_put(f)
    PROVE  FileInv'
<1> USE DEF F!transport_put, F!PutRequest, F!WakeReserved, F!conn
<1>1. FileType'
  <2>1. fcall' \in [Users -> Call]
    <3>1. fcall \in [Users -> Call]
      BY DEF FileInv, FileType
    <3> QED
      BY <3>1 DEF Call, Uses
  <2> QED
    BY <2>1 DEF FileInv, FileType
<1>2. \A g \in Files : FileOk(g)'
  BY DEF FileInv, FileType, FileOk, FirstCount, CallOk, Opens, Uses, Call
<1>3. \A u \in Users : CallOk(fcall[u])'
  BY DEF FileInv, FileType, CallOk, Opens, Uses, Call
<1>4. OpenAlone'
  BY DEF FileInv, FileType, CallOk, OpenAlone, Opens, Uses, Call
<1>5. no_open' => ~implOpen'
  BY DEF FileInv, FileType, CallOk, Opens, Uses, Call
<1> QED
  BY <1>1, <1>2, <1>3, <1>4, <1>5 DEF FileInv

LEMMA Flock ==
    ASSUME FileInv, NEW t \in Users, NEW f \in Files, F!fuse_file_flock(t, f)
    PROVE  FileInv'
<1> USE DEF F!fuse_file_flock, F!Enter, F!conn
<1>1. FileType'
  BY DEF FileInv, FileType, Call, Opens, Uses
<1>2. \A g \in Files : FileOk(g)'
  BY DEF FileInv, FileType, FileOk, FirstCount, CallOk, Opens, Uses, Call
<1>3. \A u \in Users : CallOk(fcall[u])'
  BY DEF FileInv, FileType, CallOk, Opens, Uses, Call
<1>4. OpenAlone'
  BY DEF FileInv, FileType, CallOk, OpenAlone, Opens, Uses, Call
<1>5. no_open' => ~implOpen'
  BY DEF FileInv, FileType, CallOk, Opens, Uses, Call
<1> QED
  BY <1>1, <1>2, <1>3, <1>4, <1>5 DEF FileInv

LEMMA ServeLock ==
    ASSUME FileInv, NEW t \in Users, F!ServeLock(t)
    PROVE  FileInv'
<1> USE DEF F!ServeLock, F!At, F!Goto, F!conn
<1>1. FileType'
  <2>1. fcall[t] \in Call /\ fcall \in [Users -> Call]
    BY DEF FileInv, FileType
  <2>2. fcall[t].f \in Files
    BY DEF FileInv, CallOk, Opens, Uses
  <2>3. fcall' \in [Users -> Call]
    BY <2>1, <2>2 DEF Call, Uses
  <2> QED
    BY <2>1, <2>2, <2>3 DEF FileInv, FileType
<1>2. \A g \in Files : FileOk(g)'
  BY DEF FileInv, FileType, FileOk, FirstCount, CallOk, Opens, Uses, Call
<1>3. \A u \in Users : CallOk(fcall[u])'
  BY DEF FileInv, FileType, CallOk, Opens, Uses, Call
<1>4. OpenAlone'
  BY DEF FileInv, FileType, CallOk, OpenAlone, Opens, Uses, Call
<1>5. no_open' => ~implOpen'
  BY DEF FileInv, FileType, CallOk, Opens, Uses, Call
<1> QED
  BY <1>1, <1>2, <1>3, <1>4, <1>5 DEF FileInv

LEMMA Poll ==
    ASSUME FileInv, NEW t \in Users, NEW f \in Files, F!fuse_file_poll(t, f)
    PROVE  FileInv'
<1> USE DEF F!fuse_file_poll, F!fuse_register_polled_file, F!Enter, F!conn
<1>1. FileType'
  BY DEF FileInv, FileType, Call, Opens, Uses
<1>2. \A g \in Files : FileOk(g)'
  BY DEF FileInv, FileType, FileOk, FirstCount, CallOk, Opens, Uses, Call
<1>3. \A u \in Users : CallOk(fcall[u])'
  BY DEF FileInv, FileType, CallOk, Opens, Uses, Call
<1>4. OpenAlone'
  BY DEF FileInv, FileType, CallOk, OpenAlone, Opens, Uses, Call
<1>5. no_open' => ~implOpen'
  BY DEF FileInv, FileType, CallOk, Opens, Uses, Call
<1> QED
  BY <1>1, <1>2, <1>3, <1>4, <1>5 DEF FileInv

LEMMA ServePoll ==
    ASSUME FileInv, NEW t \in Users, F!ServePoll(t)
    PROVE  FileInv'
<1> USE DEF F!ServePoll, F!At, F!Goto, F!ffv, F!conn
<1>1. FileType'
  <2>1. fcall[t] \in Call /\ fcall \in [Users -> Call]
    BY DEF FileInv, FileType
  <2>2. fcall[t].f \in Files
    BY DEF FileInv, CallOk, Opens, Uses
  <2>3. fcall' \in [Users -> Call]
    BY <2>1, <2>2 DEF Call, Uses
  <2> QED
    BY <2>1, <2>2, <2>3 DEF FileInv, FileType
<1>2. \A g \in Files : FileOk(g)'
  BY DEF FileInv, FileType, FileOk, FirstCount, CallOk, Opens, Uses, Call
<1>3. \A u \in Users : CallOk(fcall[u])'
  BY DEF FileInv, FileType, CallOk, Opens, Uses, Call
<1>4. OpenAlone'
  BY DEF FileInv, FileType, CallOk, OpenAlone, Opens, Uses, Call
<1>5. no_open' => ~implOpen'
  BY DEF FileInv, FileType, CallOk, Opens, Uses, Call
<1> QED
  BY <1>1, <1>2, <1>3, <1>4, <1>5 DEF FileInv

LEMMA EventStep ==
    ASSUME FileInv, NEW f \in Files, F!Event(f)
    PROVE  FileInv'
<1> USE DEF F!Event, F!ffv, F!conn
<1>1. FileType'
  BY DEF FileInv, FileType, Call, Opens, Uses
<1>2. \A g \in Files : FileOk(g)'
  BY DEF FileInv, FileType, FileOk, FirstCount, CallOk, Opens, Uses, Call
<1>3. \A u \in Users : CallOk(fcall[u])'
  BY DEF FileInv, FileType, CallOk, Opens, Uses, Call
<1>4. OpenAlone'
  BY DEF FileInv, FileType, CallOk, OpenAlone, Opens, Uses, Call
<1>5. no_open' => ~implOpen'
  BY DEF FileInv, FileType, CallOk, Opens, Uses, Call
<1> QED
  BY <1>1, <1>2, <1>3, <1>4, <1>5 DEF FileInv

LEMMA Notify ==
    ASSUME FileInv, NEW f \in Files, F!fuse_notify_poll_wakeup(f)
    PROVE  FileInv'
<1> USE DEF F!fuse_notify_poll_wakeup, F!ffv, F!conn
<1>1. FileType'
  <2>1. fcall' \in [Users -> Call]
    <3>1. fcall \in [Users -> Call]
      BY DEF FileInv, FileType
    <3> QED
      BY <3>1 DEF Call, Uses
  <2> QED
    BY <2>1 DEF FileInv, FileType
<1>2. \A g \in Files : FileOk(g)'
  BY DEF FileInv, FileType, FileOk, FirstCount, CallOk, Opens, Uses, Call
<1>3. \A u \in Users : CallOk(fcall[u])'
  BY DEF FileInv, FileType, CallOk, Opens, Uses, Call
<1>4. OpenAlone'
  BY DEF FileInv, FileType, CallOk, OpenAlone, Opens, Uses, Call
<1>5. no_open' => ~implOpen'
  BY DEF FileInv, FileType, CallOk, Opens, Uses, Call
<1> QED
  BY <1>1, <1>2, <1>3, <1>4, <1>5 DEF FileInv

LEMMA PollAgain ==
    ASSUME FileInv, NEW t \in Users, F!poll_again(t)
    PROVE  FileInv'
<1> USE DEF F!poll_again, F!At, F!Goto, F!ffv, F!conn
<1>1. FileType'
  BY DEF FileInv, FileType, Call, Opens, Uses
<1>2. \A g \in Files : FileOk(g)'
  BY DEF FileInv, FileType, FileOk, FirstCount, CallOk, Opens, Uses, Call
<1>3. \A u \in Users : CallOk(fcall[u])'
  BY DEF FileInv, FileType, CallOk, Opens, Uses, Call
<1>4. OpenAlone'
  BY DEF FileInv, FileType, CallOk, OpenAlone, Opens, Uses, Call
<1>5. no_open' => ~implOpen'
  BY DEF FileInv, FileType, CallOk, Opens, Uses, Call
<1> QED
  BY <1>1, <1>2, <1>3, <1>4, <1>5 DEF FileInv

LEMMA ReturnStep ==
    ASSUME FileInv, NEW t \in Users, F!Return(t)
    PROVE  FileInv'
<1> USE DEF F!Return, F!NoCall, F!ffv, F!conn
<1>1. FileType'
  BY DEF FileInv, FileType, Call, Opens, Uses
<1>2. \A g \in Files : FileOk(g)'
  BY DEF FileInv, FileType, FileOk, FirstCount, CallOk, Opens, Uses, Call
<1>3. \A u \in Users : CallOk(fcall[u])'
  BY DEF FileInv, FileType, CallOk, Opens, Uses, Call
<1>4. OpenAlone'
  BY DEF FileInv, FileType, CallOk, OpenAlone, Opens, Uses, Call
<1>5. no_open' => ~implOpen'
  BY DEF FileInv, FileType, CallOk, Opens, Uses, Call
<1> QED
  BY <1>1, <1>2, <1>3, <1>4, <1>5 DEF FileInv

LEMMA DupStep ==
    ASSUME FileInv, NEW f \in Files, F!Dup(f)
    PROVE  FileInv'
<1> USE DEF F!Dup, F!conn
<1>1. FileType'
  BY DEF FileInv, FileType, Call, Opens, Uses
<1>2. \A g \in Files : FileOk(g)'
  BY DEF FileInv, FileType, FileOk, FirstCount, CallOk, Opens, Uses, Call
<1>3. \A u \in Users : CallOk(fcall[u])'
  BY DEF FileInv, FileType, CallOk, Opens, Uses, Call
<1>4. OpenAlone'
  BY DEF FileInv, FileType, CallOk, OpenAlone, Opens, Uses, Call
<1>5. no_open' => ~implOpen'
  BY DEF FileInv, FileType, CallOk, Opens, Uses, Call
<1> QED
  BY <1>1, <1>2, <1>3, <1>4, <1>5 DEF FileInv

(* FuseFile's own copy of an operator of FiniteSets.                       *)
LEMMA SameCardinality == ASSUME NEW Q PROVE F!Cardinality(Q) = Cardinality(Q)
  BY Zenon DEF F!Cardinality, Cardinality

(* No reference to the struct file is left.                                *)
LEMMA NoFileRefs ==
    ASSUME FileInv, NEW f \in Files, F!FileRefs(f) = 0
    PROVE  reserved[f] \notin Users /\ F!InCall(f) = {}
<1> DEFINE n == Cardinality(F!InCall(f))
<1>1. IsFiniteSet(F!InCall(f))
  <2>1. F!InCall(f) \subseteq Users
    BY DEF F!InCall
  <2> QED
    BY <2>1, FS_Subset, FilesAssumption
<1>2. n \in Nat /\ (n = 0 => F!InCall(f) = {})
  BY <1>1, FS_CardinalityType, FS_EmptySet
<1>3. fds[f] \in Nat /\ fds[f] + n + (IF reserved[f] \in Users THEN 1 ELSE 0) = 0
  BY SameCardinality DEF F!FileRefs, FileInv, FileType
<1> HIDE DEF n
<1>4. n = 0 /\ reserved[f] \notin Users
  <2>1. CASE reserved[f] \in Users
    BY <1>2, <1>3, <2>1
  <2>2. CASE reserved[f] \notin Users
    <3>1. n \in Nat /\ fds[f] \in Nat /\ fds[f] + n + 0 = 0
      BY <1>2, <1>3, <2>2
    <3> QED
      BY <2>2, <3>1
  <2> QED
    BY <2>1, <2>2
<1> QED
  BY <1>2, <1>4

(* The last fput: nobody is in a call on the file, so no poller is there   *)
(* to be woken and no FLUSH to miss its request.                           *)
LEMMA ReleaseCommon ==
    ASSUME FileInv, NEW f \in Files, F!fuse_release_common(f)
    PROVE  FileInv'
<1> USE DEF F!fuse_release_common, F!fuse_prepare_release, F!Erase, F!fuse_file_put, F!conn
<1>1. /\ FileOk(f) /\ st[f] = "open" /\ reserved[f] \notin Users
      /\ \A u \in Users : fcall[u].pc = "idle" \/ fcall[u].f # f
  BY NoFileRefs DEF FileInv, F!InCall
<1>2. fcall \in [Users -> Call] /\ (\A u \in Users : CallOk(fcall[u]))
  BY DEF FileInv, FileType
<1>3. fcall' = fcall
  <2>1. ASSUME NEW u \in Users PROVE fcall[u].f = f => fcall[u].op # "poll"
    <3>1. CallOk(fcall[u]) /\ (fcall[u].pc = "idle" \/ fcall[u].f # f)
      BY <1>1, <1>2
    <3> QED
      BY <3>1 DEF CallOk, Opens, Uses
  <2>2. fcall' = [u \in Users |-> fcall[u]]
    BY <2>1
  <2> QED
    BY <1>2, <2>2
<1>4. /\ io[f] \in Nat /\ count[f] = io[f] + 1 /\ (implOpen => handle[f])
      /\ count' = [count EXCEPT ![f] = io[f]] /\ polled' = polled \ {f}
      /\ lk' \in {lk, [lk EXCEPT ![f] = lk[f] /\ copy = "old"]}
      /\ UNCHANGED <<copy, implOpen, no_open, dir, fds, io, handle, flock, want>>
  <2>1. io[f] \in Nat /\ count[f] = io[f] + 1 /\ (implOpen => handle[f])
    BY <1>1 DEF FileOk, FileInv, FileType
  <2>2. count[f] - 1 = io[f]
    BY <2>1
  <2> QED
    BY <2>1, <2>2
<1>5. \/ /\ io[f] > 0 /\ st' = [st EXCEPT ![f] = "put"] /\ reserved' = reserved
      \/ /\ io[f] = 0 /\ st' = [st EXCEPT ![f] = "none"] /\ reserved' = reserved
         /\ no_open
      \/ /\ io[f] = 0 /\ st' = [st EXCEPT ![f] = "freed"]
         /\ reserved' = [reserved EXCEPT ![f] = "used"]
  BY <1>4
<1>6. FileType'
  <2>1. count' \in [Files -> Nat] /\ polled' \subseteq Files
    BY <1>4 DEF FileInv, FileType
  <2>2. lk' \in [Files -> BOOLEAN]
    BY <1>4 DEF FileInv, FileType
  <2>3. /\ st' \in [Files -> {"none", "opening", "open", "put", "freed"}]
        /\ reserved' \in [Files -> Users \cup {"here", "used"}]
    BY <1>5 DEF FileInv, FileType
  <2> QED
    BY <1>3, <1>4, <2>1, <2>2, <2>3 DEF FileInv, FileType
<1>7. FileOk(f)'
  <2>1. count'[f] = io[f] /\ f \notin polled' /\ (lk'[f] => lk[f])
    BY <1>4 DEF FileInv, FileType
  <2>2. \/ io[f] > 0 /\ st'[f] = "put" /\ reserved'[f] \notin Users
        \/ io[f] = 0 /\ st'[f] = "none" /\ reserved'[f] \notin Users /\ no_open
        \/ io[f] = 0 /\ st'[f] = "freed" /\ reserved'[f] \notin Users
    BY <1>1, <1>5, FilesAssumption DEF FileInv, FileType
  <2>3. /\ no_open => ~implOpen
        /\ ~implOpen /\ ~dir[f] => ~handle[f]
        /\ lk[f] /\ implOpen => flock[f]
    BY <1>1 DEF FileInv, FileOk
  <2> QED
    BY <1>4, <2>1, <2>2, <2>3 DEF FileOk
<1>8. ASSUME NEW g \in Files \ {f} PROVE FileOk(g)'
  <2>1. FileOk(g)
    BY DEF FileInv
  <2>2. st'[g] = st[g] /\ count'[g] = count[g] /\ reserved'[g] = reserved[g] /\ lk'[g] = lk[g]
        /\ (g \in polled' <=> g \in polled)
    BY <1>4, <1>5 DEF FileInv, FileType
  <2> QED
    BY <1>4, <2>1, <2>2 DEF FileOk, FirstCount
<1>9. ASSUME NEW u \in Users PROVE CallOk(fcall[u])'
  <2>1. CallOk(fcall[u]) /\ (fcall[u].pc = "idle" \/ fcall[u].f # f)
    BY <1>1, <1>2
  <2>2. \A g \in Files \ {f} : /\ st'[g] = st[g] /\ reserved'[g] = reserved[g]
                               /\ (g \in polled => g \in polled')
    BY <1>4, <1>5 DEF FileInv, FileType
  <2> QED
    BY <1>3, <1>4, <2>1, <2>2 DEF CallOk, Opens, Uses
<1>10. OpenAlone'
  BY <1>3 DEF FileInv, OpenAlone
<1> QED
  BY <1>4, <1>6, <1>7, <1>8, <1>9, <1>10 DEF FileInv

LEMMA FileStutter == FileInv /\ UNCHANGED F!fvars => FileInv'
<1> SUFFICES ASSUME FileInv, UNCHANGED F!fvars PROVE FileInv'
  OBVIOUS
<1>1. UNCHANGED <<copy, implOpen, no_open, st, dir, fds, count, io, handle, reserved,
                  polled, flock, lk, want, fcall>>
  BY DEF F!fvars, F!conn, F!ffv
<1> QED
  BY <1>1 DEF FileInv, FileType, FileOk, FirstCount, CallOk, OpenAlone

LEMMA FileInvStep == FileInv /\ [F!Next]_F!fvars => FileInv'
<1> SUFFICES ASSUME FileInv, F!Next PROVE FileInv'
  BY FileStutter
<1>1. ASSUME NEW t \in Users, NEW f \in Files,
             \/ \E d \in BOOLEAN, op \in {"open", "create"} : F!fuse_do_open(t, f, d, op)
             \/ F!fuse_flush(t, f) \/ F!fuse_file_flock(t, f) \/ F!fuse_file_poll(t, f)
      PROVE  FileInv'
  BY <1>1, DoOpen, Flush, Flock, Poll
<1>2. ASSUME NEW t \in Users,
             \/ F!ServeOpen(t) \/ F!open_done(t) \/ F!open_failed(t)
             \/ F!fuse_sync_release(t) \/ F!get_reserved_req(t) \/ F!ServeFlush(t)
             \/ F!flush_put(t) \/ F!ServeLock(t) \/ F!ServePoll(t) \/ F!poll_again(t)
             \/ F!Return(t)
      PROVE  FileInv'
  BY <1>2, ServeOpen, OpenDone, OpenFailed, SyncRelease, GetReserved, ServeFlush, FlushPut,
     ServeLock, ServePoll, PollAgain, ReturnStep
<1>3. ASSUME NEW f \in Files,
             \/ F!fuse_release_common(f) \/ F!ServeRelease(f) \/ F!fuse_async_io(f)
             \/ F!async_io_end(f) \/ F!transport_put(f) \/ F!Event(f)
             \/ F!fuse_notify_poll_wakeup(f) \/ F!Dup(f)
      PROVE  FileInv'
  BY <1>3, ReleaseCommon, ServeRelease, AsyncIo, AsyncEnd, TransportPut, EventStep, Notify,
     DupStep
<1> QED
  BY <1>1, <1>2, <1>3, Zenon DEF F!Next

(* What the invariant says is what the runs check.                         *)
LEMMA FileInvSafe == FileInv => HandleExact /\ ReservedSafe /\ PollWoken
<1> SUFFICES ASSUME FileInv PROVE HandleExact /\ ReservedSafe /\ PollWoken
  OBVIOUS
<1>1. ASSUME NEW f \in Files
      PROVE  /\ FileOk(f) /\ io[f] \in Nat
             /\ st[f] \in {"none", "opening", "open", "put", "freed"}
             /\ F!InCall(f) # {} => st[f] \in {"opening", "open"}
             /\ copy \in {"old", "tmp"}
  <2>1. ASSUME NEW t \in F!InCall(f) PROVE st[f] \in {"opening", "open"}
    BY DEF F!InCall, FileInv, CallOk, Opens, Uses
  <2> QED
    BY <2>1 DEF FileInv, FileType
<1>2. F!CountExact
  <2> SUFFICES ASSUME NEW f \in Files
               PROVE  /\ st[f] \in {"open", "put"}
                         => count[f] = io[f] + (IF st[f] = "open" THEN 1 ELSE 0) /\ count[f] > 0
                      /\ st[f] \in {"none", "freed"} => io[f] = 0 /\ count[f] = 0
    BY DEF F!CountExact
  <2> QED
    BY <1>1 DEF FileOk
<1>3. F!HandleReleased
  <2> SUFFICES ASSUME NEW f \in Files, implOpen \/ ~dir[f]
               PROVE  /\ (implOpen /\ (st[f] \in {"open", "put"} \/ F!InCall(f) # {})
                          /\ st[f] # "opening") => handle[f]
                      /\ st[f] = "none" => ~handle[f]
                                           /\ (implOpen => ~lk[f])
    BY DEF F!HandleReleased
  <2> QED
    BY <1>1 DEF FileOk
<1>4. ReservedSafe
  <2>1. ASSUME NEW f \in Files
        PROVE  st[f] \in {"put", "none"} => reserved[f] \notin Users
    BY <1>1 DEF FileOk
  <2>2. ASSUME NEW t \in Users, F!At(t, "flush", "asleep") PROVE reserved[fcall[t].f] # "here"
    BY <2>2 DEF F!At, FileInv, CallOk, Opens, Uses
  <2> QED
    BY <2>1, <2>2 DEF ReservedSafe, F!ReservedSafe
<1>5. PollWoken
  <2>1. ASSUME NEW t \in Users, F!At(t, "poll", "asleep")
        PROVE  fcall[t].woken \/ want[fcall[t].f]
    BY <2>1 DEF F!At, FileInv, CallOk, Opens, Uses
  <2>2. ASSUME NEW f \in polled PROVE st[f] = "open"
    BY <1>1 DEF FileOk, FileInv, FileType
  <2> QED
    BY <2>1, <2>2 DEF PollWoken, F!PollWoken
<1> QED
  BY <1>2, <1>3, <1>4, <1>5 DEF HandleExact, F!HandleExact

LEMMA FileInvHolds == F!Spec => []FileInv
<1>1. F!Init => FileInv
  BY FileInvInit
<1>2. FileInv /\ [F!Next]_F!fvars => FileInv'
  BY FileInvStep
<1> QED
  BY <1>1, <1>2, PTL DEF F!Spec

(* fuse_file_get, fuse_file_put, fuse_release_common, fuse_sync_release:   *)
(* for any number of files, threads, descriptors and background requests,  *)
(* in both copies, ff is freed by its last reference and once, and the     *)
(* daemon's handle and flock live as long as ff, except that a daemon      *)
(* without OPEN misses what fuse_file_put drops.                           *)
THEOREM HandlesBalanced == F!Spec => []HandleExact
<1>1. FileInv => HandleExact
  BY FileInvSafe
<1> QED
  BY <1>1, FileInvHolds, PTL

(* get_reserved_req, put_reserved_req: the reserved request is never on    *)
(* loan when RELEASE needs it, and nobody sleeps while it is there.        *)
THEOREM ReservedKept == F!Spec => []ReservedSafe
<1>1. FileInv => ReservedSafe
  BY FileInvSafe
<1> QED
  BY <1>1, FileInvHolds, PTL

(* fuse_file_poll, fuse_notify_poll_wakeup, fuse_prepare_release: a poller *)
(* that sleeps although the daemon is ready has been woken or will be      *)
(* notified, for any number of pollers of any number of files, and         *)
(* polled_files has no released file.                                      *)
THEOREM PollersWoken == F!Spec => []PollWoken
<1>1. FileInv => PollWoken
  BY FileInvSafe
<1> QED
  BY <1>1, FileInvHolds, PTL

-----------------------------------------------------------------------------
(* FuseSize: types, and what a thread may do.                              *)
Writes == {"write", "odirect", "dio"}
Thread == [op : {"none", "getattr", "read", "setattr", "fallocate", "open", "aio"}
                \cup Writes,
           st : {"idle", "sent", "served", "fill", "end", "resume", "clear", "begin",
                 "submit", "submitted", "check", "wait"},
           pos : Nat, left : Int, k : Int, got : Int, res : Nat,
           big : BOOLEAN, newer : BOOLEAN, eq : BOOLEAN]
Outcomes == {"ok", "short", "err"}
Io == [st : {"none", "live", "freed"}, write : BOOLEAN, pos : Nat, n : 0..2,
       blocking : BOOLEAN, reqs : Int, ref : Int, bytes : Int, err : BOOLEAN, size : 0..2,
       done : BOOLEAN, out : [1..2 -> {"no", "sent"} \cup Outcomes], fin : SUBSET (1..2),
       ret : SUBSET ({0} \X Int), failed : BOOLEAN]

SizeType ==
    /\ dsize \in Nat /\ isize \in Nat /\ valid \in BOOLEAN /\ raced \in BOOLEAN
    /\ thr \in [Callers -> Thread] /\ aio \in Io
    /\ \A t \in Callers : /\ thr[t].op = "getattr" => thr[t].got >= 0
                          /\ thr[t].op = "fallocate" /\ thr[t].st = "sent" => thr[t].got = 0

(* A direct I/O o whose submitter is at p, "gone" when it has returned:    *)
(* reqs and ref are the requests and the holders that are left, err and    *)
(* bytes are about the requests that have completed, and the result is     *)
(* there when the last of them has.                                        *)
Waiting(o, j) == IF o.out[j] # "no" /\ j \notin o.fin THEN 1 ELSE 0
Submitting(p) == p \in {"submit", "submitted"}
Completed(o, p) == IF o.blocking THEN p = "gone" ELSE o.reqs = 0
IoOk(o, p) ==
    /\ o.st = "none" => p = "gone" /\ o.ret = {} /\ o.size = 0 /\ o.fin = {} /\ ~o.done
    /\ p \in {"submit", "submitted", "wait", "gone"}
    /\ \A j \in 1..2 : /\ o.out[j] = "no" <=> j > o.size
                       /\ j \in o.fin => o.out[j] \in Outcomes
    /\ o.st # "none" =>
         /\ o.reqs = (IF Submitting(p) THEN 1 ELSE 0) + Waiting(o, 1) + Waiting(o, 2)
         /\ o.ref = o.reqs + (IF o.blocking /\ p # "gone" THEN 1 ELSE 0)
         /\ p = "wait" => o.blocking
         /\ p = "gone" /\ o.blocking => o.reqs = 0
         /\ o.st = "live" <=> o.ref > 0
         /\ o.done <=> o.blocking /\ o.reqs = 0
         /\ o.failed <=> p # "submit" /\ o.size = 0
         /\ o.err <=> \/ o.failed /\ ~Submitting(p)
                      \/ \E j \in o.fin : o.out[j] = "err"
         /\ o.bytes = IF 1 \in o.fin /\ o.out[1] = "short" THEN 0
                      ELSE IF 2 \in o.fin /\ o.out[2] = "short" THEN 1 ELSE -1
         /\ o.ret = IF Completed(o, p) THEN {<<0, S!fuse_get_res_by_io(o)>>} ELSE {}

(* Where the submitter at s is for the io: a call that does not block has  *)
(* let go of it before the test, and one misled by the test waits without. *)
Phase(s, o) == IF s \in {"check", "wait"} THEN (IF o.blocking THEN "wait" ELSE "gone") ELSE s

(* One thread at a time has a direct I/O.                                  *)
AioInv ==
    /\ \A t \in Callers : thr[t].op = "aio" => IoOk(aio, Phase(thr[t].st, aio))
    /\ (\A t \in Callers : thr[t].op # "aio") => IoOk(aio, "gone")
    /\ \A t, u \in Callers : thr[t].op = "aio" /\ thr[u].op = "aio" => t = u
    /\ \A t \in Callers : thr[t].op = "aio" /\ thr[t].big => aio.write /\ aio.blocking

(* Who holds the inode lock, and the race that raced records.              *)
Locks(c, write) ==
    c.op \in Writes \cup {"setattr", "fallocate"} \/ (c.op = "aio" /\ write)
LockInv ==
    /\ \A t \in Callers : Locks(thr[t], aio.write) => ilock = t
    /\ \A t, u \in Callers :
          thr[t].op = "open"
          /\ (thr[u].op = "aio" \/ (thr[u].op = "setattr" /\ thr[u].st # "begin")) => raced

(* c may have changed the daemon's size and will advance attr_version.     *)
Grew(c) ==
    \/ /\ c.op \in Writes /\ c.st \in {"fill", "sent", "served", "end"}
       /\ c.res > 0 \/ (c.st = "served" /\ c.got > 0)
    \/ c.op = "setattr" /\ c.st \in {"begin", "sent"} /\ c.big
    \/ c.op = "setattr" /\ c.st = "served" /\ c.got >= 0
    \/ c.op = "fallocate" /\ c.st = "served" /\ c.got = 0
    \/ c.op = "open" /\ c.st = "served"
    \/ c.op = "aio" /\ c.big

(* i_size may be wrong until c ends; a write drops the attributes then.    *)
Dirty(c) == Grew(c) \/ c.op = "write"

(* The answers that will be believed.                                      *)
Attr(c) == c.op = "getattr" /\ c.st = "served" /\ ~c.newer
ShortRead(c) == c.op = "read" /\ c.st = "served" /\ c.got = 0 /\ c.eq

(* While an extending direct write is in flight, every size is the         *)
(* daemon's before one of its requests was served.                         *)
InRange(x) == x <= dsize /\ (x < dsize => dsize <= aio.pos + aio.size)

TrackInv ==
    /\ valid /\ (\A u \in Callers : ~Dirty(thr[u])) => isize = dsize
    /\ \A t \in Callers : Attr(thr[t]) /\ (\A u \in Callers : ~Grew(thr[u]))
                          => thr[t].got = dsize
    /\ \A t \in Callers : ShortRead(thr[t]) /\ (\A u \in Callers : ~Grew(thr[u]))
                          => thr[t].pos >= dsize
    /\ \A t \in Callers : thr[t].op = "setattr" /\ thr[t].st = "served"
                          => IF thr[t].got >= 0 THEN thr[t].got = dsize ELSE ~thr[t].big
    /\ \A t \in Callers : thr[t].op = "aio" /\ aio.write
          => \A j \in 1..2 : aio.out[j] = "ok" => dsize >= aio.pos + j
    /\ \A t \in Callers : thr[t].op = "aio" /\ thr[t].big =>
          /\ valid => InRange(isize)
          /\ \A u \in Callers : /\ Attr(thr[u]) => InRange(thr[u].got)
                                /\ ShortRead(thr[u]) => \/ thr[u].pos >= dsize
                                                        \/ dsize <= aio.pos + aio.size

SizeInv == SizeType /\ AioInv /\ LockInv /\ (raced \/ TrackInv)

-----------------------------------------------------------------------------
(* The steps of a direct I/O.                                              *)
LEMMA SizeCardinality == ASSUME NEW Q PROVE S!Cardinality(Q) = Cardinality(Q)
  BY Zenon DEF S!Cardinality, Cardinality

LEMMA IoNew ==
    ASSUME NEW w \in BOOLEAN, NEW pos \in Nat, NEW n \in 1..2, NEW b \in BOOLEAN,
           NEW o, o = S!io_init(w, pos, n, b)
    PROVE  /\ o \in Io /\ IoOk(o, "submit")
           /\ o.write = w /\ o.pos = pos /\ o.size = 0 /\ o.blocking = b
           /\ \A j \in 1..2 : o.out[j] = "no"
<1>1. o = [st |-> "live", write |-> w, pos |-> pos, n |-> n, blocking |-> b,
           reqs |-> 1, ref |-> IF b THEN 2 ELSE 1, bytes |-> -1, err |-> FALSE, size |-> 0,
           done |-> FALSE, out |-> <<"no", "no">>, fin |-> {}, ret |-> {}, failed |-> FALSE]
  BY Zenon DEF S!io_init, S!NewIo, S!NoIo
<1>2. /\ <<"no", "no">> \in [1..2 -> {"no", "sent"} \cup Outcomes]
      /\ \A j \in 1..2 : <<"no", "no">>[j] = "no"
  BY DEF Outcomes
<1>3. o \in Io
  BY <1>1, <1>2 DEF Io
<1>4. IoOk(o, "submit")
  BY <1>1, <1>2 DEF IoOk, Waiting, Submitting, Completed, Outcomes
<1> QED
  BY <1>1, <1>2, <1>3, <1>4

Sent(o) == [o EXCEPT !.ref = @ + 1, !.size = @ + 1, !.reqs = @ + 1,
                     !.out[o.size + 1] = "sent"]
LEMMA IoSend ==
    ASSUME NEW o \in Io, IoOk(o, "submit"), o.size < o.n, NEW d, d = Sent(o)
    PROVE  /\ d \in Io /\ IoOk(d, "submit")
           /\ d.write = o.write /\ d.pos = o.pos /\ d.size = o.size + 1
           /\ d.blocking = o.blocking
           /\ \A j \in 1..2 : d.out[j] = "ok" => o.out[j] = "ok"
<1>1. /\ o.size \in {0, 1} /\ o.n \in 0..2 /\ o.size + 1 \in 1..2
      /\ o.out \in [1..2 -> {"no", "sent"} \cup Outcomes] /\ o.fin \in SUBSET (1..2)
      /\ o.reqs \in Int /\ o.ref \in Int /\ o.bytes \in Int
  BY DEF Io
<1>2. /\ d.st = o.st /\ d.write = o.write /\ d.pos = o.pos /\ d.n = o.n
      /\ d.blocking = o.blocking /\ d.reqs = o.reqs + 1 /\ d.ref = o.ref + 1
      /\ d.bytes = o.bytes /\ d.err = o.err /\ d.size = o.size + 1 /\ d.done = o.done
      /\ d.out = [o.out EXCEPT ![o.size + 1] = "sent"] /\ d.fin = o.fin /\ d.ret = o.ret
      /\ d.failed = o.failed
  BY DEF Io, Sent
<1>3. d \in Io
  <2>1. [o.out EXCEPT ![o.size + 1] = "sent"] \in [1..2 -> {"no", "sent"} \cup Outcomes]
    BY <1>1
  <2>2. o.size + 1 \in 0..2 /\ o.ref + 1 \in Int /\ o.reqs + 1 \in Int
    BY <1>1
  <2>3. d = [o EXCEPT !.ref = o.ref + 1, !.size = o.size + 1, !.reqs = o.reqs + 1,
                      !.out = [o.out EXCEPT ![o.size + 1] = "sent"]]
    BY DEF Sent
  <2> QED
    BY <2>1, <2>2, <2>3 DEF Io
<1>4. /\ o.st # "none" /\ \A j \in 1..2 : d.out[j] = IF j = o.size + 1 THEN "sent" ELSE o.out[j]
      /\ o.size + 1 \notin o.fin /\ o.out[o.size + 1] = "no"
  BY <1>1, <1>2 DEF IoOk, Outcomes
<1>5. IoOk(d, "submit")
  BY <1>1, <1>2, <1>4 DEF IoOk, Waiting, Submitting, Completed, Outcomes
<1> QED
  BY <1>2, <1>3, <1>4, <1>5

(* The loop of fuse_direct_io ends.                                        *)
LEMMA IoLoopEnd ==
    ASSUME NEW o \in Io, IoOk(o, "submit"), NEW d, d = [o EXCEPT !.failed = (o.size = 0)]
    PROVE  /\ d \in Io /\ IoOk(d, "submitted")
           /\ d.write = o.write /\ d.pos = o.pos /\ d.size = o.size
           /\ d.blocking = o.blocking /\ d.out = o.out
<1>1. /\ o.size \in 0..2 /\ o.reqs \in Int /\ o.ref \in Int /\ o.bytes \in Int
  BY DEF Io
<1>2. /\ d.st = o.st /\ d.write = o.write /\ d.pos = o.pos /\ d.n = o.n
      /\ d.blocking = o.blocking /\ d.reqs = o.reqs /\ d.ref = o.ref
      /\ d.bytes = o.bytes /\ d.err = o.err /\ d.size = o.size /\ d.done = o.done
      /\ d.out = o.out /\ d.fin = o.fin /\ d.ret = o.ret /\ d.failed = (o.size = 0)
  BY DEF Io
<1>3. d \in Io
  BY <1>1, <1>2 DEF Io
<1>4. o.st # "none"
  BY DEF IoOk
<1>5. IoOk(d, "submitted")
  <2>1. S!fuse_get_res_by_io(d) = S!fuse_get_res_by_io(o)
    BY <1>2 DEF S!fuse_get_res_by_io
  <2>2. Waiting(d, 1) = Waiting(o, 1) /\ Waiting(d, 2) = Waiting(o, 2)
    BY <1>2 DEF Waiting
  <2>3. /\ o.reqs = 1 + Waiting(o, 1) + Waiting(o, 2) /\ o.ref = o.reqs + (IF o.blocking THEN 1 ELSE 0)
        /\ o.st = "live" <=> o.ref > 0
        /\ o.done <=> o.blocking /\ o.reqs = 0
        /\ ~o.failed
        /\ o.err <=> \E i \in o.fin : o.out[i] = "err"
        /\ o.bytes = IF 1 \in o.fin /\ o.out[1] = "short" THEN 0
                     ELSE IF 2 \in o.fin /\ o.out[2] = "short" THEN 1 ELSE -1
    BY <1>4 DEF IoOk, Submitting
  <2>4. \A i \in 1..2 : /\ d.out[i] = "no" <=> i > d.size
                        /\ i \in d.fin => d.out[i] \in Outcomes
    BY <1>2 DEF IoOk
  <2>5. d.ret = IF Completed(d, "submitted") THEN {<<0, S!fuse_get_res_by_io(d)>>} ELSE {}
    BY <1>2, <1>4, <2>1 DEF IoOk, Completed
  <2>6. "submitted" # "submit" /\ Submitting("submitted")
    BY DEF Submitting
  <2>7. d.err <=> (d.failed /\ ~Submitting("submitted")) \/ \E i \in d.fin : d.out[i] = "err"
    BY <1>2, <2>3, <2>6
  <2>8. d.reqs = (IF Submitting("submitted") THEN 1 ELSE 0) + Waiting(d, 1) + Waiting(d, 2)
    BY <1>2, <2>2, <2>3, <2>6
  <2>9. d.failed <=> "submitted" # "submit" /\ d.size = 0
    BY <1>2, <2>6
  <2>10. /\ d.ref = d.reqs + (IF d.blocking /\ "submitted" # "gone" THEN 1 ELSE 0)
         /\ d.st = "live" <=> d.ref > 0
         /\ d.done <=> d.blocking /\ d.reqs = 0
    BY <1>2, <2>3
  <2>11. d.bytes = IF 1 \in d.fin /\ d.out[1] = "short" THEN 0
                   ELSE IF 2 \in d.fin /\ d.out[2] = "short" THEN 1 ELSE -1
    BY <1>2, <2>3
  <2>12. d.st # "none"
    BY <1>2, <1>4
  <2> QED
    BY <2>12, <2>4, <2>5, <2>7, <2>8, <2>9, <2>10, <2>11 DEF IoOk
<1> QED
  BY <1>2, <1>3, <1>5

(* The daemon answers one of the requests.                                 *)
Out(o, j, r) == [o EXCEPT !.out[j] = r]
LEMMA IoServe ==
    ASSUME NEW o \in Io, NEW p, IoOk(o, p), NEW j \in 1..2, o.out[j] = "sent",
           NEW r \in Outcomes, NEW d, d = Out(o, j, r)
    PROVE  /\ d \in Io /\ IoOk(d, p)
           /\ d.write = o.write /\ d.pos = o.pos /\ d.size = o.size /\ d.st = o.st
           /\ d.blocking = o.blocking /\ j <= o.size
           /\ \A i \in 1..2 : d.out[i] = IF i = j THEN r ELSE o.out[i]
<1>1. /\ o.size \in 0..2 /\ o.out \in [1..2 -> {"no", "sent"} \cup Outcomes]
      /\ o.reqs \in Int /\ o.ref \in Int /\ o.bytes \in Int /\ o.fin \in SUBSET (1..2)
  BY DEF Io
<1>2. /\ d.st = o.st /\ d.write = o.write /\ d.pos = o.pos /\ d.n = o.n
      /\ d.blocking = o.blocking /\ d.reqs = o.reqs /\ d.ref = o.ref
      /\ d.bytes = o.bytes /\ d.err = o.err /\ d.size = o.size /\ d.done = o.done
      /\ d.out = [o.out EXCEPT ![j] = r] /\ d.fin = o.fin /\ d.ret = o.ret
      /\ d.failed = o.failed
  BY DEF Io, Out
<1>3. d \in Io
  <2>1. [o.out EXCEPT ![j] = r] \in [1..2 -> {"no", "sent"} \cup Outcomes]
    BY <1>1
  <2>2. d = [o EXCEPT !.out = [o.out EXCEPT ![j] = r]]
    BY DEF Out
  <2> QED
    BY <2>1, <2>2 DEF Io
<1>4. /\ o.st # "none" /\ j <= o.size /\ j \notin o.fin
      /\ \A i \in 1..2 : d.out[i] = IF i = j THEN r ELSE o.out[i]
  BY <1>1, <1>2 DEF IoOk, Outcomes
<1>5. IoOk(d, p)
  <2>1. S!fuse_get_res_by_io(d) = S!fuse_get_res_by_io(o)
    BY <1>2 DEF S!fuse_get_res_by_io
  <2>2. Waiting(d, 1) = Waiting(o, 1) /\ Waiting(d, 2) = Waiting(o, 2)
    BY <1>2, <1>4 DEF Waiting, Outcomes
  <2>3. \A i \in o.fin : d.out[i] = o.out[i]
    BY <1>1, <1>4
  <2>4. \A i \in 1..2 : /\ d.out[i] = "no" <=> i > d.size
                        /\ i \in d.fin => d.out[i] \in Outcomes
    BY <1>2, <1>4 DEF IoOk, Outcomes
  <2>5. d.bytes = IF 1 \in d.fin /\ d.out[1] = "short" THEN 0
                  ELSE IF 2 \in d.fin /\ d.out[2] = "short" THEN 1 ELSE -1
    BY <1>2, <1>4, <2>3 DEF IoOk
  <2>6. d.err <=> (d.failed /\ ~Submitting(p)) \/ \E i \in d.fin : d.out[i] = "err"
    BY <1>2, <1>4, <2>3 DEF IoOk
  <2> QED
    BY <1>2, <1>4, <2>1, <2>2, <2>4, <2>5, <2>6 DEF IoOk, Completed
<1> QED
  BY <1>2, <1>3, <1>4, <1>5

(* An io but for ret, which fuse_aio_complete changes with other fields.   *)
IoWith(r) ==
    [st : {"none", "live", "freed"}, write : BOOLEAN, pos : Nat, n : 0..2,
     blocking : BOOLEAN, reqs : Int, ref : Int, bytes : Int, err : BOOLEAN,
     size : 0..2, done : BOOLEAN, out : [1..2 -> {"no", "sent"} \cup Outcomes],
     fin : SUBSET (1..2), ret : {r}, failed : BOOLEAN]

LEMMA IoParts ==
    ASSUME NEW q, NEW o \in IoWith(q), NEW done \in BOOLEAN, NEW reqs \in Int, NEW r,
           NEW ref \in Int, NEW e,
           e = [o EXCEPT !.reqs = reqs, !.done = done, !.ret = r, !.ref = ref]
    PROVE  /\ e.st = o.st /\ e.write = o.write /\ e.pos = o.pos /\ e.n = o.n
           /\ e.blocking = o.blocking /\ e.reqs = reqs /\ e.ref = ref /\ e.bytes = o.bytes
           /\ e.err = o.err /\ e.size = o.size /\ e.done = done /\ e.out = o.out
           /\ e.fin = o.fin /\ e.failed = o.failed /\ e.ret = r
           /\ e \in IoWith(r)
  BY DEF IoWith

(* What fuse_aio_complete leaves, field by field.                          *)
LEMMA IoCompleted ==
    ASSUME NEW o \in Io, NEW err \in BOOLEAN, NEW pos \in Int
    PROVE  LET d == S!fuse_aio_complete(o, err, pos) IN
           /\ d.st = (IF o.ref = 1 THEN "freed" ELSE o.st)
           /\ d.write = o.write /\ d.pos = o.pos /\ d.n = o.n /\ d.blocking = o.blocking
           /\ d.reqs = o.reqs - 1 /\ d.ref = o.ref - 1
           /\ d.bytes = (IF ~err /\ pos >= 0 /\ (o.bytes < 0 \/ pos < o.bytes)
                         THEN pos ELSE o.bytes)
           /\ d.err = (o.err \/ err) /\ d.size = o.size
           /\ d.done = (o.done \/ (o.reqs = 1 /\ o.blocking))
           /\ d.out = o.out /\ d.fin = o.fin /\ d.failed = o.failed
           /\ d.ret = (IF o.reqs = 1 /\ ~o.blocking
                       THEN o.ret \cup {<<Cardinality(o.ret), S!fuse_get_res_by_io(d)>>}
                       ELSE o.ret)
           /\ d \in IoWith(d.ret)
<1> DEFINE d == S!fuse_aio_complete(o, err, pos)
<1> DEFINE o1 == IF err THEN [o EXCEPT !.err = TRUE]
                 ELSE IF pos >= 0 /\ (o.bytes < 0 \/ pos < o.bytes)
                      THEN [o EXCEPT !.bytes = pos] ELSE o
           left == o.reqs - 1
           ret == IF left = 0 /\ ~o.blocking
                  THEN o1.ret \cup {<<S!Cardinality(o1.ret), S!fuse_get_res_by_io(o1)>>}
                  ELSE o1.ret
           o2 == [o1 EXCEPT !.reqs = left, !.done = @ \/ (left = 0 /\ o.blocking),
                            !.ret = IF left = 0 /\ ~o.blocking
                                    THEN @ \cup {<<S!Cardinality(@), S!fuse_get_res_by_io(o1)>>}
                                    ELSE @,
                            !.ref = @ - 1]
<1>1. /\ o.reqs \in Int /\ o.ref \in Int /\ o.bytes \in Int /\ o.err \in BOOLEAN
      /\ o.done \in BOOLEAN
  BY DEF Io
<1>2. /\ o1.st = o.st /\ o1.write = o.write /\ o1.pos = o.pos /\ o1.n = o.n
      /\ o1.blocking = o.blocking /\ o1.reqs = o.reqs /\ o1.ref = o.ref
      /\ o1.bytes = (IF ~err /\ pos >= 0 /\ (o.bytes < 0 \/ pos < o.bytes) THEN pos ELSE o.bytes)
      /\ o1.err = (o.err \/ err) /\ o1.size = o.size /\ o1.done = o.done
      /\ o1.out = o.out /\ o1.fin = o.fin /\ o1.failed = o.failed /\ o1.ret = o.ret
      /\ o1 \in Io
  BY <1>1 DEF Io
<1>3. d = [o2 EXCEPT !.st = IF o2.ref = 0 THEN "freed" ELSE @]
  BY Zenon DEF S!fuse_aio_complete
<1> HIDE DEF o1, d
<1>3a. o2 = [o1 EXCEPT !.reqs = left, !.done = o1.done \/ (left = 0 /\ o.blocking),
                      !.ret = ret, !.ref = o1.ref - 1]
  BY <1>2, Zenon
<1> HIDE DEF ret, o2
<1> DEFINE done == o1.done \/ (left = 0 /\ o.blocking)
<1>3b. done \in BOOLEAN /\ left \in Int /\ o1.ref - 1 \in Int
  BY <1>1, <1>2
<1>3c. o1 \in IoWith(o.ret)
  BY <1>2 DEF Io, IoWith
<1>3e. o2 = [o1 EXCEPT !.reqs = left, !.done = done, !.ret = ret, !.ref = o1.ref - 1]
  BY <1>3a
<1> HIDE DEF done, left
<1>4a. /\ o2.st = o1.st /\ o2.write = o1.write /\ o2.pos = o1.pos /\ o2.n = o1.n
       /\ o2.blocking = o1.blocking /\ o2.reqs = left /\ o2.ref = o1.ref - 1
       /\ o2.bytes = o1.bytes
       /\ o2.err = o1.err /\ o2.size = o1.size /\ o2.done = done /\ o2.out = o1.out
       /\ o2.fin = o1.fin /\ o2.failed = o1.failed /\ o2.ret = ret
       /\ o2 \in IoWith(ret)
  <2>1. o2 \in IoWith(ret)
    BY <1>3b, <1>3c, <1>3e DEF IoWith
  <2>2. o2.done = done /\ o2.ret = ret
    BY <1>3b, <1>3c, <1>3e DEF IoWith
  <2>3. o2.ref = o1.ref - 1 /\ o2.reqs = left
    BY <1>3b, <1>3c, <1>3e DEF IoWith
  <2>4. /\ o2.st = o1.st /\ o2.write = o1.write /\ o2.pos = o1.pos /\ o2.n = o1.n
        /\ o2.blocking = o1.blocking
    BY <1>3b, <1>3c, <1>3e DEF IoWith
  <2>5. /\ o2.bytes = o1.bytes /\ o2.err = o1.err /\ o2.size = o1.size
        /\ o2.out = o1.out /\ o2.fin = o1.fin /\ o2.failed = o1.failed
    BY <1>3b, <1>3c, <1>3e DEF IoWith
  <2> QED
    BY <2>1, <2>2, <2>3, <2>4, <2>5
<1> USE DEF done, left
<1>4. /\ o2.st = o.st /\ o2.write = o.write /\ o2.pos = o.pos /\ o2.n = o.n
      /\ o2.blocking = o.blocking /\ o2.reqs = o.reqs - 1 /\ o2.ref = o.ref - 1
      /\ o2.bytes = o1.bytes
      /\ o2.err = (o.err \/ err) /\ o2.size = o.size
      /\ o2.done = (o.done \/ (o.reqs = 1 /\ o.blocking))
      /\ o2.out = o.out /\ o2.fin = o.fin /\ o2.failed = o.failed /\ o2.ret = ret
      /\ o2 \in IoWith(ret)
  <2>1. left = o.reqs - 1 /\ (left = 0 <=> o.reqs = 1)
    BY <1>1
  <2> QED
    BY <1>2, <1>4a, <2>1
<1>5. /\ d.st = (IF o2.ref = 0 THEN "freed" ELSE o2.st)
      /\ d.write = o2.write /\ d.pos = o2.pos /\ d.n = o2.n /\ d.blocking = o2.blocking
      /\ d.reqs = o2.reqs /\ d.ref = o2.ref /\ d.bytes = o2.bytes /\ d.err = o2.err
      /\ d.size = o2.size /\ d.done = o2.done /\ d.out = o2.out /\ d.fin = o2.fin
      /\ d.failed = o2.failed /\ d.ret = o2.ret
      /\ d \in IoWith(ret)
  BY <1>3, <1>4 DEF IoWith
<1>6. S!fuse_get_res_by_io(d) = S!fuse_get_res_by_io(o1)
  BY <1>2, <1>4, <1>5 DEF S!fuse_get_res_by_io
<1>7. d.ret = (IF o.reqs = 1 /\ ~o.blocking
               THEN o.ret \cup {<<Cardinality(o.ret), S!fuse_get_res_by_io(d)>>} ELSE o.ret)
  <2>1. d.ret = ret /\ o1.ret = o.ret
    BY <1>2, <1>4, <1>5
  <2>2. left = 0 <=> o.reqs = 1
    BY <1>1
  <2>3. S!Cardinality(o.ret) = Cardinality(o.ret)
    BY SizeCardinality
  <2> QED
    BY <1>6, <2>1, <2>2, <2>3 DEF ret
<1>8. d.st = (IF o.ref = 1 THEN "freed" ELSE o.st)
  BY <1>1, <1>4, <1>5
<1> USE DEF d
<1> QED
  BY <1>1, <1>2, <1>4, <1>5, <1>7, <1>8

LEMMA IoResult ==
    ASSUME NEW o \in Io
    PROVE  S!fuse_get_res_by_io(o) \in Int
<1>1. o.err \in BOOLEAN /\ o.write \in BOOLEAN /\ o.bytes \in Int /\ o.size \in Int
  BY DEF Io
<1> QED
  BY <1>1 DEF S!fuse_get_res_by_io

(* The answer to one of the requests is seen.                              *)
Seen(o, j) == [S!fuse_aio_complete(o, o.out[j] = "err",
                                   IF o.out[j] = "short" THEN j - 1 ELSE -1)
               EXCEPT !.fin = @ \cup {j}]
LEMMA IoComplete ==
    ASSUME NEW o \in Io, NEW p, IoOk(o, p), NEW j \in 1..2, o.out[j] \in Outcomes,
           j \notin o.fin, NEW d, d = Seen(o, j)
    PROVE  /\ d \in Io /\ IoOk(d, p)
           /\ d.write = o.write /\ d.pos = o.pos /\ d.size = o.size
           /\ d.blocking = o.blocking /\ d.out = o.out
<1> DEFINE err == o.out[j] = "err"
           pos == IF o.out[j] = "short" THEN j - 1 ELSE -1
           e == S!fuse_aio_complete(o, err, pos)
<1>1. err \in BOOLEAN /\ pos \in Int /\ d = [e EXCEPT !.fin = @ \cup {j}]
  BY DEF Seen
<1> HIDE DEF e, pos, err
<1>2. /\ e.st = (IF o.ref = 1 THEN "freed" ELSE o.st)
      /\ e.write = o.write /\ e.pos = o.pos /\ e.n = o.n /\ e.blocking = o.blocking
      /\ e.reqs = o.reqs - 1 /\ e.ref = o.ref - 1
      /\ e.bytes = (IF ~err /\ pos >= 0 /\ (o.bytes < 0 \/ pos < o.bytes)
                    THEN pos ELSE o.bytes)
      /\ e.err = (o.err \/ err) /\ e.size = o.size
      /\ e.done = (o.done \/ (o.reqs = 1 /\ o.blocking))
      /\ e.out = o.out /\ e.fin = o.fin /\ e.failed = o.failed
      /\ e.ret = (IF o.reqs = 1 /\ ~o.blocking
                  THEN o.ret \cup {<<Cardinality(o.ret), S!fuse_get_res_by_io(e)>>}
                  ELSE o.ret)
      /\ e \in IoWith(e.ret)
  <2>1. e = S!fuse_aio_complete(o, err, pos)
    BY DEF e
  <2>2. err \in BOOLEAN /\ pos \in Int
    BY <1>1
  <2> HIDE DEF e
  <2> QED
    BY <2>1, <2>2, IoCompleted
<1>3. /\ o.size \in 0..2 /\ o.out \in [1..2 -> {"no", "sent"} \cup Outcomes]
      /\ o.reqs \in Int /\ o.ref \in Int /\ o.bytes \in Int /\ o.fin \in SUBSET (1..2)
      /\ o.err \in BOOLEAN /\ o.done \in BOOLEAN /\ o.blocking \in BOOLEAN
  BY DEF Io
<1>4. /\ d.st = e.st /\ d.write = e.write /\ d.pos = e.pos /\ d.n = e.n
      /\ d.blocking = e.blocking /\ d.reqs = e.reqs /\ d.ref = e.ref /\ d.bytes = e.bytes
      /\ d.err = e.err /\ d.size = e.size /\ d.done = e.done /\ d.out = e.out
      /\ d.fin = o.fin \cup {j} /\ d.failed = e.failed /\ d.ret = e.ret
      /\ d \in IoWith(e.ret)
  <2>1. o.fin \cup {j} \in SUBSET (1..2) /\ d = [e EXCEPT !.fin = o.fin \cup {j}]
    BY <1>1, <1>2, <1>3
  <2>2. d \in IoWith(e.ret)
    BY <1>2, <2>1 DEF IoWith
  <2>3. d.fin = o.fin \cup {j}
    BY <1>2, <2>1 DEF IoWith
  <2> QED
    BY <1>2, <2>1, <2>2, <2>3 DEF IoWith
<1>5. o.st # "none" /\ Waiting(o, j) = 1 /\ o.out[j] # "no"
  BY <1>3 DEF IoOk, Waiting, Outcomes
<1>6. /\ o.reqs = (IF Submitting(p) THEN 1 ELSE 0) + Waiting(o, 1) + Waiting(o, 2)
      /\ o.ref = o.reqs + (IF o.blocking /\ p # "gone" THEN 1 ELSE 0)
      /\ p = "wait" => o.blocking
      /\ p = "gone" /\ o.blocking => o.reqs = 0
      /\ o.st = "live" <=> o.ref > 0
      /\ o.done <=> o.blocking /\ o.reqs = 0
      /\ o.failed <=> p # "submit" /\ o.size = 0
      /\ o.err <=> \/ o.failed /\ ~Submitting(p)
                   \/ \E i \in o.fin : o.out[i] = "err"
      /\ o.bytes = IF 1 \in o.fin /\ o.out[1] = "short" THEN 0
                   ELSE IF 2 \in o.fin /\ o.out[2] = "short" THEN 1 ELSE -1
      /\ o.ret = IF Completed(o, p) THEN {<<0, S!fuse_get_res_by_io(o)>>} ELSE {}
  BY <1>5 DEF IoOk
<1>7. /\ Waiting(o, 1) \in {0, 1} /\ Waiting(o, 2) \in {0, 1}
      /\ Waiting(d, 1) = IF j = 1 THEN 0 ELSE Waiting(o, 1)
      /\ Waiting(d, 2) = IF j = 2 THEN 0 ELSE Waiting(o, 2)
  BY <1>2, <1>3, <1>4 DEF Waiting
<1>8. o.reqs >= 1 /\ o.ref >= 1 /\ ~Completed(o, p) /\ o.ret = {} /\ ~o.done
      /\ o.st = "live" /\ ~(p = "gone" /\ o.blocking)
  <2>1. o.reqs >= 1
    BY <1>5, <1>6, <1>7
  <2>2. o.ref >= 1 /\ ~Completed(o, p)
    BY <1>3, <1>6, <2>1 DEF Completed
  <2>3. o.ret = {}
    BY <1>6, <2>2
  <2>4. ~o.done
    BY <1>6, <2>1
  <2>5. o.st = "live"
    <3>1. o.ref > 0
      BY <1>3, <2>2
    <3> QED
      BY <1>6, <3>1
  <2>6. ~(p = "gone" /\ o.blocking)
    BY <1>6, <2>1
  <2> QED
    BY <2>1, <2>2, <2>3, <2>4, <2>5, <2>6
<1>9. S!fuse_get_res_by_io(d) = S!fuse_get_res_by_io(e)
  BY <1>4 DEF S!fuse_get_res_by_io
<1>10. d.ret = IF Completed(d, p) THEN {<<0, S!fuse_get_res_by_io(d)>>} ELSE {}
  <2>1. Cardinality({}) = 0
    BY FS_EmptySet
  <2>2. Completed(d, p) <=> o.reqs = 1 /\ ~o.blocking
    BY <1>2, <1>3, <1>4, <1>8 DEF Completed
  <2> QED
    BY <1>2, <1>4, <1>8, <1>9, <2>1, <2>2
<1>11. d \in Io
  <2>1. S!fuse_get_res_by_io(o) \in Int
    BY IoResult
  <2>2. S!fuse_get_res_by_io(d) \in Int
    <3>1. d.err \in BOOLEAN /\ d.write \in BOOLEAN /\ d.bytes \in Int /\ d.size \in Int
      BY <1>4 DEF IoWith
    <3> QED
      BY <3>1 DEF S!fuse_get_res_by_io
  <2>3. <<0, S!fuse_get_res_by_io(d)>> \in {0} \X Int
    BY <2>2
  <2>4. d.ret \in SUBSET ({0} \X Int)
    BY <1>10, <2>3
  <2> QED
    BY <1>4, <2>4 DEF IoWith, Io
<1>12. IoOk(d, p)
  <2>1. d.st # "none" /\ p \in {"submit", "submitted", "wait", "gone"}
    BY <1>2, <1>4, <1>8 DEF IoOk
  <2>2. \A i \in 1..2 : /\ d.out[i] = "no" <=> i > d.size
                        /\ i \in d.fin => d.out[i] \in Outcomes
    BY <1>2, <1>4 DEF IoOk
  <2>3. /\ d.reqs = (IF Submitting(p) THEN 1 ELSE 0) + Waiting(d, 1) + Waiting(d, 2)
    BY <1>2, <1>3, <1>4, <1>5, <1>6, <1>7
  <2>4. /\ d.ref = d.reqs + (IF d.blocking /\ p # "gone" THEN 1 ELSE 0)
        /\ p = "wait" => d.blocking
        /\ p = "gone" /\ d.blocking => d.reqs = 0
    BY <1>2, <1>3, <1>4, <1>6, <1>8
  <2>5. d.st = "live" <=> d.ref > 0
    BY <1>2, <1>3, <1>4, <1>8
  <2>6. d.done <=> d.blocking /\ d.reqs = 0
    BY <1>2, <1>3, <1>4, <1>8
  <2>7. d.failed <=> p # "submit" /\ d.size = 0
    BY <1>2, <1>4, <1>6
  <2>8. d.err <=> \/ d.failed /\ ~Submitting(p)
                  \/ \E i \in d.fin : d.out[i] = "err"
    <3>1. /\ d.err <=> o.err \/ o.out[j] = "err"
          /\ d.failed = o.failed /\ d.fin = o.fin \cup {j} /\ d.out = o.out
      BY <1>2, <1>3, <1>4 DEF err
    <3>2. o.err <=> \/ o.failed /\ ~Submitting(p)
                    \/ \E i \in o.fin : o.out[i] = "err"
      BY <1>6
    <3> QED
      BY <3>1, <3>2
  <2>9. d.bytes = IF 1 \in d.fin /\ d.out[1] = "short" THEN 0
                  ELSE IF 2 \in d.fin /\ d.out[2] = "short" THEN 1 ELSE -1
    BY <1>2, <1>3, <1>4, <1>6 DEF err, pos
  <2> QED
    BY <1>10, <2>1, <2>2, <2>3, <2>4, <2>5, <2>6, <2>7, <2>8, <2>9 DEF IoOk
<1> QED
  BY <1>2, <1>4, <1>11, <1>12

(* The submitter's own completion.                                         *)
LEMMA IoSubmitted ==
    ASSUME NEW o \in Io, IoOk(o, "submitted"), NEW d,
           d = S!fuse_aio_complete(o, o.failed, -1)
    PROVE  /\ d \in Io /\ IoOk(d, IF o.blocking THEN "wait" ELSE "gone")
           /\ d.write = o.write /\ d.pos = o.pos /\ d.size = o.size
           /\ d.blocking = o.blocking /\ d.out = o.out
<1> DEFINE p == IF o.blocking THEN "wait" ELSE "gone"
<1>1. /\ o.size \in 0..2 /\ o.out \in [1..2 -> {"no", "sent"} \cup Outcomes]
      /\ o.reqs \in Int /\ o.ref \in Int /\ o.bytes \in Int /\ o.fin \in SUBSET (1..2)
      /\ o.err \in BOOLEAN /\ o.done \in BOOLEAN /\ o.blocking \in BOOLEAN
      /\ o.failed \in BOOLEAN
  BY DEF Io
<1>2. /\ d.st = (IF o.ref = 1 THEN "freed" ELSE o.st)
      /\ d.write = o.write /\ d.pos = o.pos /\ d.n = o.n /\ d.blocking = o.blocking
      /\ d.reqs = o.reqs - 1 /\ d.ref = o.ref - 1
      /\ d.bytes = o.bytes
      /\ d.err = (o.err \/ o.failed) /\ d.size = o.size
      /\ d.done = (o.done \/ (o.reqs = 1 /\ o.blocking))
      /\ d.out = o.out /\ d.fin = o.fin /\ d.failed = o.failed
      /\ d.ret = (IF o.reqs = 1 /\ ~o.blocking
                  THEN o.ret \cup {<<Cardinality(o.ret), S!fuse_get_res_by_io(d)>>}
                  ELSE o.ret)
      /\ d \in IoWith(d.ret)
  <2>0. PICK m \in Int : m = -1
    OBVIOUS
  <2>1. PICK f \in BOOLEAN : f = o.failed
    BY <1>1
  <2> DEFINE e == S!fuse_aio_complete(o, f, m)
  <2>e. e = S!fuse_aio_complete(o, f, m)
    OBVIOUS
  <2> HIDE DEF e
  <2>2. /\ e.st = (IF o.ref = 1 THEN "freed" ELSE o.st)
        /\ e.write = o.write /\ e.pos = o.pos /\ e.n = o.n /\ e.blocking = o.blocking
        /\ e.reqs = o.reqs - 1 /\ e.ref = o.ref - 1
        /\ e.bytes = (IF ~f /\ m >= 0 /\ (o.bytes < 0 \/ m < o.bytes) THEN m ELSE o.bytes)
        /\ e.err = (o.err \/ f) /\ e.size = o.size
        /\ e.done = (o.done \/ (o.reqs = 1 /\ o.blocking))
        /\ e.out = o.out /\ e.fin = o.fin /\ e.failed = o.failed
        /\ e.ret = (IF o.reqs = 1 /\ ~o.blocking
                    THEN o.ret \cup {<<Cardinality(o.ret), S!fuse_get_res_by_io(e)>>}
                    ELSE o.ret)
        /\ e \in IoWith(e.ret)
    BY <2>e, IoCompleted
  <2>3. d = e
    BY <2>0, <2>1 DEF e
  <2>4. e.bytes = o.bytes
    BY <2>0, <2>2
  <2> QED
    BY <2>1, <2>2, <2>3, <2>4
<1>3. o.st # "none" /\ Submitting("submitted")
      /\ ~Submitting("wait") /\ ~Submitting("gone")
  BY DEF IoOk, Submitting
<1>4. /\ o.reqs = 1 + Waiting(o, 1) + Waiting(o, 2)
      /\ o.ref = o.reqs + (IF o.blocking THEN 1 ELSE 0)
      /\ o.st = "live" <=> o.ref > 0
      /\ o.done <=> o.blocking /\ o.reqs = 0
      /\ o.failed <=> o.size = 0
      /\ o.err <=> \E i \in o.fin : o.out[i] = "err"
      /\ o.bytes = IF 1 \in o.fin /\ o.out[1] = "short" THEN 0
                   ELSE IF 2 \in o.fin /\ o.out[2] = "short" THEN 1 ELSE -1
      /\ o.ret = IF Completed(o, "submitted") THEN {<<0, S!fuse_get_res_by_io(o)>>} ELSE {}
  BY <1>3 DEF IoOk
<1>5. /\ Waiting(o, 1) \in {0, 1} /\ Waiting(o, 2) \in {0, 1}
      /\ Waiting(d, 1) = Waiting(o, 1) /\ Waiting(d, 2) = Waiting(o, 2)
  BY <1>2 DEF Waiting
<1>6. o.reqs >= 1 /\ o.ref >= 1 /\ ~o.done /\ o.st = "live" /\ ~Completed(o, "submitted")
      /\ o.ret = {}
  <2>1. o.reqs >= 1 /\ o.ref >= 1
    BY <1>1, <1>4, <1>5
  <2>2. ~Completed(o, "submitted")
    BY <2>1 DEF Completed
  <2>3. o.ret = {}
    BY <1>4, <2>2
  <2>4. ~o.done
    BY <1>4, <2>1
  <2>5. o.st = "live"
    <3>1. o.ref > 0
      BY <1>1, <2>1
    <3> QED
      BY <1>4, <3>1
  <2> QED
    BY <2>1, <2>2, <2>3, <2>4, <2>5
<1>7. d.ret = IF Completed(d, p) THEN {<<0, S!fuse_get_res_by_io(d)>>} ELSE {}
  <2>1. Cardinality({}) = 0
    BY FS_EmptySet
  <2>2. Completed(d, p) <=> o.reqs = 1 /\ ~o.blocking
    BY <1>1, <1>2 DEF Completed
  <2> QED
    BY <1>2, <1>6, <2>1, <2>2
<1>8. d \in Io
  <2>1. S!fuse_get_res_by_io(d) \in Int
    <3>1. d.err \in BOOLEAN /\ d.write \in BOOLEAN /\ d.bytes \in Int /\ d.size \in Int
      BY <1>2 DEF IoWith
    <3> QED
      BY <3>1 DEF S!fuse_get_res_by_io
  <2>2. d.ret \in SUBSET ({0} \X Int)
    BY <1>7, <2>1
  <2> QED
    BY <1>2, <2>2 DEF IoWith, Io
<1>9. IoOk(d, p)
  <2>1. d.st # "none" /\ p \in {"submit", "submitted", "wait", "gone"} /\ p # "submit"
        /\ ~Submitting(p)
    BY <1>2, <1>3, <1>6
  <2>2. \A i \in 1..2 : /\ d.out[i] = "no" <=> i > d.size
                        /\ i \in d.fin => d.out[i] \in Outcomes
    BY <1>2 DEF IoOk
  <2>3. d.reqs = (IF Submitting(p) THEN 1 ELSE 0) + Waiting(d, 1) + Waiting(d, 2)
    BY <1>1, <1>2, <1>4, <1>5, <2>1
  <2>4. /\ d.ref = d.reqs + (IF d.blocking /\ p # "gone" THEN 1 ELSE 0)
        /\ p = "wait" => d.blocking
        /\ p = "gone" /\ d.blocking => d.reqs = 0
    BY <1>1, <1>2, <1>4
  <2>5. d.st = "live" <=> d.ref > 0
    BY <1>1, <1>2, <1>6
  <2>6. d.done <=> d.blocking /\ d.reqs = 0
    BY <1>1, <1>2, <1>6
  <2>7. d.failed <=> p # "submit" /\ d.size = 0
    BY <1>2, <1>4, <2>1
  <2>8. d.err <=> \/ d.failed /\ ~Submitting(p)
                  \/ \E i \in d.fin : d.out[i] = "err"
    BY <1>2, <1>4, <2>1
  <2>9. d.bytes = IF 1 \in d.fin /\ d.out[1] = "short" THEN 0
                  ELSE IF 2 \in d.fin /\ d.out[2] = "short" THEN 1 ELSE -1
    BY <1>2, <1>4
  <2> HIDE DEF p
  <2> QED
    BY <1>7, <2>1, <2>2, <2>3, <2>4, <2>5, <2>6, <2>7, <2>8, <2>9 DEF IoOk
<1> QED
  BY <1>2, <1>8, <1>9

(* A blocking direct I/O has waited for its requests: the result of a      *)
(* write is positive when they all went well.                              *)
Waited(o) == [o EXCEPT !.ref = @ - 1, !.st = IF o.ref = 1 THEN "freed" ELSE @,
                       !.ret = @ \cup {<<S!Cardinality(@), S!fuse_get_res_by_io(o)>>}]
LEMMA IoWait ==
    ASSUME NEW o \in Io, IoOk(o, "wait"), o.done, NEW r, r = S!fuse_get_res_by_io(o), NEW d,
           d = Waited(o)
    PROVE  /\ d \in Io /\ IoOk(d, "gone") /\ r \in Int
           /\ d.write = o.write /\ d.pos = o.pos /\ d.size = o.size /\ d.out = o.out
           /\ o.write /\ r > 0 => /\ o.size \in 1..2
                                  /\ \A j \in 1..o.size : o.out[j] = "ok"
           /\ o.write => r # 0
<1>1. /\ o.size \in 0..2 /\ o.out \in [1..2 -> {"no", "sent"} \cup Outcomes]
      /\ o.reqs \in Int /\ o.ref \in Int /\ o.bytes \in Int /\ o.fin \in SUBSET (1..2)
      /\ o.err \in BOOLEAN /\ o.done \in BOOLEAN /\ o.blocking \in BOOLEAN
      /\ o.failed \in BOOLEAN /\ o.write \in BOOLEAN
  BY DEF Io
<1>2. r \in Int
  BY IoResult
<1>3. /\ o.st # "none" /\ o.blocking /\ ~Submitting("wait") /\ ~Submitting("gone")
      /\ o.reqs = 0
  BY DEF IoOk, Submitting
<1>4. /\ o.reqs = Waiting(o, 1) + Waiting(o, 2)
      /\ o.ref = o.reqs + 1
      /\ o.st = "live" <=> o.ref > 0
      /\ o.failed <=> o.size = 0
      /\ o.err <=> o.failed \/ \E i \in o.fin : o.out[i] = "err"
      /\ o.bytes = IF 1 \in o.fin /\ o.out[1] = "short" THEN 0
                   ELSE IF 2 \in o.fin /\ o.out[2] = "short" THEN 1 ELSE -1
      /\ o.ret = {}
  <2>1. /\ o.reqs = (IF Submitting("wait") THEN 1 ELSE 0) + Waiting(o, 1) + Waiting(o, 2)
        /\ o.ref = o.reqs + (IF o.blocking /\ "wait" # "gone" THEN 1 ELSE 0)
        /\ o.st = "live" <=> o.ref > 0
        /\ o.failed <=> "wait" # "submit" /\ o.size = 0
        /\ o.err <=> \/ o.failed /\ ~Submitting("wait")
                     \/ \E i \in o.fin : o.out[i] = "err"
        /\ o.bytes = IF 1 \in o.fin /\ o.out[1] = "short" THEN 0
                     ELSE IF 2 \in o.fin /\ o.out[2] = "short" THEN 1 ELSE -1
        /\ o.ret = IF Completed(o, "wait") THEN {<<0, S!fuse_get_res_by_io(o)>>} ELSE {}
    BY <1>3 DEF IoOk
  <2>2. ~Completed(o, "wait")
    BY <1>3 DEF Completed
  <2>3. Waiting(o, 1) \in {0, 1} /\ Waiting(o, 2) \in {0, 1}
    BY DEF Waiting
  <2>4. o.reqs = Waiting(o, 1) + Waiting(o, 2) /\ o.ref = o.reqs + 1
    BY <1>3, <2>1, <2>3
  <2>5. o.ret = {}
    BY <2>1, <2>2
  <2>6. (o.failed <=> o.size = 0) /\ (o.err <=> o.failed \/ \E i \in o.fin : o.out[i] = "err")
    BY <1>3, <2>1
  <2> QED
    BY <2>1, <2>4, <2>5, <2>6
<1>5. Waiting(o, 1) = 0 /\ Waiting(o, 2) = 0
  BY <1>1, <1>3, <1>4 DEF Waiting
<1>6. d = [o EXCEPT !.ref = o.ref - 1, !.st = "freed", !.ret = {<<0, r>>}]
  <2>1. o.ref = 1
    BY <1>1, <1>3, <1>4
  <2>2. S!Cardinality({}) = 0
    BY FS_EmptySet, SizeCardinality
  <2>3. d = [o EXCEPT !.ref = o.ref - 1, !.st = IF o.ref = 1 THEN "freed" ELSE o.st,
                      !.ret = o.ret \cup {<<S!Cardinality(o.ret), r>>}]
    BY Zenon DEF Io, Waited
  <2> QED
    BY <1>4, <2>1, <2>2, <2>3
<1>7. /\ d.st = "freed" /\ d.write = o.write /\ d.pos = o.pos /\ d.n = o.n
      /\ d.blocking = o.blocking /\ d.reqs = o.reqs /\ d.ref = o.ref - 1
      /\ d.bytes = o.bytes /\ d.err = o.err /\ d.size = o.size /\ d.done = o.done
      /\ d.out = o.out /\ d.fin = o.fin /\ d.ret = {<<0, r>>} /\ d.failed = o.failed
  BY <1>6 DEF Io
<1>8. d \in Io
  <2>1. <<0, r>> \in {0} \X Int
    BY <1>2
  <2>2. {<<0, r>>} \in SUBSET ({0} \X Int) /\ o.ref - 1 \in Int
    BY <1>1, <2>1
  <2> QED
    BY <1>6, <2>2 DEF Io
<1>9. S!fuse_get_res_by_io(d) = r
  BY <1>7 DEF S!fuse_get_res_by_io
<1>10. IoOk(d, "gone")
  <2>1. Waiting(d, 1) = Waiting(o, 1) /\ Waiting(d, 2) = Waiting(o, 2)
    BY <1>7 DEF Waiting
  <2>2. \A i \in 1..2 : /\ d.out[i] = "no" <=> i > d.size
                        /\ i \in d.fin => d.out[i] \in Outcomes
    BY <1>7 DEF IoOk
  <2>3. Completed(d, "gone")
    BY <1>3, <1>7 DEF Completed
  <2>4. d.err <=> \/ d.failed /\ ~Submitting("gone")
                  \/ \E i \in d.fin : d.out[i] = "err"
    BY <1>3, <1>4, <1>7
  <2>5. d.bytes = IF 1 \in d.fin /\ d.out[1] = "short" THEN 0
                  ELSE IF 2 \in d.fin /\ d.out[2] = "short" THEN 1 ELSE -1
    BY <1>4, <1>7
  <2>6. /\ d.reqs = 0 /\ d.ref = 0 /\ d.done /\ d.blocking /\ d.st = "freed"
        /\ d.failed <=> d.size = 0
    BY <1>3, <1>4, <1>7
  <2>7. d.reqs = (IF Submitting("gone") THEN 1 ELSE 0) + Waiting(d, 1) + Waiting(d, 2)
    BY <1>3, <1>5, <2>1, <2>6
  <2> QED
    BY <1>7, <1>9, <2>2, <2>3, <2>4, <2>5, <2>6, <2>7 DEF IoOk
<1>11. o.write /\ r > 0 => /\ o.size \in 1..2
                           /\ \A j \in 1..o.size : o.out[j] = "ok"
  <2> SUFFICES ASSUME o.write, r > 0
               PROVE  /\ o.size \in 1..2
                      /\ \A j \in 1..o.size : o.out[j] = "ok"
    OBVIOUS
  <2>1. ~o.err /\ o.bytes < 0 /\ r = o.size
    BY <1>1 DEF S!fuse_get_res_by_io
  <2>2. \A j \in 1..o.size : j \in 1..2 /\ o.out[j] # "no"
    BY <1>1 DEF IoOk
  <2>3. \A j \in 1..o.size : j \in o.fin /\ o.out[j] \in Outcomes
    BY <1>1, <1>5, <2>2 DEF IoOk, Waiting
  <2>4. \A j \in 1..o.size : o.out[j] # "err" /\ o.out[j] # "short"
    BY <1>1, <1>4, <2>1, <2>2, <2>3
  <2> QED
    BY <1>1, <2>1, <2>3, <2>4 DEF Outcomes
<1>12. o.write => r # 0
  BY <1>1, <1>4 DEF S!fuse_get_res_by_io
<1> QED
  BY <1>2, <1>7, <1>8, <1>10, <1>11, <1>12

-----------------------------------------------------------------------------
(* A step of the thread t, whose call becomes c; the calls of the others   *)
(* may learn that attr_version has advanced.                               *)
Same(a, b) ==
    b = a \/ (a.op \in {"getattr", "read"} /\ b = [a EXCEPT !.newer = TRUE, !.eq = FALSE])
Steps(t, c) ==
    /\ thr' \in [Callers -> Thread]
    /\ thr'[t] = c
    /\ \A u \in Callers : u # t => Same(thr[u], thr'[u])

LEMMA SameFields ==
    ASSUME NEW a \in Thread, NEW b, Same(a, b)
    PROVE  /\ b \in Thread
           /\ b.op = a.op /\ b.st = a.st /\ b.pos = a.pos /\ b.left = a.left /\ b.k = a.k
           /\ b.got = a.got /\ b.res = a.res /\ b.big = a.big
           /\ Attr(b) => Attr(a)
           /\ ShortRead(b) => ShortRead(a)
           /\ Grew(b) <=> Grew(a)
           /\ Dirty(b) <=> Dirty(a)
<1>1. CASE b = a
  BY <1>1
<1>2. CASE a.op \in {"getattr", "read"} /\ b = [a EXCEPT !.newer = TRUE, !.eq = FALSE]
  <2>1. b \in Thread
    BY <1>2 DEF Thread
  <2>2. /\ b.op = a.op /\ b.st = a.st /\ b.pos = a.pos /\ b.left = a.left /\ b.k = a.k
        /\ b.got = a.got /\ b.res = a.res /\ b.big = a.big
    BY <1>2 DEF Thread
  <2>3. b.newer = TRUE /\ b.eq = FALSE
    BY <1>2 DEF Thread
  <2> QED
    BY <2>1, <2>2, <2>3 DEF Attr, ShortRead, Grew, Dirty
<1> QED
  BY <1>1, <1>2 DEF Same

LEMMA SetSteps ==
    ASSUME thr \in [Callers -> Thread], NEW t \in Callers, NEW c \in Thread, S!Set(t, c)
    PROVE  Steps(t, c)
  BY DEF S!Set, Steps, Same

(* After fi->attr_version has advanced, no answer on its way is believed.  *)
LEMMA BumpSteps ==
    ASSUME thr \in [Callers -> Thread], NEW t, NEW c, t \in Callers => c \in Thread,
           thr' = S!Bumped(t, c)
    PROVE  /\ thr' \in [Callers -> Thread]
           /\ t \in Callers => thr'[t] = c /\ Steps(t, c)
           /\ \A u \in Callers : u # t => /\ Same(thr[u], thr'[u])
                                          /\ ~Attr(thr'[u]) /\ ~ShortRead(thr'[u])
<1>1. \A u \in Callers :
        /\ u = t => thr'[u] = c
        /\ u # t => thr'[u] = IF thr[u].op \in {"getattr", "read"}
                              THEN [thr[u] EXCEPT !.newer = TRUE, !.eq = FALSE] ELSE thr[u]
  BY DEF S!Bumped
<1>2. \A u \in Callers : u # t => /\ Same(thr[u], thr'[u])
                                  /\ ~Attr(thr'[u]) /\ ~ShortRead(thr'[u])
  <2> SUFFICES ASSUME NEW u \in Callers, u # t
               PROVE  Same(thr[u], thr'[u]) /\ ~Attr(thr'[u]) /\ ~ShortRead(thr'[u])
    OBVIOUS
  <2>1. CASE thr[u].op \in {"getattr", "read"}
    <3>1. thr'[u] = [thr[u] EXCEPT !.newer = TRUE, !.eq = FALSE] /\ thr[u] \in Thread
      BY <1>1, <2>1
    <3>2. thr'[u].newer = TRUE /\ thr'[u].eq = FALSE
      BY <3>1 DEF Thread
    <3> QED
      BY <2>1, <3>1, <3>2 DEF Same, Attr, ShortRead
  <2>2. CASE thr[u].op \notin {"getattr", "read"}
    <3>1. thr'[u] = thr[u]
      BY <1>1, <2>2
    <3> QED
      BY <2>2, <3>1 DEF Same, Attr, ShortRead
  <2> QED
    BY <2>1, <2>2
<1>3. thr' \in [Callers -> Thread]
  <2>1. \A u \in Callers : thr'[u] \in Thread
    BY <1>1, <1>2, SameFields
  <2>2. thr' = [u \in Callers |-> thr'[u]]
    BY DEF S!Bumped
  <2> QED
    BY <2>1, <2>2
<1> QED
  BY <1>1, <1>2, <1>3 DEF Steps

LEMMA AioBumpSteps ==
    ASSUME thr \in [Callers -> Thread], NEW o, NEW t, NEW c, t \in Callers => c \in Thread,
           S!AioBump(o, t, c)
    PROVE  /\ thr' \in [Callers -> Thread]
           /\ t \in Callers => thr'[t] = c /\ Steps(t, c)
           /\ \A u \in Callers : u # t => Same(thr[u], thr'[u])
<1>1. CASE thr' = S!Bumped(t, c)
  BY <1>1, BumpSteps
<1>2. CASE thr' = [u \in Callers |-> IF u = t THEN c ELSE thr[u]]
  BY <1>2 DEF Steps, Same
<1> QED
  BY <1>1, <1>2 DEF S!AioBump

-----------------------------------------------------------------------------
(* What a step leaves of AioInv.                                           *)
LEMMA AioFrame ==
    ASSUME thr \in [Callers -> Thread], AioInv, NEW t \in Callers, NEW c, Steps(t, c),
           thr[t].op # "aio", c.op # "aio", aio' = aio
    PROVE  AioInv'
<1>1. \A u \in Callers : thr'[u].op = "aio" => /\ thr[u].op = "aio" /\ thr'[u].st = thr[u].st
                                               /\ thr'[u].big = thr[u].big
  BY SameFields DEF Steps
<1>2. \A u \in Callers : thr[u].op = "aio" => thr'[u].op = "aio"
  BY SameFields DEF Steps
<1> QED
  BY <1>1, <1>2 DEF AioInv

LEMMA AioStep ==
    ASSUME thr \in [Callers -> Thread], AioInv, NEW t \in Callers, NEW c, Steps(t, c),
           thr[t].op = "aio", aio'.write = aio.write, aio'.blocking = aio.blocking,
           IF c.op = "aio" THEN IoOk(aio', Phase(c.st, aio')) /\ c.big = thr[t].big
                           ELSE IoOk(aio', "gone")
    PROVE  AioInv'
<1>1. \A u \in Callers : thr'[u].op = "aio" =>
          u = t /\ c.op = "aio" /\ thr'[u] = c /\ thr[u].op = "aio" /\ thr'[u].big = thr[u].big
  BY SameFields DEF Steps, AioInv
<1>2. thr'[t] = c
  BY DEF Steps
<1>3. \A u \in Callers : thr'[u].op = "aio" => IoOk(aio', Phase(thr'[u].st, aio'))
  BY <1>1
<1>4. (\A u \in Callers : thr'[u].op # "aio") => IoOk(aio', "gone")
  BY <1>2
<1>5. \A u \in Callers : thr'[u].op = "aio" /\ thr'[u].big => aio'.write /\ aio'.blocking
  BY <1>1 DEF AioInv
<1> QED
  BY <1>1, <1>3, <1>4, <1>5 DEF AioInv

LEMMA AioReply ==
    ASSUME thr \in [Callers -> Thread], AioInv,
           \A u \in Callers : Same(thr[u], thr'[u]),
           aio'.write = aio.write, aio'.blocking = aio.blocking,
           \A p : IoOk(aio, p) => IoOk(aio', p)
    PROVE  AioInv'
<1>1. \A u \in Callers : /\ thr'[u].op = thr[u].op /\ thr'[u].st = thr[u].st
                         /\ thr'[u].big = thr[u].big
  BY SameFields
<1> QED
  BY <1>1 DEF AioInv, Phase

(* ... and of LockInv.                                                     *)
Truncator(c) == c.op = "aio" \/ (c.op = "setattr" /\ c.st # "begin")
LocksMove(t) ==
    \/ ilock' = ilock
    \/ ilock = None /\ ilock' = t
    \/ ilock = t /\ ilock' = None

LEMMA LockStep ==
    ASSUME thr \in [Callers -> Thread], LockInv, NEW t \in Callers, NEW c, Steps(t, c),
           Locks(c, aio'.write) => ilock' = t,
           LocksMove(t),
           aio'.write = aio.write \/ \A u \in Callers : thr[u].op # "aio",
           raced => raced',
           c.op = "open" => \/ thr[t].op = "open"
                            \/ \A u \in Callers : Truncator(thr[u]) => raced',
           Truncator(c) => \/ Truncator(thr[t])
                           \/ \A u \in Callers : thr[u].op = "open" => raced'
    PROVE  LockInv'
<1>1. \A u \in Callers : u # t => thr'[u].op = thr[u].op /\ thr'[u].st = thr[u].st
  BY SameFields DEF Steps
<1>2. thr'[t] = c
  BY DEF Steps
<1>3. \A u \in Callers : Locks(thr'[u], aio'.write) => ilock' = u
  <2> SUFFICES ASSUME NEW u \in Callers, u # t, Locks(thr'[u], aio'.write) PROVE ilock' = u
    BY <1>2 DEF Locks
  <2>1. Locks(thr[u], aio.write)
    BY <1>1 DEF Locks
  <2>2. ilock = u
    BY <2>1 DEF LockInv
  <2> QED
    BY <2>2, FilesAssumption DEF LocksMove
<1>4. \A u, v \in Callers : thr'[u].op = "open" /\ Truncator(thr'[v]) => raced'
  <2> SUFFICES ASSUME NEW u \in Callers, NEW v \in Callers, thr'[u].op = "open",
                      Truncator(thr'[v])
               PROVE  raced'
    OBVIOUS
  <2>1. CASE u = t /\ v = t
    BY <2>1 DEF Truncator
  <2>2. CASE u = t /\ v # t
    <3>1. Truncator(thr[v])
      BY <1>1, <2>2 DEF Truncator
    <3> QED
      BY <1>2, <2>2, <3>1 DEF LockInv, Truncator
  <2>3. CASE u # t /\ v = t
    <3>1. thr[u].op = "open"
      BY <1>1, <2>3
    <3> QED
      BY <1>2, <2>3, <3>1 DEF LockInv, Truncator
  <2>4. CASE u # t /\ v # t
    BY <1>1, <2>4 DEF LockInv, Truncator
  <2> QED
    BY <2>1, <2>2, <2>3, <2>4
<1> QED
  BY <1>3, <1>4 DEF LockInv, Truncator

LEMMA RacesMean ==
    ASSUME NEW op, S!Races(op)
    PROVE  /\ raced => raced'
           /\ raced \in BOOLEAN => raced' \in BOOLEAN
           /\ op = "open" => \A u \in Callers : Truncator(thr[u]) => raced'
           /\ op \in {"setattr", "aio"} => \A u \in Callers : thr[u].op = "open" => raced'
  BY DEF S!Races, Truncator

-----------------------------------------------------------------------------
(* A step that leaves the sizes alone keeps TrackInv when no call stops    *)
(* being Grew or Dirty and only right answers are new.                     *)
Keeps(a, b, v) ==
    /\ Grew(a) => Grew(b)
    /\ Dirty(a) /\ v => Dirty(b)
    /\ Attr(b) => (Attr(a) /\ b.got = a.got) \/ b.got = dsize
    /\ ShortRead(b) => (ShortRead(a) /\ b.pos = a.pos) \/ b.pos >= dsize
    /\ b.op = "setattr" /\ b.st = "served" =>
          \/ a.op = "setattr" /\ a.st = "served" /\ b.got = a.got /\ b.big = a.big
          \/ IF b.got >= 0 THEN b.got = dsize ELSE ~b.big
    /\ b.op = "aio" => a.op = "aio" /\ b.big = a.big
AioGoesOn ==
    /\ aio'.write = aio.write /\ aio'.pos = aio.pos /\ aio'.size >= aio.size
    /\ \A j \in 1..2 : aio'.out[j] = "ok" => aio.out[j] = "ok"

LEMMA SameKeeps ==
    ASSUME NEW a \in Thread, NEW b, NEW v, Same(a, b)
    PROVE  Keeps(a, b, v)
  BY SameFields DEF Keeps

LEMMA QuietTrack ==
    ASSUME SizeType, SizeType', TrackInv, dsize' = dsize, isize' = isize, valid' => valid,
           AioGoesOn, \A u \in Callers : Keeps(thr[u], thr'[u], valid')
    PROVE  TrackInv'
<1>0. /\ dsize \in Nat /\ isize \in Nat /\ aio.pos \in Nat /\ aio.size \in 0..2
      /\ aio'.size \in 0..2
      /\ \A u \in Callers : /\ thr[u].got \in Int /\ thr'[u].got \in Int
                            /\ thr[u].pos \in Nat /\ thr'[u].pos \in Nat
  BY DEF SizeType, Io, Thread
<1>1. (\A u \in Callers : ~Grew(thr'[u])) => \A u \in Callers : ~Grew(thr[u])
  BY DEF Keeps
<1>2. valid' /\ (\A u \in Callers : ~Dirty(thr'[u])) => isize' = dsize'
  BY DEF Keeps, TrackInv
<1>3. \A t \in Callers : Attr(thr'[t]) /\ (\A u \in Callers : ~Grew(thr'[u]))
                          => thr'[t].got = dsize'
  BY <1>1 DEF Keeps, TrackInv
<1>4. \A t \in Callers : ShortRead(thr'[t]) /\ (\A u \in Callers : ~Grew(thr'[u]))
                          => thr'[t].pos >= dsize'
  BY <1>0, <1>1 DEF Keeps, TrackInv
<1>5. \A t \in Callers : thr'[t].op = "setattr" /\ thr'[t].st = "served"
                          => IF thr'[t].got >= 0 THEN thr'[t].got = dsize' ELSE ~thr'[t].big
  BY <1>0 DEF Keeps, TrackInv
<1>6. \A t \in Callers : thr'[t].op = "aio" /\ aio'.write
          => \A j \in 1..2 : aio'.out[j] = "ok" => dsize' >= aio'.pos + j
  BY <1>0 DEF Keeps, TrackInv, AioGoesOn
<1>7. \A x \in Int : InRange(x) => x <= dsize' /\ (x < dsize' => dsize' <= aio'.pos + aio'.size)
  BY <1>0 DEF InRange, AioGoesOn
<1>8. ASSUME NEW t \in Callers, thr'[t].op = "aio", thr'[t].big
      PROVE  /\ valid' => InRange(isize)'
             /\ \A u \in Callers : /\ Attr(thr'[u]) => InRange(thr'[u].got) \/ thr'[u].got = dsize
                                   /\ ShortRead(thr'[u]) => \/ thr'[u].pos >= dsize'
                                                            \/ dsize' <= aio'.pos + aio'.size
  <2>1. thr[t].op = "aio" /\ thr[t].big
    BY <1>8 DEF Keeps
  <2>2. valid' => InRange(isize)'
    BY <1>0, <1>7, <2>1 DEF TrackInv, InRange
  <2>3. \A u \in Callers : Attr(thr'[u]) => InRange(thr'[u].got) \/ thr'[u].got = dsize
    BY <2>1 DEF TrackInv, Keeps
  <2>4. ASSUME NEW u \in Callers, ShortRead(thr'[u])
        PROVE  thr'[u].pos >= dsize' \/ dsize' <= aio'.pos + aio'.size
    <3>1. thr'[u].pos >= dsize \/ (ShortRead(thr[u]) /\ thr'[u].pos = thr[u].pos)
      BY <2>4 DEF Keeps
    <3>2. CASE thr'[u].pos >= dsize
      BY <3>2
    <3>3. CASE ShortRead(thr[u]) /\ thr'[u].pos = thr[u].pos
      <4>1. thr[u].pos >= dsize \/ dsize <= aio.pos + aio.size
        BY <2>1, <3>3 DEF TrackInv
      <4> QED
        BY <1>0, <3>3, <4>1 DEF AioGoesOn
    <3> QED
      BY <3>1, <3>2, <3>3
  <2> QED
    BY <2>2, <2>3, <2>4
<1>9. \A t \in Callers : thr'[t].op = "aio" /\ thr'[t].big =>
          /\ valid' => InRange(isize)'
          /\ \A u \in Callers : /\ Attr(thr'[u]) => InRange(thr[u].got)'
                                /\ ShortRead(thr'[u]) => \/ thr'[u].pos >= dsize'
                                                         \/ dsize' <= aio'.pos + aio'.size
  <2>1. \A u \in Callers : InRange(thr'[u].got) \/ thr'[u].got = dsize => InRange(thr[u].got)'
    <3> SUFFICES ASSUME NEW u \in Callers, InRange(thr'[u].got) \/ thr'[u].got = dsize
                 PROVE  thr'[u].got <= dsize'
                        /\ (thr'[u].got < dsize' => dsize' <= aio'.pos + aio'.size)
      BY DEF InRange
    <3> QED
      BY <1>0, <1>7
  <2> QED
    BY <1>8, <2>1
<1> QED
  BY <1>2, <1>3, <1>4, <1>5, <1>6, <1>9 DEF TrackInv

(* A step in which a call has changed the daemon's size.                   *)
LEMMA GrowTrack ==
    ASSUME NEW t \in Callers, Grew(thr'[t]), thr'[t].op # "aio",
           thr'[t].op = "setattr" /\ thr'[t].st = "served" => thr'[t].got = dsize' /\ dsize' \in Nat,
           \A u \in Callers : u # t =>
               /\ ~(thr'[u].op = "setattr" /\ thr'[u].st = "served")
               /\ ~(thr'[u].op = "aio" /\ (aio'.write \/ thr'[u].big))
    PROVE  TrackInv'
<1>1. ~\A u \in Callers : ~Grew(thr'[u])
  OBVIOUS
<1>2. ~\A u \in Callers : ~Dirty(thr'[u])
  BY DEF Dirty
<1>3. \A u \in Callers : thr'[u].op = "setattr" /\ thr'[u].st = "served"
                          => IF thr'[u].got >= 0 THEN thr'[u].got = dsize' ELSE ~thr'[u].big
  OBVIOUS
<1>4. \A u \in Callers : ~(thr'[u].op = "aio" /\ (aio'.write \/ thr'[u].big))
  OBVIOUS
<1> QED
  BY <1>1, <1>2, <1>3, <1>4 DEF TrackInv

(* A step that advances attr_version, and sets i_size.                     *)
LEMMA BumpTrack ==
    ASSUME SizeType, SizeType', TrackInv, dsize' = dsize, AioGoesOn, NEW t,
           \A u \in Callers : u # t => /\ Same(thr[u], thr'[u])
                                       /\ ~Attr(thr'[u]) /\ ~ShortRead(thr'[u]),
           t \in Callers => thr'[t].op # "aio" /\ ~(thr'[t].op = "setattr" /\ thr'[t].st = "served")
                            /\ ~Attr(thr'[t]) /\ ~ShortRead(thr'[t]),
           valid' /\ (\A u \in Callers : ~Dirty(thr'[u])) => isize' = dsize,
           valid' => \A u \in Callers : u # t /\ thr[u].op = "aio" /\ thr[u].big => InRange(isize')
    PROVE  TrackInv'
<1>0. /\ dsize \in Nat /\ isize' \in Nat /\ aio.pos \in Nat /\ aio.size \in 0..2
      /\ aio'.size \in 0..2
  BY DEF SizeType, Io
<1>1. \A u \in Callers : u # t => /\ thr'[u].op = thr[u].op /\ thr'[u].st = thr[u].st
                                  /\ thr'[u].big = thr[u].big /\ thr'[u].got = thr[u].got
  BY SameFields DEF SizeType
<1>2. \A u \in Callers : ~Attr(thr'[u]) /\ ~ShortRead(thr'[u])
  OBVIOUS
<1>3. \A u \in Callers : thr'[u].op = "aio" => u # t /\ thr[u].op = "aio" /\ thr'[u].big = thr[u].big
  BY <1>1
<1>4. \A u \in Callers : thr'[u].op = "setattr" /\ thr'[u].st = "served"
                          => IF thr'[u].got >= 0 THEN thr'[u].got = dsize' ELSE ~thr'[u].big
  BY <1>1 DEF TrackInv
<1>5. \A u \in Callers : thr'[u].op = "aio" /\ aio'.write
          => \A j \in 1..2 : aio'.out[j] = "ok" => dsize' >= aio'.pos + j
  BY <1>0, <1>3 DEF TrackInv, AioGoesOn
<1>6. \A u \in Callers : thr'[u].op = "aio" /\ thr'[u].big => (valid' => InRange(isize)')
  BY <1>0, <1>3 DEF InRange, AioGoesOn
<1> QED
  BY <1>2, <1>4, <1>5, <1>6 DEF TrackInv

-----------------------------------------------------------------------------
(* A step of t that has no direct I/O: what is common to its kinds.        *)
Plain(t, c) ==
    /\ Steps(t, c) /\ c \in Thread
    /\ thr[t].op # "aio" /\ c.op # "aio"
    /\ c.op = "getattr" => c.got >= 0
    /\ c.op = "fallocate" /\ c.st = "sent" => c.got = 0
    /\ aio' = aio
    /\ Locks(c, aio.write) => ilock' = t
    /\ LocksMove(t)
    /\ raced => raced'
    /\ c.op = "open" => \/ thr[t].op = "open"
                        \/ \A u \in Callers : Truncator(thr[u]) => raced'
    /\ Truncator(c) => \/ Truncator(thr[t])
                       \/ \A u \in Callers : thr[u].op = "open" => raced'
    /\ dsize' \in Nat /\ isize' \in Nat /\ valid' \in BOOLEAN /\ raced' \in BOOLEAN

LEMMA PlainStep ==
    ASSUME SizeInv, NEW t \in Callers, NEW c, Plain(t, c)
    PROVE  SizeType' /\ AioInv' /\ LockInv' /\ AioGoesOn
<1>1. SizeType'
  <2>1. thr' \in [Callers -> Thread] /\ aio' \in Io
    BY DEF Plain, Steps, SizeInv, SizeType
  <2>2. \A u \in Callers : /\ thr'[u].op = "getattr" => thr'[u].got >= 0
                           /\ thr'[u].op = "fallocate" /\ thr'[u].st = "sent" => thr'[u].got = 0
    <3> SUFFICES ASSUME NEW u \in Callers
                 PROVE  /\ thr'[u].op = "getattr" => thr'[u].got >= 0
                        /\ thr'[u].op = "fallocate" /\ thr'[u].st = "sent" => thr'[u].got = 0
      OBVIOUS
    <3>1. CASE u = t
      BY <3>1 DEF Plain, Steps
    <3>2. CASE u # t
      <4>1. thr'[u].op = thr[u].op /\ thr'[u].got = thr[u].got /\ thr'[u].st = thr[u].st
        BY <3>2, SameFields DEF Plain, Steps, SizeInv, SizeType
      <4> QED
        BY <4>1 DEF SizeInv, SizeType
    <3> QED
      BY <3>1, <3>2
  <2> QED
    BY <2>1, <2>2 DEF Plain, SizeType
<1>2. AioInv'
  BY AioFrame DEF Plain, SizeInv, SizeType
<1>3. LockInv'
  <2>1. thr \in [Callers -> Thread] /\ LockInv
    BY DEF SizeInv, SizeType
  <2> QED
    BY <2>1, LockStep DEF Plain
<1>4. AioGoesOn
  <2>1. aio' = aio /\ aio.size \in 0..2
    BY DEF Plain, SizeInv, SizeType, Io
  <2> QED
    BY <2>1 DEF AioGoesOn
<1> QED
  BY <1>1, <1>2, <1>3, <1>4

LEMMA Quiet ==
    ASSUME SizeInv, NEW t \in Callers, NEW c, Plain(t, c), dsize' = dsize, isize' = isize,
           valid' => valid, raced' \/ Keeps(thr[t], c, valid')
    PROVE  SizeInv'
<1>1. SizeType' /\ AioInv' /\ LockInv' /\ AioGoesOn
  BY PlainStep
<1>2. ASSUME ~raced' PROVE TrackInv'
  <2>1. TrackInv /\ SizeType
    BY <1>2 DEF SizeInv, Plain
  <2>2. \A u \in Callers : Keeps(thr[u], thr'[u], valid')
    <3> SUFFICES ASSUME NEW u \in Callers PROVE Keeps(thr[u], thr'[u], valid')
      OBVIOUS
    <3>1. CASE u = t
      BY <1>2, <3>1 DEF Plain, Steps
    <3>2. CASE u # t
      BY <2>1, <3>2, SameKeeps DEF Plain, Steps, SizeType
    <3> QED
      BY <3>1, <3>2
  <2> QED
    BY <1>1, <2>1, <2>2, QuietTrack
<1> QED
  BY <1>1, <1>2 DEF SizeInv

LEMMA Grow ==
    ASSUME SizeInv, NEW t \in Callers, NEW c, Plain(t, c), Grew(c),
           Locks(thr[t], aio.write) \/ thr[t].op = "open",
           c.op = "setattr" /\ c.st = "served" => c.got = dsize'
    PROVE  SizeInv'
<1>1. SizeType' /\ AioInv' /\ LockInv' /\ AioGoesOn
  BY PlainStep
<1>2. ASSUME ~raced' PROVE TrackInv'
  <2>1. ASSUME NEW u \in Callers, u # t
        PROVE  /\ ~(thr'[u].op = "setattr" /\ thr'[u].st = "served")
               /\ ~(thr'[u].op = "aio" /\ (aio'.write \/ thr'[u].big))
    <3>1. thr'[u].op = thr[u].op /\ thr'[u].st = thr[u].st /\ thr'[u].big = thr[u].big
      BY <2>1, SameFields DEF Plain, Steps, SizeInv, SizeType
    <3>2. thr[u].op = "aio" /\ thr[u].big => aio.write
      BY DEF SizeInv, AioInv
    <3>3. aio' = aio /\ ~raced
      BY <1>2 DEF Plain
    <3>4. CASE thr[t].op = "open"
      <4>1. ~(thr[u].op = "aio" \/ (thr[u].op = "setattr" /\ thr[u].st # "begin"))
        BY <3>3, <3>4 DEF SizeInv, LockInv
      <4> QED
        BY <3>1, <4>1
    <3>5. CASE Locks(thr[t], aio.write)
      <4>1. ilock = t
        BY <3>5 DEF SizeInv, LockInv
      <4>2. ~Locks(thr[u], aio.write)
        BY <2>1, <4>1 DEF SizeInv, LockInv
      <4> QED
        BY <3>1, <3>2, <3>3, <4>2 DEF Locks
    <3> QED
      BY <3>4, <3>5
  <2>2. thr'[t] = c /\ c.op # "aio" /\ dsize' \in Nat
    BY DEF Plain, Steps
  <2> QED
    BY <2>1, <2>2, GrowTrack
<1> QED
  BY <1>1, <1>2 DEF SizeInv

LEMMA Bump ==
    ASSUME SizeInv, NEW t \in Callers, NEW c, Plain(t, c), thr' = S!Bumped(t, c),
           c.op \notin {"getattr", "read"}, ~(c.op = "setattr" /\ c.st = "served"),
           dsize' = dsize,
           ~raced /\ TrackInv /\ valid' /\ ~Dirty(c)
               /\ (\A u \in Callers : u # t => ~Dirty(thr[u])) => isize' = dsize,
           ~raced /\ TrackInv /\ valid' =>
               \A u \in Callers : u # t /\ thr[u].op = "aio" /\ thr[u].big => InRange(isize')
    PROVE  SizeInv'
<1>1. SizeType' /\ AioInv' /\ LockInv' /\ AioGoesOn
  BY PlainStep
<1>2. ASSUME ~raced' PROVE TrackInv'
  <2>1. TrackInv /\ SizeType /\ ~raced
    BY <1>2 DEF SizeInv, Plain
  <2>2. \A u \in Callers : u # t => /\ Same(thr[u], thr'[u])
                                    /\ ~Attr(thr'[u]) /\ ~ShortRead(thr'[u])
    BY <2>1, BumpSteps DEF SizeType, Plain
  <2>3. thr'[t] = c
    BY DEF Plain, Steps
  <2>4. ~Attr(c) /\ ~ShortRead(c) /\ c.op # "aio"
    BY DEF Attr, ShortRead, Plain
  <2>5. valid' /\ (\A u \in Callers : ~Dirty(thr'[u])) => isize' = dsize
    <3>1. \A u \in Callers : u # t => (Dirty(thr'[u]) <=> Dirty(thr[u]))
      BY <2>1, <2>2, SameFields DEF SizeType
    <3> QED
      BY <2>1, <2>3, <3>1
  <2>6. valid' => \A u \in Callers : u # t /\ thr[u].op = "aio" /\ thr[u].big => InRange(isize')
    BY <2>1
  <2> QED
    BY <1>1, <2>1, <2>2, <2>3, <2>4, <2>5, <2>6, BumpTrack
<1> QED
  BY <1>1, <1>2 DEF SizeInv

-----------------------------------------------------------------------------
(* Thread t's types, and the calls that start.                             *)
LEMMA SizeTypes ==
    ASSUME SizeInv, NEW t \in Callers
    PROVE  /\ thr \in [Callers -> Thread] /\ thr[t] \in Thread
           /\ thr[t].op \in {"none", "getattr", "read", "setattr", "fallocate", "open", "aio"}
                            \cup Writes
           /\ thr[t].pos \in Nat /\ thr[t].left \in Int /\ thr[t].k \in Int
           /\ thr[t].got \in Int /\ thr[t].res \in Nat /\ thr[t].big \in BOOLEAN
           /\ thr[t].newer \in BOOLEAN /\ thr[t].eq \in BOOLEAN
           /\ thr[t].op = "getattr" => thr[t].got >= 0
           /\ thr[t].op = "fallocate" /\ thr[t].st = "sent" => thr[t].got = 0
           /\ dsize \in Nat /\ isize \in Nat /\ valid \in BOOLEAN /\ raced \in BOOLEAN
           /\ aio \in Io
  BY DEF SizeInv, SizeType, Thread

Ops == {"none", "getattr", "read", "setattr", "fallocate", "open", "aio"} \cup Writes
States == {"idle", "sent", "served", "fill", "end", "resume", "clear", "begin",
           "submit", "submitted", "check", "wait"}

LEMMA IdleFields == /\ S!Idle \in Thread /\ S!Idle.op = "none" /\ S!Idle.st = "idle"
                    /\ ~Grew(S!Idle) /\ ~Dirty(S!Idle) /\ ~Attr(S!Idle) /\ ~ShortRead(S!Idle)
                    /\ ~Truncator(S!Idle) /\ \A w : ~Locks(S!Idle, w)
<1>1. S!Idle \in Thread /\ S!Idle.op = "none" /\ S!Idle.st = "idle"
  BY DEF S!Idle, Thread
<1> QED
  BY <1>1 DEF Grew, Dirty, Attr, ShortRead, Truncator, Locks, Writes

(* A new call, an answer.                                                  *)
LEMMA BeginFields ==
    ASSUME NEW op \in Ops, NEW at \in States
    PROVE  LET c == S!Begin(op, at)
           IN  /\ c \in Thread /\ c.op = op /\ c.st = at /\ c.pos = 0 /\ c.left = 0
               /\ c.k = 0 /\ c.got = 0 /\ c.res = 0 /\ c.big = FALSE /\ c.eq = FALSE /\ ~c.newer
<1>1. /\ S!Idle \in Thread /\ S!Idle.pos = 0 /\ S!Idle.left = 0 /\ S!Idle.k = 0
      /\ S!Idle.got = 0 /\ S!Idle.res = 0 /\ S!Idle.big = FALSE /\ S!Idle.eq = FALSE
      /\ ~S!Idle.newer
  BY DEF S!Idle, Thread
<1> QED
  BY <1>1 DEF S!Begin, Thread, Ops, States

Answered(a, at, got) == [a EXCEPT !.st = at, !.got = got]

LEMMA AnsweredFields ==
    ASSUME NEW a \in Thread, NEW at \in States, NEW got \in Int
    PROVE  LET c == Answered(a, at, got)
           IN  /\ c \in Thread /\ c.op = a.op /\ c.st = at /\ c.pos = a.pos /\ c.left = a.left
               /\ c.k = a.k /\ c.got = got /\ c.res = a.res /\ c.big = a.big
               /\ c.eq = a.eq /\ c.newer = a.newer
  BY DEF Answered, Thread, States

(* A call starts or ends, or changes c, and nothing else but the lock.     *)
LEMMA SizeGetattr ==
    ASSUME SizeInv, NEW t \in Callers, S!fuse_do_getattr(t)
    PROVE  SizeInv'
<1> DEFINE c == S!Begin("getattr", "sent")
<1>1. c \in Thread /\ c.op = "getattr" /\ c.st = "sent" /\ c.got = 0
  <2>1. "getattr" \in Ops /\ "sent" \in States
    BY DEF Ops, States
  <2> QED
    BY <2>1, BeginFields
<1> HIDE DEF c
<1>2. thr[t] = S!Idle /\ S!Set(t, c)
  BY DEF S!fuse_do_getattr, c
<1>3. Plain(t, c)
  BY <1>1, <1>2, SizeTypes, SetSteps, IdleFields
     DEF S!fuse_do_getattr, Plain, Locks, Truncator, LocksMove, Writes
<1>4. Keeps(thr[t], c, valid')
  BY <1>1, <1>2, IdleFields DEF Keeps, Attr, ShortRead
<1> QED
  BY <1>3, <1>4, Quiet DEF S!fuse_do_getattr

LEMMA SizeServeGetattr ==
    ASSUME SizeInv, NEW t \in Callers, S!ServeGetattr(t)
    PROVE  SizeInv'
<1> DEFINE c == [thr[t] EXCEPT !.st = "served", !.got = dsize]
<1>0. thr[t] \in Thread /\ thr[t].op = "getattr" /\ thr[t].st = "sent" /\ S!Set(t, c)
  BY SizeTypes DEF S!ServeGetattr, S!At
<1>1. c \in Thread /\ c.op = "getattr" /\ c.st = "served" /\ c.got = dsize
  <2>1. dsize \in Int
    BY SizeTypes
  <2>2. c = Answered(thr[t], "served", dsize)
    BY DEF Answered
  <2> QED
    BY <1>0, <2>1, <2>2, AnsweredFields DEF States
<1> HIDE DEF c
<1>3. Plain(t, c)
  BY <1>0, <1>1, SizeTypes, SetSteps
     DEF S!ServeGetattr, Plain, Locks, Truncator, LocksMove, Writes
<1>4. Keeps(thr[t], c, valid')
  BY <1>0, <1>1 DEF Keeps, Attr, ShortRead, Grew, Dirty, Writes
<1> QED
  BY <1>3, <1>4, Quiet DEF S!ServeGetattr

LEMMA SizeAttributes ==
    ASSUME SizeInv, NEW t \in Callers, S!fuse_change_attributes(t)
    PROVE  SizeInv'
<1>0. thr[t] \in Thread /\ thr[t].op = "getattr" /\ thr[t].st = "served"
  BY SizeTypes DEF S!fuse_change_attributes, S!At
<1>1. CASE thr[t].newer \/ unstable
  <2>1. S!Set(t, S!Idle) /\ isize' = isize /\ valid' = valid
    BY <1>1 DEF S!fuse_change_attributes
  <2>3. Plain(t, S!Idle)
    BY <1>0, <2>1, SizeTypes, SetSteps, IdleFields
       DEF S!fuse_change_attributes, Plain, LocksMove
  <2>4. Keeps(thr[t], S!Idle, valid')
    BY <1>0, IdleFields DEF Keeps, Grew, Dirty, Writes
  <2> QED
    BY <2>1, <2>3, <2>4, Quiet DEF S!fuse_change_attributes
<1>2. CASE ~(thr[t].newer \/ unstable)
  <2>1. thr' = S!Bumped(t, S!Idle) /\ isize' = thr[t].got /\ valid' = TRUE
    BY <1>2 DEF S!fuse_change_attributes
  <2>2. Attr(thr[t])
    BY <1>0, <1>2, SizeTypes DEF Attr
  <2>3. Plain(t, S!Idle)
    BY <1>0, <2>1, SizeTypes, BumpSteps, IdleFields
       DEF S!fuse_change_attributes, Plain, LocksMove
  <2>4. ~raced /\ TrackInv /\ valid' /\ ~Dirty(S!Idle)
            /\ (\A u \in Callers : u # t => ~Dirty(thr[u])) => isize' = dsize
    <3>1. ~Dirty(thr[t])
      BY <1>0 DEF Dirty, Grew, Writes
    <3>2. (\A u \in Callers : u # t => ~Dirty(thr[u])) => \A u \in Callers : ~Grew(thr[u])
      BY <3>1 DEF Dirty
    <3> QED
      BY <2>1, <2>2, <3>2 DEF TrackInv
  <2>5. ~raced /\ TrackInv /\ valid' =>
          \A u \in Callers : u # t /\ thr[u].op = "aio" /\ thr[u].big => InRange(isize')
    BY <2>1, <2>2 DEF TrackInv
  <2>6. dsize' = dsize
    BY DEF S!fuse_change_attributes
  <2> QED
    BY <2>1, <2>3, <2>4, <2>5, <2>6, IdleFields, Bump
<1> QED
  BY <1>1, <1>2

LEMMA SizeRead ==
    ASSUME SizeInv, NEW t \in Callers, NEW p \in Nat, NEW e \in BOOLEAN, S!fuse_send_read(t, p, e)
    PROVE  SizeInv'
<1> DEFINE c == [S!Begin("read", "sent") EXCEPT !.pos = p, !.eq = e]
<1>1. c \in Thread /\ c.op = "read" /\ c.st = "sent"
  <2> DEFINE b == S!Begin("read", "sent")
  <2>0. "read" \in Ops /\ "sent" \in States
    BY DEF Ops, States
  <2>1. b \in Thread /\ b.op = "read" /\ b.st = "sent"
    BY <2>0, BeginFields
  <2>2. c = [b EXCEPT !.pos = p, !.eq = e]
    OBVIOUS
  <2> HIDE DEF b, c
  <2> QED
    BY <2>1, <2>2 DEF Thread
<1> HIDE DEF c
<1>2. thr[t] = S!Idle /\ S!Set(t, c)
  BY DEF S!fuse_send_read, c
<1>3. Plain(t, c)
  BY <1>1, <1>2, SizeTypes, SetSteps, IdleFields
     DEF S!fuse_send_read, Plain, Locks, Truncator, LocksMove, Writes
<1>4. Keeps(thr[t], c, valid')
  BY <1>1, <1>2, IdleFields DEF Keeps, Attr, ShortRead
<1> QED
  BY <1>3, <1>4, Quiet DEF S!fuse_send_read

LEMMA SizeServeRead ==
    ASSUME SizeInv, NEW t \in Callers, S!ServeRead(t)
    PROVE  SizeInv'
<1> DEFINE c == [thr[t] EXCEPT !.st = "served", !.got = IF thr[t].pos < dsize THEN 1 ELSE 0]
<1>0. thr[t] \in Thread /\ thr[t].op = "read" /\ thr[t].st = "sent" /\ S!Set(t, c)
  BY SizeTypes DEF S!ServeRead, S!At
<1>1. /\ c \in Thread /\ c.op = "read" /\ c.st = "served" /\ c.pos = thr[t].pos
      /\ c.got = IF thr[t].pos < dsize THEN 1 ELSE 0
  <2> DEFINE g == IF thr[t].pos < dsize THEN 1 ELSE 0
  <2>1. g \in Int /\ c = Answered(thr[t], "served", g)
    BY DEF Answered
  <2> HIDE DEF g, c
  <2> QED
    BY <1>0, <2>1, AnsweredFields DEF States, g
<1> HIDE DEF c
<1>3. Plain(t, c)
  BY <1>0, <1>1, SizeTypes, SetSteps
     DEF S!ServeRead, Plain, Locks, Truncator, LocksMove, Writes
<1>4. Keeps(thr[t], c, valid')
  <2>1. c.got = 0 => c.pos >= dsize
    BY <1>1, SizeTypes
  <2> QED
    BY <1>0, <1>1, <2>1 DEF Keeps, Attr, ShortRead, Grew, Dirty, Writes
<1> QED
  BY <1>3, <1>4, Quiet DEF S!ServeRead

LEMMA SizeReadDone ==
    ASSUME SizeInv, NEW t \in Callers, S!fuse_read_update_size(t)
    PROVE  SizeInv'
<1>0. thr[t] \in Thread /\ thr[t].op = "read" /\ thr[t].st = "served" /\ ~Dirty(thr[t])
  BY SizeTypes DEF S!fuse_read_update_size, S!At, Dirty, Grew, Writes
<1> DEFINE cut == thr[t].got = 0 /\ S!UpToDate(t) /\ thr[t].pos < isize /\ ~unstable
<1>1. CASE ~cut
  <2>1. S!Set(t, S!Idle) /\ isize' = isize
    BY <1>1 DEF S!fuse_read_update_size
  <2>3. Plain(t, S!Idle)
    BY <1>0, <2>1, SizeTypes, SetSteps, IdleFields
       DEF S!fuse_read_update_size, Plain, LocksMove
  <2>4. Keeps(thr[t], S!Idle, valid')
    BY <1>0, IdleFields DEF Keeps, Dirty
  <2> QED
    BY <2>1, <2>3, <2>4, Quiet DEF S!fuse_read_update_size
<1>2. CASE cut
  <2>1. thr' = S!Bumped(t, S!Idle) /\ isize' = thr[t].pos
    BY <1>2 DEF S!fuse_read_update_size
  <2>2. ShortRead(thr[t]) /\ thr[t].pos < isize
    BY <1>0, <1>2 DEF ShortRead, S!UpToDate
  <2>3. Plain(t, S!Idle)
    BY <1>0, <2>1, SizeTypes, BumpSteps, IdleFields
       DEF S!fuse_read_update_size, Plain, LocksMove
  <2>6. dsize' = dsize /\ valid' = valid
    BY DEF S!fuse_read_update_size
  <2>4. ~raced /\ TrackInv /\ valid' /\ ~Dirty(S!Idle)
            /\ (\A u \in Callers : u # t => ~Dirty(thr[u])) => isize' = dsize
    <3> SUFFICES ASSUME TrackInv, valid, \A u \in Callers : u # t => ~Dirty(thr[u]) PROVE FALSE
      BY <2>6
    <3>1. \A u \in Callers : ~Dirty(thr[u]) /\ ~Grew(thr[u])
      BY <1>0 DEF Dirty
    <3>2. isize = dsize /\ thr[t].pos >= dsize
      BY <2>2, <3>1 DEF TrackInv
    <3> QED
      BY <2>2, <3>2, SizeTypes
  <2>5. ~raced /\ TrackInv /\ valid' =>
          \A u \in Callers : u # t /\ thr[u].op = "aio" /\ thr[u].big => InRange(isize')
    <3> SUFFICES ASSUME TrackInv, valid, NEW u \in Callers, thr[u].op = "aio", thr[u].big
                 PROVE  InRange(thr[t].pos)
      BY <2>1, <2>6
    <3>1. isize <= dsize
      BY DEF TrackInv, InRange
    <3>2. thr[t].pos >= dsize \/ dsize <= aio.pos + aio.size
      BY <2>2 DEF TrackInv
    <3> QED
      BY <2>2, <3>1, <3>2, SizeTypes DEF InRange
  <2> QED
    BY <2>1, <2>3, <2>4, <2>5, <2>6, IdleFields, Bump
<1> QED
  BY <1>1, <1>2

-----------------------------------------------------------------------------
(* The steps of a write.                                                   *)
Moved(a, at) == [a EXCEPT !.st = at]

LEMMA MovedFields ==
    ASSUME NEW a \in Thread, NEW at \in States
    PROVE  LET c == Moved(a, at)
           IN  /\ c \in Thread /\ c.op = a.op /\ c.st = at /\ c.pos = a.pos /\ c.left = a.left
               /\ c.k = a.k /\ c.got = a.got /\ c.res = a.res /\ c.big = a.big
               /\ c.eq = a.eq /\ c.newer = a.newer
  BY DEF Moved, Thread, States

LEMMA WriteHolds ==
    ASSUME SizeInv, NEW t \in Callers, S!Writing(t)
    PROVE  thr[t].op \in Writes /\ ilock = t /\ Locks(thr[t], aio.write)
  BY DEF SizeInv, LockInv, S!Writing, Locks, Writes

LEMMA SizePerformWrite ==
    ASSUME SizeInv, NEW t \in Callers, NEW pos \in Nat, NEW n \in Nat,
           S!fuse_perform_write(t, pos, n)
    PROVE  SizeInv'
<1> DEFINE c == [S!Begin("write", "fill") EXCEPT !.pos = pos, !.left = n]
<1>1. c \in Thread /\ c.op = "write" /\ c.st = "fill"
  <2> DEFINE b == S!Begin("write", "fill")
  <2>1. "write" \in Ops /\ "fill" \in States
    BY DEF Ops, States, Writes
  <2>2. b \in Thread /\ b.op = "write" /\ b.st = "fill"
    BY <2>1, BeginFields
  <2>3. c = [b EXCEPT !.pos = pos, !.left = n] /\ n \in Int
    OBVIOUS
  <2> HIDE DEF b, c
  <2> QED
    BY <2>2, <2>3 DEF Thread
<1> HIDE DEF c
<1>2. thr[t] = S!Idle /\ S!Set(t, c) /\ ilock = None /\ ilock' = t
  BY DEF S!fuse_perform_write, S!inode_lock, c
<1>3. Plain(t, c)
  BY <1>1, <1>2, SizeTypes, SetSteps, IdleFields
     DEF S!fuse_perform_write, Plain, Locks, Truncator, LocksMove
<1>4. Keeps(thr[t], c, valid')
  BY <1>1, <1>2, IdleFields DEF Keeps, Attr, ShortRead
<1> QED
  BY <1>3, <1>4, Quiet DEF S!fuse_perform_write

LEMMA SizeDirectWrite ==
    ASSUME SizeInv, NEW t \in Callers, NEW op \in {"odirect", "dio"}, NEW pos \in Nat,
           NEW n \in Nat, S!fuse_direct_write(t, op, pos, n)
    PROVE  SizeInv'
<1> DEFINE big == pos + n > isize
           c == [S!Begin(op, "fill") EXCEPT !.pos = pos, !.left = n, !.big = big]
<1>1. c \in Thread /\ c.op = op /\ c.st = "fill"
  <2> DEFINE b == S!Begin(op, "fill")
  <2>1. op \in Ops /\ "fill" \in States
    BY DEF Ops, States, Writes
  <2>2. b \in Thread /\ b.op = op /\ b.st = "fill"
    BY <2>1, BeginFields
  <2>3. c = [b EXCEPT !.pos = pos, !.left = n, !.big = big]
    OBVIOUS
  <2>4. big \in BOOLEAN /\ n \in Int
    OBVIOUS
  <2> HIDE DEF b, c, big
  <2>5. c \in Thread
    BY <2>2, <2>3, <2>4 DEF Thread
  <2>6. c.op = b.op /\ c.st = b.st
    BY <2>2, <2>3, <2>4 DEF Thread
  <2> QED
    BY <2>2, <2>5, <2>6
<1> HIDE DEF c
<1>2. thr[t] = S!Idle /\ S!Set(t, c) /\ ilock = None /\ ilock' = t
  BY DEF S!fuse_direct_write, S!inode_lock, c
<1>3. Plain(t, c)
  BY <1>1, <1>2, SizeTypes, SetSteps, IdleFields
     DEF S!fuse_direct_write, Plain, Locks, Truncator, LocksMove
<1>4. Keeps(thr[t], c, valid')
  BY <1>1, <1>2, IdleFields DEF Keeps, Attr, ShortRead
<1> QED
  BY <1>3, <1>4, Quiet DEF S!fuse_direct_write

LEMMA SizeFill ==
    ASSUME SizeInv, NEW t \in Callers, S!fuse_fill_write_pages(t)
    PROVE  SizeInv'
<1>0. /\ thr[t] \in Thread /\ thr[t].op \in Writes /\ ilock = t /\ thr[t].st = "fill"
  BY SizeTypes, WriteHolds DEF S!fuse_fill_write_pages
<1>1. ASSUME NEW c \in Thread, S!Set(t, c), c.op = thr[t].op, c.res = thr[t].res,
             c.st \in {"sent", "end"}
      PROVE  SizeInv'
  <2>1. Plain(t, c)
    BY <1>0, <1>1, SizeTypes, SetSteps
       DEF S!fuse_fill_write_pages, Plain, Locks, Truncator, LocksMove, Writes
  <2>2. Keeps(thr[t], c, valid')
    BY <1>0, <1>1 DEF Keeps, Attr, ShortRead, Grew, Dirty, Writes
  <2> QED
    BY <2>1, <2>2, Quiet DEF S!fuse_fill_write_pages
<1>2. ASSUME NEW k \in 1..thr[t].left, S!Set(t, [thr[t] EXCEPT !.st = "sent", !.k = k])
      PROVE  SizeInv'
  <2> DEFINE c == [thr[t] EXCEPT !.st = "sent", !.k = k]
  <2>1. c \in Thread /\ c.op = thr[t].op /\ c.res = thr[t].res /\ c.st = "sent"
    <3>1. k \in Int
      BY SizeTypes
    <3> QED
      BY <1>0, <3>1 DEF Thread
  <2> HIDE DEF c
  <2>2. S!Set(t, c)
    BY <1>2 DEF c
  <2> QED
    BY <1>1, <2>1, <2>2
<1>3. ASSUME S!Set(t, [thr[t] EXCEPT !.st = "end", !.got = -1])
      PROVE  SizeInv'
  <2> DEFINE c == Answered(thr[t], "end", -1)
  <2>1. c \in Thread /\ c.op = thr[t].op /\ c.res = thr[t].res /\ c.st = "end"
    <3>1. -1 \in Int /\ "end" \in States
      BY DEF States
    <3> QED
      BY <1>0, <3>1, AnsweredFields
  <2> HIDE DEF c
  <2>2. S!Set(t, c)
    BY <1>3 DEF c, Answered
  <2> QED
    BY <1>1, <2>1, <2>2
<1> QED
  BY <1>2, <1>3 DEF S!fuse_fill_write_pages

LEMMA LargerIs ==
    ASSUME NEW a \in Int, NEW b \in Int
    PROVE  /\ S!Larger(a, b) \in {a, b} /\ S!Larger(a, b) >= a /\ S!Larger(a, b) >= b
  BY DEF S!Larger

LEMMA SizeServeWrite ==
    ASSUME SizeInv, NEW t \in Callers, S!ServeWrite(t)
    PROVE  SizeInv'
<1>0. /\ thr[t] \in Thread /\ thr[t].op \in Writes /\ ilock = t /\ thr[t].st = "sent"
      /\ Locks(thr[t], aio.write)
  BY SizeTypes, WriteHolds DEF S!ServeWrite
<1>1. PICK w \in -1..thr[t].k :
         /\ S!Set(t, [thr[t] EXCEPT !.st = "served", !.got = w])
         /\ dsize' = IF w > 0 THEN S!Larger(dsize, thr[t].pos + w) ELSE dsize
  BY DEF S!ServeWrite
<1> DEFINE c == Answered(thr[t], "served", w)
<1>2. w \in Int
  BY SizeTypes
<1>3. /\ c \in Thread /\ c.op = thr[t].op /\ c.res = thr[t].res /\ c.st = "served" /\ c.got = w
  <2>1. "served" \in States
    BY DEF States
  <2> QED
    BY <1>0, <1>2, <2>1, AnsweredFields
<1>4. S!Set(t, c)
  BY <1>1 DEF Answered
<1> HIDE DEF c
<1>5. dsize' \in Nat
  BY <1>1, <1>2, SizeTypes, LargerIs
<1>6. Plain(t, c)
  BY <1>0, <1>3, <1>4, <1>5, SizeTypes, SetSteps
     DEF S!ServeWrite, Plain, Locks, Truncator, LocksMove, Writes
<1>7. CASE w > 0
  <2>1. Grew(c)
    BY <1>0, <1>3, <1>7 DEF Grew
  <2>2. c.op # "setattr"
    BY <1>0, <1>3 DEF Writes
  <2> QED
    BY <1>0, <1>6, <2>1, <2>2, Grow
<1>8. CASE ~(w > 0)
  <2>1. Keeps(thr[t], c, valid')
    BY <1>0, <1>3 DEF Keeps, Attr, ShortRead, Grew, Dirty, Writes
  <2>2. dsize' = dsize
    BY <1>1, <1>8
  <2> QED
    BY <1>6, <2>1, <2>2, Quiet DEF S!ServeWrite
<1> QED
  BY <1>7, <1>8

LEMMA SizeSendWrite ==
    ASSUME SizeInv, NEW t \in Callers, S!fuse_send_write(t)
    PROVE  SizeInv'
<1>0. /\ thr[t] \in Thread /\ thr[t].op \in Writes /\ ilock = t /\ thr[t].st = "served"
  BY SizeTypes, WriteHolds DEF S!fuse_send_write
<1> DEFINE w == IF thr[t].got < 0 THEN 0 ELSE thr[t].got
           s == IF thr[t].got = thr[t].k /\ thr[t].left > w THEN "fill" ELSE "end"
           c == [thr[t] EXCEPT !.res = @ + w, !.pos = @ + w, !.left = @ - w, !.st = s]
<1>1. /\ w \in Nat /\ s \in {"fill", "end"} /\ S!Set(t, c)
      /\ thr[t].got > 0 => w > 0
  BY SizeTypes DEF S!fuse_send_write
<1>2. /\ c \in Thread /\ c.op = thr[t].op /\ c.res = thr[t].res + w /\ c.st = s
  <2>1. c = [thr[t] EXCEPT !.res = thr[t].res + w, !.pos = thr[t].pos + w,
                           !.left = thr[t].left - w, !.st = s]
    OBVIOUS
  <2>2. thr[t].res + w \in Nat /\ thr[t].pos + w \in Nat /\ thr[t].left - w \in Int
    BY <1>1, SizeTypes
  <2> HIDE DEF c, s, w
  <2> QED
    BY <1>0, <1>1, <2>1, <2>2 DEF Thread
<1> HIDE DEF c, s, w
<1>3. Plain(t, c)
  BY <1>0, <1>1, <1>2, SizeTypes, SetSteps
     DEF S!fuse_send_write, Plain, Locks, Truncator, LocksMove, Writes
<1>4. Keeps(thr[t], c, valid')
  <2>1. thr[t].res > 0 \/ thr[t].got > 0 => c.res > 0
    BY <1>1, <1>2, SizeTypes
  <2> QED
    BY <1>0, <1>1, <1>2, <2>1 DEF Keeps, Attr, ShortRead, Grew, Dirty, Writes
<1> QED
  BY <1>3, <1>4, Quiet DEF S!fuse_send_write

LEMMA SizeWriteEnd ==
    ASSUME SizeInv, NEW t \in Callers, S!write_end(t)
    PROVE  SizeInv'
<1>0. /\ thr[t] \in Thread /\ thr[t].op \in Writes /\ ilock = t /\ thr[t].st = "end"
  BY SizeTypes, WriteHolds DEF S!write_end
<1> DEFINE c == IF thr[t].op = "dio" /\ thr[t].res > 0 /\ thr[t].left > 0
                THEN [thr[t] EXCEPT !.op = "write", !.st = "resume"]
                ELSE [thr[t] EXCEPT !.st = "clear"]
<1>1. /\ IF thr[t].res > 0 THEN S!fuse_write_update_size(t, thr[t].pos, c)
                           ELSE S!Set(t, c) /\ UNCHANGED isize
      /\ valid' = (valid /\ thr[t].op = "write")
      /\ UNCHANGED <<dsize, unstable, ilock, aio, raced>>
  BY DEF S!write_end
<1>2. /\ c \in Thread /\ c.op \in Writes /\ c.st \in {"resume", "clear"}
      /\ thr[t].op = "write" => c.op = "write"
  <2>1. CASE thr[t].op = "dio" /\ thr[t].res > 0 /\ thr[t].left > 0
    <3>1. c = [thr[t] EXCEPT !.op = "write", !.st = "resume"]
      BY <2>1
    <3> HIDE DEF c
    <3> QED
      BY <1>0, <2>1, <3>1 DEF Thread, Writes
  <2>2. CASE ~(thr[t].op = "dio" /\ thr[t].res > 0 /\ thr[t].left > 0)
    <3>1. c = [thr[t] EXCEPT !.st = "clear"]
      BY <2>2
    <3> HIDE DEF c
    <3> QED
      BY <1>0, <2>2, <3>1 DEF Thread, Writes
  <2> QED
    BY <2>1, <2>2
<1> HIDE DEF c
<1>3. ASSUME Steps(t, c), isize' \in Nat PROVE Plain(t, c)
  BY <1>0, <1>1, <1>2, <1>3, SizeTypes DEF Plain, Locks, Truncator, LocksMove, Writes
<1>4. CASE thr[t].res > 0
  <2>1. thr' = S!Bumped(t, c) /\ isize' = S!Larger(isize, thr[t].pos)
    BY <1>1, <1>4 DEF S!fuse_write_update_size
  <2>2. Steps(t, c) /\ isize' \in Nat
    BY <1>2, <2>1, SizeTypes, BumpSteps, LargerIs
  <2>3. ~raced /\ TrackInv /\ valid' /\ ~Dirty(c)
            /\ (\A u \in Callers : u # t => ~Dirty(thr[u])) => isize' = dsize
    BY <1>1, <1>2 DEF Dirty
  <2>4. \A u \in Callers : u # t => ~(thr[u].op = "aio" /\ thr[u].big)
    BY <1>0 DEF SizeInv, AioInv, LockInv, Locks
  <2>5. c.op \notin {"getattr", "read"} /\ ~(c.op = "setattr" /\ c.st = "served")
    BY <1>2 DEF Writes
  <2> QED
    BY <1>1, <1>3, <2>1, <2>2, <2>3, <2>4, <2>5, Bump
<1>5. CASE ~(thr[t].res > 0)
  <2>1. S!Set(t, c) /\ isize' = isize
    BY <1>1, <1>5
  <2>2. Plain(t, c)
    BY <1>2, <1>3, <2>1, SizeTypes, SetSteps
  <2>3. Keeps(thr[t], c, valid')
    BY <1>0, <1>2, <1>5 DEF Keeps, Attr, ShortRead, Grew, Dirty, Writes
  <2> QED
    BY <1>1, <2>1, <2>2, <2>3, Quiet, SizeTypes
<1> QED
  BY <1>4, <1>5

LEMMA SizeResume ==
    ASSUME SizeInv, NEW t \in Callers, S!write_resume(t)
    PROVE  SizeInv'
<1> DEFINE c == [thr[t] EXCEPT !.st = "fill", !.res = 0]
<1>0. /\ thr[t] \in Thread /\ thr[t].op = "write" /\ thr[t].st = "resume" /\ S!Set(t, c)
      /\ ilock = t
  BY SizeTypes, WriteHolds DEF S!write_resume, S!At, S!Writing
<1>1. c \in Thread /\ c.op = "write" /\ c.st = "fill"
  BY <1>0 DEF Thread
<1> HIDE DEF c
<1>3. Plain(t, c)
  BY <1>0, <1>1, SizeTypes, SetSteps
     DEF S!write_resume, Plain, Locks, Truncator, LocksMove, Writes
<1>4. Keeps(thr[t], c, valid')
  BY <1>0, <1>1 DEF Keeps, Attr, ShortRead, Grew, Dirty, Writes
<1> QED
  BY <1>3, <1>4, Quiet DEF S!write_resume

(* The truncation after a failed direct write.                             *)
LEMMA UndoFields ==
    ASSUME NEW n \in Nat
    PROVE  LET c == [S!Idle EXCEPT !.op = "setattr", !.st = "begin", !.pos = n, !.big = TRUE]
           IN  c \in Thread /\ c.op = "setattr" /\ c.st = "begin" /\ c.pos = n /\ c.big = TRUE
<1> DEFINE b == S!Idle
           c == [b EXCEPT !.op = "setattr", !.st = "begin", !.pos = n, !.big = TRUE]
<1>1. b \in Thread
  BY IdleFields
<1> HIDE DEF b
<1>2. c \in Thread /\ c.op = "setattr" /\ c.st = "begin" /\ c.pos = n /\ c.big = TRUE
  BY <1>1 DEF Thread
<1> QED
  BY <1>2 DEF b

LEMMA SizeClear ==
    ASSUME SizeInv, NEW t \in Callers, S!write_clear(t)
    PROVE  SizeInv'
<1>0. /\ thr[t] \in Thread /\ thr[t].op \in Writes /\ ilock = t /\ thr[t].st = "clear"
      /\ valid' = (valid /\ thr[t].op # "write")
  BY SizeTypes, WriteHolds DEF S!write_clear
<1> DEFINE undo == thr[t].op = "dio" /\ thr[t].res = 0 /\ thr[t].got < 0 /\ thr[t].big
           c == [S!Idle EXCEPT !.op = "setattr", !.st = "begin", !.pos = isize, !.big = TRUE]
<1>1. CASE undo
  <2>1. c \in Thread /\ c.op = "setattr" /\ c.st = "begin" /\ c.big = TRUE
    BY SizeTypes, UndoFields
  <2>2. S!Set(t, c) /\ ilock' = ilock
    BY <1>1 DEF S!write_clear
  <2> HIDE DEF c
  <2>3. Plain(t, c)
    BY <1>0, <2>1, <2>2, SizeTypes, SetSteps
       DEF S!write_clear, Plain, Locks, Truncator, LocksMove, Writes
  <2>4. Keeps(thr[t], c, valid')
    BY <1>0, <2>1 DEF Keeps, Attr, ShortRead, Grew, Dirty, Writes
  <2> QED
    BY <1>0, <2>3, <2>4, Quiet DEF S!write_clear
<1>2. CASE ~undo
  <2>2. S!Set(t, S!Idle) /\ ilock' = None
    BY <1>2 DEF S!write_clear
  <2>3. Plain(t, S!Idle)
    BY <1>0, <2>2, SizeTypes, SetSteps, IdleFields
       DEF S!write_clear, Plain, LocksMove, Writes
  <2>4. Keeps(thr[t], S!Idle, valid')
    BY <1>0, IdleFields DEF Keeps, Grew, Dirty, Writes
  <2> QED
    BY <1>0, <2>3, <2>4, Quiet DEF S!write_clear
<1> QED
  BY <1>1, <1>2

-----------------------------------------------------------------------------
(* SETATTR, fallocate and open with O_TRUNC.                               *)
LEMMA SizeSetattr ==
    ASSUME SizeInv, NEW t \in Callers, NEW n \in Nat, NEW truncate \in BOOLEAN,
           S!fuse_setattr(t, n, truncate)
    PROVE  SizeInv'
<1> DEFINE left == IF truncate THEN 1 ELSE 0
           c == [S!Idle EXCEPT !.op = "setattr", !.st = "sent", !.pos = n, !.left = left]
<1>1. c \in Thread /\ c.op = "setattr" /\ c.st = "sent"
  <2> DEFINE b == S!Idle
  <2>1. c = [b EXCEPT !.op = "setattr", !.st = "sent", !.pos = n, !.left = left]
        /\ left \in Int /\ b \in Thread
    BY IdleFields
  <2> HIDE DEF b, c, left
  <2> QED
    BY <2>1 DEF Thread
<1>2. thr[t] = S!Idle /\ S!Set(t, c) /\ ilock = None /\ ilock' = t /\ S!Races("setattr")
  BY DEF S!fuse_setattr, S!inode_lock
<1> HIDE DEF c
<1>3. Plain(t, c)
  BY <1>1, <1>2, SizeTypes, SetSteps, IdleFields, RacesMean
     DEF S!fuse_setattr, Plain, Locks, LocksMove, Writes
<1>4. Keeps(thr[t], c, valid')
  BY <1>1, <1>2, IdleFields DEF Keeps, Attr, ShortRead
<1> QED
  BY <1>3, <1>4, Quiet DEF S!fuse_setattr

Sized(a, at, left) == [a EXCEPT !.st = at, !.left = left]
LEMMA SizedFields ==
    ASSUME NEW a \in Thread, NEW at \in States, NEW left \in Int
    PROVE  LET c == Sized(a, at, left)
           IN  c \in Thread /\ c.op = a.op /\ c.st = at /\ c.big = a.big
  BY DEF Sized, Thread, States

LEMMA SizeTruncate ==
    ASSUME SizeInv, NEW t \in Callers, S!fuse_do_truncate(t)
    PROVE  SizeInv'
<1> DEFINE c == Sized(thr[t], "sent", 1)
<1>0. /\ thr[t] \in Thread /\ thr[t].op = "setattr" /\ thr[t].st = "begin" /\ S!Set(t, c)
      /\ ilock = t /\ S!Races("setattr")
  BY SizeTypes DEF S!fuse_do_truncate, S!At, SizeInv, LockInv, Locks, Sized
<1>1. c \in Thread /\ c.op = "setattr" /\ c.st = "sent" /\ c.big = thr[t].big
  <2>1. "sent" \in States /\ 1 \in Int
    BY DEF States
  <2> QED
    BY <1>0, <2>1, SizedFields
<1> HIDE DEF c
<1>3. Plain(t, c)
  BY <1>0, <1>1, SizeTypes, SetSteps, RacesMean
     DEF S!fuse_do_truncate, Plain, Locks, LocksMove, Writes
<1>4. Keeps(thr[t], c, valid')
  BY <1>0, <1>1 DEF Keeps, Attr, ShortRead, Grew, Dirty, Writes
<1> QED
  BY <1>3, <1>4, Quiet DEF S!fuse_do_truncate

LEMMA SizeServeSetattr ==
    ASSUME SizeInv, NEW t \in Callers, S!ServeSetattr(t)
    PROVE  SizeInv'
<1>0. /\ thr[t] \in Thread /\ thr[t].op = "setattr" /\ thr[t].st = "sent"
      /\ ilock = t /\ Locks(thr[t], aio.write) /\ Truncator(thr[t])
  BY SizeTypes DEF S!ServeSetattr, S!At, SizeInv, LockInv, Locks, Truncator
<1>1. ASSUME NEW got \in Int
      PROVE  LET c == Answered(thr[t], "served", got)
             IN  c \in Thread /\ c.op = "setattr" /\ c.st = "served" /\ c.got = got
                 /\ c.big = thr[t].big
  <2>1. "served" \in States
    BY DEF States
  <2> QED
    BY <1>0, <2>1, AnsweredFields
<1>2. ASSUME dsize' = IF thr[t].left = 1 THEN thr[t].pos ELSE dsize,
             S!Set(t, [thr[t] EXCEPT !.st = "served", !.got = dsize']), raced' = raced
      PROVE  SizeInv'
  <2>1. dsize' \in Nat
    BY <1>2, SizeTypes
  <2>2. PICK d \in Nat : d = dsize'
    BY <2>1
  <2> DEFINE c == Answered(thr[t], "served", d)
  <2>3. c \in Thread /\ c.op = "setattr" /\ c.st = "served" /\ c.got = dsize'
    BY <1>1, <2>2
  <2>4. S!Set(t, c)
    BY <1>2, <2>2 DEF Answered
  <2> HIDE DEF c
  <2>5. Plain(t, c)
    BY <1>0, <1>2, <2>1, <2>3, <2>4, SizeTypes, SetSteps
       DEF S!ServeSetattr, Plain, Locks, LocksMove
  <2>6. Grew(c)
    BY <2>1, <2>3 DEF Grew
  <2> QED
    BY <1>0, <2>3, <2>5, <2>6, Grow
<1>3. ASSUME S!Set(t, [thr[t] EXCEPT !.st = "served", !.got = -1]),
             raced' = (raced \/ thr[t].big), dsize' = dsize
      PROVE  SizeInv'
  <2> DEFINE c == Answered(thr[t], "served", -1)
  <2>1. c \in Thread /\ c.op = "setattr" /\ c.st = "served" /\ c.got = -1 /\ c.big = thr[t].big
    BY <1>1
  <2>2. S!Set(t, c)
    BY <1>3 DEF Answered
  <2> HIDE DEF c
  <2>3. Plain(t, c)
    BY <1>0, <1>3, <2>1, <2>2, SizeTypes, SetSteps
       DEF S!ServeSetattr, Plain, Locks, LocksMove
  <2>4. raced' \/ Keeps(thr[t], c, valid')
    <3>1. CASE thr[t].big
      BY <1>3, <3>1
    <3>2. CASE ~thr[t].big
      BY <1>0, <2>1, <3>2 DEF Keeps, Attr, ShortRead, Grew, Dirty, Writes
    <3> QED
      BY <3>1, <3>2
  <2> QED
    BY <1>3, <2>3, <2>4, Quiet DEF S!ServeSetattr
<1> QED
  BY <1>2, <1>3 DEF S!ServeSetattr

LEMMA SizeDoSetattr ==
    ASSUME SizeInv, NEW t \in Callers, S!fuse_do_setattr(t)
    PROVE  SizeInv'
<1> DEFINE c == Moved(thr[t], "clear")
<1>0. /\ thr[t] \in Thread /\ thr[t].op = "setattr" /\ thr[t].st = "served"
      /\ ilock = t /\ Truncator(thr[t])
  BY SizeTypes DEF S!fuse_do_setattr, S!At, SizeInv, LockInv, Locks, Truncator
<1>1. c \in Thread /\ c.op = "setattr" /\ c.st = "clear"
  <2>1. "clear" \in States
    BY DEF States
  <2> QED
    BY <1>0, <2>1, MovedFields
<1>2. CASE thr[t].got >= 0
  <2>1. thr' = S!Bumped(t, c) /\ isize' = thr[t].got /\ valid' = TRUE
    BY <1>2 DEF S!fuse_do_setattr, Moved
  <2> HIDE DEF c
  <2>2. Plain(t, c)
    BY <1>0, <1>1, <1>2, <2>1, SizeTypes, BumpSteps
       DEF S!fuse_do_setattr, Plain, Locks, LocksMove
  <2>3. ~raced /\ TrackInv => thr[t].got = dsize
    BY <1>0, <1>2 DEF TrackInv
  <2>4. \A u \in Callers : u # t => ~(thr[u].op = "aio" /\ thr[u].big)
    BY <1>0 DEF SizeInv, AioInv, LockInv, Locks
  <2>5. dsize' = dsize
    BY DEF S!fuse_do_setattr
  <2> QED
    BY <1>1, <2>1, <2>2, <2>3, <2>4, <2>5, Bump
<1>3. CASE ~(thr[t].got >= 0)
  <2>1. S!Set(t, c) /\ isize' = isize /\ valid' = valid
    BY <1>3 DEF S!fuse_do_setattr, Moved
  <2> HIDE DEF c
  <2>2. Plain(t, c)
    BY <1>0, <1>1, <2>1, SizeTypes, SetSteps
       DEF S!fuse_do_setattr, Plain, Locks, LocksMove
  <2>3. Keeps(thr[t], c, valid')
    BY <1>0, <1>1, <1>3 DEF Keeps, Attr, ShortRead, Grew, Dirty, Writes
  <2> QED
    BY <2>1, <2>2, <2>3, Quiet DEF S!fuse_do_setattr
<1> QED
  BY <1>2, <1>3

LEMMA SizeSetattrClear ==
    ASSUME SizeInv, NEW t \in Callers, S!setattr_clear(t)
    PROVE  SizeInv'
<1>0. /\ thr[t] \in Thread /\ thr[t].op = "setattr" /\ thr[t].st = "clear" /\ ilock = t
      /\ S!Set(t, S!Idle) /\ ilock' = None
  BY SizeTypes DEF S!setattr_clear, S!At, SizeInv, LockInv, Locks
<1>1. Plain(t, S!Idle)
  BY <1>0, SizeTypes, SetSteps, IdleFields DEF S!setattr_clear, Plain, LocksMove
<1>2. Keeps(thr[t], S!Idle, valid')
  BY <1>0, IdleFields DEF Keeps, Grew, Dirty, Writes
<1> QED
  BY <1>1, <1>2, Quiet DEF S!setattr_clear

LEMMA SizeFallocate ==
    ASSUME SizeInv, NEW t \in Callers, NEW n \in Nat, S!fuse_file_fallocate(t, n)
    PROVE  SizeInv'
<1> DEFINE c == [S!Idle EXCEPT !.op = "fallocate", !.st = "sent", !.pos = n]
<1>1. c \in Thread /\ c.op = "fallocate" /\ c.st = "sent" /\ c.got = 0
  <2> DEFINE b == S!Idle
  <2>1. c = [b EXCEPT !.op = "fallocate", !.st = "sent", !.pos = n] /\ b \in Thread
        /\ b.got = 0
    BY IdleFields DEF S!Idle
  <2> HIDE DEF b, c
  <2> QED
    BY <2>1 DEF Thread
<1>2. thr[t] = S!Idle /\ S!Set(t, c) /\ ilock = None /\ ilock' = t
  BY DEF S!fuse_file_fallocate, S!inode_lock
<1> HIDE DEF c
<1>3. Plain(t, c)
  BY <1>1, <1>2, SizeTypes, SetSteps, IdleFields
     DEF S!fuse_file_fallocate, Plain, Locks, LocksMove, Truncator
<1>4. Keeps(thr[t], c, valid')
  BY <1>1, <1>2, IdleFields DEF Keeps, Attr, ShortRead
<1> QED
  BY <1>3, <1>4, Quiet DEF S!fuse_file_fallocate

LEMMA SizeServeFallocate ==
    ASSUME SizeInv, NEW t \in Callers, S!ServeFallocate(t)
    PROVE  SizeInv'
<1>0. /\ thr[t] \in Thread /\ thr[t].op = "fallocate" /\ thr[t].st = "sent" /\ ilock = t
      /\ Locks(thr[t], aio.write)
  BY SizeTypes DEF S!ServeFallocate, S!At, SizeInv, LockInv, Locks
<1>s. "served" \in States /\ -1 \in Int
  BY DEF States
<1>1. ASSUME NEW c \in Thread, c.op = "fallocate", c.st = "served", S!Set(t, c), dsize' \in Nat
      PROVE  Plain(t, c)
  BY <1>0, <1>1, SizeTypes, SetSteps
     DEF S!ServeFallocate, Plain, Locks, LocksMove, Truncator
<1>2. ASSUME dsize' = S!Larger(dsize, thr[t].pos), S!Set(t, [thr[t] EXCEPT !.st = "served"])
      PROVE  SizeInv'
  <2> DEFINE c == Moved(thr[t], "served")
  <2>1. c \in Thread /\ c.op = "fallocate" /\ c.st = "served" /\ c.got = thr[t].got
    BY <1>0, <1>s, MovedFields
  <2>2. S!Set(t, c)
    BY <1>2 DEF Moved
  <2> HIDE DEF c
  <2>3. dsize' \in Nat
    BY <1>2, SizeTypes, LargerIs
  <2>4. Plain(t, c)
    BY <1>1, <2>1, <2>2, <2>3
  <2>5. Grew(c)
    BY <1>0, <2>1, SizeTypes DEF Grew
  <2> QED
    BY <1>0, <2>1, <2>4, <2>5, Grow
<1>3. ASSUME dsize' = dsize, S!Set(t, [thr[t] EXCEPT !.st = "served", !.got = -1])
      PROVE  SizeInv'
  <2> DEFINE c == Answered(thr[t], "served", -1)
  <2>1. c \in Thread /\ c.op = "fallocate" /\ c.st = "served" /\ c.got = -1
    BY <1>0, <1>s, AnsweredFields
  <2>2. S!Set(t, c)
    BY <1>3 DEF Answered
  <2> HIDE DEF c
  <2>3. Plain(t, c)
    BY <1>1, <1>3, <2>1, <2>2, SizeTypes
  <2>4. Keeps(thr[t], c, valid')
    BY <1>0, <2>1 DEF Keeps, Attr, ShortRead, Grew, Dirty, Writes
  <2> QED
    BY <1>3, <2>3, <2>4, Quiet DEF S!ServeFallocate
<1> QED
  BY <1>2, <1>3 DEF S!ServeFallocate

LEMMA SizeFallocateDone ==
    ASSUME SizeInv, NEW t \in Callers, S!fallocate_done(t)
    PROVE  SizeInv'
<1>0. /\ thr[t] \in Thread /\ thr[t].op = "fallocate" /\ thr[t].st = "served" /\ ilock = t
      /\ ilock' = None /\ dsize' = dsize /\ aio' = aio /\ raced' = raced
  BY SizeTypes DEF S!fallocate_done, S!At, SizeInv, LockInv, Locks
<1>1. CASE thr[t].got = 0
  <2>1. thr' = S!Bumped(t, S!Idle) /\ isize' = S!Larger(isize, thr[t].pos) /\ valid' = FALSE
    BY <1>1 DEF S!fallocate_done, S!fuse_write_update_size
  <2>2. Steps(t, S!Idle) /\ isize' \in Nat
    BY <2>1, SizeTypes, IdleFields, BumpSteps, LargerIs
  <2>3. Plain(t, S!Idle)
    BY <1>0, <2>1, <2>2, SizeTypes, IdleFields DEF Plain, LocksMove
  <2> QED
    BY <1>0, <2>1, <2>3, IdleFields, Bump
<1>2. CASE thr[t].got # 0
  <2>1. S!Set(t, S!Idle) /\ isize' = isize /\ valid' = valid
    BY <1>2 DEF S!fallocate_done
  <2>2. Plain(t, S!Idle)
    BY <1>0, <2>1, SizeTypes, SetSteps, IdleFields DEF Plain, LocksMove
  <2>3. Keeps(thr[t], S!Idle, valid')
    BY <1>0, <1>2, IdleFields DEF Keeps, Grew, Dirty, Writes
  <2> QED
    BY <1>0, <2>1, <2>2, <2>3, Quiet
<1> QED
  BY <1>1, <1>2

LEMMA SizeOpen ==
    ASSUME SizeInv, NEW t \in Callers, S!fuse_open_common(t)
    PROVE  SizeInv'
<1> DEFINE c == [S!Idle EXCEPT !.op = "open", !.st = "sent"]
<1>1. c \in Thread /\ c.op = "open" /\ c.st = "sent"
  <2> DEFINE b == S!Idle
  <2>1. c = [b EXCEPT !.op = "open", !.st = "sent"] /\ b \in Thread
    BY IdleFields
  <2> HIDE DEF b, c
  <2> QED
    BY <2>1 DEF Thread
<1>2. thr[t] = S!Idle /\ S!Set(t, c) /\ S!Races("open")
  BY DEF S!fuse_open_common
<1> HIDE DEF c
<1>3. Plain(t, c)
  BY <1>1, <1>2, SizeTypes, SetSteps, IdleFields, RacesMean
     DEF S!fuse_open_common, Plain, Locks, LocksMove, Truncator, Writes
<1>4. Keeps(thr[t], c, valid')
  BY <1>1, <1>2, IdleFields DEF Keeps, Attr, ShortRead
<1> QED
  BY <1>3, <1>4, Quiet DEF S!fuse_open_common

LEMMA SizeServeOpen ==
    ASSUME SizeInv, NEW t \in Callers, S!ServeOpen(t)
    PROVE  SizeInv'
<1>0. thr[t] \in Thread /\ thr[t].op = "open" /\ thr[t].st = "sent"
  BY SizeTypes DEF S!ServeOpen, S!At
<1>1. ASSUME S!Set(t, [thr[t] EXCEPT !.st = "served"]), dsize' = 0
      PROVE  SizeInv'
  <2> DEFINE c == Moved(thr[t], "served")
  <2>1. c \in Thread /\ c.op = "open" /\ c.st = "served"
    <3>1. "served" \in States
      BY DEF States
    <3> QED
      BY <1>0, <3>1, MovedFields
  <2>2. S!Set(t, c)
    BY <1>1 DEF Moved
  <2> HIDE DEF c
  <2>3. Plain(t, c)
    BY <1>0, <1>1, <2>1, <2>2, SizeTypes, SetSteps
       DEF S!ServeOpen, Plain, Locks, LocksMove, Truncator, Writes
  <2>4. Grew(c)
    BY <2>1 DEF Grew
  <2> QED
    BY <1>0, <2>1, <2>3, <2>4, Grow
<1>2. ASSUME S!Set(t, S!Idle), dsize' = dsize
      PROVE  SizeInv'
  <2>1. Plain(t, S!Idle)
    BY <1>0, <1>2, SizeTypes, SetSteps, IdleFields DEF S!ServeOpen, Plain, LocksMove
  <2>2. Keeps(thr[t], S!Idle, valid')
    BY <1>0, IdleFields DEF Keeps, Grew, Dirty, Writes
  <2> QED
    BY <1>2, <2>1, <2>2, Quiet DEF S!ServeOpen
<1> QED
  BY <1>1, <1>2 DEF S!ServeOpen

LEMMA SizeFinishOpen ==
    ASSUME SizeInv, NEW t \in Callers, S!fuse_finish_open(t)
    PROVE  SizeInv'
<1>0. /\ thr[t] \in Thread /\ thr[t].op = "open" /\ thr[t].st = "served"
      /\ isize' = 0 /\ valid' = FALSE /\ thr' = S!Bumped(t, S!Idle)
      /\ dsize' = dsize /\ aio' = aio /\ raced' = raced /\ ilock' = ilock
  BY SizeTypes DEF S!fuse_finish_open, S!At
<1>1. Plain(t, S!Idle)
  BY <1>0, SizeTypes, BumpSteps, IdleFields DEF Plain, LocksMove
<1> QED
  BY <1>0, <1>1, IdleFields, Bump

-----------------------------------------------------------------------------
(* The steps of a direct I/O: its submitter's first.                       *)
LEMMA IoLive ==
    ASSUME NEW o \in Io, NEW p, IoOk(o, p), p # "gone"
    PROVE  o.st = "live"
<1>1. o.st # "none" /\ p \in {"submit", "submitted", "wait"} /\ o.reqs \in Int /\ o.ref \in Int
  BY DEF IoOk, Io
<1>2. /\ o.reqs = (IF Submitting(p) THEN 1 ELSE 0) + Waiting(o, 1) + Waiting(o, 2)
      /\ o.ref = o.reqs + (IF o.blocking /\ p # "gone" THEN 1 ELSE 0)
      /\ p = "wait" => o.blocking
      /\ o.st = "live" <=> o.ref > 0
  BY <1>1 DEF IoOk
<1>3. Waiting(o, 1) \in {0, 1} /\ Waiting(o, 2) \in {0, 1}
  BY DEF Waiting
<1>4. p = "wait" \/ Submitting(p)
  BY <1>1 DEF Submitting
<1>5. o.ref > 0
  BY <1>1, <1>2, <1>3, <1>4
<1> QED
  BY <1>2, <1>5

LEMMA AioHolds ==
    ASSUME SizeInv, NEW t \in Callers, thr[t].op = "aio"
    PROVE  /\ thr[t] \in Thread /\ thr[t].st # "gone" /\ IoOk(aio, Phase(thr[t].st, aio))
           /\ aio \in Io /\ (Phase(thr[t].st, aio) = "gone" \/ aio.st = "live")
           /\ aio.write => ilock = t
           /\ thr[t].big => aio.write /\ aio.blocking
<1>1. thr[t] \in Thread /\ aio \in Io /\ IoOk(aio, Phase(thr[t].st, aio))
  BY SizeTypes DEF SizeInv, AioInv
<1>2. thr[t].st # "gone"
  BY <1>1 DEF Thread
<1> QED
  BY <1>1, <1>2, IoLive DEF SizeInv, AioInv, LockInv, Locks

LEMMA AioQuiet ==
    ASSUME SizeInv, NEW t \in Callers, NEW c \in Thread, Steps(t, c), thr[t].op = "aio",
           aio' \in Io, AioGoesOn, aio'.blocking = aio.blocking,
           IF c.op = "aio" THEN IoOk(aio', Phase(c.st, aio')) /\ c.big = thr[t].big
                           ELSE IoOk(aio', "gone"),
           c.op \in {"aio", "none"} \/ (c.op = "setattr" /\ c.st = "begin"),
           Grew(thr[t]) => Grew(c),
           dsize' = dsize, isize' = isize, valid' \in BOOLEAN, valid' => valid, raced' = raced,
           LocksMove(t), Locks(c, aio'.write) => ilock' = t
    PROVE  SizeInv'
<1>1. SizeType'
  <2>1. thr' \in [Callers -> Thread]
    BY DEF Steps
  <2>2. \A u \in Callers : /\ thr'[u].op = "getattr" => thr'[u].got >= 0
                           /\ thr'[u].op = "fallocate" /\ thr'[u].st = "sent" => thr'[u].got = 0
    <3> SUFFICES ASSUME NEW u \in Callers
                 PROVE  /\ thr'[u].op = "getattr" => thr'[u].got >= 0
                        /\ thr'[u].op = "fallocate" /\ thr'[u].st = "sent" => thr'[u].got = 0
      OBVIOUS
    <3>1. CASE u = t
      BY <3>1 DEF Steps
    <3>2. CASE u # t
      <4>1. thr'[u].op = thr[u].op /\ thr'[u].got = thr[u].got /\ thr'[u].st = thr[u].st
        BY <3>2, SameFields DEF Steps, SizeInv, SizeType
      <4> QED
        BY <4>1 DEF SizeInv, SizeType
    <3> QED
      BY <3>1, <3>2
  <2> QED
    BY <2>1, <2>2 DEF SizeInv, SizeType
<1>2. AioInv'
  BY AioStep DEF SizeInv, SizeType, AioGoesOn
<1>3. LockInv'
  <2>1. thr \in [Callers -> Thread] /\ LockInv /\ aio'.write = aio.write /\ (raced => raced')
    BY DEF SizeInv, SizeType, AioGoesOn
  <2>2. c.op # "open" /\ Truncator(thr[t])
    BY DEF Truncator
  <2> QED
    BY <2>1, <2>2, LockStep
<1>4. raced' \/ TrackInv'
  <2> SUFFICES ASSUME TrackInv PROVE TrackInv'
    BY DEF SizeInv
  <2>1. Keeps(thr[t], c, valid')
    <3>1. Dirty(thr[t]) => Dirty(c)
      BY DEF Dirty
    <3>2. ~Attr(c) /\ ~ShortRead(c)
      BY DEF Attr, ShortRead
    <3>3. ~(c.op = "setattr" /\ c.st = "served")
      OBVIOUS
    <3> QED
      BY <3>1, <3>2, <3>3 DEF Keeps
  <2>2. \A u \in Callers : Keeps(thr[u], thr'[u], valid')
    <3> SUFFICES ASSUME NEW u \in Callers PROVE Keeps(thr[u], thr'[u], valid')
      OBVIOUS
    <3>1. CASE u = t
      BY <2>1, <3>1 DEF Steps
    <3>2. CASE u # t
      BY <3>2, SameKeeps DEF Steps, SizeInv, SizeType
    <3> QED
      BY <3>1, <3>2
  <2> QED
    BY <1>1, <2>2, QuietTrack DEF SizeInv
<1> QED
  BY <1>1, <1>2, <1>3, <1>4 DEF SizeInv

LEMMA SizeAioSend ==
    ASSUME SizeInv, NEW t \in Callers, S!fuse_async_req_send(t)
    PROVE  SizeInv'
<1>0. /\ thr[t].op = "aio" /\ thr[t].st = "submit"
      /\ dsize' = dsize /\ isize' = isize /\ valid' = valid /\ ilock' = ilock /\ raced' = raced
  BY DEF S!fuse_async_req_send, S!At
<1>1. /\ thr[t] \in Thread /\ aio \in Io /\ IoOk(aio, "submit") /\ (aio.write => ilock = t)
      /\ thr \in [Callers -> Thread] /\ valid \in BOOLEAN
  <2>1. thr \in [Callers -> Thread] /\ valid \in BOOLEAN
    BY SizeTypes
  <2>2. /\ thr[t] \in Thread /\ IoOk(aio, Phase(thr[t].st, aio)) /\ aio \in Io /\ (aio.write => ilock = t)
        /\ (thr[t].big => aio.write /\ aio.blocking)
    <3>1. thr[t].op = "aio"
      BY <1>0
    <3> QED
      BY <3>1, AioHolds
  <2> QED
    BY <1>0, <2>1, <2>2 DEF Phase
<1>2. LocksMove(t) /\ (Locks(thr[t], aio.write) => ilock' = t)
  BY <1>0, <1>1 DEF LocksMove, Locks, Writes
<1>3. ASSUME aio.size < aio.n, thr' = thr,
             aio' = [aio EXCEPT !.ref = @ + 1, !.size = @ + 1, !.reqs = @ + 1,
                                !.out[aio.size + 1] = "sent"]
      PROVE  SizeInv'
  <2>1. /\ aio' \in Io /\ IoOk(aio', "submit") /\ aio'.write = aio.write /\ aio'.pos = aio.pos
        /\ aio'.size = aio.size + 1 /\ aio'.blocking = aio.blocking
        /\ \A j \in 1..2 : aio'.out[j] = "ok" => aio.out[j] = "ok"
    <3>1. aio' = Sent(aio)
      BY <1>3 DEF Sent
    <3> QED
      BY <1>1, <1>3, <3>1, IoSend
  <2>2. AioGoesOn
    <3>1. aio.size \in Int
      BY <1>1 DEF Io
    <3> QED
      BY <2>1, <3>1 DEF AioGoesOn
  <2>3. Steps(t, thr[t])
    BY <1>1, <1>3 DEF Steps, Same
  <2>4. IoOk(aio', Phase(thr[t].st, aio'))
    BY <1>0, <2>1 DEF Phase
  <2> QED
    BY <1>0, <1>1, <1>2, <2>1, <2>2, <2>3, <2>4, AioQuiet
<1>4. ASSUME S!Set(t, [thr[t] EXCEPT !.st = "submitted"]),
             aio' = [aio EXCEPT !.failed = (aio.size = 0)]
      PROVE  SizeInv'
  <2> DEFINE c == Moved(thr[t], "submitted")
  <2>1. c \in Thread /\ c.op = "aio" /\ c.st = "submitted" /\ c.big = thr[t].big
    <3>1. "submitted" \in States
      BY DEF States
    <3> QED
      BY <1>0, <1>1, <3>1, MovedFields
  <2>2. S!Set(t, c)
    BY <1>4 DEF Moved
  <2> HIDE DEF c
  <2>3. /\ aio' \in Io /\ IoOk(aio', "submitted") /\ aio'.write = aio.write /\ aio'.pos = aio.pos
        /\ aio'.size = aio.size /\ aio'.blocking = aio.blocking /\ aio'.out = aio.out
    BY <1>1, <1>4, IoLoopEnd
  <2>4. AioGoesOn
    <3>1. aio.size \in Int
      BY <1>1 DEF Io
    <3> QED
      BY <2>3, <3>1 DEF AioGoesOn
  <2>5. Steps(t, c)
    BY <1>1, <2>1, <2>2, SetSteps
  <2>6. (Grew(thr[t]) => Grew(c)) /\ (Locks(c, aio'.write) => ilock' = t)
    BY <1>0, <1>1, <2>1, <2>3 DEF Grew, Locks, Writes
  <2>7. IoOk(aio', Phase(c.st, aio'))
    BY <2>1, <2>3 DEF Phase
  <2> QED
    BY <1>0, <1>1, <1>2, <2>1, <2>3, <2>4, <2>5, <2>6, <2>7, AioQuiet
<1> QED
  BY <1>3, <1>4 DEF S!fuse_async_req_send

LEMMA SizeAioSubmitted ==
    ASSUME SizeInv, NEW t \in Callers, S!aio_submitted(t)
    PROVE  SizeInv'
<1> DEFINE c == Moved(thr[t], "check")
<1>0. /\ thr[t].op = "aio" /\ thr[t].st = "submitted"
      /\ dsize' = dsize /\ isize' = isize /\ valid' = FALSE /\ raced' = raced
      /\ aio' = S!fuse_aio_complete(aio, aio.failed, -1)
      /\ S!AioBump(S!fuse_aio_complete(aio, aio.failed, -1), t, c)
      /\ ilock' = ilock
  BY DEF S!aio_submitted, S!At, Moved, S!AioBump
<1>1. /\ thr[t] \in Thread /\ aio \in Io /\ IoOk(aio, "submitted") /\ (aio.write => ilock = t)
      /\ thr \in [Callers -> Thread] /\ valid \in BOOLEAN
  <2>1. thr \in [Callers -> Thread] /\ valid \in BOOLEAN
    BY SizeTypes
  <2>2. /\ thr[t] \in Thread /\ IoOk(aio, Phase(thr[t].st, aio)) /\ aio \in Io
        /\ (aio.write => ilock = t)
    <3>1. thr[t].op = "aio"
      BY <1>0
    <3> QED
      BY <3>1, AioHolds
  <2> QED
    BY <1>0, <2>1, <2>2 DEF Phase
<1>2. c \in Thread /\ c.op = "aio" /\ c.st = "check" /\ c.big = thr[t].big
  <2>1. "check" \in States
    BY DEF States
  <2> QED
    BY <1>0, <1>1, <2>1, MovedFields
<1> HIDE DEF c
<1>3. Steps(t, c)
  BY <1>0, <1>1, <1>2, AioBumpSteps
<1>4. /\ aio' \in Io /\ IoOk(aio', IF aio.blocking THEN "wait" ELSE "gone")
      /\ aio'.write = aio.write /\ aio'.pos = aio.pos
      /\ aio'.size = aio.size /\ aio'.blocking = aio.blocking /\ aio'.out = aio.out
  BY <1>0, <1>1, IoSubmitted
<1>5. AioGoesOn
  <2>1. aio.size \in Int
    BY <1>1 DEF Io
  <2> QED
    BY <1>4, <2>1 DEF AioGoesOn
<1>6. IoOk(aio', Phase(c.st, aio'))
  BY <1>2, <1>4 DEF Phase
<1>7. /\ Grew(thr[t]) => Grew(c)
      /\ LocksMove(t)
      /\ Locks(c, aio'.write) => ilock' = t
  BY <1>0, <1>1, <1>2, <1>4 DEF Grew, LocksMove, Locks, Writes
<1> QED
  BY <1>0, <1>1, <1>2, <1>3, <1>4, <1>5, <1>6, <1>7, AioQuiet

(* The test of io->blocking: the io is not touched any more, or waited for. *)
LEMMA SizeAioCheck ==
    ASSUME SizeInv, NEW t \in Callers, S!aio_check(t)
    PROVE  SizeInv'
<1>0. /\ thr[t].op = "aio" /\ thr[t].st = "check"
      /\ dsize' = dsize /\ isize' = isize /\ valid' = valid /\ raced' = raced /\ aio' = aio
  BY DEF S!aio_check, S!At
<1>1. /\ thr[t] \in Thread /\ aio \in Io /\ IoOk(aio, Phase("check", aio))
      /\ (aio.write => ilock = t) /\ (thr[t].big => aio.write /\ aio.blocking)
      /\ thr \in [Callers -> Thread] /\ valid \in BOOLEAN
  <2>1. thr \in [Callers -> Thread] /\ valid \in BOOLEAN
    BY SizeTypes
  <2>2. /\ thr[t] \in Thread /\ IoOk(aio, Phase(thr[t].st, aio)) /\ aio \in Io
        /\ (aio.write => ilock = t) /\ (thr[t].big => aio.write /\ aio.blocking)
    <3>1. thr[t].op = "aio"
      BY <1>0
    <3> QED
      BY <3>1, AioHolds
  <2> QED
    BY <1>0, <2>1, <2>2
<1>2. AioGoesOn
  <2>1. aio.size \in Int
    BY <1>1 DEF Io
  <2> QED
    BY <1>0, <2>1 DEF AioGoesOn
<1>3. ASSUME S!Set(t, [thr[t] EXCEPT !.st = "wait"]), ilock' = ilock
      PROVE  SizeInv'
  <2> DEFINE c == Moved(thr[t], "wait")
  <2>1. c \in Thread /\ c.op = "aio" /\ c.st = "wait" /\ c.big = thr[t].big
    <3>1. "wait" \in States
      BY DEF States
    <3> QED
      BY <1>0, <1>1, <3>1, MovedFields
  <2>2. S!Set(t, c)
    BY <1>3 DEF Moved
  <2> HIDE DEF c
  <2>3. Steps(t, c)
    BY <1>1, <2>1, <2>2, SetSteps
  <2>4. IoOk(aio', Phase(c.st, aio'))
    BY <1>0, <1>1, <2>1 DEF Phase
  <2>5. /\ Grew(thr[t]) => Grew(c)
        /\ LocksMove(t)
        /\ Locks(c, aio'.write) => ilock' = t
    BY <1>0, <1>1, <1>3, <2>1 DEF Grew, LocksMove, Locks, Writes
  <2> QED
    BY <1>0, <1>1, <1>2, <2>1, <2>3, <2>4, <2>5, AioQuiet
<1>4. ASSUME ~aio.blocking, S!Set(t, S!Idle), ilock' = IF ilock = t THEN None ELSE ilock
      PROVE  SizeInv'
  <2>1. Steps(t, S!Idle)
    BY <1>1, <1>4, SetSteps, IdleFields
  <2>2. ~Grew(thr[t])
    BY <1>0, <1>1, <1>4 DEF Grew, Writes
  <2>3. IoOk(aio', "gone")
    BY <1>0, <1>1, <1>4 DEF Phase
  <2>4. LocksMove(t)
    BY <1>4 DEF LocksMove
  <2> QED
    BY <1>0, <1>1, <1>2, <2>1, <2>2, <2>3, <2>4, IdleFields, AioQuiet
<1> QED
  BY <1>3, <1>4 DEF S!aio_check

LEMMA SizeAioWait ==
    ASSUME SizeInv, NEW t \in Callers, S!aio_wait(t)
    PROVE  SizeInv'
<1> DEFINE r == S!fuse_get_res_by_io(aio)
           unlocked == ilock' = IF ilock = t THEN None ELSE ilock
           c == [S!Idle EXCEPT !.op = "setattr", !.st = "begin", !.pos = isize, !.big = TRUE]
<1>0. /\ thr[t].op = "aio" /\ thr[t].st = "wait" /\ aio.done
      /\ aio' = [aio EXCEPT !.ref = @ - 1, !.st = IF aio.ref = 1 THEN "freed" ELSE @,
                            !.ret = @ \cup {<<S!Cardinality(@), r>>}]
      /\ \/ /\ aio.write /\ r > 0
            /\ S!fuse_write_update_size(t, aio.pos + aio.size, S!Idle)
            /\ unlocked
         \/ /\ r < 0 /\ thr[t].big
            /\ S!Set(t, c)
            /\ UNCHANGED <<isize, ilock>>
         \/ /\ ~(aio.write /\ r > 0) /\ ~(r < 0 /\ thr[t].big)
            /\ S!Set(t, S!Idle)
            /\ unlocked
            /\ UNCHANGED isize
      /\ dsize' = dsize /\ valid' = valid /\ raced' = raced
  BY Zenon DEF S!aio_wait, S!At
<1>1. /\ thr[t] \in Thread /\ aio \in Io /\ IoOk(aio, "wait") /\ (aio.write => ilock = t)
      /\ (thr[t].big => aio.write)
      /\ thr \in [Callers -> Thread] /\ valid \in BOOLEAN /\ isize \in Nat /\ dsize \in Nat
  <2>1. thr \in [Callers -> Thread] /\ valid \in BOOLEAN /\ isize \in Nat /\ dsize \in Nat
    BY SizeTypes
  <2>2. /\ thr[t] \in Thread /\ IoOk(aio, Phase(thr[t].st, aio)) /\ aio \in Io
        /\ (aio.write => ilock = t)
        /\ (thr[t].big => aio.write /\ aio.blocking)
    <3>1. thr[t].op = "aio"
      BY <1>0
    <3> QED
      BY <3>1, AioHolds
  <2>3. aio.blocking
    <3>1. IoOk(aio, "gone") => ~aio.done \/ aio.blocking
      BY DEF IoOk
    <3> QED
      BY <1>0, <2>2, <3>1 DEF Phase
  <2> QED
    BY <1>0, <2>1, <2>2, <2>3 DEF Phase
<1>2. /\ aio' \in Io /\ IoOk(aio', "gone") /\ r \in Int
      /\ aio'.write = aio.write /\ aio'.pos = aio.pos /\ aio'.size = aio.size
      /\ aio'.out = aio.out
      /\ aio.write /\ r > 0 => aio.size \in 1..2 /\ \A j \in 1..aio.size : aio.out[j] = "ok"
      /\ aio.write => r # 0
  <2>1. aio' = Waited(aio)
    BY <1>0, Zenon DEF Waited
  <2> QED
    BY <1>0, <1>1, <2>1, IoWait
<1>3. aio'.blocking = aio.blocking
  BY <1>0, <1>1 DEF Io
<1>4. aio.size \in 0..2 /\ aio.pos \in Nat
  BY <1>1 DEF Io
<1>5. AioGoesOn
  BY <1>2, <1>4 DEF AioGoesOn
<1> HIDE DEF r
<1>6. unlocked => LocksMove(t)
  BY DEF LocksMove
<1>7. ASSUME aio.write, r > 0, S!fuse_write_update_size(t, aio.pos + aio.size, S!Idle), unlocked
      PROVE  SizeInv'
  <2>1. thr' = S!Bumped(t, S!Idle) /\ isize' = S!Larger(isize, aio.pos + aio.size)
    BY <1>7 DEF S!fuse_write_update_size
  <2>2. isize' \in Nat
    BY <1>1, <1>4, <2>1, LargerIs
  <2>3. /\ Steps(t, S!Idle)
        /\ \A u \in Callers : u # t => /\ Same(thr[u], thr'[u])
                                       /\ ~Attr(thr'[u]) /\ ~ShortRead(thr'[u])
    BY <1>1, <2>1, IdleFields, BumpSteps
  <2>4. SizeType'
    <3>1. \A u \in Callers : /\ thr'[u].op = "getattr" => thr'[u].got >= 0
                             /\ thr'[u].op = "fallocate" /\ thr'[u].st = "sent" => thr'[u].got = 0
      <4> SUFFICES ASSUME NEW u \in Callers
                   PROVE  /\ thr'[u].op = "getattr" => thr'[u].got >= 0
                          /\ thr'[u].op = "fallocate" /\ thr'[u].st = "sent" => thr'[u].got = 0
        OBVIOUS
      <4>1. CASE u = t
        BY <2>3, <4>1, IdleFields DEF Steps
      <4>2. CASE u # t
        <5>1. thr'[u].op = thr[u].op /\ thr'[u].got = thr[u].got /\ thr'[u].st = thr[u].st
          BY <2>3, <4>2, SameFields DEF SizeInv, SizeType
        <5> QED
          BY <5>1 DEF SizeInv, SizeType
      <4> QED
        BY <4>1, <4>2
    <3> QED
      BY <1>0, <1>2, <2>2, <2>3, <3>1 DEF SizeInv, SizeType, Steps
  <2>5. AioInv'
    BY <1>0, <1>1, <1>2, <1>3, <2>3, IdleFields, AioStep DEF SizeInv
  <2>6. LockInv'
    BY <1>0, <1>1, <1>2, <1>6, <1>7, <2>3, IdleFields, LockStep DEF SizeInv
  <2>7. ASSUME TrackInv PROVE TrackInv'
    <3>1. valid' /\ (\A u \in Callers : ~Dirty(thr'[u])) => isize' = dsize
      <4> SUFFICES ASSUME valid, \A u \in Callers : ~Dirty(thr'[u]) PROVE isize' = dsize
        BY <1>0
      <4>1. aio.out[aio.size] = "ok" /\ aio.size \in 1..2
        BY <1>2, <1>7
      <4>2. dsize >= aio.pos + aio.size
        BY <1>0, <1>7, <2>7, <4>1 DEF TrackInv
      <4>3. CASE thr[t].big
        <5>1. InRange(isize)
          BY <1>0, <2>7, <4>3 DEF TrackInv
        <5> QED
          BY <1>1, <1>4, <2>1, <4>2, <5>1 DEF InRange, S!Larger
      <4>4. CASE ~thr[t].big
        <5>1. ~Dirty(thr[t])
          BY <1>0, <4>4 DEF Dirty, Grew, Writes
        <5>2. \A u \in Callers : u # t => (Dirty(thr'[u]) <=> Dirty(thr[u]))
          BY <1>1, <2>3, SameFields
        <5>3. isize = dsize
          BY <2>7, <5>1, <5>2 DEF TrackInv
        <5> QED
          BY <1>1, <1>4, <2>1, <4>2, <5>3 DEF S!Larger
      <4> QED
        BY <4>3, <4>4
    <3>2. \A u \in Callers : u # t => ~(thr[u].op = "aio" /\ thr[u].big)
      BY <1>0 DEF SizeInv, AioInv
    <3>3. thr'[t] = S!Idle
      BY <2>3 DEF Steps
    <3> QED
      BY <1>0, <1>5, <2>3, <2>4, <2>7, <3>1, <3>2, <3>3, IdleFields, BumpTrack DEF SizeInv
  <2> QED
    BY <1>0, <2>4, <2>5, <2>6, <2>7 DEF SizeInv
<1>8. ASSUME r < 0, thr[t].big, S!Set(t, c), UNCHANGED <<isize, ilock>>
      PROVE  SizeInv'
  <2>1. c \in Thread /\ c.op = "setattr" /\ c.st = "begin" /\ c.big = TRUE
    BY <1>1, UndoFields
  <2> HIDE DEF c
  <2>2. Steps(t, c)
    BY <1>1, <1>8, <2>1, SetSteps
  <2>3. Grew(c) /\ LocksMove(t) /\ ilock' = t
    BY <1>1, <1>8, <2>1 DEF Grew, LocksMove
  <2>4. c.op # "aio"
    BY <2>1
  <2> QED
    BY <1>0, <1>1, <1>2, <1>3, <1>5, <1>8, <2>1, <2>2, <2>3, <2>4, AioQuiet
<1>9. ASSUME ~(aio.write /\ r > 0), ~(r < 0 /\ thr[t].big), S!Set(t, S!Idle), unlocked,
             UNCHANGED isize
      PROVE  SizeInv'
  <2>1. Steps(t, S!Idle) /\ S!Idle \in Thread
    BY <1>1, <1>9, SetSteps, IdleFields
  <2>2. ~thr[t].big
    BY <1>1, <1>2, <1>9
  <2>3. ~Grew(thr[t])
    BY <1>0, <2>2 DEF Grew, Writes
  <2>4. LocksMove(t)
    BY <1>6, <1>9
  <2> HIDE DEF unlocked
  <2> QED
    BY <1>0, <1>1, <1>2, <1>3, <1>5, <1>9, <2>1, <2>3, <2>4, IdleFields, AioQuiet
<1> QED
  BY <1>0, <1>7, <1>8, <1>9

(* The daemon and the answers, which no thread steps for.                  *)
LEMMA ReplyStep ==
    ASSUME SizeInv, \A u \in Callers : Same(thr[u], thr'[u]), thr' \in [Callers -> Thread],
           aio' \in Io, aio'.write = aio.write, aio'.blocking = aio.blocking,
           \A p : IoOk(aio, p) => IoOk(aio', p),
           dsize' \in Nat, isize' = isize, valid' = valid, ilock' = ilock,
           raced' \in BOOLEAN, raced => raced'
    PROVE  SizeType' /\ AioInv' /\ LockInv'
<1>0. \A u \in Callers : /\ thr'[u].op = thr[u].op /\ thr'[u].st = thr[u].st
                         /\ thr'[u].got = thr[u].got
  BY SameFields DEF SizeInv, SizeType
<1>1. SizeType'
  BY <1>0 DEF SizeInv, SizeType
<1>2. AioInv'
  BY AioReply DEF SizeInv, SizeType
<1>3. LockInv'
  BY <1>0 DEF SizeInv, LockInv, Locks
<1> QED
  BY <1>1, <1>2, <1>3

LEMMA SizeServeAio ==
    ASSUME SizeInv, NEW j \in 1..2, S!ServeAio(j)
    PROVE  SizeInv'
<1>0. /\ aio.out[j] = "sent" /\ isize' = isize /\ valid' = valid /\ ilock' = ilock /\ thr' = thr
  BY DEF S!ServeAio
<1> DEFINE p == aio.pos + j - 1
           grows == dsize' > dsize /\ ~\E t \in Callers : thr[t].op = "aio" /\ thr[t].big
<1>1. PICK r \in Outcomes :
         /\ aio' = Out(aio, j, r)
         /\ dsize' = IF aio.write /\ r = "ok" THEN S!Larger(dsize, p + 1) ELSE dsize
         /\ raced' = (raced \/ grows)
  BY DEF S!ServeAio, Out, Outcomes
<1>2. /\ thr \in [Callers -> Thread] /\ aio \in Io /\ dsize \in Nat /\ isize \in Nat
      /\ valid \in BOOLEAN /\ raced \in BOOLEAN
  BY DEF SizeInv, SizeType
<1>3. aio.pos \in Nat /\ aio.size \in 0..2 /\ p \in Int /\ p + 1 = aio.pos + j
  BY <1>2 DEF Io
<1> HIDE DEF p
<1>4. dsize' \in Nat /\ dsize' >= dsize
      /\ (aio.write /\ r = "ok" => dsize' >= aio.pos + j)
      /\ (dsize' > dsize => aio.write /\ r = "ok" /\ dsize' = aio.pos + j)
  BY <1>1, <1>2, <1>3, LargerIs
<1>5. ASSUME NEW q, IoOk(aio, q)
      PROVE  /\ aio' \in Io /\ IoOk(aio', q)
             /\ aio'.write = aio.write /\ aio'.pos = aio.pos /\ aio'.size = aio.size
             /\ aio'.blocking = aio.blocking /\ j <= aio.size
             /\ \A i \in 1..2 : aio'.out[i] = IF i = j THEN r ELSE aio.out[i]
  BY <1>0, <1>1, <1>2, <1>5, IoServe
<1>6. \E q : IoOk(aio, q)
  BY DEF SizeInv, AioInv
<1>7. /\ aio' \in Io /\ aio'.write = aio.write /\ aio'.pos = aio.pos /\ aio'.size = aio.size
      /\ aio'.blocking = aio.blocking /\ j <= aio.size
      /\ \A i \in 1..2 : aio'.out[i] = IF i = j THEN r ELSE aio.out[i]
  BY <1>5, <1>6
<1>8. SizeType' /\ AioInv' /\ LockInv'
  <2>1. \A u \in Callers : Same(thr[u], thr'[u])
    BY <1>0 DEF Same
  <2>2. raced' \in BOOLEAN /\ (raced => raced')
    BY <1>1, <1>2
  <2> QED
    BY <1>0, <1>2, <1>4, <1>5, <1>7, <2>1, <2>2, ReplyStep
<1>9. ASSUME ~raced' PROVE TrackInv'
  <2>1. TrackInv /\ ~grows
    BY <1>1, <1>9 DEF SizeInv
  <2>2. \A t \in Callers : thr'[t].op = "aio" /\ aio'.write
          => \A i \in 1..2 : aio'.out[i] = "ok" => dsize' >= aio'.pos + i
    <3> SUFFICES ASSUME NEW t \in Callers, thr[t].op = "aio", aio.write,
                        NEW i \in 1..2, aio'.out[i] = "ok"
                 PROVE  dsize' >= aio.pos + i
      BY <1>0, <1>7
    <3>1. CASE i = j
      BY <1>4, <1>7, <3>1
    <3>2. CASE i # j
      <4>1. dsize >= aio.pos + i
        BY <1>7, <2>1, <3>2 DEF TrackInv
      <4> QED
        BY <1>2, <1>3, <1>4, <4>1
    <3> QED
      BY <3>1, <3>2
  <2>3. CASE dsize' = dsize
    <3>1. \A x : InRange(x) <=> x <= dsize' /\ (x < dsize' => dsize' <= aio'.pos + aio'.size)
      BY <1>7, <2>3 DEF InRange
    <3> QED
      BY <1>0, <1>7, <2>1, <2>2, <2>3 DEF TrackInv, InRange
  <2>4. CASE dsize' > dsize
    <3>1. PICK t \in Callers : thr[t].op = "aio" /\ thr[t].big
      BY <2>1, <2>4
    <3>2. Grew(thr[t]) /\ aio.write /\ ilock = t /\ dsize' = aio.pos + j
      BY <1>4, <2>4, <3>1, AioHolds DEF Grew
    <3>3. dsize' <= aio'.pos + aio'.size
      BY <1>3, <1>7, <3>2
    <3>4. ~\A u \in Callers : ~Grew(thr'[u])
      BY <1>0, <3>2
    <3>5. ~\A u \in Callers : ~Dirty(thr'[u])
      BY <1>0, <3>2 DEF Dirty
    <3>6. \A u \in Callers : ~(thr'[u].op = "setattr" /\ thr'[u].st = "served")
      BY <1>0, <3>1, <3>2 DEF SizeInv, LockInv, Locks
    <3>7. \A x \in Int : InRange(x) => x <= dsize' /\ (x < dsize' => dsize' <= aio'.pos + aio'.size)
      BY <1>2, <1>4, <3>3 DEF InRange
    <3>8. ASSUME NEW v \in Callers, thr'[v].op = "aio", thr'[v].big
          PROVE  /\ valid' => InRange(isize)'
                 /\ \A u \in Callers : /\ Attr(thr'[u]) => InRange(thr[u].got)'
                                       /\ ShortRead(thr'[u]) => \/ thr'[u].pos >= dsize'
                                                                \/ dsize' <= aio'.pos + aio'.size
      <4>1. valid' => InRange(isize)'
        BY <1>0, <1>2, <2>1, <3>7, <3>8 DEF TrackInv, InRange
      <4>2. ASSUME NEW u \in Callers, Attr(thr'[u]) PROVE InRange(thr[u].got)'
        <5>1. InRange(thr[u].got) /\ thr[u].got \in Int
          BY <1>0, <2>1, <3>8, <4>2, SizeTypes DEF TrackInv
        <5>2. thr[u].got <= dsize' /\ (thr[u].got < dsize' => dsize' <= aio'.pos + aio'.size)
          BY <3>7, <5>1
        <5> QED
          BY <1>0, <5>2 DEF InRange
      <4> QED
        BY <3>3, <4>1, <4>2
    <3> QED
      BY <2>2, <3>4, <3>5, <3>6, <3>8 DEF TrackInv
  <2> QED
    BY <1>2, <1>4, <2>3, <2>4
<1> QED
  BY <1>1, <1>2, <1>8, <1>9 DEF SizeInv

LEMMA SizeAioComplete ==
    ASSUME SizeInv, NEW j \in 1..2, S!fuse_aio_complete_req(j)
    PROVE  SizeInv'
<1> DEFINE o == Seen(aio, j)
<1>0. /\ aio.out[j] \in Outcomes /\ j \notin aio.fin /\ aio' = o /\ S!AioBump(o, None, S!Idle)
      /\ dsize' = dsize /\ isize' = isize /\ valid' = valid /\ ilock' = ilock /\ raced' = raced
  BY Zenon DEF S!fuse_aio_complete_req, Outcomes, Seen
<1>1. /\ thr \in [Callers -> Thread] /\ aio \in Io /\ dsize \in Nat /\ isize \in Nat
      /\ valid \in BOOLEAN /\ raced \in BOOLEAN
  BY DEF SizeInv, SizeType
<1>2. aio.size \in Int
  BY <1>1 DEF Io
<1>3. ASSUME NEW q, IoOk(aio, q)
      PROVE  /\ aio' \in Io /\ IoOk(aio', q)
             /\ aio'.write = aio.write /\ aio'.pos = aio.pos /\ aio'.size = aio.size
             /\ aio'.blocking = aio.blocking /\ aio'.out = aio.out
  BY <1>0, <1>1, <1>3, IoComplete
<1>4. \E q : IoOk(aio, q)
  BY DEF SizeInv, AioInv
<1>5. /\ aio' \in Io /\ aio'.write = aio.write /\ aio'.pos = aio.pos /\ aio'.size = aio.size
      /\ aio'.blocking = aio.blocking /\ aio'.out = aio.out
  BY <1>3, <1>4
<1> HIDE DEF o
<1>6. thr' \in [Callers -> Thread] /\ \A u \in Callers : Same(thr[u], thr'[u])
  <2>1. None \notin Callers
    BY FilesAssumption
  <2> QED
    BY <1>0, <1>1, <2>1, AioBumpSteps
<1>7. SizeType' /\ AioInv' /\ LockInv'
  BY <1>0, <1>1, <1>3, <1>5, <1>6, ReplyStep
<1>8. AioGoesOn
  BY <1>2, <1>5 DEF AioGoesOn
<1>9. \A u \in Callers : Keeps(thr[u], thr'[u], valid')
  BY <1>1, <1>6, SameKeeps
<1>10. TrackInv => TrackInv'
  BY <1>0, <1>7, <1>8, <1>9, QuietTrack DEF SizeInv
<1> QED
  BY <1>0, <1>7, <1>10 DEF SizeInv

LEMMA SizeDirectIO ==
    ASSUME SizeInv, NEW t \in Callers, NEW w \in BOOLEAN, NEW pos \in Nat, NEW n \in 1..2,
           NEW sync \in BOOLEAN, S!fuse_direct_IO(t, w, pos, n, sync)
    PROVE  SizeInv'
<1> DEFINE big == w /\ pos + n > isize
           blocking == sync \/ (w /\ pos + n > isize)
           c == [S!Idle EXCEPT !.op = "aio", !.st = "submit", !.big = big]
<1>0. /\ thr[t] = S!Idle /\ S!Set(t, c) /\ S!Races("aio")
      /\ \A u \in Callers : thr[u].op # "aio"
      /\ aio' = S!io_init(w, pos, n, blocking)
      /\ IF w THEN ilock = None /\ ilock' = t ELSE ilock' = ilock
      /\ dsize' = dsize /\ isize' = isize /\ valid' = valid
  BY DEF S!fuse_direct_IO, S!inode_lock
<1>1. /\ thr \in [Callers -> Thread] /\ aio \in Io /\ dsize \in Nat /\ isize \in Nat
      /\ valid \in BOOLEAN /\ raced \in BOOLEAN
  BY DEF SizeInv, SizeType
<1>2. blocking \in BOOLEAN /\ big \in BOOLEAN /\ (big => w /\ blocking)
  OBVIOUS
<1>3. c \in Thread /\ c.op = "aio" /\ c.st = "submit" /\ c.big = big
  <2> DEFINE b == S!Idle
  <2>1. c = [b EXCEPT !.op = "aio", !.st = "submit", !.big = big] /\ b \in Thread
    BY IdleFields
  <2> HIDE DEF b, c, big
  <2> QED
    BY <1>2, <2>1 DEF Thread
<1> HIDE DEF c, big, blocking
<1>4. /\ aio' \in Io /\ IoOk(aio', "submit")
      /\ aio'.write = w /\ aio'.pos = pos /\ aio'.size = 0 /\ aio'.blocking = blocking
      /\ \A j \in 1..2 : aio'.out[j] = "no"
  BY <1>0, <1>2, IoNew
<1>5. Steps(t, c)
  BY <1>0, <1>1, <1>3, SetSteps
<1>6. \A u \in Callers : thr[u].op # "aio"
  BY <1>0
<1>7. \A u \in Callers : u # t => thr'[u] = thr[u]
  BY <1>0, <1>1 DEF S!Set
<1>8. thr'[t] = c
  BY <1>5 DEF Steps
<1>9. SizeType'
  <2>1. raced' \in BOOLEAN
    BY <1>0, <1>1, RacesMean
  <2>2. \A u \in Callers : /\ thr'[u].op = "getattr" => thr'[u].got >= 0
                           /\ thr'[u].op = "fallocate" /\ thr'[u].st = "sent" => thr'[u].got = 0
    BY <1>3, <1>7, <1>8 DEF SizeInv, SizeType
  <2> QED
    BY <1>0, <1>1, <1>4, <1>5, <2>1, <2>2 DEF SizeType, Steps
<1>10. AioInv'
  BY <1>2, <1>3, <1>4, <1>6, <1>7, <1>8 DEF AioInv, Phase
<1>11. LockInv'
  <2>1. Locks(c, aio'.write) => ilock' = t
    BY <1>0, <1>3, <1>4 DEF Locks, Writes
  <2>2. LocksMove(t)
    BY <1>0 DEF LocksMove
  <2>3. c.op # "open" /\ (raced => raced') /\ \A u \in Callers : thr[u].op = "open" => raced'
    BY <1>0, <1>3, RacesMean
  <2> QED
    BY <1>1, <1>5, <1>6, <2>1, <2>2, <2>3, LockStep DEF SizeInv
<1>12. ASSUME ~raced' PROVE TrackInv'
  <2>1. TrackInv /\ \A u \in Callers : thr[u].op # "open"
    BY <1>0, <1>12, RacesMean DEF SizeInv
  <2>2. \A u \in Callers : Keeps(thr[u], thr'[u], valid') \/ u = t
    BY <1>1, <1>7, SameKeeps DEF Same
  <2>3. ~Attr(c) /\ ~ShortRead(c) /\ ~Grew(thr[t]) /\ ~Dirty(thr[t])
    BY <1>0, <1>3, IdleFields DEF Attr, ShortRead
  <2>4. (\A u \in Callers : ~Grew(thr'[u])) => \A u \in Callers : ~Grew(thr[u])
    BY <1>7, <2>3
  <2>5. (\A u \in Callers : ~Dirty(thr'[u])) => \A u \in Callers : ~Dirty(thr[u])
    BY <1>7, <2>3
  <2>6. valid' /\ (\A u \in Callers : ~Dirty(thr'[u])) => isize' = dsize'
    BY <1>0, <2>1, <2>5 DEF TrackInv
  <2>7. \A v \in Callers : Attr(thr'[v]) /\ (\A u \in Callers : ~Grew(thr'[u]))
                            => thr'[v].got = dsize'
    BY <1>0, <1>7, <1>8, <2>1, <2>3, <2>4 DEF TrackInv
  <2>8. \A v \in Callers : ShortRead(thr'[v]) /\ (\A u \in Callers : ~Grew(thr'[u]))
                            => thr'[v].pos >= dsize'
    BY <1>0, <1>7, <1>8, <2>1, <2>3, <2>4 DEF TrackInv
  <2>9. \A v \in Callers : thr'[v].op = "setattr" /\ thr'[v].st = "served"
                            => IF thr'[v].got >= 0 THEN thr'[v].got = dsize' ELSE ~thr'[v].big
    BY <1>0, <1>3, <1>7, <1>8, <2>1 DEF TrackInv
  <2>10. \A v \in Callers : thr'[v].op = "aio" /\ aio'.write
            => \A j \in 1..2 : aio'.out[j] = "ok" => dsize' >= aio'.pos + j
    BY <1>4
  <2>11. ASSUME NEW v \in Callers, thr'[v].op = "aio", thr'[v].big
         PROVE  /\ valid' => InRange(isize)'
                /\ \A u \in Callers : /\ Attr(thr'[u]) => InRange(thr[u].got)'
                                      /\ ShortRead(thr'[u]) => \/ thr'[u].pos >= dsize'
                                                               \/ dsize' <= aio'.pos + aio'.size
    <3>1. v = t /\ w
      BY <1>2, <1>3, <1>6, <1>7, <1>8, <2>11
    <3>2. ilock = None
      BY <1>0, <3>1
    <3>3. \A u \in Callers : ~Locks(thr[u], aio.write)
      BY <3>2, FilesAssumption DEF SizeInv, LockInv
    <3>4. \A u \in Callers : ~Grew(thr[u]) /\ ~Dirty(thr[u])
      BY <1>6, <2>1, <3>3 DEF Locks, Grew, Dirty, Writes
    <3>5. valid => isize = dsize
      BY <2>1, <3>4 DEF TrackInv
    <3>6. \A u \in Callers : /\ Attr(thr[u]) => thr[u].got = dsize
                             /\ ShortRead(thr[u]) => thr[u].pos >= dsize
      BY <2>1, <3>4 DEF TrackInv
    <3>7. InRange(dsize)'
      BY <1>0, <1>1 DEF InRange
    <3>8. ASSUME NEW u \in Callers
          PROVE  /\ Attr(thr'[u]) => thr'[u].got = dsize'
                 /\ ShortRead(thr'[u]) => thr'[u].pos >= dsize'
      <4>1. CASE u = t
        BY <1>8, <2>3, <4>1
      <4>2. CASE u # t
        BY <1>0, <1>7, <3>6, <4>2
      <4> QED
        BY <4>1, <4>2
    <3> QED
      BY <1>0, <3>5, <3>7, <3>8 DEF InRange
  <2> QED
    BY <2>6, <2>7, <2>8, <2>9, <2>10, <2>11 DEF TrackInv
<1> QED
  BY <1>9, <1>10, <1>11, <1>12 DEF SizeInv

-----------------------------------------------------------------------------
LEMMA SizeInit == S!Init => SizeInv
<1> SUFFICES ASSUME S!Init PROVE SizeInv
  OBVIOUS
<1>1. /\ dsize \in Nat /\ isize = dsize /\ valid = TRUE /\ raced = FALSE
      /\ aio = S!NoIo /\ thr \in [Callers -> Thread]
      /\ \A t \in Callers : thr[t] = S!Idle
  BY FilesAssumption, IdleFields DEF S!Init, S!Sizes
<1>2. aio = [st |-> "none", write |-> FALSE, pos |-> 0, n |-> 0, blocking |-> FALSE,
             reqs |-> 0, ref |-> 0, bytes |-> -1, err |-> FALSE, size |-> 0, done |-> FALSE,
             out |-> <<"no", "no">>, fin |-> {}, ret |-> {}, failed |-> FALSE]
  BY <1>1 DEF S!NoIo
<1>3. aio \in Io
  <2>1. <<"no", "no">> \in [1..2 -> {"no", "sent"} \cup Outcomes]
    OBVIOUS
  <2> QED
    BY <1>2, <2>1 DEF Io
<1>4. SizeType
  BY <1>1, <1>3, IdleFields DEF SizeType
<1>5. AioInv
  <2>1. IoOk(aio, "gone")
    <3>1. \A j \in 1..2 : <<"no", "no">>[j] = "no"
      OBVIOUS
    <3> QED
      BY <1>2, <3>1 DEF IoOk
  <2> QED
    BY <1>1, <2>1, IdleFields DEF AioInv
<1>6. LockInv
  BY <1>1, IdleFields DEF LockInv
<1>7. TrackInv
  BY <1>1, IdleFields DEF TrackInv
<1> QED
  BY <1>4, <1>5, <1>6, <1>7 DEF SizeInv

LEMMA SizeStep == SizeInv /\ [S!Next]_S!svars => SizeInv'
<1> SUFFICES ASSUME SizeInv, [S!Next]_S!svars PROVE SizeInv'
  OBVIOUS
<1>0. S!Sizes \subseteq Nat
  BY FilesAssumption DEF S!Sizes
<1>1. ASSUME NEW t \in Callers, S!Call(t) PROVE SizeInv'
  <2>1. CASE S!fuse_do_getattr(t)
    BY <2>1, SizeGetattr
  <2>2. CASE S!fuse_open_common(t)
    BY <2>2, SizeOpen
  <2>3. ASSUME NEW p \in S!Sizes, NEW e \in BOOLEAN, S!fuse_send_read(t, p, e) PROVE SizeInv'
    BY <1>0, <2>3, SizeRead
  <2>4. ASSUME NEW p \in S!Sizes, S!fuse_file_fallocate(t, p) PROVE SizeInv'
    BY <1>0, <2>4, SizeFallocate
  <2>5. ASSUME NEW p \in S!Sizes, NEW n \in 1..2, S!fuse_perform_write(t, p, n) PROVE SizeInv'
    BY <1>0, <2>5, SizePerformWrite
  <2>6. ASSUME NEW p \in S!Sizes, NEW n \in 1..2, NEW op \in {"odirect", "dio"},
               S!fuse_direct_write(t, op, p, n)
        PROVE  SizeInv'
    BY <1>0, <2>6, SizeDirectWrite
  <2>7. ASSUME NEW p \in S!Sizes, NEW n \in 1..2, NEW w \in BOOLEAN, NEW s \in BOOLEAN,
               S!fuse_direct_IO(t, w, p, n, s)
        PROVE  SizeInv'
    BY <1>0, <2>7, SizeDirectIO
  <2>8. ASSUME NEW n \in S!Sizes, S!fuse_setattr(t, n, TRUE) PROVE SizeInv'
    BY <1>0, <2>8, SizeSetattr
  <2>9. CASE S!fuse_setattr(t, 0, FALSE)
    BY <2>9, SizeSetattr
  <2> QED
    BY <1>1, <2>1, <2>2, <2>3, <2>4, <2>5, <2>6, <2>7, <2>8, <2>9 DEF S!Call
<1>2. ASSUME NEW t \in Callers, S!Step(t) PROVE SizeInv'
  BY <1>2, SizeServeGetattr, SizeAttributes, SizeServeRead, SizeReadDone, SizeFill,
     SizeServeWrite, SizeSendWrite, SizeWriteEnd, SizeResume, SizeClear, SizeTruncate,
     SizeServeSetattr, SizeDoSetattr, SizeSetattrClear, SizeServeFallocate,
     SizeFallocateDone, SizeServeOpen, SizeFinishOpen, SizeAioSend, SizeAioSubmitted,
     SizeAioCheck, SizeAioWait DEF S!Step
<1>3. ASSUME NEW j \in 1..2, S!ServeAio(j) \/ S!fuse_aio_complete_req(j) PROVE SizeInv'
  BY <1>3, SizeServeAio, SizeAioComplete
<1>4. CASE UNCHANGED S!svars
  <2>1. /\ dsize' = dsize /\ isize' = isize /\ valid' = valid /\ ilock' = ilock
        /\ thr' = thr /\ aio' = aio /\ raced' = raced
    BY <1>4 DEF S!svars
  <2>2. SizeType' /\ AioInv' /\ LockInv'
    BY <2>1 DEF SizeInv, SizeType, AioInv, LockInv
  <2>3. TrackInv => TrackInv'
    BY <2>1 DEF TrackInv, InRange
  <2> QED
    BY <2>1, <2>2, <2>3 DEF SizeInv
<1> QED
  BY <1>1, <1>2, <1>3, <1>4 DEF S!Next

(* A direct I/O with nothing left to wait for.                             *)
LEMMA IoOver ==
    ASSUME NEW o \in Io, NEW p, IoOk(o, p), o.st # "none"
    PROVE  /\ o.ret # {} => /\ o.reqs = 0 /\ ~Submitting(p)
                            /\ o.ret = {<<0, S!fuse_get_res_by_io(o)>>}
           /\ o.reqs = 0 => o.fin = 1..o.size
           /\ o.st = "freed" => p = "gone" /\ o.reqs = 0 /\ o.ret # {}
           /\ p = "gone" /\ o.fin = 1..o.size => o.st = "freed"
<1>1. /\ o.reqs \in Int /\ o.ref \in Int /\ o.size \in 0..2 /\ o.fin \in SUBSET (1..2)
      /\ o.st \in {"live", "freed"} /\ o.blocking \in BOOLEAN
  BY DEF Io
<1>2. /\ o.reqs = (IF Submitting(p) THEN 1 ELSE 0) + Waiting(o, 1) + Waiting(o, 2)
      /\ o.ref = o.reqs + (IF o.blocking /\ p # "gone" THEN 1 ELSE 0)
      /\ p = "wait" => o.blocking
      /\ p = "gone" /\ o.blocking => o.reqs = 0
      /\ o.st = "live" <=> o.ref > 0
      /\ o.ret = IF Completed(o, p) THEN {<<0, S!fuse_get_res_by_io(o)>>} ELSE {}
      /\ p \in {"submit", "submitted", "wait", "gone"}
      /\ \A j \in 1..2 : /\ o.out[j] = "no" <=> j > o.size
                         /\ j \in o.fin => o.out[j] \in Outcomes
  BY DEF IoOk
<1>3. Waiting(o, 1) \in {0, 1} /\ Waiting(o, 2) \in {0, 1}
  BY DEF Waiting
<1>4. Completed(o, p) => o.reqs = 0
  BY <1>2 DEF Completed
<1>5. o.reqs = 0 => ~Submitting(p) /\ Waiting(o, 1) = 0 /\ Waiting(o, 2) = 0
  BY <1>2, <1>3
<1>6. Waiting(o, 1) = 0 /\ Waiting(o, 2) = 0 => o.fin = 1..o.size
  <2> SUFFICES ASSUME Waiting(o, 1) = 0, Waiting(o, 2) = 0 PROVE o.fin = 1..o.size
    OBVIOUS
  <2>1. \A j \in 1..2 : o.out[j] # "no" => j \in o.fin
    BY DEF Waiting
  <2>2. \A j \in 1..2 : j \in o.fin <=> j <= o.size
    BY <1>1, <1>2, <2>1 DEF Outcomes
  <2>3. \A j : j \in 1..o.size => j \in 1..2
    BY <1>1
  <2>4. \A j : j \in o.fin => j \in 1..2
    BY <1>1
  <2>5. \A j \in 1..2 : j \in 1..o.size <=> j <= o.size
    BY <1>1
  <2>6. \A j : j \in o.fin <=> j \in 1..o.size
    BY <2>2, <2>3, <2>4, <2>5, Zenon
  <2> QED
    BY <2>6, Zenon
<1>7. o.fin = 1..o.size => Waiting(o, 1) = 0 /\ Waiting(o, 2) = 0
  <2> SUFFICES ASSUME o.fin = 1..o.size PROVE Waiting(o, 1) = 0 /\ Waiting(o, 2) = 0
    OBVIOUS
  <2>1. \A j \in 1..2 : j \in o.fin <=> j <= o.size
    BY <1>1
  <2> QED
    BY <1>1, <1>2, <2>1 DEF Waiting
<1>8. ASSUME o.st = "freed" PROVE p = "gone" /\ o.reqs = 0 /\ o.ret # {}
  <2>1. o.reqs = 0 /\ ~(o.blocking /\ p # "gone")
    BY <1>1, <1>2, <1>3, <1>8
  <2>2. p = "gone"
    BY <1>2, <1>5, <2>1 DEF Submitting
  <2>3. Completed(o, p)
    BY <2>1, <2>2 DEF Completed
  <2> QED
    BY <1>2, <2>1, <2>2, <2>3
<1>9. ASSUME p = "gone", o.fin = 1..o.size PROVE o.st = "freed"
  <2>1. o.reqs = 0 /\ o.ref = 0
    BY <1>1, <1>2, <1>7, <1>9 DEF Submitting
  <2> QED
    BY <1>1, <1>2, <2>1
<1> QED
  BY <1>2, <1>4, <1>5, <1>6, <1>8, <1>9

LEMMA AioResultIs ==
    ASSUME aio \in Io, NEW p, IoOk(aio, p), aio.st # "none", aio.reqs = 0, ~Submitting(p),
           aio.fin = 1..aio.size
    PROVE  S!AioResult = S!fuse_get_res_by_io(aio)
<1>1. /\ aio.size \in {0, 1, 2} /\ aio.bytes \in Int /\ aio.write \in BOOLEAN
      /\ aio.err \in BOOLEAN /\ aio.failed \in BOOLEAN
  BY DEF Io
<1>2. /\ \A j \in 1..aio.size : aio.out[j] \in Outcomes
      /\ aio.failed <=> aio.size = 0
      /\ aio.err <=> aio.failed \/ \E j \in 1..aio.size : aio.out[j] = "err"
      /\ aio.bytes = IF 1 \in 1..aio.size /\ aio.out[1] = "short" THEN 0
                     ELSE IF 2 \in 1..aio.size /\ aio.out[2] = "short" THEN 1 ELSE -1
  <2>1. /\ aio.failed <=> p # "submit" /\ aio.size = 0
        /\ aio.err <=> \/ aio.failed /\ ~Submitting(p)
                       \/ \E j \in aio.fin : aio.out[j] = "err"
        /\ aio.bytes = IF 1 \in aio.fin /\ aio.out[1] = "short" THEN 0
                       ELSE IF 2 \in aio.fin /\ aio.out[2] = "short" THEN 1 ELSE -1
        /\ \A j \in 1..2 : j \in aio.fin => aio.out[j] \in Outcomes
    BY DEF IoOk
  <2>2. p # "submit"
    BY DEF Submitting
  <2>3. \A j \in 1..aio.size : j \in 1..2
    BY <1>1
  <2> QED
    BY <2>1, <2>2, <2>3
<1> DEFINE js == 1..aio.size
<1>3. CASE aio.failed \/ \E j \in js : aio.out[j] = "err"
  <2>1. S!AioResult = -1
    BY <1>3 DEF S!AioResult
  <2>2. S!fuse_get_res_by_io(aio) = -1
    BY <1>2, <1>3 DEF S!fuse_get_res_by_io
  <2> QED
    BY <2>1, <2>2
<1>4. CASE ~(aio.failed \/ \E j \in js : aio.out[j] = "err") /\ \A j \in js : aio.out[j] = "ok"
  <2>1. S!AioResult = aio.size
    BY <1>4, Zenon DEF S!AioResult
  <2>2. aio.bytes = -1 /\ ~aio.err
    BY <1>2, <1>4
  <2>3. S!fuse_get_res_by_io(aio) = aio.size
    BY <2>2 DEF S!fuse_get_res_by_io
  <2> QED
    BY <2>1, <2>3
<1>5. CASE ~(aio.failed \/ \E j \in js : aio.out[j] = "err") /\ ~\A j \in js : aio.out[j] = "ok"
  <2>1. ~aio.err /\ \E j \in js : aio.out[j] = "short"
    BY <1>2, <1>5 DEF Outcomes
  <2>2. aio.bytes >= 0
    BY <1>1, <1>2, <2>1
  <2>3. CASE aio.write
    <3>1. S!AioResult = -1
      BY <1>5, <2>3, Zenon DEF S!AioResult
    <3>2. S!fuse_get_res_by_io(aio) = -1
      BY <2>1, <2>2, <2>3 DEF S!fuse_get_res_by_io
    <3> QED
      BY <3>1, <3>2
  <2>4. CASE ~aio.write
    <3> DEFINE short == {j - 1 : j \in {i \in js : aio.out[i] = "short"}}
    <3>1. S!AioResult = S!Min(short)
      BY <1>5, <2>4, Zenon DEF S!AioResult
    <3>2. S!fuse_get_res_by_io(aio) = aio.bytes
      BY <1>1, <2>1, <2>2, <2>4 DEF S!fuse_get_res_by_io
    <3>3. aio.bytes \in short /\ short \subseteq Int
      BY <1>1, <1>2, <2>1
    <3>4. \A x \in short : aio.bytes <= x
      BY <1>1, <1>2, <2>1
    <3> HIDE DEF short
    <3>5. \A x \in short : (\A y \in short : x <= y) => x = aio.bytes
      BY <1>1, <3>3, <3>4
    <3>6. S!Min(short) = aio.bytes
      BY <3>3, <3>4, <3>5 DEF S!Min
    <3> QED
      BY <3>1, <3>2, <3>6
  <2> QED
    BY <2>3, <2>4
<1> QED
  BY <1>3, <1>4, <1>5

LEMMA SizeSafe == SizeInv => SizeCoherent /\ AioExact
<1> SUFFICES ASSUME SizeInv PROVE SizeCoherent /\ AioExact
  OBVIOUS
<1>1. SizeCoherent
  <2> SUFFICES ASSUME valid, ~raced, \A t \in Callers : ~S!Changing(t) PROVE isize = dsize
    BY DEF SizeCoherent, S!SizeCoherent
  <2>1. \A t \in Callers : ~Dirty(thr[t])
    BY DEF S!Changing, Dirty, Grew, Writes
  <2> QED
    BY <2>1 DEF SizeInv, TrackInv
<1>2. AioExact
  <2> DEFINE live == \E t \in Callers : S!Holds(t)
  <2>1. PICK p : /\ IoOk(aio, p)
                 /\ live <=> p # "gone"
    <3>1. CASE live
      <4>1. PICK t \in Callers : S!Holds(t)
        BY <3>1
      <4>2. thr[t].op = "aio" /\ thr[t] \in Thread
        BY <4>1, SizeTypes DEF S!Holds
      <4>3. IoOk(aio, Phase(thr[t].st, aio))
        BY <4>2, AioHolds
      <4>4. Phase(thr[t].st, aio) # "gone"
        BY <4>1, <4>2 DEF S!Holds, Phase, Thread
      <4> QED
        BY <3>1, <4>3, <4>4
    <3>2. CASE ~live
      <4>1. CASE \A t \in Callers : thr[t].op # "aio"
        BY <3>2, <4>1 DEF SizeInv, AioInv
      <4>2. ASSUME NEW t \in Callers, thr[t].op = "aio" PROVE IoOk(aio, "gone")
        <5>1. ~S!Holds(t)
          BY <3>2
        <5>2. /\ IoOk(aio, Phase(thr[t].st, aio)) /\ ~aio.blocking
              /\ thr[t].st \notin {"submit", "submitted"}
          BY <4>2, <5>1, AioHolds DEF S!Holds
        <5>3. Phase(thr[t].st, aio) \in {"submit", "submitted", "wait", "gone"}
          BY <5>2 DEF IoOk
        <5>4. thr[t].st # "wait" => Phase(thr[t].st, aio) = "gone"
          BY <5>2, <5>3 DEF Phase
        <5> QED
          BY <5>2, <5>4 DEF Phase
      <4> QED
        BY <3>2, <4>1, <4>2
    <3> QED
      BY <3>1, <3>2
  <2>2. aio \in Io
    BY DEF SizeInv, SizeType
  <2> HIDE DEF live
  <2>3. CASE aio.st = "none"
    <3>1. aio.ret = {}
      BY <2>1, <2>3 DEF IoOk
    <3> QED
      BY <2>3, <3>1 DEF AioExact, S!AioExact
  <2>4. CASE aio.st # "none"
    <3>1. /\ aio.ret # {} => /\ aio.reqs = 0 /\ ~Submitting(p)
                             /\ aio.ret = {<<0, S!fuse_get_res_by_io(aio)>>}
          /\ aio.reqs = 0 => aio.fin = 1..aio.size
          /\ aio.st = "freed" => p = "gone" /\ aio.reqs = 0 /\ aio.ret # {}
          /\ p = "gone" /\ aio.fin = 1..aio.size => aio.st = "freed"
      BY <2>1, <2>2, <2>4, IoOver
    <3>2. aio.ret # {} => aio.fin = 1..aio.size /\ aio.ret = {<<0, S!AioResult>>}
      BY <2>1, <2>2, <2>4, <3>1, AioResultIs
    <3>3. aio.st = "freed" <=> (aio.st # "none" /\ ~live /\ aio.fin = 1..aio.size)
      BY <2>1, <2>4, <3>1
    <3>4. aio.st = "freed" => aio.ret # {}
      BY <3>1
    <3> QED
      BY <3>2, <3>3, <3>4 DEF AioExact, S!AioExact, live
  <2> QED
    BY <2>3, <2>4
<1> QED
  BY <1>1, <1>2

LEMMA SizeInvHolds == S!Spec => []SizeInv
<1>1. S!Init => SizeInv
  BY SizeInit
<1>2. SizeInv /\ [S!Next]_S!svars => SizeInv'
  BY SizeStep
<1> QED
  BY <1>1, <1>2, PTL DEF S!Spec

(* fuse_change_attributes, fuse_write_update_size, fuse_read_update_size,  *)
(* attr_version: for any number of threads, calls and any largest size,    *)
(* i_size is the daemon's size once the calls that change it are over and  *)
(* attributes are trusted, whatever answers are still on their way, unless *)
(* one of the known races has happened.                                    *)
THEOREM SizeTracked == S!Spec => []SizeCoherent
<1>1. SizeInv => SizeCoherent
  BY SizeSafe
<1> QED
  BY <1>1, SizeInvHolds, PTL

(* fuse_aio_complete, fuse_get_res_by_io, fuse_io_release: a direct I/O    *)
(* completes once and with the result of its requests, in whatever order   *)
(* they end, and its fuse_io_priv is freed then and not before.  The       *)
(* submitter's read of io->blocking (aio_check) may come after the free.   *)
THEOREM AioCompletes == S!Spec => []AioExact
<1>1. SizeInv => AioExact
  BY SizeSafe
<1> QED
  BY <1>1, SizeInvHolds, PTL

-----------------------------------------------------------------------------
(* A behaviour of MCFuseFiles is one of each of its three components.      *)
LEMMA FilesParts == FilesSpec => Spec /\ S!Spec /\ F!Spec
<1>1. FilesInit => Init /\ S!Init /\ F!Init
  BY DEF FilesInit
<1>2. [FilesNext]_<<part, xvars, size, files>>
         => [Next]_xvars /\ [S!Next]_S!svars /\ [F!Next]_F!fvars
  BY Zenon DEF FilesNext, size, files, S!svars, F!fvars, F!conn, F!ffv
<1> QED
  BY <1>1, <1>2, PTL DEF FilesSpec, Spec, S!Spec, F!Spec

(* The properties of files as the run checks them.                         *)
THEOREM FilesSound ==
    FilesSpec => [](/\ AclCoherent /\ SizeCoherent /\ AioExact
                    /\ HandleExact /\ ReservedSafe /\ PollWoken)
  BY FilesParts, AclIsCoherent, SizeTracked, AioCompletes, HandlesBalanced, ReservedKept,
     PollersWoken, PTL
=============================================================================
