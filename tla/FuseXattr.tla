----------------------------- MODULE FuseXattr -----------------------------
(***************************************************************************)
(* Extended attributes and POSIX ACLs of one inode: old/fuse/xattr.c and   *)
(* acl.c, and fuse_setattr where it drops the cached ACLs.                 *)
(* The ACL cache of the inode belongs to the VFS (external): get_acl puts  *)
(* a sentinel of the calling thread into an empty cache, calls             *)
(* fuse_get_acl, and stores the answer only if its sentinel is still       *)
(* there; forget_all_cached_acls empties the cache, sentinels included.    *)
(* A copy of the ACL is "fresh" or "stale": the daemon's ACL changed after *)
(* the copy was made.                                                      *)
(***************************************************************************)
EXTENDS Naturals

CONSTANTS Callers   \* threads that call the operations

(* A sentinel is none of the other contents of the cache.                  *)
ASSUME CallersAssumption == Callers \cap {"none", "fresh", "stale"} = {}

VARIABLES
    impl,       \* the operations the daemon implements
    nosys,      \* fc->no_setxattr, no_getxattr, no_listxattr, no_removexattr
    acl,        \* the cache: "none", "fresh", "stale" or a thread's sentinel
    call        \* the call every thread is in

xvars == <<impl, nosys, acl, call>>

XOps == {"setxattr", "getxattr", "listxattr", "removexattr"}

NoCall == [by |-> "none", op |-> "none", st |-> "idle", out |-> "none"]

Init ==
    /\ impl \in {XOps, XOps \ {"setxattr"}, XOps \ {"getxattr"}, {"getxattr"}}
    /\ nosys = {}
    /\ acl = "none"
    /\ call = [t \in Callers |-> NoCall]

(* inode_lock: held by everything that changes attributes.                 *)
Changes(t) == call[t].st # "idle"
              /\ call[t].op \in {"setxattr", "removexattr", "setattr"}
Locked == \E t \in Callers : Changes(t)

Request(t, by, op) ==
    /\ op \notin nosys
    /\ call[t].st = "idle"
    /\ call' = [call EXCEPT ![t] = [by |-> by, op |-> op, st |-> "sent",
                                    out |-> "none"]]
    /\ UNCHANGED <<impl, nosys>>

fuse_getxattr(t) == Request(t, "xattr", "getxattr") /\ UNCHANGED acl
fuse_listxattr(t) == Request(t, "xattr", "listxattr") /\ UNCHANGED acl
(* For names other than the ACLs; they leave the ACL as it is.             *)
fuse_xattr_set(t) ==
    /\ ~Locked
    /\ Request(t, "xattr", "setxattr") \/ Request(t, "xattr", "removexattr")
    /\ UNCHANGED acl

(* The VFS found nothing in the cache.                                     *)
fuse_get_acl(t) ==
    /\ acl \notin {"fresh", "stale"}
    /\ Request(t, "acl", "getxattr")
    /\ acl' = IF acl = "none" THEN t ELSE acl

(* Setting an ACL, or removing it.                                         *)
fuse_set_acl(t) ==
    /\ ~Locked
    /\ "setxattr" \notin nosys
    /\ Request(t, "acl", "setxattr") \/ Request(t, "acl", "removexattr")
    /\ UNCHANGED acl

(* chmod: the daemon may change the ACL with the mode.                     *)
fuse_setattr(t) == ~Locked /\ Request(t, "setattr", "setattr") /\ UNCHANGED acl

(* The daemon (external).  A change makes every other copy stale.          *)
ChangesAcl(t) == call[t].by = "setattr"
                 \/ (call[t].by = "acl" /\ call[t].op # "getxattr")
Serve(t) ==
    /\ call[t].st = "sent"
    /\ \/ /\ call[t].op \in impl \cup {"setattr"}
          /\ call' = [u \in Callers |->
                IF u = t THEN [call[t] EXCEPT !.st = "done", !.out = "ok"]
                ELSE IF ChangesAcl(t) /\ call[u].out = "ok"
                     THEN [call[u] EXCEPT !.out = "old"] ELSE call[u]]
          /\ acl' = IF ChangesAcl(t) /\ acl = "fresh" THEN "stale" ELSE acl
       \/ /\ call' = [call EXCEPT ![t].st = "done", ![t].out =
                        IF call[t].op \in impl \cup {"setattr"} THEN "error"
                                                               ELSE "ENOSYS"]
          /\ UNCHANGED acl
    /\ UNCHANGED <<impl, nosys>>

(* ENOSYS is remembered: the operation is not tried again.                 *)
Latch(t) == nosys' = IF call[t].out = "ENOSYS" THEN nosys \cup {call[t].op}
                                              ELSE nosys

(* posix_acl.c: an answer, or NULL after ENOSYS, goes into the cache.      *)
get_acl_done(t) ==
    /\ call[t].by = "acl" /\ call[t].op = "getxattr"
    /\ acl' = IF acl # t THEN acl
              ELSE CASE call[t].out = "old" -> "stale"
                     [] call[t].out = "error" -> "none"
                     [] OTHER -> "fresh"

(* forget_all_cached_acls after the request, whether it succeeded or not.  *)
set_acl_done_no_forget(t) ==
    /\ call[t].by = "acl" /\ call[t].op # "getxattr"
    /\ UNCHANGED acl
set_acl_done(t) ==
    /\ call[t].by = "acl" /\ call[t].op # "getxattr"
    /\ acl' = "none"

setattr_done(t) ==
    /\ call[t].by = "setattr"
    /\ acl' = IF call[t].out = "error" THEN acl ELSE "none"

xattr_done(t) == call[t].by = "xattr" /\ UNCHANGED acl

Finish(t) ==
    /\ call[t].st = "done"
    /\ get_acl_done(t) \/ set_acl_done(t) \/ setattr_done(t) \/ xattr_done(t)
    /\ Latch(t)
    /\ call' = [call EXCEPT ![t] = NoCall]
    /\ UNCHANGED impl

(* fuse_update_attributes, revalidation and readdirplus drop the ACLs.     *)
forget_all_cached_acls ==
    /\ acl # "none"
    /\ acl' = "none"
    /\ UNCHANGED <<impl, nosys, call>>

Next ==
    \/ \E t \in Callers :
         \/ fuse_getxattr(t) \/ fuse_listxattr(t) \/ fuse_xattr_set(t)
         \/ fuse_get_acl(t) \/ fuse_set_acl(t) \/ fuse_setattr(t)
         \/ Serve(t) \/ Finish(t)
    \/ forget_all_cached_acls

Spec == Init /\ [][Next]_xvars

(* The ACL that permission checks take from the cache is the daemon's,     *)
(* except while the call that changes it has its reply and has not yet     *)
(* emptied the cache (fuse_set_acl, fuse_setattr against fuse_get_acl).    *)
AclCoherent ==
    acl = "stale" => \E t \in Callers : call[t].st = "done" /\ ChangesAcl(t)

=============================================================================
