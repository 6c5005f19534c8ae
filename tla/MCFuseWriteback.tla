-------------------------- MODULE MCFuseWriteback --------------------------
(* Small instances for TLC of FuseWriteback, which thread does what, and   *)
(* beside it of FuseDev: one request on a connection that is aborted at    *)
(* any time.  They share nothing; a behaviour is of one of them.           *)
EXTENDS FuseWriteback, TLC

CONSTANTS
    kflush, owner,
    SyncReq, BgReq, Signalled, Servers, Devices, Closers, Ctl, IntrReplies,
    MaxBackground, CongestionThreshold, BgLimits, UINT_MAX

(* a thread that writes pages back, and one that takes i_mutex; both may    *)
(* store through a mapping                                                 *)
AllOps == [t \in Threads |->
              IF t = kflush THEN {"flush", "reclaim", "mkwrite"}
                            ELSE {"fsync", "truncate", "write", "mkwrite"}]

Symmetry == Permutations(Reqs)

VARIABLES part, fc, pqc, loc, dev, interrupts, flags, count, alive, intr_unique,
          blocked, pc, cur, ret

device == <<fc, pqc, loc, dev, interrupts, flags, count, alive, intr_unique, blocked,
            pc, cur, ret>>

(* Requests that want a reply, and requests as fuse_force_forget sends;    *)
(* all threads of the daemon read one device.                              *)
OneDevice == [s \in Servers |-> CHOOSE d \in Devices : TRUE]
R == INSTANCE FuseDev WITH Forced <- {}, NoReply <- {}, DevOf <- OneDevice,
                           asleep <- blocked
G == INSTANCE FuseDev WITH Forced <- SyncReq, NoReply <- SyncReq, DevOf <- OneDevice,
                           asleep <- blocked

SideInit == Init /\ R!Init /\ part \in {"writeback", "reply", "forget"}

SideNext ==
    \/ part = "writeback" /\ Next /\ UNCHANGED <<part, device>>
    \/ part = "reply" /\ R!Next /\ UNCHANGED <<part, vars>>
    \/ part = "forget" /\ G!Next /\ UNCHANGED <<part, vars>>

SideSpec == SideInit /\ [][SideNext]_<<part, vars, device>>

(* Whatever interleaves with an abort from the control file, nothing is    *)
(* freed under a thread that is at work on it, but for the three places    *)
(* that NoUseAfterFree of FuseDev names (fuse_abort_conn).                 *)
AbortSafe == R!NoUseAfterFree

=============================================================================
