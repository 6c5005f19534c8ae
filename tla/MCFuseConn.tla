----------------------------- MODULE MCFuseConn -----------------------------
(* A FUSE connection from outside: its input queue, its life between mount *)
(* and the last close, and CUSE's.  A behaviour is of one of them.         *)
EXTENDS FuseQueue, TLC

CONSTANTS Mounts, Files, Users, Channels, Clients, Devts, Names, MaxPairs

(* Open files and processes are counted; no pointer is not a connection.   *)
ASSUME ConnAssumption ==
    /\ IsFiniteSet(Files) /\ IsFiniteSet(Users) /\ IsFiniteSet(Clients)
    /\ Nil \notin Mounts \cup Channels

VARIABLES
    part,
    mpc, bdev, fs_info, fc, mfile, init, initdev, uopen, priv, notify, ctlsb, user,
    registered, dead,
    chan, cc, reply, chosen, region, client, conn

mount == <<mpc, bdev, fs_info, fc, mfile, init, initdev, uopen, priv, notify, ctlsb, user,
           registered, dead>>
cuse == <<chan, cc, reply, chosen, region, client, conn>>

M == INSTANCE FuseMount WITH None <- Nil
U == INSTANCE Cuse WITH None <- Nil

ConnInit ==
    /\ Init /\ M!Init /\ U!Init
    /\ part \in {"queue", "mount", "cuse"}
    /\ part # "mount" => bdev = [m \in Mounts |-> FALSE]

ConnNext ==
    \/ part = "queue" /\ Next /\ UNCHANGED <<part, mount, cuse>>
    \/ part = "mount" /\ M!Next /\ UNCHANGED <<part, qvars, cuse>>
    \/ part = "cuse" /\ U!Next /\ UNCHANGED <<part, qvars, mount>>

ConnSpec == ConnInit /\ [][ConnNext]_<<part, qvars, mount, cuse>>

Symmetry == Permutations(Mounts) \cup Permutations(Files)

(* A connection lives exactly as long as its references (inode.c).         *)
ConnSafe == M!ConnSafe

(* Nobody waits for a mounted connection in vain (inode.c, dev.c).         *)
Served == M!Served

(* A notification never uses a super block that is being shut down.        *)
SbLive == M!SbLive

(* CUSE's connections, devices and numbers come and go together (cuse.c).  *)
CuseBalanced == U!CuseBalanced

(* fuse_kill_sb_anon and fuse_kill_sb_blk find a connection that is there. *)
KillLive == M!KillLive

=============================================================================
