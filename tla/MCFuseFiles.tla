----------------------------- MODULE MCFuseFiles -----------------------------
(* Open files, sizes and extended attributes of FUSE files.  The three     *)
(* components keep separate state; a behaviour is of one of them.          *)
EXTENDS FuseXattr, Integers, FiniteSets, TLC

CONSTANTS None, MaxSize, MaxCalls, Files, Users, MaxFds, MaxIo

(* Threads are counted, none of them is a state of reserved_req or no      *)
(* holder of the inode lock, and there are pages.                          *)
ASSUME FilesAssumption ==
    /\ IsFiniteSet(Users) /\ "here" \notin Users /\ "used" \notin Users
    /\ None \notin Callers /\ MaxSize \in Nat

VARIABLES
    part,
    dsize, isize, valid, async_dio, unstable, ilock, calls, thr, aio, raced,
    copy, implOpen, no_open, no_flush, st, dir, fds, count, io, handle, reserved, refs,
    polled, flock, lk, ready, want, fcall

size == <<dsize, isize, valid, async_dio, unstable, ilock, calls, thr, aio, raced>>
files == <<copy, implOpen, no_open, no_flush, st, dir, fds, count, io, handle, reserved,
           refs, polled, flock, lk, ready, want, fcall>>

S == INSTANCE FuseSize
F == INSTANCE FuseFile WITH call <- fcall

(* The components that do not move start in some one state; the file whose *)
(* size changes starts with one page, so that it can grow and shrink.      *)
FilesInit ==
    /\ Init /\ S!Init /\ F!Init
    /\ part \in {"xattr", "size", "file"}
    /\ part # "xattr" => impl = XOps
    /\ dsize = 1 /\ (part # "size" => async_dio = FALSE)
    /\ part # "file" => copy = "old" /\ implOpen = TRUE

FilesNext ==
    \/ part = "xattr" /\ Next /\ UNCHANGED <<part, size, files>>
    \/ part = "size" /\ S!Next /\ UNCHANGED <<part, xvars, files>>
    \/ part = "file" /\ F!Next /\ UNCHANGED <<part, xvars, size>>

FilesSpec == FilesInit /\ [][FilesNext]_<<part, xvars, size, files>>

Symmetry == Permutations(Callers)

(* i_size is the daemon's size while the attributes are trusted (file.c).  *)
SizeCoherent == S!SizeCoherent

(* fuse_io_priv completes once, with the result of all its requests.       *)
AioExact == S!AioExact

(* ff and the daemon's handle live as long as their references (file.c).   *)
HandleExact == F!HandleExact

(* The reserved request is there for RELEASE, and nobody misses it.        *)
ReservedSafe == F!ReservedSafe

(* A poll that found nothing is woken when the daemon is ready (file.c).   *)
PollWoken == F!PollWoken

=============================================================================
