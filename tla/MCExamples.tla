----------------------------- MODULE MCExamples -----------------------------
(* The example modules on one machine: either RCU example or one of the    *)
(* example devices is tried.  They share nothing.                          *)
EXTENDS RcuSample, TLC

CONSTANTS Files, Vmas, Sizes, Counts

(* Areas and callers are counted, NULL is not a file, and buffers have a   *)
(* size.                                                                   *)
ASSUME ExamplesAssumption ==
    /\ IsFiniteSet(Files) /\ IsFiniteSet(Vmas)
    /\ NULL \notin Files /\ Sizes \subseteq Nat

VARIABLES
    tried,
    driver, file, info, page, reference, vma, pte, lost, bufsize, bufcap, raised, bufs,
    wsize, copying, mapped, sem, pins

devices == <<driver, file, info, page, reference, vma, pte, lost, bufsize, bufcap, raised,
             bufs, wsize, copying, mapped, sem, pins>>

E == INSTANCE ExampleDevices WITH None <- NULL

(* The modules that are not tried start in some one state.                 *)
ExamplesInit ==
    /\ Init /\ E!Init
    /\ \/ tried = "rcu" /\ driver = "mma" /\ bufsize = CHOOSE n \in Sizes : TRUE
       \/ tried = "device" /\ loaded = CHOOSE m \in Modules : TRUE

ExamplesNext ==
    \/ tried = "rcu" /\ Next /\ UNCHANGED <<tried, devices>>
    \/ tried = "device" /\ E!Next /\ UNCHANGED <<tried, vars>>

ExamplesSpec == ExamplesInit /\ [][ExamplesNext]_<<tried, vars, devices>>

(* The memory that an example device hands out stays valid while it is     *)
(* used (mma.c, vmm.c, gread.c, hello.c, get_user_pages/sample.c).         *)
DeviceMemory == E!DeviceMemory

Symmetry == Permutations(Readers) \cup Permutations(Writers)
            \cup Permutations(Addr)

=============================================================================
