----------------------------- MODULE MCFuseDev -----------------------------
(* Small instances of FuseDev for TLC: which thread reads which device.    *)
EXTENDS FuseDev, TLC

(* all threads of the daemon share one device *)
OneDevice == [s \in Servers |-> CHOOSE d \in Devices : TRUE]

(* each thread has a device of its own, its clone of the mount's *)
OwnDevice ==
    CHOOSE f \in [Servers -> Devices] : \A s, t \in Servers : f[s] = f[t] => s = t

Symmetry == Permutations(SyncReq) \cup Permutations(BgReq)

(* Threads that have a device each are exchanged together with it.         *)
WithDevice(p) ==
    [x \in Servers \cup Devices |->
        IF x \in Servers THEN p[x]
        ELSE DevOf[p[CHOOSE s \in Servers : DevOf[s] = x]]]
OwnSymmetry == Symmetry \cup {WithDevice(p) : p \in Permutations(Servers)}

=============================================================================
