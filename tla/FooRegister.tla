----------------------------- MODULE FooRegister -----------------------------
(***************************************************************************)
(* What rcu/toy_impl/sample_use.c promises to the callers of foo_get_a and *)
(* foo_update_a: the field a of the protected structure behaves as one     *)
(* register.  A read takes a value the register has at one moment inside   *)
(* the read-side section and returns exactly that value, whatever is       *)
(* written, retired or freed in between; the register is taken away only   *)
(* when no read is in progress.                                            *)
(***************************************************************************)
CONSTANTS
    Readers,    \* the threads that read
    Vals,       \* the values of the register
    InitVal,    \* its first value
    None        \* no register, or no read in progress

VARIABLES
    reg,    \* the register
    snap,   \* snap[r]: the value reader r has taken and not yet returned
    ret     \* ret[r]: the value reader r returned last

regVars == <<reg, snap, ret>>

Init ==
    /\ reg = None
    /\ snap = [r \in Readers |-> None]
    /\ ret = [r \in Readers |-> InitVal]

(* the module is loaded *)
Create == reg = None /\ reg' = InitVal /\ UNCHANGED <<snap, ret>>

(* foo_update_a *)
Write == reg # None /\ reg' \in Vals /\ UNCHANGED <<snap, ret>>

(* foo_get_a: the value is taken ... *)
Take(r) ==
    /\ reg # None /\ snap[r] = None
    /\ snap' = [snap EXCEPT ![r] = reg]
    /\ UNCHANGED <<reg, ret>>

(* ... and returned *)
Return(r) ==
    /\ snap[r] # None
    /\ ret' = [ret EXCEPT ![r] = snap[r]]
    /\ snap' = [snap EXCEPT ![r] = None]
    /\ UNCHANGED reg

(* the module is removed *)
Destroy ==
    /\ reg # None /\ \A r \in Readers : snap[r] = None
    /\ reg' = None /\ UNCHANGED <<snap, ret>>

Next == Create \/ Write \/ Destroy \/ \E r \in Readers : Take(r) \/ Return(r)

Spec == Init /\ [][Next]_regVars

=============================================================================
