------------------------------- MODULE ToyRcu -------------------------------
(***************************************************************************)
(* The toy RCU of rcu/toy_impl: sample_locking.c implements RCU with one   *)
(* reader-writer lock, sample_use.c protects a heap object with it and     *)
(* drives it from kernel threads that init_module starts and exit_module   *)
(* stops.                                                                  *)
(*                                                                         *)
(* A step is one lock operation or one access to shared memory.  Memory is *)
(* sequentially consistent: rcu_assign_pointer() is a store-release and    *)
(* rcu_dereference() a dependent load, so the order modelled is the order  *)
(* they guarantee.  Sleeping (schedule_timeout) is the delay any thread    *)
(* may suffer between two steps.                                           *)
(***************************************************************************)
EXTENDS Naturals, FiniteSets

CONSTANTS
    Readers,    \* the NUM_READER_THREADS threads that run kthread_reader
    Writers,    \* the NUM_WRITER_THREADS threads that run kthread_writer
    Addr,       \* the addresses kmalloc may return for a struct foo
    Vals,       \* the values of foo.a a writer may choose
    InitVal,    \* the value init_foo stores
    Garbage,    \* what memory holds before it is written or after kfree
    NULL,       \* the null pointer
    MaxFail     \* bound: how many allocations may fail in one behaviour

Threads == Readers \cup Writers

ASSUME ToyRcuAssumption ==
    /\ Readers \cap Writers = {}
    /\ InitVal \in Vals
    /\ Garbage \notin Vals
    /\ NULL \notin Addr \cup Vals
    /\ MaxFail \in Nat

VARIABLES
    mod,          \* where insmod, rmmod or the running module stands
    k,            \* the threads kthread_run has started
    should_stop,  \* the threads kthread_stop has been called for
    pc,           \* pc[t]: the next step of thread t
    heap,         \* the addresses that are allocated
    a,            \* a[x]: the field a of the struct foo at x
    gbl_foo,      \* the global pointer
    fp,           \* fp[t]: the pointer a reader dereferenced, a writer's old_fp
    new_fp,       \* new_fp[w]: the structure writer w allocated
    new_a,        \* new_a[w]: the value writer w will publish
    retval,       \* retval[r]: what foo_get_a read last
    rcu_readers,  \* rcu_gp_mutex: the threads that hold it for reading
    rcu_writer,   \* rcu_gp_mutex: the threads that hold it for writing
    foo_mutex,    \* the threads that hold the spin lock of the updaters
    fails         \* how many allocations have failed

vars == <<mod, k, should_stop, pc, heap, a, gbl_foo, fp, new_fp, new_a,
          retval, rcu_readers, rcu_writer, foo_mutex, fails>>

lockVars   == <<rcu_readers, rcu_writer, foo_mutex>>
memVars    == <<heap, a, gbl_foo>>
localVars  == <<fp, new_fp, new_a, retval>>
moduleVars == <<mod, k, should_stop>>

-----------------------------------------------------------------------------
(* Program points *)

ReaderPC == {"off", "loop", "read_lock", "deref", "load", "read_unlock",
             "done"}
WriterPC == {"off", "loop", "kmalloc", "spin_lock", "get_old", "copy",
             "set_a", "publish", "spin_unlock", "write_lock", "write_wait",
             "write_unlock", "kfree", "done", "oops"}
ModulePC == {"unloaded", "init_foo", "start", "running", "stop", "join",
             "exit_free", "oops"}

Goto(t, from, to) == pc[t] = from /\ pc' = [pc EXCEPT ![t] = to]

(* a thread kthread_stop need not wait for: its function returned, or the  *)
(* kernel killed it when it dereferenced a null pointer                    *)
Exited(t) == pc[t] \in {"done", "oops"}

Init ==
    /\ mod = "unloaded" /\ k = {} /\ should_stop = {}
    /\ pc = [t \in Threads |-> "off"]
    /\ heap = {} /\ a = [x \in Addr |-> Garbage] /\ gbl_foo = NULL
    /\ fp = [t \in Threads |-> NULL]
    /\ new_fp = [w \in Writers |-> NULL]
    /\ new_a = [w \in Writers |-> InitVal]
    /\ retval = [r \in Readers |-> InitVal]
    /\ rcu_readers = {} /\ rcu_writer = {} /\ foo_mutex = {}
    /\ fails = 0

-----------------------------------------------------------------------------
(* Module load and unload *)

(* insmod: the statics of a fresh image.  Nothing survives an earlier load *)
(* but the heap.                                                           *)
Insmod ==
    /\ mod = "unloaded"
    /\ mod' = "init_foo" /\ k' = {} /\ should_stop' = {}
    /\ pc' = [t \in Threads |-> "off"]
    /\ gbl_foo' = NULL
    /\ rcu_readers' = {} /\ rcu_writer' = {} /\ foo_mutex' = {}
    /\ UNCHANGED <<heap, a, localVars, fails>>

(* init_foo; only the field a is written *)
init_foo ==
    /\ mod = "init_foo"
    /\ \/ \E x \in Addr \ heap :
            /\ heap' = heap \cup {x}
            /\ a' = [a EXCEPT ![x] = InitVal]
            /\ gbl_foo' = x /\ mod' = "start" /\ UNCHANGED fails
       \/ /\ fails < MaxFail /\ fails' = fails + 1
          /\ mod' = "unloaded" /\ UNCHANGED memVars
    /\ UNCHANGED <<k, should_stop, pc, localVars, lockVars>>

(* init_kthread: the readers first, then the writers.  IS_ERR(k) tests the *)
(* address of the array, never the new entry, so a failed kthread_run is   *)
(* dereferenced by the pr_info that follows.                               *)
init_kthread ==
    /\ mod = "start"
    /\ \/ \E t \in Threads \ k :
            /\ t \in Writers => Readers \subseteq k
            /\ \/ /\ k' = k \cup {t}
                  /\ pc' = [pc EXCEPT ![t] = "loop"]
                  /\ UNCHANGED <<mod, fails>>
               \/ /\ fails < MaxFail /\ fails' = fails + 1
                  /\ mod' = "oops" /\ UNCHANGED <<k, pc>>
       \/ /\ k = Threads /\ mod' = "running" /\ UNCHANGED <<k, pc, fails>>
    /\ UNCHANGED <<should_stop, memVars, localVars, lockVars>>

(* rmmod calls exit_sample_toy_rcu *)
Rmmod ==
    /\ mod = "running" /\ mod' = "stop"
    /\ UNCHANGED <<k, should_stop, pc, memVars, localVars, lockVars, fails>>

(* kthread_stop(k[i]) for i in order: readers first.  It sets the flag ... *)
kthread_stop ==
    /\ mod = "stop"
    /\ \/ \E t \in k \ should_stop :
            /\ t \in Writers => Readers \subseteq should_stop
            /\ should_stop' = should_stop \cup {t} /\ mod' = "join"
       \/ should_stop = k /\ mod' = "exit_free" /\ UNCHANGED should_stop
    /\ UNCHANGED <<k, pc, memVars, localVars, lockVars, fails>>

(* mutant of kthread_join: exit does not wait for the threads *)
kthread_join_missing ==
    /\ mod = "join" /\ mod' = "stop"
    /\ UNCHANGED <<k, should_stop, pc, memVars, localVars, lockVars, fails>>

(* ... and waits for the thread to exit *)
kthread_join ==
    /\ mod = "join" /\ \A t \in should_stop : Exited(t)
    /\ mod' = "stop"
    /\ UNCHANGED <<k, should_stop, pc, memVars, localVars, lockVars, fails>>

(* kfree(gbl_foo); the module's text and data are gone afterwards *)
exit_free ==
    /\ mod = "exit_free" /\ mod' = "unloaded"
    /\ heap' = heap \ {gbl_foo}
    /\ a' = [a EXCEPT ![gbl_foo] = Garbage]
    /\ UNCHANGED <<k, should_stop, pc, gbl_foo, localVars, lockVars, fails>>

-----------------------------------------------------------------------------
(* Readers: kthread_reader calling foo_get_a *)

(* mutant of reader_loop: the flag kthread_stop sets is never looked at *)
reader_loop_never_stops(r) ==
    /\ Goto(r, "loop", "read_lock")
    /\ UNCHANGED <<moduleVars, memVars, localVars, lockVars, fails>>

reader_loop(r) ==
    /\ Goto(r, "loop", IF r \in should_stop THEN "done" ELSE "read_lock")
    /\ UNCHANGED <<moduleVars, memVars, localVars, lockVars, fails>>

(* the kernel's queued rwlock: a writer that waits keeps new readers out *)
WriteWaiting == {w \in Writers : pc[w] = "write_wait"}

(* mutant of toy_rcu_read_lock: a lock that prefers readers *)
read_lock_barging(r) ==
    /\ Goto(r, "read_lock", "deref") /\ rcu_writer = {}
    /\ rcu_readers' = rcu_readers \cup {r}
    /\ UNCHANGED <<moduleVars, memVars, localVars, rcu_writer, foo_mutex,
                   fails>>

toy_rcu_read_lock(r) ==
    /\ Goto(r, "read_lock", "deref") /\ rcu_writer = {} /\ WriteWaiting = {}
    /\ rcu_readers' = rcu_readers \cup {r}
    /\ UNCHANGED <<moduleVars, memVars, localVars, rcu_writer, foo_mutex,
                   fails>>

rcu_dereference(r) ==
    /\ Goto(r, "deref", "load")
    /\ fp' = [fp EXCEPT ![r] = gbl_foo]
    /\ UNCHANGED <<moduleVars, memVars, new_fp, new_a, retval, lockVars,
                   fails>>

load_a(r) ==
    /\ Goto(r, "load", "read_unlock")
    /\ retval' = [retval EXCEPT ![r] = a[fp[r]]]
    /\ UNCHANGED <<moduleVars, memVars, fp, new_fp, new_a, lockVars, fails>>

toy_rcu_read_unlock(r) ==
    /\ Goto(r, "read_unlock", "loop")
    /\ rcu_readers' = rcu_readers \ {r}
    /\ UNCHANGED <<moduleVars, memVars, localVars, rcu_writer, foo_mutex,
                   fails>>

-----------------------------------------------------------------------------
(* Writers: kthread_writer calling foo_update_a *)

(* mutant of writer_loop: val is passed on uninitialised *)
writer_loop_no_val(w) ==
    /\ Goto(w, "loop", IF w \in should_stop THEN "done" ELSE "kmalloc")
    /\ new_a' = [new_a EXCEPT ![w] = Garbage]
    /\ UNCHANGED <<moduleVars, memVars, fp, new_fp, retval, lockVars, fails>>

writer_loop(w) ==
    /\ \/ w \in should_stop /\ Goto(w, "loop", "done") /\ UNCHANGED new_a
       \/ /\ w \notin should_stop /\ Goto(w, "loop", "kmalloc")
          /\ \E v \in Vals : new_a' = [new_a EXCEPT ![w] = v]
    /\ UNCHANGED <<moduleVars, memVars, fp, new_fp, retval, lockVars, fails>>

(* the result of kmalloc is not tested *)
kmalloc_new(w) ==
    /\ Goto(w, "kmalloc", "spin_lock")
    /\ \/ \E x \in Addr \ heap :
            /\ heap' = heap \cup {x}
            /\ a' = [a EXCEPT ![x] = Garbage]
            /\ new_fp' = [new_fp EXCEPT ![w] = x] /\ UNCHANGED fails
       \/ /\ fails < MaxFail /\ fails' = fails + 1
          /\ new_fp' = [new_fp EXCEPT ![w] = NULL] /\ UNCHANGED <<heap, a>>
    /\ UNCHANGED <<moduleVars, gbl_foo, fp, new_a, retval, lockVars>>

(* mutant of spin_lock: updaters do not exclude each other *)
spin_lock_missing(w) ==
    /\ Goto(w, "spin_lock", "get_old") /\ foo_mutex' = {w}
    /\ UNCHANGED <<moduleVars, memVars, localVars, rcu_readers, rcu_writer,
                   fails>>

spin_lock(w) ==
    /\ Goto(w, "spin_lock", "get_old") /\ foo_mutex = {}
    /\ foo_mutex' = {w}
    /\ UNCHANGED <<moduleVars, memVars, localVars, rcu_readers, rcu_writer,
                   fails>>

get_old(w) ==
    /\ Goto(w, "get_old", "copy")
    /\ fp' = [fp EXCEPT ![w] = gbl_foo]
    /\ UNCHANGED <<moduleVars, memVars, new_fp, new_a, retval, lockVars,
                   fails>>

(* mutant of copy_foo: published before new_fp->a is set *)
copy_foo_published_early(w) ==
    /\ \/ /\ new_fp[w] # NULL /\ Goto(w, "copy", "set_a")
          /\ a' = [a EXCEPT ![new_fp[w]] = a[fp[w]]] /\ gbl_foo' = new_fp[w]
       \/ new_fp[w] = NULL /\ Goto(w, "copy", "oops") /\ UNCHANGED <<a, gbl_foo>>
    /\ UNCHANGED <<moduleVars, heap, localVars, lockVars, fails>>

(* *new_fp = *old_fp, an oops when kmalloc returned NULL: the thread dies  *)
(* with the spin lock held                                                 *)
copy_foo(w) ==
    /\ \/ /\ new_fp[w] # NULL /\ Goto(w, "copy", "set_a")
          /\ a' = [a EXCEPT ![new_fp[w]] = a[fp[w]]]
       \/ new_fp[w] = NULL /\ Goto(w, "copy", "oops") /\ UNCHANGED a
    /\ UNCHANGED <<moduleVars, heap, gbl_foo, localVars, lockVars, fails>>

set_a(w) ==
    /\ Goto(w, "set_a", "publish")
    /\ a' = [a EXCEPT ![new_fp[w]] = new_a[w]]
    /\ UNCHANGED <<moduleVars, heap, gbl_foo, localVars, lockVars, fails>>

rcu_assign_pointer(w) ==
    /\ Goto(w, "publish", "spin_unlock")
    /\ gbl_foo' = new_fp[w]
    /\ UNCHANGED <<moduleVars, heap, a, localVars, lockVars, fails>>

spin_unlock(w) ==
    /\ Goto(w, "spin_unlock", "write_lock")
    /\ foo_mutex' = {}
    /\ UNCHANGED <<moduleVars, memVars, localVars, rcu_readers, rcu_writer,
                   fails>>

(* mutant of toy_synchronize_rcu_wait: no grace period *)
synchronize_rcu_missing(w) ==
    /\ Goto(w, "write_lock", "kfree")
    /\ UNCHANGED <<moduleVars, memVars, localVars, lockVars, fails>>

(* toy_synchronize_rcu takes the lock for writing and releases it at once. *)
(* write_lock first announces the writer, then waits for the lock to drain *)
toy_synchronize_rcu_wait(w) ==
    /\ Goto(w, "write_lock", "write_wait") /\ WriteWaiting = {}
    /\ UNCHANGED <<moduleVars, memVars, localVars, lockVars, fails>>

toy_synchronize_rcu_lock(w) ==
    /\ Goto(w, "write_wait", "write_unlock")
    /\ rcu_readers = {} /\ rcu_writer = {}
    /\ rcu_writer' = {w}
    /\ UNCHANGED <<moduleVars, memVars, localVars, rcu_readers, foo_mutex,
                   fails>>

toy_synchronize_rcu_unlock(w) ==
    /\ Goto(w, "write_unlock", "kfree")
    /\ rcu_writer' = {}
    /\ UNCHANGED <<moduleVars, memVars, localVars, rcu_readers, foo_mutex,
                   fails>>

kfree_old(w) ==
    /\ Goto(w, "kfree", "loop")
    /\ heap' = heap \ {fp[w]}
    /\ a' = [a EXCEPT ![fp[w]] = Garbage]
    /\ UNCHANGED <<moduleVars, gbl_foo, localVars, lockVars, fails>>

-----------------------------------------------------------------------------
Module ==
    \/ Insmod \/ init_foo \/ init_kthread \/ Rmmod
    \/ kthread_stop \/ kthread_join \/ exit_free

Reader(r) ==
    \/ reader_loop(r) \/ toy_rcu_read_lock(r) \/ rcu_dereference(r)
    \/ load_a(r) \/ toy_rcu_read_unlock(r)

Writer(w) ==
    \/ writer_loop(w) \/ kmalloc_new(w) \/ spin_lock(w) \/ get_old(w)
    \/ copy_foo(w) \/ set_a(w) \/ rcu_assign_pointer(w) \/ spin_unlock(w)
    \/ toy_synchronize_rcu_wait(w) \/ toy_synchronize_rcu_lock(w)
    \/ toy_synchronize_rcu_unlock(w) \/ kfree_old(w)

Next ==
    \/ Module
    \/ \E r \in Readers : Reader(r)
    \/ \E w \in Writers : Writer(w)

Spec == Init /\ [][Next]_vars

(* Every thread the scheduler runs takes its next step; whether the module *)
(* is loaded or removed is the user's choice.  Linux's queued spin and     *)
(* read-write locks serve their waiters in order, so a thread that finds a *)
(* lock free again and again gets it: strong fairness for the three        *)
(* acquisitions.                                                           *)
Fairness ==
    /\ WF_vars(init_foo \/ init_kthread \/ kthread_stop \/ kthread_join
               \/ exit_free)
    /\ \A r \in Readers : WF_vars(Reader(r)) /\ SF_vars(toy_rcu_read_lock(r))
    /\ \A w \in Writers :
         /\ WF_vars(Writer(w))
         /\ SF_vars(spin_lock(w))
         /\ SF_vars(toy_synchronize_rcu_wait(w))

FairSpec == Spec /\ Fairness

-----------------------------------------------------------------------------
(* Properties *)

TypeOK ==
    /\ mod \in ModulePC /\ k \subseteq Threads /\ should_stop \subseteq Threads
    /\ pc \in [Threads -> ReaderPC \cup WriterPC]
    /\ \A r \in Readers : pc[r] \in ReaderPC
    /\ \A w \in Writers : pc[w] \in WriterPC
    /\ heap \subseteq Addr /\ a \in [Addr -> Vals \cup {Garbage}]
    /\ gbl_foo \in Addr \cup {NULL}
    /\ fp \in [Threads -> Addr \cup {NULL}]
    /\ new_fp \in [Writers -> Addr \cup {NULL}]
    /\ new_a \in [Writers -> Vals]
    /\ retval \in [Readers -> Vals \cup {Garbage}]
    /\ rcu_readers \subseteq Readers /\ rcu_writer \subseteq Writers
    /\ foo_mutex \subseteq Writers /\ fails \in Nat

(* The grace period of toy_synchronize_rcu (sample_use.c:46-47) is long    *)
(* enough: no thread ever touches a structure that has been freed, whether *)
(* a reader that took the pointer before it was replaced, a writer that    *)
(* copies the old structure or fills the new one, or kfree itself.         *)
NoUseAfterFree ==
    /\ \A r \in Readers : pc[r] = "load" => fp[r] \in heap
    /\ \A w \in Writers :
         /\ pc[w] = "copy" => fp[w] \in heap
         /\ pc[w] \in {"set_a", "publish"} => new_fp[w] \in heap
         /\ pc[w] = "kfree" => fp[w] \in heap
    /\ mod = "exit_free" => gbl_foo \in heap

(* The structures that exist are exactly the published one and the ones    *)
(* that a writer inside foo_update_a has not published or not yet freed.   *)
Loaded == {"start", "running", "stop", "join", "exit_free", "oops"}
PrivatePC == {"spin_lock", "get_old", "copy", "set_a", "publish"}
RetiredPC == {"spin_unlock", "write_lock", "write_wait", "write_unlock",
              "kfree"}

Private == {new_fp[w] : w \in {v \in Writers : pc[v] \in PrivatePC}} \ {NULL}
Retired == {fp[w] : w \in {v \in Writers : pc[v] \in RetiredPC}}

HeapAccounted ==
    heap = (IF mod \in Loaded THEN {gbl_foo} ELSE {}) \cup Private \cup Retired

(* "TODO: Is there memory leak?" (use_example/sample_synchronize_rcu.c:1):  *)
(* no.  However often the module is loaded and removed, nothing it         *)
(* allocated outlives it, because kthread_stop waits for an update in      *)
(* flight to free its old structure before exit_sample_toy_rcu frees the   *)
(* last one.                                                               *)
NoLeak == mod = "unloaded" => heap = {}

(* foo_mutex makes foo_update_a an atomic replacement: from the moment a   *)
(* writer reads the old pointer to the moment it publishes, no other       *)
(* writer publishes, so the structure it frees is the one it replaced.     *)
NoLostUpdate ==
    \A w \in Writers :
        pc[w] \in {"copy", "set_a", "publish"} => fp[w] = gbl_foo

(* The readers and writers implement one register: a reader returns the    *)
(* value that was published when it dereferenced gbl_foo, never garbage    *)
(* and never the value of a structure that reuses the address.             *)
Register == INSTANCE FooRegister WITH
    None <- NULL,
    reg  <- IF mod \in Loaded THEN a[gbl_foo] ELSE NULL,
    snap <- [r \in Readers |-> IF pc[r] = "load" THEN a[fp[r]] ELSE NULL],
    ret  <- retval

ImplementsRegister == Register!Spec

(* toy_synchronize_rcu returns: readers that keep coming cannot keep a     *)
(* writer from finishing its update.                                       *)
UpdateCompletes ==
    \A w \in Writers : pc[w] = "write_lock" ~> pc[w] = "loop"

(* rmmod ends: every kthread_stop is answered, whatever its thread was     *)
(* doing, and the module goes away.  Only a writer that died on a failed   *)
(* allocation can prevent it: it keeps foo_mutex, and another writer spins *)
(* on it for ever.                                                         *)
UnloadCompletes ==
    mod = "stop" ~> mod = "unloaded" \/ \E w \in Writers : pc[w] = "oops"

-----------------------------------------------------------------------------
(* The inductive invariant behind NoUseAfterFree, NoLeak, NoLostUpdate and *)
(* the refinement.                                                         *)

ReadingPC  == {"deref", "load", "read_unlock"}
CriticalPC == {"get_old", "copy", "set_a", "publish", "spin_unlock"}
GracePC    == {"spin_unlock", "write_lock", "write_wait"}

(* who holds which lock *)
LockInv ==
    /\ \A r \in Readers : pc[r] \in ReadingPC => r \in rcu_readers
    /\ \A w \in Writers : pc[w] \in CriticalPC \cup {"oops"} => foo_mutex = {w}

(* which threads may run at each stage of load and unload *)
LifeInv ==
    /\ mod \in {"unloaded", "init_foo"} =>
         \A t \in Threads : pc[t] \in {"off", "done", "oops"}
    /\ mod = "start" => \A t \in Threads \ k : pc[t] = "off"
    /\ mod = "init_foo" => k = {} /\ \A t \in Threads : pc[t] = "off"
    /\ mod \in {"init_foo", "start", "running"} => should_stop = {}
    /\ mod \in {"running", "stop", "join", "exit_free"} => k = Threads
    /\ mod = "stop" => \A t \in should_stop : Exited(t)
    /\ mod = "exit_free" => \A t \in Threads : Exited(t)

(* what each pointer may point to *)
GblInv == mod \in Loaded => gbl_foo \in heap /\ a[gbl_foo] \in Vals

PrivateInv ==
    \A w \in Writers :
        /\ pc[w] \in PrivatePC /\ new_fp[w] # NULL =>
             /\ new_fp[w] \in heap /\ new_fp[w] # gbl_foo
             /\ \A v \in Writers \ {w} :
                  pc[v] \in PrivatePC => new_fp[v] # new_fp[w]
        /\ pc[w] \in {"set_a", "publish"} => new_fp[w] # NULL
        /\ pc[w] = "publish" => a[new_fp[w]] \in Vals

RetiredInv ==
    \A w \in Writers : pc[w] \in RetiredPC =>
        /\ fp[w] \in heap /\ fp[w] # gbl_foo /\ a[fp[w]] \in Vals
        /\ \A v \in Writers \ {w} :
             /\ pc[v] \in RetiredPC => fp[v] # fp[w]
             /\ pc[v] \in PrivatePC => new_fp[v] # fp[w]

(* a reader holds the published structure or one still in its grace period *)
ReaderInv ==
    \A r \in Readers : pc[r] = "load" =>
        \/ fp[r] = gbl_foo
        \/ \E w \in Writers : pc[w] \in GracePC /\ fp[w] = fp[r]

(* nothing else is allocated *)
CoverInv ==
    \A x \in heap :
        \/ mod \in Loaded /\ x = gbl_foo
        \/ \E w \in Writers : pc[w] \in PrivatePC /\ new_fp[w] = x
        \/ \E w \in Writers : pc[w] \in RetiredPC /\ fp[w] = x

Inv ==
    /\ TypeOK /\ LockInv /\ LifeInv /\ GblInv /\ PrivateInv /\ RetiredInv
    /\ ReaderInv /\ NoLostUpdate /\ CoverInv

=============================================================================
