------------------------------ MODULE RcuSample ------------------------------
(***************************************************************************)
(* rcu/use_example: sample_synchronize_rcu.c and sample_call_rcu.c, the    *)
(* same module over the kernel's own RCU.  They differ in how foo_update_a *)
(* reclaims the old structure: the first waits in synchronize_rcu() and    *)
(* frees it, the second hands it to call_rcu() and goes on.  insmod loads  *)
(* either of them, one at a time.                                          *)
(*                                                                         *)
(* RCU itself is external and is modelled by its contract: a grace period  *)
(* ends when every reader that was inside a read-side section at its start *)
(* has left it.  A step is one access to shared memory or one call of the  *)
(* kernel.                                                                 *)
(***************************************************************************)
EXTENDS Naturals, FiniteSets

CONSTANTS
    Readers,    \* the threads that run kthread_reader
    Writers,    \* the threads that run kthread_writer
    Addr,       \* the addresses kmalloc may return
    NULL,       \* the null pointer
    Modules,    \* what insmod may load: "synchronize_rcu", "call_rcu"
    MaxFail     \* bound: how many allocations may fail

Threads == Readers \cup Writers

ASSUME RcuSampleAssumption ==
    /\ Readers \cap Writers = {}
    /\ NULL \notin Addr
    /\ Modules \subseteq {"synchronize_rcu", "call_rcu"} /\ Modules # {}
    /\ MaxFail \in Nat

VARIABLES
    loaded,       \* the module that was loaded last
    mod,          \* where insmod, rmmod or the running module stands
    started,      \* the threads kthread_run has started
    should_stop,  \* the threads kthread_stop has been called for
    pc,           \* pc[t]: the next step of thread t
    heap,         \* the addresses that are allocated
    inited,       \* the allocated structures whose fields have been written
    gbl_foo,      \* the global pointer
    fp,           \* fp[t]: a reader's pointer, a writer's old_fp
    new_fp,       \* new_fp[w]: the structure writer w allocated
    foo_mutex,    \* the threads that hold the updaters' spin lock
    in_rcu,       \* RCU: the readers inside a read-side section
    waiting,      \* RCU: waiting[w], the readers synchronize_rcu() waits for
    callbacks,    \* RCU: the callbacks call_rcu() has queued
    fails         \* how many allocations have failed

vars == <<loaded, mod, started, should_stop, pc, heap, inited, gbl_foo, fp, new_fp,
          foo_mutex, in_rcu, waiting, callbacks, fails>>

moduleVars == <<loaded, mod, started, should_stop>>
memVars    == <<heap, inited, gbl_foo>>
rcuVars    == <<in_rcu, waiting, callbacks>>

Goto(t, from, to) == pc[t] = from /\ pc' = [pc EXCEPT ![t] = to]
Exited(t) == pc[t] \in {"done", "oops"}

(* kfree: the memory no longer holds a structure *)
Kfree(x) == heap' = heap \ {x} /\ inited' = inited \ {x}

Init ==
    /\ loaded \in Modules /\ mod = "unloaded" /\ started = {} /\ should_stop = {}
    /\ pc = [t \in Threads |-> "off"]
    /\ heap = {} /\ inited = {} /\ gbl_foo = NULL
    /\ fp = [t \in Threads |-> NULL] /\ new_fp = [w \in Writers |-> NULL]
    /\ foo_mutex = {}
    /\ in_rcu = {} /\ waiting = [w \in Writers |-> {}] /\ callbacks = {}
    /\ fails = 0

-----------------------------------------------------------------------------
(* Module load and unload *)

Insmod ==
    /\ mod = "unloaded" /\ loaded' \in Modules
    /\ mod' = "init_foo" /\ started' = {} /\ should_stop' = {}
    /\ pc' = [t \in Threads |-> "off"]
    /\ gbl_foo' = NULL /\ foo_mutex' = {}
    /\ UNCHANGED <<heap, inited, fp, new_fp, rcuVars, fails>>

init_foo ==
    /\ mod = "init_foo"
    /\ \/ \E x \in Addr \ heap :
            /\ heap' = heap \cup {x} /\ inited' = inited \cup {x}
            /\ gbl_foo' = x /\ mod' = "start" /\ UNCHANGED fails
       \/ /\ fails < MaxFail /\ fails' = fails + 1
          /\ mod' = "unloaded" /\ UNCHANGED memVars
    /\ UNCHANGED <<loaded, started, should_stop, pc, fp, new_fp, foo_mutex, rcuVars>>

(* the readers first; IS_ERR(k) never holds, a failed kthread_run is       *)
(* dereferenced by the pr_info that follows                                *)
init_kthread ==
    /\ mod = "start"
    /\ \/ \E t \in Threads \ started :
            /\ t \in Writers => Readers \subseteq started
            /\ \/ /\ started' = started \cup {t}
                  /\ pc' = [pc EXCEPT ![t] = "loop"]
                  /\ UNCHANGED <<mod, fails>>
               \/ /\ fails < MaxFail /\ fails' = fails + 1
                  /\ mod' = "oops" /\ UNCHANGED <<started, pc>>
       \/ started = Threads /\ mod' = "running" /\ UNCHANGED <<started, pc, fails>>
    /\ UNCHANGED <<loaded, should_stop, memVars, fp, new_fp, foo_mutex, rcuVars>>

Rmmod ==
    /\ mod = "running" /\ mod' = "stop"
    /\ UNCHANGED <<loaded, started, should_stop, pc, memVars, fp, new_fp, foo_mutex,
                   rcuVars, fails>>

kthread_stop ==
    /\ mod = "stop"
    /\ \/ \E t \in started \ should_stop :
            /\ t \in Writers => Readers \subseteq should_stop
            /\ should_stop' = should_stop \cup {t} /\ mod' = "join"
       \/ should_stop = started /\ mod' = "exit_free" /\ UNCHANGED should_stop
    /\ UNCHANGED <<loaded, started, pc, memVars, fp, new_fp, foo_mutex, rcuVars,
                   fails>>

(* mutant of kthread_join: exit does not wait for the threads *)
kthread_join_missing ==
    /\ mod = "join" /\ mod' = "stop"
    /\ UNCHANGED <<loaded, started, should_stop, pc, memVars, fp, new_fp, foo_mutex,
                   rcuVars, fails>>

kthread_join ==
    /\ mod = "join" /\ \A t \in should_stop : Exited(t)
    /\ mod' = "stop"
    /\ UNCHANGED <<loaded, started, should_stop, pc, memVars, fp, new_fp, foo_mutex,
                   rcuVars, fails>>

(* kfree(gbl_foo), then the module's memory goes away: foo_reclaim with it *)
exit_free ==
    /\ mod = "exit_free" /\ mod' = "unloaded"
    /\ Kfree(gbl_foo)
    /\ callbacks' = {[c EXCEPT !.code = FALSE] : c \in callbacks}
    /\ UNCHANGED <<loaded, started, should_stop, pc, gbl_foo, fp, new_fp, foo_mutex,
                   in_rcu, waiting, fails>>

-----------------------------------------------------------------------------
(* Readers *)

reader_loop(r) ==
    /\ Goto(r, "loop", IF r \in should_stop THEN "done" ELSE "read_lock")
    /\ UNCHANGED <<moduleVars, memVars, fp, new_fp, foo_mutex, rcuVars, fails>>

(* mutant of rcu_read_lock: the reader does not announce itself *)
rcu_read_lock_missing(r) ==
    /\ Goto(r, "read_lock", "deref")
    /\ UNCHANGED <<moduleVars, memVars, fp, new_fp, foo_mutex, rcuVars, fails>>

rcu_read_lock(r) ==
    /\ Goto(r, "read_lock", "deref")
    /\ in_rcu' = in_rcu \cup {r}
    /\ UNCHANGED <<moduleVars, memVars, fp, new_fp, foo_mutex, waiting,
                   callbacks, fails>>

rcu_dereference(r) ==
    /\ Goto(r, "deref", "load")
    /\ fp' = [fp EXCEPT ![r] = gbl_foo]
    /\ UNCHANGED <<moduleVars, memVars, new_fp, foo_mutex, rcuVars, fails>>

load_a(r) ==
    /\ Goto(r, "load", "read_unlock")
    /\ UNCHANGED <<moduleVars, memVars, fp, new_fp, foo_mutex, rcuVars, fails>>

(* the reader has left: no grace period waits for it any more *)
rcu_read_unlock(r) ==
    /\ Goto(r, "read_unlock", "loop")
    /\ in_rcu' = in_rcu \ {r}
    /\ waiting' = [w \in Writers |-> waiting[w] \ {r}]
    /\ callbacks' = {[c EXCEPT !.waits = @ \ {r}] : c \in callbacks}
    /\ UNCHANGED <<moduleVars, memVars, fp, new_fp, foo_mutex, fails>>

-----------------------------------------------------------------------------
(* Writers *)

writer_loop(w) ==
    /\ Goto(w, "loop", IF w \in should_stop THEN "done" ELSE "kmalloc")
    /\ UNCHANGED <<moduleVars, memVars, fp, new_fp, foo_mutex, rcuVars, fails>>

kmalloc_new(w) ==
    /\ Goto(w, "kmalloc", "spin_lock")
    /\ \/ \E x \in Addr \ heap :
            /\ heap' = heap \cup {x}
            /\ new_fp' = [new_fp EXCEPT ![w] = x] /\ UNCHANGED fails
       \/ /\ fails < MaxFail /\ fails' = fails + 1
          /\ new_fp' = [new_fp EXCEPT ![w] = NULL] /\ UNCHANGED heap
    /\ UNCHANGED <<moduleVars, inited, gbl_foo, fp, foo_mutex, rcuVars>>

spin_lock(w) ==
    /\ Goto(w, "spin_lock", "get_old") /\ foo_mutex = {}
    /\ foo_mutex' = {w}
    /\ UNCHANGED <<moduleVars, memVars, fp, new_fp, rcuVars, fails>>

get_old(w) ==
    /\ Goto(w, "get_old", "copy")
    /\ fp' = [fp EXCEPT ![w] = gbl_foo]
    /\ UNCHANGED <<moduleVars, memVars, new_fp, foo_mutex, rcuVars, fails>>

(* *new_fp = *old_fp and new_fp->a = new_a; an oops when kmalloc failed *)
copy_foo(w) ==
    /\ \/ /\ new_fp[w] # NULL /\ Goto(w, "copy", "publish")
          /\ inited' = inited \cup {new_fp[w]}
       \/ new_fp[w] = NULL /\ Goto(w, "copy", "oops") /\ UNCHANGED inited
    /\ UNCHANGED <<moduleVars, heap, gbl_foo, fp, new_fp, foo_mutex, rcuVars,
                   fails>>

rcu_assign_pointer(w) ==
    /\ Goto(w, "publish", "spin_unlock")
    /\ gbl_foo' = new_fp[w]
    /\ UNCHANGED <<moduleVars, heap, inited, fp, new_fp, foo_mutex, rcuVars,
                   fails>>

spin_unlock(w) ==
    /\ Goto(w, "spin_unlock", "reclaim")
    /\ foo_mutex' = {}
    /\ UNCHANGED <<moduleVars, memVars, fp, new_fp, rcuVars, fails>>

(* sample_synchronize_rcu.c: start a grace period, sleep until it ends *)
synchronize_rcu(w) ==
    /\ loaded = "synchronize_rcu" /\ Goto(w, "reclaim", "waiting")
    /\ waiting' = [waiting EXCEPT ![w] = in_rcu]
    /\ UNCHANGED <<moduleVars, memVars, fp, new_fp, foo_mutex, in_rcu,
                   callbacks, fails>>

synchronize_rcu_return(w) ==
    /\ Goto(w, "waiting", "kfree") /\ waiting[w] = {}
    /\ UNCHANGED <<moduleVars, memVars, fp, new_fp, foo_mutex, rcuVars, fails>>

kfree_old(w) ==
    /\ Goto(w, "kfree", "loop") /\ Kfree(fp[w])
    /\ UNCHANGED <<moduleVars, gbl_foo, fp, new_fp, foo_mutex, rcuVars, fails>>

(* sample_call_rcu.c: queue foo_reclaim for the old structure and go on *)
call_rcu(w) ==
    /\ loaded = "call_rcu" /\ Goto(w, "reclaim", "loop")
    /\ callbacks' = callbacks \cup
          {[ptr |-> fp[w], waits |-> in_rcu, code |-> TRUE]}
    /\ UNCHANGED <<moduleVars, memVars, fp, new_fp, foo_mutex, in_rcu,
                   waiting, fails>>

-----------------------------------------------------------------------------
(* The RCU softirq runs a callback whose grace period has ended; when the  *)
(* module is gone it jumps into unmapped memory and the machine panics.    *)
foo_reclaim ==
    /\ \E c \in callbacks :
         /\ c.waits = {}
         /\ callbacks' = callbacks \ {c}
         /\ \/ c.code /\ Kfree(c.ptr) /\ UNCHANGED mod
            \/ ~c.code /\ mod' = "panic" /\ UNCHANGED <<heap, inited>>
    /\ UNCHANGED <<loaded, started, should_stop, pc, gbl_foo, fp, new_fp, foo_mutex,
                   in_rcu, waiting, fails>>

Module ==
    \/ Insmod \/ init_foo \/ init_kthread \/ Rmmod
    \/ kthread_stop \/ kthread_join \/ exit_free

Reader(r) ==
    \/ reader_loop(r) \/ rcu_read_lock(r) \/ rcu_dereference(r)
    \/ load_a(r) \/ rcu_read_unlock(r)

Writer(w) ==
    \/ writer_loop(w) \/ kmalloc_new(w) \/ spin_lock(w) \/ get_old(w)
    \/ copy_foo(w) \/ rcu_assign_pointer(w) \/ spin_unlock(w)
    \/ synchronize_rcu(w) \/ synchronize_rcu_return(w) \/ kfree_old(w)
    \/ call_rcu(w)

Next ==
    /\ mod # "panic"
    /\ \/ Module
       \/ \E r \in Readers : Reader(r)
       \/ \E w \in Writers : Writer(w)
       \/ foo_reclaim

Spec == Init /\ [][Next]_vars

(* Threads are scheduled, the spin lock is a queued lock, and the softirq  *)
(* runs the callbacks that are due.  Loading and unloading are choices.    *)
Fairness ==
    /\ WF_vars(init_foo \/ init_kthread \/ kthread_stop \/ kthread_join
               \/ exit_free)
    /\ \A r \in Readers : WF_vars(Reader(r))
    /\ \A w \in Writers : WF_vars(Writer(w)) /\ SF_vars(spin_lock(w))
    /\ WF_vars(foo_reclaim)

FairSpec == Spec /\ Fairness

-----------------------------------------------------------------------------
(* Properties *)

(* "Uses rcu_assign_pointer() to ensure that concurrent readers see the    *)
(* initialized version of the new structure" and the grace period "to      *)
(* ensure that any readers that might have references to the old structure *)
(* complete before freeing" (sample_call_rcu.c:35-40): what a reader loads *)
(* from, and what a writer copies from, is allocated and initialised.      *)
NoUseAfterFree ==
    /\ \A r \in Readers : pc[r] = "load" => fp[r] \in inited
    /\ \A w \in Writers : pc[w] = "copy" => fp[w] \in inited
    /\ \A w \in Writers : pc[w] = "publish" => new_fp[w] \in heap

(* No structure is freed twice: each one that waits to be freed, by a      *)
(* writer, a callback or the exit function, is allocated, is not the       *)
(* published one, and waits once.                                          *)
Retired == {w \in Writers : pc[w] \in {"spin_unlock", "reclaim", "waiting",
                                       "kfree"}}

NoDoubleFree ==
    /\ \A w \in Retired : fp[w] \in heap \ {gbl_foo}
    /\ \A c \in callbacks : c.ptr \in heap \ {gbl_foo}
    /\ \A w, v \in Retired : w # v => fp[w] # fp[v]
    /\ \A w \in Retired, c \in callbacks : c.ptr # fp[w]
    /\ \A c, d \in callbacks : c # d => c.ptr # d.ptr
    /\ mod = "exit_free" => gbl_foo \in heap

(* foo_get_a, foo_update_a and foo_reclaim: no structure is used before it *)
(* is initialised or after it is freed, and none is freed twice.           *)
MemorySafe == NoUseAfterFree /\ NoDoubleFree

(* "TODO: Is there memory leak?" (sample_synchronize_rcu.c:1): no.  What   *)
(* is still allocated when the module is gone is what call_rcu() has not   *)
(* yet reclaimed, which is nothing if only the variant that waits is used. *)
NoLeak == mod = "unloaded" => heap = {c.ptr : c \in callbacks}

(* foo_update_a "frees up the old structure after a grace period"          *)
(* (sample_call_rcu.c:32): every structure that call_rcu() was given is    *)
(* freed in the end, whatever the user does with the module.               *)
OldFreed ==
    \A x \in Addr :
        (\E c \in callbacks : c.ptr = x) ~> (\A c \in callbacks : c.ptr # x)
                                            /\ mod # "panic"

=============================================================================
