--------------------------- MODULE ExamplesProofs ----------------------------
(***************************************************************************)
(* Proofs about the examples.                                              *)
(*                                                                         *)
(* RcuSample, for any sets of readers, writers and addresses, for either   *)
(* module or a change between them at every load, and for any number of    *)
(* failing allocations.  The invariant RcuInv says who is responsible for  *)
(* every structure: the global pointer, the writer that allocated it, the  *)
(* writer that replaced it, or a queued callback; and that a grace period  *)
(* still waits for every reader that may use a replaced structure.  One    *)
(* lemma per conjunct, one step per action.                                *)
(*                                                                         *)
(* ExampleDevices, the instance E of MCExamples, for any finite sets of    *)
(* files and areas.  The invariant DevInv counts the references to a page: *)
(* its info, the page tables that have it, the callers that pinned it.     *)
(***************************************************************************)
EXTENDS MCExamples, FiniteSetTheorems, TLAPS

USE RcuSampleAssumption DEF Threads

ReaderPC == {"off", "loop", "read_lock", "deref", "load", "read_unlock", "done"}
WriterPC == {"off", "loop", "kmalloc", "spin_lock", "get_old", "copy", "publish",
             "spin_unlock", "reclaim", "waiting", "kfree", "done", "oops"}
ModulePC == {"unloaded", "init_foo", "start", "running", "stop", "join",
             "exit_free", "oops", "panic"}

Ptr == Addr \cup {NULL}
Callback == [ptr : Addr, waits : SUBSET Readers, code : BOOLEAN]

TypeOK ==
    /\ loaded \in Modules /\ mod \in ModulePC
    /\ started \subseteq Threads /\ should_stop \subseteq started
    /\ pc \in [Threads -> ReaderPC \cup WriterPC]
    /\ \A r \in Readers : pc[r] \in ReaderPC
    /\ \A w \in Writers : pc[w] \in WriterPC
    /\ heap \subseteq Addr /\ inited \subseteq heap /\ gbl_foo \in Ptr
    /\ fp \in [Threads -> Ptr] /\ new_fp \in [Writers -> Ptr]
    /\ foo_mutex \subseteq Writers
    /\ in_rcu \subseteq Readers /\ waiting \in [Writers -> SUBSET Readers]
    /\ callbacks \subseteq Callback
    /\ fails \in Nat

(* A thread that is running, and the steps that matter for memory.         *)
Active(t) == pc[t] \notin {"off", "done", "oops"}
Private(w) == pc[w] \in {"spin_lock", "get_old", "copy", "publish"}
              /\ new_fp[w] # NULL

(* The spin lock is held by the writer inside the section, and for ever by *)
(* a writer that oopsed there; a reader is counted while it reads.         *)
LockInv ==
    /\ \A w \in Writers :
         pc[w] \in {"get_old", "copy", "publish", "spin_unlock", "oops"}
         => foo_mutex = {w}
    /\ \A r \in Readers :
         pc[r] \in {"deref", "load", "read_unlock"} <=> r \in in_rcu

(* Load and unload: no thread runs before the structure is allocated or    *)
(* when it is freed, because kthread_stop waits for each thread.           *)
LifeInv ==
    /\ \A t \in Threads : pc[t] # "off" => t \in started
    /\ mod \in {"unloaded", "init_foo", "exit_free"}
       => \A t \in Threads : ~Active(t)
    /\ mod = "init_foo" => started = {}
    /\ mod \in {"init_foo", "start", "running"} => should_stop = {}
    /\ mod \in {"running", "stop", "join", "exit_free"} => started = Threads
    /\ mod = "stop" => \A t \in should_stop : Exited(t)

(* The published structure is initialised as long as anybody can use it;   *)
(* a writer replaces the structure it copied.                              *)
GblInv ==
    /\ mod \in {"start", "running", "stop", "join", "exit_free", "oops"}
       => gbl_foo \in inited
    /\ \A t \in Threads : Active(t) => gbl_foo \in inited
    /\ mod \in {"unloaded", "init_foo"} => gbl_foo \notin heap
    /\ \A w \in Writers : pc[w] \in {"copy", "publish"} => fp[w] = gbl_foo

(* A structure that is not yet published is its writer's own.              *)
PrivateInv ==
    /\ \A w \in Writers : Private(w) => new_fp[w] \in heap \ {gbl_foo}
    /\ \A w \in Writers : pc[w] = "publish" => new_fp[w] \in inited
    /\ \A w, v \in Writers :
         Private(w) /\ Private(v) /\ w # v => new_fp[w] # new_fp[v]
    /\ \A w, v \in Writers :
         Private(w) /\ v \in Retired => new_fp[w] # fp[v]
    /\ \A w \in Writers, c \in callbacks : Private(w) => new_fp[w] # c.ptr

(* A reader's structure is the published one, or one whose grace period    *)
(* has not started or waits for this reader.                               *)
Protected(r) ==
    \/ fp[r] = gbl_foo
    \/ \E w \in Retired : /\ fp[w] = fp[r]
                          /\ \/ pc[w] \in {"spin_unlock", "reclaim"}
                             \/ pc[w] = "waiting" /\ r \in waiting[w]
    \/ \E c \in callbacks : c.ptr = fp[r] /\ r \in c.waits

ReaderInv ==
    \A r \in Readers : pc[r] = "load" => fp[r] \in inited /\ Protected(r)

(* Every allocated structure is somebody's; after a panic nothing is said. *)
HeapInv ==
    mod # "panic" =>
    \A x \in heap :
        \/ x = gbl_foo
        \/ \E w \in Writers : Private(w) /\ x = new_fp[w]
        \/ \E w \in Retired : x = fp[w]
        \/ \E c \in callbacks : x = c.ptr

RcuInv ==
    /\ TypeOK /\ LockInv /\ LifeInv /\ GblInv /\ PrivateInv /\ NoDoubleFree
    /\ ReaderInv /\ HeapInv

(* What happens to the callbacks: a reader that leaves is waited for by    *)
(* none of them any more, and the exit function takes their code away;     *)
(* either way each callback keeps its structure, and none is lost.         *)
Kept ==
    /\ callbacks' \subseteq Callback
    /\ \A d \in callbacks' : \E c \in callbacks : d.ptr = c.ptr
    /\ \A c \in callbacks : \E d \in callbacks' : d.ptr = c.ptr
    /\ \A d, f \in callbacks' : d # f => d.ptr # f.ptr

LEMMA KeptByUnlock ==
    ASSUME RcuInv, NEW r \in Readers, rcu_read_unlock(r)
    PROVE  /\ Kept
           /\ \A q \in Readers \ {r} : \A c \in callbacks :
                q \in c.waits
                => \E d \in callbacks' : d.ptr = c.ptr /\ q \in d.waits
<1> DEFINE W(c) == [c EXCEPT !.waits = @ \ {r}]
<1>1. callbacks' = {W(c) : c \in callbacks}
  BY DEF rcu_read_unlock
<1>2. ASSUME NEW c \in Callback
      PROVE  W(c) \in Callback /\ W(c).ptr = c.ptr /\ W(c).waits = c.waits \ {r}
  BY DEF Callback
<1>3. callbacks \subseteq Callback /\ \A c, e \in callbacks : c # e => c.ptr # e.ptr
  BY DEF RcuInv, TypeOK, NoDoubleFree
<1> HIDE DEF W
<1> QED
  BY <1>1, <1>2, <1>3 DEF Kept

LEMMA KeptByExit ==
    ASSUME RcuInv, exit_free PROVE Kept
<1> DEFINE N(c) == [c EXCEPT !.code = FALSE]
<1>1. callbacks' = {N(c) : c \in callbacks}
  BY DEF exit_free
<1>2. ASSUME NEW c \in Callback
      PROVE  N(c) \in Callback /\ N(c).ptr = c.ptr
  BY DEF Callback
<1>3. callbacks \subseteq Callback /\ \A c, e \in callbacks : c # e => c.ptr # e.ptr
  BY DEF RcuInv, TypeOK, NoDoubleFree
<1> HIDE DEF N
<1> QED
  BY <1>1, <1>2, <1>3 DEF Kept

(* call_rcu() queues one callback, for the structure the writer replaced.  *)
LEMMA CallQueued ==
    ASSUME RcuInv, NEW w \in Writers, call_rcu(w)
    PROVE  \E c \in Callback : /\ c.ptr = fp[w] /\ c.waits = in_rcu
                               /\ callbacks' = callbacks \cup {c}
<1> DEFINE c == [ptr |-> fp[w], waits |-> in_rcu, code |-> TRUE]
<1>1. fp[w] \in Addr
  BY DEF RcuInv, TypeOK, NoDoubleFree, Retired, call_rcu, Goto
<1>2. c \in Callback /\ c.ptr = fp[w] /\ c.waits = in_rcu
  BY <1>1 DEF RcuInv, TypeOK, Callback
<1>3. callbacks' = callbacks \cup {c}
  BY DEF call_rcu
<1> QED
  BY <1>2, <1>3

(* Every variable keeps its type: a callback is queued for a structure,    *)
(* never for NULL, because a retired structure is allocated.               *)
LEMMA TypeOKStep == RcuInv /\ Next => TypeOK'
<1> SUFFICES ASSUME RcuInv, Next PROVE TypeOK'
  OBVIOUS
<1> USE DEF RcuInv, TypeOK, NoDoubleFree, Retired, LifeInv, GblInv,
    PrivateInv, Private, Active, moduleVars, memVars, rcuVars, ReaderPC,
    WriterPC, ModulePC, Ptr, Callback
<1>1. CASE Insmod
  BY <1>1 DEF Insmod
<1>2. CASE init_foo
  BY <1>2 DEF init_foo
<1>3. CASE init_kthread
  BY <1>3 DEF init_kthread
<1>4. CASE Rmmod
  BY <1>4 DEF Rmmod
<1>5. CASE kthread_stop
  BY <1>5 DEF kthread_stop
<1>6. CASE kthread_join
  BY <1>6 DEF kthread_join
<1>7. CASE exit_free
  <2>1. Kept
    BY <1>7, KeptByExit
  <2>2. /\ mod = "exit_free" /\ mod' = "unloaded"
        /\ heap' = heap \ {gbl_foo} /\ inited' = inited \ {gbl_foo}
        /\ UNCHANGED <<loaded, started, should_stop, pc, gbl_foo, fp, new_fp,
                       foo_mutex, in_rcu, waiting, fails>>
    BY <1>7 DEF exit_free, Kfree
  <2> QED
    BY <2>1, <2>2 DEF Kept
<1>8. CASE foo_reclaim
  BY <1>8 DEF foo_reclaim, Kfree
<1>9. ASSUME NEW r \in Readers, reader_loop(r) PROVE TypeOK'
  BY <1>9 DEF reader_loop, Goto
<1>10. ASSUME NEW r \in Readers, rcu_read_lock(r) PROVE TypeOK'
  BY <1>10 DEF rcu_read_lock, Goto
<1>11. ASSUME NEW r \in Readers, rcu_dereference(r) PROVE TypeOK'
  BY <1>11 DEF rcu_dereference, Goto
<1>12. ASSUME NEW r \in Readers, load_a(r) PROVE TypeOK'
  BY <1>12 DEF load_a, Goto
<1>13. ASSUME NEW r \in Readers, rcu_read_unlock(r) PROVE TypeOK'
  <2>1. Kept
    BY <1>13, KeptByUnlock
  <2>2. /\ pc[r] = "read_unlock" /\ pc' = [pc EXCEPT ![r] = "loop"]
        /\ in_rcu' = in_rcu \ {r}
        /\ waiting' = [w \in Writers |-> waiting[w] \ {r}]
        /\ UNCHANGED <<moduleVars, memVars, fp, new_fp, foo_mutex, fails>>
    BY <1>13 DEF rcu_read_unlock, Goto
  <2> QED
    BY <2>1, <2>2 DEF Kept
<1>14. ASSUME NEW w \in Writers, writer_loop(w) PROVE TypeOK'
  BY <1>14 DEF writer_loop, Goto
<1>15. ASSUME NEW w \in Writers, kmalloc_new(w) PROVE TypeOK'
  BY <1>15 DEF kmalloc_new, Goto
<1>16. ASSUME NEW w \in Writers, spin_lock(w) PROVE TypeOK'
  BY <1>16 DEF spin_lock, Goto
<1>17. ASSUME NEW w \in Writers, get_old(w) PROVE TypeOK'
  BY <1>17 DEF get_old, Goto
<1>18. ASSUME NEW w \in Writers, copy_foo(w) PROVE TypeOK'
  BY <1>18 DEF copy_foo, Goto
<1>19. ASSUME NEW w \in Writers, rcu_assign_pointer(w) PROVE TypeOK'
  BY <1>19 DEF rcu_assign_pointer, Goto
<1>20. ASSUME NEW w \in Writers, spin_unlock(w) PROVE TypeOK'
  BY <1>20 DEF spin_unlock, Goto
<1>21. ASSUME NEW w \in Writers, synchronize_rcu(w) PROVE TypeOK'
  BY <1>21 DEF synchronize_rcu, Goto
<1>22. ASSUME NEW w \in Writers, synchronize_rcu_return(w) PROVE TypeOK'
  BY <1>22 DEF synchronize_rcu_return, Goto
<1>23. ASSUME NEW w \in Writers, kfree_old(w) PROVE TypeOK'
  BY <1>23 DEF kfree_old, Goto, Kfree
<1>24. ASSUME NEW w \in Writers, call_rcu(w) PROVE TypeOK'
  <2>1. PICK c \in Callback : /\ c.ptr = fp[w] /\ c.waits = in_rcu
                              /\ callbacks' = callbacks \cup {c}
    BY <1>24, CallQueued
  <2> QED
    BY <1>24, <2>1 DEF call_rcu, Goto
<1> QED
  BY <1>1, <1>2, <1>3, <1>4, <1>5, <1>6, <1>7, <1>8, <1>9, <1>10, <1>11,
      <1>12, <1>13, <1>14, <1>15, <1>16, <1>17, <1>18, <1>19, <1>20, <1>21,
      <1>22, <1>23, <1>24 DEF Next, Module, Reader, Writer

(* The spin lock and the read-side sections.                               *)
LEMMA LockInvStep == RcuInv /\ Next => LockInv'
<1> SUFFICES ASSUME RcuInv, Next PROVE LockInv'
  OBVIOUS
<1> USE DEF RcuInv, TypeOK, LockInv, LifeInv, Active, moduleVars, memVars,
    rcuVars, ReaderPC, WriterPC, ModulePC, Ptr, Callback
<1>1. CASE Insmod
  BY <1>1 DEF Insmod
<1>2. CASE init_foo
  BY <1>2 DEF init_foo
<1>3. CASE init_kthread
  BY <1>3 DEF init_kthread
<1>4. CASE Rmmod
  BY <1>4 DEF Rmmod
<1>5. CASE kthread_stop
  BY <1>5 DEF kthread_stop
<1>6. CASE kthread_join
  BY <1>6 DEF kthread_join
<1>7. CASE exit_free
  BY <1>7 DEF exit_free, Kfree
<1>8. CASE foo_reclaim
  BY <1>8 DEF foo_reclaim, Kfree
<1>9. ASSUME NEW r \in Readers, reader_loop(r) PROVE LockInv'
  BY <1>9 DEF reader_loop, Goto
<1>10. ASSUME NEW r \in Readers, rcu_read_lock(r) PROVE LockInv'
  BY <1>10 DEF rcu_read_lock, Goto
<1>11. ASSUME NEW r \in Readers, rcu_dereference(r) PROVE LockInv'
  BY <1>11 DEF rcu_dereference, Goto
<1>12. ASSUME NEW r \in Readers, load_a(r) PROVE LockInv'
  BY <1>12 DEF load_a, Goto
<1>13. ASSUME NEW r \in Readers, rcu_read_unlock(r) PROVE LockInv'
  BY <1>13 DEF rcu_read_unlock, Goto
<1>14. ASSUME NEW w \in Writers, writer_loop(w) PROVE LockInv'
  BY <1>14 DEF writer_loop, Goto
<1>15. ASSUME NEW w \in Writers, kmalloc_new(w) PROVE LockInv'
  BY <1>15 DEF kmalloc_new, Goto
<1>16. ASSUME NEW w \in Writers, spin_lock(w) PROVE LockInv'
  BY <1>16 DEF spin_lock, Goto
<1>17. ASSUME NEW w \in Writers, get_old(w) PROVE LockInv'
  BY <1>17 DEF get_old, Goto
<1>18. ASSUME NEW w \in Writers, copy_foo(w) PROVE LockInv'
  BY <1>18 DEF copy_foo, Goto
<1>19. ASSUME NEW w \in Writers, rcu_assign_pointer(w) PROVE LockInv'
  BY <1>19 DEF rcu_assign_pointer, Goto
<1>20. ASSUME NEW w \in Writers, spin_unlock(w) PROVE LockInv'
  BY <1>20 DEF spin_unlock, Goto
<1>21. ASSUME NEW w \in Writers, synchronize_rcu(w) PROVE LockInv'
  BY <1>21 DEF synchronize_rcu, Goto
<1>22. ASSUME NEW w \in Writers, synchronize_rcu_return(w) PROVE LockInv'
  BY <1>22 DEF synchronize_rcu_return, Goto
<1>23. ASSUME NEW w \in Writers, kfree_old(w) PROVE LockInv'
  BY <1>23 DEF kfree_old, Goto, Kfree
<1>24. ASSUME NEW w \in Writers, call_rcu(w) PROVE LockInv'
  BY <1>24 DEF call_rcu, Goto
<1> QED
  BY <1>1, <1>2, <1>3, <1>4, <1>5, <1>6, <1>7, <1>8, <1>9, <1>10, <1>11,
      <1>12, <1>13, <1>14, <1>15, <1>16, <1>17, <1>18, <1>19, <1>20, <1>21,
      <1>22, <1>23, <1>24 DEF Next, Module, Reader, Writer

(* Threads exist only between the end of insmod and the end of rmmod.      *)
LEMMA LifeInvStep == RcuInv /\ Next => LifeInv'
<1> SUFFICES ASSUME RcuInv, Next PROVE LifeInv'
  OBVIOUS
<1> USE DEF RcuInv, TypeOK, LifeInv, Active, Exited, moduleVars, memVars,
    rcuVars, ReaderPC, WriterPC, ModulePC, Ptr, Callback
<1>1. CASE Insmod
  BY <1>1 DEF Insmod
<1>2. CASE init_foo
  BY <1>2 DEF init_foo
<1>3. CASE init_kthread
  BY <1>3 DEF init_kthread
<1>4. CASE Rmmod
  BY <1>4 DEF Rmmod
<1>5. CASE kthread_stop
  BY <1>5 DEF kthread_stop
<1>6. CASE kthread_join
  BY <1>6 DEF kthread_join
<1>7. CASE exit_free
  BY <1>7 DEF exit_free, Kfree
<1>8. CASE foo_reclaim
  BY <1>8 DEF foo_reclaim, Kfree
<1>9. ASSUME NEW r \in Readers, reader_loop(r) PROVE LifeInv'
  BY <1>9 DEF reader_loop, Goto
<1>10. ASSUME NEW r \in Readers, rcu_read_lock(r) PROVE LifeInv'
  BY <1>10 DEF rcu_read_lock, Goto
<1>11. ASSUME NEW r \in Readers, rcu_dereference(r) PROVE LifeInv'
  BY <1>11 DEF rcu_dereference, Goto
<1>12. ASSUME NEW r \in Readers, load_a(r) PROVE LifeInv'
  BY <1>12 DEF load_a, Goto
<1>13. ASSUME NEW r \in Readers, rcu_read_unlock(r) PROVE LifeInv'
  BY <1>13 DEF rcu_read_unlock, Goto
<1>14. ASSUME NEW w \in Writers, writer_loop(w) PROVE LifeInv'
  BY <1>14 DEF writer_loop, Goto
<1>15. ASSUME NEW w \in Writers, kmalloc_new(w) PROVE LifeInv'
  BY <1>15 DEF kmalloc_new, Goto
<1>16. ASSUME NEW w \in Writers, spin_lock(w) PROVE LifeInv'
  BY <1>16 DEF spin_lock, Goto
<1>17. ASSUME NEW w \in Writers, get_old(w) PROVE LifeInv'
  BY <1>17 DEF get_old, Goto
<1>18. ASSUME NEW w \in Writers, copy_foo(w) PROVE LifeInv'
  BY <1>18 DEF copy_foo, Goto
<1>19. ASSUME NEW w \in Writers, rcu_assign_pointer(w) PROVE LifeInv'
  BY <1>19 DEF rcu_assign_pointer, Goto
<1>20. ASSUME NEW w \in Writers, spin_unlock(w) PROVE LifeInv'
  BY <1>20 DEF spin_unlock, Goto
<1>21. ASSUME NEW w \in Writers, synchronize_rcu(w) PROVE LifeInv'
  BY <1>21 DEF synchronize_rcu, Goto
<1>22. ASSUME NEW w \in Writers, synchronize_rcu_return(w) PROVE LifeInv'
  BY <1>22 DEF synchronize_rcu_return, Goto
<1>23. ASSUME NEW w \in Writers, kfree_old(w) PROVE LifeInv'
  BY <1>23 DEF kfree_old, Goto, Kfree
<1>24. ASSUME NEW w \in Writers, call_rcu(w) PROVE LifeInv'
  BY <1>24 DEF call_rcu, Goto
<1> QED
  BY <1>1, <1>2, <1>3, <1>4, <1>5, <1>6, <1>7, <1>8, <1>9, <1>10, <1>11,
      <1>12, <1>13, <1>14, <1>15, <1>16, <1>17, <1>18, <1>19, <1>20, <1>21,
      <1>22, <1>23, <1>24 DEF Next, Module, Reader, Writer

(* The published structure is freed by nobody but the exit function.       *)
LEMMA GblInvStep == RcuInv /\ Next => GblInv'
<1> SUFFICES ASSUME RcuInv, Next PROVE GblInv'
  OBVIOUS
<1> USE DEF RcuInv, TypeOK, LockInv, LifeInv, GblInv, PrivateInv,
    NoDoubleFree, Retired, Private, Active, Exited, moduleVars, memVars,
    rcuVars, ReaderPC, WriterPC, ModulePC, Ptr, Callback
<1>1. CASE Insmod
  BY <1>1 DEF Insmod
<1>2. CASE init_foo
  BY <1>2 DEF init_foo
<1>3. CASE init_kthread
  BY <1>3 DEF init_kthread
<1>4. CASE Rmmod
  BY <1>4 DEF Rmmod
<1>5. CASE kthread_stop
  BY <1>5 DEF kthread_stop
<1>6. CASE kthread_join
  BY <1>6 DEF kthread_join
<1>7. CASE exit_free
  BY <1>7 DEF exit_free, Kfree
<1>8. CASE foo_reclaim
  BY <1>8 DEF foo_reclaim, Kfree
<1>9. ASSUME NEW r \in Readers, reader_loop(r) PROVE GblInv'
  BY <1>9 DEF reader_loop, Goto
<1>10. ASSUME NEW r \in Readers, rcu_read_lock(r) PROVE GblInv'
  BY <1>10 DEF rcu_read_lock, Goto
<1>11. ASSUME NEW r \in Readers, rcu_dereference(r) PROVE GblInv'
  BY <1>11 DEF rcu_dereference, Goto
<1>12. ASSUME NEW r \in Readers, load_a(r) PROVE GblInv'
  BY <1>12 DEF load_a, Goto
<1>13. ASSUME NEW r \in Readers, rcu_read_unlock(r) PROVE GblInv'
  BY <1>13 DEF rcu_read_unlock, Goto
<1>14. ASSUME NEW w \in Writers, writer_loop(w) PROVE GblInv'
  BY <1>14 DEF writer_loop, Goto
<1>15. ASSUME NEW w \in Writers, kmalloc_new(w) PROVE GblInv'
  BY <1>15 DEF kmalloc_new, Goto
<1>16. ASSUME NEW w \in Writers, spin_lock(w) PROVE GblInv'
  BY <1>16 DEF spin_lock, Goto
<1>17. ASSUME NEW w \in Writers, get_old(w) PROVE GblInv'
  BY <1>17 DEF get_old, Goto
<1>18. ASSUME NEW w \in Writers, copy_foo(w) PROVE GblInv'
  BY <1>18 DEF copy_foo, Goto
<1>19. ASSUME NEW w \in Writers, rcu_assign_pointer(w) PROVE GblInv'
  BY <1>19 DEF rcu_assign_pointer, Goto
<1>20. ASSUME NEW w \in Writers, spin_unlock(w) PROVE GblInv'
  BY <1>20 DEF spin_unlock, Goto
<1>21. ASSUME NEW w \in Writers, synchronize_rcu(w) PROVE GblInv'
  BY <1>21 DEF synchronize_rcu, Goto
<1>22. ASSUME NEW w \in Writers, synchronize_rcu_return(w) PROVE GblInv'
  BY <1>22 DEF synchronize_rcu_return, Goto
<1>23. ASSUME NEW w \in Writers, kfree_old(w) PROVE GblInv'
  BY <1>23 DEF kfree_old, Goto, Kfree
<1>24. ASSUME NEW w \in Writers, call_rcu(w) PROVE GblInv'
  BY <1>24 DEF call_rcu, Goto
<1> QED
  BY <1>1, <1>2, <1>3, <1>4, <1>5, <1>6, <1>7, <1>8, <1>9, <1>10, <1>11,
      <1>12, <1>13, <1>14, <1>15, <1>16, <1>17, <1>18, <1>19, <1>20, <1>21,
      <1>22, <1>23, <1>24 DEF Next, Module, Reader, Writer

(* kmalloc returns memory that nobody else refers to, and nobody else      *)
(* frees it before it is published.                                        *)
LEMMA PrivateInvStep == RcuInv /\ Next => PrivateInv'
<1> SUFFICES ASSUME RcuInv, Next PROVE PrivateInv'
  OBVIOUS
<1> USE DEF RcuInv, TypeOK, LockInv, LifeInv, GblInv, PrivateInv,
    NoDoubleFree, Retired, Private, Active, moduleVars, memVars, rcuVars,
    ReaderPC, WriterPC, ModulePC, Ptr, Callback
<1>1. CASE Insmod
  BY <1>1 DEF Insmod
<1>2. CASE init_foo
  BY <1>2 DEF init_foo
<1>3. CASE init_kthread
  BY <1>3 DEF init_kthread
<1>4. CASE Rmmod
  BY <1>4 DEF Rmmod
<1>5. CASE kthread_stop
  BY <1>5 DEF kthread_stop
<1>6. CASE kthread_join
  BY <1>6 DEF kthread_join
<1>7. CASE exit_free
  <2>1. Kept
    BY <1>7, KeptByExit
  <2>2. /\ mod = "exit_free" /\ mod' = "unloaded"
        /\ heap' = heap \ {gbl_foo} /\ inited' = inited \ {gbl_foo}
        /\ UNCHANGED <<loaded, started, should_stop, pc, gbl_foo, fp, new_fp,
                       foo_mutex, in_rcu, waiting, fails>>
    BY <1>7 DEF exit_free, Kfree
  <2> QED
    BY <2>1, <2>2 DEF Kept
<1>8. CASE foo_reclaim
  BY <1>8 DEF foo_reclaim, Kfree
<1>9. ASSUME NEW r \in Readers, reader_loop(r) PROVE PrivateInv'
  BY <1>9 DEF reader_loop, Goto
<1>10. ASSUME NEW r \in Readers, rcu_read_lock(r) PROVE PrivateInv'
  BY <1>10 DEF rcu_read_lock, Goto
<1>11. ASSUME NEW r \in Readers, rcu_dereference(r) PROVE PrivateInv'
  BY <1>11 DEF rcu_dereference, Goto
<1>12. ASSUME NEW r \in Readers, load_a(r) PROVE PrivateInv'
  BY <1>12 DEF load_a, Goto
<1>13. ASSUME NEW r \in Readers, rcu_read_unlock(r) PROVE PrivateInv'
  <2>1. Kept
    BY <1>13, KeptByUnlock
  <2>2. /\ pc[r] = "read_unlock" /\ pc' = [pc EXCEPT ![r] = "loop"]
        /\ in_rcu' = in_rcu \ {r}
        /\ waiting' = [w \in Writers |-> waiting[w] \ {r}]
        /\ UNCHANGED <<moduleVars, memVars, fp, new_fp, foo_mutex, fails>>
    BY <1>13 DEF rcu_read_unlock, Goto
  <2> QED
    BY <2>1, <2>2 DEF Kept
<1>14. ASSUME NEW w \in Writers, writer_loop(w) PROVE PrivateInv'
  BY <1>14 DEF writer_loop, Goto
<1>15. ASSUME NEW w \in Writers, kmalloc_new(w) PROVE PrivateInv'
  BY <1>15 DEF kmalloc_new, Goto
<1>16. ASSUME NEW w \in Writers, spin_lock(w) PROVE PrivateInv'
  BY <1>16 DEF spin_lock, Goto
<1>17. ASSUME NEW w \in Writers, get_old(w) PROVE PrivateInv'
  BY <1>17 DEF get_old, Goto
<1>18. ASSUME NEW w \in Writers, copy_foo(w) PROVE PrivateInv'
  BY <1>18 DEF copy_foo, Goto
<1>19. ASSUME NEW w \in Writers, rcu_assign_pointer(w) PROVE PrivateInv'
  BY <1>19 DEF rcu_assign_pointer, Goto
<1>20. ASSUME NEW w \in Writers, spin_unlock(w) PROVE PrivateInv'
  BY <1>20 DEF spin_unlock, Goto
<1>21. ASSUME NEW w \in Writers, synchronize_rcu(w) PROVE PrivateInv'
  BY <1>21 DEF synchronize_rcu, Goto
<1>22. ASSUME NEW w \in Writers, synchronize_rcu_return(w) PROVE PrivateInv'
  BY <1>22 DEF synchronize_rcu_return, Goto
<1>23. ASSUME NEW w \in Writers, kfree_old(w) PROVE PrivateInv'
  BY <1>23 DEF kfree_old, Goto, Kfree
<1>24. ASSUME NEW w \in Writers, call_rcu(w) PROVE PrivateInv'
  <2>1. PICK c \in Callback : /\ c.ptr = fp[w] /\ c.waits = in_rcu
                              /\ callbacks' = callbacks \cup {c}
    BY <1>24, CallQueued
  <2> QED
    BY <1>24, <2>1 DEF call_rcu, Goto
<1> QED
  BY <1>1, <1>2, <1>3, <1>4, <1>5, <1>6, <1>7, <1>8, <1>9, <1>10, <1>11,
      <1>12, <1>13, <1>14, <1>15, <1>16, <1>17, <1>18, <1>19, <1>20, <1>21,
      <1>22, <1>23, <1>24 DEF Next, Module, Reader, Writer

(* A structure is replaced once, under the lock, and waits to be freed in  *)
(* one place.                                                              *)
LEMMA NoDoubleFreeStep == RcuInv /\ Next => NoDoubleFree'
<1> SUFFICES ASSUME RcuInv, Next PROVE NoDoubleFree'
  OBVIOUS
<1> USE DEF RcuInv, TypeOK, LockInv, LifeInv, GblInv, PrivateInv,
    NoDoubleFree, Retired, Private, Active, moduleVars, memVars, rcuVars,
    ReaderPC, WriterPC, ModulePC, Ptr, Callback
<1>1. CASE Insmod
  BY <1>1 DEF Insmod
<1>2. CASE init_foo
  BY <1>2 DEF init_foo
<1>3. CASE init_kthread
  BY <1>3 DEF init_kthread
<1>4. CASE Rmmod
  BY <1>4 DEF Rmmod
<1>5. CASE kthread_stop
  BY <1>5 DEF kthread_stop
<1>6. CASE kthread_join
  BY <1>6 DEF kthread_join
<1>7. CASE exit_free
  <2>1. Kept
    BY <1>7, KeptByExit
  <2>2. /\ mod = "exit_free" /\ mod' = "unloaded"
        /\ heap' = heap \ {gbl_foo} /\ inited' = inited \ {gbl_foo}
        /\ UNCHANGED <<loaded, started, should_stop, pc, gbl_foo, fp, new_fp,
                       foo_mutex, in_rcu, waiting, fails>>
    BY <1>7 DEF exit_free, Kfree
  <2> QED
    BY <2>1, <2>2 DEF Kept
<1>8. CASE foo_reclaim
  BY <1>8 DEF foo_reclaim, Kfree
<1>9. ASSUME NEW r \in Readers, reader_loop(r) PROVE NoDoubleFree'
  BY <1>9 DEF reader_loop, Goto
<1>10. ASSUME NEW r \in Readers, rcu_read_lock(r) PROVE NoDoubleFree'
  BY <1>10 DEF rcu_read_lock, Goto
<1>11. ASSUME NEW r \in Readers, rcu_dereference(r) PROVE NoDoubleFree'
  BY <1>11 DEF rcu_dereference, Goto
<1>12. ASSUME NEW r \in Readers, load_a(r) PROVE NoDoubleFree'
  BY <1>12 DEF load_a, Goto
<1>13. ASSUME NEW r \in Readers, rcu_read_unlock(r) PROVE NoDoubleFree'
  <2>1. Kept
    BY <1>13, KeptByUnlock
  <2>2. /\ pc[r] = "read_unlock" /\ pc' = [pc EXCEPT ![r] = "loop"]
        /\ in_rcu' = in_rcu \ {r}
        /\ waiting' = [w \in Writers |-> waiting[w] \ {r}]
        /\ UNCHANGED <<moduleVars, memVars, fp, new_fp, foo_mutex, fails>>
    BY <1>13 DEF rcu_read_unlock, Goto
  <2> QED
    BY <2>1, <2>2 DEF Kept
<1>14. ASSUME NEW w \in Writers, writer_loop(w) PROVE NoDoubleFree'
  BY <1>14 DEF writer_loop, Goto
<1>15. ASSUME NEW w \in Writers, kmalloc_new(w) PROVE NoDoubleFree'
  BY <1>15 DEF kmalloc_new, Goto
<1>16. ASSUME NEW w \in Writers, spin_lock(w) PROVE NoDoubleFree'
  BY <1>16 DEF spin_lock, Goto
<1>17. ASSUME NEW w \in Writers, get_old(w) PROVE NoDoubleFree'
  BY <1>17 DEF get_old, Goto
<1>18. ASSUME NEW w \in Writers, copy_foo(w) PROVE NoDoubleFree'
  BY <1>18 DEF copy_foo, Goto
<1>19. ASSUME NEW w \in Writers, rcu_assign_pointer(w) PROVE NoDoubleFree'
  BY <1>19 DEF rcu_assign_pointer, Goto
<1>20. ASSUME NEW w \in Writers, spin_unlock(w) PROVE NoDoubleFree'
  BY <1>20 DEF spin_unlock, Goto
<1>21. ASSUME NEW w \in Writers, synchronize_rcu(w) PROVE NoDoubleFree'
  BY <1>21 DEF synchronize_rcu, Goto
<1>22. ASSUME NEW w \in Writers, synchronize_rcu_return(w) PROVE NoDoubleFree'
  BY <1>22 DEF synchronize_rcu_return, Goto
<1>23. ASSUME NEW w \in Writers, kfree_old(w) PROVE NoDoubleFree'
  BY <1>23 DEF kfree_old, Goto, Kfree
<1>24. ASSUME NEW w \in Writers, call_rcu(w) PROVE NoDoubleFree'
  <2>1. PICK c \in Callback : /\ c.ptr = fp[w] /\ c.waits = in_rcu
                              /\ callbacks' = callbacks \cup {c}
    BY <1>24, CallQueued
  <2> QED
    BY <1>24, <2>1 DEF call_rcu, Goto
<1> QED
  BY <1>1, <1>2, <1>3, <1>4, <1>5, <1>6, <1>7, <1>8, <1>9, <1>10, <1>11,
      <1>12, <1>13, <1>14, <1>15, <1>16, <1>17, <1>18, <1>19, <1>20, <1>21,
      <1>22, <1>23, <1>24 DEF Next, Module, Reader, Writer

(* A reader's structure outlives the reader's use of it.                   *)
LEMMA ReaderInvStep == RcuInv /\ Next => ReaderInv'
<1> SUFFICES ASSUME RcuInv, Next PROVE ReaderInv'
  OBVIOUS
<1> USE DEF RcuInv, TypeOK, LockInv, LifeInv, GblInv, PrivateInv,
    NoDoubleFree, ReaderInv, Protected, Retired, Private, Active, moduleVars,
    memVars, rcuVars, ReaderPC, WriterPC, ModulePC, Ptr, Callback
<1>1. CASE Insmod
  BY <1>1 DEF Insmod
<1>2. CASE init_foo
  BY <1>2 DEF init_foo
<1>3. CASE init_kthread
  BY <1>3 DEF init_kthread
<1>4. CASE Rmmod
  BY <1>4 DEF Rmmod
<1>5. CASE kthread_stop
  BY <1>5 DEF kthread_stop
<1>6. CASE kthread_join
  BY <1>6 DEF kthread_join
<1>7. CASE exit_free
  BY <1>7 DEF exit_free, Kfree
<1>8. CASE foo_reclaim
  BY <1>8 DEF foo_reclaim, Kfree
<1>9. ASSUME NEW r \in Readers, reader_loop(r) PROVE ReaderInv'
  BY <1>9 DEF reader_loop, Goto
<1>10. ASSUME NEW r \in Readers, rcu_read_lock(r) PROVE ReaderInv'
  BY <1>10 DEF rcu_read_lock, Goto
<1>11. ASSUME NEW r \in Readers, rcu_dereference(r) PROVE ReaderInv'
  BY <1>11 DEF rcu_dereference, Goto
<1>12. ASSUME NEW r \in Readers, load_a(r) PROVE ReaderInv'
  BY <1>12 DEF load_a, Goto
<1>13. ASSUME NEW r \in Readers, rcu_read_unlock(r) PROVE ReaderInv'
  <2>1. Kept
    BY <1>13, KeptByUnlock
  <2>2. /\ pc[r] = "read_unlock" /\ pc' = [pc EXCEPT ![r] = "loop"]
        /\ in_rcu' = in_rcu \ {r}
        /\ waiting' = [w \in Writers |-> waiting[w] \ {r}]
        /\ UNCHANGED <<moduleVars, memVars, fp, new_fp, foo_mutex, fails>>
    BY <1>13 DEF rcu_read_unlock, Goto
  <2>3. \A q \in Readers \ {r} : \A c \in callbacks :
          q \in c.waits => \E d \in callbacks' : d.ptr = c.ptr /\ q \in d.waits
    BY <1>13, KeptByUnlock
  <2> QED
    BY <2>1, <2>2, <2>3 DEF Kept
<1>14. ASSUME NEW w \in Writers, writer_loop(w) PROVE ReaderInv'
  BY <1>14 DEF writer_loop, Goto
<1>15. ASSUME NEW w \in Writers, kmalloc_new(w) PROVE ReaderInv'
  BY <1>15 DEF kmalloc_new, Goto
<1>16. ASSUME NEW w \in Writers, spin_lock(w) PROVE ReaderInv'
  BY <1>16 DEF spin_lock, Goto
<1>17. ASSUME NEW w \in Writers, get_old(w) PROVE ReaderInv'
  BY <1>17 DEF get_old, Goto
<1>18. ASSUME NEW w \in Writers, copy_foo(w) PROVE ReaderInv'
  BY <1>18 DEF copy_foo, Goto
<1>19. ASSUME NEW w \in Writers, rcu_assign_pointer(w) PROVE ReaderInv'
  BY <1>19 DEF rcu_assign_pointer, Goto
<1>20. ASSUME NEW w \in Writers, spin_unlock(w) PROVE ReaderInv'
  BY <1>20 DEF spin_unlock, Goto
<1>21. ASSUME NEW w \in Writers, synchronize_rcu(w) PROVE ReaderInv'
  BY <1>21 DEF synchronize_rcu, Goto
<1>22. ASSUME NEW w \in Writers, synchronize_rcu_return(w) PROVE ReaderInv'
  BY <1>22 DEF synchronize_rcu_return, Goto
<1>23. ASSUME NEW w \in Writers, kfree_old(w) PROVE ReaderInv'
  BY <1>23 DEF kfree_old, Goto, Kfree
<1>24. ASSUME NEW w \in Writers, call_rcu(w) PROVE ReaderInv'
  <2>1. PICK c \in Callback : /\ c.ptr = fp[w] /\ c.waits = in_rcu
                              /\ callbacks' = callbacks \cup {c}
    BY <1>24, CallQueued
  <2> QED
    BY <1>24, <2>1 DEF call_rcu, Goto
<1> QED
  BY <1>1, <1>2, <1>3, <1>4, <1>5, <1>6, <1>7, <1>8, <1>9, <1>10, <1>11,
      <1>12, <1>13, <1>14, <1>15, <1>16, <1>17, <1>18, <1>19, <1>20, <1>21,
      <1>22, <1>23, <1>24 DEF Next, Module, Reader, Writer

(* Nobody loses the last reference to a structure.                         *)
LEMMA HeapInvStep == RcuInv /\ Next => HeapInv'
<1> SUFFICES ASSUME RcuInv, Next PROVE HeapInv'
  OBVIOUS
<1> USE DEF RcuInv, TypeOK, LockInv, LifeInv, GblInv, PrivateInv,
    NoDoubleFree, HeapInv, Retired, Private, Active, moduleVars, memVars,
    rcuVars, ReaderPC, WriterPC, ModulePC, Ptr, Callback
<1>1. CASE Insmod
  BY <1>1 DEF Insmod
<1>2. CASE init_foo
  BY <1>2 DEF init_foo
<1>3. CASE init_kthread
  BY <1>3 DEF init_kthread
<1>4. CASE Rmmod
  BY <1>4 DEF Rmmod
<1>5. CASE kthread_stop
  BY <1>5 DEF kthread_stop
<1>6. CASE kthread_join
  BY <1>6 DEF kthread_join
<1>7. CASE exit_free
  <2>1. Kept
    BY <1>7, KeptByExit
  <2>2. /\ mod = "exit_free" /\ mod' = "unloaded"
        /\ heap' = heap \ {gbl_foo} /\ inited' = inited \ {gbl_foo}
        /\ UNCHANGED <<loaded, started, should_stop, pc, gbl_foo, fp, new_fp,
                       foo_mutex, in_rcu, waiting, fails>>
    BY <1>7 DEF exit_free, Kfree
  <2> QED
    BY <2>1, <2>2 DEF Kept
<1>8. CASE foo_reclaim
  BY <1>8 DEF foo_reclaim, Kfree
<1>9. ASSUME NEW r \in Readers, reader_loop(r) PROVE HeapInv'
  BY <1>9 DEF reader_loop, Goto
<1>10. ASSUME NEW r \in Readers, rcu_read_lock(r) PROVE HeapInv'
  BY <1>10 DEF rcu_read_lock, Goto
<1>11. ASSUME NEW r \in Readers, rcu_dereference(r) PROVE HeapInv'
  BY <1>11 DEF rcu_dereference, Goto
<1>12. ASSUME NEW r \in Readers, load_a(r) PROVE HeapInv'
  BY <1>12 DEF load_a, Goto
<1>13. ASSUME NEW r \in Readers, rcu_read_unlock(r) PROVE HeapInv'
  <2>1. Kept
    BY <1>13, KeptByUnlock
  <2>2. /\ pc[r] = "read_unlock" /\ pc' = [pc EXCEPT ![r] = "loop"]
        /\ in_rcu' = in_rcu \ {r}
        /\ waiting' = [w \in Writers |-> waiting[w] \ {r}]
        /\ UNCHANGED <<moduleVars, memVars, fp, new_fp, foo_mutex, fails>>
    BY <1>13 DEF rcu_read_unlock, Goto
  <2> QED
    BY <2>1, <2>2 DEF Kept
<1>14. ASSUME NEW w \in Writers, writer_loop(w) PROVE HeapInv'
  BY <1>14 DEF writer_loop, Goto
<1>15. ASSUME NEW w \in Writers, kmalloc_new(w) PROVE HeapInv'
  BY <1>15 DEF kmalloc_new, Goto
<1>16. ASSUME NEW w \in Writers, spin_lock(w) PROVE HeapInv'
  BY <1>16 DEF spin_lock, Goto
<1>17. ASSUME NEW w \in Writers, get_old(w) PROVE HeapInv'
  BY <1>17 DEF get_old, Goto
<1>18. ASSUME NEW w \in Writers, copy_foo(w) PROVE HeapInv'
  BY <1>18 DEF copy_foo, Goto
<1>19. ASSUME NEW w \in Writers, rcu_assign_pointer(w) PROVE HeapInv'
  BY <1>19 DEF rcu_assign_pointer, Goto
<1>20. ASSUME NEW w \in Writers, spin_unlock(w) PROVE HeapInv'
  BY <1>20 DEF spin_unlock, Goto
<1>21. ASSUME NEW w \in Writers, synchronize_rcu(w) PROVE HeapInv'
  BY <1>21 DEF synchronize_rcu, Goto
<1>22. ASSUME NEW w \in Writers, synchronize_rcu_return(w) PROVE HeapInv'
  BY <1>22 DEF synchronize_rcu_return, Goto
<1>23. ASSUME NEW w \in Writers, kfree_old(w) PROVE HeapInv'
  BY <1>23 DEF kfree_old, Goto, Kfree
<1>24. ASSUME NEW w \in Writers, call_rcu(w) PROVE HeapInv'
  <2>1. PICK c \in Callback : /\ c.ptr = fp[w] /\ c.waits = in_rcu
                              /\ callbacks' = callbacks \cup {c}
    BY <1>24, CallQueued
  <2> QED
    BY <1>24, <2>1 DEF call_rcu, Goto
<1> QED
  BY <1>1, <1>2, <1>3, <1>4, <1>5, <1>6, <1>7, <1>8, <1>9, <1>10, <1>11,
      <1>12, <1>13, <1>14, <1>15, <1>16, <1>17, <1>18, <1>19, <1>20, <1>21,
      <1>22, <1>23, <1>24 DEF Next, Module, Reader, Writer

(* RcuInv holds initially and every step keeps it.                         *)
THEOREM RcuInvariant == Spec => []RcuInv
<1>1. Init => RcuInv
  BY DEF Init, RcuInv, TypeOK, LockInv, LifeInv, GblInv, PrivateInv, NoDoubleFree,
      ReaderInv, HeapInv, Retired, Private, Active, ReaderPC, WriterPC, ModulePC,
      Ptr, Callback
<1>2. ASSUME RcuInv, [Next]_vars PROVE RcuInv'
  <2>1. CASE Next
    BY <1>2, <2>1, TypeOKStep, LockInvStep, LifeInvStep, GblInvStep,
        PrivateInvStep, NoDoubleFreeStep, ReaderInvStep, HeapInvStep DEF RcuInv
  <2>2. CASE UNCHANGED vars
    BY <1>2, <2>2 DEF RcuInv, TypeOK, LockInv, LifeInv, GblInv, PrivateInv,
        NoDoubleFree, ReaderInv, HeapInv, Protected, Retired, Private, Active,
        Exited, vars
  <2> QED
    BY <1>2, <2>1, <2>2
<1> QED
  BY <1>1, <1>2, PTL DEF Spec

(* foo_get_a, foo_update_a and foo_reclaim never use a structure that is   *)
(* freed or not initialised and never free one twice, in either module and *)
(* whatever the module that was loaded before has left behind.             *)
THEOREM MemoryIsSafe == Spec => []MemorySafe
<1>1. RcuInv => MemorySafe
  BY DEF RcuInv, TypeOK, GblInv, PrivateInv, ReaderInv, MemorySafe, NoUseAfterFree,
      Active, Private
<1> QED
  BY <1>1, RcuInvariant, PTL

(* When the module is gone, what is still allocated is exactly what queued *)
(* callbacks have yet to free (foo_update_a, exit_sample_).                *)
THEOREM NothingLeaks == Spec => []NoLeak
<1>1. RcuInv => NoLeak
  BY DEF RcuInv, TypeOK, LifeInv, GblInv, HeapInv, NoDoubleFree, NoLeak, Retired,
      Private, Active
<1> QED
  BY <1>1, RcuInvariant, PTL

(* sample_synchronize_rcu.c alone can be unloaded at any time: nothing     *)
(* runs after its memory is gone and nothing stays allocated, while with   *)
(* sample_call_rcu.c a late callback panics the machine (OldFreed fails).  *)
CleanUnload == mod # "panic" /\ (mod = "unloaded" => heap = {})

THEOREM WaitingUnloadsCleanly ==
    Modules = {"synchronize_rcu"} => (Spec => []CleanUnload)
<1> SUFFICES ASSUME Modules = {"synchronize_rcu"} PROVE Spec => []CleanUnload
  OBVIOUS
<1> DEFINE Quiet == loaded \in Modules /\ callbacks = {} /\ mod # "panic"
<1>1. Init => Quiet
  BY DEF Init
<1>2. ASSUME Quiet, [Next]_vars PROVE Quiet'
  <2>1. ASSUME Module PROVE Quiet'
    BY <1>2, <2>1 DEF Module, Insmod, init_foo, init_kthread, Rmmod, kthread_stop,
        kthread_join, exit_free, rcuVars
  <2>2. ASSUME NEW r \in Readers, Reader(r) PROVE Quiet'
    BY <1>2, <2>2 DEF Reader, reader_loop, rcu_read_lock, rcu_dereference, load_a,
        rcu_read_unlock, rcuVars, moduleVars
  <2>3. ASSUME NEW w \in Writers, Writer(w) PROVE Quiet'
    BY <1>2, <2>3 DEF Writer, writer_loop, kmalloc_new, spin_lock, get_old,
        copy_foo, rcu_assign_pointer, spin_unlock, synchronize_rcu,
        synchronize_rcu_return, kfree_old, call_rcu, rcuVars, moduleVars
  <2>4. ~foo_reclaim
    BY <1>2 DEF foo_reclaim
  <2>5. CASE UNCHANGED vars
    BY <1>2, <2>5 DEF vars
  <2> QED
    BY <1>2, <2>1, <2>2, <2>3, <2>4, <2>5 DEF Next
<1>3. Quiet /\ NoLeak => CleanUnload
  BY DEF NoLeak, CleanUnload
<1> QED
  BY <1>1, <1>2, <1>3, NothingLeaks, PTL DEF Spec

-----------------------------------------------------------------------------
(* The example devices (ExampleDevices, the instance E of MCExamples).     *)
PageDrivers == {"mma", "vmm", "gread"}
Areas(m, f) == {v \in Vmas : m[v] = f}
Faulted(m, p, f) == {v \in p : m[v] = f}
WritingIn(s) == {f \in Files : s[f] = "writing"}

DevType ==
    /\ file \in [Files -> {"closed", "open", "closing", "released", "dead"}]
    /\ info \in [Files -> {"none", "live", "freed"}]
    /\ page \in [Files -> Int] /\ reference \in [Files -> Int]
    /\ vma \in [Vmas -> Files \cup {NULL}] /\ pte \subseteq Vmas
    /\ bufsize \in Nat /\ bufcap \in Nat /\ wsize \in Nat
    /\ \A f \in Files : copying[f] # NULL => copying[f] \in Nat
    /\ copying \in [Files -> Nat \cup {NULL}]
    /\ sem \in [Files -> {"out", "writing", "dead"}]
    /\ pins \in Int /\ mapped \in BOOLEAN

(* An info lives as long as its file, and a mapping as long as its info.   *)
PagesInv ==
    /\ \A f \in Files :
         /\ page[f] = (IF info[f] = "live" THEN 1 ELSE 0) + Cardinality(Faulted(vma, pte, f))
         /\ info[f] = "live" <=> driver \in PageDrivers /\ file[f] \in {"open", "closing"}
    /\ \A v \in Vmas : vma[v] # NULL => info[vma[v]] = "live"
    /\ \A v \in pte : vma[v] # NULL

RefInv == driver = "mma" => \A f \in Files : reference[f] = Cardinality(Areas(vma, f))

(* Until the parameter is raised it is within the buffers it allocated.    *)
BufInv ==
    /\ ~raised => /\ wsize <= bufcap
                  /\ \A f \in Files : copying[f] # NULL => copying[f] <= bufcap
                  /\ driver = "hello" /\ bufs = "live" => bufsize <= bufcap
    /\ driver = "hello" =>
         /\ bufs \in {"none", "live"}
         /\ bufs = "none" => \A f \in Files : file[f] = "closed" /\ copying[f] = NULL

(* Each writer has its own reference to the page.                          *)
PinInv == pins = Cardinality(WritingIn(sem))

DevInv == DevType /\ PagesInv /\ RefInv /\ BufInv /\ PinInv

LEMMA AreasFinite ==
    ASSUME NEW m, NEW f, NEW p \in SUBSET Vmas
    PROVE  /\ IsFiniteSet(Areas(m, f)) /\ Cardinality(Areas(m, f)) \in Nat
           /\ IsFiniteSet(Faulted(m, p, f)) /\ Cardinality(Faulted(m, p, f)) \in Nat
<1>1. Areas(m, f) \subseteq Vmas /\ Faulted(m, p, f) \subseteq Vmas
  BY DEF Areas, Faulted
<1>2. IsFiniteSet(Areas(m, f)) /\ IsFiniteSet(Faulted(m, p, f))
  BY <1>1, ExamplesAssumption, FS_Subset
<1> QED
  BY <1>2, FS_CardinalityType

(* mmap and fork: one area more.                                           *)
Mapped(v, f) == [vma EXCEPT ![v] = f]
LEMMA AreaMore ==
    ASSUME DevType, PagesInv, NEW v \in Vmas, vma[v] = NULL, NEW f \in Files, NEW g \in Files
    PROVE  LET m == Mapped(v, f) IN
           /\ m \in [Vmas -> Files \cup {NULL}] /\ v \notin pte
           /\ Cardinality(Areas(m, g)) = Cardinality(Areas(vma, g)) + (IF g = f THEN 1 ELSE 0)
           /\ Faulted(m, pte, g) = Faulted(vma, pte, g)
<1> DEFINE m == Mapped(v, f)
<1> USE DEF Mapped
<1>1. m \in [Vmas -> Files \cup {NULL}] /\ v \notin pte
  BY DEF DevType, PagesInv
<1>2. Faulted(m, pte, g) = Faulted(vma, pte, g)
  BY <1>1 DEF DevType, Faulted
<1>3. g = f => Areas(m, g) = Areas(vma, g) \cup {v} /\ v \notin Areas(vma, g)
  BY ExamplesAssumption DEF DevType, Areas
<1>4. g # f => Areas(m, g) = Areas(vma, g)
  BY ExamplesAssumption DEF DevType, Areas
<1>5. IsFiniteSet(Areas(vma, g)) /\ Cardinality(Areas(vma, g)) \in Nat
  BY AreasFinite DEF DevType
<1>6. g = f => Cardinality(Areas(m, g)) = Cardinality(Areas(vma, g)) + 1
  BY <1>3, <1>5, FS_AddElement
<1>7. Cardinality(Areas(m, g)) = Cardinality(Areas(vma, g)) + (IF g = f THEN 1 ELSE 0)
  BY <1>4, <1>5, <1>6
<1> QED
  BY <1>1, <1>2, <1>7

(* munmap: one area less.                                                  *)
LEMMA AreaLess ==
    ASSUME DevType, NEW v \in Vmas, vma[v] # NULL,
           NEW m, m = [vma EXCEPT ![v] = NULL], NEW g \in Files
    PROVE  /\ m \in [Vmas -> Files \cup {NULL}]
           /\ Cardinality(Areas(m, g)) = Cardinality(Areas(vma, g)) - (IF g = vma[v] THEN 1 ELSE 0)
           /\ Cardinality(Faulted(m, pte \ {v}, g))
                = Cardinality(Faulted(vma, pte, g)) - (IF g = vma[v] /\ v \in pte THEN 1 ELSE 0)
<1>1. m \in [Vmas -> Files \cup {NULL}]
  BY DEF DevType
<1>2. /\ g = vma[v] => Areas(m, g) = Areas(vma, g) \ {v} /\ v \in Areas(vma, g)
      /\ g # vma[v] => Areas(m, g) = Areas(vma, g)
  BY ExamplesAssumption DEF DevType, Areas
<1>3. /\ g = vma[v] /\ v \in pte => /\ Faulted(m, pte \ {v}, g) = Faulted(vma, pte, g) \ {v}
                                    /\ v \in Faulted(vma, pte, g)
      /\ ~(g = vma[v] /\ v \in pte) => Faulted(m, pte \ {v}, g) = Faulted(vma, pte, g)
  BY ExamplesAssumption DEF DevType, Faulted
<1>4. /\ IsFiniteSet(Areas(vma, g)) /\ Cardinality(Areas(vma, g)) \in Nat
      /\ IsFiniteSet(Faulted(vma, pte, g)) /\ Cardinality(Faulted(vma, pte, g)) \in Nat
  BY AreasFinite DEF DevType
<1>5. g = vma[v] => Cardinality(Areas(m, g)) = Cardinality(Areas(vma, g)) - 1
  BY <1>2, <1>4, FS_RemoveElement
<1>6. g = vma[v] /\ v \in pte =>
        Cardinality(Faulted(m, pte \ {v}, g)) = Cardinality(Faulted(vma, pte, g)) - 1
  BY <1>3, <1>4, FS_RemoveElement
<1>7. Cardinality(Areas(m, g)) = Cardinality(Areas(vma, g)) - (IF g = vma[v] THEN 1 ELSE 0)
  BY <1>2, <1>4, <1>5
<1>8. Cardinality(Faulted(m, pte \ {v}, g))
        = Cardinality(Faulted(vma, pte, g)) - (IF g = vma[v] /\ v \in pte THEN 1 ELSE 0)
  BY <1>3, <1>4, <1>6
<1> QED
  BY <1>1, <1>7, <1>8

(* A fault: one entry more in a page table.                                *)
LEMMA FaultMore ==
    ASSUME DevType, NEW v \in Vmas \ pte, NEW g \in Files
    PROVE  Cardinality(Faulted(vma, pte \cup {v}, g))
             = Cardinality(Faulted(vma, pte, g)) + (IF g = vma[v] THEN 1 ELSE 0)
<1>1. /\ g = vma[v] => /\ Faulted(vma, pte \cup {v}, g) = Faulted(vma, pte, g) \cup {v}
                       /\ v \notin Faulted(vma, pte, g)
      /\ g # vma[v] => Faulted(vma, pte \cup {v}, g) = Faulted(vma, pte, g)
  BY DEF DevType, Faulted
<1>2. IsFiniteSet(Faulted(vma, pte, g)) /\ Cardinality(Faulted(vma, pte, g)) \in Nat
  BY AreasFinite DEF DevType
<1>3. g = vma[v] => Cardinality(Faulted(vma, pte \cup {v}, g))
                      = Cardinality(Faulted(vma, pte, g)) + 1
  BY <1>1, <1>2, FS_AddElement
<1> QED
  BY <1>1, <1>2, <1>3

LEMMA WritersFinite ==
    ASSUME NEW s
    PROVE  IsFiniteSet(WritingIn(s)) /\ Cardinality(WritingIn(s)) \in Nat
<1>1. WritingIn(s) \subseteq Files
  BY DEF WritingIn
<1> QED
  BY <1>1, ExamplesAssumption, FS_Subset, FS_CardinalityType

LEMMA DevInit == E!Init => DevInv
<1> SUFFICES ASSUME E!Init PROVE DevInv
  OBVIOUS
<1> USE DEF E!Init
<1>1. DevType
  BY ExamplesAssumption DEF DevType
<1>2. \A f \in Files : Areas(vma, f) = {} /\ Faulted(vma, pte, f) = {}
  BY ExamplesAssumption DEF Areas, Faulted
<1>3. WritingIn(sem) = {}
  BY DEF WritingIn
<1>4. Cardinality({}) = 0
  BY FS_EmptySet
<1>5. PagesInv /\ RefInv
  <2>1. \A f \in Files : Cardinality(Areas(vma, f)) = 0 /\ Cardinality(Faulted(vma, pte, f)) = 0
    BY <1>2, <1>4
  <2>2. PagesInv
    BY <2>1 DEF PagesInv
  <2> QED
    BY <2>1, <2>2 DEF RefInv
<1>6. BufInv
  BY <1>1 DEF BufInv, DevType
<1>7. PinInv
  BY <1>3, <1>4 DEF PinInv
<1> QED
  BY <1>1, <1>5, <1>6, <1>7 DEF DevInv

(* A step that leaves the pages, the areas and the callers alone.          *)
LEMMA FileStep ==
    ASSUME DevInv, UNCHANGED E!pagevars, UNCHANGED E!pinvars,
           bufsize' \in Nat, bufcap' \in Nat,
           file' \in [Files -> {"closed", "open", "closing", "released", "dead"}],
           driver' = driver \/ (driver = "hello" /\ driver' = "none"),
           \A f \in Files : driver \in PageDrivers =>
               (file[f] \in {"open", "closing"} <=> file'[f] \in {"open", "closing"}),
           wsize' \in Nat, copying' \in [Files -> Nat \cup {NULL}], BufInv',
           \A f \in Files : copying'[f] # NULL => copying'[f] \in Nat
    PROVE  DevInv'
<1> USE DEF E!pagevars, E!pinvars
<1>1. DevType'
  BY DEF DevInv, DevType
<1>2. driver' \in PageDrivers <=> driver \in PageDrivers
  BY DEF PageDrivers
<1>3. PagesInv'
  BY <1>2 DEF DevInv, PagesInv
<1>4. RefInv'
  BY DEF DevInv, RefInv
<1>5. PinInv'
  BY DEF DevInv, PinInv
<1> QED
  BY <1>1, <1>3, <1>4, <1>5 DEF DevInv

LEMMA DevOpen == ASSUME DevInv, NEW f \in Files, E!open(f) PROVE DevInv'
<1> USE DEF DevInv, E!open, E!hellovars, E!sizevars, E!pinvars
<1>1. DevType'
  BY DEF DevType
<1>2. info[f] # "live"
  BY DEF PagesInv
<1>3. Faulted(vma, pte, f) = {}
  BY <1>2 DEF PagesInv, Faulted, DevType
<1>4. PagesInv'
  <2>1. ASSUME NEW g \in Files
        PROVE  /\ page'[g] = (IF info'[g] = "live" THEN 1 ELSE 0)
                             + Cardinality(Faulted(vma, pte, g))
               /\ info'[g] = "live" <=> /\ driver \in PageDrivers
                                        /\ file'[g] \in {"open", "closing"}
    <3>1. CASE g = f
      <4>1. Cardinality(Faulted(vma, pte, g)) = 0
        BY <1>3, <3>1, FS_EmptySet
      <4>2. page'[g] = 1 /\ info'[g] = "live" /\ file'[g] = "open"
        BY <3>1 DEF DevType
      <4> QED
        BY <4>1, <4>2 DEF PageDrivers
    <3>2. CASE g # f
      BY <3>2 DEF PagesInv, DevType
    <3> QED
      BY <3>1, <3>2
  <2>2. \A v \in Vmas : vma[v] # NULL => info'[vma[v]] = "live"
    BY DEF PagesInv, DevType
  <2> QED
    BY <2>1, <2>2 DEF PagesInv
<1>5. RefInv' /\ BufInv' /\ PinInv'
  BY DEF RefInv, BufInv, PinInv
<1> QED
  BY <1>1, <1>4, <1>5

LEMMA DevRelease == ASSUME DevInv, NEW f \in Files, E!release(f) PROVE DevInv'
<1> USE DEF DevInv, E!release, E!Unused, E!hellovars, E!sizevars, E!pinvars
<1>1. DevType'
  BY DEF DevType
<1>2. Faulted(vma, pte, f) = {}
  BY DEF Faulted, DevType
<1>3. PagesInv'
  <2>1. ASSUME NEW g \in Files
        PROVE  /\ page'[g] = (IF info'[g] = "live" THEN 1 ELSE 0)
                             + Cardinality(Faulted(vma, pte, g))
               /\ info'[g] = "live" <=> /\ driver \in PageDrivers
                                        /\ file'[g] \in {"open", "closing"}
    <3>1. CASE g = f
      <4>1. Cardinality(Faulted(vma, pte, g)) = 0
        BY <1>2, <3>1, FS_EmptySet
      <4>2. page[g] = 1
        BY <3>1, <4>1 DEF PagesInv, PageDrivers
      <4>3. page'[g] = 0 /\ info'[g] = "freed" /\ file'[g] = "released"
        BY <3>1, <4>2 DEF DevType
      <4> QED
        BY <4>1, <4>3
    <3>2. CASE g # f
      BY <3>2 DEF PagesInv, DevType
    <3> QED
      BY <3>1, <3>2
  <2>2. \A v \in Vmas : vma[v] # NULL => info'[vma[v]] = "live"
    BY DEF PagesInv, DevType
  <2> QED
    BY <2>1, <2>2 DEF PagesInv
<1>4. RefInv' /\ BufInv' /\ PinInv'
  BY DEF RefInv, BufInv, PinInv
<1> QED
  BY <1>1, <1>3, <1>4

(* mmap by a descriptor, or fork's copy of an area.                        *)
LEMMA DevMap ==
    ASSUME DevInv, NEW v \in Vmas, vma[v] = NULL, NEW f \in Files, info[f] = "live",
           vma' = [vma EXCEPT ![v] = f], E!mmap_open(f),
           UNCHANGED <<driver, file, info, page, pte, lost, E!sizevars>>,
           UNCHANGED E!hellovars, UNCHANGED E!pinvars
    PROVE  DevInv'
<1> USE DEF DevInv, E!mmap_open, E!hellovars, E!sizevars, E!pinvars
<1> DEFINE m == vma'
<1>1. \A g \in Files :
         /\ m \in [Vmas -> Files \cup {NULL}]
         /\ Cardinality(Areas(m, g)) = Cardinality(Areas(vma, g)) + (IF g = f THEN 1 ELSE 0)
         /\ Faulted(m, pte, g) = Faulted(vma, pte, g)
  <2> SUFFICES ASSUME NEW g \in Files
               PROVE  /\ m \in [Vmas -> Files \cup {NULL}]
                      /\ Cardinality(Areas(m, g))
                           = Cardinality(Areas(vma, g)) + (IF g = f THEN 1 ELSE 0)
                      /\ Faulted(m, pte, g) = Faulted(vma, pte, g)
    OBVIOUS
  <2>1. m = Mapped(v, f) /\ DevType /\ PagesInv
    BY DEF Mapped
  <2> HIDE DEF m, DevInv
  <2> QED
    BY <2>1, AreaMore
<1>2. m \in [Vmas -> Files \cup {NULL}] /\ v \notin pte
  BY <1>1 DEF PagesInv
<1>3. DevType'
  BY <1>2 DEF DevType
<1>4. PagesInv'
  <2>1. \A g \in Files : page[g] = (IF info[g] = "live" THEN 1 ELSE 0)
                                   + Cardinality(Faulted(m, pte, g))
    BY <1>1 DEF PagesInv
  <2>2. \A w \in Vmas : m[w] # NULL => info[m[w]] = "live"
    BY DEF PagesInv, DevType
  <2>3. \A w \in pte : m[w] # NULL
    BY <1>2 DEF PagesInv, DevType
  <2> QED
    BY <2>1, <2>2, <2>3 DEF PagesInv
<1>5. RefInv'
  <2> SUFFICES ASSUME driver = "mma", NEW g \in Files
               PROVE  reference'[g] = Cardinality(Areas(m, g))
    BY DEF RefInv
  <2>1. reference[g] = Cardinality(Areas(vma, g)) /\ reference[g] \in Int
    BY DEF RefInv, DevType
  <2>2. reference'[g] = reference[g] + (IF g = f THEN 1 ELSE 0)
    BY DEF DevType
  <2>3. Cardinality(Areas(m, g)) = Cardinality(Areas(vma, g)) + (IF g = f THEN 1 ELSE 0)
    BY <1>1
  <2> HIDE DEF m
  <2> QED
    BY <2>1, <2>2, <2>3
<1>6. BufInv' /\ PinInv'
  BY DEF BufInv, PinInv
<1> QED
  BY <1>3, <1>4, <1>5, <1>6

LEMMA DevUnmap == ASSUME DevInv, NEW v \in Vmas, E!munmap(v) PROVE DevInv'
<1> USE DEF DevInv, E!munmap, E!mmap_close, E!hellovars, E!sizevars, E!pinvars
<1> DEFINE m == vma'
           f == vma[v]
<1>0. f \in Files
  BY DEF DevType
<1>1. \A g \in Files :
         /\ m \in [Vmas -> Files \cup {NULL}]
         /\ Cardinality(Areas(m, g)) = Cardinality(Areas(vma, g)) - (IF g = f THEN 1 ELSE 0)
         /\ Cardinality(Faulted(m, pte \ {v}, g))
              = Cardinality(Faulted(vma, pte, g)) - (IF g = f /\ v \in pte THEN 1 ELSE 0)
  BY AreaLess
<1>2. \A g \in Files : /\ Cardinality(Areas(vma, g)) \in Nat
                       /\ Cardinality(Faulted(vma, pte, g)) \in Nat
  BY AreasFinite DEF DevType
<1>3. DevType'
  BY <1>0, <1>1 DEF DevType
<1>4. PagesInv'
  <2>1. ASSUME NEW g \in Files
        PROVE  page'[g] = (IF info[g] = "live" THEN 1 ELSE 0)
                          + Cardinality(Faulted(m, pte \ {v}, g))
    <3>1. page[g] = (IF info[g] = "live" THEN 1 ELSE 0) + Cardinality(Faulted(vma, pte, g))
      BY DEF PagesInv
    <3>2. page'[g] = page[g] - (IF g = f /\ v \in pte THEN 1 ELSE 0)
      BY <1>0 DEF DevType
    <3>3. Cardinality(Faulted(m, pte \ {v}, g))
            = Cardinality(Faulted(vma, pte, g)) - (IF g = f /\ v \in pte THEN 1 ELSE 0)
      BY <1>1
    <3>4. Cardinality(Faulted(vma, pte, g)) \in Nat
      BY <1>2
    <3> HIDE DEF m, f
    <3> QED
      BY <3>1, <3>2, <3>3, <3>4
  <2>2. \A w \in Vmas : m[w] # NULL => info[m[w]] = "live"
    BY DEF PagesInv, DevType
  <2>3. \A w \in pte \ {v} : m[w] # NULL
    BY DEF PagesInv, DevType
  <2> QED
    BY <2>1, <2>2, <2>3 DEF PagesInv
<1>5. RefInv'
  <2> SUFFICES ASSUME driver = "mma", NEW g \in Files
               PROVE  reference'[g] = Cardinality(Areas(m, g))
    BY DEF RefInv
  <2>1. reference[g] = Cardinality(Areas(vma, g)) /\ reference[g] \in Int
    BY DEF RefInv, DevType
  <2>2. reference'[g] = reference[g] - (IF g = f THEN 1 ELSE 0)
    BY <1>0 DEF DevType
  <2> QED
    BY <1>1, <1>2, <2>1, <2>2
<1>6. BufInv' /\ PinInv'
  BY DEF BufInv, PinInv
<1> QED
  BY <1>3, <1>4, <1>5, <1>6

LEMMA DevFault == ASSUME DevInv, NEW v \in Vmas, E!mmap_fault(v) PROVE DevInv'
<1> USE DEF DevInv, E!mmap_fault, E!hellovars, E!sizevars, E!pinvars
<1>1. \A g \in Files :
         Cardinality(Faulted(vma, pte \cup {v}, g))
           = Cardinality(Faulted(vma, pte, g)) + (IF g = vma[v] THEN 1 ELSE 0)
  BY FaultMore
<1>2. DevType'
  BY DEF DevType
<1>3. PagesInv'
  <2>1. ASSUME NEW g \in Files
        PROVE  page'[g] = (IF info[g] = "live" THEN 1 ELSE 0)
                          + Cardinality(Faulted(vma, pte \cup {v}, g))
    <3>1. Cardinality(Faulted(vma, pte, g)) \in Nat
      BY AreasFinite DEF DevType
    <3>2. page'[g] = page[g] + (IF g = vma[v] THEN 1 ELSE 0)
      BY DEF DevType
    <3>3. page[g] = (IF info[g] = "live" THEN 1 ELSE 0) + Cardinality(Faulted(vma, pte, g))
      BY DEF PagesInv
    <3>4. Cardinality(Faulted(vma, pte \cup {v}, g))
            = Cardinality(Faulted(vma, pte, g)) + (IF g = vma[v] THEN 1 ELSE 0)
      BY <1>1
    <3> QED
      BY <3>1, <3>2, <3>3, <3>4
  <2> QED
    BY <2>1 DEF PagesInv
<1>4. RefInv' /\ BufInv' /\ PinInv'
  BY DEF RefInv, BufInv, PinInv
<1> QED
  BY <1>2, <1>3, <1>4

LEMMA DevPin == ASSUME DevInv, NEW f \in Files, E!sample_write(f) PROVE DevInv'
<1> USE DEF DevInv, E!sample_write, E!hellovars, E!sizevars, E!pagevars
<1>1. DevType'
  BY DEF DevType
<1>2. PinInv'
  <2>1. CASE mapped
    <3>1. WritingIn(sem') = WritingIn(sem) \cup {f} /\ f \notin WritingIn(sem)
      BY <2>1 DEF WritingIn, DevType
    <3>2. Cardinality(WritingIn(sem')) = Cardinality(WritingIn(sem)) + 1
      BY <3>1, WritersFinite, FS_AddElement
    <3> QED
      BY <2>1, <3>2 DEF PinInv
  <2>2. CASE ~mapped
    <3>1. WritingIn(sem') = WritingIn(sem)
      BY <2>2 DEF WritingIn, DevType
    <3> QED
      BY <2>2, <3>1 DEF PinInv
  <2> QED
    BY <2>1, <2>2
<1>3. PagesInv' /\ RefInv' /\ BufInv'
  BY DEF PagesInv, RefInv, BufInv
<1> QED
  BY <1>1, <1>2, <1>3

LEMMA DevPut == ASSUME DevInv, NEW f \in Files, E!put_page(f) PROVE DevInv'
<1> USE DEF DevInv, E!put_page, E!hellovars, E!sizevars, E!pagevars
<1>1. DevType'
  BY DEF DevType
<1>2. PinInv'
  <2>1. WritingIn(sem') = WritingIn(sem) \ {f} /\ f \in WritingIn(sem)
    BY DEF WritingIn, DevType
  <2>2. Cardinality(WritingIn(sem')) = Cardinality(WritingIn(sem)) - 1
    BY <2>1, WritersFinite, FS_RemoveElement
  <2> QED
    BY <2>2 DEF PinInv
<1>3. PagesInv' /\ RefInv' /\ BufInv'
  BY DEF PagesInv, RefInv, BufInv
<1> QED
  BY <1>1, <1>2, <1>3

LEMMA DevStep == DevInv /\ [E!Next]_E!evars => DevInv'
<1> SUFFICES ASSUME DevInv, [E!Next]_E!evars PROVE DevInv'
  OBVIOUS
<1> USE DEF E!pagevars, E!hellovars, E!sizevars, E!pinvars, PageDrivers
<1>1. ASSUME NEW f \in Files, E!t_read(f) PROVE DevInv'
  BY <1>1 DEF E!t_read, DevInv, DevType, PagesInv, RefInv, BufInv, PinInv
<1>2. ASSUME NEW f \in Files, E!close(f) PROVE DevInv'
  <2>1. BufInv'
    BY <1>2 DEF E!close, DevInv, BufInv, DevType
  <2> QED
    BY <1>2, <2>1, FileStep DEF E!close, DevInv, DevType
<1>3. ASSUME NEW f \in Files, E!simple_char_open(f) PROVE DevInv'
  <2>1. BufInv'
    BY <1>3 DEF E!simple_char_open, DevInv, BufInv
  <2> QED
    BY <1>3, <2>1, FileStep DEF E!simple_char_open, DevInv, DevType
<1>4. ASSUME NEW f \in Files, E!simple_char_release(f) PROVE DevInv'
  <2>1. BufInv'
    BY <1>4 DEF E!simple_char_release, E!Unused, DevInv, BufInv, DevType
  <2> QED
    BY <1>4, <2>1, FileStep DEF E!simple_char_release, DevInv, DevType
<1>5. ASSUME NEW f \in Files, NEW n, E!simple_char_write(f, n) PROVE DevInv'
  <2>1. copying' \in [Files -> Nat \cup {NULL}]
        /\ \A g \in Files : copying'[g] # NULL => copying'[g] \in Nat
    BY <1>5 DEF E!simple_char_write, DevInv, DevType
  <2>2. BufInv'
    BY <1>5 DEF E!simple_char_write, DevInv, BufInv, DevType
  <2> QED
    BY <1>5, <2>1, <2>2, FileStep DEF E!simple_char_write, DevInv, DevType
<1>6. ASSUME NEW f \in Files, E!write_done(f) PROVE DevInv'
  <2>1. copying' \in [Files -> Nat \cup {NULL}] /\ wsize' \in Nat
        /\ \A g \in Files : copying'[g] # NULL => copying'[g] \in Nat
    BY <1>6 DEF E!write_done, DevInv, DevType
  <2>2. BufInv'
    BY <1>6 DEF E!write_done, DevInv, BufInv, DevType
  <2> QED
    BY <1>6, <2>1, <2>2, FileStep DEF E!write_done, DevInv, DevType
<1>7. CASE E!simple_char_init
  <2>1. BufInv' /\ wsize' \in Nat
    BY <1>7 DEF E!simple_char_init, DevInv, BufInv, DevType
  <2> QED
    BY <1>7, <2>1, FileStep DEF E!simple_char_init, DevInv, DevType
<1>8. CASE E!simple_char_exit
  <2>1. BufInv'
    BY <1>8 DEF E!simple_char_exit, DevInv, BufInv
  <2> QED
    BY <1>8, <2>1, FileStep DEF E!simple_char_exit, DevInv, DevType
<1>9. CASE E!unmap_page
  BY <1>9 DEF E!unmap_page, DevInv, DevType, PagesInv, RefInv, BufInv, PinInv
<1>10. ASSUME NEW f \in Files, NEW v \in Vmas, E!my_mmap(f, v) PROVE DevInv'
  <2>1. info[f] = "live"
    BY <1>10 DEF E!my_mmap, DevInv, PagesInv
  <2> QED
    BY <1>10, <2>1, DevMap DEF E!my_mmap
<1>11. ASSUME NEW v \in Vmas, NEW w \in Vmas, E!fork(v, w) PROVE DevInv'
  <2>1. vma[v] \in Files /\ info[vma[v]] = "live"
    BY <1>11 DEF E!fork, DevInv, PagesInv, DevType
  <2> QED
    BY <1>11, <2>1, DevMap DEF E!fork
<1>12. ASSUME NEW f \in Files, E!open_dies(f) PROVE DevInv'
  <2>1. BufInv'
    BY <1>12 DEF E!open_dies, DevInv, BufInv, DevType
  <2>2. info[f] # "live" /\ DevType'
    BY <1>12 DEF E!open_dies, DevInv, DevType, PagesInv
  <2>3. PagesInv' /\ RefInv' /\ PinInv'
    BY <1>12, <2>2 DEF E!open_dies, DevInv, DevType, PagesInv, RefInv, PinInv
  <2> QED
    BY <2>1, <2>2, <2>3 DEF DevInv
<1>13. ASSUME NEW f \in Files, E!write_fails(f) PROVE DevInv'
  <2>1. copying' \in [Files -> Nat \cup {NULL}]
        /\ \A g \in Files : copying'[g] # NULL => copying'[g] \in Nat
    BY <1>13 DEF E!write_fails, DevInv, DevType
  <2>2. BufInv'
    BY <1>13 DEF E!write_fails, DevInv, BufInv, DevType
  <2> QED
    BY <1>13, <2>1, <2>2, FileStep DEF E!write_fails, DevInv, DevType
<1>14. ASSUME NEW n \in Sizes, E!set_bufsize(n) PROVE DevInv'
  <2>1. n \in Nat
    BY ExamplesAssumption
  <2>2. BufInv'
    <3>1. ~raised' => ~raised /\ (bufs = "live" => bufsize' <= bufcap)
      <4>1. raised' <=> raised \/ (bufs = "live" /\ n > bufcap)
        BY <1>14, Zenon DEF E!set_bufsize
      <4>2. bufsize' = n /\ bufcap \in Nat /\ (n <= bufcap \/ n > bufcap)
        BY <1>14, <2>1 DEF E!set_bufsize, DevInv, DevType
      <4> QED
        BY <4>1, <4>2, Zenon
    <3>2. UNCHANGED <<driver, file, bufcap, bufs, wsize, copying>>
      BY <1>14 DEF E!set_bufsize
    <3> QED
      BY <3>1, <3>2 DEF DevInv, BufInv
  <2> QED
    BY <1>14, <2>1, <2>2, FileStep DEF E!set_bufsize, DevInv, DevType
<1>15. CASE UNCHANGED E!evars
  BY <1>15 DEF E!evars, DevInv, DevType, PagesInv, RefInv, BufInv, PinInv
<1> QED
  BY <1>1, <1>2, <1>3, <1>4, <1>5, <1>6, <1>7, <1>8, <1>9, <1>10, <1>11, <1>12,
     <1>13, <1>14, <1>15, DevOpen, DevRelease, DevUnmap, DevFault, DevPin, DevPut DEF E!Next

LEMMA SameCardinality == ASSUME NEW Q PROVE E!Cardinality(Q) = Cardinality(Q)
  BY Zenon DEF E!Cardinality, Cardinality

LEMMA DevSafe == DevInv => DeviceMemory
<1> SUFFICES ASSUME DevInv PROVE DeviceMemory
  OBVIOUS
<1>1. E!MappingSafe
  <2>1. ASSUME NEW f \in Files, \E v \in Vmas : vma[v] = f PROVE info[f] = "live"
    BY <2>1, ExamplesAssumption DEF DevInv, PagesInv
  <2>2. ASSUME NEW f \in Files
        PROVE  page[f] = (IF info[f] = "live" THEN 1 ELSE 0)
                         + Cardinality({v \in pte : vma[v] = f})
    <3>1. Faulted(vma, pte, f) = {v \in pte : vma[v] = f}
      BY DEF Faulted
    <3> QED
      BY <3>1 DEF DevInv, PagesInv
  <2> QED
    BY <2>1, <2>2, SameCardinality, Zenon DEF E!MappingSafe
<1>2. E!ReferenceBalanced
  <2>1. ASSUME driver = "mma", NEW f \in Files
        PROVE  reference[f] = Cardinality({v \in Vmas : vma[v] = f})
    <3>1. Areas(vma, f) = {v \in Vmas : vma[v] = f}
      BY DEF Areas
    <3> QED
      BY <2>1, <3>1 DEF DevInv, RefInv
  <2> QED
    BY <2>1, SameCardinality, Zenon DEF E!ReferenceBalanced
<1>3. E!BufferBounds
  <2>1. ASSUME NEW f \in Files, driver = "hello", file[f] = "open" PROVE bufs = "live"
    BY <2>1 DEF DevInv, BufInv
  <2> QED
    BY <2>1 DEF DevInv, BufInv, E!BufferBounds
<1>4. E!PinnedLive
  <2> SUFFICES ASSUME NEW f \in Files, sem[f] = "writing" PROVE pins > 0
    BY DEF E!PinnedLive
  <2>1. f \in WritingIn(sem)
    BY DEF WritingIn
  <2>2. Cardinality(WritingIn(sem)) # 0
    BY <2>1, WritersFinite, FS_EmptySet
  <2> QED
    BY <2>2, WritersFinite DEF DevInv, PinInv
<1> QED
  BY <1>1, <1>2, <1>3, <1>4 DEF DeviceMemory, E!DeviceMemory

(* mmap_open, mmap_fault, release (mma.c, vmm.c, gread.c), simple_char_*   *)
(* (hello.c), sample_write (get_user_pages/sample.c): for any number of    *)
(* files, areas and callers and any buffer size, a page is there while an  *)
(* area or a caller uses it, and no write leaves the buffer unless its     *)
(* size parameter was raised after the load.                               *)
THEOREM DevicesKeepMemory == E!Spec => []DeviceMemory
<1>1. E!Init => DevInv
  BY DevInit
<1>2. DevInv /\ [E!Next]_E!evars => DevInv'
  BY DevStep
<1>3. DevInv => DeviceMemory
  BY DevSafe
<1> QED
  BY <1>1, <1>2, <1>3, PTL DEF E!Spec

(* A behaviour of MCExamples is one of RcuSample and one of the devices.   *)
LEMMA ExamplesParts == ExamplesSpec => Spec /\ E!Spec
<1>1. ExamplesInit => Init /\ E!Init
  BY DEF ExamplesInit
<1>2. [ExamplesNext]_<<tried, vars, devices>> => [Next]_vars /\ [E!Next]_E!evars
  BY Zenon DEF ExamplesNext, devices, E!evars
<1> QED
  BY <1>1, <1>2, PTL DEF ExamplesSpec, Spec, E!Spec

(* The properties of the examples as the run checks them.                  *)
THEOREM ExamplesSound == ExamplesSpec => [](MemorySafe /\ NoLeak /\ DeviceMemory)
  BY ExamplesParts, MemoryIsSafe, NothingLeaks, DevicesKeepMemory, PTL
=============================================================================
