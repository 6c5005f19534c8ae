---------------------------- MODULE ToyRcuProofs ----------------------------
(***************************************************************************)
(* Proofs about ToyRcu, for any sets of readers, writers, addresses and    *)
(* values and any number of failing allocations.  Inv (in ToyRcu) is       *)
(* inductive: one lemma per conjunct shows that every step preserves it,   *)
(* one step of the proof per action; the safety properties and the         *)
(* refinement of FooRegister follow from it.                               *)
(***************************************************************************)
EXTENDS ToyRcu, TLAPS

USE ToyRcuAssumption DEF Threads

(* Every variable keeps its type; a load or a copy is typed because its    *)
(* pointer is one that ReaderInv and NoLostUpdate describe.                *)
LEMMA TypeOKStep == Inv /\ Next => TypeOK'
<1> SUFFICES ASSUME Inv, Next PROVE TypeOK'
  OBVIOUS
<1> USE DEF Inv, TypeOK, LifeInv, GblInv, ReaderInv, NoLostUpdate,
    Loaded, GracePC, RetiredInv, RetiredPC, memVars, lockVars, localVars,
    moduleVars, ReaderPC, WriterPC, ModulePC
<1>1. CASE Insmod
  BY <1>1 DEF Insmod
<1>2. CASE init_foo
  BY <1>2 DEF init_foo
<1>3. CASE init_kthread
  BY <1>3 DEF init_kthread
<1>4. CASE Rmmod
  BY <1>4 DEF Rmmod
<1>5. CASE kthread_stop
  BY <1>5 DEF kthread_stop
<1>6. CASE kthread_join
  BY <1>6 DEF kthread_join
<1>7. CASE exit_free
  BY <1>7 DEF exit_free
<1>8. ASSUME NEW r \in Readers, reader_loop(r) PROVE TypeOK'
  BY <1>8 DEF reader_loop, Goto
<1>9. ASSUME NEW r \in Readers, toy_rcu_read_lock(r) PROVE TypeOK'
  BY <1>9 DEF toy_rcu_read_lock, Goto
<1>10. ASSUME NEW r \in Readers, rcu_dereference(r) PROVE TypeOK'
  BY <1>10 DEF rcu_dereference, Goto
<1>11. ASSUME NEW r \in Readers, load_a(r) PROVE TypeOK'
  BY <1>11 DEF load_a, Goto
<1>12. ASSUME NEW r \in Readers, toy_rcu_read_unlock(r) PROVE TypeOK'
  BY <1>12 DEF toy_rcu_read_unlock, Goto
<1>13. ASSUME NEW w \in Writers, writer_loop(w) PROVE TypeOK'
  BY <1>13 DEF writer_loop, Goto
<1>14. ASSUME NEW w \in Writers, kmalloc_new(w) PROVE TypeOK'
  BY <1>14 DEF kmalloc_new, Goto
<1>15. ASSUME NEW w \in Writers, spin_lock(w) PROVE TypeOK'
  BY <1>15 DEF spin_lock, Goto
<1>16. ASSUME NEW w \in Writers, get_old(w) PROVE TypeOK'
  BY <1>16 DEF get_old, Goto
<1>17. ASSUME NEW w \in Writers, copy_foo(w) PROVE TypeOK'
  BY <1>17 DEF copy_foo, Goto
<1>18. ASSUME NEW w \in Writers, set_a(w) PROVE TypeOK'
  BY <1>18 DEF set_a, Goto
<1>19. ASSUME NEW w \in Writers, rcu_assign_pointer(w) PROVE TypeOK'
  BY <1>19 DEF rcu_assign_pointer, Goto
<1>20. ASSUME NEW w \in Writers, spin_unlock(w) PROVE TypeOK'
  BY <1>20 DEF spin_unlock, Goto
<1>21. ASSUME NEW w \in Writers, toy_synchronize_rcu_wait(w) PROVE TypeOK'
  BY <1>21 DEF toy_synchronize_rcu_wait, Goto
<1>22. ASSUME NEW w \in Writers, toy_synchronize_rcu_lock(w) PROVE TypeOK'
  BY <1>22 DEF toy_synchronize_rcu_lock, Goto
<1>23. ASSUME NEW w \in Writers, toy_synchronize_rcu_unlock(w) PROVE TypeOK'
  BY <1>23 DEF toy_synchronize_rcu_unlock, Goto
<1>24. ASSUME NEW w \in Writers, kfree_old(w) PROVE TypeOK'
  BY <1>24 DEF kfree_old, Goto
<1>25. QED
  BY <1>1, <1>2, <1>3, <1>4, <1>5, <1>6, <1>7, <1>8, <1>9, <1>10, <1>11,
      <1>12, <1>13, <1>14, <1>15, <1>16, <1>17, <1>18, <1>19, <1>20, <1>21,
      <1>22, <1>23, <1>24 DEF Next, Module, Reader, Writer

(* The locks are held by the threads that are inside their sections.       *)
LEMMA LockInvStep == Inv /\ Next => LockInv'
<1> SUFFICES ASSUME Inv, Next PROVE LockInv'
  OBVIOUS
<1> USE DEF Inv, TypeOK, LockInv, LifeInv, memVars, lockVars, localVars,
    moduleVars, ReaderPC, WriterPC, ReadingPC, CriticalPC
<1>1. CASE Insmod
  BY <1>1 DEF Insmod
<1>2. CASE init_foo
  BY <1>2 DEF init_foo
<1>3. CASE init_kthread
  BY <1>3 DEF init_kthread
<1>4. CASE Rmmod
  BY <1>4 DEF Rmmod
<1>5. CASE kthread_stop
  BY <1>5 DEF kthread_stop
<1>6. CASE kthread_join
  BY <1>6 DEF kthread_join
<1>7. CASE exit_free
  BY <1>7 DEF exit_free
<1>8. ASSUME NEW r \in Readers, reader_loop(r) PROVE LockInv'
  BY <1>8 DEF reader_loop, Goto
<1>9. ASSUME NEW r \in Readers, toy_rcu_read_lock(r) PROVE LockInv'
  BY <1>9 DEF toy_rcu_read_lock, Goto
<1>10. ASSUME NEW r \in Readers, rcu_dereference(r) PROVE LockInv'
  BY <1>10 DEF rcu_dereference, Goto
<1>11. ASSUME NEW r \in Readers, load_a(r) PROVE LockInv'
  BY <1>11 DEF load_a, Goto
<1>12. ASSUME NEW r \in Readers, toy_rcu_read_unlock(r) PROVE LockInv'
  BY <1>12 DEF toy_rcu_read_unlock, Goto
<1>13. ASSUME NEW w \in Writers, writer_loop(w) PROVE LockInv'
  BY <1>13 DEF writer_loop, Goto
<1>14. ASSUME NEW w \in Writers, kmalloc_new(w) PROVE LockInv'
  BY <1>14 DEF kmalloc_new, Goto
<1>15. ASSUME NEW w \in Writers, spin_lock(w) PROVE LockInv'
  BY <1>15 DEF spin_lock, Goto
<1>16. ASSUME NEW w \in Writers, get_old(w) PROVE LockInv'
  BY <1>16 DEF get_old, Goto
<1>17. ASSUME NEW w \in Writers, copy_foo(w) PROVE LockInv'
  BY <1>17 DEF copy_foo, Goto
<1>18. ASSUME NEW w \in Writers, set_a(w) PROVE LockInv'
  BY <1>18 DEF set_a, Goto
<1>19. ASSUME NEW w \in Writers, rcu_assign_pointer(w) PROVE LockInv'
  BY <1>19 DEF rcu_assign_pointer, Goto
<1>20. ASSUME NEW w \in Writers, spin_unlock(w) PROVE LockInv'
  BY <1>20 DEF spin_unlock, Goto
<1>21. ASSUME NEW w \in Writers, toy_synchronize_rcu_wait(w) PROVE LockInv'
  BY <1>21 DEF toy_synchronize_rcu_wait, Goto
<1>22. ASSUME NEW w \in Writers, toy_synchronize_rcu_lock(w) PROVE LockInv'
  BY <1>22 DEF toy_synchronize_rcu_lock, Goto
<1>23. ASSUME NEW w \in Writers, toy_synchronize_rcu_unlock(w) PROVE LockInv'
  BY <1>23 DEF toy_synchronize_rcu_unlock, Goto
<1>24. ASSUME NEW w \in Writers, kfree_old(w) PROVE LockInv'
  BY <1>24 DEF kfree_old, Goto
<1>25. QED
  BY <1>1, <1>2, <1>3, <1>4, <1>5, <1>6, <1>7, <1>8, <1>9, <1>10, <1>11,
      <1>12, <1>13, <1>14, <1>15, <1>16, <1>17, <1>18, <1>19, <1>20, <1>21,
      <1>22, <1>23, <1>24 DEF Next, Module, Reader, Writer

(* Load and unload: kthread_stop waits, so no thread runs when the         *)
(* structure is freed.                                                     *)
LEMMA LifeInvStep == Inv /\ Next => LifeInv'
<1> SUFFICES ASSUME Inv, Next PROVE LifeInv'
  OBVIOUS
<1> USE DEF Inv, TypeOK, LifeInv, Exited, memVars, lockVars, localVars,
    moduleVars, ReaderPC, WriterPC, ModulePC
<1>1. CASE Insmod
  BY <1>1 DEF Insmod
<1>2. CASE init_foo
  BY <1>2 DEF init_foo
<1>3. CASE init_kthread
  BY <1>3 DEF init_kthread
<1>4. CASE Rmmod
  BY <1>4 DEF Rmmod
<1>5. CASE kthread_stop
  BY <1>5 DEF kthread_stop
<1>6. CASE kthread_join
  BY <1>6 DEF kthread_join
<1>7. CASE exit_free
  BY <1>7 DEF exit_free
<1>8. ASSUME NEW r \in Readers, reader_loop(r) PROVE LifeInv'
  BY <1>8 DEF reader_loop, Goto
<1>9. ASSUME NEW r \in Readers, toy_rcu_read_lock(r) PROVE LifeInv'
  BY <1>9 DEF toy_rcu_read_lock, Goto
<1>10. ASSUME NEW r \in Readers, rcu_dereference(r) PROVE LifeInv'
  BY <1>10 DEF rcu_dereference, Goto
<1>11. ASSUME NEW r \in Readers, load_a(r) PROVE LifeInv'
  BY <1>11 DEF load_a, Goto
<1>12. ASSUME NEW r \in Readers, toy_rcu_read_unlock(r) PROVE LifeInv'
  BY <1>12 DEF toy_rcu_read_unlock, Goto
<1>13. ASSUME NEW w \in Writers, writer_loop(w) PROVE LifeInv'
  BY <1>13 DEF writer_loop, Goto
<1>14. ASSUME NEW w \in Writers, kmalloc_new(w) PROVE LifeInv'
  BY <1>14 DEF kmalloc_new, Goto
<1>15. ASSUME NEW w \in Writers, spin_lock(w) PROVE LifeInv'
  BY <1>15 DEF spin_lock, Goto
<1>16. ASSUME NEW w \in Writers, get_old(w) PROVE LifeInv'
  BY <1>16 DEF get_old, Goto
<1>17. ASSUME NEW w \in Writers, copy_foo(w) PROVE LifeInv'
  BY <1>17 DEF copy_foo, Goto
<1>18. ASSUME NEW w \in Writers, set_a(w) PROVE LifeInv'
  BY <1>18 DEF set_a, Goto
<1>19. ASSUME NEW w \in Writers, rcu_assign_pointer(w) PROVE LifeInv'
  BY <1>19 DEF rcu_assign_pointer, Goto
<1>20. ASSUME NEW w \in Writers, spin_unlock(w) PROVE LifeInv'
  BY <1>20 DEF spin_unlock, Goto
<1>21. ASSUME NEW w \in Writers, toy_synchronize_rcu_wait(w) PROVE LifeInv'
  BY <1>21 DEF toy_synchronize_rcu_wait, Goto
<1>22. ASSUME NEW w \in Writers, toy_synchronize_rcu_lock(w) PROVE LifeInv'
  BY <1>22 DEF toy_synchronize_rcu_lock, Goto
<1>23. ASSUME NEW w \in Writers, toy_synchronize_rcu_unlock(w) PROVE LifeInv'
  BY <1>23 DEF toy_synchronize_rcu_unlock, Goto
<1>24. ASSUME NEW w \in Writers, kfree_old(w) PROVE LifeInv'
  BY <1>24 DEF kfree_old, Goto
<1>25. QED
  BY <1>1, <1>2, <1>3, <1>4, <1>5, <1>6, <1>7, <1>8, <1>9, <1>10, <1>11,
      <1>12, <1>13, <1>14, <1>15, <1>16, <1>17, <1>18, <1>19, <1>20, <1>21,
      <1>22, <1>23, <1>24 DEF Next, Module, Reader, Writer

(* The published structure is allocated and initialised.                   *)
LEMMA GblInvStep == Inv /\ Next => GblInv'
<1> SUFFICES ASSUME Inv, Next PROVE GblInv'
  OBVIOUS
<1> USE DEF Inv, TypeOK, LifeInv, GblInv, PrivateInv, RetiredInv,
    Exited, memVars, lockVars, localVars, moduleVars, ReaderPC, WriterPC,
    ModulePC, ReadingPC, CriticalPC, GracePC, PrivatePC, RetiredPC, Loaded
<1>1. CASE Insmod
  BY <1>1 DEF Insmod
<1>2. CASE init_foo
  BY <1>2 DEF init_foo
<1>3. CASE init_kthread
  BY <1>3 DEF init_kthread
<1>4. CASE Rmmod
  BY <1>4 DEF Rmmod
<1>5. CASE kthread_stop
  BY <1>5 DEF kthread_stop
<1>6. CASE kthread_join
  BY <1>6 DEF kthread_join
<1>7. CASE exit_free
  BY <1>7 DEF exit_free
<1>8. ASSUME NEW r \in Readers, reader_loop(r) PROVE GblInv'
  BY <1>8 DEF reader_loop, Goto
<1>9. ASSUME NEW r \in Readers, toy_rcu_read_lock(r) PROVE GblInv'
  BY <1>9 DEF toy_rcu_read_lock, Goto
<1>10. ASSUME NEW r \in Readers, rcu_dereference(r) PROVE GblInv'
  BY <1>10 DEF rcu_dereference, Goto
<1>11. ASSUME NEW r \in Readers, load_a(r) PROVE GblInv'
  BY <1>11 DEF load_a, Goto
<1>12. ASSUME NEW r \in Readers, toy_rcu_read_unlock(r) PROVE GblInv'
  BY <1>12 DEF toy_rcu_read_unlock, Goto
<1>13. ASSUME NEW w \in Writers, writer_loop(w) PROVE GblInv'
  BY <1>13 DEF writer_loop, Goto
<1>14. ASSUME NEW w \in Writers, kmalloc_new(w) PROVE GblInv'
  BY <1>14 DEF kmalloc_new, Goto
<1>15. ASSUME NEW w \in Writers, spin_lock(w) PROVE GblInv'
  BY <1>15 DEF spin_lock, Goto
<1>16. ASSUME NEW w \in Writers, get_old(w) PROVE GblInv'
  BY <1>16 DEF get_old, Goto
<1>17. ASSUME NEW w \in Writers, copy_foo(w) PROVE GblInv'
  BY <1>17 DEF copy_foo, Goto
<1>18. ASSUME NEW w \in Writers, set_a(w) PROVE GblInv'
  BY <1>18 DEF set_a, Goto
<1>19. ASSUME NEW w \in Writers, rcu_assign_pointer(w) PROVE GblInv'
  BY <1>19 DEF rcu_assign_pointer, Goto
<1>20. ASSUME NEW w \in Writers, spin_unlock(w) PROVE GblInv'
  BY <1>20 DEF spin_unlock, Goto
<1>21. ASSUME NEW w \in Writers, toy_synchronize_rcu_wait(w) PROVE GblInv'
  BY <1>21 DEF toy_synchronize_rcu_wait, Goto
<1>22. ASSUME NEW w \in Writers, toy_synchronize_rcu_lock(w) PROVE GblInv'
  BY <1>22 DEF toy_synchronize_rcu_lock, Goto
<1>23. ASSUME NEW w \in Writers, toy_synchronize_rcu_unlock(w) PROVE GblInv'
  BY <1>23 DEF toy_synchronize_rcu_unlock, Goto
<1>24. ASSUME NEW w \in Writers, kfree_old(w) PROVE GblInv'
  BY <1>24 DEF kfree_old, Goto
<1>25. QED
  BY <1>1, <1>2, <1>3, <1>4, <1>5, <1>6, <1>7, <1>8, <1>9, <1>10, <1>11,
      <1>12, <1>13, <1>14, <1>15, <1>16, <1>17, <1>18, <1>19, <1>20, <1>21,
      <1>22, <1>23, <1>24 DEF Next, Module, Reader, Writer

(* A structure a writer has not published is its own.                      *)
LEMMA PrivateInvStep == Inv /\ Next => PrivateInv'
<1> SUFFICES ASSUME Inv, Next PROVE PrivateInv'
  OBVIOUS
<1> USE DEF Inv, TypeOK, LockInv, LifeInv, GblInv, PrivateInv,
    RetiredInv, Exited, memVars, lockVars, localVars, moduleVars, ReaderPC,
    WriterPC, ModulePC, ReadingPC, CriticalPC, GracePC, PrivatePC, RetiredPC,
    Loaded
<1>1. CASE Insmod
  BY <1>1 DEF Insmod
<1>2. CASE init_foo
  BY <1>2 DEF init_foo
<1>3. CASE init_kthread
  BY <1>3 DEF init_kthread
<1>4. CASE Rmmod
  BY <1>4 DEF Rmmod
<1>5. CASE kthread_stop
  BY <1>5 DEF kthread_stop
<1>6. CASE kthread_join
  BY <1>6 DEF kthread_join
<1>7. CASE exit_free
  BY <1>7 DEF exit_free
<1>8. ASSUME NEW r \in Readers, reader_loop(r) PROVE PrivateInv'
  BY <1>8 DEF reader_loop, Goto
<1>9. ASSUME NEW r \in Readers, toy_rcu_read_lock(r) PROVE PrivateInv'
  BY <1>9 DEF toy_rcu_read_lock, Goto
<1>10. ASSUME NEW r \in Readers, rcu_dereference(r) PROVE PrivateInv'
  BY <1>10 DEF rcu_dereference, Goto
<1>11. ASSUME NEW r \in Readers, load_a(r) PROVE PrivateInv'
  BY <1>11 DEF load_a, Goto
<1>12. ASSUME NEW r \in Readers, toy_rcu_read_unlock(r) PROVE PrivateInv'
  BY <1>12 DEF toy_rcu_read_unlock, Goto
<1>13. ASSUME NEW w \in Writers, writer_loop(w) PROVE PrivateInv'
  BY <1>13 DEF writer_loop, Goto
<1>14. ASSUME NEW w \in Writers, kmalloc_new(w) PROVE PrivateInv'
  BY <1>14 DEF kmalloc_new, Goto
<1>15. ASSUME NEW w \in Writers, spin_lock(w) PROVE PrivateInv'
  BY <1>15 DEF spin_lock, Goto
<1>16. ASSUME NEW w \in Writers, get_old(w) PROVE PrivateInv'
  BY <1>16 DEF get_old, Goto
<1>17. ASSUME NEW w \in Writers, copy_foo(w) PROVE PrivateInv'
  BY <1>17 DEF copy_foo, Goto
<1>18. ASSUME NEW w \in Writers, set_a(w) PROVE PrivateInv'
  BY <1>18 DEF set_a, Goto
<1>19. ASSUME NEW w \in Writers, rcu_assign_pointer(w) PROVE PrivateInv'
  BY <1>19 DEF rcu_assign_pointer, Goto
<1>20. ASSUME NEW w \in Writers, spin_unlock(w) PROVE PrivateInv'
  BY <1>20 DEF spin_unlock, Goto
<1>21. ASSUME NEW w \in Writers, toy_synchronize_rcu_wait(w) PROVE
    PrivateInv'
  BY <1>21 DEF toy_synchronize_rcu_wait, Goto
<1>22. ASSUME NEW w \in Writers, toy_synchronize_rcu_lock(w) PROVE
    PrivateInv'
  BY <1>22 DEF toy_synchronize_rcu_lock, Goto
<1>23. ASSUME NEW w \in Writers, toy_synchronize_rcu_unlock(w) PROVE
    PrivateInv'
  BY <1>23 DEF toy_synchronize_rcu_unlock, Goto
<1>24. ASSUME NEW w \in Writers, kfree_old(w) PROVE PrivateInv'
  BY <1>24 DEF kfree_old, Goto
<1>25. QED
  BY <1>1, <1>2, <1>3, <1>4, <1>5, <1>6, <1>7, <1>8, <1>9, <1>10, <1>11,
      <1>12, <1>13, <1>14, <1>15, <1>16, <1>17, <1>18, <1>19, <1>20, <1>21,
      <1>22, <1>23, <1>24 DEF Next, Module, Reader, Writer

(* A structure a writer has replaced is its own to free.                   *)
LEMMA RetiredInvStep == Inv /\ Next => RetiredInv'
<1> SUFFICES ASSUME Inv, Next PROVE RetiredInv'
  OBVIOUS
<1> USE DEF Inv, TypeOK, LockInv, LifeInv, GblInv, PrivateInv,
    RetiredInv, NoLostUpdate, Exited, memVars, lockVars, localVars,
    moduleVars, ReaderPC, WriterPC, ModulePC, ReadingPC, CriticalPC, GracePC,
    PrivatePC, RetiredPC, Loaded
<1>1. CASE Insmod
  BY <1>1 DEF Insmod
<1>2. CASE init_foo
  BY <1>2 DEF init_foo
<1>3. CASE init_kthread
  BY <1>3 DEF init_kthread
<1>4. CASE Rmmod
  BY <1>4 DEF Rmmod
<1>5. CASE kthread_stop
  BY <1>5 DEF kthread_stop
<1>6. CASE kthread_join
  BY <1>6 DEF kthread_join
<1>7. CASE exit_free
  BY <1>7 DEF exit_free
<1>8. ASSUME NEW r \in Readers, reader_loop(r) PROVE RetiredInv'
  BY <1>8 DEF reader_loop, Goto
<1>9. ASSUME NEW r \in Readers, toy_rcu_read_lock(r) PROVE RetiredInv'
  BY <1>9 DEF toy_rcu_read_lock, Goto
<1>10. ASSUME NEW r \in Readers, rcu_dereference(r) PROVE RetiredInv'
  BY <1>10 DEF rcu_dereference, Goto
<1>11. ASSUME NEW r \in Readers, load_a(r) PROVE RetiredInv'
  BY <1>11 DEF load_a, Goto
<1>12. ASSUME NEW r \in Readers, toy_rcu_read_unlock(r) PROVE RetiredInv'
  BY <1>12 DEF toy_rcu_read_unlock, Goto
<1>13. ASSUME NEW w \in Writers, writer_loop(w) PROVE RetiredInv'
  BY <1>13 DEF writer_loop, Goto
<1>14. ASSUME NEW w \in Writers, kmalloc_new(w) PROVE RetiredInv'
  BY <1>14 DEF kmalloc_new, Goto
<1>15. ASSUME NEW w \in Writers, spin_lock(w) PROVE RetiredInv'
  BY <1>15 DEF spin_lock, Goto
<1>16. ASSUME NEW w \in Writers, get_old(w) PROVE RetiredInv'
  BY <1>16 DEF get_old, Goto
<1>17. ASSUME NEW w \in Writers, copy_foo(w) PROVE RetiredInv'
  BY <1>17 DEF copy_foo, Goto
<1>18. ASSUME NEW w \in Writers, set_a(w) PROVE RetiredInv'
  BY <1>18 DEF set_a, Goto
<1>19. ASSUME NEW w \in Writers, rcu_assign_pointer(w) PROVE RetiredInv'
  BY <1>19 DEF rcu_assign_pointer, Goto
<1>20. ASSUME NEW w \in Writers, spin_unlock(w) PROVE RetiredInv'
  BY <1>20 DEF spin_unlock, Goto
<1>21. ASSUME NEW w \in Writers, toy_synchronize_rcu_wait(w) PROVE
    RetiredInv'
  BY <1>21 DEF toy_synchronize_rcu_wait, Goto
<1>22. ASSUME NEW w \in Writers, toy_synchronize_rcu_lock(w) PROVE
    RetiredInv'
  BY <1>22 DEF toy_synchronize_rcu_lock, Goto
<1>23. ASSUME NEW w \in Writers, toy_synchronize_rcu_unlock(w) PROVE
    RetiredInv'
  BY <1>23 DEF toy_synchronize_rcu_unlock, Goto
<1>24. ASSUME NEW w \in Writers, kfree_old(w) PROVE RetiredInv'
  BY <1>24 DEF kfree_old, Goto
<1>25. QED
  BY <1>1, <1>2, <1>3, <1>4, <1>5, <1>6, <1>7, <1>8, <1>9, <1>10, <1>11,
      <1>12, <1>13, <1>14, <1>15, <1>16, <1>17, <1>18, <1>19, <1>20, <1>21,
      <1>22, <1>23, <1>24 DEF Next, Module, Reader, Writer

(* The grace period: the writer that frees a structure has waited for      *)
(* every reader that could hold it.                                        *)
LEMMA ReaderInvStep == Inv /\ Next => ReaderInv'
<1> SUFFICES ASSUME Inv, Next PROVE ReaderInv'
  OBVIOUS
<1> USE DEF Inv, TypeOK, LockInv, LifeInv, GblInv, PrivateInv,
    RetiredInv, ReaderInv, NoLostUpdate, Exited, memVars, lockVars,
    localVars, moduleVars, ReaderPC, WriterPC, ModulePC, ReadingPC,
    CriticalPC, GracePC, PrivatePC, RetiredPC, Loaded
<1>1. CASE Insmod
  BY <1>1 DEF Insmod
<1>2. CASE init_foo
  BY <1>2 DEF init_foo
<1>3. CASE init_kthread
  BY <1>3 DEF init_kthread
<1>4. CASE Rmmod
  BY <1>4 DEF Rmmod
<1>5. CASE kthread_stop
  BY <1>5 DEF kthread_stop
<1>6. CASE kthread_join
  BY <1>6 DEF kthread_join
<1>7. CASE exit_free
  BY <1>7 DEF exit_free
<1>8. ASSUME NEW r \in Readers, reader_loop(r) PROVE ReaderInv'
  BY <1>8 DEF reader_loop, Goto
<1>9. ASSUME NEW r \in Readers, toy_rcu_read_lock(r) PROVE ReaderInv'
  BY <1>9 DEF toy_rcu_read_lock, Goto
<1>10. ASSUME NEW r \in Readers, rcu_dereference(r) PROVE ReaderInv'
  BY <1>10 DEF rcu_dereference, Goto
<1>11. ASSUME NEW r \in Readers, load_a(r) PROVE ReaderInv'
  BY <1>11 DEF load_a, Goto
<1>12. ASSUME NEW r \in Readers, toy_rcu_read_unlock(r) PROVE ReaderInv'
  BY <1>12 DEF toy_rcu_read_unlock, Goto
<1>13. ASSUME NEW w \in Writers, writer_loop(w) PROVE ReaderInv'
  BY <1>13 DEF writer_loop, Goto
<1>14. ASSUME NEW w \in Writers, kmalloc_new(w) PROVE ReaderInv'
  BY <1>14 DEF kmalloc_new, Goto
<1>15. ASSUME NEW w \in Writers, spin_lock(w) PROVE ReaderInv'
  BY <1>15 DEF spin_lock, Goto
<1>16. ASSUME NEW w \in Writers, get_old(w) PROVE ReaderInv'
  BY <1>16 DEF get_old, Goto
<1>17. ASSUME NEW w \in Writers, copy_foo(w) PROVE ReaderInv'
  BY <1>17 DEF copy_foo, Goto
<1>18. ASSUME NEW w \in Writers, set_a(w) PROVE ReaderInv'
  BY <1>18 DEF set_a, Goto
<1>19. ASSUME NEW w \in Writers, rcu_assign_pointer(w) PROVE ReaderInv'
  BY <1>19 DEF rcu_assign_pointer, Goto
<1>20. ASSUME NEW w \in Writers, spin_unlock(w) PROVE ReaderInv'
  BY <1>20 DEF spin_unlock, Goto
<1>21. ASSUME NEW w \in Writers, toy_synchronize_rcu_wait(w) PROVE ReaderInv'
  BY <1>21 DEF toy_synchronize_rcu_wait, Goto
<1>22. ASSUME NEW w \in Writers, toy_synchronize_rcu_lock(w) PROVE ReaderInv'
  BY <1>22 DEF toy_synchronize_rcu_lock, Goto
<1>23. ASSUME NEW w \in Writers, toy_synchronize_rcu_unlock(w) PROVE
    ReaderInv'
  BY <1>23 DEF toy_synchronize_rcu_unlock, Goto
<1>24. ASSUME NEW w \in Writers, kfree_old(w) PROVE ReaderInv'
  BY <1>24 DEF kfree_old, Goto
<1>25. QED
  BY <1>1, <1>2, <1>3, <1>4, <1>5, <1>6, <1>7, <1>8, <1>9, <1>10, <1>11,
      <1>12, <1>13, <1>14, <1>15, <1>16, <1>17, <1>18, <1>19, <1>20, <1>21,
      <1>22, <1>23, <1>24 DEF Next, Module, Reader, Writer

(* The spin lock: nobody else publishes between get_old and publish.       *)
LEMMA NoLostUpdateStep == Inv /\ Next => NoLostUpdate'
<1> SUFFICES ASSUME Inv, Next PROVE NoLostUpdate'
  OBVIOUS
<1> USE DEF Inv, TypeOK, LockInv, LifeInv, NoLostUpdate, Exited,
    memVars, lockVars, localVars, moduleVars, ReaderPC, WriterPC, ModulePC,
    ReadingPC, CriticalPC, GracePC, PrivatePC, RetiredPC, Loaded
<1>1. CASE Insmod
  BY <1>1 DEF Insmod
<1>2. CASE init_foo
  BY <1>2 DEF init_foo
<1>3. CASE init_kthread
  BY <1>3 DEF init_kthread
<1>4. CASE Rmmod
  BY <1>4 DEF Rmmod
<1>5. CASE kthread_stop
  BY <1>5 DEF kthread_stop
<1>6. CASE kthread_join
  BY <1>6 DEF kthread_join
<1>7. CASE exit_free
  BY <1>7 DEF exit_free
<1>8. ASSUME NEW r \in Readers, reader_loop(r) PROVE NoLostUpdate'
  BY <1>8 DEF reader_loop, Goto
<1>9. ASSUME NEW r \in Readers, toy_rcu_read_lock(r) PROVE NoLostUpdate'
  BY <1>9 DEF toy_rcu_read_lock, Goto
<1>10. ASSUME NEW r \in Readers, rcu_dereference(r) PROVE NoLostUpdate'
  BY <1>10 DEF rcu_dereference, Goto
<1>11. ASSUME NEW r \in Readers, load_a(r) PROVE NoLostUpdate'
  BY <1>11 DEF load_a, Goto
<1>12. ASSUME NEW r \in Readers, toy_rcu_read_unlock(r) PROVE NoLostUpdate'
  BY <1>12 DEF toy_rcu_read_unlock, Goto
<1>13. ASSUME NEW w \in Writers, writer_loop(w) PROVE NoLostUpdate'
  BY <1>13 DEF writer_loop, Goto
<1>14. ASSUME NEW w \in Writers, kmalloc_new(w) PROVE NoLostUpdate'
  BY <1>14 DEF kmalloc_new, Goto
<1>15. ASSUME NEW w \in Writers, spin_lock(w) PROVE NoLostUpdate'
  BY <1>15 DEF spin_lock, Goto
<1>16. ASSUME NEW w \in Writers, get_old(w) PROVE NoLostUpdate'
  BY <1>16 DEF get_old, Goto
<1>17. ASSUME NEW w \in Writers, copy_foo(w) PROVE NoLostUpdate'
  BY <1>17 DEF copy_foo, Goto
<1>18. ASSUME NEW w \in Writers, set_a(w) PROVE NoLostUpdate'
  BY <1>18 DEF set_a, Goto
<1>19. ASSUME NEW w \in Writers, rcu_assign_pointer(w) PROVE NoLostUpdate'
  BY <1>19 DEF rcu_assign_pointer, Goto
<1>20. ASSUME NEW w \in Writers, spin_unlock(w) PROVE NoLostUpdate'
  BY <1>20 DEF spin_unlock, Goto
<1>21. ASSUME NEW w \in Writers, toy_synchronize_rcu_wait(w) PROVE
    NoLostUpdate'
  BY <1>21 DEF toy_synchronize_rcu_wait, Goto
<1>22. ASSUME NEW w \in Writers, toy_synchronize_rcu_lock(w) PROVE
    NoLostUpdate'
  BY <1>22 DEF toy_synchronize_rcu_lock, Goto
<1>23. ASSUME NEW w \in Writers, toy_synchronize_rcu_unlock(w) PROVE
    NoLostUpdate'
  BY <1>23 DEF toy_synchronize_rcu_unlock, Goto
<1>24. ASSUME NEW w \in Writers, kfree_old(w) PROVE NoLostUpdate'
  BY <1>24 DEF kfree_old, Goto
<1>25. QED
  BY <1>1, <1>2, <1>3, <1>4, <1>5, <1>6, <1>7, <1>8, <1>9, <1>10, <1>11,
      <1>12, <1>13, <1>14, <1>15, <1>16, <1>17, <1>18, <1>19, <1>20, <1>21,
      <1>22, <1>23, <1>24 DEF Next, Module, Reader, Writer

(* Every allocated structure has an owner.                                 *)
LEMMA CoverInvStep == Inv /\ Next => CoverInv'
<1> SUFFICES ASSUME Inv, Next PROVE CoverInv'
  OBVIOUS
<1> USE DEF Inv, TypeOK, LockInv, LifeInv, GblInv, PrivateInv,
    RetiredInv, CoverInv, NoLostUpdate, Exited, memVars, lockVars, localVars,
    moduleVars, ReaderPC, WriterPC, ModulePC, ReadingPC, CriticalPC, GracePC,
    PrivatePC, RetiredPC, Loaded
<1>1. CASE Insmod
  BY <1>1 DEF Insmod
<1>2. CASE init_foo
  BY <1>2 DEF init_foo
<1>3. CASE init_kthread
  BY <1>3 DEF init_kthread
<1>4. CASE Rmmod
  BY <1>4 DEF Rmmod
<1>5. CASE kthread_stop
  BY <1>5 DEF kthread_stop
<1>6. CASE kthread_join
  BY <1>6 DEF kthread_join
<1>7. CASE exit_free
  BY <1>7 DEF exit_free
<1>8. ASSUME NEW r \in Readers, reader_loop(r) PROVE CoverInv'
  BY <1>8 DEF reader_loop, Goto
<1>9. ASSUME NEW r \in Readers, toy_rcu_read_lock(r) PROVE CoverInv'
  BY <1>9 DEF toy_rcu_read_lock, Goto
<1>10. ASSUME NEW r \in Readers, rcu_dereference(r) PROVE CoverInv'
  BY <1>10 DEF rcu_dereference, Goto
<1>11. ASSUME NEW r \in Readers, load_a(r) PROVE CoverInv'
  BY <1>11 DEF load_a, Goto
<1>12. ASSUME NEW r \in Readers, toy_rcu_read_unlock(r) PROVE CoverInv'
  BY <1>12 DEF toy_rcu_read_unlock, Goto
<1>13. ASSUME NEW w \in Writers, writer_loop(w) PROVE CoverInv'
  BY <1>13 DEF writer_loop, Goto
<1>14. ASSUME NEW w \in Writers, kmalloc_new(w) PROVE CoverInv'
  BY <1>14 DEF kmalloc_new, Goto
<1>15. ASSUME NEW w \in Writers, spin_lock(w) PROVE CoverInv'
  BY <1>15 DEF spin_lock, Goto
<1>16. ASSUME NEW w \in Writers, get_old(w) PROVE CoverInv'
  BY <1>16 DEF get_old, Goto
<1>17. ASSUME NEW w \in Writers, copy_foo(w) PROVE CoverInv'
  BY <1>17 DEF copy_foo, Goto
<1>18. ASSUME NEW w \in Writers, set_a(w) PROVE CoverInv'
  BY <1>18 DEF set_a, Goto
<1>19. ASSUME NEW w \in Writers, rcu_assign_pointer(w) PROVE CoverInv'
  BY <1>19 DEF rcu_assign_pointer, Goto
<1>20. ASSUME NEW w \in Writers, spin_unlock(w) PROVE CoverInv'
  BY <1>20 DEF spin_unlock, Goto
<1>21. ASSUME NEW w \in Writers, toy_synchronize_rcu_wait(w) PROVE CoverInv'
  BY <1>21 DEF toy_synchronize_rcu_wait, Goto
<1>22. ASSUME NEW w \in Writers, toy_synchronize_rcu_lock(w) PROVE CoverInv'
  BY <1>22 DEF toy_synchronize_rcu_lock, Goto
<1>23. ASSUME NEW w \in Writers, toy_synchronize_rcu_unlock(w) PROVE
    CoverInv'
  BY <1>23 DEF toy_synchronize_rcu_unlock, Goto
<1>24. ASSUME NEW w \in Writers, kfree_old(w) PROVE CoverInv'
  BY <1>24 DEF kfree_old, Goto
<1>25. QED
  BY <1>1, <1>2, <1>3, <1>4, <1>5, <1>6, <1>7, <1>8, <1>9, <1>10, <1>11,
      <1>12, <1>13, <1>14, <1>15, <1>16, <1>17, <1>18, <1>19, <1>20, <1>21,
      <1>22, <1>23, <1>24 DEF Next, Module, Reader, Writer

(* A step that changes nothing preserves everything. *)
LEMMA StutterStep == Inv /\ UNCHANGED vars => Inv'
  BY DEF Inv, vars, TypeOK, LockInv, LifeInv, GblInv, PrivateInv, RetiredInv,
         ReaderInv, NoLostUpdate, CoverInv, Exited

LEMMA InvInit == Init => Inv
  BY DEF Init, Inv, TypeOK, LockInv, LifeInv, GblInv, PrivateInv, RetiredInv,
         ReaderInv, NoLostUpdate, CoverInv, Exited, ReaderPC, WriterPC,
         ModulePC, Loaded, ReadingPC, CriticalPC, GracePC, PrivatePC, RetiredPC

(* Inv is an invariant of the module: of foo_get_a and foo_update_a called *)
(* by any number of readers and writers, over any number of loads.         *)
THEOREM InvCorrect == Spec => []Inv
<1>1. Init => Inv
  BY InvInit
<1>2. Inv /\ [Next]_vars => Inv'
  <2> SUFFICES ASSUME Inv, [Next]_vars PROVE Inv'
    OBVIOUS
  <2>1. CASE Next
    BY <2>1, TypeOKStep, LockInvStep, LifeInvStep, GblInvStep,
       PrivateInvStep, RetiredInvStep, ReaderInvStep, NoLostUpdateStep,
       CoverInvStep DEF Inv
  <2>2. CASE UNCHANGED vars
    BY <2>2, StutterStep
  <2>3. QED
    BY <2>1, <2>2
<1>3. QED
  BY <1>1, <1>2, PTL DEF Spec

(* The variables of the toy RCU module keep their types. *)
THEOREM TypeCorrect == Spec => []TypeOK
<1>1. Inv => TypeOK
  BY DEF Inv
<1>2. QED
  BY <1>1, InvCorrect, PTL

(* No structure is used after toy_synchronize_rcu and kfree released it.   *)
THEOREM UseAfterFreeFree == Spec => []NoUseAfterFree
<1>1. Inv => NoUseAfterFree
  <2> SUFFICES ASSUME Inv PROVE NoUseAfterFree
    OBVIOUS
  <2> USE DEF Inv, TypeOK
  <2>1. ASSUME NEW r \in Readers, pc[r] = "load" PROVE fp[r] \in heap
    BY <2>1 DEF ReaderInv, GblInv, RetiredInv, LifeInv, GracePC, RetiredPC,
                Loaded, Threads, ModulePC
  <2>2. ASSUME NEW w \in Writers
        PROVE  /\ pc[w] = "copy" => fp[w] \in heap
               /\ pc[w] \in {"set_a", "publish"} => new_fp[w] \in heap
               /\ pc[w] = "kfree" => fp[w] \in heap
    BY <2>2 DEF NoLostUpdate, GblInv, PrivateInv, RetiredInv, LifeInv,
                PrivatePC, RetiredPC, Loaded, Threads, ModulePC
  <2>3. mod = "exit_free" => gbl_foo \in heap
    BY DEF GblInv, Loaded
  <2>4. QED
    BY <2>1, <2>2, <2>3 DEF NoUseAfterFree
<1>2. QED
  BY <1>1, InvCorrect, PTL

(* An update replaces the structure it read: foo_mutex excludes the other  *)
(* writers from get_old to publish.                                        *)
THEOREM UpdateAtomic == Spec => []NoLostUpdate
<1>1. Inv => NoLostUpdate
  BY DEF Inv
<1>2. QED
  BY <1>1, InvCorrect, PTL

(* The heap holds the published structure and the ones a writer owns. *)
THEOREM HeapCorrect == Spec => []HeapAccounted
<1>1. Inv => HeapAccounted
  BY DEF Inv, TypeOK, HeapAccounted, Private, Retired, CoverInv, GblInv,
         PrivateInv, RetiredInv
<1>2. QED
  BY <1>1, InvCorrect, PTL

(* Nothing the module allocated is left when it is unloaded. *)
THEOREM LeakFree == Spec => []NoLeak
<1>1. Inv => NoLeak
  BY DEF Inv, TypeOK, NoLeak, CoverInv, LifeInv, Loaded, PrivatePC,
         RetiredPC, Threads
<1>2. QED
  BY <1>1, InvCorrect, PTL

-----------------------------------------------------------------------------
(* The refinement: which steps are steps of the register.                  *)

(* The values a reader is about to return are never touched: every write   *)
(* goes to a private structure, every kfree to one whose grace period has  *)
(* ended.                                                                  *)
LEMMA SnapValues ==
    Inv => \A r \in Readers : pc[r] = "load" =>
              fp[r] \in heap /\ a[fp[r]] \in Vals /\ mod \in Loaded
  BY DEF Inv, TypeOK, ReaderInv, GblInv, RetiredInv, LifeInv, GracePC,
         RetiredPC, Loaded, ModulePC

LEMMA RegisterStep == Inv /\ Next => [Register!Next]_(Register!regVars)
<1> SUFFICES ASSUME Inv, Next PROVE [Register!Next]_(Register!regVars)
  OBVIOUS
<1> USE SnapValues DEF Inv, TypeOK, memVars, lockVars, localVars, moduleVars,
        Register!regVars, Loaded
<1>1. CASE Insmod
  BY <1>1 DEF Insmod, LifeInv
<1>2. CASE init_foo
  BY <1>2 DEF init_foo, LifeInv, Register!Next, Register!Create
<1>3. CASE init_kthread
  BY <1>3 DEF init_kthread, LifeInv
<1>4. CASE Rmmod
  BY <1>4 DEF Rmmod
<1>5. CASE kthread_stop
  BY <1>5 DEF kthread_stop
<1>6. CASE kthread_join
  BY <1>6 DEF kthread_join
<1>7. CASE exit_free
  BY <1>7 DEF exit_free, LifeInv, Exited, GblInv, Register!Next,
              Register!Destroy
<1>8. ASSUME NEW r \in Readers, Reader(r)
      PROVE  [Register!Next]_(Register!regVars)
  <2>1. CASE rcu_dereference(r)
    BY <1>8, <2>1 DEF rcu_dereference, Goto, GblInv, LifeInv, Register!Next,
                      Register!Take, ModulePC
  <2>2. CASE load_a(r)
    BY <1>8, <2>2 DEF load_a, Goto, Register!Next, Register!Return
  <2>3. CASE reader_loop(r) \/ toy_rcu_read_lock(r) \/ toy_rcu_read_unlock(r)
    BY <1>8, <2>3 DEF reader_loop, toy_rcu_read_lock, toy_rcu_read_unlock,
                      Goto
  <2>4. QED
    BY <1>8, <2>1, <2>2, <2>3 DEF Reader
<1>9. ASSUME NEW w \in Writers, Writer(w)
      PROVE  [Register!Next]_(Register!regVars)
  <2> USE <1>9 DEF Goto
  <2>1. CASE writer_loop(w) \/ spin_lock(w) \/ get_old(w) \/ spin_unlock(w)
    BY <2>1 DEF writer_loop, spin_lock, get_old, spin_unlock
  <2>2. CASE \/ toy_synchronize_rcu_wait(w) \/ toy_synchronize_rcu_lock(w)
             \/ toy_synchronize_rcu_unlock(w)
    BY <2>2 DEF toy_synchronize_rcu_wait, toy_synchronize_rcu_lock,
                toy_synchronize_rcu_unlock
  <2>3. CASE kmalloc_new(w)
    BY <2>3 DEF kmalloc_new, GblInv
  <2>4. CASE copy_foo(w)
    BY <2>4 DEF copy_foo, PrivateInv, PrivatePC, GblInv, ReaderInv,
                RetiredInv, GracePC, RetiredPC
  <2>5. CASE set_a(w)
    BY <2>5 DEF set_a, PrivateInv, PrivatePC, GblInv, ReaderInv, RetiredInv,
                GracePC, RetiredPC
  <2>6. CASE rcu_assign_pointer(w)
    BY <2>6 DEF rcu_assign_pointer, PrivateInv, PrivatePC, GblInv, LifeInv,
                ModulePC, Register!Next, Register!Write
  <2>7. CASE kfree_old(w)
    BY <2>7 DEF kfree_old, RetiredInv, RetiredPC, GblInv, ReaderInv, GracePC
  <2>8. QED
    BY <2>1, <2>2, <2>3, <2>4, <2>5, <2>6, <2>7 DEF Writer
<1>10. QED
  BY <1>1, <1>2, <1>3, <1>4, <1>5, <1>6, <1>7, <1>8, <1>9 DEF Next, Module

(* The toy RCU implements a register: foo_get_a returns the value that was *)
(* published when it dereferenced gbl_foo.                                 *)
THEOREM RegisterImplemented == Spec => ImplementsRegister
<1>1. Init => Register!Init
  BY DEF Init, Register!Init, Loaded
<1>2. Inv /\ [Next]_vars => [Register!Next]_(Register!regVars)
  <2>1. Inv /\ UNCHANGED vars => UNCHANGED Register!regVars
    BY DEF vars, Register!regVars
  <2>2. QED
    BY <2>1, RegisterStep
<1>3. QED
  BY <1>1, <1>2, InvCorrect, PTL DEF Spec, ImplementsRegister, Register!Spec

=============================================================================
