# Verification of kernel-module-memo

The repository is a collection of Linux kernel modules: a toy implementation of
RCU, examples of the kernel's own RCU, a copy of the FUSE file system with its
request queue, the beginnings of a rewrite of it (TUSE), and small example
drivers. This directory models the parts in which several threads share state
and checks them with TLC. Most of what is checked is proved with TLAPS as well,
for every value of the constants: the memory safety of the toy RCU, of the RCU
examples and of the example devices; the coherence of FUSE's name, attribute,
ACL and size caches and the balance of its lookup counts; the life of an open
file, of an asynchronous direct I/O, of a connection and of a CUSE device; the
input queue of the FUSE device; the count of the writes in flight and the
wake-ups of writeback; and the references, counts and interrupts of the device's
requests while their connection lasts. Section 4 ends with what is only
model-checked.

## 1. Inventory

| Part | State | Operations | Interaction | What is hard | What makes it correct |
|---|---|---|---|---|---|
| Toy RCU, `rcu/toy_impl` | `gbl_foo`, the heap, `rcu_gp_mutex`, `foo_mutex`, the threads | `toy_rcu_read_lock/unlock`, `toy_synchronize_rcu`, `foo_get_a`, `foo_update_a`, load and unload | readers and writers share `gbl_foo` through the two locks; `kthread_stop` joins them | an update frees what a reader may still hold; unload during an update; failing allocations | no use after free, no leak, atomic updates, readers see a register, updates and unloads end |
| RCU examples, `rcu/use_example` | the same, plus the kernel's grace periods and callbacks | the same, with `synchronize_rcu` or `call_rcu` | the kernel runs `foo_reclaim` later | callbacks outlive the function, or the module, that queued them | no use after free, freed exactly once, nothing lost |
| FUSE device, `old/fuse/dev.c` | lists `pending`, `io`, `processing`, `bg_queue`, `interrupts`; flags and count of each request; `num_background`, `num_waiting`, `blocked` | get, send, read, copy, reply, interrupt, end, abort, release | file system threads queue requests, daemon threads read and answer them, the control file and close end the connection | five kinds of lock, flags set outside them, signals, a daemon that stops, page faults inside a copy | references exact, every request ends, no interrupt lost, the limit kept |
| FUSE input queue (`dev.c`) | `pending`, `interrupts`, the forget list with its tail pointer, `forget_batch`, the sleeping readers | queue a request, a forget or an interrupt, read the next message, abort | file system threads put in, several daemon threads take out | exclusive wake-ups, a counter that shares the reads, a list cut in the middle | neither forgets nor requests starve, no forget is lost, no message waits for a sleeper |
| FUSE control, `control.c` | the connection's limits, `fuse_control_sb`, the connection's directory | mount and unmount of the control file system, `abort`, `max_background`, `congestion_threshold` | control files take a reference to the connection, and write its fields without `fc->lock` | any time relative to the device, the mount and the unmount | counters stay exact, no file leads to a freed connection |
| FUSE files, `file.c` | `fuse_file` count, handle, `reserved_req`, `polled_files`, flock; `i_size`, `attr_version`, `FUSE_I_SIZE_UNSTABLE`, `fuse_io_priv`; `writectr`, `queued_writes`, `writepages` | open, release, flush, lock, poll, read, write, direct I/O, fallocate, truncate, writeback, fsync | requests of the device, their end callbacks, attributes of `dir.c` | replies and end callbacks in any order, truncate against writes, shared reserved request | ff, handle and reserved request live as long as they are used, the size is the daemon's, each I/O completes once, no store is forgotten |
| FUSE directories, `dir.c`, `inode.c` | the dentry and inode caches, `attr_version`, `nlookup`, forgets | lookup, revalidate, create, mknod, link, unlink, rename, readdirplus, getattr, setattr, access, NFS handles, evict, invalidate | one request per operation, applied after other operations | replies out of order, failed allocations after the daemon has counted a lookup | lookup counts balance, late replies undo nothing, cached names are the daemon's |
| FUSE attributes, `xattr.c`, `acl.c` | the `no_*xattr` flags, the ACL cache | get, set, list, remove, get_acl, set_acl, chmod | the VFS caches what `fuse_get_acl` returns | an ACL read before a change is cached after it | the cached ACL is the daemon's |
| FUSE mount, `inode.c` | connection count, device count, `initialized`, `killsb`, super block, registrations of the module | load, mount, INIT, clone, notify, unmount, close, unload | creates and ends the connection the device works on | error labels, two mounts on one descriptor, close during mount, late INIT | balanced counts, an abandoned connection is aborted, nobody uses a dead super block |
| CUSE, `cuse.c` | a connection, a device and a number per channel, `cuse_conntbl` | open a channel, INIT, abort, close; clients open and release | the same request queue | close against INIT and clients | all come and go together |
| Example drivers, `old/*.c`, `get_user_pages` | one buffer or one page per open file | open, read, write, mmap, fault, fork, release | the page tables and user space keep pages | who frees the page, and when | memory stays while it is used |
| TUSE, `old/tuse` | connection, super block | mount, unmount, read (a stub) | as FUSE | | it does not compile |
| `old/tmp/fuse` | a second copy of FUSE, mostly the same text | | | | |
| `old/usr`, `sample.c`, scripts, Makefiles | none | user programs and module skeletons | | | |

`PROJECT.json` lists each part with its status, and under `hazards` the places
that are hard to test.

## 2. Modules

| Module | Models |
|---|---|
| `ToyRcu` | `sample_use.c`, `sample_locking.c`, `toy_rcu.h` |
| `FooRegister` | what `foo_get_a` and `foo_update_a` promise: one atomic register |
| `ToyRcuProofs` | the theorems about `ToyRcu` |
| `RcuSample` | `sample_synchronize_rcu.c` and `sample_call_rcu.c` |
| `FuseDev` | the life of a request in `old/fuse/dev.c`, with the writes to `abort` and `max_background` of `control.c` and `fuse_dev_free` of `inode.c` |
| `FuseDevProofs` | the theorems about `FuseDev` |
| `FuseWriteback` | the writeback cache of one file: writepages, secondary requests, fsync and truncation (`file.c`, `dir.c`) |
| `FuseWritebackProofs` | the theorems about `FuseWriteback` |
| `FuseQueue` | the input queue: forgets, requests and interrupts, and the readers (`dev.c`) |
| `FuseQueueProofs` | the theorems about `FuseQueue` |
| `FuseDir` | directory operations, attributes, inodes and lookup counts (`dir.c`, `inode.c`) |
| `FuseDirProofs` | the theorems about `FuseDir` |
| `FuseXattr` | extended attributes and ACLs (`xattr.c`, `acl.c`) |
| `FuseFile` | open files, reserved request, flock and poll (`file.c`, both copies) |
| `FuseSize` | the size of a file without writeback cache, direct I/O (`file.c`, `dir.c`) |
| `FuseMount` | module, mount, INIT, clone, notification, control file system, unmount (`inode.c`, `control.c`, `dev.c`) |
| `Cuse` | CUSE channels, devices and clients (`cuse.c`) |
| `ExampleDevices` | `mma.c`, `vmm.c`, `gread.c`, `hello.c`, `get_user_pages/sample.c` |
| `MCToyRcu`, `MCRcuSample`, `MCFuseDev`, `MCFuseDir` | instances for TLC |
| `MCFuseWriteback` | `FuseWriteback`, and `FuseDev` under an abort, side by side for TLC |
| `MCFuseConn` | `FuseQueue`, `FuseMount` and `Cuse` side by side for TLC |
| `MCFuseFiles` | `FuseXattr`, `FuseSize` and `FuseFile` side by side for TLC |
| `MCExamples` | `RcuSample` and `ExampleDevices` side by side for TLC |
| `FuseConnProofs` | the theorems about `FuseMount` and `Cuse`, through `MCFuseConn` |
| `FuseFilesProofs` | the theorems about `FuseXattr`, `FuseSize` and `FuseFile`, through `MCFuseFiles` |
| `ExamplesProofs` | the theorems about `RcuSample` and `ExampleDevices`, through `MCExamples` |

The components of `MCFuseConn`, `MCFuseFiles`, `MCExamples` and `MCFuseWriteback` share no variable: a behaviour is of one of
them, chosen in the initial state, so the state spaces add up and do not
multiply.

The repository has FUSE twice. Most functions of `old/tmp/fuse` are the same
text as in `old/fuse`. When two definitions stand for one function (the sending
and the answer of `fuse_do_setattr`, or the same function in two modules), one
is mapped to `old/fuse` and the other to `old/tmp/fuse`; where the copies differ
in control, in `FuseFile`, the variable `copy` chooses.

### ToyRcu

A step is one lock operation or one access to shared memory. Each thread has a
program counter; `mod` is the program counter of `insmod` and `rmmod`, and the
module may be loaded and removed again and again, while the heap survives.
`rcu_readers`, `rcu_writer` and `foo_mutex` are the sets of holders of the three
locks. `kmalloc` and `kthread_run` may fail `MaxFail` times. The code does not
test the result of either properly: a failed `kmalloc` kills the writer with an
oops that keeps `foo_mutex`, a failed `kthread_run` kills `insmod`
(`IS_ERR(k)` tests the array and not the new entry). `kthread_stop` is two
steps, the flag and the wait. Memory is sequentially consistent;
`rcu_assign_pointer` and `rcu_dereference` give the only ordering that is used.

`FooRegister` has one register and, for each reader, the value of the register
when the read began. The refinement mapping reads the register through
`gbl_foo`, and a reader's snapshot through the pointer it holds. That pointer's
structure must therefore neither be freed nor reused while it is held.

### RcuSample

The two sources are the same program up to the way the old structure is
reclaimed, so one module has both and `insmod` chooses. The kernel's RCU is
external and given by its contract: a grace period remembers the readers that
are inside a section when it starts and ends when all of them have left.
Callbacks run in any order after that, also after the module that queued them
is gone; then they jump to unmapped memory, which is the state `panic`.

### FuseDev

The connection is mounted and its INIT reply has arrived. A step is what happens
under one lock, or one access outside any lock:

- `fc` holds the fields of `fuse_conn`, with `fc.lock` as a variable because
  `fuse_abort_conn` keeps `fc->lock` over several steps;
- `loc[q]` is the list that `req->list` is in, `flags[q]`, `count[q]` and
  membership in `alive` are the request itself. Lists are sets: any member may
  be the first;
- each request has a thread (`SyncReq` waits for the answer, `BgReq` does not),
  and `Servers` are the daemon's threads. The program points of both are the
  lines between two locks of `request_wait_answer`, `fuse_dev_do_read`,
  `fuse_dev_do_write`, `request_end` and `fuse_abort_conn`;
- copying to and from the daemon's buffer is a loop of `unlock_request`, page
  fault, `lock_request` and copy; either may fail;
- `CallEnd` and `ret` model the call of `request_end` from its six callers;
- `intr_unique` holds the requests whose INTERRUPT message a read has taken, also
  when its copy fails (`dev.c:1079`): the request is off `interrupts` then, and
  nothing sends the message again.

A request can be answered as soon as it is in `processing`, also before the read
that fetched it has set `FR_SENT` and returned: the kernel does not prevent it
(`dev.c:1296`, `1847`). The data of a request, its credentials, `unique` numbers
and `fasync` are left out.

### FuseWriteback

One file on a connection with `writeback_cache`. Sizes and offsets are in pages;
the contents of a page is a version number, so that a property can say which of
two stores is the later one. A thread runs one operation of `Ops[t]` at a time
and its registers are the record `th[t]`; `th[t].after` is the return address of
the three subroutines that take several steps (`fuse_flush_writepages`,
`fuse_writepage_locked` and `fuse_wait_on_page_writeback`).

- `fclock` is `fc->lock`. `fuse_flush_writepages` and `fuse_writepage_end` keep
  it over the rounds of their loops, one step each, and a request that is
  dropped (`fuse_send_writepage` at `out_free`) gives it up in between. The end
  of a request runs in the daemon's context, so a request can hold the lock.
- `ilock` is `i_mutex`, `plock` the page locks, `th[t].pages` the pages whose
  `PageWriteback` the thread has set.
- `req[q].chain` is the list through `misc.write.next`; `pend` is the queue of
  `dev.c`, and reading is two steps because `FR_PENDING` is cleared before the
  pages are copied and under another lock than the one `file.c` holds.
- Waiting on `fi->page_waitq` is a look at the condition and a sleep; only a
  `wake_up` ends the sleep.
- `server` and `ssize` are the daemon's file. A write is done when it is
  answered.

A reply to SETATTR that changes the file type and makes the inode bad
(`dir.c:1672-1676`) is left out, as in `FuseDir`. `write_cache_pages`, the page
cache and reclaim are the kernel's. Three history
variables serve the properties: `snap` is the cache when fsync began, `lost[p]`
the last version that a failed allocation or an error reply dropped, `raced` the
pages that met one of two races of the code (`file.c:1767`, where a page is
copied into a request that is being read, and `file.c:2016`, where a page that a
direct read made dirty is laundered while its previous write is in flight).
`DataReachesServer` and `FsyncDurable` leave out exactly those.

### FuseQueue

A link of the forget list is a model value, `next` and `tail` are the pointers of
the code, and `dequeue_forget` walks and cuts the list as the code does. A read
takes interrupts first and then uses `next_turn`, which is the decrement and
reset of `forget_batch`. The batch sizes, 16 and 8 in the code, are constants.
A reader is out, asleep in its exclusive wait, or woken; a woken reader and one
that just came compete. `overReq` and `overForget` are histories: how many of
one kind were read since the other kind last was, or came.

### FuseDir

One directory, its names, and the nodes they lead to. Each thread is in one
operation: it sends (`rq[t].st` is "sent"), the daemon answers ("done"), and the
second action applies the whole answer, with every call it makes and every label
it may leave by. Locks of the VFS are guards: operations that change a directory
exclude each other, lookups of one name wait for each other, and revalidation
takes none. Versions and attributes are compared, never counted (see the head of
the module), so `attr_version` needs no bound. The daemon changes its directory
by itself and then writes a notification. Evicting an inode queues one forget
with its count.

Whether the inode of a new node can be allocated, and whether a reply is
malformed, is free, `MaxFail` times. A failed allocation gives the counted lookup
back with a FORGET (`give_back`). A reply with an invalid node or file type, or an
entry of READDIRPLUS with an invalid name, does not: the labels at `dir.c:331`,
`453` and `558-563` free the forget structure unsent and `1299-1304` leaves the
loop. The history `lost` counts what they lose. The daemon may serve a RENAME
after it has changed one of the names and before its notification of that is
applied. `d_move` then carries the old dentry to the other name, where the
notification does not look; the history `raced` records that name, until a
notification or another rename of it. Replies that change the file type of a
cached node and make its inode bad (`dir.c:911`, `1672`, `inode.c:315`) are left
out; they discard no lookup. That type change in a revalidation, which drops the
dentry (`dir.c:236`), is among the malformed replies.

### FuseXattr, FuseSize, FuseFile

`FuseXattr` has one inode's ACL cache with the VFS's sentinels, and which of the
four operations the daemon has answered with ENOSYS.

`FuseSize` has one file, its size in pages here and at the daemon, and the
calls that change or learn it, each split where it waits for the daemon or lets
go of the inode lock. A direct I/O of up to two requests is sent one by one and
completed one by one (`aio`). Its submitter drops its reference in
`fuse_aio_complete` and reads `io->blocking` afterwards (`file.c:2902`,
`2905`); these are two steps, `aio_submitted` and `aio_check`, and when the
requests have ended before the second, the structure is freed and the read is
of freed memory. `raced` records three races in which the code does lose track
of the size (listed at `Races`); `SizeCoherent` leaves those executions out.

`FuseFile` has one `fuse_file` with its descriptors, running calls, background
I/O, the reserved request that `fuse_flush` borrows, flock, poll and release.
The last close may send an unlock of its flock first, which may fail
(`tmp/fuse/file.c:2189`). RELEASEDIR is dropped when the daemon has no OPEN, and
in the older copy a flock is not unlocked then; `HandleExact` leaves those two
out. So is, in the model, a malformed reply to CREATE, which frees the file
without a RELEASE of the daemon's handle (`dir.c:453`).

### FuseMount and Cuse

A mount and its connection have one name. `mpc` is the program counter of
`fuse_fill_super`, later of the unmount; everything before `fuse_mutex` is taken
is private and one action, with each of its error labels as an alternative.
`init` follows the INIT request, which ends by a reply, an abort or a close.
A thread that dies on a null or freed pointer is recorded in `dead` (and keeps
`fuse_mutex` if it had it): `kill_sb` after a failed mount, the INIT reply after
a forced unmount, and `fuse_ctl_remove_conn` for a dentry without inode.
`Cuse` is the same for channels: the reply to INIT is applied in three steps,
before, under and after `cuse_lock`.

### ExampleDevices

`Init` chooses a driver. An open file of `mma.c`, `vmm.c` or `gread.c` has a page
with a reference count; areas are mapped, copied by fork, faulted in and
unmapped. `hello.c` has one buffer, whose write takes two steps so that writers
interleave and either step can fail. `sample_write` pins a page that may be
unmapped meanwhile. What is leaked is recorded in `lost`: `mma.c` and `gread.c`
leak one allocation per open. No failed allocation is tested in these modules:
the opener, or insmod, dies on the NULL pointer (`open_dies`,
`simple_char_init`).

`simple_char_bufsize` is writable in sysfs while the module is loaded
(`hello.c:266`), but the buffer keeps the size it had at load (178), and a write
is bounded by the parameter of the moment (86-87). `set_bufsize` writes it at any
time; `bufcap` is what was allocated. A parameter raised above `bufcap` lets the
next write leave the buffer. `raised` records that, and `BufferBounds` says
nothing of the buffer's bounds after it: what it does say, and what is proved, is
that nothing else does, not two writers, and not a parameter lowered and
restored under them. The other two writable parameters, the number of devices
and the major number, which the exit function reads again, are constant here.

## 3. Runs

| Run | Instance | Checks | Shows |
|---|---|---|---|
| `toy_writers` | 1 reader, 2 writers, 3 addresses, 2 values, 1 failure | `TypeOK`, `NoUseAfterFree`, `NoLeak`, `NoLostUpdate`, `ImplementsRegister` | the toy RCU is safe with overlapping updates, over any number of loads |
| `toy_live` | 2 readers, 1 writer, no failure | `UpdateCompletes`, `UnloadCompletes` | readers cannot starve an update; `rmmod` ends |
| `examples` | 1 reader, 2 writers, 3 addresses, both RCU modules, 1 failure; 2 files, 3 areas, buffers of 1 and 2 bytes, counts 0 to 3 | `MemorySafe`, `NoLeak`, `DeviceMemory` | the RCU examples reclaim each structure once and not too early; the devices' memory outlives its users |
| `fuse_life` | 1 synchronous request that may be signalled and 2 background requests, 2 devices with a thread each, both closed, the limit changed | `RefsExact`, `NoLostInterrupt`, `WaitingExact`, `BackgroundCounted` | a request's life and the counters are consistent under signals and while devices are closed in any order |
| `fuse_live` | 3 background requests, limit 1, 1 daemon thread, abort | `BackgroundLimited`, `NoUseAfterFree`, `RequestEnds`, `WaiterWoken` | the limit, that everything ends, and what an abort may still use |
| `wb_pages` | `FuseWriteback`: 2 threads (one flushes, reclaims and stores through a mapping; one writes, syncs, truncates and stores), 2 pages, 2 requests, 2 stores, sizes 0 and 1, errors and an abort. `FuseDev`: 1 synchronous request, with a reply or forced and without one, signals, 2 daemon threads on 1 device, interrupt replies, an abort from the control file and a close | `WritectrExact`, `NoLostWakeup`, `TruncateHolds`, `DataReachesServer`, `FsyncDurable`; `AbortSafe` | the bias keeps writes off, late writes do not undo a truncation, no store is forgotten; which of the threads that an abort does not wait for may still use a request |
| `fuse_dir` | 2 names, 2 nodes, 2 threads, 3 operations, 1 failed allocation or malformed reply | `LookupBalanced`, `AttrNotUndone`, `EntryCoherent` | the caches follow the daemon although replies are late |
| `fuse_files` | 2 threads each; ACL and xattr calls without bound; 3 calls on a file of up to 2 pages; 1 file with 2 descriptors, 2 users and 1 background I/O | `AclCoherent`, `SizeCoherent`, `AioExact`, `HandleExact`, `ReservedSafe`, `PollWoken` | file state against late and reordered replies |
| `fuse_conn` | 3 forgets, 2 readers, batches of 2 and 2, 6 arrivals; 2 mounts, 2 device files, 1 user of a control file; 2 channels, 2 clients, 2 numbers, 1 name | `TurnsShared`, `ForgetList`, `WokenEnough`, `ConnSafe`, `Served`, `SbLive`, `CuseBalanced` | the connection from outside: its queue, its life, and CUSE |
| `rcu_unload` | 1 reader, 1 writer, `call_rcu` | `OldFreed`: violated | `rmmod` without `rcu_barrier` |
| `fuse_sent` | 1 synchronous request, 1 daemon thread, abort | `EndedUnsent`: violated | the `WARN_ON` of `dev.c:372` does fire |
| `mount_fail` | as `fuse_conn` | `KillLive`: violated | a failed mount leaves `s_fs_info` behind |

Bounds. Two writers are what two overlapping updates need, and three addresses
let both hold a private structure while a third is published, and let a freed
address be reused. In `fuse_live` three background requests under a limit of one
give one active request and two waiters, so that a wake-up can be passed on;
`fuse_life` gives each of two threads a device of its own, so that one device is
closed while the other still copies, and has a requester that takes its request
back next to two background requests that wait for each other. `AbortSafe` is
about one request, and so is its instance: two threads on one device let an answer
overtake the read, and the abort, the close and a signal come at any point.
In `wb_pages` two pages
give requests of one and of two pages and a truncation that crops one; two
requests are a write in flight and its secondary, or one in flight and one
queued; two stores are the one that is in flight and the one that comes later.
In `fuse_dir` the third operation is what a late reply needs: one that is sent,
one that changes what it answered, one that makes use of it. In `fuse_files` the
third call is a truncation or open against a read or getattr and a write;
`MaxIo` of one keeps a file from being freed by its release. In `fuse_conn` six
arrivals let both batches run out and be reset, three links give a list that is
cut in the middle, two mounts and two files give two mounts on one descriptor
and a clone, and one name lets two channels want it.
`UINT_MAX` is larger
than every counter. Symmetry is used in safety runs only. The runs with
failures or one-shot requests do not check deadlock: a writer that died with the
lock, or a mount with nothing left to do, really stops. `toy_live` does.

Fairness. Every kernel thread that can step does (weak fairness per thread);
`insmod`, `rmmod`, a close, an abort, signals and writes to the control file may
never come. Linux's queued locks serve waiters in order, so the three lock
acquisitions of `ToyRcu` are strongly fair, and a writer that waits keeps new
readers out. In `FuseDev` the daemon goes on reading and answering, a copy ends
after finitely many pages (strong fairness of `copy_done`), and a page fault
ends. If the daemon stops for ever nothing is promised until its device is
closed.

## 4. Proofs

`ToyRcuProofs` proves, for any sets of readers, writers, addresses and values
and any bound on failures (the assumption `ToyRcuAssumption` of `ToyRcu`: the
sets of threads are disjoint, the initial value is a value, garbage is not, and
NULL is neither an address nor a value):

- `InvCorrect`: `Spec => []Inv`, the inductive invariant;
- `TypeCorrect`, `UseAfterFreeFree`, `UpdateAtomic`, `HeapCorrect`, `LeakFree`:
  the five safety invariants;
- `RegisterImplemented`: `Spec` implements `FooRegister`'s specification.

`NoUseAfterFree` alone is not inductive: that the reader's structure is
allocated has to come from the writer that will free it. `ReaderInv` is the
heart of the argument: what a reader inside its section holds is the published
structure, or one whose writer has not yet got past the write lock. When that
writer gets the lock, `LockInv` says that no reader is inside a section.
`RetiredInv` and `PrivateInv` keep the structures of different writers apart,
`CoverInv` says that nothing else is allocated (which gives `HeapAccounted`, and
`NoLeak` once `LifeInv` says that every thread has exited), and `NoLostUpdate`
is part of the invariant because a writer retires what it read. The invariant's
step is proved one conjunct per lemma, one case per action.

`FuseQueueProofs` proves three invariants of `FuseQueue`, for every pair of
positive batch sizes, any finite sets of links and readers, and without the
bounds on arrivals (`BatchAssumption`, `QueueAssumption`):

- `TurnsAreShared`: `Spec => []TurnsShared`. The property speaks of two
  histories only, so `TurnsInv` adds what they owe to `forget_batch`: while a
  request waits, the forgets read before it and what is left of the batch are
  together at most `ForgetBatch`; while the counter is at or below zero it has
  counted every request read before the waiting forget; and it stays above
  `-ReqBatch`;
- `ForgetsListed`: `Spec => []ForgetList`. `ListInv` says that there are a number
  n and places 0 to n that `next` connects, without repetition, from the head to
  the tail; `PlaceWalks` says that the walk of the model visits just these, and
  the cut of `dequeue_forget` is a shift of the places;
- `ReadersWoken`: `Spec => []WokenEnough`, on top of `ListInv`, from the sizes of
  the sets of woken readers and of waiting forgets.

`ExamplesProofs` proves about `RcuSample`, for any sets of readers, writers and
addresses, any bound on failed allocations and either module or a change between
them at every load (`RcuSampleAssumption`: readers are not writers, NULL is no
address):

- `MemoryIsSafe`: `Spec => []MemorySafe`, and `NothingLeaks`:
  `Spec => []NoLeak`, both from `RcuInvariant`;
- `WaitingUnloadsCleanly`: if only `sample_synchronize_rcu.c` is ever loaded,
  then no callback ever finds its module gone and `rmmod` leaves nothing
  allocated. The run `rcu_unload` shows that `sample_call_rcu.c` does not have
  this.

`RcuInv` gives every allocated structure one owner: `gbl_foo`, the writer that
filled it, the writer that replaced it, or a queued callback. The heart is
`Protected`: what a reader inside its section holds is published, or its grace
period has not begun, or waits for this very reader. The lock of the toy RCU
needs no such clause: there the end of an update is the moment without readers,
here each grace period has a set of readers of its own. `TypeOK` to `HeapInv`
were checked by TLC first, with 2 readers, 2 writers and 3 addresses.

About `ExampleDevices`, for any finite sets of files and areas
(`ExamplesAssumption`), it proves `DevicesKeepMemory`: `E!Spec =>
[]DeviceMemory`. `DevInv` says what each counter counts: the page of a file has
a reference for its `info` and one for each area that has faulted it in,
`reference` of `mma.c` is the number of areas, and `pins` the number of callers
inside `sample_write`. `BufInv` needs the parameter to be within the allocation
until it is raised. `ExamplesSound` puts these together for the specification
that the run `examples` checks.

`FuseDirProofs` proves, for any names (finitely many), nodes, threads, subset of
the operations and number of steps (`FuseDirAssumption`: the marks of the model
are no node ids):

- `EntriesCoherent`: `Spec => []EntryCoherent`, from `EntryInvariant`, with a
  rename that overtakes a notification among the steps and the name that it
  spoils in `raced`;
- `ChangesStay`: `Spec => []AttrNotUndone`, for nodes without a malformed reply.

`EntryCoherent` alone is not inductive: a reply that waits becomes the dentry
later. `ReplyInv` says of every reply that has not been applied that the daemon
still has what it says, unless it has changed the name itself and its
notification is on the way (`pend`); for RENAME this must hold before the
daemon answers. It is kept because an operation that changes the directory is
alone with it (`LockInv`), and it makes a dentry right because a name that is
being created has none (`NewNameInv`). `DentryInv` is then stronger than
`EntryCoherent`: it names the operations and the outcomes, among them the
interrupted ones, after which a dentry may be wrong for a moment. For the
attributes `AttrInv` is the version check of `fuse_change_attributes` as an
invariant: an outdated copy on its way either was overtaken by a later version,
or belongs to an evicted inode, or the operation that outdated it has yet to
count the version.

- `LookupsBalanced`: `Spec => []LookupBalanced`, for finitely many threads.

`CountInv` is `LookupExact` with what it needs to be inductive: which operations
are answered with a node, that a list of entries belongs to a READDIRPLUS that
is being read, and that a node which a dentry or a request refers to has a
positive count (`RefInv`), so that an inode is not evicted under its user. `lost`
is one of the terms, so that the theorem says that the labels for malformed
replies lose a count and no other path does. Two more are sums: over the FORGETs
in the queue, whose partial sums are a function that an induction over the natural
numbers provides (`SumsExist`), and over the threads, where one step changes one
term.
All three invariants were checked by TLC on the instance of `fuse_dir`.

`FuseFilesProofs` proves about the three modules of `MCFuseFiles`:

- `AclIsCoherent`: `Spec => []AclCoherent` of `FuseXattr`, for any set of callers
  that are not marks of the cache (`CallersAssumption`);
- `HandlesBalanced` (`HandleExact`), `ReservedKept` (`ReservedSafe`) and
  `PollersWoken` (`PollWoken`) of `FuseFile`, for any files and finitely many
  users;
- `SizeTracked` (`SizeCoherent`) and `AioCompletes` (`AioExact`) of `FuseSize`,
  for any threads, number of calls and size of the file (`FilesAssumption`);
- `FilesSound`: all six for the specification that the run `fuse_files` checks.

`AclCoherent` is about a stale copy in the cache; the copy may have become stale
before it got there. `AclInv` therefore says the same of an answer that waits
behind a caller's sentinel, says that the call to blame has really changed the
ACL (a failed chmod leaves the cache alone, and is to blame for nothing), and
that a sentinel belongs to a running `get_acl`. The proof does not need the inode
lock: two changes at once would keep the cache coherent too.

`FileInv` gives the count, handle, reserved request and flock of a file in each
of its states (`FileOk`), and what a running call knows of its file (`CallOk`);
the three properties follow from it directly.

`SizeInv` has two halves. `IoOk` follows the `fuse_io_priv`: its counts are the
requests in flight and the submitter, its error and its length are those of the
requests that ended, and it is freed with the last of them; `AioExact` allows
one use after that, the submitter's read of `io->blocking`. `TrackInv` says of
every number that will be believed later that it is the daemon's size: `i_size`
while the attributes are valid and no call is about to invalidate them, the
size in the answer of a getattr that no version overtook, the end that a short
read found. While an extending direct write is in flight these may lag behind
by what its requests have written, and no further (`InRange`). The proof found
a race that the run's three calls do not reach: a write whose request is
overtaken by an open with `O_TRUNC` leaves `i_size` ahead, and a direct write
below it that partly fails then changes the daemon's file without a new
version. It belongs to the second race listed at `Races`.

`FuseConnProofs` proves, for any mounts and channels, finitely many device files,
users of control files and clients (`ConnAssumption`):

- `ConnectionsSafe` (`ConnSafe`), `ConnectionsServed` (`Served`) and
  `SuperBlockLive` (`SbLive`) of `FuseMount`;
- `CuseLifeBalanced` (`CuseBalanced`) of `Cuse`;
- `ConnectionSound`: the four for the specification that the run `fuse_conn`
  checks.

`MountInv` is one predicate per mount, `MountOk`, over its phase, its connection
and the numbers of device files and control file operations that point to it:
`fc->count` is one for the super block, one more while the mount is being
published, and these two numbers. A step changes one mount, or the pointer of one
file or user, and then one of the numbers by one (`FS_AddElement`,
`FS_RemoveElement`). `CuseInv` is the same for a channel, with the table of
device numbers as a partial inverse of the numbers that the channels have chosen.
TLC checked both on the instance of `fuse_conn`.

`FuseWritebackProofs` proves, for any threads and operations, file sizes and
requests (`FuseWritebackAssumption`: finitely many, distinct from each other,
and fewer requests than `-INT_MIN`, because `fi->writectr` is an int whose bias
is `INT_MIN`):

- `CountIsExact`: `Spec => []WritectrExact`, so that no write is in flight
  between `fuse_set_nowrite` and `fuse_release_nowrite`;
- `WakeUpsArrive`: `Spec => []NoLostWakeup`;
- `TruncationHolds`: `Spec => []TruncateHolds`.

`WritectrExact` compares a counter with the size of the set of requests that
were sent. A step that sends the same request twice, or frees one that is still
in a list, would break it, so `WriteInv` says that each request is in one place:
filled by one thread (`OwnInv`), once in `queued_writes` (`QueueInv`), once in
the chain of one other request (`ChainInv`), or in the device's queue
(`PendInv`), and that a free one is blank (`FreeInv`). That the bias is added and
taken away by one thread at a time is `MutexInv`: whoever is in the section, or
in a subroutine that returns into it, holds `i_mutex`. Two facts rest on
`fc->lock` being kept over several steps: the page copied into a waiting request
(`inplace`), and the request that was counted down and has not woken anybody yet
(`finishing`). The latter is what `SleepInv` adds to `NoLostWakeup`: a thread may
sleep although its condition has come true, if the wake-up is certain. Each
action has one lemma, and the steps of `fuse_send_writepage` and
`fuse_writepage_end` one per change of a list.

`TruncateHolds` speaks of the daemon's file only, which changes when the daemon
answers; `TruncInv` follows a page that a truncation has cut off from the cache
to there. While it is dirty, pinned or with a thread, a truncate that is not
over will come to it (`FileInv`); that thread has its lock (`LockedInv`). A
queued request for it waits for the truncate's own flush, or for the thread that
has it under writeback (`CutInv`). `fuse_flush_writepages` reads the size once
and drops `fc->lock` in the middle of its loop when it drops a request. It can
do so only while a truncate is not over that has set the new size already and
has yet to come to the thread's pages, and nobody else changes the size until
then, so what it crops with is still the size (`CropInv`). So what was sent lies
within the file (`SentInv`), and between the daemon's answer to a truncate and
`__fuse_release_nowrite` the daemon's file does not grow (`DoneInv`).

TLC checked `WriteInv` and `TruncInv` on the instance of `wb_pages`.

`FuseDevProofs` proves, for any requests (finitely many), daemon threads and
devices (`FuseDevAssumption`: the kinds of threads are distinct, the limits are
numbers):

- `LimitHolds`: `BgLimits = {} => (Spec => []BackgroundLimited)`, with devices
  closed and the connection aborted at any time. The hypothesis is that nobody
  writes a new limit; one below `active_background` breaks the property at once;
- under the hypothesis `Lasting`, and as long as `fc.connected`:
  `ReferencesExact` (`RefsExact`), `WaitingCounted` (`WaitingExact`),
  `BackgroundsCounted` (`BackgroundCounted`) and `InterruptsKept`
  (`NoLostInterrupt`), all from `DevInvariant`. `UnabortedSafe` states them
  without `fc.connected` for a connection that nobody aborts.

`Lasting` says that no device is closed. The races of section 5 are between a
close or an abort and the threads that it does not wait for, so that most of
these properties end with the connection. Until then signals, failed
allocations, copies that fail, answers that overtake their read, INTERRUPT
messages answered by any thread and changes of the limit come at any time.

The properties are about a request and whoever has it; `DevInv` therefore says
of every thread of the daemon in which list its request is (`ServerInv`), that
no two threads have the same one (`AloneInv`), and of every request where it is
when its requester waits and which flags it has (`PlaceInv`). The flags say
enough only together: `FR_PENDING` means that nobody has read the request, which
is why a fatal signal may take it back, and `FR_FINISHED` that it is in no list.
`RefInv` is `RefsExact` for one request. `IntrInv` says who will notice an
interrupt: a request in `processing` without `FR_SENT` has a reader that is about
to set it, and an interrupt that is not queued has a reader that is about to look
for it. It also says that a queued interrupt of a finished request has a thread
that is about to take it off the list, which keeps `interrupts` free of freed
requests although it holds no reference. The proof has a lemma per action. They
share one about a step on one request (`StepKeeps`: the other requests and
threads keep their part, also when `flush_bg_queue` moves them), and the counts
are compared with the sizes of sets by what the one request changes
(`WaitingStep`, `FlushCounted`). TLC checked `DevInv` with one synchronous and
two background requests and two threads, with interrupts answered.

Only model-checked, and why:

- `FuseDev` with devices that are closed, and after an abort: `NoUseAfterFree` in
  `fuse_live` and `wb_pages` (`AbortSafe`), the properties of `fuse_life` with
  closes. A request
  that an abort and a thread both end needs another invariant than `DevInv`, whose
  core is that one thread has it.
- `DataReachesServer` and `FsyncDurable` of `FuseWriteback`: they follow the
  contents of a page along chains of requests and two histories; they need
  another invariant of the size of `WriteInv`, about what each request carries.
- The liveness properties: fairness and `ENABLED` are outside the prover.

What the recursive functions and folds of the models compute is proved without
an induction theorem: a set of natural numbers has a least element
(`LeastNatural` of `FuseDirProofs`, from `WellFoundedInduction`), and a
counterexample with the least length is none. No module uses a recursive
operator.

## 5. What the violated properties show

- `rcu_unload`. `exit_sample_` of `sample_call_rcu.c` does not call
  `rcu_barrier()`. A callback that is still queued is run after the module is
  unloaded.
- `fuse_sent`. `fuse_dev_do_read` puts the request on `processing`, drops
  `fpq->lock` and sets `FR_SENT` afterwards. An abort that ends the request in
  between clears the flag too early, and `request_end` meets it set:
  `WARN_ON(test_bit(FR_SENT, &req->flags))`.
- `mount_fail`. `fuse_fill_super` sets `sb->s_fs_info` before it makes the root
  inode. If that or anything after it fails, the labels free the connection and
  leave the pointer; the VFS then calls `fuse_kill_sb_anon`, which locks
  `fc->killsb` of the freed connection.

`NoUseAfterFree` holds for everybody but the three users of a request that have
no reference and do meet a freed one: the abort at its private list
(`dev.c:2123`: the comment at line 2068 says that a request which finishes first
is removed from it, but lines 1305 and 1891 leave a private request where it
is), a read between the publication of the request and its return (`LatePC`,
`dev.c:1296`), and the answer to an INTERRUPT message (`dev.c:1867`).
`LookupBalanced`, `EntryCoherent`, `AioExact` and `BufferBounds` each name the
one place where the code does not keep what they say (`lost`, `raced`,
`aio_check`, `raised`), and hold everywhere else.

Races that no run is about are described at their lines under `hazards`, with
the property that fails when the run is given what they need: the reference
that a second `request_end` does not drop (`dev.c:365`), the request that
`fuse_retrieve` could not queue and does not drop (`dev.c:1699`), the request added to
`io` after the abort (`dev.c:1272`), the limit raised while `blocked` is set
(`control.c:128`, `dev.c:376`), the page that reclaim leaves locked
(`file.c:1694`), the page copied into a request that is being read
(`file.c:1767`), and INIT answered after a forced unmount (`inode.c:919`).

## 6. Not modelled

- `dev.c`: splice, poll and fasync of the device, and the pages that store and
  retrieve move; they carry data that the copy steps of `FuseDev` abstract. A
  list that two threads corrupt by walking it without its lock (`dev.c:2143`) is
  outside a model that takes a list operation as one step.
- `file.c`: ioctl, lseek, bmap and getlk, which forward one request; sizes
  inside a page.
- `dir.c`, `inode.c`: readlink, symlink bodies, statfs, mount options, and which
  callers `fuse_allow_current_process` lets in. The daemon's directories have no
  second alias, so `d_splice_alias` does not fail.
- TUSE (`old/tuse`): it does not compile (`cs->offest`, a `tuse_copy_fill` that
  is called and not defined) and its super block never gets a connection; there
  is no behaviour to be faithful to.
- `_sample.c`, `simple.c`, `dma.c`, `tinyfuse.c`, `proc.c`, `test.c`,
  `old/file.c`, `sample.c` and the user programs: straight lines that register,
  print or call one driver once.
- `old/tmp/fuse` where it differs from `old/fuse` in kernel interfaces only.

## 7. Plan

1. Theorems: the contents of the requests, for `DataReachesServer` and
   `FsyncDurable`, on top of `WriteInv` and `TruncInv`.
2. Liveness: that `fuse_set_nowrite` returns, and that a reader of `FuseQueue`
   gets every message.
3. An abstract file whose stores reach the daemon in order, implemented by
   `FuseWriteback` outside the known races.
4. `FuseSize` and `FuseWriteback` on one file, for open with `O_TRUNC` against
   writeback (`file.c:183`).
