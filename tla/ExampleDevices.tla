---------------------------- MODULE ExampleDevices ----------------------------
(***************************************************************************)
(* The example character devices: old/mma.c, old/vmm.c and old/gread.c,    *)
(* which give each open file a page and map it on faults; old/hello.c,     *)
(* with one buffer for each minor number; get_user_pages/sample.c, which   *)
(* writes to a page of its caller.  Init chooses the module that is        *)
(* loaded.  fput, the page tables and the module's reference count are     *)
(* external.                                                               *)
(***************************************************************************)
EXTENDS Integers, FiniteSets

CONSTANTS
    Files,      \* open files of the page devices and of hello.c
    Vmas,       \* areas that map them
    Sizes,      \* values given to simple_char_bufsize
    Counts,     \* byte counts of reads and writes
    None

VARIABLES
    driver,     \* the example that is loaded
    file,       \* "closed", "open", "closing", "released", "dead"
    info,       \* struct mmap_info of the file: "none", "live", "freed"
    page,       \* reference count of its page
    reference,  \* info->reference, less what kmalloc left in it
    vma,        \* the file that an area maps
    pte,        \* areas that have faulted the page in
    lost,       \* an allocation of this file is leaked
    bufsize,    \* simple_char_bufsize
    bufcap,     \* what kmalloc was asked for when the buffers were set up
    raised,     \* history: bufsize was written above bufcap
    bufs,       \* simple_char_devs[].buf: "none", "live", "freed"
    wsize,      \* dev->write_size
    copying,    \* bytes a write has decided to copy
    mapped,     \* the caller's page has its reference from the page tables
    sem,        \* callers inside mmap_sem: "out", "writing", "dead"
    pins        \* references from get_user_pages

evars == <<driver, file, info, page, reference, vma, pte, lost, bufsize, bufcap, raised,
           bufs, wsize, copying, mapped, sem, pins>>
pagevars == <<info, page, reference, vma, pte, lost>>
sizevars == <<bufsize, bufcap, raised>>
hellovars == <<bufs, wsize, copying>>
pinvars == <<mapped, sem, pins>>

Init ==
    /\ driver \in {"mma", "vmm", "gread", "hello", "sample"}
    /\ file = [f \in Files |-> "closed"]
    /\ info = [f \in Files |-> "none"] /\ page = [f \in Files |-> 0]
    /\ reference = [f \in Files |-> 0]
    /\ vma = [v \in Vmas |-> None] /\ pte = {} /\ lost = {}
    /\ bufsize \in Sizes /\ bufcap = bufsize /\ raised = FALSE
    /\ bufs = "none" /\ wsize = 0
    /\ copying = [f \in Files |-> None]
    /\ mapped = TRUE /\ sem = [f \in Files |-> "out"] /\ pins = 0

(***************************************************************************)
(* mma.c, vmm.c and gread.c.                                               *)
(***************************************************************************)

(* mma.c and gread.c allocate an info that they do not use as well.        *)
open(f) ==
    /\ driver \in {"mma", "vmm", "gread"} /\ file[f] = "closed"
    /\ file' = [file EXCEPT ![f] = "open"]
    /\ info' = [info EXCEPT ![f] = "live"]
    /\ page' = [page EXCEPT ![f] = 1]
    /\ lost' = IF driver = "vmm" THEN lost ELSE lost \cup {f}
    /\ UNCHANGED <<driver, reference, vma, pte, sizevars>> /\ UNCHANGED hellovars
    /\ UNCHANGED pinvars

(* No allocation is tested: the opener dies on the NULL pointer, and no     *)
(* release will come.  What it had allocated, if anything, is leaked.      *)
open_dies(f) ==
    /\ driver \in {"mma", "vmm", "gread"} /\ file[f] = "closed"
    /\ file' = [file EXCEPT ![f] = "dead"]
    /\ lost' \in {lost, lost \cup {f}}
    /\ UNCHANGED <<driver, info, page, reference, vma, pte, sizevars>>
    /\ UNCHANGED hellovars /\ UNCHANGED pinvars

(* t_read of mma.c leaks once more; vmm.c only copies.                     *)
t_read(f) ==
    /\ driver = "mma" /\ file[f] = "open" /\ info[f] = "live"
    /\ lost' = lost \cup {f}
    /\ UNCHANGED <<driver, file, info, page, reference, vma, pte, sizevars>>
    /\ UNCHANGED hellovars /\ UNCHANGED pinvars

mmap_open(f) == reference' = [reference EXCEPT ![f] = IF driver = "mma" THEN @ + 1 ELSE @]
mmap_close(f) == reference' = [reference EXCEPT ![f] = IF driver = "mma" THEN @ - 1 ELSE @]

my_mmap(f, v) ==
    /\ driver \in {"mma", "vmm"} /\ file[f] = "open" /\ vma[v] = None
    /\ vma' = [vma EXCEPT ![v] = f]
    /\ mmap_open(f)
    /\ UNCHANGED <<driver, file, info, page, pte, lost, sizevars>> /\ UNCHANGED hellovars
    /\ UNCHANGED pinvars

(* fork copies the area, and calls its open operation.                     *)
fork(v, w) ==
    /\ vma[v] # None /\ vma[w] = None
    /\ vma' = [vma EXCEPT ![w] = vma[v]]
    /\ mmap_open(vma[v])
    /\ UNCHANGED <<driver, file, info, page, pte, lost, sizevars>> /\ UNCHANGED hellovars
    /\ UNCHANGED pinvars

fault_without_get(v) ==
    /\ vma[v] # None /\ v \notin pte
    /\ pte' = pte \cup {v}
    /\ UNCHANGED <<driver, file, info, page, reference, vma, lost, sizevars>>
    /\ UNCHANGED hellovars /\ UNCHANGED pinvars
mmap_fault(v) ==
    /\ vma[v] # None /\ v \notin pte
    /\ page' = [page EXCEPT ![vma[v]] = @ + 1]
    /\ pte' = pte \cup {v}
    /\ UNCHANGED <<driver, file, info, reference, vma, lost, sizevars>>
    /\ UNCHANGED hellovars /\ UNCHANGED pinvars

(* The page table entry goes, with its reference, then the area's close.   *)
munmap(v) ==
    /\ vma[v] # None
    /\ page' = [page EXCEPT ![vma[v]] = IF v \in pte THEN @ - 1 ELSE @]
    /\ pte' = pte \ {v}
    /\ vma' = [vma EXCEPT ![v] = None]
    /\ mmap_close(vma[v])
    /\ UNCHANGED <<driver, file, info, lost, sizevars>> /\ UNCHANGED hellovars
    /\ UNCHANGED pinvars

close(f) ==
    /\ file[f] = "open" /\ copying[f] = None
    /\ file' = [file EXCEPT ![f] = "closing"]
    /\ UNCHANGED <<driver, sizevars>> /\ UNCHANGED pagevars /\ UNCHANGED hellovars
    /\ UNCHANGED pinvars

(* The last reference to the file: descriptor and areas are gone.          *)
Unused(f) == file[f] = "closing" /\ \A v \in Vmas : vma[v] # f

release(f) ==
    /\ driver \in {"mma", "vmm", "gread"} /\ Unused(f)
    /\ file' = [file EXCEPT ![f] = "released"]
    /\ page' = [page EXCEPT ![f] = @ - 1]
    /\ info' = [info EXCEPT ![f] = "freed"]
    /\ UNCHANGED <<driver, reference, vma, pte, lost, sizevars>> /\ UNCHANGED hellovars
    /\ UNCHANGED pinvars

(***************************************************************************)
(* hello.c, one minor number.                                              *)
(***************************************************************************)

(* The parameter is writable in sysfs while the module is loaded; the      *)
(* buffers keep the size that it had.                                      *)
set_bufsize(n) ==
    /\ driver = "hello"
    /\ bufsize' = n
    /\ raised' = (raised \/ (bufs = "live" /\ n > bufcap))
    /\ UNCHANGED <<driver, file, bufcap>> /\ UNCHANGED pagevars /\ UNCHANGED hellovars
    /\ UNCHANGED pinvars

(* When the device numbers cannot be had the buffers are not freed; a      *)
(* failed kmalloc is not tested, and insmod dies on the NULL pointer.      *)
simple_char_init ==
    /\ driver = "hello" /\ bufs = "none"
    /\ \/ bufs' = "live" /\ driver' \in {"hello", "none"}
       \/ bufs' = "none" /\ driver' = "none"
    /\ wsize' = 0 /\ bufcap' = bufsize
    /\ UNCHANGED <<file, bufsize, raised, copying>> /\ UNCHANGED pagevars
    /\ UNCHANGED pinvars

simple_char_open(f) ==
    /\ driver = "hello" /\ bufs = "live" /\ file[f] = "closed"
    /\ file' = [file EXCEPT ![f] = "open"]
    /\ UNCHANGED <<driver, sizevars>> /\ UNCHANGED pagevars /\ UNCHANGED hellovars
    /\ UNCHANGED pinvars

(* copy_from_user, then write_size: two writers interleave.  The bound is  *)
(* the parameter of the moment, not what was allocated.                    *)
simple_char_write(f, count) ==
    /\ driver = "hello" /\ file[f] = "open" /\ copying[f] = None
    /\ copying' = [copying EXCEPT ![f] = IF count > bufsize THEN wsize ELSE bufsize]
    /\ UNCHANGED <<driver, file, sizevars, bufs, wsize>> /\ UNCHANGED pagevars
    /\ UNCHANGED pinvars

write_done(f) ==
    /\ copying[f] # None
    /\ copying' = [copying EXCEPT ![f] = None]
    /\ wsize' = copying[f]
    /\ UNCHANGED <<driver, file, sizevars, bufs>> /\ UNCHANGED pagevars /\ UNCHANGED pinvars

(* -EFAULT: the buffer may have changed, write_size has not.               *)
write_fails(f) ==
    /\ copying[f] # None
    /\ copying' = [copying EXCEPT ![f] = None]
    /\ UNCHANGED <<driver, file, sizevars, bufs, wsize>> /\ UNCHANGED pagevars
    /\ UNCHANGED pinvars

simple_char_release(f) ==
    /\ driver = "hello" /\ Unused(f)
    /\ file' = [file EXCEPT ![f] = "released"]
    /\ UNCHANGED <<driver, sizevars>> /\ UNCHANGED pagevars /\ UNCHANGED hellovars
    /\ UNCHANGED pinvars

(* cdev->owner: open files keep the module.                                *)
simple_char_exit ==
    /\ driver = "hello" /\ bufs = "live"
    /\ \A f \in Files : file[f] \in {"closed", "released"}
    /\ bufs' = "freed" /\ driver' = "none"
    /\ UNCHANGED <<file, sizevars, wsize, copying>> /\ UNCHANGED pagevars
    /\ UNCHANGED pinvars

(***************************************************************************)
(* get_user_pages/sample.c: one page, written to inside mmap_sem.  An      *)
(* error of get_user_pages is taken for a page, which is uninitialized:    *)
(* the caller dies with mmap_sem held.                                     *)
(***************************************************************************)
sample_write(f) ==
    /\ driver = "sample" /\ sem[f] = "out"
    /\ IF mapped THEN /\ sem' = [sem EXCEPT ![f] = "writing"]
                      /\ pins' = pins + 1
       ELSE sem' = [sem EXCEPT ![f] = "dead"] /\ UNCHANGED pins
    /\ UNCHANGED <<driver, file, sizevars, mapped>> /\ UNCHANGED pagevars
    /\ UNCHANGED hellovars

put_page(f) ==
    /\ sem[f] = "writing"
    /\ sem' = [sem EXCEPT ![f] = "out"]
    /\ pins' = pins - 1
    /\ UNCHANGED <<driver, file, sizevars, mapped>> /\ UNCHANGED pagevars
    /\ UNCHANGED hellovars

(* Another thread unmaps the page, or the kernel migrates it away, which   *)
(* needs no mmap_sem.                                                      *)
unmap_page ==
    /\ driver = "sample" /\ mapped
    /\ mapped' = FALSE
    /\ UNCHANGED <<driver, file, sizevars, sem, pins>> /\ UNCHANGED pagevars
    /\ UNCHANGED hellovars

Next ==
    \/ \E f \in Files :
        \/ open(f) \/ open_dies(f) \/ t_read(f) \/ close(f) \/ release(f)
        \/ simple_char_open(f) \/ simple_char_release(f)
        \/ write_done(f) \/ write_fails(f)
        \/ sample_write(f) \/ put_page(f)
        \/ \E v \in Vmas : my_mmap(f, v)
        \/ \E n \in Counts : simple_char_write(f, n)
    \/ \E v \in Vmas : mmap_fault(v) \/ munmap(v) \/ \E w \in Vmas : fork(v, w)
    \/ \E n \in Sizes : set_bufsize(n)
    \/ simple_char_init \/ simple_char_exit \/ unmap_page

Spec == Init /\ [][Next]_evars

(***************************************************************************)
(* Properties.                                                             *)
(***************************************************************************)

(* get_page in mmap_fault and free_page in release (mma.c, vmm.c): the     *)
(* page of a file has one reference for its info and one for each area     *)
(* that maps it, and no area is left whose info was freed, in whatever     *)
(* order fork, unmap and close come.                                       *)
MappingSafe ==
    \A f \in Files :
        /\ page[f] = (IF info[f] = "live" THEN 1 ELSE 0)
                     + Cardinality({v \in pte : vma[v] = f})
        /\ (\E v \in Vmas : vma[v] = f) => info[f] = "live"

(* mmap_open and mmap_close (mma.c): info->reference counts the areas that *)
(* map the file, above the uninitialized value it starts from.             *)
ReferenceBalanced ==
    driver = "mma" => \A f \in Files :
        reference[f] = Cardinality({v \in Vmas : vma[v] = f})

(* simple_char_write and simple_char_exit (hello.c): the buffer is there   *)
(* while a file is open, and with two writers, any counts and a parameter  *)
(* lowered and restored under them, no write copies more than the buffer   *)
(* holds and write_size stays inside it.  Not so once the parameter was    *)
(* raised (line 266): the write is bounded by the new value (line 86) and  *)
(* the buffer keeps the size of its allocation (line 178).                 *)
BufferBounds ==
    /\ ~raised => /\ wsize <= bufcap
                  /\ \A f \in Files : copying[f] # None => copying[f] <= bufcap
    /\ \A f \in Files : driver = "hello" /\ file[f] = "open" => bufs = "live"

(* sample_write (get_user_pages/sample.c): while a caller writes to the    *)
(* page through its kernel address the page is not given back, whoever     *)
(* unmaps it and whichever other caller lets go of it meanwhile.           *)
PinnedLive == (\E f \in Files : sem[f] = "writing") => mapped \/ pins > 0

(* The memory that an example device hands out is there, and as large as   *)
(* the device believes, while a file, an area or a caller uses it.         *)
DeviceMemory == MappingSafe /\ ReferenceBalanced /\ BufferBounds /\ PinnedLive

=============================================================================
