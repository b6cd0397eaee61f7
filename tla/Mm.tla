--------------------------------- MODULE Mm ---------------------------------
(***************************************************************************)
(* The address-space component of src/mm/mm/src/lib.rs: MmStruct with its *)
(* VMA map, page table (pgd), materialized-page ledger (mapped) and break, *)
(* the global id counter MM_UNIQUE_ID, the physical-page allocator, and   *)
(* MmStruct::deep_dup run by kernel threads one ledger entry per step.     *)
(*                                                                         *)
(* The kernel code that calls this crate (mmap, page fault, munmap, exit) *)
(* is not in the repository; it appears here as the caller actions the    *)
(* spec describes, each holding the MmStruct exclusively (&mut), so none  *)
(* runs on a space while a thread duplicates it (spec section 4.4).       *)
(***************************************************************************)
EXTENDS Integers, FiniteSetsExt

CONSTANTS
  Mms,              \* slots that can hold an MmStruct
  Threads,          \* kernel threads that can run deep_dup
  Vas,              \* virtual page numbers (va / PAGE_SIZE)
  Frames,           \* physical page frames (pa / PAGE_SIZE)
  Data,             \* page contents a user can tell apart
  VmaChoices,       \* VmAreaStruct values a mapping request can create
  BrkValues,        \* program break values set_brk may be given
  PhysVirtOffset,   \* kernel direct map: kernel va = pa + PhysVirtOffset
  MaxId,            \* bound: last id MM_UNIQUE_ID may hand out
  LedgerStoresPhys, \* callers record (va, pa) in `mapped` instead of (va, kva)
  NoPage, NoVma, NoMm

ASSUME MaxId \in Nat /\ LedgerStoresPhys \in BOOLEAN
ASSUME \A f \in Frames : f + PhysVirtOffset \notin Frames

VARIABLES
  nextId,    \* MM_UNIQUE_ID
  alive,     \* slots holding a live MmStruct
  mmId,      \* MmStruct.id
  vmas,      \* MmStruct.vmas: start -> VmAreaStruct
  pgd,       \* page table behind MmStruct.pgd: va -> [pa, flags]
  brk,       \* MmStruct.brk
  mapped,    \* MmStruct.mapped: va -> kernel va of the backing page
  mem,       \* contents of each physical frame
  free,      \* frames the global allocator can hand out
  dup,       \* locals of deep_dup in each thread
  panicked   \* the kernel has panicked (an unwrap failed)

vars == <<nextId, alive, mmId, vmas, pgd, brk, mapped, mem, free, dup, panicked>>

-----------------------------------------------------------------------------
(* MappingFlags, and the helpers the code calls.                           *)

RWXU == {"READ", "WRITE", "EXECUTE", "USER"}

\* The vm_flags bits VM_READ .. VM_SYNC, by name; VM_NONE is the empty set.
VmFlags == {"READ", "WRITE", "EXEC", "SHARED", "MAYREAD", "MAYWRITE",
            "MAYEXEC", "MAYSHARE", "GROWSDOWN", "LOCKED", "SYNC"}

ASSUME \A v \in VmaChoices : v.flags \subseteq VmFlags

\* Mutant: the direct-map offset is applied the wrong way round.
phys_to_virt_reversed(pa) == pa - PhysVirtOffset

\* axhal::mem::virt_to_phys and its inverse on the direct map.
virt_to_phys(kva) == kva - PhysVirtOffset
phys_to_virt(pa) == pa + PhysVirtOffset

\* page_table::paging::pgd_alloc: a fresh, empty table.
pgd_alloc == [va \in Vas |-> NoPage]

NoLedger == [va \in Vas |-> NoPage]
NoVmas == [k \in Vas |-> NoVma]

\* PageTable::map_region(va, pa, PAGE_SIZE, READ|WRITE|EXECUTE|USER, true):
\* overwrite allowed, and the flags are always the full set.
MapRegion(table, va, pa) == [table EXCEPT ![va] = [pa |-> pa, flags |-> RWXU]]

\* PageTable::unmap_region(va, PAGE_SIZE) for each page va in vs.
UnmapRegion(table, vs) == [va \in Vas |-> IF va \in vs THEN NoPage ELSE table[va]]

\* What copy_nonoverlapping can read from the page at kernel address kva: the
\* frame's content when kva is in the direct map, anything otherwise.
KernelRead(kva) ==
  IF virt_to_phys(kva) \in Frames THEN {mem[virt_to_phys(kva)]} ELSE Data

\* Mutant: the allocator hands out any frame, in use or not.
AllocPagesInUse == {phys_to_virt(f) : f \in Frames}

\* axalloc::global_allocator().alloc_pages(1, PAGE_SIZE): the kernel address
\* of some free frame.
AllocPages == {phys_to_virt(f) : f \in free}

\* Mutant: source and destination swapped.
CopyNonoverlappingSwapped(src, dst) ==
  {[mem EXCEPT ![virt_to_phys(src)] = b] : b \in KernelRead(dst)}

\* core::ptr::copy_nonoverlapping(src, dst, PAGE_SIZE) between kernel
\* addresses: the memories it can leave behind.
CopyNonoverlapping(src, dst) ==
  {[mem EXCEPT ![virt_to_phys(dst)] = b] : b \in KernelRead(src)}

\* Pages the VMA v spans, and whether va lies in some VMA of the map vs.
Span(v) == {va \in Vas : v.start <= va /\ va < v.end}
Covered(vs, va) == \E k \in Vas : vs[k] # NoVma /\ va \in Span(vs[k])

\* deep_dup's VMA loop: every VMA is re-inserted under its own vm_start, in
\* key order, so a later entry with the same vm_start wins.
ReKey(vs) ==
  [k \in Vas |->
     LET from == {j \in Vas : vs[j] # NoVma /\ vs[j].start = k}
     IN  IF from = {} THEN NoVma ELSE vs[Max(from)]]

IdleDup == [pc |-> "idle", src |-> NoMm, pgd |-> pgd_alloc,
            vmas |-> NoVmas, mapped |-> NoLedger]

\* A thread is inside deep_dup(&self) on m.
Duplicating(m) == \E t \in Threads : dup[t].pc = "copy" /\ dup[t].src = m

\* Bound: every MmStruct created or being duplicated gets an id <= MaxId.
CanCreate == nextId + Cardinality({t \in Threads : dup[t].pc = "copy"}) <= MaxId

\* Ledger entries deep_dup still has to copy.
ToCopy(t) ==
  {va \in Vas : mapped[dup[t].src][va] # NoPage /\ dup[t].mapped[va] = NoPage}

-----------------------------------------------------------------------------
Init ==
  /\ nextId = 1
  /\ alive = {}
  /\ mmId = [m \in Mms |-> 0]
  /\ vmas = [m \in Mms |-> NoVmas]
  /\ pgd = [m \in Mms |-> pgd_alloc]
  /\ brk = [m \in Mms |-> 0]
  /\ mapped = [m \in Mms |-> NoLedger]
  /\ mem \in [Frames -> Data]
  /\ free = Frames
  /\ dup = [t \in Threads |-> IdleDup]
  /\ panicked = FALSE

\* MmStruct::new.
New(s) ==
  /\ ~panicked
  /\ s \notin alive
  /\ CanCreate
  /\ nextId' = nextId + 1
  /\ alive' = alive \cup {s}
  /\ mmId' = [mmId EXCEPT ![s] = nextId]
  /\ vmas' = [vmas EXCEPT ![s] = NoVmas]
  /\ pgd' = [pgd EXCEPT ![s] = pgd_alloc]
  /\ brk' = [brk EXCEPT ![s] = 0]
  /\ mapped' = [mapped EXCEPT ![s] = NoLedger]
  /\ UNCHANGED <<mem, free, dup, panicked>>

\* deep_dup, up to the ledger loop: a fresh table and the copied VMAs.
DupBegin(t, m) ==
  /\ ~panicked
  /\ dup[t].pc = "idle"
  /\ m \in alive
  /\ CanCreate
  /\ dup' = [dup EXCEPT ![t] = [pc |-> "copy", src |-> m, pgd |-> pgd_alloc,
                                vmas |-> ReKey(vmas[m]), mapped |-> NoLedger]]
  /\ UNCHANGED <<nextId, alive, mmId, vmas, pgd, brk, mapped, mem, free, panicked>>

\* One iteration of the ledger loop, in key order: a new page, a copy of the
\* old page's bytes, a full-permission mapping and a ledger entry.
DupCopyPage(t) ==
  LET va       == Min(ToCopy(t))
      old_page == mapped[dup[t].src][va]
  IN  /\ ~panicked
      /\ dup[t].pc = "copy"
      /\ ToCopy(t) # {}
      /\ \E new_page \in AllocPages :
           LET pa == virt_to_phys(new_page)
           IN  /\ free' = free \ {pa}
               /\ mem' \in CopyNonoverlapping(old_page, new_page)
               /\ dup' = [dup EXCEPT ![t].pgd = MapRegion(@, va, pa),
                                     ![t].mapped = [@ EXCEPT ![va] = new_page]]
      /\ UNCHANGED <<nextId, alive, mmId, vmas, pgd, brk, mapped, panicked>>

\* alloc_pages(1, PAGE_SIZE).unwrap() with no free page: the kernel panics.
DupAllocFails(t) ==
  /\ ~panicked
  /\ dup[t].pc = "copy"
  /\ ToCopy(t) # {}
  /\ free = {}
  /\ panicked' = TRUE
  /\ UNCHANGED <<nextId, alive, mmId, vmas, pgd, brk, mapped, mem, free, dup>>

\* The returned MmStruct: a fresh id, brk copied, installed in slot s.
DupFinish(t, s) ==
  LET src == dup[t].src
  IN  /\ ~panicked
      /\ dup[t].pc = "copy"
      /\ ToCopy(t) = {}
      /\ s \notin alive
      /\ nextId' = nextId + 1
      /\ alive' = alive \cup {s}
      /\ mmId' = [mmId EXCEPT ![s] = nextId]
      /\ vmas' = [vmas EXCEPT ![s] = dup[t].vmas]
      /\ pgd' = [pgd EXCEPT ![s] = dup[t].pgd]
      /\ brk' = [brk EXCEPT ![s] = brk[src]]
      /\ mapped' = [mapped EXCEPT ![s] = dup[t].mapped]
      /\ dup' = [dup EXCEPT ![t] = IdleDup]
      /\ UNCHANGED <<mem, free, panicked>>

\* MmStruct::set_brk.
SetBrk(m, b) ==
  /\ ~panicked
  /\ m \in alive
  /\ ~Duplicating(m)
  /\ brk' = [brk EXCEPT ![m] = b]
  /\ UNCHANGED <<nextId, alive, mmId, vmas, pgd, mapped, mem, free, dup, panicked>>

-----------------------------------------------------------------------------
(* Callers of the crate, as the spec describes them.                       *)

\* mmap: VmAreaStruct::new(...) inserted into the pub vmas map under its
\* start; the syscall layer refuses an overlapping range.
Mmap(m, v) ==
  /\ ~panicked
  /\ m \in alive
  /\ ~Duplicating(m)
  /\ \A k \in Vas : vmas[m][k] # NoVma => Span(vmas[m][k]) \cap Span(v) = {}
  /\ vmas' = [vmas EXCEPT ![m][v.start] = v]
  /\ UNCHANGED <<nextId, alive, mmId, pgd, brk, mapped, mem, free, dup, panicked>>

\* Page fault inside a VMA: a new page filled with data d, mapped with
\* MmStruct::map_region(va, pa, PAGE_SIZE, vm_flags), recorded in `mapped`.
\* With no free page the caller returns an error and nothing changes.
FaultIn(m, va, d) ==
  /\ ~panicked
  /\ m \in alive
  /\ ~Duplicating(m)
  /\ pgd[m][va] = NoPage
  /\ Covered(vmas[m], va)
  /\ \E f \in free :
       /\ free' = free \ {f}
       /\ mem' = [mem EXCEPT ![f] = d]
       /\ pgd' = [pgd EXCEPT ![m] = MapRegion(@, va, f)]
       /\ mapped' = [mapped EXCEPT ![m][va] =
                       IF LedgerStoresPhys THEN f ELSE phys_to_virt(f)]
  /\ UNCHANGED <<nextId, alive, mmId, vmas, brk, dup, panicked>>

\* munmap of the VMA keyed k: MmStruct::unmap_region for every page of it
\* the ledger holds, the ledger entry removed, the frame given back.
Munmap(m, k) ==
  LET gone == {va \in Span(vmas[m][k]) : mapped[m][va] # NoPage}
  IN  /\ ~panicked
      /\ m \in alive
      /\ ~Duplicating(m)
      /\ vmas[m][k] # NoVma
      /\ vmas' = [vmas EXCEPT ![m][k] = NoVma]
      /\ pgd' = [pgd EXCEPT ![m] = UnmapRegion(@, gone)]
      /\ mapped' = [mapped EXCEPT ![m] = [va \in Vas |->
                      IF va \in gone THEN NoPage ELSE @[va]]]
      /\ free' = free \cup {pgd[m][va].pa : va \in gone}
      /\ UNCHANGED <<nextId, alive, mmId, brk, mem, dup, panicked>>

\* A user store through the page table of m.
UserWrite(m, va, d) ==
  /\ ~panicked
  /\ m \in alive
  /\ ~Duplicating(m)
  /\ pgd[m][va] # NoPage
  /\ "WRITE" \in pgd[m][va].flags
  /\ mem' = [mem EXCEPT ![pgd[m][va].pa] = d]
  /\ UNCHANGED <<nextId, alive, mmId, vmas, pgd, brk, mapped, free, dup, panicked>>

\* The MmStruct is dropped.  It has no Drop impl: the page table goes, the
\* pages in `mapped` are not given back to the allocator.  The first process
\* (init) never exits, so one space always stays.
Exit(m) ==
  /\ ~panicked
  /\ m \in alive
  /\ alive # {m}
  /\ ~Duplicating(m)
  /\ alive' = alive \ {m}
  /\ vmas' = [vmas EXCEPT ![m] = NoVmas]
  /\ pgd' = [pgd EXCEPT ![m] = pgd_alloc]
  /\ brk' = [brk EXCEPT ![m] = 0]
  /\ mapped' = [mapped EXCEPT ![m] = NoLedger]
  /\ UNCHANGED <<nextId, mmId, mem, free, dup, panicked>>

\* After a panic nothing runs.
Halted ==
  /\ panicked
  /\ UNCHANGED vars

Next ==
  \/ \E s \in Mms : New(s)
  \/ \E t \in Threads, m \in Mms : DupBegin(t, m)
  \/ \E t \in Threads : DupCopyPage(t) \/ DupAllocFails(t)
  \/ \E t \in Threads, s \in Mms : DupFinish(t, s)
  \/ \E m \in Mms, b \in BrkValues : SetBrk(m, b)
  \/ \E m \in Mms, v \in VmaChoices : Mmap(m, v)
  \/ \E m \in Mms, va \in Vas, d \in Data : FaultIn(m, va, d) \/ UserWrite(m, va, d)
  \/ \E m \in Mms, k \in Vas : Munmap(m, k)
  \/ \E m \in Mms : Exit(m)
  \/ Halted

Spec == Init /\ [][Next]_vars

-----------------------------------------------------------------------------
(* Properties.                                                             *)

Entry == [pa : Frames, flags : SUBSET RWXU]
\* Ledger values: kernel direct-map addresses (or, for callers that record
\* physical addresses, frames).
Ledger == [Vas -> Frames \cup {f + PhysVirtOffset : f \in Frames} \cup {NoPage}]
VmaMap == [Vas -> VmaChoices \cup {NoVma}]

TypeOK ==
  /\ nextId \in 1..MaxId + 1
  /\ alive \subseteq Mms
  /\ mmId \in [Mms -> 0..MaxId]
  /\ vmas \in [Mms -> VmaMap]
  /\ pgd \in [Mms -> [Vas -> Entry \cup {NoPage}]]
  /\ brk \in [Mms -> BrkValues \cup {0}]
  /\ mapped \in [Mms -> Ledger]
  /\ mem \in [Frames -> Data]
  /\ free \subseteq Frames
  /\ dup \in [Threads -> [pc : {"idle", "copy"}, src : Mms \cup {NoMm},
                           pgd : [Vas -> Entry \cup {NoPage}],
                           vmas : VmaMap, mapped : Ledger]]
  /\ panicked \in BOOLEAN

\* Where frame f is mapped: in a live space, or in a table deep_dup is
\* still building.
Holders(f) ==
  {<<m, va>> \in alive \X Vas : pgd[m][va] # NoPage /\ pgd[m][va].pa = f}
  \cup {<<t, va>> \in Threads \X Vas : dup[t].pgd[va] # NoPage /\ dup[t].pgd[va].pa = f}

\* Isolation of physical pages (deep_dup with the allocator and the page-fault
\* path): a frame is mapped at one place of one table at most, and a mapped
\* frame is never on the allocator's free list, so no store through one space,
\* and no later allocation, can change a page another space sees.
FramesExclusive ==
  \A f \in Frames :
    /\ Cardinality(Holders(f)) <= 1
    /\ Holders(f) # {} => f \notin free

\* What a user load at va of space m returns.
View(m) ==
  IF m \in alive
  THEN [va \in Vas |-> IF pgd[m][va] = NoPage THEN NoPage ELSE mem[pgd[m][va].pa]]
  ELSE [va \in Vas |-> NoPage]

Abs == INSTANCE AddressSpace
         WITH aAlive <- alive, aView <- [m \in Mms |-> View(m)],
              aVmas <- vmas, aBrk <- brk

\* deep_dup behaves as an atomic fork and every other step as one change of
\* one space: the copy sees exactly its parent's pages, VMAs and break at
\* the moment it is returned, and no later store through either space is
\* seen through the other.
MmRefinesAddressSpace == Abs!Spec

\* Spec section 7: physical-page exhaustion during duplication fails that
\* fork with a resource error and leaves the kernel running.
NoPanicOnExhaustion == ~panicked

\* Spec section 4.3: the MappingFlags a VMA's vm_flags ask for.
Intent(vmflags) ==
  (vmflags \cap {"READ", "WRITE"}) \cup (IF "EXEC" \in vmflags THEN {"EXECUTE"} ELSE {})

\* Spec section 4.3: map_region translates the permission intent (the VMA's
\* flags) into READ/WRITE/EXECUTE; a page is never mapped with a right its
\* VMA does not grant.
MappingHonoursVmaFlags ==
  \A m \in alive, va \in Vas, k \in Vas :
    /\ pgd[m][va] # NoPage
    /\ vmas[m][k] # NoVma
    /\ va \in Span(vmas[m][k])
    => pgd[m][va].flags \subseteq Intent(vmas[m][k].flags) \cup {"USER"}

=============================================================================
