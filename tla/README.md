# TLA+ models of lkmodel_yjq

This directory holds TLA+ models of the kernel components in `src/` and the
TLC configurations that check them. Its centre is the process address space,
`src/mm/mm/src/lib.rs`, and above all `MmStruct::deep_dup`: the copy of an
address space that fork uses.

## 1. Inventory

| Component | Source | State it keeps | Operations |
|---|---|---|---|
| Address space | `mm/mm/src/lib.rs` | `MmStruct { id, vmas: BTreeMap<start, VmAreaStruct>, pgd: Arc<SpinNoIrq<PageTable>>, brk, mapped: BTreeMap<va, kva>, locked_vm }`; the global `MM_UNIQUE_ID` | `new`, `deep_dup`, `set_brk`, `map_region`, `unmap_region`, and the read-only `pgd`, `root_paddr`, `id`, `brk` |
| VMA | `mm/mm/src/lib.rs` | `VmAreaStruct { vm_start, vm_end, vm_pgoff, vm_file, vm_flags }` | `new` (stores its arguments as given), `clone` |
| Page table, allocator, direct map | external crates `page_table`, `axalloc`, `axhal` | table entries; free pages | `pgd_alloc`, `map_region`, `unmap_region`, `alloc_pages`, `virt_to_phys` |
| Run queue, task entry | `run_queue/run_queue/src/lib.rs` | `RUN_QUEUE: SpinNoIrq<AxRunQueue>`; each task's `SchedInfo.entry` | `init`, `yield_now`, `force_unlock`, `spawn_task(_raw)`, `on_timer_tick`, `task_entry` |
| DTB parser | `axdtb/axdtb/src/{lib,util}.rs` | none (pure) | `DeviceTree::init`, recursive `parse`, `SliceRead` |
| User stack | `user_stack/user_stack/src/lib.rs` | `UserStack { sp, ptr }` | `new`, `push`, `push_str` |
| Mount bootstrap | `axmount/axmount/src/lib.rs` | `INIT_ROOT: LazyInit` | `init_filesystems`, `init_rootfs`, `init`, `init_root` |
| File API | `axfile/axfile/src/api/mod.rs` | none | wrappers that forward to `fstree` and `File` |
| ramfs test | `axfs_ramfs/rt_ramfs/src/basic.rs` | none | test code for an external crate |

### How the components interact

The process layer is not in the repository. It calls `MmStruct::new` for a new
process and `deep_dup` on fork. Its page-fault, mmap and munmap handlers insert
VMAs into the public `vmas` map. They back pages through `map_region` and record
each page in the public `mapped` ledger. `map_region` never touches the ledger
itself. `deep_dup` copies the VMAs. It then copies every page the *ledger* names
into a freshly allocated page and maps that page in a fresh table. The page
table is shared by `Arc` with the context-switch code and guarded by a
`SpinNoIrq` lock. The run queue's lock is taken by one context and released by
another, in `task_entry` after a context switch. The DTB parser and the mount
code run once at boot.

### What is hard

- Several kernel threads run at once. Two forks, of the same parent or of
  different ones, can overlap each other and the page faults of other spaces,
  and all of them draw from one page allocator.
- `deep_dup` reads each page through the ledger, not through the page table. So
  the child is right only while the ledger and the table agree, and that
  agreement is kept by callers outside this crate.
- The ledger holds *kernel virtual* addresses (`new_page`), not physical ones,
  and the difference shows only at the second fork.
- Page exhaustion panics the kernel, through an `unwrap`, halfway through a
  fork.
- `MmStruct` has no `Drop`, so dropping a space leaks its pages.
- The run-queue lock is taken by one task and released by another, across a
  context switch, and interrupts must stay off exactly while it is held.

### What makes each component correct

- **Address space.** A copy has its parent's pages, VMAs and break at the moment
  it is made. After that the two spaces are isolated: no physical page is shared,
  and no page is both mapped and free. The ledger names the frame that the table
  maps.
- **Run queue.** The lock is held by one context at a time and released exactly
  once per acquisition, and interrupts are off while it is held.
- **DTB parser.** `parse` accepts exactly the well-formed blobs, never reads out
  of bounds, and returns the position after the node's END token.
- **User stack.** After every push, `sp` is aligned and every value pushed
  earlier is still where the user will read it. An underflow is caught.

## 2. Plan

Modules, in order of importance:

1. `AddressSpace` (abstract) and `Mm` (detailed): the address space, fork and
   the allocator. `Mm` refines `AddressSpace`. **Done in this sitting.**
2. `RunQueue`: the `RUN_QUEUE` lock hand-off between `yield_now`/`resched` and
   `task_entry`'s `force_unlock`, the entry closure consumed once, and
   `on_timer_tick` from interrupt context. `AxRunQueue` internals are not in the
   repository and will be taken from the spec. The safety checks are mutual
   exclusion and one release per acquisition. The liveness check is that every
   spawned task runs its entry, under weak fairness of the CPU. **Safety done
   in this sitting.** The spec does not describe `AxRunQueue`, so `resched` is
   only "switch to any runnable task". That every spawned task eventually runs is
   left out, since no fairness of `resched`'s choice is justified.
3. `Dtb`: `parse` as a RECURSIVE operator over token sequences, with
   `read_be_u32`, `read_bstring0` and `subslice` by their bounds checks. It is
   checked against a reference grammar of well-formed blobs over all token
   sequences up to a small length. **Done in this sitting**, with the reference
   being an encoder of bounded trees rather than a grammar over all sequences.
4. `UserStack`: `push` and `push_str` with usize width (`% 2^w`), checked over
   all data sizes and alignments up to a bound. **Done in this sitting.**
5. `AxMount`: the LazyInit protocol of `INIT_ROOT`. Examined and left out
   (section 5): everything it does beyond one sequential boot path is decided by
   external crates.
6. Liveness of `deep_dup` under weak fairness of the thread running it.
   Examined and left out (section 4, Fairness): the loop is finite and one
   of its steps is always enabled, so the property holds by the shape of
   the model.

A later step could compose `Mm` with `RunQueue`: fork creates the child task
whose entry runs on the child's page table.

## 3. Modules and how they map to the code

### `AddressSpace.tla`: what an address space promises

Each live space is a view from virtual page to data, plus a VMA map and a
break. `Fork(src, dst)` copies all three atomically. Every other action changes
one space: `Create`, `AddVma`, `RemoveVma` (its pages go too), `Materialize`,
`Write`, `SetBrk` and `Destroy`.

### `Mm.tla`: MmStruct, deep_dup, the allocator and the callers

State:

| Variable | Code |
|---|---|
| `nextId` | `MM_UNIQUE_ID` |
| `alive`, `mmId`, `vmas`, `pgd`, `brk`, `mapped` | the live `MmStruct`s and their fields (`pgd[m]` is the table behind the `Arc`) |
| `mem`, `free` | physical memory and the allocator's free frames |
| `dup[t]` | the locals of `deep_dup` running in thread `t`: the new table, VMA map and ledger |
| `panicked` | an `unwrap` failed |

Actions of the code:

| Action | Code |
|---|---|
| `New` | `MmStruct::new`, with the `fetch_add` |
| `DupBegin` | `pgd_alloc`, then the VMA loop, which re-keys by `vm_start` (`ReKey`) |
| `DupCopyPage` | one iteration of the ledger loop in key order: `alloc_pages`, `copy_nonoverlapping` from the ledger's kernel address, `map_region` with RWXU at `virt_to_phys(new_page)`, and `mapped.insert(va, new_page)` |
| `DupAllocFails` | `alloc_pages(..).unwrap()` with nothing free, which panics |
| `DupFinish` | the returned `Self`: a new id and the break copied. The caller installs the result. |
| `SetBrk` | `MmStruct::set_brk` |
| `Exit` | the `MmStruct` is dropped. There is no `Drop` impl, so the ledger's pages are not freed. |
| `Mmap` | `VmAreaStruct::new` inserted into the public `vmas` under its start |

A VMA's `vm_flags` is a set of the names in `VmFlags`, the `VM_*` constants.
The backend's `MappingFlags` are `RWXU`. `Intent` is the spec's translation
from one to the other (`VM_EXEC` becomes `EXECUTE`). `MappingHonoursVmaFlags`
compares a mapping's flags against it.

`MapRegion`, `UnmapRegion`, `CopyNonoverlapping`, `AllocPages`,
`virt_to_phys` and `phys_to_virt` model the calls the code makes. A copy from
an address outside the direct map may read anything (`KernelRead`).

The callers, modelled from the spec (`spec_modelled` in PROJECT.json):

| Action | What the caller does |
|---|---|
| `FaultIn` | allocates a page, calls `map_region` with the VMA's flags, records the page in `mapped` |
| `Munmap` | calls `unmap_region` and `mapped.remove` for each page of a VMA, and frees the page |
| `UserWrite` | a user store through the table |

These caller actions and `SetBrk` need `&mut MmStruct`, so none of them runs on a space while
a thread duplicates it. That is the spec's single-owner-at-fork precondition
(section 4.4), expressed by `Duplicating`. Different spaces, and several forks
of one space, run concurrently. `Exit` keeps one space alive, the init process,
so the bounded model never ends with no process at all.

Refinement mapping: `aView[m]` is what a user load through `pgd[m]` returns.
`aVmas` is `vmas` and `aBrk` is `brk`. `DupBegin`, `DupCopyPage`,
`DupAllocFails` and `Halted` are stuttering steps of the abstract
specification, and `DupFinish` is its `Fork`.

Abstracted away: the `locked_vm` field, which is only copied and never read in
the crate; file references, kept as a model value in the VMA; byte-level page
contents, kept as one value from `Data`; and the backend's own table pages and
errors.

### `UserStack.tla`: UserStack::push and push_str

State: `sp` and `ptr` are the two fields of `UserStack` (`_base` is never
read). `mem` maps each kernel address to the byte written there, or `Unset`.
`layout` and `ops` are history: what each push left at which user address, and
how many pushes there were.

| Definition | Code |
|---|---|
| `Init` | `UserStack::new(base, ptr)` with `Base`, `Ptr0` |
| `PushStep` | the body of `push::<T>`: `sp -= size_of_val(data)`, `sp -= sp % align_of::<T>()`, `ptr -= origin - sp`, all wrapping at `2^Width`, then the copy |
| `CopyFromSlice`, `DataBytes`, `ElemBytes` | `copy_from_slice` of the data's bytes at `ptr`; an element is its value byte followed by zero bytes |
| `Push(T, data)` | a call of `push` with an array of one or two elements of `T` |
| `PushStr(s)` | `push_str`: `push(&[b'\0'])` then `push(s.as_bytes())`, returning `sp` |

Types are `u8` (size 1, align 1) and `usize` (size 8, align 8). With a 7-bit
width and a user base of 117, which is not 8-aligned, every usize push after a
string needs padding. The arithmetic wraps at `2^Width` as usize does, though
no run's pushes go far enough to wrap. The kernel pointer starts at 93, which is
congruent to 117 modulo 8. `push` aligns only `sp`, and
`from_raw_parts_mut(ptr as *mut T, ..)` needs `ptr` aligned for `T`. So the
kernel-side slice is aligned only if the caller passes `new` a `ptr` congruent
to `base` modulo every alignment pushed, for example two page-aligned
addresses. `new` does not check this. Given such a pair, `LayoutIntact` implies that every kernel-side slice is aligned.

### `Dtb.tla`: DeviceTree::init and parse

The parser is pure, so the module writes it as operators and checks it in a
two-state model: `Init` picks a tree and a way of presenting its blob, and
`Boot` is the call `parse(dtb_va, cb)`, storing what came out in `res`.

| Definition | Code |
|---|---|
| `ReadBeU32`, `ReadBstring0`, `Subslice` | the `SliceRead` methods of `util.rs`, bounds checks included (`subslice` refuses `end == len`) |
| `Ok`, `Err`, `Bind` | `DeviceTreeResult` and the `?` operator |
| `DtInit` | `DeviceTree::init`: magic, version, then totalsize and the two offsets; `buf` is the `from_raw_parts(ptr, totalsize)` of `parse` |
| `Parse` | `DeviceTree::parse`: BEGIN token, name, props loop, the callback, children loop, END token |
| `Props`, `CellsOf` | the props loop, with the `#address-cells`/`#size-cells` updates |
| `Children` | the children loop, recursing with this node's cells |
| `ParseDtb`, `Boot` | the free `parse`, which unwraps both results |

A u32 is kept as its four bytes, since TLC's integers are signed 32-bit and
`0xd00dfeed` does not fit; `U32` is the `as usize`. The names
`#address-cells` and `#size-cells` are shortened to `#a` and `#s`, and `r`
stands for any other property. `from_utf8` is `Utf8Ok`, exact for the ASCII
bytes the inputs use.

The reference side is written from the DTB v17 format, not from the parser:
`Encode` lays out header, empty reservation block, structure block
(optionally starting with an `FDT_NOP`), `FDT_END` and strings block; and
`Expected` is the document-order walk in which a node reports the cells it
declares, or else those it inherits, which is what the code does.

Under the Devicetree Specification (2.3.5), a node's own `reg` is encoded with
its parent's cells, not the ones it declares. A check of that reading fails on
a bus node that declares cells and has a `reg`. The repository does not
document the callback's contract, so this is kept as a hazard rather than a
run.

### `RunQueue.tla`: the RUN_QUEUE lock across a context switch

One CPU, an idle task and up to three spawned tasks. `pc[t]` says where a task
is: not spawned, fresh (its context starts at `task_entry`), switched out
inside `resched` with its lock guard live, in `task_entry`, back from the
switch, or running its own code. `locked` is the spin flag. `irq` is the CPU's
interrupt flag. `saved[t]` is the interrupt state held by `t`'s guard.

| Action | Code |
|---|---|
| `Init` | `init`: the idle thread runs |
| `Spawn(t)` | `spawn_task_raw` and `spawn_task`: context set to `task_entry`, queued by the caller |
| `YieldNow(next)` | `yield_now`: `lock()` saves `irq` and disables interrupts; `resched` switches to `next` with the lock held |
| `Resume` | the switched-back task's guard is dropped: unlock, restore its saved `irq` |
| `TaskEntry`, `ForceUnlock` | `task_entry`: `force_unlock`, then the entry closure if `ctx.entry` is Some (the closure itself is not modelled) |
| `OnTimerTick` | `on_timer_tick`: lock, tick, unlock, in the interrupt handler |

`SpinNoIrq` is in the external crate `spinbase`. The model gives it the usual
semantics: the guard saves and disables interrupts and restores them on drop,
and `force_unlock` clears the spin flag and nothing else.

## 4. Runs

| Run | cfg | Expect | What it shows |
|---|---|---|---|
| `mm_safety` | `MC_Mm.cfg` | pass | `FramesExclusive`: no frame is mapped twice, or mapped while free. Checked under concurrent forks, fork of a fork, faults, munmap, exit and exhaustion. |
| `mm_refines` | `MC_Mm_refines.cfg` | pass | `Mm` implements `AddressSpace`. A fork is an atomic, content-identical copy, and the two spaces are isolated afterwards. |
| `mm_fork_exhaustion` | `MC_Mm_exhaustion.cfg` | violation | A fork with no free page panics the kernel. Spec section 7 says it returns an error instead. |
| `mm_map_flags` | `MC_Mm_flags.cfg` | violation | Pages of a read-only VMA are mapped writable and executable. Spec section 4.3 says `map_region` translates the intent. |
| `mm_ledger_phys` | `MC_Mm_ledger_phys.cfg` | violation | With the ledger holding physical pages, as spec section 3 says, fork copies from a bogus address. The code expects kernel virtual addresses. |
| `ustack_layout` | `MC_UserStack.cfg` | pass | `LayoutIntact`: every value pushed earlier, strings with their NUL, is still at its aligned user address. |
| `dtb_parse` | `MC_Dtb.cfg` | pass | `DecodesWellFormed`: every bounded well-formed blob gives exactly one callback per node in order, with its props and the cells in effect, and `parse` returns the offset after the root's END. `TruncationNeverMisread`: when the header's totalsize is short by 1, 2, 3 or 6 bytes, parse panics or still reports the exact tree, never a different one. |
| `dtb_nop` | `MC_Dtb_nop.cfg` | violation | A valid v17 blob with an `FDT_NOP` token is rejected with `ParseError`, so boot panics. The crate doc claims v17 support. |
| `rq_lock` | `MC_RunQueue.cfg` | pass | `LockHeldOnlyAcrossSwitch`: the lock is held exactly while a switch is unfinished, whoever releases it. `IrqOffWhileLocked`: no timer interrupt can find the lock held. |
| `rq_irq` | `MC_RunQueue_irq.cfg` | violation | After `task_entry`'s `force_unlock`, a fresh task runs with interrupts off and the lock free. The interrupt state saved by the yielding task's guard is not restored on this path; it comes back only when that task itself resumes and drops its guard. |
| `ustack_overflow` | `MC_UserStack_overflow.cfg` | violation | Three pushes of usize arrays go below the 48 bytes the caller set aside. `push` has no bound check, while the crate doc promises safe pushing. |

Each property of a passing run has a mutant in PROJECT.json: a plausible bug
that TLC must catch.

| Mutant | Property that catches it |
|---|---|
| the allocator handing out a page in use | `FramesExclusive` |
| `copy_nonoverlapping` with its arguments swapped | `MmRefinesAddressSpace` |
| the direct-map offset applied backwards | `TypeOK` |
| `push_str` terminating with `b'0'` instead of `b'\0'` | `TypeOK` (of `UserStack`) |
| `push_str` pushing the string before its NUL | `LayoutIntact` |
| `read_bstring0` returning the NUL with the string | `TypeOK` (of `Dtb`) |
| `task_entry` without `force_unlock` | `LockHeldOnlyAcrossSwitch` |
| a run-queue lock that does not disable interrupts | `IrqOffWhileLocked` |
| `read_be_u32` assembling bytes little-endian | `DecodesWellFormed` |
| `read_bstring0` running to the end of the slice when no NUL is found | `TruncationNeverMisread` |

### Bounds and why they are enough

`MC_Mm`:

- three slots, so a parent, a child and a grandchild can all be live;
- two threads, so two forks can overlap;
- two pages and two VMAs: an RW anonymous VMA over both pages, and a read-only
  file VMA over page 2 that is placed only when it does not overlap;
- three frames, so a two-page space plus one fork runs out part-way;
- two data values, enough to tell a right copy from a wrong one;
- `MaxId = 3`, which allows `new`, a fork and a fork of the fork, or two
  concurrent forks.

`MC_UserStack`: two pushes over every choice of type, array and string reach
211 states, with every padding case (a usize array after a one- or two-byte
string). Three pushes are enough to leave the 48-byte stack.

`MC_Dtb`: node names of one byte (two bytes of padding) and three bytes (none),
the root's empty name (three bytes of padding), property lists with no props,
with both cells props, and with a three-byte value (padding). Trees go three
levels deep, or have two siblings, so a child's cells that leaked to a sibling
or to its parent would show. That makes 237 trees, each presented whole and with four short totalsize
values. The cuts reach into the `r`, `#s` and `#a` strings of the strings block.

`MC_RunQueue`: three tasks and the idle task, so a fresh task, a
resumed task and a task yielding to a fresh one all occur. Up to three timer
ticks. The tasks are symmetric. This gives 160 states. `RunQueue` has no type invariant, because every
variable is a boolean or a function into a fixed set by construction.

Memory starts with arbitrary contents, since freshly allocated pages are not
zeroed. Slots, threads and data values are symmetric, and the model uses a
symmetry set for its safety runs. The safety run checks about
105 thousand distinct states in under a minute.

### Fairness

No run checks a liveness property. The candidates examined hold by the shape
of the model, not by anything the code could get wrong:

- that every `deep_dup` returns or panics: its loop is finite over a ledger
  nobody changes during the fork, and in every state of it exactly one of the
  next iteration, the panicking `unwrap` or the return is enabled;
- that a run-queue lock taken by `yield_now` is released: after a switch the
  only steps enabled are the guard drop and `task_entry`, which are exactly
  the steps weak fairness would be assumed of, and `LockHeldOnlyAcrossSwitch`
  already ties the lock to the unfinished switch.

That every spawned task eventually runs would be a real property, but it
depends on `resched`'s choice of task in `AxRunQueue`, which the repository
does not hold, so no fairness of that choice is justified.

## 5. Not modelled, and why

- **axfile api.** Pure forwarding to crates outside the repository.
- **rt_ramfs basic.rs.** A test of a crate outside the repository.
- **Backend page-table pages and errors.** These belong to the external crate.
  `map_region` is modelled as always succeeding.
- **Torn page copies.** These happen when a user thread stores into a page
  during the fork, which the spec forbids to the caller. Page contents are one
  value each.
- **user_stack `init`.** It only calls two external initialisers.
- **`read_be_u64`.** No code calls it.
- **Headers that overstate totalsize.** Reads would run into memory that is not
  the blob.
- **`AxRunQueue` internals and preemption.** These are not in the repository.
- **`set_child_tid`, `ret_from_fork`.** These are a user-memory store and the
  return to user mode. Neither changes the lock state.
- **axmount.** `init_filesystems`, `init_rootfs`, `init` and `init_root` run
  once, in sequence, on the boot path. Their only state is two `LazyInit`
  cells, `INIT_ROOT` and `FAT_FS`, each written once. The rest is decided by
  crates outside the repository:
  - whether a mount succeeds (`axfs_vfs::RootDirectory::mount`);
  - whether `init` can run twice (`axconfig::init_once!`);
  - whether a block device exists (`axdriver`);
  - when `init_root` is first called (the task code).

  A model would have to invent all of that behaviour.
