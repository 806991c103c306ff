# MBos in TLA+

MBos (`src/`) is a 32-bit x86 hobby kernel: one C file (`src/src/kernel.c`,
some 11 000 lines) with two assembly files for boot and interrupt entry.  This
directory holds TLA+ models of the parts of it whose correctness depends on the
*order* of things — who holds a frame, which slot is current, what an interrupt
finds half done, what a power failure leaves on the disk — together with TLC
configurations that check them and TLAPS proofs about the page allocator, the
memory map, the address spaces, the scheduler, the desktop and the disk file
system.  Line numbers below are those of `src/src/kernel.c`.

## 1. The system

| Component | State it keeps | Operations | Talks to |
|---|---|---|---|
| Page allocator (6800–7002) | regions and cursor, recycle pool (1024), owner table (4096), counters | `physical_allocator_init`, `alloc_page`, `free_page`, `set_owner` | everyone who maps memory |
| Paging (7197–7669, 4631–4714) | global directory, tables in frames, per-process directories, CR3 | map, unmap, lookup through the alias or the identity map, trim | allocator |
| Processes' memory (4727–4969, 7671–7785, 5028–5410) | `page_dir_phys`, tracked pages (256), break, `user_ready` | prepare, load ELF32/PE32/MBAPP/RAW, brk, unmap at the end | paging, allocator |
| Kernel heap (8129–8187) | heap end, mapped pages | `kmalloc` | paging |
| Scheduler (597–680, 1388–1820) | state and wait fields of 4 slots, current slot, ticks, quantum | rotate, block, wake, signal, snapshot, frame restore | timer, system calls, shell |
| Interrupts (10296–10777, `interrupts.asm`) | the interrupted frame, IF, end-of-interrupt | timer, keyboard, mouse, `int 0x80`, faults | scheduler, shell, desktop |
| Desktop (220–475, 5898–6640, 11027–11230) | 8 windows, 8 application processes with rings, focus, menu, pending action and command | open, close, click, route a key, run applications | mouse and keyboard interrupts, main loop, shell |
| Shell and console (8260–10000) | line, history, cursor | about a hundred commands | all of the above |
| MBFS (2441–4166) | superblock, inode table, directory, bitmap, in memory and on disk | format, mount, umount, mkdir, write, remove, check, repair | ATA driver |
| RAMFS, descriptors (2226–2440, 4260–4630) | files in memory, 8 descriptors per slot | open, read, write, close, seek | MBFS, system calls 8–13 |
| Paths (1911–2220) | cwd per slot | normalise, resolve | MBFS, shell |
| ATA, keyboard, mouse, framebuffer, serial, boot | device registers | port I/O | — |

What is hard about it:

* **Two ways of running.**  Interrupt gates clear IF, so a handler is atomic; but
  at the text console *a whole shell command runs inside the keyboard
  interrupt*, and it may execute `int 0x80`, which nests a second handler.  On
  the desktop the same commands run in the main loop with interrupts on.
* **Who is current.**  `current_process_slot`, the slot marked RUNNING, and the
  program whose frame the CPU returns to are three things that only agree in
  frame-restore mode.
* **Frames change hands** between the pool, page tables, directories, heap and
  processes, with a pool and an owner table that can both be full.
* **Partial failure**: nearly every mapping can fail after half of its work.
* **Clock arithmetic**: deadlines are `uint32_t` sums in which 0 means "none".
* **Persistence** (MBFS): several sectors per update, no journal; the tables in
  memory change before, between and after the sector writes, and stay changed
  when one of these fails.
* **Stale numbers**: a file descriptor is an inode number that nothing revokes.

Each component's correctness properties:

* allocator — no frame is given out while held, none refused while one is free,
  a paging structure cannot be freed;
* memory map — exactly the whole usable pages above the kernel are handed out;
* address spaces — one purpose per frame, nothing lost uncounted, tracking lists
  equal to the mappings, a ready context really mapped, no disturbance of others;
* scheduler — one RUNNING slot, wait fields that belong to the present wait,
  waits that end, turns that come, never nobody runnable because of a wait;
* snapshots — a frame is restored only for the slot whose program it is;
* desktop — windows, count and focus agree and no application is without a
  terminal, but for what an interrupt strikes while the main loop has it in hand;
  a line given to an application is read; a line pending for the shell is executed
  as it was typed, unless another replaces it;
* MBFS — every extent inside the data area and no sector given to two files; an
  interrupted update harms no other file; a reported success is on the disk; a
  disk left inconsistent says so; repair keeps what is reachable.

## 2. Modules

```
PhysicalAllocator ── FrameService ── MCFrameService
   │  │                  └─ refines FrameBroker (abstract)
   │  └─ PhysicalAllocatorLemmas ── FrameServiceProofs      (TLAPS)
   └──── AddressSpaces ── MCAddressSpaces
            └─ AddressTrees ── AddressSpacesProofs          (TLAPS, with
                                     the lemmas of PhysicalAllocatorLemmas)
RegionWalk ── MCRegionWalk
   └── RegionWalkProofs                                     (TLAPS)
Tasks ── MCTasks
   └── TasksProofs                                          (TLAPS)
Desktop ── MCDesktop
   └── DesktopProofs                                        (TLAPS)
VolumeTables ── Volume ── MCVolume
                  └── VolumeProofs                          (TLAPS)
```

**PhysicalAllocator** has the allocator as operators on a state record
`[next, pool, owner, used, drops]`, so that a handler that allocates several
frames threads the record through them.  `AllocPage`/`AfterAlloc` are
`alloc_page` (6924), `AfterFree` with its guard `FreeAccepted` is `free_page`
(6952), `SetOwner` is `set_owner` (6996) with the bounded table behind it.
`Layout` is the sequence of usable frames in the order the region walk reaches
them; **RegionWalk** models that walk (6864–6950) itself, on words that wrap as
`uint32_t` does: first the loop of `physical_allocator_init` over the memory map,
one entry a step, then the requests.

**FrameService** lets arbitrary clients call the allocator; **FrameBroker** is
what such a service promises: it grants a frame nobody holds, refuses only when
all are held, and takes frames back.  The refinement maps `live` to the frames
that are handed out and not in the pool.

**AddressSpaces** puts page directories and tables *into* the frames of
PhysicalAllocator (`k.ram`), so that a table freed too early shows as a frame
with two purposes.  One action is one command with every call it makes: e.g.
`Prepare` is `user_test_prepare` — directory allocation, unmapping of the old
pages (which drops that directory again), two mappings, with a failure of either
leaving what the code leaves.  `Through` is the kernel's habit of reaching a
frame by its physical address; it faults (`dead`) when the identity map no
longer covers it.

**Tasks** has slots, scheduler, waits, snapshots, `int 0x80`, faults and the
task commands of the text console.  `m.run` is the program (slot number, or
`Kernel`) whose context the CPU returns to, apart from `m.cur`, the current
slot.  A command that traps (`tasksleep`, `eventwait`, `eventsig`, `snapnow`)
captures the kernel's frame and may abandon the keyboard handler.  In the
present build ring 3 cannot run at all (section 6), so the program's steps are
those the code is written for, a superset of what happens today.

**Desktop** has windows, applications, the start menu and the two mailboxes
between interrupts and main loop.  An interrupt handler clears IF and is a single
action.  The main loop runs with interrupts enabled: `loop.at` divides it at each
access to shared state, and any interrupt may come between any two of its steps,
in the midst of a command, an opening or a closing too.  `wm_open_window` and
`wm_close_window` are therefore modelled twice, out of the same pieces: at once
where an interrupt calls them (`Opened`, `CloseWindow`), piecemeal where the loop
does (`LookForRoom` ... `SetTerm`, `ShutWindow` ... `Pick`).  The increment of
`wm_window_count` is a read, at the room test (5966), and a later write: that is
what gcc makes of lines 5966–5986 with the Makefile's flags (`-m32 -O2`), which
keep the value in a register, and it stores the focus before the count.  `upset`
is a history variable, read by no action: it records that an interrupt has changed
the count between that read and write or closed the window being closed
(`"count"`), closed the window about to be focused (`"focus"`), or taken away or
taken up again the window the loop is giving to an application or taking from it
(`"app"`).  The properties say what holds until then.

**VolumeTables** has an MBFS volume as a record of tables — inode table, root
directory, bitmap — and the functions over it: lookup of a path, first run of
free sectors, expected bitmap, `diskfs_check` (`Checked`).  The same operators
serve the kernel's copy in memory and the disk.

**Volume** has both copies and the commands between them.  A command (`op`) is
computed when it starts, as the sequence `todo` of its sector writes, each with
the memory as of that write and the disk after it; `Step` carries out one,
`Return` ends the command, with the memory it leaves (`end`) and whether it
reports success.  So the order of the writes and of the changes in memory is the
code's own: e.g. `diskfs_write_path` is superblock (unclean) – inode allocated
and old extent freed in memory – data sectors – directory sector – inodes –
bitmap – superblock (clean).  `Crash` and `WriteError` may come before any
write, the latter with the data on the disk or not.  `diskfs_mkdir` is a chain
of such commands, one per missing directory; `diskfs_repair` computes its writes
one directory at a time, since it reads each after writing the one before.
File descriptors are an inode number and an offset, as in the code, and are not
revoked by anything.

The MC modules give values to constants and, for Desktop and Volume, state
constraints.

## 3. What TLC checks

| Run | Bounds | States | Shows |
|---|---|---|---|
| `frame_service` | 4 frames, pool 2, owner table 3, 2 drops | 2 073 | type and capacities; the pool is exactly the free list; `used` brackets the held frames; a paging structure stays held; FrameBroker is implemented |
| `region_walk` | 12 pages of two bytes, all short maps | 4 953 | usable frames only, each once, refused only when exhausted |
| `address_spaces` | 2 slots, 11 frames, pool 3, lists of 3 pages | 34 388 | six invariants and an action property over prepare, end, brk, heap, test mapping, allocpage, until memory is exhausted; no loaders |
| `address_spaces_loading` | 2 slots, 10 frames of which 2 above 4 MB, full pool at 2 | 65 118 | frames private and structures protected also under the loaders and trimid |
| `task_commands` | 2 slots, clock of 3, all commands | 816 070 | one RUNNING slot, waits current, quantum kept, last slot never blocked; a frame is restored only for the slot that is current from then on, and is its own program's |
| `task_fair` | 2 slots, clock of 4 that wraps, quanta 1 and 2 | 55 052 | waits end, turns come |
| `desktop` | 2 windows, 2 applications, one line waiting, interrupts anywhere | 221 132 | count and focus right, no application unseen, but for what was struck; lines given to an application are read, a pending line is executed as typed or replaced |
| `volume` | 3 inodes, 3 sectors, 2 directory entries; a file, a directory, a path in it; one fault | 308 235 | extents stay in bounds, no command shares a sector, other files survive every interruption and repair, success is durable, damage is flagged |
| `fault_cascade` | 2 slots | violation | section 6 |
| `task_handoff` | 2 slots | violation | section 6 |
| `desktop_torn` | 2 windows | violation | section 6 |
| `volume_repair` | as `volume` | violation | section 6 |

Why the bounds are enough to be interesting:

* `frame_service`: the pool holds fewer frames than exist and the owner table
  fewer than are handed out, so both overflow paths run; frees of page 0, of low
  memory, of frames beyond the end and second frees are all offered.
* `address_spaces`: eleven frames are two for boot, one for the heap and fewer
  than two prepared slots with heap pages, a test page and an `allocpage` need:
  every allocation in every handler fails in some state.  A pool of three makes
  an ending slot (table, code, stack, heap, directory) overflow it; a list of
  three makes `brk` overflow the tracking.  Eight words in a table (`LastWord`)
  hold the five directories of the layout and the four task pages (code, stack,
  two of heap) of each of two slots.  `LostFramesCounted` exempts frames on record
  as paging structures: the directory that every end of a process loses (4895) is
  one of them and passes (section 6).  The program loaders, and with them images
  linked at one base or inside the identity map, are left to
  `address_spaces_loading`, which asks less: only that frames stay private and
  structures protected.
* `task_*`: a clock of three or four values wraps during a wait, and durations up
  to the largest value put deadlines before, at and after the wrap.  Two slots are
  what TLC can follow with all commands at once: programs whose context lies in
  the other's slot, the mode switched on and off, the last runnable slot.  A
  rotation with a choice between several slots is left to the proofs, which hold
  for any number.
* `desktop`: two windows, both open at boot, and two applications, so that "no
  window" and "no process" failures occur, also the first without the second (the file
  manager has a window and no application), and an interrupt may close any window
  at any step of an opening and open another in its place.  `CountWords` is larger
  than any drift of the count that the constraint lets happen.  With a third window
  the interleavings are too many; the proofs are for any number.
* `volume`: the files written have one or two sectors and a directory has one,
  so that three inodes and three sectors are too few for everything the commands
  ask for: no inode, no directory slot and no room occur, also a rewrite that
  finds no room after its own sectors were freed, and free runs are fragmented.
  The path below the directory is made a file by one command and a directory by
  another, so either meets the other kind.

In Volume sizes are counted in sectors, a directory is one sector instead of
eight, and every inode, root entry and the bitmap is written as a sector of its
own; 64-byte records share sectors in the code, so the model can be interrupted
in more places.  Flushes skip the sectors they do not change.  A text sector
that is read as a directory — an overwritten one — shows one junk entry.

Bounds that are not in the code: `MaxDrops` (frees that find the pool full),
`AreaMax` (pages of heap and test areas), `TickWords` for 2^32, `MaxLines`
(lines waiting for an application; the ring's own limit is left out),
`MaxOffset` of a descriptor, `MaxFaults`.  A fault is a power failure, a device
error, or a command on a volume that is already damaged.  After its one fault
`volume` goes on with mount, umount, repair, close and seek only.  That the commands
which change the volume share no sector after a device error, and leave the other
files alone, is shown by the theorems only (`SoundAlwaysKept`,
`OthersAlwaysSurvive`), which have no bound on faults.

The constraints.  `NoUpset`: states in which an interrupt has struck something are
checked and not explored further; without a limit the count drifts from one such
interrupt to the next.  The theorems of DesktopProofs have no such limit: once the
count is struck, they still hold for focus and applications.  In the volume runs
`DescriptorsOnFlatVolumes` follows a descriptor only while the volume has no
directory and nothing has failed: a command through a descriptor reads and writes
no directory.  It also cuts part of what a descriptor may do once another file has
its inode (4471); there too the theorems go further.

**Deadlock** is checked except in the runs whose machine may really stop: after
the kernel has faulted nothing moves (`address_spaces_loading`), and in the
volume runs commands end with the last fault; they state no liveness.

**Fairness.**  `Tasks!FairSpec` has WF(Timer): while IF is set the PIT delivers
its interrupt; nothing else is assumed, programs need not call, users need not
type.  (A program entered by `userrun` runs with IF clear: then the timer is not
enabled and nothing is promised.)  `Desktop!Spec` has WF(Main): the loop's only
wait is `hlt`, which the next timer interrupt ends.  Interrupts get no fairness:
nobody has to click or type.

Every property is paired in `PROJECT.json` with a mutant: a small plausible bug
in a modelled operation (a guard dropped, a counter not kept, an entry left
behind) under which TLC must find the property violated.  The mutants stand
before the operators they replace.

## 4. What is proved

`FrameServiceProofs` proves for every layout of frames, pool size, owner-table
size, label set and drop bound:

| Theorem | Statement |
|---|---|
| `Soundness` | `Spec => []IInv` |
| `TypeCorrect`, `FreeListCorrect`, `UsedCorrect` | the three invariants of `frame_service` |
| `StructuresProtected` | the action property `StructuresStayHeld` |
| `Refinement` | `Spec => ImplementsBroker` |

Assumptions: the regions lie between 1 MB and the highest usable address and do
not overlap (`LayoutAssumption`), pool and table sizes are naturals
(`CapacityAssumption`), labels are owner classes (`ServiceAssumption`).

The argument.  None of the properties is inductive alone.  `free_page` detects a
double free mainly by the *owner* recorded for a frame; that the *pool* has no
repetition therefore needs "the pool is exactly the set of frames whose owner is
FREE".  That in turn needs the owner table to record FREE for every frame pushed,
although the table may be full — it holds because only a frame that already has
an entry passes the guard of `free_page` — and entries only for frames handed
out.  Finally `used` can only bracket the held frames if pool and untouched
frames are known to be disjoint.  `AllocatorSound`, in PhysicalAllocator, is
the conjunction (`WithinCapacity`, `FreeListSound`, `Accounted`);
`PhysicalAllocatorLemmas` proves that each of the allocator's operators preserves
it and what it does to the held set, and `FrameServiceProofs` lifts that to
steps and, with PTL, to behaviours.  The refinement shows every step of the
detailed allocator to be a grant, a refusal, a taking-back or a stutter.

`RegionWalkProofs` proves for every memory map, page size, word size, number of
regions and end of the kernel:

| Theorem | Statement |
|---|---|
| `FramesUsable` | `BelowTop` gives `Spec => []OnlyUsableFrames` |
| `AllHandedOut` | `BelowTop` gives `Spec => []RefusedOnlyWhenExhausted` |
| `FreshAlways` | `BelowTop` and `NoOverlap` give `Spec => FreshOnce` |

Assumptions (`MapAssumption`): sizes are naturals, the word is a number of pages,
the kernel ends at a page.  `BelowTop`: a usable entry that starts below 4 GB ends
before the last page below 4 GB, where the room test wraps; there a PC has its
firmware.  `NoOverlap`: the code neither sorts nor merges entries.  The
configuration of `region_walk` asserts both of its maps.

The argument.  The three properties look at the map from both ends, so the
invariant has two halves: every region is cut from an entry that was read and
every whole page of such an entry is in a region (`EntriesRead`); and the frames
handed out are exactly the pages below the regions' current addresses, with
nothing left in a region the cursor has passed (`Walked`).  Both are exact only
because all three addresses of a region are multiples of the page size: then a
page that starts before an end also ends before it (`AlignedGap`), and the room
test and "current is below the end" are the same (`RoomTest`).  `RegionCut` is
about one entry: the rounding loses no whole page and adds no partial one.

`AddressSpacesProofs` proves for every layout, pool, owner table and table size,
every number of slots and every set of images and commands:

| Theorem | Statement |
|---|---|
| `TypeCorrect` | `OrdinaryImages` gives `Spec => []TypeOK`, with the allocator's `AllocatorSound` in it |
| `FramesStayPrivate` | `OrdinaryImages` gives `Spec => []FramesPrivate` |
| `StructuresStayProtected` | `OrdinaryImages` and `Ample` give `Spec => []StructuresProtected` |
| `TaskPagesStayTracked`, `ReadyStayMapped` | `NoLoaders` gives `Spec => []TaskPagesTracked` and `Spec => []ReadyMapped` |
| `OthersStayUndisturbed` | `NoLoaders` gives the action property `OthersUndisturbed` |
| `LostStayCounted` | `NoLoaders` and `Ample` give `Spec => []LostFramesCounted` |

Assumptions (`SpaceAssumption`): four task pages of every slot fit one table,
there are frames for the boot, the identity table has one word per frame, heap
and test areas fit their tables.  `OrdinaryImages` says that images are not empty
and linked in the task or the user test area.  The loaders ask only
`paging_is_user_virtual`, which the identity map passes too; such an image takes
the frames found there (4831), and the properties are lost.  `Ample` says that the
owner table has an entry for every frame: beyond 4096 frames `set_owner` drops the
record of a new table (6855).  What `free_page` then finds is FREE, which it
refuses as well, so the frame stays held, but nothing on record says why.
`NoLoaders` says that the flat, MBAPP and image loaders are not among the
commands.  Each of them alone breaks the first two properties on the small
instances: a load for a slot whose pages are mapped gives it a private directory,
looks for the old pages there and clears the list, so they stay mapped in the
shared one and on no list; when the load then fails, `user_ready` stays set.  Two
images linked at one base break the third.  For `LostFramesCounted` the
assumption is stronger than it seems to need: on small instances TLC finds it
broken only where an image is linked at the page `mapusertest` takes, which
overwrites the image's page and leaves its frame to nobody (7442); the proof
follows only the walks of the global directory and so leaves out every private
one.  `Ample` is needed there too: a structure without a record counts as lost.

The argument.  `FramesPrivate` speaks of pages only, but a page can lose its
frame by way of a table that is shared, dangling or freed; so the invariant
(`Consistent`, in AddressTrees) is about every place of the tree that directories
and tables span, entries of directories and of tables alike: no two places hold
one frame, every frame in a place is held and is no root, and the roots are held
and nobody else's.  A handler that fails half way has frames in its hands that
are in no place yet or any more; the invariant therefore has a parameter `R`, the
set of these loose frames, which at rest are those `allocpage` keeps.
`Draw` takes a frame of the pool into `R` and `Give` frees one of `R`; `LeafSet`,
`LeafClear`, `LinkSet` hang a frame of `R` into the tree or take one out of it into
`R`; and every operation of the model, up to whole handlers with all their
failures, is shown to take a `Sane` machine to a `Sane` one.  Loops over pages
(`brk`, the loaders, the end of a process) are recursive functions, of which
`LoopRuns` shows by the least-number principle that they keep what each round
keeps.  Once the kernel has faulted only the types remain.  The frame a walk
through the identity map reaches is the one meant because the identity entries
either say so or are gone (`IdentityMaps`): `trimid` makes the machine fault
rather than write elsewhere.

The three properties of the task pages rest on a second invariant, `TaskInv`.
`TaskPagesTracked` says of a page only that one list has it, not which, and
`ReadyMapped` nothing of lists, so neither is inductive: the end of a process
unmaps what its list says.  `Booked` gives every slot an area of four pages of the
one shared directory, the list of a slot exactly the pages of its area that are
mapped (`Book`), no slot a directory of its own, and nothing mapped between the
areas.  Every operation touches one slot's area and list, `ApartFrom(m, y, s)`,
which composes (`ApartOn`) and keeps the books of the others (`BookedAgain`), so
each is examined for its own slot only.  The books are open in one place: a
prepare whose private directory had to be given up clears the list while the
code page may be mapped already (`Half`), and the mapping that follows enters it
again (`BookRestored`).  A slot that is not ready may hold at most its code page,
which is what a prepare that failed at the stack page leaves.  Underneath,
`LeafPut`, `TableMade` and `LeafTaken` say of one entry written which walks it
changes: that of its own page and no other.

`LostFramesCounted` counts, and a count is not kept by steps that move frames about
in the middle of a handler.  `Answered(m, K)` says of an allocator that the frames
held, outside `K` and not on record as a structure are at most `drops`, where `K`
are the frames somebody answers for: `Mapped`, those the walks of the global
directory end at, and the loose ones of `R`.  Draw enlarges `K` with what it takes;
freeing a frame takes it out of `K` and either back to the pool or onto `drops`
(the recycle array is full), or free_page refuses it, which only a structure's
record can make it do.  So each operation is a change of `K` that the tree has to
match: a page mapped joins it, a page unmapped leaves it, and all others stay
because no other walk changes.  The one way to lose a frame would be to map over a
page that is mapped; `LostInv` therefore adds that the pages that the heap and
`pgmaptest` take next are not.  The task pages that prepare and `brk` take are
unmapped by `TaskInv`.

`TasksProofs` proves for every number of slots, clock width, set of durations,
channels, quanta and commands:

| Theorem | Statement |
|---|---|
| `SchedulerInvariant` | `Spec => []IInv` |
| `TypeCorrect`, `OneRunningAlways`, `WaitsCurrentAlways`, `QuantumAlwaysKept` | the invariants of `task_commands` |
| `LastNeverBlocked` | the action property `LastNotBlocked` |
| `OwnProgramRuns` | `Commands \cap Moving = {}` gives `Spec => []RunsOwn` |
| `RestoredIsOwn` | the action property `RestoresOwn`, with every command |

Assumptions (`TaskAssumption`): at least one slot, a clock of at least one
value, durations shorter than the clock, quanta of at least one tick.

The argument.  A handler chains several operations on the slots (capture, wake,
end, rotate, restore), so the invariant is stated of a machine, `Sound(x)`, and
each operation is shown to take a sound machine to a sound one: `PutSound` for
replacing one slot's context, `SwitchSound` and `RotateSound` for moving the
current slot.  `OneRunning` alone is not inductive: `SwitchSound` needs that the
target is runnable, which needs `FirstOf` to return one of its candidates
(`FirstIsCandidate`, from the well-foundedness of the naturals), and the step
that makes it RUNNING keeps `WaitsCurrent` only because a runnable slot has no
wait.  The accumulator stays below the quantum because every change of the
quantum resets it and the timer resets it when it arrives.

`LastNeverBlocked` compares two states, so it is about steps: `Lost(x, y)` says
that if a slot was runnable in `x`, then one is in `y`, or one has exited in
between.  A handler that blocks first asks for the count (`LiveCounted` connects
the count with the existence of a runnable slot), and every operation after the
block keeps a runnable slot runnable (`SwitchKept`, `RotateKept`, `RestoreKept`, ...).

`OwnProgramRuns` needs to know where a restored frame leads: `Owned(x)` adds to
the property that a slot's program starts in the slot's own code, that no
snapshot is of another slot's program while the mode is on or can be switched
on, and that outside the mode no key is delivered while a program runs — so
`ctxswon` never finds a foreign one running.  The hypothesis leaves out five
commands.  `procset`, `taskteardown`, `taskwait` and `taskstop` move the current
slot from the shell and restore no frame, so the program interrupted by the key
goes on as another slot's; `ctxswoff` ends the mode for a program that then goes
on without it, and its next capture may be any slot's.  `snaprestore` is harmless.
`task_handoff` shows that the hypothesis is needed.

`RestoredIsOwn` is what is left with every command.  `Resumes(x, y)` says of two
machines that the second goes on with the program of the first, in restore mode
with the same current slot, or that it has moved, in restore mode, to a slot whose
own program runs, RUNNING and with its memory.  The restore (`RotateAndRestore`, 1757)
looks only at snapshots of the slot it switches to, whoever captured them, so every
chain of operations in a trap resumes; `Unmoved` is the part of it that the
operations keep which neither move nor restore.

`VolumeProofs` proves for every number of inodes, sectors and directory entries,
every set of paths, writes and descriptors, and every number of faults:

| Theorem | Statement |
|---|---|
| `VolumeInvariant` | `Spec => []VolumeWithin(Memory)` |
| `TypeCorrect` | `Spec => []TypeOK`: extents inside the data area, in memory and on the disk |
| `SoundAlwaysKept` | `Spec => SoundKept`: no command shares a sector in memory or frees one that is in use |
| `PlansKept` | `Spec => []Progress`: the inductive invariant of the three below |
| `OthersAlwaysSurvive` | `Spec => OthersSurvive`: each sector write of a command from a healthy volume leaves every path it is not about readable and unchanged, and each write of a repair every path |
| `UncleanAlwaysFlagged` | `Spec => []UncleanFlagged`: where a marking command has left the disk so that `diskcheck` objects, the clean flag is off |
| `SuccessIsDurable` | `Spec => []SuccessDurable`: success means that the disk has all of it |

Assumptions: at least one inode, sector and entry (`VolumeSizes`); the empty
string, which is how the code marks a free entry, is no component of a path
(`NamesAssumption`); written files have a path and a size, writes through a
descriptor are not empty (`CommandsAssumption`).

The argument for the tables.  The first two properties speak of tables in memory, and a command fixes
when it starts which tables it will have at each of its writes and at its end;
so the invariant `VolumeWithin(M)` is that all of these lie in a set `M`, with
`M` the well-formed tables for the first theorem and the well-formed tables that
are `Sound` for the second.  Every change of the tables replaces at most one
inode, and `ChangedWithin` gives the condition under which the result is still in
`M`: the new extent lies inside the new bitmap and off every other extent
(`Fits`).  Where a sector is taken it comes from `mbfs_alloc_extent`, of which
`RunFound` shows that it returns a run of free sectors inside the data area (from
`LeastNatural`, the well-foundedness of the naturals).  There is one lemma per
command, `...Keeps`, whose premise is the invariant and whose steps follow the
command's chain of tables; the flushes are shown to produce well-formed disks
(`FlushWithin`, `FillWithin`, `CopyWithin`), which the first theorem needs when a
mount takes its tables from there.  The second has to except the mount: a power
failure can leave shared sectors on the disk, and the mount loads them.

The argument for the disk.  What is on the disk between two writes is seldom
consistent, so none of the three properties is inductive, and the invariant
speaks of the writes to come.  `Planned(op, disk, i)` says that each of them leaves
what the command is not about as it is on the disk now (`Alike`), that each leaves
the disk marked unclean or consistent if the command marks at all (`Tidy`), and
that the last one achieves the command if it is to report success (`Achieved`);
`i` is the inode of the descriptor, whose file is what `process_fd_write` is about.
A `Step` drops the first write and moves the disk to it, and the plan holds of the
rest since being alike is transitive.  The work is at the start of each command,
one lemma `...Plans` each, in four steps:

1. A command is a `Change` of a healthy volume: one inode `i`, and one entry of one
   directory `d` that is not `i`, under the last name of the path.  `Nearby` is the
   set of disks that differ from the first one at most there, in any mixture of
   old and new: the other inodes, the sectors that belong to them and every other
   directory's entries are as before.  Every write lands in it (`FillNear`,
   `CopyNear`, `PutNear`, `FlushNear`), for the sectors filled were free and
   soundness keeps extents apart.
2. On a disk of `Nearby` a path that does not begin with the command's leads where
   it led and reads what it read (`NearbyAlike` from `ViewsKept`, by a shortest
   counterexample): a walk that enters `i` or meets the changed entry has the
   command's path as its prefix, because every inode of a healthy volume has one
   path at most (`OnePath`, from `NamedOnce`).
3. All disks but the last are marked (`Marking`): the superblock is written before
   anything else and once more after everything else.
4. The last disk carries the tables in memory (`FlushMade`), passes the check
   (`StillHealthy`: old, new and freed inode) and reads at the path what was asked
   for (`PathReads`, `TextRead`; `FdHeld` for the text before, in and after what a
   descriptor writes, moved to a new extent if the file grows).

`diskfs_repair` starts from volumes that are sound but not healthy and is treated
apart: each of its writes only drops root or directory entries of unused inodes
(`Pruned`), and a path that found something in use finds it afterwards
(`ViewsPruned`).  `NamedOnce` had to say that no directory has a name twice:
without it a removal may uncover a second file under the name removed.  And
`TypeOK` says that no entry with a name stands for the root, for a repair would
drop such an entry, and with it the paths that lead through it.

`DesktopProofs` proves for every number of windows (and as many applications),
every bound on waiting lines and every set of commands, with interrupts between
any two steps of the main loop:

| Theorem | Statement |
|---|---|
| `DesktopInvariant` | `Spec => []IInv` |
| `TypeCorrect` | `Spec => []TypeOK` |
| `CountRight`, `NoneUnseen` | `Spec => []WindowsCounted` and `Spec => []NoApplicationUnseen`, which except what `upset` records |

Assumptions (`DesktopAssumption`): room for the two windows of the boot, a count
that can hold the number of windows, and `wmclose` is given the number of a window
that the table could hold, which the shell checks (9262).

The argument.  Both properties speak of the loop at rest, and the main loop opens
a window in eight steps and closes one in six or more, between which neither holds.  The
invariant has three relations between the desktop and the loop's position, one for
each thing an interrupt can strike: `CountGood`, by which the count misses a window
claimed and not yet counted and still has one that is shut, and the number the loop
has read is the count's; `FocusGood`; and `AppsGood`, by which an application without
a terminal is the one whose terminal the loop is opening, or closing, and the
window in hand is as far as that place says.  Each is demanded only while `upset`
does not have it, so the proof has two halves.  Every step of the loop keeps each
relation by itself.  An interrupt, whatever the place of the loop, is a calm change
of the desktop, which none of them notices, followed by at most one closing or
opening of a window: if that changes nothing the loop has in hand, the relation
stays, and otherwise `Endangered` has recorded it.  The types hold without
exception: no interleaving leads out of a table, and a count that has drifted wraps
within its word.  The count is right because it is a cardinality of the windows
(`Counting`, `OneMore`, `OneLess`).  One more conjunct is needed: only an open
window is a terminal (`term`), so that a claimed slot does not route keys before it
is filled.

Model-checked only: liveness, which is out of the provers' reach.  Every
safety invariant and every action property of a passing run is also a theorem,
those of the task pages and the lost frames without the program loaders.

## 5. What is not modelled

* RAMFS, reading through a descriptor (changes nothing but the offset), more
  than one descriptor, paths as strings and the cwd, the line editor and history.
* In Volume: the 16-character limit of names, sizes in bytes, extents beyond the
  data area (a corrupt image) and sector reads that fail in the midst of a
  command: they leave what a failed write before them leaves.
* The boot self-tests of allocator and paging, the alias mappings, framebuffer
  mapping; header parsing, relocation and copying in the loaders; the bump
  allocation inside the kernel heap.
* In Desktop: dragging, `wmon`/`wmoff`, and the byte rings: their limits, and a key
  that drops the oldest byte (267) while the application pops it.  An
  application's `ls` reads the disk but changes no state of the desktop.
* Memory maps with a usable entry at the top of 4 GB, where the room test wraps
  (6938); the loaders in `address_spaces` (they are in `address_spaces_loading`).
* The task commands run from the desktop's main loop, where the timer may
  interrupt them (`user_test_prepare_pid` swaps the current slot there).
* Port I/O, drawing, logging and the build.

## 6. What the code does differently from its comments and documents

Checked by a violation run each:

* `fault_cascade` — the handler of a user fault ends the current slot and
  returns to the faulting instruction (10516); the next slot is ended for it.
* `task_handoff` — `taskwait` in frame-restore mode (9580) blocks the current slot
  and moves to the next without a frame: the program interrupted by the key goes on
  as the next slot's.  `procset` (9447), `taskstop` (9693) and `taskteardown` (7814)
  do the same.
* `desktop_torn` — the pending line is copied with interrupts on (11139).
* `volume_repair` — `diskfs_repair` computes the expected bitmap (4049) and
  drops it; what it flushes as "rebuilt bitmap" (4116) is the old one, and the
  volume is marked clean.

Seen while modelling, described here but not run:

* `process_unmap_user_pages` (4895) frees a private directory whose owner is
  PAGING_STRUCTURE; `free_page` refuses, the address is forgotten: every
  taskspawn costs a frame;
* Enter in a terminal without an application replaces a line that the main loop has
  not taken yet (10640): the first is never executed;
* an interrupt that closes the window the loop is opening for an application
  (11097), or the one it is closing, leaves the application running without a
  terminal, in a slot that is never freed;
* `wm_window_count` is read at the room test (5966) and written later (5986) while
  the mouse interrupt may close or open a window, and `wm_close_window` tests and
  clears the window in two steps (6026): the count drifts, and with it the limit on
  openings;
* `wmopenterm` stores the window index as content (9222); the key handler
  (10633) reads it as an application number;
* an MBFS write in the root directory does not clear the clean flag (2805),
  `diskfmt` writes a clean superblock before the tables (2957), and `diskumount`
  marks the volume clean whatever happened before (3106);
* after a power failure between inode table and bitmap, sectors of a file are
  free in the bitmap; the next write takes them, and repair does not help;
* a rewrite that finds no room has freed the old sectors in memory only (2814,
  3794): until the next mount they belong to the file on the disk and are free
  in memory;
* a root write over the name of a directory makes it a file (2737) and orphans
  what it held;
* a mount that fails half-way leaves the tables it has read, and descriptors do
  not ask whether the volume is mounted (4471); a descriptor also outlives the
  file, and then writes into whatever has its inode; beyond the end of a file
  that was cut shorter it exposes what its sectors held before;
* `mbfs_flush_inodes` enables interrupts (2583), also inside the keyboard
  interrupt that runs the command;
* directory entries of the global directory never get the user bit (7398), so a
  prepared context faults at its first instruction;
* `trimid` removes identity tables that `paging_get_table` still writes through
  (7604);
* a malformed MBAPP leaves a private directory (5358) that maps no low memory;
  switching to that slot (1737) faults;
* a loader that fails after its unmap leaves `user_ready` set (5093); loading a
  slot whose heap pages are in the global directory hides them behind its new
  directory (4872);
* images with the same base share pages between slots, and a base inside the
  identity map takes that mapping's frames (4831); `mapusertest` may overwrite an
  image page and lose its frame (7442);
* a sleep whose deadline is 0 after the wrap never ends (10351); without restore
  mode the program of a sleeping slot runs on (10354); `tasksleep` in restore
  mode leaves the keyboard without an end-of-interrupt (10776);
* a snapshot seeded for the current slot is overwritten by the next timer
  interrupt (10567);
* in a region that ends at the 4 GB top the room test of `alloc_page` wraps
  (6938); `region_walk` keeps the last page unusable.

## 7. Plan

Order: the component whose failure does most harm first.

1. *done* PhysicalAllocator, FrameService ⊑ FrameBroker, with proofs; RegionWalk.
2. *done* AddressSpaces (composes the allocator).
3. *done* Tasks; Desktop.
4. *done* VolumeTables, Volume, with proofs.
5. `Descriptors`: the descriptor tables of two slots over RAMFS and Volume;
   close at exit; a remount with open descriptors.
6. `StdinRing`: the rings of an application refine a bounded queue of lines.
7. Paths as a function against a reference definition; line editor and history.
8. Tasks: commands in the desktop's main loop, interrupted by the timer.
9. *done* Proofs of Desktop, Tasks, RegionWalk, Volume and AddressSpaces.  Left:
   `LostFramesCounted` with the loaders, over the walks of every directory.

Running: `tlc -workers 2 -config MCTasksAll.cfg MCTasks`, and likewise for the
other configurations; `tlapm PhysicalAllocatorLemmas.tla`,
`tlapm FrameServiceProofs.tla`, `tlapm RegionWalkProofs.tla`, `tlapm AddressTrees.tla`,
`tlapm AddressSpacesProofs.tla`, `tlapm TasksProofs.tla`, `tlapm VolumeProofs.tla`
and `tlapm DesktopProofs.tla`.
