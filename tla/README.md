# A TLA+ verification of unemups4

unemups4 runs PlayStation 4 programs on a PC. Guest machine code runs in a
JIT; every system library the guest calls is emulated on the host ("HLE"), and
the command buffers it submits for its GPU are decoded, its shaders recompiled
to SPIR-V, and the draws replayed with Vulkan. Each guest thread is a host
thread, and handlers run on it; one more thread owns the window and the GPU.
The guest is multi-threaded and arbitrary, so the interesting part of the
emulator is what happens when its threads meet in the kernel objects, the
memory manager and the GPU path, and whether the several places that each
know a piece of a format (a layout, a packet, a program) agree.

This directory holds TLA+ models of those parts, the TLC configurations that
check them on small instances, and TLAPS proofs for every instance.

## 1. Inventory

State, operations and correctness of each part. Paths are relative to
`src/crates/`; the last column names the module, `-` where there is none.

| Part | Code | State | Operations | What makes it correct | Module |
|---|---|---|---|---|---|
| Mutexes, condition variables | `kernel/src/sync.rs` | address → host mutex (owner, count, type), address → host condvar; host locks | init, destroy, lock, timedlock, trylock, unlock, wait, timedwait, signal, broadcast | exclusion, recursion counts, no lost wakeup, no sleeper beside a free mutex | `SyncManager`, `GuestMutex` |
| Threads | `kernel/src/thread.rs`, `bridge.rs` | tid → thread (exited, exit value, host handle, detached) | create, start, exit, join, detach | joins return the exit value, and do return | `Threads` |
| TLS keys | `kernel/src/tls.rs` | next key, destructors, slots | create, set, exit sweep | the sweep runs what is due and ends | `TlsKeys` |
| Semaphores | `libs/src/libkernel/sema.rs` | `sem_t` address → semaphore, id → semaphore, permits | init, destroy, wait, timed wait, try, post, create, signal | permits neither lost nor invented; timeouts honoured | `Semaphores` |
| GPU completion | `libs/.../equeue.rs`, `events.rs`, `gnm/src/exec.rs` | events, pending completions, withheld labels, watchdog, grace | register, submit, wait, emit label, watchdog | completions conserved; collectors get no label, pollers get theirs | `GpuCompletion` |
| Handle table | `core/src/kernel.rs` | next id per kind, live set | alloc, free, resolve | a number means one object for ever | `Handles` |
| HLE arena | `core/src/kernel.rs`, `pthread.rs` | cursor, free lists, mutex slots | alloc, free, mutex init and destroy | blocks in use never overlap | `HleArena` |
| Guest memory | `memory/src/vm_backend.rs`, `kernel/src/process.rs`, `mman.rs` | regions, cursor, ranges ever mapped, direct memory | map (anywhere, fixed, file, batch), unmap, reserve, direct allocate, map, release, queries | regions disjoint, queries truthful, bytes live with their mapping | `GuestMemory` |
| GPU resource cache | `gnm/src/cache/`, `free_sink.rs`, `core/src/dirty.rs` | range → id, watches, dirty pages, budget | lookup, fill, upload, evict, free | no draw reads bytes older than its submit | `GpuCache` |
| PM4 executor, draws | `gnm/src/exec.rs`, `derive.rs`, `state.rs`, `shader/gcn.rs`, `gpu/src/backend.rs` | shadow registers, recompiled shaders, pipelines, targets, passes | draw with every deferral, list replay, present | a frame shows its draws and no other | `DrawExec` |
| Command buffers | `libs/src/libscegnmdriver/`, `gnm/src/pm4/` | arena dwords, packet cursor | every builder, the decoder's walk | the walk runs what was built | `CommandBuffer` |
| Surfaces and tiling | `core/src/tiling.rs`, `gnm/src/cache/tile.rs`, `vbuf.rs`, `derive.rs` | texels, layouts | derive, detile, upload, readback | an upload is what the interpreter reads | `Surfaces` |
| Shader binaries | `gnm/src/shader/`, `gcn/src/decoder.rs`, `fetch_*.rs` | code windows | header search, decode, fetch parse, splice | the splice runs what the call would | `ShaderBinary` |
| Recompiler, interpreter | `gcn/src/cfg.rs`, `interp.rs`, `recompile.rs` | graph, wave, emitted module | build, run, emit | the two back ends agree | `GcnCfg`, `GcnInterp`, `GcnRecompile`, `GcnShader` |
| Frame captures | `gnm/src/snapshot.rs`, `core/src/snapshot.rs` | budget, recorder, writer queue | request, arm, record, flush | a capture is one whole frame | `Snapshot` |
| Vulkan backend, display | `gpu/src/` | command channel, fences, pool, swapchain | flip, list, present, resize | callers answered; nothing reused in flight | `Display` |
| CPU run loop | `cpu/src/exec.rs`, `kernel/src/thread.rs` | guest contexts, nested calls | run, call_guest, exit, once | nested calls leave the outer frame alone | `GuestExec` |
| Loader, linker | `loader/src/linker.rs`, `manager.rs`, `kernel/src/process.rs` | modules, symbols, slots, starts | boot, load at run time | imports bound, leaves start first | `Loader` |
| Containers, images | `loader/src/container.rs`, `image.rs`, `dynamic.rs` | file cells | extract, parse, place | the ELF taken out is the one put in | `Image` |
| Files, save data | `kernel/src/fs.rs`, `libs/.../fs.rs`, `libscesavedata` | descriptors, mounts, host tree | open, read, seek, close, mkdir, rename, mount, ... | a path keeps its meaning, saves stay apart | `FileSystem` |
| Guest clock | `core/src/clock.rs` | four atomics | read, advance | monotone and never ahead | `Clock` |
| Audio output | `libs/src/libscaudioout/` | ports, ring | open, output, callback | channels stay aligned | `AudioOut` |
| Offline services | `libs/src/libscenp.rs`, `libsceoffline.rs`, ... | login queue | sessions of calls | no title is left polling | `Offline` |
| Codecs, NGS2, media stubs | `libs/src/` | | fixed answers | | - |
| Dispatch, macros | `syscalls/`, `macros/` | generated tables | | | - |
| Diagnostics | `cpu/src/profile.rs`, ... | none the guest sees | | | - |

Interaction: handlers of `libs` call the `KernelInterface` (`core/src/kernel.rs`)
which `kernel/src/bridge.rs` forwards to `Process`; `Process` owns the sync,
thread, TLS, memory and file managers. Submits run the executor synchronously
on the guest's thread under the driver lock, ship a command list to the
display thread and wait for its answer; completion flows back through
`equeue.rs` and through labels in guest memory. Unmapping memory notifies the
GPU cache.

The hard behaviours: interleavings between an `Arc` lookup and the use of the
object; release-then-block in condition waits; timeouts against late answers
(semaphores, timed locks, the label grace, GPU fences); lock-free counters and
anchors; a watchdog that acts on entries taken out earlier; dirty bits drained
before the read they stand for; memory reused while the GPU or a cache still
knows the old owner; arenas with last frame's packets in them; nested guest
calls on one stack; dependency cycles; a path resolved under a lock and used
after it. `PROJECT.json` lists each as a hazard at its line with the property
that would catch it.

## 2. Modules

One module per part, as in the table. `GuestMutex` is an abstract
specification: the recursive mutex a careful guest is promised, with an owner
that may suspend itself on a condition variable; `SyncManager` is shown to
implement it (`Abs == INSTANCE GuestMutex WITH ...`). `GcnRecompile` extends
`GcnInterp` and `GcnInterp` extends `GcnCfg`, as the Rust modules use each
other; `GcnShader` runs both back ends on one program.

| MC module | Composes |
|---|---|
| `MCSyncManager` | `SyncManager`, with symmetry |
| `MCCompletion` | `GpuCompletion`, `SyncManager`, under fairness |
| `MCWaits` | `Semaphores`, `Display` |
| `MCGpu` | `GpuCache`, `DrawExec`, `Snapshot`, `CommandBuffer`, `Surfaces`, `ShaderBinary` |
| `MCGcnShader`, `MCSystem` | the program sets; `Handles`, `HleArena`, `TlsKeys`, `GuestMemory`, `GcnShader` |
| `MCLoader`, `MCHost` | the module graphs; `GuestExec`, `Clock`, `AudioOut`, `Loader`, `Image`, `FileSystem`, `Offline` |
| `MCHleArena`, `MCGpuCache` | `HleArena` and `GpuCache` alone |

`Threads` is run as it is. Theorems are in eight modules of their own, one for
each part or group of parts that share a kind of argument: `SyncManagerProofs`,
`ThreadsProofs`, `SemaphoresProofs`, `GpuProofs` (completion, resource cache
and its channel, draws), `KernelTablesProofs` (keys, arena, handles),
`DisplayProofs` (display thread, surfaces, command buffers, captures),
`MemoryProofs` (address space, images) and `HostProofs` (guest execution,
clock, audio, offline services, loader); section 4 says what they prove.

An MC module of several parts has a variable `part`, chosen in the initial
state: a behaviour moves that part and leaves the others where they began.
The parts grouped so share no state, so every state of each is reached without
their product; fairness conditions carry `part = ...` for the same reason.

Correspondence. A variable carries the name of the field it models (`mutexes`,
`owner`, `next_off`, ...); program counters and locals of a handler are
variables of their own, and ghost variables (what a thread believes it holds,
what was issued, permits due, versions of memory) are marked in the
declarations. An action is the code between two points at which another thread
can look: what happens under one lock is one step; a wait on a `Condvar` gives
the lock up and is two. A `Condvar` is the set of threads parked on it:
notifications move them, and spurious wakeups are actions. Timeouts may fire
at any moment after the wait began. Relaxed atomics are modelled as
sequentially consistent.

`SyncManager`: the host `state` lock is a step, except in `cond_wait`, which
holds it while it takes the condvar's `wait_lock` (`cond_gate`), and
`mutex_init`, which holds the map's write lock while it takes `state`
(`init_state`). `rwlock_*` are the mutex calls. `CarefulGuest` says whether
the guest keeps to POSIX's rule for destroying objects.

`Threads`: `execute` is split at the store of the host handle, the store of
value and flag under `exit_mu`, the notification, and the reaping of a
detached thread; `join_thread` at its first look at the flag, the wait, the
value, and the host join.

`GpuCompletion`: one executor (the driver lock), one watchdog, any number of
waiting threads. The decision to write a label is two reads, flag then clock;
entries are drained under the lock and written after it.

`GuestMemory`: addresses count units and a page has two, so that partial pages
occur; of the bytes in a unit the model keeps whether they are all zero, and a
file's bytes are taken not to be. Every call runs under the memory write lock
and is one step; a batch is one such step per entry.

`GpuCache`: memory is a version per cell, a GPU resource the versions it was
uploaded with, so "fresh" is a comparison of numbers. A fill is two steps, and
`RacyFill` says whether the guest may store into a range during one.

`DrawExec`: registers are the shader, target and texture a draw reads; a fault
is a check of `setup_draw` that guest data fails, and what the executor had
put in the list by then stays there. The backend's replay is an operator over
the list, the frame a sequence of draw identities. Recompiled shaders are kept
by what the header says of the code (`hash`), not by its address, as
`ShaderCacheKey` has it: two addresses may share an entry. A hit watches
nothing; a miss is two steps, the read (`ReadCode`) and, once it is recompiled,
the watch and the entry (`InsertShader`), and `RacyCode` says whether the guest
may store into the code between them.

`CommandBuffer`: a dword is what the walk could take it for, so a slot that is
not written holds an old frame's header or body.

`Surfaces`, `ShaderBinary`, `Image`: pure functions of the code over enumerated
inputs, with a reference beside them (the interpreter's addressing; running
the call; the ELF itself).

`GcnInterp` and `GcnRecompile`: one instruction of each class (moves, adds,
compares, lane masks, branches, loads, buffer fetches, samples, exports,
interpolation, discards) on two-bit words. A module is a set of labelled
blocks, and an invocation executes it for one lane.

`Display`: one guest thread renders into two buffers in turn and flips; every
thread may ship lists. The loop's arms are the arms of `display.rs`; the GPU
ends what it was given in its own time, or hangs.

`GuestExec`: a stack is a row of cells; each level of the drive loop keeps the
cells it still counts on. `Loader`: a module is its file, its exports and the
slot bindings; a load is a walk, mappings, relocations, then its target.
`FileSystem`: a call on a path is two steps, resolution under the mount lock
and the host call after it; a name is a word and a case.
`Offline`: a library is what its calls of each phase may answer, a table whose
rows are single lines because no answer depends on an earlier call; the title is any
sequence of calls, and goes round a loop as often as the answers tell it to.
The parts with state or conditions are written out: `get_locus`, which ends a
title's enumeration of its PlayGo chunks, and the queue of the user service.

## 3. Runs

| Run | Bounds | Shows |
|---|---|---|
| `sync_safety` | 3 threads, 1 mutex address with 2 host objects, 1 condvar, depth 2 | `NobodyParkedOnFree`, `BeliefMatchesState`, `NoLostWakeup`, and that the code implements `GuestMutex` |
| `threads` | 3 tids, 1 exit value | `JoinReturnsExitValue`, `JoinCompletes` |
| `waits` | 3 threads, 1 `sem_t` or 1 SCE semaphore, 2 host semaphores, needs of 1 and 2; 2 callers, 2 buffers, 3 calls, 1 timeout, 1 lost swapchain, 1 redraw, 1 resize | `NobodyParkedWithPermit`, `PermitsAccounted`, `TimedWaitReturns`; `NoTornScanout`, `NothingReusedInFlight`, `BlockedCallReturns` |
| `completion` | 2 waiters, 1 queue, 2 labels, 2 packets, 1 completion, 2 watchdog rounds; 2 threads on 1 mutex and 1 condvar | `CollectorNeverLabelled`, `CompletionsConserved`, `WithheldLabelFlushed`; `WokenWaiterProceeds` |
| `gpu` | 4 cells on 2 pages, 4 ranges, a budget of 2, 3 ids; 2 draws, 2 lists, 1 hang, every fault; 2 shader addresses, 3 binaries two of which share a header, 1 store; 3 flips of captures, 2 at most pending; an arena of 8 dwords, 3 builder calls; extents 1, 3, 5 with tiles of 2; code with and without a fetch call | `DrawReadsFresh`, `BackendMirrorsCache`; `FrameIsItsDraws`, `ResolvedShaderIsCurrent`; `CaptureRebuildsFrame`; `WalkRunsWhatWasBuilt`; `UploadIsWhatTheOracleReads`; `SpliceRunsTheSame` |
| `system` | 2 kinds of 3 ids; 2 callers, 2 slots, 6 units of arena; 2 threads, 2 keys, 2 rounds; 7 pages with a window of 2; the programs of `MCGcnShader` on 2 lanes | `TagTellsKind`, `FreedStaysDead`; `HeldDisjoint`; `ExitRunsEveryDestructor`; `QueriesTellTheTruth`, `BytesLiveWithTheirMapping`; `OracleAgrees` |
| `host` | 2 guest threads, 12 stack cells, 3 levels; 2 readers, 2 reads, 2 flips; 2 audio threads, rates with and without resampling, a ring of 6; 2 loads over graphs with cycles, missing, broken and unmappable files; 2 images; 2 file threads, 2 calls, or 4 of the save-data calls over 5 mounts; 2 title threads, PlayGo with 1 chunk and ids that wrap at 4, batches of 2, 3 rounds | `FramesSurvive`, `ExitUnwinds`; `ReadsKeepPace`; `StereoAligned`; `ImportsBound`, `DepsStartFirst`; `RebuiltIsTheElf`; `SavesApart`; `LoopsEnd` |
| `completion_stale`, `arena_double`, `cache_unwatch`, `memory_batch`, `loader_twice` | small | disagreements, section 6 |

Why the bounds are enough to be interesting. Three threads are an owner, a
waiter and an interferer; two host objects per address allow an old and a new
incarnation; depth 2 tells a recursive lock from a plain one. The semaphore calls of
`waits` ask for two permits or for a number below the least, which the code
raises to one, so waiters for different numbers meet. Two calls of one thread and one
of another are enough for a flip to overtake a list, and one timeout and one
lost swapchain may fall on any of them. The cache's budget is less
than what its buffers hold together, so evictions happen; two ranges share
their cells, and every page is shared. Two draws over two lists make a target that is rendered and then sampled, or
rendered again, across a list boundary. Two binaries with one header are code
and its patched form, at one address or as copies at two. PlayGo's one chunk
leaves an id to be answered and one to be refused, alone or in one batch, and a
round to spare before the ids wrap. The arena of dwords is
used again for a second frame, over what the first one left.
Extents of 1, 3 and 5 are below, across and beyond a tile and the pitch
alignment. The arena of `system` fills up, the ids run out, and destructors
that store values again outlast the rounds of the sweep; the memory arena has room for one region on each side
of the window, and unmaps at 1, 4, 5 and 12 hit the hlt page, a whole region,
part of one, and the window. Three levels of `host` are a call within a
call within the thread's own; the ring is shorter than what two ports can push.

Bounds that are not the code's have names beginning with `Max` or ending in
`Bound`; the code's own limits keep its names and are smaller here
(`RING_CAP`, `MAX_PENDING`, `DTOR_ITERS`, `LOOP_ITER_CAP`, `CHUNK`, `Checks`,
20 in the code, and `GraceChecks`, 4).

Deadlock is checked except where the bounds use themselves up (`gpu`,
`system`, `host`, `loader_twice`: ids, calls, draws and time run out). `threads`
may stop too: a thread that joins itself waits for ever, as the code has it. In
`waits` the stop of a guest that has made all its calls to the display thread
is an explicit `Stopped` step, so that a deadlock elsewhere is still seen.

Fairness. The steps a host thread takes inside a call are fair, which the host
scheduler gives; never the guest's decision to make a call. Weak fairness is
asked except of the steps of `SyncManager`: a step that waits for a host lock
is enabled only while the lock is free, other threads may take it again and
again, and the host's locks are eventually fair, so strong fairness stands for
them. The display thread's loop and the GPU's progress are weakly fair (a GPU
that hangs is a step of its own, bounded by `MaxTimeouts`). Time passes
(`GraceElapses`, `Expire`). Nothing is assumed of spurious wakeups.

What the properties say and leave out is part of their statement:

* `DrawReadsFresh` is checked with `RacyFill = FALSE`: a guest that stores into
  a range while a submit that reads it is being made races with real hardware
  too; and the instance's guest unmaps watched resources whole (`WholeUnmaps`
  of `GpuProofs`), because `cache_unwatch` shows what happens otherwise;
* `NoTornScanout` excepts flips answered for a minimised window, and
  `BlockedCallReturns` a present that finds no swapchain image, which leaves
  its flip pending until a redraw finds one; no list waits for that, and when
  images can be had again the next redraw does answer the flip;
* `NothingReusedInFlight`: a list given up as hung keeps its own objects, not
  the buffers it reads (section 6);
* `ResolvedShaderIsCurrent` speaks of headers whose copies all agree, with
  `RacyCode = FALSE`: without either exception it is violated (section 6);
* `OracleAgrees` speaks of programs in the subset both back ends accept and
  that do not read a VCC left constant; `SpliceRunsTheSame` of programs without
  a branch over the call; `WalkRunsWhatWasBuilt` of frames
  whose slots were written in full and whose shaders were not rebound outside
  the buffer;
* `GuestMemory` assumes that the guest keeps its MAP_FIXED requests out of the
  direct memory window and maps only what it allocated there.

## 4. Proofs

Each theorem holds for every value of the constants that satisfies the named
`ASSUME`s of its module (sizes are naturals, the page divides the window, model
values that stand for "none" are none of the others); TLC evaluates them in
the runs. A hypothesis about the guest (`CarefulGuest`, `Careful`) is part of
the theorem's statement. Invariance theorems (`Invariance`, `TlsInvariance`,
...) state the inductive invariant named below. The proofs have one lemma per
action.

What a list, a walk or a recording computes is written as a recursive function
over its length (`Replayed`, `Walked`, `Recorded`, `Rebuilt`, `DrawsAmong`). The
proofs about them go by induction in set form: a set of numbers that is not
empty has a least one (`LeastNumber`, from the library's `WFMin`), so a set that
holds 0 and with n its successor holds them all (`Induction`). Each function is
first shown to exist for every length, which is what gives its defining equation.

**`SyncManagerProofs`.** For careful and careless guests alike: `TypeCorrect`,
`NoSleepOnFree` (`NobodyParkedOnFree`) and `NoWakeupLost` (`NoLostWakeup`). The
inductive invariant is `TypeOK /\ Locals /\ OwnerCounted /\
NobodyParkedOnFree`. An unlock frees the mutex when the count falls from one
to zero, and notifies in that branch: one needs that an owned mutex has a
positive count and a free one zero (`OwnerCounted`). A thread that takes the
mutex back after a wait restores the count it saved: one needs that the saved
count is not zero, and that a thread inside a call holds the `Arc` the call
works on (`Locals`). `NoLostWakeup` is a fact about one step from that
invariant: what ends a signal is the notification under `wait_lock`, and a
waiter between release and wait holds that lock, so that no notification can
fall into the gap.

For a careful guest: `BeliefsAreTrue` (`BeliefMatchesState`) and `Refinement`
(`Spec => Abs!Spec`, `GuestMutex`). They need `GuestInv` on top: no host object
has two names (`OneName`), a call works on the object its address still stands
for (`CallsCurrent`), a thread about to give its mutex up for a wait owns it at
the depth it saved (`Gated`), that depth stays on deposit during the wait
(`Deposited`), and the owner of a mutex knows its depth (`OwnerKnows`). Every action is then shown to
be a step of the abstract mutex or to change nothing it sees (`Quiet`).

**`ThreadsProofs`.** `JoinsAreTrue` (`JoinReturnsExitValue`), `NoLostExit`
(nobody sleeps in `join_thread` on a thread that has notified, the safety half
of `JoinCompletes`), `ExitsAreFinal`. The invariant: a tid not given out has
not run (`FreshUnborn`), the thread a creator is about to start is its own
(`SpawnsOwn`), the flag is up exactly on the threads past it and the value was
stored before it (`Published`), and whoever is past the wait of a join has seen
it (`JoinersSaw`).

**`SemaphoresProofs`.** `NoLostPermit` (`NobodyParkedWithPermit`) for any guest
and any numbers of permits; `PermitsAddUp` (`PermitsAccounted`) for a careful
one. A call in progress has a name, an object and permits to ask for
(`CallsHold`); no object has two names (`NamesApart`); for a careful guest the
name still stands for the object (`CallsCurrent`), and names that stand for
nothing have closed books (`Books`).

**`GpuProofs`.** `NothingLost` (`CompletionsConserved`): who has taken
a completion is about to report it, and a compare and exchange is tried only
with a count that is not zero (`QueueOK`); that the exchange compares is what
the proof uses. `NeverLabelled` (`CollectorNeverLabelled`): without eop_sync
nobody is on the way to a write before the grace is over, nor afterwards if the
guest was known to collect by then (`LabelsKept`), which covers the executor
and the watchdog between their looks at the flag and the clock and their
writes.

Of the resource cache, for any keys, page size, budget and bounds:
`SkippedUploadsFresh` (an entry whose hit uploads nothing was uploaded with
bytes no older than those memory held when the submit began: the half of
`DrawReadsFresh` that the cache answers for) and `WatchedHits`
(`OnlyWatchedHitsClean`), from `CacheInvariance`. The invariant says of every
entry (`EntryOK`) that all its pages are watched, and that unless it is dirty
its bytes are memory's, but for pages the tracker has as written; of a fill
under way that it has memory's bytes or counts as dirty (`FillOK`), which is
what orders the read and the watch of a fill; that a submit asks for no more
than there is (`FloorBelow`); and that ids are minted once (`IdsApart`). All
layouts that share a page keep each other's watch alive, and an eviction
gives none up. Only `free_range` does, and the step that failed to prove was
that one: the theorems take `WholeUnmaps` (an unmap that touches a watched
resource takes all of its pages) as a hypothesis, and `cache_unwatch` is the
counterexample without it. `SkippedUploadsFresh` also takes `~RacyFill`.

The other half is the channel. `DrawsFresh` (`DrawReadsFresh`) and
`BackendMirror` (`BackendMirrorsCache`) follow from `DeliveryInv`: wherever the
submit's list is, under construction or in the channel, it and the backend
together are `Consistent` with the cache. Every resource an entry names is in
the backend or is created by the list before anything uses it, its newest bytes
are the backend's or the last upload's of it, a draw in the list comes after
bytes as new as its submit asks for, ids are not created twice, and nothing is
alive that no entry, list or free under way accounts for. The frees an unmap
sends from another thread may reach the display thread before or after the
list; both are fine because the ids are apart. That a replay keeps this is shown
command by command (`Ran`). `buffer_bytes` is the sum of the linear buffers'
sizes whatever order the fold takes, by induction on the number of entries.

Of the recompiled shaders: `ShadersCurrent` (`ResolvedShaderIsCurrent`), for any
shaders, binaries, targets and bounds, and a guest that leaves code alone while
it is recompiled (`~RacyCode`). An entry is found by its header, so neither the
address nor an unchanged header makes a hit right. What does: the code an entry
was read from is watched, and differs from it only while it is in the dirty set
(`EntriesCurrent`); a submit drops those entries before it empties the set; a
recompile under way has read what is still there when the watch begins
(`ReadingCurrent`). Where all copies under a header agree, the entry is then
right for each of them.

Of the draws: `FrameShown` (`FrameIsItsDraws`), for lists of any length. The walk
of a list parts it into passes and the recording runs them; after any number of
passes the image shows what was finished before and what this list drew, all of
this frame, and a frame whose clear is not through has nothing finished
(`PassesShown`, `FrameInv`). When the fence of a list times out, the latch that says
the clear is done is taken back if this list was the one that set it; the
invariant is inductive because nothing was finished by then.

**`KernelTablesProofs`.** `EveryDestructorRuns` (`ExitRunsEveryDestructor`): a
key's number is drawn once (`KeysDrawnOnce`), its entry is never overwritten
(`EntriesStand`), and what a thread had when it began to leave is still to run
or has run (`SweepKeeps`); and a sweep that ends before its last round found
nothing with a destructor in the slots (`SweptClean`). `NoOverlap` (`HeldDisjoint`), for a careful guest:
blocks held and blocks free are all apart (`AllApart`), below the cursor
(`BelowCursor`), and a slot's block is the slot's (`SlotsOwn`); `arena_double`
shows why the hypothesis is needed. `TagsTell`, `ResolveSound`, `FreedForEver`:
ids issued are below the next one (`Below`) and live handles were issued
(`LiveIssued`); the arithmetic of tag and id is in `TagAndIdUnique`.

**`DisplayProofs`.** `NoTorn` (`NoTornScanout`) and `NotReused`
(`NothingReusedInFlight`). A blocked call is in exactly one place: the channel
(`InChannel`), the walk of a list (`ListInWalk`) or the pending vsync
(`InVsync`). From that follow which display buffer is current at every stage of
a flip (`CurrentFollows`), that the present before is over (`PresentsOver`), and
that the display thread waits for one list at a time (`OneWaited`).

`UploadsRead` (`UploadIsWhatTheOracleReads`), for any extents and pitches and
micro tiles of any side: in each tiling an upload can have, the span of the
descriptor is the size of the layout, and the layout's address of a texel is the
interpreter's (`LayoutAgrees`). `SurfaceAssumption` asks that a tile and the
alignment of a pitch are not zero.

`WalkRuns` (`WalkRunsWhatWasBuilt`), for an arena of any length and any slots.
The draws a guest built are only implicit in its dwords: the invariant says that
the arena up to the cursor can be parted into packets, with the number of draws
and the registers at the start of each, that the walk is always at such a start,
and that the registers at the cursor are those the guest plans with (`Parted`,
`Laid`, `CleanFrame`). A builder adds a packet, or one and the NOP that fills its
slot, at the end, and what an earlier frame left behind the cursor does not
matter. `CommandBufferAssumption` asks that the longest NOP is longer than a
header.

`CapturesRebuild` (`CaptureRebuildsFrame`): what a recorder has and what its frame
did are related event by event (`Records`), for the armed recorder and the frame
that runs and for every capture and the frame it is labelled with. A recorder is
armed only while a frame runs, as a flush is under way only between two frames,
because its token is the last thing in the writer's queue (`TokenLast`). That
deltas add up is `ApplyDelta`.

**`MemoryProofs`.** `RegionsApart` (`RegionsDisjoint`) and `BytesLive`
(`BytesLiveWithTheirMapping`). Outside the direct memory window a range is used
again after an unmap, and a fresh mapping reads as zeroes because every unit
with a byte in it was mapped before and is cleared (`OnceMapped`); inside it
nothing is unmapped, so what was once mapped stays tracked (`WindowKept`) and a
new mapping is clear of it. The hlt page is kept (`GadgetKept`), and what the
guest holds is tracked (`HeldTracked`). The assumption that the guest keeps
MAP_FIXED out of the window is `InputAssumption`.

`QueriesTrue` (`QueriesTellTheTruth`) follows from the same invariant. A walk with
find_next sees at each address the first region that ends above it, and after it
the rest; a ranged access goes on from region to region exactly while units are
tracked. For direct memory the theorem takes `WholeAligns`, that the guest's
alignments are whole pages: the code does not check them, and with another one
memory reported as available may not be there to reserve, since the length of a
reservation is rounded up to pages. `MCSystem` has TLC evaluate the hypothesis.

`RebuiltElf` (`RebuiltIsTheElf`), for any program headers and segment tables with
unsigned offsets and sizes (`FileAssumption`): every cell written gets what the
ELF has there, so a later segment spoils no earlier one (`CopiedSoFar`), and a
copy finds room because the output is as long as the largest end of a header.

**`HostProofs`.** `FramesKept` (`FramesSurvive`) and `ExitsUnwind`
(`ExitUnwinds`): a level keeps between its base and the end of its red zone,
and begins below the red zones of all that wait for it. The stack pointer a
nested call starts from is that of the thread's last syscall, which after an
earlier nested call is not the waiting level's own; it is only not above it,
and that is enough (`StackOK`). An exit asked for stays asked for while a level
is left (`ExitStands`). `ClockKeepsPace` (`ReadsKeepPace`): every pair of
anchors a read or a flip can have loaded, torn between two stores too, is in
pace (`InPace`), and a read about to publish is above what it loaded by the
floor (`Floored`). `LeftStaysLeft` (`StereoAligned`): the ring has whole
frames only (`Stereo`), which is why its capacity must be even; the proof is
about what append, trim and drain do to odd and even places. `TitleLoopsEnd`
(`LoopsEnd`), for any number of chunks and ids and batches of any size: no
library answers "again", and an enumeration has gone round at most once for
each chunk it was answered for, its next id not past their number, because one
id beyond the table refuses a whole batch (`RoundsFew` in `SessionsInv`); the
login event is not yet queued, queued, or with one title, and before it was
handed out nobody was told there is none (`LoginOnce`).

Of the loader, for any files, threads and graph of needs, with its cycles,
diamonds, aliases and files that do not parse or fit: `ImportsAreBound`
(`ImportsBound`) and `LeavesStartFirst` (`DepsStartFirst`). For the first,
whatever is relocated while a set is walked or mapped belongs to an earlier
load (`RelocatedBefore`), so no slot was bound before the modules it may be
bound to. The second is an argument about a depth-first walk that looks up
names and files in one set of words. Each word in that set leads to a file that
is settled: barred (without a file, not parsing, or mapped by an earlier load),
left, or on the stack (`SeenSettled`). No file is entered twice (`EnteredOnce`);
a frame leads to all frames above it (`StackLeads`). Of a file on the stack
every need is still to come, settled so that the order does not matter, or the
file of a frame above (`FramesDone`); of a file that was left every need is
barred, was left before, or leads back (`SetDone`). After the walk the files
wait in three lines, to be mapped, to be relocated, to be started, which keep
that order while a head moves up or drops out (`LinesInOrder`), and the target
comes last, which leads to them all. These parts are stated of values (a
stack, a set, the words seen), so that a step of the walk is a fact about
sequences (`PassedOver`, `EntersFile`, `LeavesFile`). The hypothesis `NamesTell`
says that the name in a guest path leads, as a library, to the file the path
leads to or to none. The walk needs it because a run-time load counts its own
name as seen; a title with two files of one name may have a module started
before another it needs. `MCLoader` has TLC evaluate the hypothesis.

## 5. What is only model-checked, and why

Liveness (`WokenWaiterProceeds`, `JoinCompletes`, `TimedWaitReturns`,
`BlockedCallReturns`, `WithheldLabelFlushed`) rests on fairness, which is
outside the prover; `NoSleepOnFree`, `NoLostExit` and `NoLostPermit` are the
safety facts the first three rest on. `OracleAgrees` compares two back ends
on a program: its proof would be an induction over control flow graphs, which
those sets of programs sample and no theorem covers. `SpliceRunsTheSame`
compares the paths through two streams of code, one of them put together with
the sequence folds of the library, about which there are no usable theorems.
`SavesApart` reads the mount table with the filters and searches of the sequence
library, for which the same holds; its proof is in the plan.

## 6. Disagreements between code and text

* `completion_stale`: the watchdog takes the withheld labels out under the
  lock and writes them after it; a newer value the executor writes in between
  is overwritten by the older one.
* `arena_double`: `scePthreadMutexDestroy` frees the object before it clears
  the slot; with two threads destroying one mutex the block is freed again
  after it was handed out, although `hle_free`'s comment says that a double
  free must not corrupt the list.
* `cache_unwatch`: `free_range` unwatches the whole range of every entry that
  overlaps the unmapped one, also the pages that stay mapped; an entry that
  shares such a page stays cached and clean, and is served without an upload
  although nothing reports stores to it. The doc of `get` says only a watched
  entry can be. `DrawReadsFresh` is false on the same instance: the guest
  draws with old bytes.
* `memory_batch`: `batch_map_impl` takes offset 0 for "no direct memory" and
  commits anonymous memory instead, although the first direct allocation has
  offset 0 and the comment says that batch and single calls cannot drift.
* `loader_twice`: `load_start_module` never adds its target to
  `loaded_module_paths`, so a later walk maps the same file again, at a second
  base and with a second `module_start`.

Seen while modelling, without a run of their own:

* `sceKernelReserveVirtualRange` and `sceKernelMapFlexibleMemory` say they
  honour the requested base (`mman.rs:234`, `410`); they pass no MAP_FIXED, and
  `mmap_aligned` then ignores it (`process.rs:803`);
* the pipeline cache's shader hash is the shader's address (`derive.rs:507`):
  new code loaded at the same address finds the old pipeline;
* of two copies of a shader binary one is patched in place, under the header it
  had: it is served what was recompiled from the other, although the doc of
  `drain_dirty` says that self-modifying code is picked up (`gcn.rs:121`). TLC
  finds it as a violation of `ResolvedShaderIsCurrent` without `Agree`;
* a store between `resolve_gcn`'s read of the code (`gcn.rs:216`) and its watch
  (`298`) reaches no later draw (the same property, with `RacyCode = TRUE`); the words of a fetch shader are neither part of
  the key nor watched;
* after the wait for a list ran out (`backend.rs:1600`), the next list recycles the
  buffers it freed, although the comment says that no submit reading them is
  outstanding (`484`). TLC finds it as a violation of `NothingReusedInFlight`
  without the exception for hung lists;
* a present that cannot acquire an image leaves its flip unanswered until a
  later redraw (`backend.rs:2193`);
* a file that is created, or truncated, under a name that exists only in a later
  mount is the later mount's: the repository notes it as a limitation
  (`fs.rs:214`), and the model has it;
* an indexed draw with a null index buffer gives up after its render target was
  registered (`exec.rs:441`, `509`), which then counts as rendered;
* `free_resource` (`backend.rs:1769`) drops buffers, imports and render targets;
  the image of an uploaded texture is not among them;
* a run-time load whose target cannot be mapped returns before the
  `module_start`s of the dependencies it did map are handed over
  (`process.rs:552`);
* `sceNpWebApiCreateRequest` answers success and leaves the request id
  unwritten (`libscenp.rs:297`);
* the doc of `thread_name_of` says `None` for a tid that has exited, but an
  undetached thread keeps its entry; `signal_gpu_completion` is called
  saturating and wraps (at 2^64); the doc of `release_direct_memory` speaks of
  offsets that can be handed out again, which `allocate` never does; a label
  withheld after the watchdog's last round waits for the next packet to the
  same address.

## 7. Not modelled, and the plan

Left out: instruction semantics of the x86 JIT (an external library) and, of
GCN, the arithmetic of the opcodes beyond one of each class (data, compared by
the repository's differential harness); Vulkan objects and their creation;
DMA_DATA packets and the environment knobs of the executor; block compression
beyond its grid; audio and video codecs, NGS2 and other stubs with fixed
answers; the flag with which a title forbids screenshots; generated syscall tables and macros; profiling and fault reports.

Theorems to come: `FileSystem`, `SavesApart`, with unmounting as a recursive
function over the table instead of `SelectSeq`;
`ShaderBinary`, `SpliceRunsTheSame` with the splice as a recursive function over
the stream.
