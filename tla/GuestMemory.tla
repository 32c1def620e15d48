---------------------------- MODULE GuestMemory ----------------------------
(***************************************************************************)
(* The guest's address space: the region tracker VmMemoryManager of        *)
(* crates/memory/src/vm_backend.rs, and the calls of                       *)
(* crates/kernel/src/process.rs over it (mmap, munmap and the direct       *)
(* memory pool).  The arena is backed by one host mapping, so mapping and  *)
(* unmapping is bookkeeping; what is physical is the zeroing of re-used    *)
(* ranges and the discarding of unmapped pages.  Each call runs under the  *)
(* memory write lock and is one step.                                      *)
(*                                                                         *)
(* Addresses are numbers of units; a range is [start, end).  Of the bytes  *)
(* in a unit the model keeps whether they are all zero.                    *)
(***************************************************************************)
EXTENDS Integers, FiniteSets

CONSTANTS
    GuestBase, ArenaEnd,  \* GuestVm::guest_base() and span()
    Page,                 \* units of a page (0x1000 bytes)
    Placement,            \* granularity of "allocate anywhere" (0x4000)
    GadgetAddr,           \* the page with the hlt instruction
    HeapBase,             \* where "allocate anywhere" begins (0x4_0000_0000)
    PoolBase, PoolSize,   \* the direct memory window
    Sizes, Aligns,        \* lengths and alignments the guest asks for
    DirectSizes,          \* lengths it asks for of direct memory
    FixedAddrs,           \* addresses it maps with MAP_FIXED or as a hint
    UnmapAddrs,           \* addresses it unmaps
    BatchLen              \* bound: entries of a sceKernelBatchMap

PoolEnd == PoolBase + PoolSize

ASSUME ArenaAssumption ==
    /\ {GuestBase, ArenaEnd, HeapBase, PoolBase, PoolSize, GadgetAddr} \subseteq Nat
    /\ Page \in Nat \ {0} /\ Placement \in Nat \ {0}
    /\ 0 < GuestBase /\ GuestBase <= GadgetAddr /\ GadgetAddr + Page <= HeapBase
    /\ HeapBase <= PoolBase /\ PoolEnd <= ArenaEnd
    /\ GadgetAddr % Page = 0 /\ PoolBase % Page = 0 /\ PoolSize % Page = 0
\* The guest keeps its fixed mappings out of the direct memory window.
ASSUME InputAssumption ==
    /\ Sizes \subseteq Nat \ {0} /\ DirectSizes \subseteq Nat \ {0}
    /\ Aligns \subseteq Nat /\ BatchLen \in Nat
    /\ FixedAddrs \subseteq Nat \ {0} /\ UnmapAddrs \subseteq Nat
    /\ \A a \in FixedAddrs, n \in Sizes : a >= PoolEnd \/ a + n <= PoolBase

Units(s, e) == s..(e - 1)
Gadget == Units(GadgetAddr, GadgetAddr + Page)
Arena == Units(GuestBase, ArenaEnd)

MaxOf(a, b) == IF a < b THEN b ELSE a
MinOf(a, b) == IF a < b THEN a ELSE b
RoundUp(a, n) == ((a + n - 1) \div n) * n
RoundDown(a, n) == (a \div n) * n

\* The guest aligns direct memory to whole pages, which no call checks: what is
\* reported as available can be reserved only then.
WholeAligns == \A al \in Aligns : MaxOf(al, Page) % Page = 0

VARIABLES
    allocations,   \* VmMemoryManager.allocations: regions [start, end)
    heap_cursor,   \* VmMemoryManager.heap_cursor
    ever_mapped,   \* VmMemoryManager.ever_mapped, as the units it covers
    dirty,         \* units that hold bytes other than 0
    next_off,      \* DirectMemory.next_off
    reservations,  \* DirectMemory.reservations: <<offset, length>>
    mine,          \* units the guest holds: mapped and not unmapped by it
    direct,        \* units MapDirectMemory gave it, and not unmapped by it
    batch          \* entries a sceKernelBatchMap under way has still to do

memVars  == <<allocations, heap_cursor, ever_mapped, dirty>>
poolVars == <<next_off, reservations>>
memoryVars == <<memVars, poolVars, mine, direct, batch>>

Region(s, e) == [start |-> s, end |-> e]
Tracked(regions) == UNION {Units(v.start, v.end) : v \in regions}

MemoryInit ==
    /\ allocations = {Region(GadgetAddr, GadgetAddr + Page)}
    /\ heap_cursor = HeapBase
    /\ ever_mapped = Gadget
    /\ dirty = Gadget
    /\ next_off = 0 /\ reservations = {}
    /\ mine = {} /\ direct = {} /\ batch = 0

----------------------------------------------------------------------------
(* VmMemoryManager: looking *)

is_memory_free(addr, size) ==
    \A v \in allocations : ~(addr < v.end /\ addr + size > v.start)

\* The last region that starts at or below addr, if addr is in it.
containing_vma(addr) ==
    {v \in allocations :
        /\ v.start <= addr /\ addr < v.end
        /\ \A w \in allocations : w.start <= addr => w.start <= v.start}

\* read_bytes_ranged and write_bytes_ranged walk from region to adjacent
\* region; they refuse the range when the walk meets a gap before its end.
read_bytes_ranged(addr, size) ==
    LET covered[c \in 0..(ArenaEnd + size)] ==
            \/ c >= addr + size
            \/ \E v \in containing_vma(c) : covered[v.end]
    IN  covered[addr]

\* Mutated form: the region that holds addr is not looked for first.
query_above(addr) ==
    {v \in allocations : v.start > addr /\ \A w \in allocations : w.start > addr => v.start <= w.start}

\* query_region with find_next: the region that holds addr, else the next.
query_region(addr) ==
    IF containing_vma(addr) # {} THEN containing_vma(addr)
    ELSE {v \in allocations :
            v.start >= addr /\ \A w \in allocations : w.start >= addr => v.start <= w.start}

----------------------------------------------------------------------------
(* VmMemoryManager: map_aligned *)

OutsidePool(addr, size) == ~(addr < PoolEnd /\ addr + size > PoolBase)

\* The bases the search of find_free_region_aligned accepts; it steps upwards
\* from the cursor, jumping over the window, and so takes the least.
Candidates(size, align) ==
    {a \in heap_cursor..(MaxOf(heap_cursor, ArenaEnd) + align) :
        a % align = 0 /\ OutsidePool(a, size) /\ is_memory_free(a, size)}

FindFree(size, align, a) ==
    /\ a \in Candidates(size, MaxOf(align, Placement))
    /\ \A b \in Candidates(size, MaxOf(align, Placement)) : a <= b

\* The parts of [s, e) that some mapping covered before.
previously_mapped_parts(s, e) == Units(s, e) \cap ever_mapped

\* zero_range on each of them.
Zeroed(a, size) == dirty \ previously_mapped_parts(a, a + size)

\* Zero what may be stale, remember the range as used, track it.
Install(a, size) ==
    /\ dirty' = Zeroed(a, size)
    /\ ever_mapped' = ever_mapped \cup Units(a, a + size)
    /\ allocations' = allocations \cup {Region(a, a + size)}

\* An explicit base must be in the arena and free.
Fits(addr, size) ==
    addr >= GuestBase /\ addr + size <= ArenaEnd /\ is_memory_free(addr, size)

----------------------------------------------------------------------------
(* VmMemoryManager: unmap *)

\* Mutated form: pages at the edges go too.
DiscardedOutward(s, e) == Units(RoundDown(s, Page), RoundUp(e, Page)) \ Gadget

\* madvise on the whole pages of the range, around the gadget page.
Discarded(s, e) == Units(RoundUp(s, Page), RoundDown(e, Page)) \ Gadget

\* Only regions wholly inside the range are dropped, and never the gadget's.
Dropped(s, e) ==
    {v \in allocations : v.start # GadgetAddr /\ v.start >= s /\ v.end <= e}

TouchesPool(s, e) == s < PoolEnd /\ e > PoolBase

\* A range that touches the direct memory window changes nothing at all.
unmap(s, e) ==
    IF TouchesPool(s, e)
    THEN UNCHANGED memVars
    ELSE /\ dirty' = dirty \ Discarded(s, e)
         /\ allocations' = allocations \ Dropped(s, e)
         /\ UNCHANGED <<heap_cursor, ever_mapped>>

----------------------------------------------------------------------------
(* Process: mmap_aligned, munmap *)

\* What is at [a, a + size) once the call is over: zeroes, the bytes of a
\* file, or, if the file cannot be read, nothing (the mapping is undone).
Anonymous(a, size) ==
    /\ Install(a, size)
    /\ mine' = mine \cup Units(a, a + size)
FileBacked(a, size) ==
    /\ dirty' = Zeroed(a, size) \cup Units(a, a + size)
    /\ ever_mapped' = ever_mapped \cup Units(a, a + size)
    /\ allocations' = allocations \cup {Region(a, a + size)}
    /\ mine' = mine \cup Units(a, a + size)
Undone(a, size) ==
    /\ dirty' = Zeroed(a, size) \ Discarded(a, a + size)
    /\ ever_mapped' = ever_mapped \cup Units(a, a + size)
    /\ UNCHANGED <<allocations, mine>>

\* The base is the allocator's choice, and the cursor moves even if the region
\* then turns out not to fit.  (Bound: a cursor beyond the arena stays there.)
Placed(size, align, a) ==
    /\ size <= ArenaEnd - GuestBase /\ heap_cursor <= ArenaEnd
    /\ FindFree(size, align, a)
    /\ heap_cursor' = a + size
    /\ UNCHANGED <<poolVars, direct>>
InArena(a, size) == a + size <= ArenaEnd
NoRoom(a, size) == ~InArena(a, size) /\ UNCHANGED <<allocations, ever_mapped, dirty, mine>>

\* mmap without MAP_FIXED: the address asked for is ignored.
mmap_anon(size, align) ==
    \E a \in Candidates(size, MaxOf(align, Placement)) :
        /\ Placed(size, align, a)
        /\ NoRoom(a, size) \/ (InArena(a, size) /\ Anonymous(a, size))
mmap_file(size) ==
    \E a \in Candidates(size, Placement) :
        /\ Placed(size, 0, a) /\ InArena(a, size)
        /\ FileBacked(a, size) \/ Undone(a, size)

\* sceKernelReserveVirtualRange, sceKernelMapFlexibleMemory and the commit of
\* sceKernelBatchMap pass the base they are asked for, without MAP_FIXED.
reserve_virtual_range(base, size, align) == mmap_anon(size, align)
map_flexible(base, size) == mmap_anon(size, 0)

\* sceKernelMmap: when the result cannot be stored, the mapping is undone.
sce_kernel_mmap(size) ==
    \E a \in Candidates(size, Placement) :
        Placed(size, 0, a) /\ InArena(a, size) /\ (Anonymous(a, size) \/ Undone(a, size))

\* mmap with MAP_FIXED; a taken address is ENOMEM.
mmap_fixed_anon(a, size) ==
    /\ Fits(a, size) /\ Anonymous(a, size)
    /\ UNCHANGED <<heap_cursor, poolVars, direct>>
mmap_fixed_file(a, size) ==
    /\ Fits(a, size) /\ (FileBacked(a, size) \/ Undone(a, size))
    /\ UNCHANGED <<heap_cursor, poolVars, direct>>

munmap(s, size) ==
    /\ unmap(s, s + size)
    /\ mine' = mine \ Units(s, s + size)
    /\ direct' = direct \ Units(s, s + size)
    /\ UNCHANGED poolVars

\* The guest writes to all it holds.
guest_writes ==
    /\ dirty' = dirty \cup mine \cup direct
    /\ UNCHANGED <<allocations, heap_cursor, ever_mapped, poolVars, mine, direct>>

----------------------------------------------------------------------------
(* Process: direct memory *)

\* Where allocate puts a request, and how long it makes it.
AllocLen(len) == RoundUp(MaxOf(len, Page), Page)
AllocOff(align) == RoundUp(next_off, MaxOf(align, Page))

HasRoom(len, align) == AllocOff(align) + AllocLen(len) <= PoolSize

\* Offsets are handed out once: the cursor never comes back.
allocate_direct_memory(len, align) ==
    /\ HasRoom(len, align)
    /\ next_off' = AllocOff(align) + AllocLen(len)
    /\ reservations' = reservations \cup {<<AllocOff(align), AllocLen(len)>>}
    /\ UNCHANGED <<memVars, mine, direct>>

\* sceKernelAvailableDirectMemorySize: the size of the free run in the
\* window, 0 for none; e = 0 means no upper end.
available_direct_memory(s, e, align) ==
    LET start == RoundUp(MaxOf(s, next_off), MaxOf(align, Page))
        end   == IF e = 0 THEN PoolSize ELSE MinOf(e, PoolSize)
    IN  IF start < PoolSize /\ start < end THEN end - start ELSE 0

\* Map the offset at its place in the window; when the place is taken, in
\* part or in whole, nothing is done and the address returned all the same.
\* The guest maps what it has allocated.
map_direct_memory(off, len) ==
    LET va == PoolBase + off
    IN  /\ off + len <= next_off
        /\ IF Fits(va, len)
           THEN Install(va, len)
           ELSE UNCHANGED <<allocations, ever_mapped, dirty>>
        /\ direct' = direct \cup Units(va, va + len)
        /\ UNCHANGED <<heap_cursor, poolVars, mine>>

\* The length of a release: rounded up; 0 stands for the rest of the
\* reservation it falls into.
ReleaseLen(off, len) ==
    IF len # 0 THEN RoundUp(len, Page)
    ELSE IF \E r \in reservations : r[1] <= off /\ off < r[1] + r[2]
         THEN LET r == CHOOSE r \in reservations : r[1] <= off /\ off < r[1] + r[2]
              IN  r[1] + r[2] - off
         ELSE Page

\* Cut [s, e) out of the reservations, keeping heads and tails.
Trimmed(s, e) ==
    {r \in reservations : r[1] >= e \/ r[1] + r[2] <= s}
      \cup {<<r[1], s - r[1]>> : r \in {q \in reservations : q[1] < s /\ q[1] + q[2] > s}}
      \cup {<<e, r[1] + r[2] - e>> : r \in {q \in reservations : q[1] < e /\ q[1] + q[2] > e}}

\* Bookkeeping only: neither pages nor regions are touched, and the offsets
\* are not handed out again.  The guest no longer counts on the memory.
release_direct_memory(off, len) ==
    /\ off < PoolSize
    /\ reservations' = Trimmed(off, MinOf(off + ReleaseLen(off, len), PoolSize))
    /\ UNCHANGED <<memVars, next_off, mine, direct>>

----------------------------------------------------------------------------
(* sceKernelBatchMap: the list is read, then each entry is a call of its    *)
(* own; other threads' calls fall between them.  (The number of entries     *)
(* done goes to the caller's memory, which the model leaves out.)           *)

\* What becomes of the list: the loop goes on, or stops at the first failure.
EntryDone == batch' = batch - 1
EntryFailed == batch' = 0

batch_map(count) ==
    /\ batch = 0 /\ batch' = count
    /\ UNCHANGED <<memVars, poolVars, mine, direct>>

\* An entry with an offset maps direct memory and cannot fail, one without
\* commits memory wherever the allocator likes, and one with neither an
\* offset nor a start, or without a length, does nothing.
batch_entry(start, off, len) ==
    /\ batch > 0
    /\ \/ off # 0 /\ map_direct_memory(off, MaxOf(len, 1)) /\ EntryDone
       \/ /\ off = 0 /\ start # 0 /\ len > 0
          /\ \E a \in Candidates(len, Placement) :
                /\ Placed(len, 0, a)
                /\ \/ NoRoom(a, len) /\ EntryFailed
                   \/ InArena(a, len) /\ Anonymous(a, len) /\ EntryDone
       \/ /\ off = 0 /\ (start = 0 \/ len = 0)
          /\ EntryDone /\ UNCHANGED <<memVars, poolVars, mine, direct>>

----------------------------------------------------------------------------
Offsets == {n * Page : n \in 0..(PoolSize \div Page - 1)}

\* libkernel's entry points.
MapCall ==
    \/ \E n \in Sizes : mmap_file(n) \/ sce_kernel_mmap(n)
    \/ \E a \in FixedAddrs, n \in Sizes : mmap_fixed_anon(a, n) \/ mmap_fixed_file(a, n)
    \/ \E a \in UnmapAddrs, n \in Sizes : munmap(a, n)
AllocateCall == \E n \in DirectSizes, al \in Aligns : allocate_direct_memory(n, al)
DirectCall ==
    \/ \E o \in Offsets, n \in DirectSizes : map_direct_memory(o, n)
    \/ \E o \in Offsets, n \in DirectSizes \cup {0} : release_direct_memory(o, n)

MemoryNext ==
    \/ /\ \/ \E n \in Sizes, al \in Aligns, b \in FixedAddrs : reserve_virtual_range(b, n, al) \/ map_flexible(b, n)
          \/ MapCall \/ AllocateCall \/ DirectCall \/ guest_writes
       /\ UNCHANGED batch
    \/ \E n \in 1..BatchLen : batch_map(n)
    \/ \E b \in FixedAddrs, o \in Offsets \ {0}, n \in DirectSizes : batch_entry(b, o, n)
    \/ \E b \in FixedAddrs \cup {0}, n \in Sizes : batch_entry(b, 0, n)

MemorySpec == MemoryInit /\ [][MemoryNext]_memoryVars

----------------------------------------------------------------------------
(* Properties *)

\* Regions are not empty, lie in the arena and never overlap.
RegionsDisjoint ==
    /\ \A v \in allocations : GuestBase <= v.start /\ v.start < v.end /\ v.end <= ArenaEnd
    /\ \A v, w \in allocations : v # w => v.end <= w.start \/ w.end <= v.start

\* What the guest is told of the address space is so, however the anywhere,
\* fixed, batched and direct mappings and partial unmaps mix: a walk with
\* SCE_KERNEL_VQ_FIND_NEXT, asking at the end of each region for the next,
\* sees every region, and no two overlap; a ranged access is let through
\* exactly when every unit of it is in a region, across as many regions as it
\* takes; and direct memory reported as available can be reserved.
QueriesTellTheTruth ==
    /\ RegionsDisjoint
    /\ LET walk[a \in 0..ArenaEnd] == UNION {{v} \cup walk[v.end] : v \in query_region(a)}
       IN  walk[0] = allocations
    /\ \A a \in Arena, n \in Sizes :
          read_bytes_ranged(a, n) <=> Units(a, a + n) \subseteq Tracked(allocations)
    /\ \A s, e \in 0..PoolSize, al \in Aligns :
          LET n == available_direct_memory(s, e, al) IN n > 0 => HasRoom(n, al)

\* Bytes live as long as their mapping and no longer.  No call zeroes what the
\* guest holds before and after it, not a mapping, not an unmap of something
\* else, and in the direct memory window no unmap at all; the hlt page keeps
\* its byte; and a fresh anonymous mapping reads as zeroes whatever was there
\* before, although ranges nobody ever mapped are not cleared.
BytesLiveWithTheirMapping ==
    [][ /\ \A u \in dirty :
              \/ u \in Gadget
              \/ u \in mine /\ u \in mine'
              \/ u \in direct /\ u \in direct'
              => u \in dirty'
        /\ (mine' \ mine) \cap dirty' # {} =>
              \A n \in Sizes :
                 /\ \A al \in Aligns : ~mmap_anon(n, al)
                 /\ \A a \in FixedAddrs : ~mmap_fixed_anon(a, n) ]_memoryVars

\* "behaviour cannot drift between the batch and non-batch forms": a batch
\* entry that names direct memory the guest has allocated maps it.
BatchMapsWhatItNames ==
    [][\A o \in Offsets, b \in FixedAddrs, n \in Sizes \cup DirectSizes :
          /\ batch_entry(b, o, n)
          /\ \E r \in reservations : r[1] <= o /\ o + n <= r[1] + r[2]
          => PoolBase + o \in direct']_memoryVars
=============================================================================
