---------------------------- MODULE MemoryProofs ----------------------------
(***************************************************************************)
(* Proofs about GuestMemory and, at the end, about Image, each part with   *)
(* an introduction.  The address space has two regimes.  Outside           *)
(* the direct memory window a range is used again after an unmap, and what *)
(* makes a fresh mapping read as zeroes is that every unit with a byte in  *)
(* it was mapped before (OnceMapped) and so is cleared.  Inside the window *)
(* nothing is ever unmapped: what was mapped there once stays tracked      *)
(* (WindowKept), a new mapping is clear of every tracked unit, and so      *)
(* nothing the guest still counts on is cleared.                           *)
(***************************************************************************)
EXTENDS GuestMemory, Image, WellFoundedInduction, TLAPS

Window == Units(PoolBase, PoolEnd)
GadgetRegion == Region(GadgetAddr, GadgetAddr + Page)

----------------------------------------------------------------------------
(* The inductive invariant *)

MemoryTypeOK ==
    /\ allocations \subseteq [start : Nat, end : Nat]
    /\ heap_cursor \in Nat /\ HeapBase <= heap_cursor
    /\ next_off \in 0..PoolSize

\* The hlt page is never given up.
GadgetKept == GadgetRegion \in allocations

\* What the guest holds is in a region; direct memory is in the window.
HeldTracked == mine \subseteq Tracked(allocations) /\ direct \subseteq Window

\* A region's units were mapped; in the window they stay in a region.
WindowKept ==
    /\ Tracked(allocations) \subseteq ever_mapped
    /\ ever_mapped \cap Window \subseteq Tracked(allocations)

\* Only what was mapped once can hold a byte, except in the window.
OnceMapped == dirty \ Window \subseteq ever_mapped

MemInv ==
    /\ MemoryTypeOK /\ RegionsDisjoint /\ GadgetKept
    /\ HeldTracked /\ WindowKept /\ OnceMapped

\* What a step does to the bytes the guest counts on: the first half of
\* BytesLiveWithTheirMapping, as an action.
BytesKept ==
    \A u \in dirty :
        \/ u \in Gadget
        \/ u \in mine /\ u \in mine'
        \/ u \in direct /\ u \in direct'
        => u \in dirty'

----------------------------------------------------------------------------
(* Ranges and rounding *)

\* A range holds the units from its start up to its end.
LEMMA UnitsAre ==
    ASSUME NEW s \in Int, NEW e \in Int
    PROVE  \A x : x \in Units(s, e) <=> x \in Int /\ s <= x /\ x < e
BY DEF Units

\* A unit is tracked when some region has it.
LEMMA TrackedAre ==
    ASSUME NEW R
    PROVE  \A x : x \in Tracked(R) <=> \E v \in R : x \in Units(v.start, v.end)
BY DEF Tracked

\* Tracking one more region adds its units.
LEMMA TrackedOneMore ==
    ASSUME NEW R, NEW s, NEW e
    PROVE  Tracked(R \cup {Region(s, e)}) = Tracked(R) \cup Units(s, e)
<1> DEFINE r == Region(s, e)
<1>1. r.start = s /\ r.end = e
  BY DEF Region
<1>2. \A v \in R \cup {r} : v \in R \/ v = r
  OBVIOUS
<1> HIDE DEF r
<1>3. \A x : x \in Tracked(R \cup {r}) <=> x \in Tracked(R) \/ x \in Units(s, e)
  BY <1>1, <1>2 DEF Tracked
<1> QED BY <1>3 DEF r

\* Rounding up to whole pages goes up, and stays a number.
LEMMA RoundUpUp ==
    ASSUME NEW a \in Nat, NEW n \in Nat \ {0}
    PROVE  RoundUp(a, n) \in Nat /\ RoundUp(a, n) >= a
<1> DEFINE b == a + n - 1
<1>1. b \in Nat /\ b \div n \in Nat
  BY Z3
<1>2. b < (b \div n) * n + n
  BY <1>1, Z3
<1>3. (b \div n) * n \in Nat
  BY <1>1, Z3
<1> QED BY <1>2, <1>3, Z3 DEF RoundUp

\* Rounding down goes down.
LEMMA RoundDownDown ==
    ASSUME NEW a \in Nat, NEW n \in Nat \ {0}
    PROVE  RoundDown(a, n) \in Nat /\ RoundDown(a, n) <= a
<1>1. a \div n \in Nat
  BY Z3
<1>2. (a \div n) * n <= a
  BY <1>1, Z3
<1>3. (a \div n) * n \in Nat
  BY <1>1, Z3
<1> QED BY <1>2, <1>3 DEF RoundDown

\* The pages an unmap discards lie in the range it unmaps.
LEMMA DiscardsInside ==
    ASSUME NEW s \in Nat, NEW e \in Nat
    PROVE  Discarded(s, e) \subseteq Units(s, e) \ Gadget
<1>1. /\ RoundUp(s, Page) \in Nat /\ s <= RoundUp(s, Page)
      /\ RoundDown(e, Page) \in Nat /\ RoundDown(e, Page) <= e
  BY RoundUpUp, RoundDownDown, ArenaAssumption
<1> QED BY <1>1 DEF Discarded, Units

----------------------------------------------------------------------------
(* Mapping *)

\* A range that fits is clear of every region, and so of the hlt page.
LEMMA FitsClear ==
    ASSUME MemInv, NEW a \in Nat, NEW n \in Nat \ {0}, Fits(a, n)
    PROVE  /\ Units(a, a + n) \cap Tracked(allocations) = {}
           /\ Gadget \subseteq Tracked(allocations)
<1>1. \A v \in allocations : v.start \in Nat /\ v.end \in Nat
  BY DEF MemInv, MemoryTypeOK
<1>2. ASSUME NEW v \in allocations, NEW x \in Units(a, a + n), x \in Units(v.start, v.end)
      PROVE  FALSE
  <2>1. x \in Int /\ a <= x /\ x < a + n /\ v.start <= x /\ x < v.end
    BY <1>1, <1>2, UnitsAre
  <2> QED BY <2>1, <1>1 DEF Fits, is_memory_free
<1>3. GadgetRegion \in allocations /\ GadgetRegion.start = GadgetAddr
      /\ GadgetRegion.end = GadgetAddr + Page
  BY DEF MemInv, GadgetKept, GadgetRegion, Region
<1> QED BY <1>2, <1>3, TrackedAre DEF Gadget

\* Tracking a range that fits keeps the regions apart and the hlt page's.
LEMMA FitsApart ==
    ASSUME MemInv, NEW a \in Nat, NEW n \in Nat \ {0}, Fits(a, n),
           allocations' = allocations \cup {Region(a, a + n)}
    PROVE  /\ allocations' \subseteq [start : Nat, end : Nat]
           /\ RegionsDisjoint' /\ GadgetKept'
           /\ Tracked(allocations)' = Tracked(allocations) \cup Units(a, a + n)
<1> DEFINE r == Region(a, a + n)
<1>1. r \in [start : Nat, end : Nat] /\ r.start = a /\ r.end = a + n
  BY DEF Region
<1>2. allocations \subseteq [start : Nat, end : Nat] /\ RegionsDisjoint /\ GadgetKept
  BY DEF MemInv, MemoryTypeOK
<1>3. allocations' \subseteq [start : Nat, end : Nat]
  BY <1>1, <1>2
<1>4. a >= GuestBase /\ a + n <= ArenaEnd /\ a < a + n
  BY ArenaAssumption DEF Fits
<1>5. \A v \in allocations : v.end <= a \/ a + n <= v.start
  <2>1. \A v \in allocations : v.start \in Nat /\ v.end \in Nat
    BY <1>2
  <2> QED BY <2>1 DEF Fits, is_memory_free
<1>6. RegionsDisjoint'
  <2> HIDE DEF r
  <2>1. allocations' = allocations \cup {r}
    BY DEF r
  <2>2. ASSUME NEW v \in allocations' PROVE GuestBase <= v.start /\ v.start < v.end /\ v.end <= ArenaEnd
    BY <2>1, <1>1, <1>2, <1>4 DEF RegionsDisjoint
  <2>3. ASSUME NEW v \in allocations', NEW w \in allocations', v # w
        PROVE  v.end <= w.start \/ w.end <= v.start
    BY <2>1, <2>3, <1>1, <1>2, <1>5 DEF RegionsDisjoint
  <2> QED BY <2>2, <2>3 DEF RegionsDisjoint
<1>7. GadgetKept'
  BY <1>2 DEF GadgetKept, GadgetRegion
<1>8. Tracked(allocations)' = Tracked(allocations) \cup Units(a, a + n)
  BY TrackedOneMore
<1> QED BY <1>3, <1>6, <1>7, <1>8

\* A range outside the window shares no unit with it.
LEMMA OutsideWindow ==
    ASSUME NEW a \in Nat, NEW n \in Nat \ {0}, OutsidePool(a, n)
    PROVE  Units(a, a + n) \cap Window = {}
BY ArenaAssumption DEF OutsidePool, Units, Window, PoolEnd

\* Mapping outside the window: the new units are clear of all that is held;
\* what was stale in them is cleared, and an undone mapping discards no more.
LEMMA MapKeeps ==
    ASSUME MemInv, NEW a \in Nat, NEW n \in Nat \ {0}, Fits(a, n), OutsidePool(a, n),
           Anonymous(a, n) \/ FileBacked(a, n) \/ Undone(a, n),
           heap_cursor' \in Nat /\ HeapBase <= heap_cursor',
           UNCHANGED <<next_off, direct>>
    PROVE  MemInv' /\ BytesKept
<1> DEFINE U == Units(a, a + n)
<1>1. U \cap Tracked(allocations) = {} /\ Gadget \subseteq Tracked(allocations)
  BY FitsClear
<1>2. U \cap Window = {}
  BY OutsideWindow
<1>3. ever_mapped' = ever_mapped \cup U
  BY DEF Anonymous, FileBacked, Undone, Install
<1>4. dirty \ U \subseteq dirty' /\ dirty' \subseteq dirty \cup U
  <2>1. Discarded(a, a + n) \subseteq U
    BY DiscardsInside
  <2> QED BY <2>1 DEF Anonymous, FileBacked, Undone, Install, Zeroed, previously_mapped_parts
<1>5. CASE allocations' = allocations \cup {Region(a, a + n)} /\ mine' = mine \cup U
  <2>1. /\ allocations' \subseteq [start : Nat, end : Nat]
        /\ RegionsDisjoint' /\ GadgetKept'
        /\ Tracked(allocations)' = Tracked(allocations) \cup U
    BY <1>5, FitsApart
  <2> HIDE DEF U
  <2>2. MemoryTypeOK'
    BY <2>1 DEF MemInv, MemoryTypeOK
  <2>3. HeldTracked' /\ WindowKept' /\ OnceMapped'
    BY <2>1, <1>5, <1>2, <1>3, <1>4 DEF MemInv, HeldTracked, WindowKept, OnceMapped, Window, PoolEnd
  <2>4. BytesKept
    BY <1>1, <1>2, <1>4 DEF MemInv, HeldTracked, BytesKept
  <2> QED BY <2>1, <2>2, <2>3, <2>4 DEF MemInv
<1>6. CASE UNCHANGED <<allocations, mine>>
  <2> HIDE DEF U
  <2>1. RegionsDisjoint' /\ GadgetKept' /\ MemoryTypeOK' /\ Tracked(allocations)' = Tracked(allocations)
    BY <1>6 DEF MemInv, MemoryTypeOK, RegionsDisjoint, GadgetKept, GadgetRegion, Tracked
  <2>2. HeldTracked' /\ WindowKept' /\ OnceMapped'
    BY <2>1, <1>6, <1>2, <1>3, <1>4 DEF MemInv, HeldTracked, WindowKept, OnceMapped, Window, PoolEnd
  <2>3. BytesKept
    BY <1>1, <1>2, <1>4 DEF MemInv, HeldTracked, BytesKept
  <2> QED BY <2>1, <2>2, <2>3 DEF MemInv
<1> QED BY <1>5, <1>6 DEF Anonymous, FileBacked, Undone, Install

----------------------------------------------------------------------------
(* The direct memory window *)

\* Mapping direct memory: a place that is free was never mapped, so nothing
\* is cleared; a place that is taken is left alone.
LEMMA DirectKeeps ==
    ASSUME MemInv, NEW o \in Nat, NEW n \in Nat \ {0}, map_direct_memory(o, n)
    PROVE  MemInv' /\ BytesKept
<1> DEFINE a == PoolBase + o
           U == Units(a, a + n)
<1>1. o + n <= next_off /\ next_off <= PoolSize /\ next_off \in Nat
  BY DEF map_direct_memory, MemInv, MemoryTypeOK
<1>2. a \in Nat /\ U \subseteq Window
  BY <1>1, ArenaAssumption DEF Units, Window, PoolEnd
<1>3. UNCHANGED <<heap_cursor, next_off, mine>> /\ direct' = direct \cup U
  BY DEF map_direct_memory, poolVars
<1>4. CASE Fits(a, n)
  <2>1. Install(a, n)
    BY <1>4 DEF map_direct_memory
  <2>2. U \cap Tracked(allocations) = {}
    BY <1>2, <1>4, FitsClear
  <2>3. /\ allocations' \subseteq [start : Nat, end : Nat]
        /\ RegionsDisjoint' /\ GadgetKept'
        /\ Tracked(allocations)' = Tracked(allocations) \cup U
    BY <1>2, <1>4, <2>1, FitsApart DEF Install
  <2> HIDE DEF U, a
  <2>4. dirty' = dirty \ (U \cap ever_mapped) /\ ever_mapped' = ever_mapped \cup U
    BY <2>1 DEF Install, Zeroed, previously_mapped_parts, U
  <2>5. U \cap ever_mapped = {}
    BY <1>2, <2>2 DEF MemInv, WindowKept
  <2>6. dirty' = dirty
    BY <2>4, <2>5
  <2>7. MemoryTypeOK'
    BY <2>3, <1>3 DEF MemInv, MemoryTypeOK
  <2>8. HeldTracked' /\ WindowKept' /\ OnceMapped'
    BY <1>2, <1>3, <2>3, <2>4, <2>6 DEF MemInv, HeldTracked, WindowKept, OnceMapped, Window, PoolEnd
  <2> QED BY <2>3, <2>6, <2>7, <2>8 DEF MemInv, BytesKept
<1>5. CASE ~Fits(a, n)
  <2>1. UNCHANGED <<allocations, ever_mapped, dirty>>
    BY <1>5 DEF map_direct_memory
  <2> HIDE DEF U, a
  <2>2. MemoryTypeOK' /\ RegionsDisjoint' /\ GadgetKept' /\ WindowKept' /\ OnceMapped'
    BY <2>1, <1>3 DEF MemInv, MemoryTypeOK, RegionsDisjoint, GadgetKept, GadgetRegion, WindowKept,
                      OnceMapped, Tracked, Window, PoolEnd
  <2>3. HeldTracked'
    BY <1>2, <1>3, <2>1 DEF MemInv, HeldTracked, Tracked, Window, PoolEnd
  <2> QED BY <2>1, <2>2, <2>3 DEF MemInv, BytesKept
<1> QED BY <1>4, <1>5

----------------------------------------------------------------------------
(* Unmapping *)

\* A range that touches the window unmaps nothing.  Any other loses the
\* regions inside it, none of them the hlt page's and none in the window, and
\* whole pages inside it, which the guest gave up.
LEMMA UnmapKeeps ==
    ASSUME MemInv, NEW s \in Nat, NEW n \in Nat \ {0}, munmap(s, n)
    PROVE  MemInv' /\ BytesKept
<1> DEFINE U == Units(s, s + n)
<1>1. mine' = mine \ U /\ direct' = direct \ U /\ next_off' = next_off
  BY DEF munmap, poolVars
<1>2. CASE TouchesPool(s, s + n)
  <2>1. UNCHANGED <<allocations, heap_cursor, ever_mapped, dirty>>
    BY <1>2 DEF munmap, unmap, memVars
  <2> HIDE DEF U
  <2>2. MemoryTypeOK' /\ RegionsDisjoint' /\ GadgetKept' /\ WindowKept' /\ OnceMapped'
    BY <2>1, <1>1 DEF MemInv, MemoryTypeOK, RegionsDisjoint, GadgetKept, GadgetRegion, WindowKept,
                      OnceMapped, Tracked, Window, PoolEnd
  <2>3. HeldTracked'
    BY <1>1, <2>1 DEF MemInv, HeldTracked, Tracked, Window, PoolEnd
  <2> QED BY <2>1, <2>2, <2>3 DEF MemInv, BytesKept
<1>3. CASE ~TouchesPool(s, s + n)
  <2>1. /\ dirty' = dirty \ Discarded(s, s + n)
        /\ allocations' = allocations \ Dropped(s, s + n)
        /\ UNCHANGED <<heap_cursor, ever_mapped>>
    BY <1>3 DEF munmap, unmap
  <2>2. Discarded(s, s + n) \subseteq U \ Gadget
    BY DiscardsInside
  <2>3. U \cap Window = {}
    BY <1>3, ArenaAssumption DEF TouchesPool, Units, Window, PoolEnd
  <2>4. \A v \in allocations : v.start \in Nat /\ v.end \in Nat
    BY DEF MemInv, MemoryTypeOK
  <2>5. \A v \in Dropped(s, s + n) : Units(v.start, v.end) \subseteq U
    BY <2>4 DEF Dropped, Units
  <2>6. Tracked(allocations) \ U \subseteq Tracked(allocations)'
    BY <2>1, <2>5 DEF Tracked
  <2>7. Tracked(allocations)' \subseteq Tracked(allocations)
    BY <2>1 DEF Tracked
  <2>8. GadgetKept'
    BY <2>1 DEF MemInv, GadgetKept, GadgetRegion, Region, Dropped
  <2>9. MemoryTypeOK' /\ RegionsDisjoint'
    BY <1>1, <2>1 DEF MemInv, MemoryTypeOK, RegionsDisjoint
  <2> HIDE DEF U
  <2>10. HeldTracked' /\ WindowKept' /\ OnceMapped'
    BY <1>1, <2>1, <2>3, <2>6, <2>7 DEF MemInv, HeldTracked, WindowKept, OnceMapped, Window, PoolEnd
  <2>11. BytesKept
    BY <1>1, <2>1, <2>2 DEF BytesKept
  <2> QED BY <2>8, <2>9, <2>10, <2>11 DEF MemInv
<1> QED BY <1>2, <1>3

----------------------------------------------------------------------------
(* The other calls *)

\* A step that leaves regions, history and what is held as they are, and
\* writes only what the guest holds.
LEMMA StillKeeps ==
    ASSUME MemInv,
           UNCHANGED <<allocations, ever_mapped, mine, direct>>,
           heap_cursor' \in Nat /\ HeapBase <= heap_cursor', next_off' \in 0..PoolSize,
           dirty \subseteq dirty' /\ dirty' \subseteq dirty \cup mine \cup direct
    PROVE  MemInv' /\ BytesKept
<1>1. MemoryTypeOK' /\ RegionsDisjoint' /\ GadgetKept' /\ WindowKept' /\ HeldTracked'
  BY DEF MemInv, MemoryTypeOK, RegionsDisjoint, GadgetKept, GadgetRegion, WindowKept,
         HeldTracked, Tracked, Window, PoolEnd
<1>2. OnceMapped'
  BY DEF MemInv, OnceMapped, HeldTracked, WindowKept, Window, PoolEnd
<1> QED BY <1>1, <1>2 DEF MemInv, BytesKept

\* A direct allocation stays within the window.
LEMMA AllocateKeeps ==
    ASSUME MemInv, NEW n \in Nat \ {0}, NEW al \in Nat, allocate_direct_memory(n, al)
    PROVE  MemInv' /\ BytesKept
<1>1. next_off \in Nat /\ MaxOf(al, Page) \in Nat \ {0} /\ MaxOf(n, Page) \in Nat
  BY ArenaAssumption DEF MemInv, MemoryTypeOK, MaxOf
<1>2. AllocOff(al) \in Nat /\ AllocLen(n) \in Nat
  BY <1>1, RoundUpUp, ArenaAssumption DEF AllocOff, AllocLen
<1>3. next_off' \in 0..PoolSize
  BY <1>2, ArenaAssumption DEF allocate_direct_memory, HasRoom
<1>4. UNCHANGED <<allocations, heap_cursor, ever_mapped, dirty, mine, direct>>
  BY DEF allocate_direct_memory, memVars
<1>5. heap_cursor' \in Nat /\ HeapBase <= heap_cursor'
  BY <1>4 DEF MemInv, MemoryTypeOK
<1> QED BY <1>3, <1>4, <1>5, StillKeeps

\* The base an "anywhere" mapping finds, and what Placed does.
LEMMA PlacedFits ==
    ASSUME MemInv, NEW n \in Nat \ {0}, NEW al \in Nat, NEW a, Placed(n, al, a)
    PROVE  /\ a \in Nat /\ OutsidePool(a, n)
           /\ heap_cursor' \in Nat /\ HeapBase <= heap_cursor'
           /\ UNCHANGED <<next_off, direct>>
           /\ InArena(a, n) => Fits(a, n)
<1> DEFINE m == MaxOf(al, Placement)
<1>1. a \in Candidates(n, m) /\ heap_cursor' = a + n /\ UNCHANGED <<next_off, direct>>
  BY DEF Placed, FindFree, poolVars
<1>2. heap_cursor \in Nat /\ HeapBase <= heap_cursor /\ m \in Nat
  BY ArenaAssumption DEF MemInv, MemoryTypeOK, MaxOf
<1>3. MaxOf(heap_cursor, ArenaEnd) \in Nat
  BY <1>2, ArenaAssumption DEF MaxOf
<1>4. a \in Nat /\ heap_cursor <= a /\ OutsidePool(a, n) /\ is_memory_free(a, n)
  <2> HIDE DEF m
  <2> QED BY <1>1, <1>2, <1>3 DEF Candidates
<1> QED BY <1>1, <1>2, <1>4, ArenaAssumption DEF InArena, Fits

\* Mapping anywhere, of any kind.
LEMMA AnywhereKeeps ==
    ASSUME MemInv, NEW n \in Nat \ {0}, NEW al \in Nat, NEW a, Placed(n, al, a),
           \/ NoRoom(a, n)
           \/ InArena(a, n) /\ (Anonymous(a, n) \/ FileBacked(a, n) \/ Undone(a, n))
    PROVE  MemInv' /\ BytesKept
<1>1. /\ a \in Nat /\ OutsidePool(a, n)
      /\ heap_cursor' \in Nat /\ HeapBase <= heap_cursor'
      /\ UNCHANGED <<next_off, direct>>
      /\ InArena(a, n) => Fits(a, n)
  BY PlacedFits
<1>2. CASE NoRoom(a, n)
  <2>1. UNCHANGED <<allocations, ever_mapped, dirty, mine, direct>>
    BY <1>1, <1>2 DEF NoRoom
  <2>2. next_off' \in 0..PoolSize
    BY <1>1 DEF MemInv, MemoryTypeOK
  <2> QED BY <1>1, <2>1, <2>2, StillKeeps
<1>3. CASE InArena(a, n) /\ (Anonymous(a, n) \/ FileBacked(a, n) \/ Undone(a, n))
  BY <1>1, <1>3, MapKeeps
<1> QED BY <1>2, <1>3

\* The guest keeps its fixed mappings out of the window.
LEMMA FixedOutside ==
    ASSUME NEW a \in FixedAddrs, NEW n \in Sizes
    PROVE  a \in Nat /\ n \in Nat \ {0} /\ OutsidePool(a, n)
BY InputAssumption, ArenaAssumption DEF OutsidePool, PoolEnd

\* Nothing happens.
LEMMA StutterKeeps ==
    ASSUME MemInv, UNCHANGED <<memVars, next_off, mine, direct>>
    PROVE  MemInv' /\ BytesKept
<1>1. heap_cursor' \in Nat /\ HeapBase <= heap_cursor' /\ next_off' \in 0..PoolSize
  BY DEF MemInv, MemoryTypeOK, memVars
<1> QED BY <1>1, StillKeeps DEF memVars

----------------------------------------------------------------------------
(* One step of the address space *)

LEMMA MemoryStep ==
    ASSUME MemInv, [MemoryNext]_memoryVars
    PROVE  MemInv' /\ BytesKept
<1>1. CASE UNCHANGED memoryVars
  BY <1>1, StutterKeeps DEF memoryVars, poolVars
<1>2. ASSUME NEW n \in Sizes, NEW al \in Nat, mmap_anon(n, al)
      PROVE  MemInv' /\ BytesKept
  <2>1. n \in Nat \ {0}
    BY InputAssumption
  <2>2. PICK a : Placed(n, al, a) /\ (NoRoom(a, n) \/ (InArena(a, n) /\ Anonymous(a, n)))
    BY <1>2 DEF mmap_anon
  <2> QED BY <2>1, <2>2, AnywhereKeeps
<1>3. ASSUME NEW n \in Sizes, NEW al \in Aligns, NEW b \in FixedAddrs,
             reserve_virtual_range(b, n, al) \/ map_flexible(b, n)
      PROVE  MemInv' /\ BytesKept
  BY <1>2, <1>3, InputAssumption DEF reserve_virtual_range, map_flexible
<1>4. ASSUME NEW n \in Sizes, mmap_file(n) \/ sce_kernel_mmap(n)
      PROVE  MemInv' /\ BytesKept
  <2>1. n \in Nat \ {0}
    BY InputAssumption
  <2>2. PICK a : /\ Placed(n, 0, a) /\ InArena(a, n)
                 /\ Anonymous(a, n) \/ FileBacked(a, n) \/ Undone(a, n)
    BY <1>4 DEF mmap_file, sce_kernel_mmap
  <2> QED BY <2>1, <2>2, AnywhereKeeps
<1>5. ASSUME NEW a \in FixedAddrs, NEW n \in Sizes, mmap_fixed_anon(a, n) \/ mmap_fixed_file(a, n)
      PROVE  MemInv' /\ BytesKept
  <2>1. a \in Nat /\ n \in Nat \ {0} /\ OutsidePool(a, n)
    BY FixedOutside
  <2>2. /\ Fits(a, n) /\ (Anonymous(a, n) \/ FileBacked(a, n) \/ Undone(a, n))
        /\ UNCHANGED <<heap_cursor, next_off, direct>>
    BY <1>5 DEF mmap_fixed_anon, mmap_fixed_file, poolVars
  <2>3. heap_cursor' \in Nat /\ HeapBase <= heap_cursor'
    BY <2>2 DEF MemInv, MemoryTypeOK
  <2> QED BY <2>1, <2>2, <2>3, MapKeeps
<1>6. ASSUME NEW a \in UnmapAddrs, NEW n \in Sizes, munmap(a, n)
      PROVE  MemInv' /\ BytesKept
  BY <1>6, UnmapKeeps, InputAssumption
<1>7. CASE AllocateCall
  BY <1>7, AllocateKeeps, InputAssumption DEF AllocateCall
<1>8. \A o \in Offsets : o \in Nat
  <2>1. PoolSize \div Page \in Nat
    BY ArenaAssumption, Z3
  <2>2. \A k \in 0..(PoolSize \div Page - 1) : k * Page \in Nat
    BY <2>1, ArenaAssumption, Z3
  <2> QED BY <2>2 DEF Offsets
<1>9. ASSUME NEW o \in Offsets, NEW n \in DirectSizes, map_direct_memory(o, n)
      PROVE  MemInv' /\ BytesKept
  BY <1>8, <1>9, DirectKeeps, InputAssumption
<1>10. ASSUME NEW o \in Offsets, NEW n \in DirectSizes \cup {0}, release_direct_memory(o, n)
       PROVE  MemInv' /\ BytesKept
  BY <1>10, StutterKeeps DEF release_direct_memory
<1>11. CASE guest_writes
  <2>1. heap_cursor' \in Nat /\ HeapBase <= heap_cursor' /\ next_off' \in 0..PoolSize
    BY <1>11 DEF MemInv, MemoryTypeOK, guest_writes, poolVars
  <2> QED BY <1>11, <2>1, StillKeeps DEF guest_writes
<1>12. ASSUME NEW n \in 1..BatchLen, batch_map(n)
       PROVE  MemInv' /\ BytesKept
  BY <1>12, StutterKeeps DEF batch_map, poolVars
<1>13. ASSUME NEW b \in FixedAddrs \cup {0}, NEW o \in Offsets \cup {0}, NEW n \in Sizes \cup DirectSizes,
              batch_entry(b, o, n)
       PROVE  MemInv' /\ BytesKept
  <2>1. o \in Nat /\ n \in Nat \ {0} /\ MaxOf(n, 1) = n
    BY <1>8, InputAssumption DEF MaxOf
  <2>2. CASE map_direct_memory(o, MaxOf(n, 1))
    BY <2>1, <2>2, DirectKeeps
  <2>3. ASSUME NEW a, Placed(n, 0, a), NoRoom(a, n) \/ (InArena(a, n) /\ Anonymous(a, n))
        PROVE  MemInv' /\ BytesKept
    BY <2>1, <2>3, AnywhereKeeps
  <2>4. CASE UNCHANGED <<memVars, poolVars, mine, direct>>
    BY <2>4, StutterKeeps DEF poolVars
  <2>5. CASE \E a \in Candidates(n, Placement) :
                /\ Placed(n, 0, a)
                /\ \/ NoRoom(a, n) /\ EntryFailed
                   \/ InArena(a, n) /\ Anonymous(a, n) /\ EntryDone
    <3>1. PICK a \in Candidates(n, Placement) :
                /\ Placed(n, 0, a)
                /\ NoRoom(a, n) \/ (InArena(a, n) /\ Anonymous(a, n))
      BY <2>5
    <3> QED BY <3>1, <2>3
  <2> QED BY <1>13, <2>2, <2>4, <2>5, Zenon DEF batch_entry
<1>14. CASE MapCall
  BY <1>14, <1>4, <1>5, <1>6 DEF MapCall
<1>15. CASE DirectCall
  BY <1>15, <1>9, <1>10 DEF DirectCall
<1> QED
  BY <1>1, <1>3, <1>7, <1>11, <1>12, <1>13, <1>14, <1>15 DEF MemoryNext

\* A fresh anonymous mapping reads as zeroes: whatever its range holds was
\* mapped before, because it is not in the window, and is cleared.
LEMMA FreshReadsZero ==
    ASSUME MemInv, NEW n \in Sizes,
           (\E al \in Aligns : mmap_anon(n, al)) \/ (\E a \in FixedAddrs : mmap_fixed_anon(a, n))
    PROVE  (mine' \ mine) \cap dirty' = {}
<1>1. n \in Nat \ {0}
  BY InputAssumption
<1>2. ASSUME NEW a \in Nat, OutsidePool(a, n), Anonymous(a, n)
      PROVE  (mine' \ mine) \cap dirty' = {}
  <2>1. Units(a, a + n) \cap Window = {}
    BY <1>1, <1>2, OutsideWindow
  <2>2. Units(a, a + n) \cap dirty \subseteq ever_mapped
    BY <2>1 DEF MemInv, OnceMapped
  <2>3. dirty' = dirty \ (Units(a, a + n) \cap ever_mapped) /\ mine' = mine \cup Units(a, a + n)
    BY <1>2 DEF Anonymous, Install, Zeroed, previously_mapped_parts
  <2> QED BY <2>2, <2>3
<1>3. ASSUME NEW al \in Aligns, mmap_anon(n, al)
      PROVE  (mine' \ mine) \cap dirty' = {}
  <2>1. PICK a : Placed(n, al, a) /\ (NoRoom(a, n) \/ (InArena(a, n) /\ Anonymous(a, n)))
    BY <1>3 DEF mmap_anon
  <2>2. al \in Nat
    BY InputAssumption
  <2>3. a \in Nat /\ OutsidePool(a, n)
    BY <1>1, <2>1, <2>2, PlacedFits
  <2>4. CASE NoRoom(a, n)
    BY <2>4 DEF NoRoom
  <2>5. CASE Anonymous(a, n)
    BY <1>2, <2>3, <2>5
  <2> QED BY <2>1, <2>4, <2>5
<1>4. ASSUME NEW a \in FixedAddrs, mmap_fixed_anon(a, n)
      PROVE  (mine' \ mine) \cap dirty' = {}
  <2>1. a \in Nat /\ OutsidePool(a, n) /\ Anonymous(a, n)
    BY <1>4, FixedOutside DEF mmap_fixed_anon
  <2> QED BY <1>2, <2>1
<1> QED BY <1>3, <1>4

----------------------------------------------------------------------------
(* Theorems *)

\* The inductive invariant holds of every execution.
THEOREM MemoryInvariance == MemorySpec => []MemInv
<1>1. MemoryInit => MemInv
  <2> SUFFICES ASSUME MemoryInit PROVE MemInv
    OBVIOUS
  <2>1. GadgetRegion \in [start : Nat, end : Nat]
        /\ GadgetRegion.start = GadgetAddr /\ GadgetRegion.end = GadgetAddr + Page
    BY ArenaAssumption DEF GadgetRegion, Region
  <2>2. allocations = {GadgetRegion}
    BY DEF MemoryInit, GadgetRegion
  <2>3. MemoryTypeOK
    BY <2>1, <2>2, ArenaAssumption DEF MemoryInit, MemoryTypeOK
  <2>4. RegionsDisjoint /\ GadgetKept
    BY <2>1, <2>2, ArenaAssumption DEF RegionsDisjoint, GadgetKept, PoolEnd
  <2>5. Tracked(allocations) = Gadget
    BY <2>1, <2>2 DEF Tracked, Gadget
  <2>6. HeldTracked /\ WindowKept /\ OnceMapped
    BY <2>5 DEF MemoryInit, HeldTracked, WindowKept, OnceMapped
  <2> QED BY <2>3, <2>4, <2>6 DEF MemInv
<1>2. MemInv /\ [MemoryNext]_memoryVars => MemInv'
  BY MemoryStep
<1> QED BY <1>1, <1>2, PTL DEF MemorySpec

\* Regions lie in the arena and never overlap, whatever the sizes, alignments
\* and addresses of the anywhere, fixed, batched and direct mappings and
\* unmaps (map_aligned, unmap, DirectMemory).
THEOREM RegionsApart == MemorySpec => []RegionsDisjoint
<1>1. MemInv => RegionsDisjoint
  BY DEF MemInv
<1> QED BY <1>1, MemoryInvariance, PTL

\* No call zeroes bytes the guest holds before and after it, the hlt page
\* keeps its byte, and a fresh anonymous mapping reads as zeroes (map_aligned's
\* zeroing of ranges mapped before, unmap's discarding of whole pages).
THEOREM BytesLive == MemorySpec => BytesLiveWithTheirMapping
<1>1. MemInv /\ [MemoryNext]_memoryVars =>
        [ /\ \A u \in dirty :
                \/ u \in Gadget
                \/ u \in mine /\ u \in mine'
                \/ u \in direct /\ u \in direct'
                => u \in dirty'
          /\ (mine' \ mine) \cap dirty' # {} =>
                \A n \in Sizes :
                   /\ \A al \in Aligns : ~mmap_anon(n, al)
                   /\ \A a \in FixedAddrs : ~mmap_fixed_anon(a, n) ]_memoryVars
  <2> SUFFICES ASSUME MemInv, [MemoryNext]_memoryVars
               PROVE  /\ BytesKept
                      /\ (mine' \ mine) \cap dirty' # {} =>
                            \A n \in Sizes :
                               /\ \A al \in Aligns : ~mmap_anon(n, al)
                               /\ \A a \in FixedAddrs : ~mmap_fixed_anon(a, n)
    BY DEF BytesKept
  <2>1. BytesKept
    BY MemoryStep
  <2>2. ASSUME NEW n \in Sizes, (mine' \ mine) \cap dirty' # {}
        PROVE  /\ \A al \in Aligns : ~mmap_anon(n, al)
               /\ \A a \in FixedAddrs : ~mmap_fixed_anon(a, n)
    BY <2>2, FreshReadsZero
  <2> QED BY <2>1, <2>2
<1> QED BY <1>1, MemoryInvariance, PTL DEF MemorySpec, BytesLiveWithTheirMapping
----------------------------------------------------------------------------
(***************************************************************************)
(* What the guest is told of the address space.  The two walks from region *)
(* to region are recursive functions over addresses; each step of one goes *)
(* up, to the end of a region, so its equation has one solution only: the  *)
(* greatest address at which a second one would differ is found with       *)
(* LeastNumber.  The solution itself is written down, not computed: a walk *)
(* with find_next that is at a sees the regions that end above a, a ranged *)
(* access that is at c goes through when the units from c on are tracked.  *)
(***************************************************************************)

\* A set of numbers that has an element has a least one.
LEMMA LeastNumber ==
    ASSUME NEW T, T \subseteq Nat, T # {}
    PROVE  \E x \in T : \A y \in T : x <= y
<1> DEFINE R == OpToRel(<, Nat)
<1>1. PICK x \in T : \A y \in T : <<y, x>> \notin R
  BY NatLessThanWellFounded, WFMin
<1>2. \A y \in T : ~(y < x)
  BY <1>1 DEF OpToRel
<1> HIDE DEF R
<1>3. \A y \in T : x <= y
  BY <1>2
<1> QED BY <1>3

\* A set of numbers that holds 0 and with each number the next is all of them.
LEMMA Induction ==
    ASSUME NEW S, 0 \in S, \A n \in Nat : n \in S => n + 1 \in S
    PROVE  Nat \subseteq S
<1> SUFFICES ASSUME Nat \ S # {} PROVE FALSE
  OBVIOUS
<1>1. PICK x \in Nat \ S : \A y \in Nat \ S : x <= y
  BY LeastNumber
<1>2. x # 0 /\ x - 1 \in Nat
  BY <1>1
<1>3. x - 1 \in S
  BY <1>1, <1>2
<1> QED BY <1>1, <1>2, <1>3

\* So a set of numbers below a bound that has an element has a greatest one.
LEMMA GreatestNumber ==
    ASSUME NEW b \in Nat, NEW T, T \subseteq 0..b, T # {}
    PROVE  \E x \in T : \A y \in T : y <= x
<1> DEFINE S == {b - x : x \in T}
<1>1. S \subseteq Nat /\ S # {}
  <2>1. \A x \in T : x \in Int /\ 0 <= x /\ x <= b
    OBVIOUS
  <2>2. \A x \in T : b - x \in Nat
    BY <2>1
  <2> QED BY <2>2
<1>2. PICK m \in S : \A y \in S : m <= y
  <2> HIDE DEF S
  <2> QED BY <1>1, LeastNumber
<1>3. PICK x \in T : m = b - x
  BY <1>2
<1>4. ASSUME NEW y \in T PROVE y <= x
  <2>1. m <= b - y
    BY <1>2
  <2> QED BY <1>3, <2>1
<1> QED BY <1>3, <1>4

\* Two regions of which one starts below the other's end and ends above its
\* start are the same.
LEMMA SameRegion ==
    ASSUME MemInv, NEW v \in allocations, NEW w \in allocations, v.start < w.end, w.start < v.end
    PROVE  v = w
<1>1. v.start \in Nat /\ v.end \in Nat /\ w.start \in Nat /\ w.end \in Nat
  BY DEF MemInv, MemoryTypeOK
<1> QED BY <1>1 DEF MemInv, RegionsDisjoint

\* Regions, as far as the walks need them.
LEMMA RegionBounds ==
    ASSUME MemInv, NEW v \in allocations
    PROVE  v.start \in Nat /\ v.end \in Nat /\ v.start < v.end /\ v.end <= ArenaEnd
  BY DEF MemInv, MemoryTypeOK, RegionsDisjoint

\* The last region that starts at or below an address is the one that holds
\* it, if any does.
LEMMA ContainingIs ==
    ASSUME MemInv, NEW a \in Nat
    PROVE  containing_vma(a) = {v \in allocations : v.start <= a /\ a < v.end}
<1>1. ASSUME NEW v \in allocations, v.start <= a, a < v.end,
             NEW w \in allocations, w.start <= a
      PROVE  w.start <= v.start
  <2>1. v.start \in Nat /\ v.end \in Nat /\ w.start \in Nat /\ w.end \in Nat /\ v.start < v.end /\ w.start < w.end
    BY RegionBounds
  <2>2. CASE v.start < w.end
    <3>1. v = w
      BY <1>1, <2>1, <2>2, SameRegion
    <3> QED BY <2>1, <3>1
  <2>3. CASE ~(v.start < w.end)
    BY <2>1, <2>3
  <2> QED BY <2>2, <2>3
<1> QED BY <1>1 DEF containing_vma

\* The regions a walk with find_next still has to see at address a.
Above(a) == {v \in allocations : v.end > a}

\* query_region gives the first of them, and after it come the others.
LEMMA QueryIsFirst ==
    ASSUME MemInv, NEW a \in Nat
    PROVE  /\ query_region(a) \subseteq Above(a)
           /\ Above(a) # {} => query_region(a) # {}
           /\ \A v \in query_region(a) : Above(a) = {v} \cup Above(v.end)
<1>1. \A v \in allocations : v.start \in Nat /\ v.end \in Nat /\ v.start < v.end
  BY RegionBounds
<1>2. CASE containing_vma(a) # {}
  <2>1. query_region(a) = {v \in allocations : v.start <= a /\ a < v.end} /\ query_region(a) # {}
    BY <1>2, ContainingIs DEF query_region
  <2>2. ASSUME NEW v \in query_region(a) PROVE Above(a) = {v} \cup Above(v.end)
    <3>1. v \in allocations /\ v.start <= a /\ a < v.end
      BY <2>1
    <3>2. ASSUME NEW w \in allocations, w.end > a, w # v PROVE w.end > v.end
      <4>1. ~(w.start < v.end)
        BY <1>1, <3>1, <3>2, SameRegion
      <4> QED BY <1>1, <3>1, <4>1
    <3>3. ASSUME NEW w \in allocations, w.end > v.end PROVE w.end > a
      BY <1>1, <3>1, <3>3
    <3> QED BY <3>1, <3>2, <3>3 DEF Above
  <2> QED BY <1>1, <2>1, <2>2 DEF Above
<1>3. CASE containing_vma(a) = {}
  <2>1. query_region(a) = {v \in allocations :
            v.start >= a /\ \A w \in allocations : w.start >= a => v.start <= w.start}
    BY <1>3 DEF query_region
  <2>2. \A v \in allocations : v.end > a <=> v.start >= a
    <3>1. \A v \in allocations : ~(v.start <= a /\ a < v.end)
      BY <1>3, ContainingIs
    <3> QED BY <1>1, <3>1
  <2>3. query_region(a) \subseteq Above(a)
    BY <2>1, <2>2 DEF Above
  <2>4. ASSUME Above(a) # {} PROVE query_region(a) # {}
    <3> DEFINE T == {v.start : v \in Above(a)}
    <3>1. T \subseteq Nat /\ T # {}
      BY <1>1, <2>4 DEF Above
    <3>2. PICK m \in T : \A y \in T : m <= y
      <4> HIDE DEF T
      <4> QED BY <3>1, LeastNumber
    <3>3. PICK v \in Above(a) : m = v.start
      BY <3>2
    <3>4. \A w \in Above(a) : v.start <= w.start
      BY <3>2, <3>3
    <3>5. v \in query_region(a)
      BY <2>1, <2>2, <3>4 DEF Above
    <3> QED BY <3>5
  <2>5. ASSUME NEW v \in query_region(a) PROVE Above(a) = {v} \cup Above(v.end)
    <3>1. v \in allocations /\ v.start >= a /\ \A w \in allocations : w.start >= a => v.start <= w.start
      BY <2>1
    <3>2. ASSUME NEW w \in allocations, w.end > a, w # v PROVE w.end > v.end
      <4>1. v.start <= w.start
        BY <2>2, <3>1, <3>2
      <4>2. ~(w.start < v.end)
        BY <1>1, <3>1, <3>2, <4>1, SameRegion
      <4> QED BY <1>1, <3>1, <4>2
    <3>3. ASSUME NEW w \in allocations, w.end > v.end PROVE w.end > a
      BY <1>1, <3>1, <3>3
    <3>4. v.end > a
      BY <1>1, <3>1
    <3> QED BY <3>1, <3>2, <3>3, <3>4 DEF Above
  <2> QED BY <2>3, <2>4, <2>5
<1> QED BY <1>2, <1>3

\* The equation of the walk with find_next.
IsVisit(f) == f = [a \in 0..ArenaEnd |-> UNION {{v} \cup f[v.end] : v \in query_region(a)}]

\* It has a solution: what lies above.
LEMMA VisitExists ==
    ASSUME MemInv
    PROVE  \E f : IsVisit(f)
<1> DEFINE f == [a \in 0..ArenaEnd |-> Above(a)]
<1>1. ASSUME NEW a \in 0..ArenaEnd
      PROVE  Above(a) = UNION {{v} \cup f[v.end] : v \in query_region(a)}
  <2>1. a \in Nat
    BY ArenaAssumption
  <2>2. ASSUME NEW v \in query_region(a) PROVE {v} \cup f[v.end] = Above(a)
    <3>1. v \in allocations
      BY <2>1, <2>2, QueryIsFirst DEF Above
    <3>2. v.end \in 0..ArenaEnd
      BY <3>1, RegionBounds, ArenaAssumption
    <3> QED BY <2>1, <2>2, <3>2, QueryIsFirst
  <2> HIDE DEF f
  <2>3. Above(a) # {} => query_region(a) # {}
    BY <2>1, QueryIsFirst
  <2> QED BY <2>2, <2>3
<1>2. IsVisit(f)
  BY <1>1, Zenon DEF IsVisit
<1> QED BY <1>2

\* And no other.
LEMMA VisitIs ==
    ASSUME MemInv, NEW f, IsVisit(f), NEW b \in 0..ArenaEnd
    PROVE  f[b] = Above(b)
<1> DEFINE T == {a \in 0..ArenaEnd : f[a] # Above(a)}
<1> SUFFICES ASSUME T # {} PROVE FALSE
  OBVIOUS
<1>1. PICK a \in T : \A c \in T : c <= a
  <2>1. T \subseteq 0..ArenaEnd /\ ArenaEnd \in Nat
    BY ArenaAssumption
  <2> HIDE DEF T
  <2> QED BY <2>1, GreatestNumber
<1>2. a \in 0..ArenaEnd /\ a \in Nat
  BY <1>1
<1>3. ASSUME NEW v \in query_region(a) PROVE f[v.end] = Above(v.end) /\ {v} \cup f[v.end] = Above(a)
  <2>1. v \in allocations /\ v.end > a
    BY <1>2, <1>3, QueryIsFirst DEF Above
  <2>2. v.end \in 0..ArenaEnd /\ ~(v.end <= a)
    BY <1>2, <2>1, RegionBounds, ArenaAssumption
  <2>3. f[v.end] = Above(v.end)
    BY <1>1, <2>2
  <2> QED BY <1>2, <1>3, <2>3, QueryIsFirst
<1>4. f[a] = UNION {{v} \cup f[v.end] : v \in query_region(a)}
  BY <1>2 DEF IsVisit
<1>5. Above(a) # {} => query_region(a) # {}
  BY <1>2, QueryIsFirst
<1>6. f[a] = Above(a)
  BY <1>3, <1>4, <1>5
<1> QED BY <1>1, <1>6

\* A walk with find_next from 0 sees every region.
LEMMA WalkSeesAll ==
    ASSUME MemInv
    PROVE  LET walk[a \in 0..ArenaEnd] == UNION {{v} \cup walk[v.end] : v \in query_region(a)}
           IN  walk[0] = allocations
<1> DEFINE r == CHOOSE f : IsVisit(f)
<1>1. IsVisit(r)
  BY VisitExists
<1>2. 0 \in 0..ArenaEnd
  BY ArenaAssumption
<1>3. r[0] = Above(0)
  <2> HIDE DEF r
  <2> QED BY <1>1, <1>2, VisitIs
<1>4. Above(0) = allocations
  BY RegionBounds DEF Above
<1>5. r[0] = allocations
  BY <1>3, <1>4
<1> QED BY <1>5, Zenon DEF IsVisit

\* The equation of a ranged access to [addr, m).
IsRanged(f, b, m) == f = [c \in 0..b |-> \/ c >= m
                                         \/ \E v \in containing_vma(c) : f[v.end]]
AllTracked(c, m) == Units(c, m) \subseteq Tracked(allocations)

\* One step of it: nothing left, or on from the end of the region.
LEMMA RangedStep ==
    ASSUME MemInv, NEW c \in Nat, NEW m \in Nat
    PROVE  AllTracked(c, m) <=> \/ c >= m
                                \/ \E v \in containing_vma(c) : AllTracked(v.end, m)
<1>1. \A v \in allocations : v.start \in Nat /\ v.end \in Nat
  BY RegionBounds
<1>2. \A x : x \in Units(c, m) <=> x \in Int /\ c <= x /\ x < m
  BY UnitsAre
<1>3. CASE c >= m
  <2>1. Units(c, m) = {}
    BY <1>2, <1>3
  <2> QED BY <1>3, <2>1 DEF AllTracked
<1>4. ASSUME c < m, AllTracked(c, m) PROVE \E v \in containing_vma(c) : AllTracked(v.end, m)
  <2>1. c \in Tracked(allocations)
    BY <1>2, <1>4 DEF AllTracked
  <2>2. PICK v \in allocations : c \in Units(v.start, v.end)
    BY <2>1, TrackedAre
  <2>3. v.start <= c /\ c < v.end
    BY <1>1, <2>2, UnitsAre
  <2>4. Units(v.end, m) \subseteq Units(c, m)
    BY <1>1, <2>3 DEF Units
  <2> QED BY <1>4, <2>3, <2>4, ContainingIs DEF AllTracked
<1>5. ASSUME NEW v \in containing_vma(c), AllTracked(v.end, m) PROVE AllTracked(c, m)
  <2>1. v \in allocations /\ v.start <= c /\ c < v.end
    BY ContainingIs
  <2>2. ASSUME NEW x \in Units(c, m) PROVE x \in Tracked(allocations)
    <3>1. x \in Int /\ c <= x /\ x < m
      BY <1>2
    <3>2. CASE x < v.end
      <4>1. x \in Units(v.start, v.end)
        BY <1>1, <2>1, <3>1, <3>2, UnitsAre
      <4> QED BY <2>1, <4>1, TrackedAre
    <3>3. CASE ~(x < v.end)
      <4>1. x \in Units(v.end, m)
        BY <1>1, <2>1, <3>1, <3>3, UnitsAre
      <4> QED BY <1>5, <4>1 DEF AllTracked
    <3> QED BY <3>2, <3>3
  <2> QED BY <2>2 DEF AllTracked
<1> QED BY <1>3, <1>4, <1>5

\* It has a solution.
LEMMA RangedExists ==
    ASSUME MemInv, NEW b \in Nat, ArenaEnd <= b, NEW m \in Nat
    PROVE  \E f : IsRanged(f, b, m)
<1> DEFINE f == [c \in 0..b |-> AllTracked(c, m)]
<1>1. ASSUME NEW c \in 0..b
      PROVE  AllTracked(c, m) = (c >= m \/ \E v \in containing_vma(c) : f[v.end])
  <2>1. c \in Nat
    OBVIOUS
  <2>2. ASSUME NEW v \in containing_vma(c) PROVE f[v.end] = AllTracked(v.end, m)
    <3>1. v \in allocations
      BY <2>1, ContainingIs
    <3>2. v.end \in 0..b
      BY <3>1, RegionBounds, ArenaAssumption
    <3> QED BY <3>2
  <2> HIDE DEF f
  <2>3. (\E v \in containing_vma(c) : f[v.end]) <=> \E v \in containing_vma(c) : AllTracked(v.end, m)
    BY <2>2, Zenon
  <2>4. AllTracked(c, m) <=> (c >= m \/ \E v \in containing_vma(c) : f[v.end])
    BY <2>1, <2>3, RangedStep, Zenon
  <2>5. AllTracked(c, m) \in BOOLEAN
    BY DEF AllTracked
  <2> QED BY <2>4, <2>5, Zenon
<1>2. IsRanged(f, b, m)
  BY <1>1, Zenon DEF IsRanged
<1> QED BY <1>2

\* And no other.
LEMMA RangedIs ==
    ASSUME MemInv, NEW b \in Nat, ArenaEnd <= b, NEW m \in Nat, NEW f, IsRanged(f, b, m), NEW d \in 0..b
    PROVE  f[d] <=> AllTracked(d, m)
<1> DEFINE T == {c \in 0..b : ~(f[c] <=> AllTracked(c, m))}
<1> SUFFICES ASSUME T # {} PROVE FALSE
  OBVIOUS
<1>1. PICK c \in T : \A x \in T : x <= c
  <2>1. T \subseteq 0..b
    OBVIOUS
  <2> HIDE DEF T
  <2> QED BY <2>1, GreatestNumber
<1>2. c \in 0..b /\ c \in Nat /\ ~(f[c] <=> AllTracked(c, m))
  BY <1>1
<1>3. ASSUME NEW v \in containing_vma(c) PROVE f[v.end] <=> AllTracked(v.end, m)
  <2>1. v \in allocations /\ c < v.end
    BY <1>2, ContainingIs
  <2>2. v.end \in 0..b /\ ~(v.end <= c)
    BY <1>2, <2>1, RegionBounds, ArenaAssumption
  <2> QED BY <1>1, <2>2
<1> HIDE DEF T
<1>4. f[c] <=> (c >= m \/ \E v \in containing_vma(c) : f[v.end])
  <2>1. f[c] = (c >= m \/ \E v \in containing_vma(c) : f[v.end])
    BY <1>2, Zenon DEF IsRanged
  <2> QED BY <2>1, Zenon
<1>5. f[c] <=> (c >= m \/ \E v \in containing_vma(c) : AllTracked(v.end, m))
  BY <1>3, <1>4, Zenon
<1>6. f[c] <=> AllTracked(c, m)
  BY <1>2, <1>5, RangedStep, Zenon
<1> QED BY <1>2, <1>6, Zenon

\* A ranged access goes through when every unit of it is in some region.
LEMMA RangedTrue ==
    ASSUME MemInv, NEW a \in Nat, NEW n \in Nat, a <= ArenaEnd
    PROVE  read_bytes_ranged(a, n) <=> Units(a, a + n) \subseteq Tracked(allocations)
<1> DEFINE b == ArenaEnd + n
           m == a + n
           r == CHOOSE f : IsRanged(f, b, m)
<1>1. b \in Nat /\ m \in Nat /\ ArenaEnd <= b /\ a \in 0..b
  BY ArenaAssumption
<1>2. IsRanged(r, b, m)
  <2> HIDE DEF b, m
  <2> QED BY <1>1, RangedExists
<1>3. r[a] <=> AllTracked(a, m)
  <2> HIDE DEF b, m, r
  <2> QED BY <1>1, <1>2, RangedIs
<1>4. read_bytes_ranged(a, n) = r[a]
  BY Zenon DEF read_bytes_ranged, IsRanged
<1> HIDE DEF r
<1>5. read_bytes_ranged(a, n) <=> AllTracked(a, m)
  BY <1>3, <1>4, Zenon
<1> QED BY <1>5, Zenon DEF AllTracked

----------------------------------------------------------------------------
(* Direct memory reported as available *)

\* Multiples of a number keep their order.
LEMMA MultiplesOrdered ==
    ASSUME NEW n \in Nat \ {0}, NEW i \in Int, NEW j \in Int, i < j
    PROVE  i * n + n <= j * n
<1>1. i + 1 <= j
  OBVIOUS
<1>2. (i + 1) * n <= j * n
  BY <1>1, Z3
<1> QED BY <1>2, Z3

\* Rounding up gives the least multiple that is large enough.
LEMMA RoundUpLeast ==
    ASSUME NEW a \in Nat, NEW n \in Nat \ {0}, NEW k \in Int, a <= k * n
    PROVE  RoundUp(a, n) <= k * n
<1> DEFINE b == a + n - 1
           q == b \div n
<1>1. b \in Nat /\ q \in Nat
  BY Z3
<1>2. q * n <= b
  BY <1>1, Z3
<1>3. b < k * n + n
  BY Z3
<1>4. q * n \in Int /\ k * n \in Int
  BY <1>1, Z3
<1>5. RoundUp(a, n) = q * n
  BY DEF RoundUp
<1> HIDE DEF q, b
<1>6. ~(k < q)
  <2> SUFFICES ASSUME k < q PROVE FALSE
    OBVIOUS
  <2>1. k * n + n <= q * n
    BY <1>1, MultiplesOrdered
  <2> QED BY <1>1, <1>2, <1>3, <1>4, <2>1
<1>7. CASE q = k
  BY <1>4, <1>5, <1>7
<1>8. CASE q < k
  <2>1. q * n + n <= k * n
    BY <1>1, <1>8, MultiplesOrdered
  <2> QED BY <1>4, <1>5, <2>1
<1> QED BY <1>1, <1>6, <1>7, <1>8

\* What is rounded up is a multiple.
LEMMA RoundUpMultiple ==
    ASSUME NEW a \in Nat, NEW n \in Nat \ {0}
    PROVE  \E k \in Nat : RoundUp(a, n) = k * n
<1>1. (a + n - 1) \div n \in Nat
  BY Z3
<1> QED BY <1>1 DEF RoundUp

\* A number with no remainder is a multiple.
LEMMA NoRemainder ==
    ASSUME NEW a \in Nat, NEW n \in Nat \ {0}, a % n = 0
    PROVE  \E k \in Nat : a = k * n
<1>1. a \div n \in Nat
  BY Z3
<1>2. a = (a \div n) * n
  BY <1>1, Z3
<1> QED BY <1>1, <1>2

\* Direct memory reported as available can be reserved: the run begins where a
\* reservation would at the earliest, and both ends of the pool are whole
\* pages, so the rounding of the length has room.
LEMMA AvailableHasRoom ==
    ASSUME MemInv, WholeAligns, NEW s \in 0..PoolSize, NEW e \in 0..PoolSize, NEW al \in Aligns,
           NEW n, n = available_direct_memory(s, e, al), n > 0
    PROVE  HasRoom(n, al)
<1> DEFINE A == MaxOf(al, Page)
           x == MaxOf(s, next_off)
           start == RoundUp(x, A)
           end == IF e = 0 THEN PoolSize ELSE MinOf(e, PoolSize)
<1>1. /\ Page \in Nat \ {0} /\ PoolSize \in Nat /\ next_off \in Nat /\ s \in Nat /\ e \in Nat
      /\ A \in Nat \ {0} /\ A % Page = 0 /\ PoolSize % Page = 0
  BY ArenaAssumption, InputAssumption DEF MemInv, MemoryTypeOK, WholeAligns, MaxOf
<1>2. x \in Nat /\ next_off <= x
  BY <1>1 DEF MaxOf
<1>3. start \in Nat
  <2> HIDE DEF A, x
  <2> QED BY <1>1, <1>2, RoundUpUp
<1>4. end \in Nat /\ end <= PoolSize
  BY <1>1 DEF MinOf
<1>5. n = end - start /\ start < end
  <2>1. n = IF start < PoolSize /\ start < end THEN end - start ELSE 0
    BY DEF available_direct_memory
  <2> HIDE DEF start, end
  <2> QED BY <2>1, <1>3, <1>4
<1>6. AllocOff(al) \in Nat /\ AllocOff(al) <= start
  <2> HIDE DEF A, x
  <2>1. PICK k \in Nat : start = k * A
    BY <1>1, <1>2, RoundUpMultiple
  <2>2. x <= start
    BY <1>1, <1>2, RoundUpUp
  <2>3. next_off <= k * A
    BY <1>1, <1>2, <1>3, <2>1, <2>2
  <2>4. RoundUp(next_off, A) \in Nat /\ RoundUp(next_off, A) <= k * A
    <3>1. k \in Int
      OBVIOUS
    <3>2. RoundUp(next_off, A) \in Nat
      BY <1>1, RoundUpUp
    <3>3. RoundUp(next_off, A) <= k * A
      BY <1>1, <2>3, <3>1, RoundUpLeast, Zenon
    <3> QED BY <3>2, <3>3
  <2> QED BY <2>1, <2>4 DEF AllocOff, A
<1>7. PICK d \in Int : PoolSize - start = d * Page
  <2>1. PICK k \in Nat : start = k * A
    <3> HIDE DEF A, x
    <3> QED BY <1>1, <1>2, RoundUpMultiple
  <2>2. PICK j \in Nat : A = j * Page
    <3> HIDE DEF A
    <3> QED BY <1>1, NoRemainder
  <2>3. PICK q \in Nat : PoolSize = q * Page
    BY <1>1, NoRemainder
  <2> HIDE DEF A, start
  <2>4. start = (k * j) * Page
    BY <1>1, <2>1, <2>2, Z3
  <2>5. k * j \in Nat
    BY Z3
  <2>6. PoolSize - start = (q - k * j) * Page
    BY <1>1, <2>3, <2>4, <2>5, Z3
  <2> QED BY <2>5, <2>6
<1> HIDE DEF A, x, start, end
<1>8. n \in Nat /\ n <= PoolSize - start
  BY <1>1, <1>3, <1>4, <1>5
<1>9. Page <= PoolSize - start
  <2>1. 0 < d
    <3> SUFFICES ASSUME d <= 0 PROVE FALSE
      OBVIOUS
    <3>1. d * Page <= 0
      BY <1>1, Z3
    <3> QED BY <1>1, <1>3, <1>4, <1>5, <1>7, <3>1
  <2>2. 0 * Page + Page <= d * Page
    BY <1>1, <2>1, MultiplesOrdered
  <2> QED BY <1>1, <1>7, <2>2
<1>10. MaxOf(n, Page) \in Nat /\ MaxOf(n, Page) <= d * Page
  BY <1>1, <1>7, <1>8, <1>9 DEF MaxOf
<1>11. AllocLen(n) \in Nat /\ AllocLen(n) <= PoolSize - start
  <2>1. RoundUp(MaxOf(n, Page), Page) <= d * Page /\ RoundUp(MaxOf(n, Page), Page) \in Nat
    <3>1. RoundUp(MaxOf(n, Page), Page) <= d * Page
      BY <1>1, <1>10, RoundUpLeast, Zenon
    <3> QED BY <1>1, <1>10, <3>1, RoundUpUp
  <2> QED BY <1>7, <2>1 DEF AllocLen
<1> QED BY <1>1, <1>3, <1>6, <1>11 DEF HasRoom

\* What the guest is told of the address space is so, for any sizes, addresses
\* and mix of calls, if it aligns direct memory to whole pages: a walk with
\* find_next sees every region and they do not overlap (query_region), a
\* ranged access is let through exactly when it is mapped from end to end
\* (read_bytes_ranged, write_bytes_ranged), and direct memory reported as
\* available can be reserved (available_direct_memory).
THEOREM QueriesTrue ==
    ASSUME WholeAligns
    PROVE  MemorySpec => []QueriesTellTheTruth
<1>1. MemInv => QueriesTellTheTruth
  <2> SUFFICES ASSUME MemInv PROVE QueriesTellTheTruth
    OBVIOUS
  <2>1. RegionsDisjoint
    BY DEF MemInv
  <2>2. ASSUME NEW a \in Arena, NEW n \in Sizes
        PROVE  read_bytes_ranged(a, n) <=> Units(a, a + n) \subseteq Tracked(allocations)
    <3>1. a \in Nat /\ n \in Nat /\ a <= ArenaEnd
      BY InputAssumption, ArenaAssumption DEF Arena, Units
    <3> QED BY <3>1, RangedTrue
  <2>3. ASSUME NEW s \in 0..PoolSize, NEW e \in 0..PoolSize, NEW al \in Aligns
        PROVE  LET n == available_direct_memory(s, e, al) IN n > 0 => HasRoom(n, al)
    <3> DEFINE n == available_direct_memory(s, e, al)
    <3>1. ASSUME n > 0 PROVE HasRoom(n, al)
      <4>1. PICK k : k = n
        OBVIOUS
      <4> HIDE DEF n
      <4>2. k = available_direct_memory(s, e, al) /\ k > 0
        BY <3>1, <4>1 DEF n
      <4>3. HasRoom(k, al)
        BY <4>2, AvailableHasRoom
      <4> QED BY <4>1, <4>3
    <3> QED BY <3>1
  <2> QED BY <2>1, <2>2, <2>3, WalkSeesAll, Zenon DEF QueriesTellTheTruth
<1> QED BY <1>1, MemoryInvariance, PTL
----------------------------------------------------------------------------
(***************************************************************************)
(* Image: the ELF taken out of a container, for any program headers and    *)
(* any table of segments.  Every cell that is written gets what the ELF    *)
(* has there, so a later segment never spoils an earlier one, however they *)
(* overlap (CopiedSoFar); that a copy finds room is the size of the output *)
(* buffer, the largest end of a program header.                            *)
(***************************************************************************)
EndOf(e, i) == e.phdrs[i].off + e.phdrs[i].filesz

\* The buffer has room for the headers and every program header's data.
LEMMA ElfSizeHolds ==
    ASSUME NEW e \in Elfs
    PROVE  /\ ElfSize(e) \in Nat /\ HDR <= ElfSize(e)
           /\ \A i \in DOMAIN e.phdrs : EndOf(e, i) \in Nat /\ EndOf(e, i) <= ElfSize(e)
<1> DEFINE n == Len(e.phdrs)
           E(k) == {HDR} \cup {EndOf(e, i) : i \in 1..k}
           Topped(k) == \E x \in E(k) : \A y \in E(k) : x >= y
           S == {k \in Nat : k <= n => Topped(k)}
<1>1. n \in Nat /\ DOMAIN e.phdrs = 1..n /\ HDR \in Nat /\ \A i \in 1..n : EndOf(e, i) \in Nat
  BY FileAssumption, ImageAssumption DEF EndOf
<1> HIDE DEF n
<1>2. Topped(0)
  BY <1>1
<1>3. ASSUME NEW k \in Nat, k \in S, k + 1 <= n PROVE Topped(k + 1)
  <2>1. PICK x \in E(k) : \A y \in E(k) : x >= y
    BY <1>1, <1>3
  <2> DEFINE z == EndOf(e, k + 1)
  <2>2. E(k + 1) = E(k) \cup {z}
    <3>1. 1..k + 1 = (1..k) \cup {k + 1}
      OBVIOUS
    <3> QED BY <3>1
  <2>3. E(k) \subseteq Nat /\ z \in Nat
    BY <1>1, <1>3
  <2> HIDE DEF E, z
  <2>4. CASE x >= z
    BY <2>1, <2>2, <2>4
  <2>5. CASE ~(x >= z)
    <3>1. \A y \in E(k + 1) : z >= y
      BY <2>1, <2>2, <2>3, <2>5
    <3> QED BY <2>2, <3>1
  <2> QED BY <2>4, <2>5
<1>4. Topped(n)
  <2> HIDE DEF Topped
  <2>1. 0 \in S /\ \A k \in Nat : k \in S => k + 1 \in S
    BY <1>2, <1>3
  <2> HIDE DEF S
  <2>2. n \in S
    BY <1>1, <2>1, Induction
  <2> QED BY <1>1, <2>2 DEF S
<1>5. ElfSize(e) = Max(E(n))
  BY <1>1 DEF ElfSize, EndOf
<1>6. ElfSize(e) \in E(n) /\ \A y \in E(n) : ElfSize(e) >= y
  <2> HIDE DEF E
  <2> QED BY <1>4, <1>5 DEF Max
<1> QED BY <1>1, <1>6

\* The first n segments are where their program headers have them.
CopiedSoFar(n) ==
    \A j \in 1..n : pack.segs[j].blocked =>
        LET ph == elf.phdrs[pack.segs[j].id] IN
        /\ pack.segs[j].id \in DOMAIN elf.phdrs
        /\ \A c \in ph.off + 1..ph.off + CopyLen(pack.segs[j]) : rebuilt[c] = c

ImageInv ==
    /\ elf \in Elfs /\ pack \in Packings /\ copied \in Nat
    /\ stage \in {"self", "elf", "parsed"} =>
          /\ rebuilt = [c \in 1..ElfSize(elf) |-> rebuilt[c]]
          /\ \A c \in 1..HDR : rebuilt[c] = c
    /\ stage = "self" => copied <= Len(pack.segs) /\ CopiedSoFar(copied)
    /\ stage \in {"elf", "parsed"} /\ pack.fault # "plain" => CopiedSoFar(Len(pack.segs))

\* No more of a segment is copied than its program header has room for.
LEMMA SmallerIs ==
    ASSUME NEW a \in Nat, NEW b \in Nat
    PROVE  Smaller(a, b) \in Nat /\ Smaller(a, b) <= b
BY DEF Smaller

\* A segment is copied: cells of the ELF, over whatever was there.
LEMMA copy_segment_Image ==
    ASSUME ImageInv, copy_segment
    PROVE  ImageInv'
<1> DEFINE k == copied + 1
           s == pack.segs[k]
           ph == elf.phdrs[s.id]
<1>1. /\ elf \in Elfs /\ pack \in Packings /\ copied \in Nat /\ k \in 1..Len(pack.segs)
      /\ Len(pack.segs) \in Nat
      /\ stage = "self" /\ CopiedSoFar(copied)
      /\ UNCHANGED <<elf, pack, stage>> /\ copied' = k
  <2>1. stage = "self" /\ copied < Len(pack.segs) /\ copied' = k /\ UNCHANGED <<elf, pack, stage>>
    BY DEF copy_segment
  <2>2. elf \in Elfs /\ pack \in Packings /\ copied \in Nat /\ CopiedSoFar(copied)
    BY <2>1 DEF ImageInv
  <2>3. Len(pack.segs) \in Nat
    BY <2>2, FileAssumption
  <2> QED BY <2>1, <2>2, <2>3
<1>2. rebuilt = [c \in 1..ElfSize(elf) |-> rebuilt[c]] /\ \A c \in 1..HDR : rebuilt[c] = c
  BY <1>1 DEF ImageInv
<1>3. ElfSize(elf) \in Nat /\ HDR <= ElfSize(elf) /\ HDR \in Nat
  BY <1>1, ElfSizeHolds, ImageAssumption
<1>4. CASE ~s.blocked
  <2>1. rebuilt' = rebuilt
    BY <1>4 DEF copy_segment
  <2>2. CopiedSoFar(copied)'
    BY <1>1, <1>4, <2>1 DEF CopiedSoFar, CopyLen
  <2> QED BY <1>1, <1>2, <2>1, <2>2 DEF ImageInv
<1>5. CASE s.blocked
  <2>1. s.id \in DOMAIN elf.phdrs
    BY <1>5 DEF copy_segment, SegmentBad
  <2>2. /\ ph.off \in Nat /\ ph.filesz \in Nat /\ s.usize \in Nat
        /\ ph.off + ph.filesz <= ElfSize(elf)
    <3>1. ph.off \in Nat /\ ph.filesz \in Nat /\ s.usize \in Nat
      BY <1>1, <2>1, FileAssumption
    <3>2. ph.off + ph.filesz <= ElfSize(elf)
      BY <1>1, <2>1, ElfSizeHolds DEF EndOf
    <3> QED BY <3>1, <3>2
  <2>3. CopyLen(s) \in Nat /\ CopyLen(s) <= ph.filesz
    BY <2>2, SmallerIs, Zenon DEF CopyLen
  <2>4. rebuilt' = [c \in 1..ElfSize(elf) |->
                      IF c \in ph.off + 1..ph.off + CopyLen(s) THEN RawCell(k, c - ph.off) ELSE rebuilt[c]]
    BY <1>2, <1>5 DEF copy_segment
  <2>5. \A c \in Int : RawCell(k, c - ph.off) = c
    BY <2>2 DEF RawCell
  <2> HIDE DEF ph
  <2>6. \A c \in 1..ElfSize(elf) : rebuilt'[c] = c \/ rebuilt'[c] = rebuilt[c]
    BY <2>4, <2>5
  <2>7. \A c \in ph.off + 1..ph.off + CopyLen(s) : c \in 1..ElfSize(elf) /\ rebuilt'[c] = c
    <3>1. ASSUME NEW c \in ph.off + 1..ph.off + CopyLen(s) PROVE c \in 1..ElfSize(elf)
      BY <1>3, <2>2, <2>3
    <3> QED BY <2>4, <2>5, <3>1
  <2>8. \A c \in 1..HDR : rebuilt'[c] = c
    BY <1>2, <1>3, <2>6
  <2>9. CopiedSoFar(copied)'
    <3> SUFFICES ASSUME NEW j \in 1..k, pack.segs[j].blocked
                 PROVE  LET q == elf.phdrs[pack.segs[j].id] IN
                        /\ pack.segs[j].id \in DOMAIN elf.phdrs
                        /\ \A c \in q.off + 1..q.off + CopyLen(pack.segs[j]) : rebuilt'[c] = c
      BY <1>1 DEF CopiedSoFar, CopyLen
    <3>1. CASE j = k
      BY <2>1, <2>7, <3>1 DEF ph
    <3>2. CASE j # k
      <4> DEFINE q == elf.phdrs[pack.segs[j].id]
                 t == pack.segs[j]
      <4>1. j \in 1..copied /\ j \in DOMAIN pack.segs
        BY <1>1, <3>2, FileAssumption
      <4>2. t.id \in DOMAIN elf.phdrs /\ \A c \in q.off + 1..q.off + CopyLen(t) : rebuilt[c] = c
        BY <1>1, <4>1 DEF CopiedSoFar
      <4>3. q.off \in Nat /\ q.filesz \in Nat /\ t.usize \in Nat /\ q.off + q.filesz <= ElfSize(elf)
        <5>1. q.off \in Nat /\ q.filesz \in Nat /\ t.usize \in Nat
          BY <1>1, <4>1, <4>2, FileAssumption
        <5>2. q.off + q.filesz <= ElfSize(elf)
          BY <1>1, <4>2, ElfSizeHolds DEF EndOf
        <5> QED BY <5>1, <5>2
      <4>4. CopyLen(t) \in Nat /\ CopyLen(t) <= q.filesz
        BY <4>3, SmallerIs, Zenon DEF CopyLen
      <4> HIDE DEF q, t
      <4>5. ASSUME NEW c \in q.off + 1..q.off + CopyLen(t) PROVE c \in 1..ElfSize(elf)
        BY <1>3, <4>3, <4>4
      <4>6. \A c \in q.off + 1..q.off + CopyLen(t) : rebuilt'[c] = c
        BY <2>6, <4>2, <4>5
      <4> QED BY <4>2, <4>6 DEF q, t
    <3> QED BY <3>1, <3>2
  <2>10. rebuilt' = [c \in 1..ElfSize(elf) |-> rebuilt'[c]]
    BY <2>4
  <2>11. copied' \in Nat /\ copied' <= Len(pack.segs)
    BY <1>1
  <2> HIDE DEF k, s
  <2> QED BY <1>1, <2>8, <2>9, <2>10, <2>11 DEF ImageInv
<1> QED BY <1>4, <1>5

\* The files before their segments are copied.
LEMMA open_Image ==
    ASSUME ImageInv, open_elf \/ extract_from_self
    PROVE  ImageInv'
<1>1. elf \in Elfs /\ pack \in Packings /\ copied \in Nat /\ UNCHANGED <<elf, pack>>
  BY DEF ImageInv, open_elf, extract_from_self
<1>2. ElfSize(elf) \in Nat /\ HDR <= ElfSize(elf) /\ HDR \in Nat
  BY <1>1, ElfSizeHolds, ImageAssumption
<1>3. Len(pack.segs) \in Nat
  BY <1>1, FileAssumption
<1>4. CASE open_elf
  <2>1. rebuilt' = [c \in 1..ElfSize(elf) |-> c] /\ stage' = "elf" /\ pack.fault = "plain" /\ copied' = copied
    BY <1>4 DEF open_elf
  <2>2. /\ rebuilt' = [c \in 1..ElfSize(elf) |-> rebuilt'[c]]
        /\ \A c \in 1..HDR : rebuilt'[c] = c
    BY <1>2, <2>1
  <2> QED BY <1>1, <2>1, <2>2 DEF ImageInv
<1>5. CASE extract_from_self
  <2>1. /\ rebuilt' = [c \in 1..ElfSize(elf) |-> IF c <= HDR THEN c ELSE 0]
        /\ stage' = "self" /\ copied' = 0
    BY <1>5 DEF extract_from_self
  <2>2. /\ rebuilt' = [c \in 1..ElfSize(elf) |-> rebuilt'[c]]
        /\ \A c \in 1..HDR : rebuilt'[c] = c
    BY <1>2, <2>1
  <2>3. CopiedSoFar(0)' /\ 0 <= Len(pack.segs)
    BY <1>3 DEF CopiedSoFar
  <2> QED BY <1>1, <2>1, <2>2, <2>3 DEF ImageInv
<1> QED BY <1>4, <1>5

\* The other steps move on, or begin another file.
LEMMA Others_Image ==
    ASSUME ImageInv,
           \/ open_rejects \/ copy_rejects \/ copy_end \/ parse \/ map_image \/ next_image
           \/ UNCHANGED imageVars
    PROVE  ImageInv'
<1>1. CASE open_rejects \/ copy_rejects \/ map_image
  <2>1. UNCHANGED <<elf, pack, copied>> /\ stage' \in {"rejected", "mapped"}
    BY <1>1 DEF open_rejects, copy_rejects, map_image, Reject
  <2> QED BY <2>1 DEF ImageInv
<1>2. CASE copy_end
  <2>1. UNCHANGED <<elf, pack, copied, rebuilt>> /\ stage = "self" /\ stage' = "elf" /\ copied = Len(pack.segs)
    BY <1>2 DEF copy_end
  <2>2. CopiedSoFar(Len(pack.segs))'
    BY <2>1 DEF ImageInv, CopiedSoFar, CopyLen
  <2> QED BY <2>1, <2>2 DEF ImageInv
<1>3. CASE parse
  <2>1. UNCHANGED <<elf, pack, copied, rebuilt>> /\ stage = "elf" /\ stage' = "parsed"
    BY <1>3 DEF parse
  <2>2. pack.fault # "plain" => CopiedSoFar(Len(pack.segs))'
    BY <2>1 DEF ImageInv, CopiedSoFar, CopyLen
  <2> QED BY <2>1, <2>2 DEF ImageInv
<1>4. CASE next_image
  <2>1. elf' \in Elfs /\ pack' \in Packings /\ copied' = 0 /\ stage' = "file"
    BY <1>4 DEF next_image
  <2> QED BY <2>1 DEF ImageInv
<1>5. CASE UNCHANGED imageVars
  BY <1>5 DEF ImageInv, imageVars, CopiedSoFar, CopyLen
<1> QED BY <1>1, <1>2, <1>3, <1>4, <1>5

\* The ELF taken out of a container is the one that was put in, whatever the
\* order of its segments and the overlaps of its program headers
\* (container.rs, extract_from_self).
THEOREM RebuiltElf == ImageSpec => []RebuiltIsTheElf
<1>1. ImageInit => ImageInv
  BY DEF ImageInit, ImageInv
<1>2. ImageInv /\ [ImageNext]_imageVars => ImageInv'
  BY copy_segment_Image, open_Image, Others_Image DEF ImageNext
<1>3. ImageInv => RebuiltIsTheElf
  <2> SUFFICES ASSUME ImageInv, stage \in {"elf", "parsed"} PROVE RebuiltIsTheElf
    BY DEF RebuiltIsTheElf
  <2>1. \A c \in 1..HDR : rebuilt[c] = c
    BY DEF ImageInv
  <2>2. ASSUME pack.fault # "plain", NEW i \in Carried,
               NEW c \in elf.phdrs[i].off + 1..elf.phdrs[i].off + elf.phdrs[i].filesz
        PROVE  rebuilt[c] = c
    <3>1. PICK j \in DOMAIN pack.segs :
              pack.segs[j].blocked /\ pack.segs[j].id = i /\ pack.segs[j].usize >= elf.phdrs[i].filesz
      BY DEF Carried
    <3>2. i \in DOMAIN elf.phdrs
      BY DEF Carried
    <3>3. j \in 1..Len(pack.segs) /\ pack.segs[j].usize \in Nat /\ elf.phdrs[i].filesz \in Nat
      BY <3>2, FileAssumption DEF ImageInv
    <3>4. CopyLen(pack.segs[j]) = elf.phdrs[i].filesz
      BY <3>1, <3>3 DEF CopyLen, Smaller
    <3>5. CopiedSoFar(Len(pack.segs))
      BY <2>2 DEF ImageInv
    <3>6. \A d \in elf.phdrs[i].off + 1..elf.phdrs[i].off + CopyLen(pack.segs[j]) : rebuilt[d] = d
      BY <3>1, <3>3, <3>5 DEF CopiedSoFar
    <3> QED BY <2>2, <3>4, <3>6
  <2> QED BY <2>1, <2>2 DEF RebuiltIsTheElf
<1> QED BY <1>1, <1>2, <1>3, PTL DEF ImageSpec
=============================================================================
