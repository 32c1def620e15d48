------------------------- MODULE KernelTablesProofs -------------------------
(***************************************************************************)
(* The kernel's tables: the pthread keys, for any threads, keys and rounds *)
(* of the sweep; the HLE arena, for any callers, slots and sizes of        *)
(* blocks; the object handles, for any tags and any width of the id field. *)
(***************************************************************************)
EXTENDS TlsKeys, HleArena, Handles, TLAPS

----------------------------------------------------------------------------
(* TlsKeys *)

TlsTypeOK ==
    /\ next \in Nat /\ len \in Nat
    /\ destructors \subseteq Nat /\ asked \subseteq Nat /\ made \subseteq Nat
    /\ slots \in [Threads -> SUBSET Nat]
    /\ pc \in [Threads -> {"guest", "record", "sweep", "dtor", "gone"}]
    /\ exiting \in [Threads -> BOOLEAN]
    /\ newkey \in [Threads -> Nat]
    /\ newdtor \in [Threads -> BOOLEAN]
    /\ round \in [Threads -> Nat]
    /\ to_run \in [Threads -> SUBSET Nat]
    /\ armed \in [Threads -> SUBSET Nat]
    /\ ran \in [Threads -> SUBSET Nat]

\* A key is made once: the number drawn is nobody else's, and the entry the
\* creator is about to write is the one it was asked for.
KeysDrawnOnce ==
    /\ \A k \in made \cup asked : k < next
    /\ \A t \in Threads : pc[t] = "record" =>
          /\ newkey[t] < next /\ newkey[t] \notin made
          /\ newdtor[t] <=> newkey[t] \in asked
          /\ \A u \in Threads : pc[u] = "record" /\ newkey[u] = newkey[t] => u = t

\* The entry of a key the guest knows is in the vector and is what it asked
\* for: no later create_key overwrites it.
EntriesStand == \A k \in made : k < len /\ (k \in asked => k \in destructors)

\* Slots hold values of keys the guest knows.
SlotsKnown == \A t \in Threads : slots[t] \subseteq made

\* The sweep: before the first round what was armed is still in the slots;
\* after it, it has run or is about to.
SweepKeeps ==
    \A t \in Threads :
        /\ pc[t] \in {"sweep", "dtor", "gone"} => exiting[t]
        /\ ~exiting[t] => round[t] = 0 /\ to_run[t] = {}
        /\ exiting[t] /\ round[t] = 0 => /\ pc[t] = "sweep" /\ to_run[t] = {}
                                         /\ armed[t] \subseteq slots[t] \cap asked
        /\ round[t] > 0 => armed[t] \subseteq to_run[t] \cup ran[t]
        /\ pc[t] = "gone" => to_run[t] = {} /\ round[t] > 0

\* A sweep that ends before its last round found nothing more to destroy.
SweptClean ==
    \A t \in Threads : pc[t] = "gone" /\ round[t] < DTOR_ITERS => slots[t] \cap asked = {}

TlsInv == TlsTypeOK /\ KeysDrawnOnce /\ EntriesStand /\ SlotsKnown /\ SweepKeeps /\ SweptClean

\* The number drawn is above every number in use.
LEMMA create_key_draw_Inv ==
    ASSUME TlsInv, NEW t \in Threads, create_key_draw(t)
    PROVE  TlsInv'
<1> USE DEF TlsInv
<1>1. PICK d \in BOOLEAN : /\ newdtor' = [newdtor EXCEPT ![t] = d]
                           /\ asked' = IF d THEN asked \cup {next} ELSE asked
  BY DEF create_key_draw
<1>2. TlsTypeOK'
  BY <1>1 DEF TlsTypeOK, create_key_draw
<1>3. KeysDrawnOnce'
  BY <1>1 DEF TlsTypeOK, KeysDrawnOnce, create_key_draw
<1>4. EntriesStand'
  BY <1>1 DEF TlsTypeOK, KeysDrawnOnce, EntriesStand, create_key_draw
<1>5. SlotsKnown'
  BY DEF SlotsKnown, create_key_draw
<1>6. SweepKeeps'
  BY <1>1 DEF TlsTypeOK, SweepKeeps, create_key_draw
<1>7. SweptClean'
  <2>1. \A u \in Threads : next \notin slots[u]
    BY DEF TlsTypeOK, KeysDrawnOnce, SlotsKnown
  <2>2. \A u \in Threads : slots[u] \cap asked' = slots[u] \cap asked
    BY <1>1, <2>1
  <2> QED
    BY <2>2 DEF TlsTypeOK, SweptClean, create_key_draw
<1> QED
  BY <1>2, <1>3, <1>4, <1>5, <1>6, <1>7

\* Writing the entry of a new key leaves the entries of the others alone,
\* whichever of two creators takes the lock first.
LEMMA create_key_record_Inv ==
    ASSUME TlsInv, NEW t \in Threads, create_key_record(t)
    PROVE  TlsInv'
<1> USE DEF TlsInv, create_key_record
<1>1. TlsTypeOK'
  <2>1. newkey[t] \in Nat
    BY DEF TlsTypeOK
  <2>2. len' \in Nat
    BY <2>1 DEF TlsTypeOK
  <2>3. destructors' \subseteq Nat /\ made' \subseteq Nat
    BY <2>1 DEF TlsTypeOK
  <2> QED
    BY <2>2, <2>3 DEF TlsTypeOK
<1>2. KeysDrawnOnce'
  BY DEF TlsTypeOK, KeysDrawnOnce
<1>3. EntriesStand'
  BY DEF TlsTypeOK, KeysDrawnOnce, EntriesStand
<1>4. SlotsKnown'
  BY DEF SlotsKnown
<1>5. SweepKeeps' /\ SweptClean'
  BY DEF TlsTypeOK, SweepKeeps, SweptClean
<1> QED
  BY <1>1, <1>2, <1>3, <1>4, <1>5

\* Guest code, also that of a destructor, stores values under known keys.
LEMMA specific_Inv ==
    ASSUME TlsInv, NEW t \in Threads, NEW k \in Keys,
           tls_set_specific(t, k) \/ tls_clear_specific(t, k)
    PROVE  TlsInv'
<1> USE DEF TlsInv, tls_set_specific, tls_clear_specific
<1>0. PICK S \in SUBSET Nat : slots' = [slots EXCEPT ![t] = S] /\ S \subseteq made
  <2>1. k \in made /\ made \subseteq Nat /\ slots[t] \subseteq made
    BY DEF TlsTypeOK, SlotsKnown
  <2>2. slots[t] \cup {k} \subseteq made /\ slots[t] \ {k} \subseteq made
    BY <2>1
  <2>3. slots[t] \cup {k} \in SUBSET Nat /\ slots[t] \ {k} \in SUBSET Nat
    BY <2>1
  <2> QED
    BY <2>2, <2>3
<1>1. TlsTypeOK' /\ SlotsKnown'
  BY <1>0 DEF TlsTypeOK, SlotsKnown
<1>2. KeysDrawnOnce' /\ EntriesStand'
  BY DEF KeysDrawnOnce, EntriesStand
<1>3. SweepKeeps' /\ SweptClean'
  BY DEF TlsTypeOK, SweepKeeps, SweptClean
<1> QED
  BY <1>1, <1>2, <1>3

\* What is armed is in the slots.
LEMMA thread_exit_Inv ==
    ASSUME TlsInv, NEW t \in Threads, thread_exit(t)
    PROVE  TlsInv'
<1> USE DEF TlsInv, thread_exit
<1>1. TlsTypeOK'
  BY DEF TlsTypeOK
<1>2. KeysDrawnOnce' /\ EntriesStand' /\ SlotsKnown'
  BY DEF TlsTypeOK, KeysDrawnOnce, EntriesStand, SlotsKnown
<1>3. SweepKeeps' /\ SweptClean'
  BY DEF TlsTypeOK, SweepKeeps, SweptClean
<1> QED
  BY <1>1, <1>2, <1>3

\* The first round finds all that was armed: its keys are known, so below
\* the length of the vector and with their destructors.
LEMMA sweep_collect_Inv ==
    ASSUME TlsInv, NEW t \in Threads, sweep_collect(t)
    PROVE  TlsInv'
<1> USE DEF TlsInv, sweep_collect
<1>0. Collected(t) \subseteq slots[t] /\ Collected(t) \in SUBSET Nat
  BY DEF TlsTypeOK, Collected
<1>1. round[t] = 0 => armed[t] \subseteq Collected(t)
  BY DEF TlsTypeOK, EntriesStand, SlotsKnown, SweepKeeps, Collected
<1>2. TlsTypeOK'
  BY <1>0 DEF TlsTypeOK
<1>3. KeysDrawnOnce' /\ EntriesStand' /\ SlotsKnown'
  BY DEF TlsTypeOK, KeysDrawnOnce, EntriesStand, SlotsKnown
<1>4. SweepKeeps'
  BY <1>0, <1>1 DEF TlsTypeOK, SweepKeeps
<1>5. SweptClean'
  <2>1. Collected(t) = {} => slots[t] \cap asked = {}
    BY DEF TlsTypeOK, EntriesStand, SlotsKnown, Collected
  <2>2. Collected(t) = {} => slots' = slots
    BY DEF TlsTypeOK
  <2>3. \A u \in Threads : u # t => pc'[u] = pc[u] /\ slots'[u] = slots[u] /\ round'[u] = round[u]
    BY DEF TlsTypeOK
  <2>4. pc'[t] = "gone" => Collected(t) = {}
    BY DEF TlsTypeOK
  <2> QED
    BY <2>1, <2>2, <2>3, <2>4 DEF TlsTypeOK, SweptClean
<1> QED
  BY <1>2, <1>3, <1>4, <1>5

\* A destructor moves from those to run to those that ran.
LEMMA sweep_call_Inv ==
    ASSUME TlsInv, NEW t \in Threads, sweep_call(t)
    PROVE  TlsInv'
<1> USE DEF TlsInv
<1>1. PICK k \in to_run[t] : /\ to_run' = [to_run EXCEPT ![t] = @ \ {k}]
                             /\ ran' = [ran EXCEPT ![t] = @ \cup {k}]
  BY DEF sweep_call
<1>2. TlsTypeOK'
  <2>1. to_run[t] \ {k} \in SUBSET Nat /\ ran[t] \cup {k} \in SUBSET Nat
    BY DEF TlsTypeOK
  <2>2. to_run' \in [Threads -> SUBSET Nat] /\ ran' \in [Threads -> SUBSET Nat]
    BY <1>1, <2>1 DEF TlsTypeOK
  <2> QED
    BY <2>2 DEF TlsTypeOK, sweep_call
<1>3. KeysDrawnOnce' /\ EntriesStand' /\ SlotsKnown'
  BY DEF TlsTypeOK, KeysDrawnOnce, EntriesStand, SlotsKnown, sweep_call
<1>4. SweepKeeps'
  <2>1. to_run'[t] \cup ran'[t] = to_run[t] \cup ran[t]
    BY <1>1 DEF TlsTypeOK
  <2>2. exiting[t] /\ round[t] > 0
    BY DEF TlsTypeOK, SweepKeeps, sweep_call
  <2> QED
    BY <1>1, <2>1, <2>2 DEF TlsTypeOK, SweepKeeps, sweep_call
<1>5. SweptClean'
  BY DEF TlsTypeOK, SweptClean, sweep_call
<1> QED
  BY <1>2, <1>3, <1>4, <1>5

\* A destructor returns; the last round is over.
LEMMA sweep_goes_on_Inv ==
    ASSUME TlsInv, NEW t \in Threads, sweep_return(t) \/ sweep_stop(t)
    PROVE  TlsInv'
<1> USE DEF TlsInv
<1>0. /\ \E l \in {"sweep", "dtor", "gone"} : pc' = [pc EXCEPT ![t] = l]
      /\ UNCHANGED <<next, len, destructors, slots, exiting, newkey, newdtor, round, to_run,
                     asked, made, armed, ran>>
  BY DEF sweep_return, sweep_stop
<1>1. TlsTypeOK'
  BY <1>0 DEF TlsTypeOK
<1>2. KeysDrawnOnce' /\ EntriesStand' /\ SlotsKnown'
  BY <1>0 DEF TlsTypeOK, KeysDrawnOnce, EntriesStand, SlotsKnown
<1>3. SweepKeeps'
  BY RoundsAssumption DEF TlsTypeOK, SweepKeeps, sweep_return, sweep_stop
<1>4. SweptClean'
  BY RoundsAssumption DEF TlsTypeOK, SweptClean, sweep_return, sweep_stop
<1> QED
  BY <1>1, <1>2, <1>3, <1>4

\* The invariant holds in every state of every execution.
THEOREM TlsInvariance == TlsSpec => []TlsInv
<1>1. TlsInit => TlsInv
  BY DEF TlsInit, TlsInv, TlsTypeOK, KeysDrawnOnce, EntriesStand, SlotsKnown, SweepKeeps, SweptClean
<1>2. TlsInv /\ [TlsNext]_tlsVars => TlsInv'
  <2> SUFFICES ASSUME TlsInv, [TlsNext]_tlsVars PROVE TlsInv'
    OBVIOUS
  <2>1. ASSUME NEW t \in Threads, TlsCall(t) PROVE TlsInv'
    BY <2>1, create_key_draw_Inv, thread_exit_Inv, specific_Inv DEF TlsCall
  <2>2. ASSUME NEW t \in Threads, Step(t) PROVE TlsInv'
    BY <2>2, create_key_record_Inv, sweep_collect_Inv, sweep_call_Inv, sweep_goes_on_Inv DEF Step
  <2>3. CASE UNCHANGED tlsVars
    BY <2>3 DEF tlsVars, TlsInv, TlsTypeOK, KeysDrawnOnce, EntriesStand, SlotsKnown, SweepKeeps,
                SweptClean
  <2> QED
    BY <2>1, <2>2, <2>3 DEF TlsNext
<1> QED
  BY <1>1, <1>2, PTL DEF TlsSpec

\* A thread that is gone has run the destructor of every value it left
\* behind, whatever keys others were creating and whatever its destructors
\* stored: create_key never takes an entry back, and the first round of the
\* sweep already collects them all.  What they store again is destroyed too
\* unless all the rounds there are were needed.
THEOREM EveryDestructorRuns == TlsSpec => []ExitRunsEveryDestructor
<1>1. TlsInv => ExitRunsEveryDestructor
  BY DEF TlsInv, TlsTypeOK, SweepKeeps, SweptClean, ExitRunsEveryDestructor
<1> QED
  BY <1>1, TlsInvariance, PTL

----------------------------------------------------------------------------
(* HleArena *)

\* The places of a call that is about a mutex slot.
OnSlot == {"pop", "bump", "store", "free", "clear"}
Allocating == {"pop", "bump", "pop_other", "bump_other"}

ArenaTypeOK ==
    /\ cursor \in Nat \ {0}
    /\ free_list \in [BlockSizes -> Seq(Nat)]
    /\ slot \in [Slots -> Nat]
    /\ place \in [Callers -> OnSlot \cup {"guest", "pop_other", "bump_other"}]
    /\ at \in [Callers -> Slots \cup {0}]
    /\ size \in [Callers -> Nat]
    /\ loaded \in [Callers -> Nat]
    /\ held \subseteq (Nat \ {0}) \X BlockSizes \X (Callers \cup Slots)
    /\ \A t \in Callers :
          /\ place[t] \in OnSlot => at[t] \in Slots
          /\ place[t] \in {"pop", "bump", "store"} => size[t] = MutexSize
          /\ place[t] \in {"pop_other", "bump_other"} => size[t] \in OtherSizes

\* Two blocks have no unit in common.
Apart(b, y, c, z) == b + y <= c \/ c + z <= b

\* The blocks on the free lists.
Free(z) == 1..Len(free_list[z])

\* All blocks, handed out or waiting to be recycled, lie below the cursor ...
BelowCursor ==
    /\ \A a \in held : a[1] + a[2] <= cursor
    /\ \A z \in BlockSizes : \A i \in Free(z) : free_list[z][i] > 0 /\ free_list[z][i] + z <= cursor

\* ... and no two of them overlap; none is on a list twice.
AllApart ==
    /\ \A a, b \in held : a # b => Apart(a[1], a[2], b[1], b[2])
    /\ \A a \in held, z \in BlockSizes : \A i \in Free(z) : Apart(a[1], a[2], free_list[z][i], z)
    /\ \A y, z \in BlockSizes : \A i \in Free(y), j \in Free(z) :
          (y # z \/ i # j) => Apart(free_list[y][i], y, free_list[z][j], z)

\* With a careful guest a slot is in one call at most, and a slot that holds
\* an address, or is about to, owns the block there until it is freed.
SlotsOwn ==
    /\ \A t, u \in Callers : place[t] \in OnSlot /\ place[u] \in OnSlot /\ at[t] = at[u] => t = u
    /\ \A t \in Callers : place[t] = "store" => <<loaded[t], MutexSize, t>> \in held
    /\ \A t \in Callers : place[t] \in {"free", "clear"} => loaded[t] = slot[at[t]] /\ loaded[t] # 0
    /\ \A s \in Slots :
          (slot[s] # 0 /\ \A t \in Callers : ~(place[t] = "clear" /\ at[t] = s))
             => <<slot[s], MutexSize, s>> \in held

ArenaInv == ArenaTypeOK /\ BelowCursor /\ AllApart /\ SlotsOwn

\* Sizes are at least one unit.
LEMMA SizesPositive == BlockSizes \subseteq Nat \ {0} /\ MutexSize \in BlockSizes
  BY SizesAssumption DEF BlockSizes

\* A call of a careful guest on a slot is the only one.
LEMMA mutex_call_Inv ==
    ASSUME Careful, ArenaInv, NEW t \in Callers, NEW s \in Slots,
           mutex_init(t, s) \/ mutex_destroy(t, s)
    PROVE  ArenaInv'
<1> USE DEF ArenaInv
<1>1. /\ place[t] = "guest" /\ \A u \in Callers : place[u] \in OnSlot => at[u] # s
      /\ UNCHANGED <<cursor, free_list, slot, held>>
      /\ at' = [at EXCEPT ![t] = s]
  BY DEF mutex_init, mutex_destroy, Alone, Move, OnSlot
<1>2. ArenaTypeOK'
  <2>1. CASE mutex_init(t, s)
    BY <2>1, SizesAssumption DEF ArenaTypeOK, mutex_init, Move, OnSlot
  <2>2. CASE mutex_destroy(t, s)
    BY <2>2, SizesAssumption DEF ArenaTypeOK, mutex_destroy, Move, OnSlot
  <2> QED
    BY <2>1, <2>2
<1>3. BelowCursor' /\ AllApart'
  BY <1>1 DEF BelowCursor, AllApart, Free
<1>4. SlotsOwn'
  <2>1. CASE mutex_init(t, s)
    BY <1>1, <2>1 DEF ArenaTypeOK, SlotsOwn, mutex_init, Move, OnSlot
  <2>2. CASE mutex_destroy(t, s)
    BY <1>1, <2>2 DEF ArenaTypeOK, SlotsOwn, mutex_destroy, Move, OnSlot
  <2> QED
    BY <2>1, <2>2
<1> QED
  BY <1>2, <1>3, <1>4

\* Entering hle_alloc for another block, loading the cursor, losing the race
\* for it, and giving up: no block changes hands.
LEMMA alloc_moves_Inv ==
    ASSUME ArenaInv, NEW t \in Callers,
           \/ \E z \in OtherSizes : other_alloc(t, z)
           \/ alloc_load(t)
           \/ alloc_bump(t) /\ cursor # loaded[t]
    PROVE  ArenaInv'
<1> USE DEF ArenaInv
<1>1. UNCHANGED <<cursor, free_list, slot, held>>
  BY DEF other_alloc, alloc_load, alloc_bump
<1>2. CASE \E z \in OtherSizes : other_alloc(t, z)
  BY <1>1, <1>2, SizesAssumption
     DEF other_alloc, Move, ArenaTypeOK, BelowCursor, AllApart, Free, SlotsOwn, OnSlot
<1>3. CASE Return(t) /\ place[t] \in Allocating
  <2>1. ArenaTypeOK'
    BY <1>1, <1>3 DEF Return, Allocating, ArenaTypeOK, OnSlot
  <2>2. SlotsOwn'
    BY <1>1, <1>3 DEF Return, Allocating, ArenaTypeOK, SlotsOwn, OnSlot
  <2> QED
    BY <1>1, <2>1, <2>2 DEF BelowCursor, AllApart, Free
<1>4. ASSUME NEW l \in {"bump", "bump_other"}, place[t] \in Allocating,
             place[t] \in {"pop", "bump"} <=> l = "bump",
             place' = [place EXCEPT ![t] = l], loaded' = [loaded EXCEPT ![t] = cursor],
             UNCHANGED <<at, size>>
      PROVE  ArenaInv'
  <2>1. ArenaTypeOK'
    BY <1>1, <1>4 DEF Allocating, ArenaTypeOK, OnSlot
  <2>2. SlotsOwn'
    BY <1>1, <1>4 DEF Allocating, ArenaTypeOK, SlotsOwn, OnSlot
  <2> QED
    BY <1>1, <2>1, <2>2 DEF BelowCursor, AllApart, Free
<1>5. CASE alloc_load(t)
  <2>1. CASE cursor + size[t] > End
    BY <1>3, <1>5, <2>1 DEF alloc_load, Allocating
  <2>2. CASE ~(cursor + size[t] > End)
    <3>1. CASE place[t] = "pop"
      BY <1>4, <1>5, <2>2, <3>1 DEF alloc_load, Allocating
    <3>2. CASE place[t] = "pop_other"
      BY <1>4, <1>5, <2>2, <3>2 DEF alloc_load, Allocating
    <3> QED
      BY <1>5, <3>1, <3>2 DEF alloc_load
  <2> QED
    BY <2>1, <2>2
<1>6. CASE alloc_bump(t) /\ cursor # loaded[t]
  <2>1. CASE Return(t)
    BY <1>3, <1>6, <2>1 DEF alloc_bump, Allocating
  <2>2. CASE loaded' = [loaded EXCEPT ![t] = cursor] /\ UNCHANGED <<place, at, size>>
    <3>1. place' = [place EXCEPT ![t] = place[t]]
      BY <2>2 DEF ArenaTypeOK
    <3> QED
      BY <1>4, <1>6, <2>2, <3>1 DEF alloc_bump, Allocating
  <2> QED
    BY <1>6, <2>1, <2>2 DEF alloc_bump
<1> QED
  BY <1>2, <1>5, <1>6

\* Handing a block out keeps types and owners, whatever happens to the lists
\* and the cursor.
LEMMA HandOutKeeps ==
    ASSUME ArenaInv, NEW t \in Callers, NEW b \in Nat \ {0}, HandOut(t, b), UNCHANGED slot,
           cursor' \in Nat \ {0}, free_list' \in [BlockSizes -> Seq(Nat)]
    PROVE  /\ ArenaTypeOK' /\ SlotsOwn'
           /\ size[t] \in BlockSizes /\ held' = held \cup {<<b, size[t], t>>}
<1> USE DEF ArenaInv
<1>1. size[t] \in BlockSizes /\ held' = held \cup {<<b, size[t], t>>}
  BY SizesAssumption DEF ArenaTypeOK, HandOut, BlockSizes
<1>2. held' \subseteq (Nat \ {0}) \X BlockSizes \X (Callers \cup Slots)
  BY <1>1 DEF ArenaTypeOK
<1>3. CASE place[t] \in {"pop", "bump"}
  <2>1. /\ place' = [place EXCEPT ![t] = "store"] /\ loaded' = [loaded EXCEPT ![t] = b]
        /\ UNCHANGED <<at, size>> /\ size[t] = MutexSize
    BY <1>3 DEF ArenaTypeOK, HandOut
  <2>2. ArenaTypeOK'
    BY <1>2, <1>3, <2>1 DEF ArenaTypeOK, OnSlot
  <2>3. SlotsOwn'
    BY <1>1, <1>3, <2>1 DEF ArenaTypeOK, SlotsOwn, OnSlot
  <2> QED
    BY <1>1, <2>2, <2>3
<1>4. CASE place[t] \in {"pop_other", "bump_other"}
  <2>1. Return(t)
    BY <1>4 DEF HandOut
  <2>2. ArenaTypeOK'
    BY <1>2, <1>4, <2>1 DEF ArenaTypeOK, Return, OnSlot
  <2>3. SlotsOwn'
    BY <1>1, <1>4, <2>1 DEF ArenaTypeOK, SlotsOwn, Return, OnSlot
  <2> QED
    BY <1>1, <2>2, <2>3
<1> QED
  BY <1>3, <1>4 DEF HandOut

\* The first blocks of a list.
LEMMA PrefixFacts ==
    ASSUME NEW q \in Seq(Nat), NEW n \in 0..Len(q)
    PROVE  /\ SubSeq(q, 1, n) \in Seq(Nat)
           /\ Len(SubSeq(q, 1, n)) = n
           /\ \A i \in 1..n : SubSeq(q, 1, n)[i] = q[i]
<1>1. SubSeq(q, 1, n) \in Seq(Nat)
  OBVIOUS
<1>2. Len(SubSeq(q, 1, n)) = n
  OBVIOUS
<1>3. \A i \in 1..n : SubSeq(q, 1, n)[i] = q[i]
  OBVIOUS
<1> QED
  BY <1>1, <1>2, <1>3

\* The last block of a list, and the others.
LEMMA PopFacts ==
    ASSUME NEW q \in Seq(Nat), q # << >>
    PROVE  /\ Len(q) \in Nat \ {0} /\ Last(q) = q[Len(q)] /\ Last(q) \in Nat
           /\ Front(q) \in Seq(Nat) /\ Len(Front(q)) = Len(q) - 1
           /\ \A i \in 1..Len(Front(q)) : Front(q)[i] = q[i]
<1> DEFINE n == Len(q) - 1
<1>1. Len(q) \in Nat \ {0} /\ n \in 0..Len(q)
  OBVIOUS
<1>2. Last(q) = q[Len(q)] /\ Last(q) \in Nat
  BY <1>1 DEF Last
<1>3. Front(q) = SubSeq(q, 1, n)
  BY DEF Front
<1> HIDE DEF n
<1>4. /\ Front(q) \in Seq(Nat) /\ Len(Front(q)) = n
      /\ \A i \in 1..n : Front(q)[i] = q[i]
  BY <1>1, <1>3, PrefixFacts
<1> QED
  BY <1>1, <1>2, <1>4 DEF n

\* A recycled block leaves its list: it was on it once.
LEMMA alloc_pop_Inv ==
    ASSUME ArenaInv, NEW t \in Callers, alloc_pop(t)
    PROVE  ArenaInv'
<1> DEFINE z == size[t]
           q == free_list[z]
           b == Last(q)
<1>1. z \in BlockSizes /\ q \in Seq(Nat) /\ q # << >>
  BY SizesAssumption DEF ArenaInv, ArenaTypeOK, alloc_pop, BlockSizes
<1>2. /\ Len(q) \in Nat \ {0} /\ b = q[Len(q)] /\ b \in Nat
      /\ Front(q) \in Seq(Nat) /\ Len(Front(q)) = Len(q) - 1
      /\ \A i \in 1..Len(Front(q)) : Front(q)[i] = q[i]
  BY <1>1, PopFacts
<1>3. Len(q) \in Free(z) /\ b # 0 /\ b + z <= cursor
  BY <1>1, <1>2 DEF Free, ArenaInv, BelowCursor
<1>4. /\ HandOut(t, b) /\ UNCHANGED <<cursor, slot>>
      /\ free_list' = [free_list EXCEPT ![z] = Front(q)]
  BY DEF alloc_pop
<1>5. free_list' \in [BlockSizes -> Seq(Nat)] /\ cursor' \in Nat \ {0}
  BY <1>1, <1>2, <1>4 DEF ArenaInv, ArenaTypeOK
<1>6. ArenaTypeOK' /\ SlotsOwn' /\ held' = held \cup {<<b, z, t>>}
  BY <1>2, <1>3, <1>4, <1>5, HandOutKeeps
<1>7. \A y \in BlockSizes : \A i \in Free(y)' :
         i \in Free(y) /\ free_list'[y][i] = free_list[y][i] /\ (y # z \/ i # Len(q))
  <2>1. \A y \in BlockSizes : y # z => free_list'[y] = free_list[y]
    BY <1>1, <1>4 DEF ArenaInv, ArenaTypeOK
  <2>2. free_list'[z] = Front(q)
    BY <1>1, <1>4 DEF ArenaInv, ArenaTypeOK
  <2>3. \A i \in 1..Len(Front(q)) : i \in 1..Len(q) /\ i # Len(q) /\ Front(q)[i] = q[i]
    BY <1>2
  <2>4. \A y \in BlockSizes : y # z => Free(y)' = Free(y)
    BY <2>1 DEF Free
  <2>5. \A y \in BlockSizes : y = z => Free(y)' = 1..Len(Front(q)) /\ Free(y) = 1..Len(q)
    BY <2>2 DEF Free
  <2> QED
    BY <2>1, <2>2, <2>3, <2>4, <2>5
<1> HIDE DEF b, q, z
<1>8. BelowCursor'
  BY <1>3, <1>4, <1>6, <1>7 DEF ArenaInv, BelowCursor
<1>9. AllApart'
  <2>1. \A a \in held : Apart(a[1], a[2], b, z)
    BY <1>1, <1>2, <1>3 DEF ArenaInv, AllApart, q
  <2>2. \A y \in BlockSizes : \A i \in Free(y)' : Apart(b, z, free_list'[y][i], y)
    BY <1>1, <1>2, <1>3, <1>7 DEF ArenaInv, AllApart, q
  <2>3. \A a, c \in held' : a # c => Apart(a[1], a[2], c[1], c[2])
    BY <1>6, <2>1 DEF ArenaInv, AllApart, Apart
  <2>4. \A a \in held', y \in BlockSizes : \A i \in Free(y)' : Apart(a[1], a[2], free_list'[y][i], y)
    BY <1>6, <1>7, <2>2 DEF ArenaInv, AllApart
  <2>5. \A x, y \in BlockSizes : \A i \in Free(x)', j \in Free(y)' :
           (x # y \/ i # j) => Apart(free_list'[x][i], x, free_list'[y][j], y)
    BY <1>7 DEF ArenaInv, AllApart
  <2> QED
    BY <2>3, <2>4, <2>5 DEF AllApart
<1> QED
  BY <1>6, <1>8, <1>9 DEF ArenaInv

\* The thread whose compare and exchange succeeds gets what lies above every
\* other block.
LEMMA alloc_bump_Inv ==
    ASSUME ArenaInv, NEW t \in Callers, alloc_bump(t), cursor = loaded[t]
    PROVE  ArenaInv'
<1> DEFINE z == size[t]
<1>1. /\ HandOut(t, cursor) /\ cursor' = cursor + z /\ UNCHANGED <<free_list, slot>>
  BY DEF alloc_bump
<1>2. cursor \in Nat \ {0} /\ z \in Nat /\ cursor' \in Nat \ {0}
  BY <1>1 DEF ArenaInv, ArenaTypeOK
<1>3. free_list' \in [BlockSizes -> Seq(Nat)]
  BY <1>1 DEF ArenaInv, ArenaTypeOK
<1>4. /\ ArenaTypeOK' /\ SlotsOwn'
      /\ z \in BlockSizes /\ held' = held \cup {<<cursor, z, t>>}
  BY <1>1, <1>2, <1>3, HandOutKeeps
<1> HIDE DEF z
<1>5. \A a \in held : a[1] \in Nat /\ a[2] \in Nat /\ a[1] + a[2] <= cursor
  BY SizesPositive DEF ArenaInv, ArenaTypeOK, BelowCursor
<1>6. \A y \in BlockSizes : \A i \in Free(y) :
         free_list[y][i] \in Nat /\ y \in Nat /\ free_list[y][i] > 0 /\ free_list[y][i] + y <= cursor
  BY SizesPositive DEF ArenaInv, ArenaTypeOK, BelowCursor, Free
<1>7. BelowCursor'
  <2>1. ASSUME NEW a \in held' PROVE a[1] + a[2] <= cursor'
    <3>1. CASE a \in held
      BY <1>1, <1>2, <1>5, <3>1
    <3>2. CASE a = <<cursor, z, t>>
      BY <1>1, <1>2, <3>2
    <3> QED BY <1>4, <2>1, <3>1, <3>2
  <2>2. ASSUME NEW y \in BlockSizes, NEW i \in Free(y)'
        PROVE  free_list'[y][i] > 0 /\ free_list'[y][i] + y <= cursor'
    <3>1. i \in Free(y) /\ free_list' = free_list
      BY <1>1 DEF Free
    <3> QED BY <1>1, <1>2, <1>6, <3>1
  <2> QED BY <2>1, <2>2 DEF BelowCursor
<1>8. AllApart'
  <2>1. \A a, c \in held' : a # c => Apart(a[1], a[2], c[1], c[2])
    BY <1>4, <1>5 DEF ArenaInv, AllApart, Apart
  <2>2. \A a \in held', y \in BlockSizes : \A i \in Free(y) : Apart(a[1], a[2], free_list[y][i], y)
    BY <1>4, <1>6 DEF ArenaInv, AllApart, Apart
  <2> QED
    BY <1>1, <2>1, <2>2 DEF ArenaInv, AllApart, Free
<1> QED
  BY <1>4, <1>7, <1>8 DEF ArenaInv

\* The block passes from the thread to the slot.
LEMMA mutex_init_store_Inv ==
    ASSUME ArenaInv, NEW t \in Callers, mutex_init_store(t)
    PROVE  ArenaInv'
<1> DEFINE b == loaded[t]
           s == at[t]
           old == <<b, MutexSize, t>>
           new == <<b, MutexSize, s>>
<1>1. old \in held /\ b \in Nat \ {0} /\ s \in Slots /\ t \notin Slots /\ place[t] = "store"
  <2>1. old \in held /\ s \in Slots /\ place[t] = "store"
    BY DEF ArenaInv, ArenaTypeOK, SlotsOwn, mutex_init_store, OnSlot
  <2>2. b \in Nat \ {0}
    BY <2>1 DEF ArenaInv, ArenaTypeOK
  <2> QED
    BY <2>1, <2>2, OwnersAssumption
<1>2. /\ held' = (held \ {old}) \cup {new} /\ slot' = [slot EXCEPT ![s] = b]
      /\ UNCHANGED <<cursor, free_list>> /\ Return(t)
  BY DEF mutex_init_store
<1>3. ArenaTypeOK'
  <2>1. held' \subseteq (Nat \ {0}) \X BlockSizes \X (Callers \cup Slots)
    BY <1>1, <1>2, SizesPositive DEF ArenaInv, ArenaTypeOK
  <2>2. slot' \in [Slots -> Nat]
    BY <1>1, <1>2 DEF ArenaInv, ArenaTypeOK
  <2> QED
    BY <1>2, <2>1, <2>2 DEF ArenaInv, ArenaTypeOK, Return, OnSlot
<1>4. /\ old[1] = b /\ old[2] = MutexSize /\ new[1] = b /\ new[2] = MutexSize
  OBVIOUS
<1>5. BelowCursor'
  BY <1>1, <1>2, <1>4 DEF ArenaInv, BelowCursor, Free
<1>6. AllApart'
  <2>1. \A a \in held : a # old => Apart(a[1], a[2], new[1], new[2]) /\ Apart(new[1], new[2], a[1], a[2])
    BY <1>1, <1>4 DEF ArenaInv, AllApart
  <2>2. \A z \in BlockSizes : \A i \in Free(z) : Apart(new[1], new[2], free_list[z][i], z)
    BY <1>1, <1>4 DEF ArenaInv, AllApart
  <2> HIDE DEF old, new
  <2> QED
    BY <1>2, <2>1, <2>2 DEF ArenaInv, AllApart, Free
<1>7. SlotsOwn'
  <2>1. \A u \in Callers : u # t => /\ place'[u] = place[u] /\ at'[u] = at[u] /\ loaded'[u] = loaded[u]
    BY <1>2 DEF Return, ArenaInv, ArenaTypeOK
  <2>2. place'[t] = "guest"
    BY <1>2 DEF Return, ArenaInv, ArenaTypeOK
  <2>3. \A u \in Callers : u # t /\ place[u] \in OnSlot => at[u] # s
    BY <1>1 DEF ArenaInv, SlotsOwn, OnSlot
  <2>4. \A u, v \in Callers :
           place'[u] \in OnSlot /\ place'[v] \in OnSlot /\ at'[u] = at'[v] => u = v
    BY <2>1, <2>2 DEF ArenaInv, SlotsOwn, OnSlot
  <2>5. ASSUME NEW u \in Callers, place'[u] = "store"
        PROVE  <<loaded'[u], MutexSize, u>> \in held'
    <3>1. u # t /\ <<loaded[u], MutexSize, u>> \in held
      BY <2>1, <2>2, <2>5 DEF ArenaInv, SlotsOwn
    <3>2. <<loaded[u], MutexSize, u>> # old
      BY <3>1
    <3> QED
      BY <1>2, <2>1, <3>1, <3>2
  <2>6. ASSUME NEW u \in Callers, place'[u] \in {"free", "clear"}
        PROVE  loaded'[u] = slot'[at'[u]] /\ loaded'[u] # 0
    <3>1. u # t /\ loaded[u] = slot[at[u]] /\ loaded[u] # 0 /\ at[u] # s /\ at[u] \in Slots
      BY <2>1, <2>2, <2>3, <2>6 DEF ArenaInv, ArenaTypeOK, SlotsOwn, OnSlot
    <3> QED
      BY <1>2, <2>1, <3>1 DEF ArenaInv, ArenaTypeOK
  <2>7. ASSUME NEW r \in Slots, slot'[r] # 0,
               \A u \in Callers : ~(place'[u] = "clear" /\ at'[u] = r)
        PROVE  <<slot'[r], MutexSize, r>> \in held'
    <3>1. CASE r = s
      BY <1>1, <1>2, <3>1 DEF ArenaInv, ArenaTypeOK
    <3>2. CASE r # s
      <4>1. slot'[r] = slot[r]
        BY <1>2, <3>2 DEF ArenaInv, ArenaTypeOK
      <4>2. \A u \in Callers : ~(place[u] = "clear" /\ at[u] = r)
        BY <1>1, <2>1, <2>7
      <4>3. <<slot[r], MutexSize, r>> \in held
        BY <2>7, <4>1, <4>2 DEF ArenaInv, SlotsOwn
      <4>4. <<slot[r], MutexSize, r>> # old
        BY <1>1
      <4> QED
        BY <1>2, <4>1, <4>3, <4>4
    <3> QED
      BY <3>1, <3>2
  <2> QED
    BY <2>4, <2>5, <2>6, <2>7 DEF SlotsOwn
<1> QED
  BY <1>3, <1>5, <1>6, <1>7 DEF ArenaInv

\* The blocks of a list one is put on.
LEMMA PushFacts ==
    ASSUME NEW q \in Seq(Nat), NEW b \in Nat
    PROVE  /\ Append(q, b) \in Seq(Nat) /\ Len(Append(q, b)) = Len(q) + 1
           /\ Append(q, b)[Len(q) + 1] = b
           /\ \A i \in 1..Len(q) : Append(q, b)[i] = q[i]
  OBVIOUS

\* What a slot owns goes to the list, and the slot still holds the address.
LEMMA hle_free_Inv ==
    ASSUME ArenaInv, NEW t \in Callers, hle_free(t)
    PROVE  ArenaInv'
<1> DEFINE b == loaded[t]
           s == at[t]
           own == <<b, MutexSize, s>>
           q == free_list[MutexSize]
           p == free_list'[MutexSize]
<1>1. s \in Slots /\ b = slot[s] /\ b \in Nat \ {0} /\ place[t] = "free"
  BY DEF hle_free, FreeTo, Move, ArenaInv, ArenaTypeOK, SlotsOwn, OnSlot
<1>2. \A u \in Callers : u # t /\ place[u] \in OnSlot => at[u] # s
  BY <1>1 DEF ArenaInv, SlotsOwn, OnSlot
<1>3. own \in held
  BY <1>1, <1>2 DEF ArenaInv, SlotsOwn, OnSlot
<1>4. /\ held' = held \ {own} /\ UNCHANGED <<cursor, slot, at, size, loaded>>
      /\ place' = [place EXCEPT ![t] = "clear"]
  BY DEF hle_free, FreeTo, Move
<1>5. MutexSize \in BlockSizes /\ MutexSize \in Nat /\ q \in Seq(Nat)
  BY SizesPositive DEF ArenaInv, ArenaTypeOK
<1>6. /\ p \in {q, Append(q, b)}
      /\ \A z \in BlockSizes : z # MutexSize => free_list'[z] = free_list[z]
      /\ free_list' = [free_list EXCEPT ![MutexSize] = p]
  BY <1>5 DEF hle_free, FreeTo, ArenaInv, ArenaTypeOK
<1>7. p \in Seq(Nat)
  <2>1. b \in Nat
    BY <1>1
  <2> HIDE DEF b, p, q
  <2>2. Append(q, b) \in Seq(Nat)
    BY <1>5, <2>1, PushFacts
  <2> QED BY <1>5, <1>6, <2>2
\* An entry of a list is an old one or the freed block.
<1>8. \A z \in BlockSizes : \A i \in Free(z)' :
         \/ i \in Free(z) /\ free_list'[z][i] = free_list[z][i]
         \/ z = MutexSize /\ i = Len(q) + 1 /\ free_list'[z][i] = b
  <2>1. CASE p = q
    BY <1>6, <2>1 DEF Free
  <2>2. CASE p = Append(q, b)
    <3> SUFFICES ASSUME NEW z \in BlockSizes, NEW i \in Free(z)'
                 PROVE  \/ i \in Free(z) /\ free_list'[z][i] = free_list[z][i]
                        \/ z = MutexSize /\ i = Len(q) + 1 /\ free_list'[z][i] = b
      OBVIOUS
    <3>1. CASE z # MutexSize
      BY <1>6, <3>1 DEF Free
    <3>2. CASE z = MutexSize
      <4>1. b \in Nat /\ Len(q) \in Nat /\ i \in 1..Len(p)
        BY <1>1, <1>5, <3>2 DEF Free
      <4>2. /\ Len(p) = Len(q) + 1 /\ p[Len(q) + 1] = b
            /\ \A j \in 1..Len(q) : p[j] = q[j]
        <5> HIDE DEF b, p, q
        <5> QED BY <1>5, <2>2, <4>1, PushFacts
      <4>3. i \in 1..Len(q) \/ i = Len(q) + 1
        BY <4>1, <4>2
      <4>4. free_list'[z][i] = p[i] /\ free_list[z][i] = q[i] /\ Free(z) = 1..Len(q)
        BY <3>2 DEF Free
      <4> QED BY <3>2, <4>2, <4>3, <4>4
    <3> QED BY <3>1, <3>2
  <2> QED
    BY <1>6, <2>1, <2>2
<1>9. own[1] = b /\ own[2] = MutexSize /\ b + MutexSize <= cursor
  BY <1>3 DEF ArenaInv, BelowCursor
<1>10. Len(q) \in Nat /\ ~(Len(q) + 1 \in Free(MutexSize))
  BY <1>5 DEF Free
<1>11. /\ \A a \in held' : a \in held /\ Apart(a[1], a[2], b, MutexSize)
       /\ \A z \in BlockSizes : \A i \in Free(z) : Apart(b, MutexSize, free_list[z][i], z)
       /\ \A z \in BlockSizes : \A i \in Free(z) : Apart(free_list[z][i], z, b, MutexSize)
  <2>1. \A a \in held' : a \in held /\ Apart(a[1], a[2], b, MutexSize)
    BY <1>3, <1>4, <1>9 DEF ArenaInv, AllApart
  <2>2. \A z \in BlockSizes : \A i \in Free(z) : Apart(b, MutexSize, free_list[z][i], z)
    BY <1>3, <1>9 DEF ArenaInv, AllApart
  <2> QED
    BY <2>1, <2>2 DEF Apart
<1>12. ArenaTypeOK'
  BY <1>1, <1>4, <1>5, <1>6, <1>7 DEF ArenaInv, ArenaTypeOK, OnSlot
<1>13. SlotsOwn'
  <2>1. \A r \in Slots : r # s => <<slot[r], MutexSize, r>> # own
    OBVIOUS
  <2>2. \A u \in Callers : <<loaded[u], MutexSize, u>> # own
    BY <1>1, OwnersAssumption
  <2> HIDE DEF own
  <2>3. \A u \in Callers : place'[u] = IF u = t THEN "clear" ELSE place[u]
    BY <1>4 DEF ArenaInv, ArenaTypeOK
  <2>4. \A u, v \in Callers :
           place'[u] \in OnSlot /\ place'[v] \in OnSlot /\ at'[u] = at'[v] => u = v
    BY <1>1, <1>4, <2>3 DEF ArenaInv, SlotsOwn, OnSlot
  <2>5. \A u \in Callers : place'[u] = "store" => <<loaded'[u], MutexSize, u>> \in held'
    BY <1>4, <2>2, <2>3 DEF ArenaInv, SlotsOwn
  <2>6. \A u \in Callers : place'[u] \in {"free", "clear"}
           => loaded'[u] = slot'[at'[u]] /\ loaded'[u] # 0
    BY <1>1, <1>4, <2>3 DEF ArenaInv, SlotsOwn
  <2>7. \A r \in Slots :
           (slot'[r] # 0 /\ \A u \in Callers : ~(place'[u] = "clear" /\ at'[u] = r))
              => <<slot'[r], MutexSize, r>> \in held'
    BY <1>4, <2>1, <2>3 DEF ArenaInv, SlotsOwn
  <2> QED
    BY <2>4, <2>5, <2>6, <2>7 DEF SlotsOwn
<1> HIDE DEF b, s, own, q, p
<1>14. BelowCursor'
  BY <1>1, <1>4, <1>8, <1>9 DEF ArenaInv, BelowCursor
<1>15. AllApart'
  <2>1. \A a, c \in held' : a # c => Apart(a[1], a[2], c[1], c[2])
    BY <1>11 DEF ArenaInv, AllApart
  <2>2. \A a \in held', z \in BlockSizes : \A i \in Free(z)' : Apart(a[1], a[2], free_list'[z][i], z)
    BY <1>8, <1>11 DEF ArenaInv, AllApart
  <2>3. \A y, z \in BlockSizes : \A i \in Free(y)', j \in Free(z)' :
           (y # z \/ i # j) => Apart(free_list'[y][i], y, free_list'[z][j], z)
    BY <1>8, <1>10, <1>11 DEF ArenaInv, AllApart
  <2> QED
    BY <2>1, <2>2, <2>3 DEF AllApart
<1> QED
  BY <1>12, <1>13, <1>14, <1>15 DEF ArenaInv

\* The slot is made null.
LEMMA mutex_destroy_clear_Inv ==
    ASSUME ArenaInv, NEW t \in Callers, mutex_destroy_clear(t)
    PROVE  ArenaInv'
<1> USE DEF ArenaInv, mutex_destroy_clear, Return
<1>1. at[t] \in Slots /\ \A u \in Callers : u # t /\ place[u] \in OnSlot => at[u] # at[t]
  BY DEF ArenaTypeOK, SlotsOwn, OnSlot
<1>2. ArenaTypeOK'
  BY <1>1 DEF ArenaTypeOK, OnSlot
<1>3. BelowCursor' /\ AllApart'
  BY DEF BelowCursor, AllApart, Free
<1>4. SlotsOwn'
  BY <1>1 DEF ArenaTypeOK, SlotsOwn, OnSlot
<1> QED
  BY <1>2, <1>3, <1>4

\* The invariant holds in every state, if the guest is careful.
THEOREM ArenaInvariance ==
    ASSUME Careful
    PROVE  ArenaSpec => []ArenaInv
<1>1. ArenaInit => ArenaInv
  <2> SUFFICES ASSUME ArenaInit PROVE ArenaInv
    OBVIOUS
  <2> USE DEF ArenaInit
  <2>1. ArenaTypeOK
    BY DEF ArenaTypeOK, Base, OnSlot
  <2>2. \A z \in BlockSizes : Free(z) = {}
    BY DEF Free
  <2>3. BelowCursor /\ AllApart
    BY <2>2 DEF BelowCursor, AllApart
  <2>4. SlotsOwn
    BY DEF SlotsOwn, OnSlot
  <2> QED
    BY <2>1, <2>3, <2>4 DEF ArenaInv
<1>2. ArenaInv /\ [ArenaNext]_arenaVars => ArenaInv'
  <2> SUFFICES ASSUME ArenaInv, [ArenaNext]_arenaVars PROVE ArenaInv'
    OBVIOUS
  <2>1. ASSUME NEW t \in Callers, NEW s \in Slots, mutex_init(t, s) \/ mutex_destroy(t, s)
        PROVE  ArenaInv'
    BY <2>1, mutex_call_Inv
  <2>2. ASSUME NEW t \in Callers, (\E z \in OtherSizes : other_alloc(t, z)) \/ alloc_load(t)
        PROVE  ArenaInv'
    BY <2>2, alloc_moves_Inv
  <2>3. ASSUME NEW t \in Callers, alloc_bump(t) PROVE ArenaInv'
    BY <2>3, alloc_moves_Inv, alloc_bump_Inv
  <2>4. ASSUME NEW t \in Callers,
               alloc_pop(t) \/ mutex_init_store(t) \/ hle_free(t) \/ mutex_destroy_clear(t)
        PROVE  ArenaInv'
    BY <2>4, alloc_pop_Inv, mutex_init_store_Inv, hle_free_Inv, mutex_destroy_clear_Inv
  <2>5. CASE UNCHANGED arenaVars
    BY <2>5 DEF arenaVars, ArenaInv, ArenaTypeOK, BelowCursor, AllApart, SlotsOwn, Free
  <2> QED
    BY <2>1, <2>2, <2>3, <2>4, <2>5 DEF ArenaNext
<1> QED
  BY <1>1, <1>2, PTL DEF ArenaSpec

\* With a guest that destroys a mutex from one thread at a time, hle_alloc
\* never hands out memory that somebody still holds, however the cursor is
\* raced for and whatever was freed before, for any sizes.
THEOREM NoOverlap ==
    ASSUME Careful
    PROVE  ArenaSpec => []HeldDisjoint
<1>1. ArenaInv => HeldDisjoint
  <2> SUFFICES ASSUME ArenaInv, NEW a \in held, NEW b \in held, a # b
               PROVE  BlockUnits(a) \cap BlockUnits(b) = {}
    BY DEF HeldDisjoint
  <2>1. a[1] \in Nat /\ a[2] \in Nat /\ b[1] \in Nat /\ b[2] \in Nat
    BY SizesPositive DEF ArenaInv, ArenaTypeOK
  <2>2. a[1] + a[2] <= b[1] \/ b[1] + b[2] <= a[1]
    BY DEF ArenaInv, AllApart, Apart
  <2> QED
    BY <2>1, <2>2 DEF BlockUnits
<1> QED
  BY <1>1, ArenaInvariance, PTL

----------------------------------------------------------------------------
(* Handles: a number handed out is the tag of its kind with an id below the *)
(* kind's next one; since a number is made of one tag and one id only, what *)
(* was handed out never comes again.                                        *)

\* Every handle handed out is its kind's tag and an id already passed.
Below ==
    \A p \in issued :
        \E i \in 1..(next_id[p[2]] - 1) : p[1] = p[2] * Span + i

\* What is live was handed out.
LiveIssued == \A h \in live : \E k \in Tags : <<h, k>> \in issued

HandlesInv == HandlesTypeOK /\ Below /\ LiveIssued

(* Numbers made of a tag and an id *)

\* The lowest number of a tag.
LEMMA TagStart ==
    ASSUME NEW k \in Nat
    PROVE  k * Span \in Nat
  BY SpanAssumption, Z3

\* Each tag has a range of Span numbers of its own.
LEMMA TagRange ==
    ASSUME NEW k \in Nat, NEW j \in Nat, k < j
    PROVE  k * Span + Span <= j * Span
<1>1. j - k - 1 \in Nat
  OBVIOUS
<1>2. j * Span = k * Span + Span + (j - k - 1) * Span
  BY SpanAssumption, Z3
<1>3. (j - k - 1) * Span >= 0
  BY <1>1, SpanAssumption, Z3
<1> QED
  BY <1>2, <1>3, SpanAssumption, Z3

\* A number has one tag and one id (handle_alloc never makes the same twice).
LEMMA TagAndIdUnique ==
    ASSUME NEW k \in Nat, NEW j \in Nat, NEW i \in 0..(Span - 1), NEW l \in 0..(Span - 1),
           k * Span + i = j * Span + l
    PROVE  k = j /\ i = l
<1>1. k = j
  BY TagRange, SpanAssumption
<1> QED
  BY <1>1, SpanAssumption

\* Shifting the id out leaves the tag (handle_kind reads what handle_alloc
\* wrote, up to and including the last id).
LEMMA TagOfHandle ==
    ASSUME NEW k \in Tags, NEW i \in 0..(Span - 1), k * Span + i > 0
    PROVE  handle_kind(k * Span + i) = k
<1>1. k \in Nat
  BY TagsAssumption
<1>2. (k * Span + i) \div Span = k
  BY <1>1, SpanAssumption, Z3
<1> QED
  BY <1>2 DEF handle_kind

\* Every handle handed out decodes to its kind.
LEMMA IssuedDecodes ==
    ASSUME HandlesInv, NEW p \in issued
    PROVE  p[1] > 0 /\ handle_kind(p[1]) = p[2]
<1>1. PICK i \in 1..(next_id[p[2]] - 1) : p[1] = p[2] * Span + i
  BY DEF HandlesInv, Below
<1>2. p[2] \in Tags /\ next_id[p[2]] \in 1..Span
  BY DEF HandlesInv, HandlesTypeOK
<1>3. i \in 0..(Span - 1) /\ i > 0
  BY <1>2, SpanAssumption
<1>4. p[2] \in Nat
  BY <1>2, TagsAssumption
<1>5. p[2] * Span \in Nat
  BY <1>4, TagStart
<1>6. p[2] * Span + i > 0
  BY <1>3, <1>5
<1> QED
  BY <1>1, <1>2, <1>3, <1>6, TagOfHandle

\* The number handle_alloc is about to hand out was not handed out before.
LEMMA FreshHandle ==
    ASSUME HandlesInv, NEW k \in Tags, next_id[k] <= HANDLE_ID_MASK, NEW p \in issued
    PROVE  p[1] # k * Span + next_id[k]
<1>1. PICK i \in 1..(next_id[p[2]] - 1) : p[1] = p[2] * Span + i
  BY DEF HandlesInv, Below
<1>2. p[2] \in Tags /\ next_id[p[2]] \in 1..Span /\ next_id[k] \in 1..Span
  BY DEF HandlesInv, HandlesTypeOK
<1>3. p[2] \in Nat /\ k \in Nat
  BY <1>2, TagsAssumption
<1>4. i \in 0..(Span - 1) /\ next_id[k] \in 0..(Span - 1)
  BY <1>2, SpanAssumption DEF HANDLE_ID_MASK
<1>5. SUFFICES ASSUME p[2] * Span + i = k * Span + next_id[k] PROVE FALSE
  BY <1>1
<1>6. p[2] = k /\ i = next_id[k]
  BY <1>3, <1>4, <1>5, TagAndIdUnique
<1> QED
  BY <1>2, <1>6

\* The invariant holds at first and is kept by every operation of the table.
THEOREM HandlesInvariance == HandlesSpec => []HandlesInv
<1>1. HandlesInit => HandlesInv
  BY SpanAssumption DEF HandlesInit, HandlesInv, HandlesTypeOK, Below, LiveIssued
<1>2. HandlesInv /\ [HandlesNext]_handleVars => HandlesInv'
  <2> SUFFICES ASSUME HandlesInv, [HandlesNext]_handleVars PROVE HandlesInv'
    OBVIOUS
  <2>1. ASSUME NEW k \in Tags, handle_alloc(k) PROVE HandlesInv'
    <3> DEFINE h == k * Span + next_id[k]
    <3>1. /\ next_id[k] <= Span - 1
          /\ live' = live \cup {h}
          /\ issued' = issued \cup {<<h, k>>}
          /\ next_id' = [next_id EXCEPT ![k] = @ + 1]
      BY <2>1 DEF handle_alloc, Alloc, HANDLE_ID_MASK
    <3>2. next_id \in [Tags -> 1..Span]
      BY DEF HandlesInv, HandlesTypeOK
    <3>3. h \in Numbers
      BY <3>1, <3>2, SpanAssumption DEF Numbers
    <3>4. HandlesTypeOK'
      BY <3>1, <3>2, <3>3, SpanAssumption DEF HandlesInv, HandlesTypeOK
    <3>5. ASSUME NEW p \in issued'
          PROVE  \E i \in 1..(next_id'[p[2]] - 1) : p[1] = p[2] * Span + i
      <4>1. CASE p = <<h, k>>
        <5>1. next_id'[k] = next_id[k] + 1 /\ next_id[k] \in 1..(next_id'[k] - 1)
          BY <3>1, <3>2, SpanAssumption
        <5> QED
          BY <4>1, <5>1
      <4>2. CASE p \in issued
        <5>1. PICK i \in 1..(next_id[p[2]] - 1) : p[1] = p[2] * Span + i
          BY <4>2 DEF HandlesInv, Below
        <5>2. p[2] \in Tags
          BY <4>2 DEF HandlesInv, HandlesTypeOK
        <5>3. i \in 1..(next_id'[p[2]] - 1)
          BY <3>1, <3>2, <5>2, SpanAssumption
        <5> QED
          BY <5>1, <5>3
      <4> QED
        BY <3>1, <4>1, <4>2
    <3>6. LiveIssued'
      BY <3>1 DEF HandlesInv, LiveIssued
    <3> QED
      BY <3>4, <3>5, <3>6 DEF HandlesInv, Below
  <2>2. ASSUME NEW h \in Numbers, NEW k \in Tags \cup {NoKind}, handle_free(h, k) PROVE HandlesInv'
    BY <2>2 DEF handle_free, HandlesInv, HandlesTypeOK, Below, LiveIssued
  <2>3. CASE UNCHANGED handleVars
    BY <2>3 DEF handleVars, HandlesInv, HandlesTypeOK, Below, LiveIssued
  <2> QED
    BY <2>1, <2>2, <2>3 DEF HandlesNext
<1> QED
  BY <1>1, <1>2, PTL DEF HandlesSpec

\* Type correctness of the handle table.
THEOREM HandlesTypeCorrect == HandlesSpec => []HandlesTypeOK
<1>1. HandlesInv => HandlesTypeOK
  BY DEF HandlesInv
<1> QED
  BY <1>1, HandlesInvariance, PTL

\* The tag bits of every handle handed out tell its kind, for every width of
\* the id field: handle_alloc stops before an id carries into the tag.
THEOREM TagsTell == HandlesSpec => []TagTellsKind
<1>1. HandlesInv => TagTellsKind
  BY IssuedDecodes DEF TagTellsKind
<1> QED
  BY <1>1, HandlesInvariance, PTL

\* handle_resolve accepts a handle only as the kind it was made for.
THEOREM ResolveSound == HandlesSpec => []ResolvedWasIssued
<1>1. HandlesInv => ResolvedWasIssued
  <2> SUFFICES ASSUME HandlesInv, NEW h \in live, NEW k \in Tags, handle_resolve(h, k)
               PROVE  <<h, k>> \in issued
    BY DEF ResolvedWasIssued
  <2>1. PICK j \in Tags : <<h, j>> \in issued
    BY DEF HandlesInv, LiveIssued
  <2>2. handle_kind(h) = j
    BY <2>1, IssuedDecodes
  <2>3. handle_kind(h) = k
    BY TagsAssumption DEF handle_resolve, NoKind
  <2> QED
    BY <2>1, <2>2, <2>3
<1> QED
  BY <1>1, HandlesInvariance, PTL

\* No operation of the table makes a freed handle live again.
THEOREM FreedForEver == HandlesSpec => FreedStaysDead
<1>1. HandlesInv /\ [HandlesNext]_handleVars => [\A p \in issued : p[1] \notin live => p[1] \notin live']_handleVars
  <2> SUFFICES ASSUME HandlesInv, HandlesNext, NEW p \in issued, p[1] \notin live
               PROVE  p[1] \notin live'
    OBVIOUS
  <2>1. ASSUME NEW k \in Tags, handle_alloc(k) PROVE p[1] \notin live'
    <3>1. next_id[k] <= HANDLE_ID_MASK /\ live' = live \cup {k * Span + next_id[k]}
      BY <2>1 DEF handle_alloc, Alloc
    <3>2. p[1] # k * Span + next_id[k]
      BY <3>1, FreshHandle
    <3> QED
      BY <3>1, <3>2
  <2>2. ASSUME NEW h \in Numbers, NEW k \in Tags \cup {NoKind}, handle_free(h, k)
        PROVE  p[1] \notin live'
    BY <2>2 DEF handle_free
  <2> QED
    BY <2>1, <2>2 DEF HandlesNext
<1> QED
  BY <1>1, HandlesInvariance, PTL DEF HandlesSpec, FreedStaysDead
=============================================================================
