----------------------------- MODULE HleArena -----------------------------
(***************************************************************************)
(* The guest-resident arena for small HLE objects in crates/core/src/      *)
(* kernel.rs, and its one user that gives blocks back: the pthread mutex   *)
(* calls of crates/libs/src/libkernel/pthread.rs, which keep the address   *)
(* of a block in the guest's mutex slot.  Guest threads run them side by   *)
(* side.  Addresses are counted in units of 16 bytes, from 1; 0 is null.   *)
(***************************************************************************)
EXTENDS Naturals, Sequences, SequencesExt, FiniteSets

CONSTANTS Callers,     \* guest threads
          Slots,       \* guest addresses of mutex handles
          ArenaSize,   \* units in the arena
          MutexSize,   \* units of a mutex object (0x40 bytes)
          OtherSizes,  \* sizes the other callers of hle_alloc ask for
          Careful      \* does the guest destroy a mutex from one thread at
                       \* a time, and never while it is being initialised?

ASSUME SizesAssumption == ArenaSize \in Nat /\ MutexSize \in Nat \ {0} /\ OtherSizes \subseteq Nat \ {0}
ASSUME OwnersAssumption == Callers \cap Slots = {}

Base == 1
End == Base + ArenaSize
BlockSizes == OtherSizes \cup {MutexSize}

VARIABLES
    cursor,      \* HLE_ARENA_CURSOR
    free_list,   \* HLE_FREE_LIST: size -> blocks, the last one on top
    slot,        \* guest memory at the mutex slots, 0 or a block
    place, at, size,\* each thread: place, the slot its call is about, size asked
    loaded,      \* the cursor or the block it has read
    held         \* <<block, size>> handed out and not given back, with owners

arenaVars == <<cursor, free_list, slot, place, at, size, loaded, held>>

ArenaInit ==
    /\ cursor = Base
    /\ free_list = [z \in BlockSizes |-> << >>]
    /\ slot = [s \in Slots |-> 0]
    /\ place = [t \in Callers |-> "guest"]
    /\ at = [t \in Callers |-> 0]
    /\ size = [t \in Callers |-> 0]
    /\ loaded = [t \in Callers |-> 0]
    /\ held = {}

Move(t, from, to) == place[t] = from /\ place' = [place EXCEPT ![t] = to]

\* The call is over.
Return(t) ==
    /\ place' = [place EXCEPT ![t] = "guest"]
    /\ at' = [at EXCEPT ![t] = 0]
    /\ size' = [size EXCEPT ![t] = 0]
    /\ loaded' = [loaded EXCEPT ![t] = 0]

\* POSIX: no other call of the guest is on the slot.
Alone(s) == Careful => \A t \in Callers : place[t] # "guest" => at[t] # s

----------------------------------------------------------------------------
(* hle_alloc *)

\* A mutex init whose slot is null asks for an object; a slot that holds one
\* is left as it is.
mutex_init(t, s) ==
    /\ slot[s] = 0 /\ Alone(s)
    /\ Move(t, "guest", "pop")
    /\ at' = [at EXCEPT ![t] = s]
    /\ size' = [size EXCEPT ![t] = MutexSize]
    /\ UNCHANGED <<cursor, free_list, slot, loaded, held>>

\* libc's trace buffers and the JSON singletons ask for blocks they keep.
other_alloc(t, z) ==
    /\ Move(t, "guest", "pop_other")
    /\ size' = [size EXCEPT ![t] = z]
    /\ UNCHANGED <<cursor, free_list, slot, at, loaded, held>>

\* The block goes to its owner: a mutex slot is still to be written.
HandOut(t, block) ==
    /\ held' = held \cup {<<block, size[t], t>>}
    /\ \/ /\ place[t] \in {"pop", "bump"}
          /\ place' = [place EXCEPT ![t] = "store"]
          /\ loaded' = [loaded EXCEPT ![t] = block]
          /\ UNCHANGED <<at, size>>
       \/ /\ place[t] \in {"pop_other", "bump_other"}
          /\ Return(t)

\* Recycle the block of this size freed last.
alloc_pop(t) ==
    /\ place[t] \in {"pop", "pop_other"}
    /\ free_list[size[t]] # << >>
    /\ HandOut(t, Last(free_list[size[t]]))
    /\ free_list' = [free_list EXCEPT ![size[t]] = Front(@)]
    /\ UNCHANGED <<cursor, slot>>

\* None to recycle: load the cursor; without room the answer is 0 and the
\* caller fails.
alloc_load(t) ==
    /\ place[t] \in {"pop", "pop_other"} /\ free_list[size[t]] = << >>
    /\ IF cursor + size[t] > End
       THEN Return(t)
       ELSE /\ place' = [place EXCEPT ![t] = IF @ = "pop" THEN "bump" ELSE "bump_other"]
            /\ loaded' = [loaded EXCEPT ![t] = cursor]
            /\ UNCHANGED <<at, size>>
    /\ UNCHANGED <<cursor, free_list, slot, held>>

\* Mutated form: the cursor is stored without comparing.
alloc_bump_blind(t) ==
    /\ place[t] \in {"bump", "bump_other"}
    /\ cursor' = loaded[t] + size[t]
    /\ HandOut(t, loaded[t])
    /\ UNCHANGED <<free_list, slot>>

\* Compare and exchange; a thread that lost the race loads again, and gives
\* up if there is no room any more.
alloc_bump(t) ==
    /\ place[t] \in {"bump", "bump_other"}
    /\ \/ /\ cursor = loaded[t]
          /\ cursor' = cursor + size[t]
          /\ HandOut(t, loaded[t])
       \/ /\ cursor # loaded[t] /\ cursor + size[t] <= End
          /\ loaded' = [loaded EXCEPT ![t] = cursor]
          /\ UNCHANGED <<cursor, held, place, at, size>>
       \/ /\ cursor # loaded[t] /\ cursor + size[t] > End
          /\ Return(t)
          /\ UNCHANGED <<cursor, held>>
    /\ UNCHANGED <<free_list, slot>>

\* The mutex slot gets the block.
mutex_init_store(t) ==
    /\ place[t] = "store" /\ Return(t)
    /\ slot' = [slot EXCEPT ![at[t]] = loaded[t]]
    /\ held' = (held \ {<<loaded[t], MutexSize, t>>}) \cup {<<loaded[t], MutexSize, at[t]>>}
    /\ UNCHANGED <<cursor, free_list>>

----------------------------------------------------------------------------
(* hle_free *)

\* A destroy reads the slot; a null slot has nothing to free.
mutex_destroy(t, s) ==
    /\ slot[s] # 0 /\ Alone(s)
    /\ Move(t, "guest", "free")
    /\ at' = [at EXCEPT ![t] = s]
    /\ loaded' = [loaded EXCEPT ![t] = slot[s]]
    /\ UNCHANGED <<cursor, free_list, slot, size, held>>

FreeTo(t, list) ==
    /\ Move(t, "free", "clear")
    /\ free_list' = [free_list EXCEPT ![MutexSize] = list]
    /\ held' = held \ {<<loaded[t], MutexSize, at[t]>>}
    /\ UNCHANGED <<cursor, slot, at, size, loaded>>

\* The block goes on its size's list unless it is there already.
hle_free(t) ==
    FreeTo(t, IF Contains(free_list[MutexSize], loaded[t])
              THEN free_list[MutexSize]
              ELSE Append(free_list[MutexSize], loaded[t]))

\* Only then is the slot made null.
mutex_destroy_clear(t) ==
    /\ place[t] = "clear" /\ Return(t)
    /\ slot' = [slot EXCEPT ![at[t]] = 0]
    /\ UNCHANGED <<cursor, free_list, held>>

----------------------------------------------------------------------------
ArenaNext == \E t \in Callers :
           \/ \E s \in Slots : mutex_init(t, s) \/ mutex_destroy(t, s)
           \/ \E z \in OtherSizes : other_alloc(t, z)
           \/ alloc_pop(t) \/ alloc_load(t) \/ alloc_bump(t) \/ mutex_init_store(t)
           \/ hle_free(t) \/ mutex_destroy_clear(t)

ArenaSpec == ArenaInit /\ [][ArenaNext]_arenaVars

----------------------------------------------------------------------------
(* Properties *)

BlockUnits(b) == b[1]..(b[1] + b[2] - 1)
Recycled(z) == {<<free_list[z][i], z, 0>> : i \in DOMAIN free_list[z]}

\* Blocks in different hands never overlap, whatever was recycled and however
\* the cursor was raced for.
HeldDisjoint ==
    \A a, b \in held : a # b => BlockUnits(a) \cap BlockUnits(b) = {}

\* "a never-alloc'd or double-freed slot must not corrupt the list": a block
\* on the free list is in no mutex slot but the one being destroyed, also when
\* two threads destroy one mutex at the same time.
DoubleFreeHarmless ==
    \A s \in Slots :
        (slot[s] # 0 /\ ~\E t \in Callers : place[t] # "guest" /\ at[t] = s)
           => ~Contains(free_list[MutexSize], slot[s])
=============================================================================
