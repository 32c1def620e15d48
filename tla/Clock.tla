------------------------------- MODULE Clock -------------------------------
(***************************************************************************)
(* The virtual guest clock of crates/core/src/clock.rs: guest threads read *)
(* it (now_ns) while the display thread advances it at each presented flip *)
(* (advance_frame).  Nothing is locked: the state is four atomics, and a   *)
(* read or an advance is several loads and stores that interleave.  Time   *)
(* is counted in small whole units.                                        *)
(***************************************************************************)
EXTENDS Integers, FiniteSets

CONSTANTS
    Readers,      \* guest threads that read the clock
    Modes,        \* the clock modes to try
    FRAME,        \* one virtual frame (FRAME_NS)
    MAX_DELTA,    \* what one frame may observe elapsing (MAX_FRAME_DELTA_NS)
    FLOOR,        \* least increment between two reads (READ_FLOOR_NS)
    TimeBound,    \* host time TLC explores
    FlipBound,    \* flips TLC explores
    ReadBound     \* reads TLC explores

ASSUME ClockAssumption ==
    /\ FRAME \in Nat /\ MAX_DELTA \in Nat /\ FLOOR \in Nat \ {0}
    /\ TimeBound \in Nat /\ FlipBound \in Nat /\ ReadBound \in Nat

VARIABLES
    clock_mode,   \* "realtime" or "fixed_step"
    real,         \* real_ns(): host time since the start
    flips,        \* FLIP_COUNT
    virt_anchor,  \* VIRT_ANCHOR_NS, 0 before the first flip
    real_anchor,  \* REAL_ANCHOR_NS
    last_ns,      \* LAST_NS
    reads,        \* reads completed
    reader,       \* reader[r]: where a read is and what it has loaded
    flip          \* where the display thread's advance_frame is

clockVars == <<clock_mode, real, flips, virt_anchor, real_anchor, last_ns, reads, reader, flip>>

Idle == [at |-> "idle", last |-> 0, virt |-> 0, anchor |-> 0, next |-> 0]
Most(a, b) == IF a >= b THEN a ELSE b
Lesser(a, b) == IF a <= b THEN a ELSE b

(***************************************************************************)
(* computed_ns, once the anchors are loaded and host time is read.         *)
(***************************************************************************)
Computed(p) ==
    IF p.virt = 0 THEN Lesser(real, p.last + FRAME)
    ELSE IF clock_mode = "realtime" THEN p.virt + Lesser(Most(real - p.anchor, 0), MAX_DELTA)
    ELSE p.virt + flips * FRAME

\* The loads of computed_ns: the virtual anchor first, then the real one.
LoadVirt(p) == [p EXCEPT !.at = "virt", !.virt = virt_anchor]
LoadReal(p) == [p EXCEPT !.at = "real", !.anchor = real_anchor]

(***************************************************************************)
(* now_ns.                                                                 *)
(***************************************************************************)
now_ns(r) ==
    /\ reader[r].at = "idle" /\ reads < ReadBound
    /\ reader' = [reader EXCEPT ![r] = [Idle EXCEPT !.at = "last", !.last = last_ns]]
    /\ UNCHANGED <<clock_mode, real, flips, virt_anchor, real_anchor, last_ns, reads, flip>>

now_virt(r) ==
    /\ reader[r].at = "last"
    /\ reader' = [reader EXCEPT ![r] = LoadVirt(@)]
    /\ UNCHANGED <<clock_mode, real, flips, virt_anchor, real_anchor, last_ns, reads, flip>>

now_real(r) ==
    /\ reader[r].at = "virt"
    /\ reader' = [reader EXCEPT ![r] = LoadReal(@)]
    /\ UNCHANGED <<clock_mode, real, flips, virt_anchor, real_anchor, last_ns, reads, flip>>

now_compute(r) ==
    /\ reader[r].at = "real"
    /\ reader' = [reader EXCEPT ![r].at = "cas",
                                ![r].next = Most(Computed(reader[r]), reader[r].last + FLOOR)]
    /\ UNCHANGED <<clock_mode, real, flips, virt_anchor, real_anchor, last_ns, reads, flip>>

\* The compare-and-exchange: on contention the value is computed again from
\* what the other reader left.
now_cas(r) ==
    /\ reader[r].at = "cas"
    /\ IF last_ns = reader[r].last
       THEN /\ last_ns' = reader[r].next /\ reads' = reads + 1
            /\ reader' = [reader EXCEPT ![r] = Idle]
       ELSE /\ reader' = [reader EXCEPT ![r] = [Idle EXCEPT !.at = "last", !.last = last_ns]]
            /\ UNCHANGED <<last_ns, reads>>
    /\ UNCHANGED <<clock_mode, real, flips, virt_anchor, real_anchor, flip>>

(***************************************************************************)
(* advance_frame, the display thread's.  peek_ns is the same loads with no *)
(* floor; the real anchor is stored before the virtual one.                *)
(***************************************************************************)
advance_frame ==
    /\ flip.at = "idle" /\ flips < FlipBound
    /\ flips' = flips + 1
    /\ flip' = [Idle EXCEPT !.at = IF flips = 0 THEN "first"
                                   ELSE IF clock_mode = "fixed_step" THEN "idle" ELSE "peek"]
    /\ UNCHANGED <<clock_mode, real, virt_anchor, real_anchor, last_ns, reads, reader>>

\* The first flip anchors to the last value read, and never to zero.
first_anchor ==
    /\ flip.at = "first"
    /\ flip' = [flip EXCEPT !.at = IF clock_mode = "fixed_step" THEN "store_virt" ELSE "store_real",
                            !.next = Most(last_ns, 1)]
    /\ UNCHANGED <<clock_mode, real, flips, virt_anchor, real_anchor, last_ns, reads, reader>>

peek_last ==
    /\ flip.at = "peek"
    /\ flip' = [flip EXCEPT !.at = "last", !.last = last_ns]
    /\ UNCHANGED <<clock_mode, real, flips, virt_anchor, real_anchor, last_ns, reads, reader>>

peek_anchors ==
    /\ flip.at \in {"last", "virt"}
    /\ flip' = IF flip.at = "last" THEN LoadVirt(flip) ELSE LoadReal(flip)
    /\ UNCHANGED <<clock_mode, real, flips, virt_anchor, real_anchor, last_ns, reads, reader>>

peek_compute ==
    /\ flip.at = "real"
    /\ flip' = [flip EXCEPT !.at = "store_real", !.next = Most(Most(Computed(flip), flip.last), 1)]
    /\ UNCHANGED <<clock_mode, real, flips, virt_anchor, real_anchor, last_ns, reads, reader>>

StoreReal == real_anchor' = real /\ UNCHANGED virt_anchor
StoreVirt == virt_anchor' = flip.next /\ UNCHANGED real_anchor

\* The two stores in the wrong order.
AnchorStoreSwapped(step) == IF step = 1 THEN StoreVirt ELSE StoreReal

\* The real anchor, the pair's data, goes first; its flag last.
AnchorStore(step) == IF step = 1 THEN StoreReal ELSE StoreVirt

store_first ==
    /\ flip.at = "store_real"
    /\ AnchorStore(1)
    /\ flip' = [flip EXCEPT !.at = "store_virt"]
    /\ UNCHANGED <<clock_mode, real, flips, last_ns, reads, reader>>

store_last ==
    /\ flip.at = "store_virt"
    /\ AnchorStore(2)
    /\ flip' = Idle
    /\ UNCHANGED <<clock_mode, real, flips, last_ns, reads, reader>>

\* Host time passes.
HostTick ==
    /\ real < TimeBound
    /\ real' = real + 1
    /\ UNCHANGED <<clock_mode, flips, virt_anchor, real_anchor, last_ns, reads, reader, flip>>

ClockInit ==
    /\ clock_mode \in Modes
    /\ real = 0 /\ flips = 0 /\ virt_anchor = 0 /\ real_anchor = 0 /\ last_ns = 0 /\ reads = 0
    /\ reader = [r \in Readers |-> Idle]
    /\ flip = Idle

ClockNext ==
    \/ \E r \in Readers : now_ns(r) \/ now_virt(r) \/ now_real(r) \/ now_compute(r) \/ now_cas(r)
    \/ advance_frame \/ first_anchor \/ peek_last \/ peek_anchors \/ peek_compute
    \/ store_first \/ store_last \/ HostTick

ClockSpec == ClockInit /\ [][ClockNext]_clockVars

-----------------------------------------------------------------------------
\* Every read of the clock, by any thread and however it interleaves with the
\* other reads and with a flip's two anchor stores, is later than the one before
\* by the floor, and in realtime mode guest time never runs ahead of host time
\* by more than the floors of the reads made: a fresh virtual anchor is never
\* paired with a stale real one.
ReadsKeepPace ==
    [][ last_ns' # last_ns =>
          /\ last_ns' >= last_ns + FLOOR
          /\ clock_mode = "realtime" => last_ns' <= real' + FLOOR * reads' ]_clockVars
=============================================================================
