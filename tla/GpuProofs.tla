----------------------------- MODULE GpuProofs -----------------------------
(***************************************************************************)
(* GpuCompletion, for any finite number of waiters and any queues, labels  *)
(* and bounds: the two channels are independent and so are the proofs,     *)
(* Counted is about the event queue, LabelsKept about the labels.  Then    *)
(* GpuCache and the shader cache of DrawExec, each with an introduction of *)
(* its own.                                                                *)
(***************************************************************************)
EXTENDS GpuCompletion, GpuCache, DrawExec, FiniteSetTheorems, SequenceTheorems, WellFoundedInduction, TLAPS

Takers == {w \in Waiters : triggered[w]}

\* The event queue: who has taken a completion is about to report it, and a
\* compare and exchange is tried with a count that is not zero.
QueueOK ==
    /\ signals \in 0..MaxSignals /\ reported \in Nat /\ pending \in Nat
    /\ wpc \in [Waiters -> {"guest", "load", "cas", "note"}]
    /\ cur \in [Waiters -> Nat]
    /\ triggered \in [Waiters -> BOOLEAN]
    /\ \A w \in Waiters : /\ triggered[w] => wpc[w] = "note"
                          /\ wpc[w] = "cas" => cur[w] > 0

Counted == QueueOK /\ CompletionsConserved

\* Label writers, past the look at the clock that let them in.
Writing == epc \in {"write", "retain"} \/ dog \in {"take", "flush"}
Deciding == epc = "time" \/ dog = "time"

\* Without eop_sync nobody is about to write before the grace is over, nor
\* after it if the guest was known to collect by then.
LabelsKept ==
    /\ settled => grace /\ collected
    /\ ~eop_sync /\ ~grace => label = NoLabels /\ ~Writing
    /\ ~eop_sync /\ settled => label = NoLabels /\ ~Writing /\ ~Deciding

----------------------------------------------------------------------------
(* The event queue *)

\* The takers are finitely many.
LEMMA TakersFinite == IsFiniteSet(Takers) /\ Cardinality(Takers) \in Nat
  BY WaitersAssumption, FS_Subset, FS_CardinalityType DEF Takers

\* No more completions are pending than were signalled.
LEMMA PendingBounded == Counted => pending <= signals /\ pending < Wrap
<1> SUFFICES ASSUME Counted PROVE pending <= signals /\ pending < Wrap
  OBVIOUS
<1>1. signals = pending + Cardinality(Takers) + reported
  BY DEF Counted, CompletionsConserved, Takers
<1> QED
  BY <1>1, TakersFinite, WrapAssumption DEF Counted, QueueOK

\* A waiter moves without taking or reporting anything.
LEMMA TakersSame ==
    ASSUME Counted, QueueOK', UNCHANGED <<pending, signals, reported>>,
           \A w \in Waiters : triggered'[w] = triggered[w]
    PROVE  Counted'
<1>1. Takers' = Takers
  BY DEF Takers
<1> QED
  BY <1>1 DEF Counted, CompletionsConserved, Takers

\* The counter does not wrap: what is pending was signalled.
LEMMA signal_Counted == Counted /\ signal_gpu_completion => Counted'
<1> SUFFICES ASSUME Counted, signal_gpu_completion PROVE Counted'
  OBVIOUS
<1>1. pending \in Nat /\ signals \in Nat /\ signals + 1 <= MaxSignals
  BY WrapAssumption DEF Counted, QueueOK, signal_gpu_completion
<1>2. pending + 1 < Wrap
  BY <1>1, PendingBounded, WrapAssumption
<1>3. pending' = pending + 1
  BY <1>1, <1>2, WrapAssumption DEF signal_gpu_completion
<1>4. QueueOK'
  BY <1>1, <1>3, WrapAssumption DEF Counted, QueueOK, signal_gpu_completion
<1>5. Takers' = Takers
  BY DEF signal_gpu_completion, Takers
<1>6. signals' = pending' + Cardinality(Takers') + reported'
  BY <1>1, <1>3, <1>5, TakersFinite
     DEF Counted, QueueOK, CompletionsConserved, Takers, signal_gpu_completion
<1> QED
  BY <1>4, <1>6 DEF Counted, CompletionsConserved, Takers

\* A wait begins, or loads the count.
LEMMA wait_Counted ==
    ASSUME Counted, NEW w \in Waiters, (\E q \in Queues : wait_equeue(w, q)) \/ take_load(w)
    PROVE  Counted'
<1>1. QueueOK'
  <2>1. CASE take_load(w)
    BY <2>1 DEF Counted, QueueOK, take_load, WaiterAt
  <2>2. ASSUME NEW q \in Queues, wait_equeue(w, q) PROVE QueueOK'
    <3>1. PICK l \in {"load", "note"} : WaiterAt(w, "guest", l)
      BY <2>2 DEF wait_equeue
    <3> QED
      BY <2>2, <3>1 DEF Counted, QueueOK, wait_equeue, WaiterAt
  <2> QED
    BY <2>1, <2>2
<1>2. UNCHANGED <<pending, signals, reported>> /\ \A u \in Waiters : triggered'[u] = triggered[u]
  BY DEF Counted, QueueOK, wait_equeue, take_load, WaiterAt
<1> QED
  BY <1>1, <1>2, TakersSame

\* Of the waiters that loaded the same count, one takes a completion.
LEMMA take_cas_Counted ==
    ASSUME Counted, NEW w \in Waiters, take_cas(w)
    PROVE  Counted'
<1>1. CASE pending # cur[w]
  <2>1. QueueOK' /\ UNCHANGED <<pending, signals, reported, triggered>>
    BY <1>1 DEF Counted, QueueOK, take_cas, WaiterAt
  <2> QED
    BY <2>1, TakersSame
<1>2. CASE pending = cur[w]
  <2>1. /\ wpc[w] = "cas" /\ w \notin Takers /\ pending > 0
        /\ pending' = pending - 1 /\ triggered' = [triggered EXCEPT ![w] = TRUE]
        /\ UNCHANGED <<signals, reported>>
    BY <1>2 DEF Counted, QueueOK, take_cas, WaiterAt, Takers
  <2>2. QueueOK'
    BY <1>2, <2>1 DEF Counted, QueueOK, take_cas, WaiterAt
  <2>3. Takers' = Takers \cup {w}
    BY <2>1 DEF Counted, QueueOK, Takers
  <2>4. Cardinality(Takers') = Cardinality(Takers) + 1
    BY <2>1, <2>3, TakersFinite, FS_AddElement
  <2>5. signals' = pending' + Cardinality(Takers') + reported'
    BY <2>1, <2>4, TakersFinite DEF Counted, QueueOK, CompletionsConserved, Takers
  <2> QED
    BY <2>2, <2>5 DEF Counted, CompletionsConserved, Takers
<1> QED
  BY <1>1, <1>2

\* What was taken is reported once.
LEMMA wait_note_Counted ==
    ASSUME Counted, NEW w \in Waiters, wait_note(w)
    PROVE  Counted'
<1>1. QueueOK'
  BY DEF Counted, QueueOK, wait_note, WaiterAt
<1>2. CASE ~triggered[w]
  <2>1. UNCHANGED <<pending, signals, reported>> /\ \A u \in Waiters : triggered'[u] = triggered[u]
    BY <1>2 DEF Counted, QueueOK, wait_note
  <2> QED
    BY <1>1, <2>1, TakersSame
<1>3. CASE triggered[w]
  <2>1. w \in Takers /\ Takers' = Takers \ {w}
    BY <1>3 DEF Counted, QueueOK, wait_note, Takers
  <2>2. Cardinality(Takers') = Cardinality(Takers) - 1
    BY <2>1, TakersFinite, FS_RemoveElement
  <2>3. reported' = reported + 1 /\ UNCHANGED <<pending, signals>>
    BY <1>3 DEF wait_note
  <2>4. Cardinality(Takers') \in Nat
    BY <2>1, TakersFinite, FS_RemoveElement, FS_CardinalityType
  <2>5. signals' = pending' + Cardinality(Takers') + reported'
    BY <2>2, <2>3, <2>4, TakersFinite DEF Counted, QueueOK, CompletionsConserved, Takers
  <2> QED
    BY <1>1, <2>5 DEF Counted, CompletionsConserved, Takers
<1> QED
  BY <1>2, <1>3

\* Everything else leaves the counts alone.
LEMMA Elsewhere_Counted ==
    ASSUME Counted, UNCHANGED <<pending, wpc, cur, triggered, signals, reported>>
    PROVE  Counted'
  BY DEF Counted, QueueOK, CompletionsConserved

\* Steps on the labels leave the event queue alone.
LEMMA LabelSteps ==
    ASSUME \/ \E a \in Labels : emit_label(a)
           \/ Executor \/ Watchdog \/ GraceElapses
    PROVE  UNCHANGED queueVars
  BY DEF emit_label, Executor, emit_flag, emit_time, emit_write, emit_retain, emit_push,
         arm_label_flush_watchdog, Watchdog, watchdog_wake, watchdog_tired,
         watchdog_registered, watchdog_flag, watchdog_time, watchdog_take, watchdog_done,
         watchdog_write, DogAt, GraceElapses

\* Waiters that race by compare and exchange neither lose nor invent a
\* completion, however many they are.
THEOREM NothingLost == CompletionSpec => []CompletionsConserved
<1>1. CompletionInit => Counted
  <2> SUFFICES ASSUME CompletionInit PROVE Counted
    OBVIOUS
  <2>1. QueueOK
    BY WrapAssumption DEF CompletionInit, QueueOK
  <2>2. Takers = {}
    BY DEF CompletionInit, Takers
  <2> QED
    BY <2>1, <2>2, FS_EmptySet DEF CompletionInit, Counted, CompletionsConserved, Takers
<1>2. Counted /\ [CompletionNext]_completionVars => Counted'
  <2> SUFFICES ASSUME Counted, [CompletionNext]_completionVars PROVE Counted'
    OBVIOUS
  <2>1. ASSUME NEW q \in Queues, NEW i \in EventIds, add_event(q, i) \/ delete_event(q, i)
        PROVE  Counted'
    BY <2>1, Elsewhere_Counted DEF add_event, delete_event
  <2>2. CASE signal_gpu_completion
    BY <2>2, signal_Counted
  <2>3. ASSUME NEW w \in Waiters, (\E q \in Queues : wait_equeue(w, q)) \/ Waiter(w)
        PROVE  Counted'
    BY <2>3, wait_Counted, take_cas_Counted, wait_note_Counted DEF Waiter
  <2>4. CASE UNCHANGED queueVars
    BY <2>4, Elsewhere_Counted DEF queueVars
  <2>5. CASE \/ \E a \in Labels : emit_label(a)
             \/ Executor \/ Watchdog \/ GraceElapses
    BY <2>4, <2>5, LabelSteps
  <2>6. CASE UNCHANGED completionVars
    BY <2>4, <2>6 DEF completionVars
  <2> QED
    BY <2>1, <2>2, <2>3, <2>5, <2>6 DEF CompletionNext
<1>3. Counted => CompletionsConserved
  BY DEF Counted
<1> QED
  BY <1>1, <1>2, <1>3, PTL DEF CompletionSpec

----------------------------------------------------------------------------
(* The labels *)

\* The event queue does not touch the labels; that a guest collects is never
\* taken back.
LEMMA queue_Kept ==
    ASSUME LabelsKept, UNCHANGED labelVars, collected => collected'
    PROVE  LabelsKept'
  BY DEF LabelsKept, Writing, Deciding, labelVars, NoLabels

\* Waits are all that changes the collected flag.
LEMMA QueueSteps ==
    ASSUME \/ \E q \in Queues, i \in EventIds : add_event(q, i) \/ delete_event(q, i)
           \/ signal_gpu_completion
           \/ \E w \in Waiters, q \in Queues : wait_equeue(w, q)
           \/ \E w \in Waiters : Waiter(w)
    PROVE  UNCHANGED labelVars /\ (collected => collected')
<1>1. ASSUME NEW w \in Waiters, Waiter(w) PROVE UNCHANGED labelVars /\ (collected => collected')
  <2>1. CASE take_load(w) \/ take_cas(w)
    BY <2>1 DEF take_load, take_cas
  <2>2. CASE wait_note(w)
    BY <2>2, Zenon DEF wait_note
  <2> QED
    BY <1>1, <2>1, <2>2 DEF Waiter
<1>2. ASSUME NEW w \in Waiters, NEW q \in Queues, wait_equeue(w, q)
      PROVE  UNCHANGED labelVars /\ (collected => collected')
  BY <1>2 DEF wait_equeue
<1>3. ASSUME NEW q \in Queues, NEW i \in EventIds, add_event(q, i) \/ delete_event(q, i)
      PROVE  UNCHANGED labelVars /\ (collected => collected')
  BY <1>3 DEF add_event, delete_event
<1>4. CASE signal_gpu_completion
  BY <1>4 DEF signal_gpu_completion
<1> QED
  BY <1>1, <1>2, <1>3, <1>4

\* The executor decides by the flag, then the clock; a writer is past both.
LEMMA Executor_Kept ==
    ASSUME LabelsKept, Executor \/ \E a \in Labels : emit_label(a)
    PROVE  LabelsKept'
<1> USE DEF LabelsKept, Writing, Deciding, ExecAt, NoLabels
<1>1. CASE \E a \in Labels : emit_label(a)
  BY <1>1 DEF emit_label
<1>2. CASE emit_flag
  BY <1>2 DEF emit_flag
<1>3. CASE emit_time
  BY <1>3 DEF emit_time
<1>4. CASE emit_write \/ emit_retain
  BY <1>4 DEF emit_write, emit_retain
<1>5. CASE emit_push
  BY <1>5 DEF emit_push
<1>6. CASE arm_label_flush_watchdog
  BY <1>6 DEF arm_label_flush_watchdog
<1> QED
  BY <1>1, <1>2, <1>3, <1>4, <1>5, <1>6 DEF Executor

\* The watchdog decides in the same order.
LEMMA Watchdog_Kept ==
    ASSUME LabelsKept, Watchdog
    PROVE  LabelsKept'
<1> USE DEF LabelsKept, Writing, Deciding, DogAt, NoLabels
<1>1. CASE watchdog_wake \/ watchdog_tired
  BY <1>1 DEF watchdog_wake, watchdog_tired
<1>2. CASE watchdog_registered
  BY <1>2 DEF watchdog_registered
<1>3. CASE watchdog_flag
  BY <1>3 DEF watchdog_flag
<1>4. CASE watchdog_time
  BY <1>4 DEF watchdog_time
<1>5. CASE watchdog_take
  BY <1>5 DEF watchdog_take
<1>6. CASE watchdog_done \/ \E a \in Labels : watchdog_write(a)
  BY <1>6 DEF watchdog_done, watchdog_write
<1> QED
  BY <1>1, <1>2, <1>3, <1>4, <1>5, <1>6 DEF Watchdog

\* A title known to collect by the end of the grace is never shown a label,
\* by the executor or by the watchdog.
THEOREM NeverLabelled == CompletionSpec => []CollectorNeverLabelled
<1>1. CompletionInit => LabelsKept
  BY DEF CompletionInit, LabelsKept, Writing, Deciding
<1>2. LabelsKept /\ [CompletionNext]_completionVars => LabelsKept'
  <2> SUFFICES ASSUME LabelsKept, [CompletionNext]_completionVars PROVE LabelsKept'
    OBVIOUS
  <2>1. CASE \/ \E q \in Queues, i \in EventIds : add_event(q, i) \/ delete_event(q, i)
             \/ signal_gpu_completion
             \/ \E w \in Waiters, q \in Queues : wait_equeue(w, q)
             \/ \E w \in Waiters : Waiter(w)
    BY <2>1, QueueSteps, queue_Kept
  <2>2. CASE Executor \/ \E a \in Labels : emit_label(a)
    BY <2>2, Executor_Kept
  <2>3. CASE Watchdog
    BY <2>3, Watchdog_Kept
  <2>4. CASE GraceElapses
    BY <2>4 DEF GraceElapses, LabelsKept, Writing, Deciding, NoLabels
  <2>5. CASE UNCHANGED completionVars
    BY <2>5, queue_Kept DEF completionVars
  <2> QED
    BY <2>1, <2>2, <2>3, <2>4, <2>5 DEF CompletionNext
<1>3. LabelsKept => CollectorNeverLabelled
  BY DEF LabelsKept, CollectorNeverLabelled
<1> QED
  BY <1>1, <1>2, <1>3, PTL DEF CompletionSpec

----------------------------------------------------------------------------
(***************************************************************************)
(* The resource cache, for any keys, pages, budget and bounds.  A clean    *)
(* hit is right because an entry's pages stay watched and what it was      *)
(* uploaded with is what memory holds, but for pages known to be written   *)
(* (EntryOK).  free_range gives up the watch of a whole resource when part *)
(* of it is unmapped, and with it that of other entries on those pages:    *)
(* the invariant holds for a guest that unmaps watched resources whole     *)
(* (WholeUnmaps).                                                          *)
(***************************************************************************)
Entry == [id : Nat, dirty : BOOLEAN, last_used : Nat, data : [Cells -> Nat]]

\* The layouts whose writes are watched.
Tracked(k) == ~IsRt(k) /\ watch_pays(k.layout)

\* An entry e of key k, for memory m, written pages d, watched pages w and
\* the versions f the submit asks for.  Its pages are watched; what it was
\* uploaded with is what memory holds, but for pages known to be written.
EntryOK(k, e, m, d, w, f) ==
    /\ k \in Keys /\ e \in Entry
    /\ Tracked(k) => PagesOf(k) \subseteq w
    /\ ~RacyFill /\ Tracked(k) /\ ~e.dirty =>
         \A c \in Extent(k) :
             /\ e.data[c] = m[c] \/ PageOf(c) \in d
             /\ f[c] <= e.data[c]

EntriesOK == \A k \in DOMAIN entries : EntryOK(k, entries[k], mem, dirtied, watched, submit.floor)

CacheTypeOK ==
    /\ mem \in [Cells -> Nat] /\ flips \in Nat /\ trimmed_flip \in Nat
    /\ next_id \in Nat \ {0}
    /\ {"pc", "gets", "floor", "list"} \subseteq DOMAIN submit
    /\ submit.gets \in Nat /\ submit.floor \in [Cells -> Nat]
    /\ sink.pc = "unmapped" => sink.page \in UnmapPages

\* What the submit asks for is not more than there is.
FloorBelow == \A c \in Cells : submit.floor[c] <= mem[c]

\* A fill under way has the bytes memory holds, or counts as dirty.
FillOK ==
    submit.pc = "fill" =>
      /\ submit.key \in Keys /\ ~IsRt(submit.key)
      /\ submit.data \in [Cells -> Nat] /\ submit.dirty \in BOOLEAN
      /\ ~RacyFill /\ ~submit.dirty => \A c \in Extent(submit.key) : submit.data[c] = mem[c]

\* Ids are minted once.
IdsApart ==
    /\ \A k \in DOMAIN entries :
         /\ entries[k].id < next_id
         /\ submit.pc = "fill" => entries[k].id < next_id - 1
         /\ \A j \in DOMAIN entries : entries[j].id = entries[k].id => j = k

CacheInv == CacheTypeOK /\ EntriesOK /\ FloorBelow /\ FillOK /\ IdsApart

\* The guest unmaps a watched resource as a whole or not at all.
WholeUnmaps ==
    \A p \in UnmapPages, k \in Keys : Unwatches(k) /\ p \in PagesOf(k) => PagesOf(k) \subseteq {p}

----------------------------------------------------------------------------
\* Cells of a key.
LEMMA KeyCells ==
    ASSUME NEW k \in Keys
    PROVE  /\ Extent(k) \subseteq Cells
           /\ \A c \in Extent(k) : PageOf(c) \in PagesOf(k) /\ c \in PageCells(PageOf(c))
<1>1. Extent(k) \subseteq Cells
  BY CacheAssumption
<1> QED BY <1>1 DEF PagesOf, PageCells

LEMMA CopyIs ==
    ASSUME mem \in [Cells -> Nat], NEW k \in Keys
    PROVE  Copy(k) \in [Cells -> Nat] /\ \A c \in Extent(k) : Copy(k)[c] = mem[c]
BY KeyCells DEF Copy

LEMMA NothingIs == Nothing \in [Cells -> Nat] /\ \A c \in Cells : Nothing[c] = 0
BY DEF Nothing

LEMMA WithoutIs ==
    ASSUME NEW f, NEW S
    PROVE  /\ DOMAIN Without(f, S) = DOMAIN f \ S
           /\ \A x \in DOMAIN f \ S : Without(f, S)[x] = f[x]
BY DEF Without

\* A use changes when an entry was last used and no more.
LEMMA UseKeeps ==
    ASSUME NEW e \in Entry, NEW n \in Nat
    PROVE  LET u == [e EXCEPT !.last_used = n] IN
             u \in Entry /\ u.id = e.id /\ u.dirty = e.dirty /\ u.data = e.data
BY DEF Entry

----------------------------------------------------------------------------
(* The guest *)

LEMMA GuestWrite_Inv ==
    ASSUME CacheInv, NEW c \in Cells, GuestWrite(c)
    PROVE  CacheInv'
<1> USE DEF CacheInv, GuestWrite, cacheVars
<1>1. mem' \in [Cells -> Nat] /\ mem'[c] = mem[c] + 1 /\ \A b \in Cells : b # c => mem'[b] = mem[b]
  BY DEF CacheTypeOK
<1>2. CacheTypeOK'
  BY <1>1 DEF CacheTypeOK
<1>3. EntriesOK'
  <2> SUFFICES ASSUME NEW k \in DOMAIN entries
               PROVE  EntryOK(k, entries[k], mem', dirtied', watched, submit.floor)
    BY DEF EntriesOK
  <2>1. EntryOK(k, entries[k], mem, dirtied, watched, submit.floor)
    BY DEF EntriesOK
  <2>2. ASSUME Tracked(k), NEW b \in Extent(k), entries[k].data[b] = mem[b] \/ PageOf(b) \in dirtied
        PROVE  entries[k].data[b] = mem'[b] \/ PageOf(b) \in dirtied'
    <3>1. b \in Cells /\ PageOf(b) \in watched
      BY <2>1, <2>2, KeyCells DEF EntryOK
    <3> QED BY <1>1, <2>2, <3>1
  <2> QED BY <2>1, <2>2 DEF EntryOK
<1>4. FloorBelow'
  BY <1>1 DEF FloorBelow, CacheTypeOK
<1>5. FillOK'
  <2> SUFFICES ASSUME submit.pc = "fill", ~RacyFill, ~submit.dirty, NEW b \in Extent(submit.key)
               PROVE  submit.data[b] = mem'[b]
    BY DEF FillOK
  <2>1. b \in Cells /\ b # c
    BY KeyCells DEF FillOK, BeingFilled
  <2> QED BY <1>1, <2>1 DEF FillOK
<1>6. IdsApart'
  BY DEF IdsApart
<1> QED BY <1>2, <1>3, <1>4, <1>5, <1>6

LEMMA Quiet_Inv ==
    ASSUME CacheInv, UNCHANGED <<mem, dirtyVars, entries, next_id, trimmed_flip, submit>>, flips' \in Nat,
           sink'.pc = "unmapped" => sink'.page \in UnmapPages
    PROVE  CacheInv'
BY DEF CacheInv, dirtyVars, CacheTypeOK, EntriesOK, FloorBelow, FillOK, IdsApart

----------------------------------------------------------------------------
(* The submit *)

\* Entries that stay, used or uploaded again; no id is minted.
LEMMA EntriesStay ==
    ASSUME CacheInv, UNCHANGED <<mem, dirtied, watched, next_id>>,
           submit'.floor = submit.floor, submit'.pc # "fill",
           \A k \in DOMAIN entries' :
               /\ k \in DOMAIN entries /\ entries'[k].id = entries[k].id
               /\ EntryOK(k, entries'[k], mem, dirtied, watched, submit.floor)
    PROVE  EntriesOK' /\ IdsApart'
<1>1. EntriesOK'
  BY DEF EntriesOK, EntryOK
<1>2. IdsApart'
  BY DEF CacheInv, IdsApart
<1> QED BY <1>1, <1>2

\* Marking entries over some cells dirty: what is still clean has none of them.
LEMMA MarkedOK ==
    ASSUME CacheInv, NEW cells, NEW k \in DOMAIN entries
    PROVE  LET e == apply_dirty(entries, cells)[k] IN
             /\ e \in Entry /\ e.id = entries[k].id /\ e.data = entries[k].data
             /\ Tracked(k) /\ ~e.dirty => ~entries[k].dirty /\ Extent(k) \cap cells = {}
<1>1. entries[k] \in Entry
  BY DEF CacheInv, EntriesOK, EntryOK
<1>2. [entries[k] EXCEPT !.dirty = TRUE] \in Entry /\ [entries[k] EXCEPT !.dirty = TRUE].dirty
      /\ [entries[k] EXCEPT !.dirty = TRUE].id = entries[k].id
      /\ [entries[k] EXCEPT !.dirty = TRUE].data = entries[k].data
  BY <1>1 DEF Entry
<1> QED BY <1>1, <1>2 DEF apply_dirty, ranges_overlap, Tracked

LEMMA IdleIs ==
    ASSUME NEW p, NEW g, NEW f, NEW l
    PROVE  /\ LET r == [Idle EXCEPT !.pc = p, !.floor = f] IN
                DOMAIN r = {"pc", "gets", "floor", "list"} /\ r.pc = p /\ r.gets = 0 /\ r.floor = f
           /\ LET r == [Idle EXCEPT !.pc = p, !.gets = g, !.floor = f, !.list = l] IN
                DOMAIN r = {"pc", "gets", "floor", "list"} /\ r.pc = p /\ r.gets = g /\ r.floor = f
           /\ LET r == [Idle EXCEPT !.pc = p] IN
                DOMAIN r = {"pc", "gets", "floor", "list"} /\ r.pc = p /\ r.gets = 0 /\ r.floor = Nothing
           /\ DOMAIN Idle = {"pc", "gets", "floor", "list"} /\ Idle.pc = "idle" /\ Idle.gets = 0 /\ Idle.floor = Nothing
BY DEF Idle

LEMMA Submit_Inv ==
    ASSUME CacheInv, Submit
    PROVE  CacheInv'
<1> USE DEF CacheInv, Submit
<1>1. /\ DOMAIN submit' = {"pc", "gets", "floor", "list"} /\ submit'.pc = "walk"
      /\ submit'.gets = 0 /\ submit'.floor = mem
  BY IdleIs
<1>2. CacheTypeOK'
  BY <1>1 DEF CacheTypeOK, pageVars
<1> DEFINE D == UNION {PageCells(p) : p \in dirtied}
<1>3. DOMAIN entries' = DOMAIN entries
  BY DEF apply_dirty
<1>4. EntriesOK'
  <2> SUFFICES ASSUME NEW k \in DOMAIN entries
               PROVE  EntryOK(k, entries'[k], mem, {}, watched, mem)
    BY <1>1, <1>3 DEF EntriesOK, pageVars
  <2>1. EntryOK(k, entries[k], mem, dirtied, watched, submit.floor)
    BY DEF EntriesOK
  <2>2. /\ entries'[k] \in Entry /\ entries'[k].data = entries[k].data
        /\ Tracked(k) /\ ~entries'[k].dirty => ~entries[k].dirty /\ Extent(k) \cap D = {}
    BY MarkedOK
  <2>3. ASSUME ~RacyFill, Tracked(k), ~entries'[k].dirty, NEW c \in Extent(k)
        PROVE  entries'[k].data[c] = mem[c] /\ mem[c] \in Nat
    <3>1. PageOf(c) \notin dirtied /\ c \in Cells
      BY <2>1, <2>2, <2>3, KeyCells DEF EntryOK
    <3> QED BY <2>1, <2>2, <2>3, <3>1 DEF EntryOK, CacheTypeOK
  <2> QED BY <2>1, <2>2, <2>3 DEF EntryOK
<1>5. FloorBelow'
  BY <1>1 DEF FloorBelow, CacheTypeOK, pageVars
<1>6. FillOK'
  BY <1>1 DEF FillOK
<1>7. IdsApart'
  <2>1. \A k \in DOMAIN entries : entries'[k].id = entries[k].id
    BY MarkedOK
  <2> QED BY <1>1, <1>3, <2>1 DEF IdsApart
<1> QED BY <1>2, <1>4, <1>5, <1>6, <1>7

LEMMA AcquireMem_Inv ==
    ASSUME CacheInv, NEW p \in AcquirePages, AcquireMem(p)
    PROVE  CacheInv'
<1> USE DEF CacheInv, AcquireMem
<1> DEFINE f == [c \in Cells |-> IF PageOf(c) = p THEN mem[c] ELSE submit.floor[c]]
<1>1. /\ DOMAIN submit' = DOMAIN submit /\ submit'.pc = "walk" /\ submit'.gets = submit.gets
      /\ submit'.floor = f
  BY DEF CanGet, CacheTypeOK
<1>2. CacheTypeOK'
  BY <1>1 DEF CacheTypeOK, pageVars, dirtyVars
<1>3. DOMAIN entries' = DOMAIN entries
  BY DEF apply_dirty
<1>4. EntriesOK'
  <2> SUFFICES ASSUME NEW k \in DOMAIN entries
               PROVE  EntryOK(k, entries'[k], mem, dirtied, watched, f)
    BY <1>1, <1>3 DEF EntriesOK, pageVars, dirtyVars
  <2>1. EntryOK(k, entries[k], mem, dirtied, watched, submit.floor)
    BY DEF EntriesOK
  <2>2. /\ entries'[k] \in Entry /\ entries'[k].data = entries[k].data
        /\ Tracked(k) /\ ~entries'[k].dirty => ~entries[k].dirty /\ Extent(k) \cap PageCells(p) = {}
    BY MarkedOK
  <2>3. ASSUME Tracked(k), ~entries'[k].dirty, NEW c \in Extent(k)
        PROVE  f[c] = submit.floor[c]
    <3>1. PageOf(c) # p /\ c \in Cells
      BY <2>1, <2>2, <2>3, KeyCells DEF EntryOK
    <3> QED BY <3>1
  <2> QED BY <2>1, <2>2, <2>3 DEF EntryOK
<1>5. FloorBelow'
  BY <1>1 DEF FloorBelow, CacheTypeOK, pageVars
<1>6. FillOK'
  BY <1>1 DEF FillOK
<1>7. IdsApart'
  <2>1. \A k \in DOMAIN entries : entries'[k].id = entries[k].id
    BY MarkedOK
  <2> QED BY <1>1, <1>3, <2>1 DEF IdsApart
<1> QED BY <1>2, <1>4, <1>5, <1>6, <1>7

\* A look-up adds commands to the list.
LEMMA WalkIs ==
    ASSUME CacheTypeOK, NEW cmds, Walk(cmds)
    PROVE  /\ DOMAIN submit' = DOMAIN submit /\ submit'.pc = submit.pc
           /\ submit'.gets = submit.gets + 1 /\ submit'.floor = submit.floor
BY DEF CacheTypeOK, Walk

LEMMA Hit_Inv ==
    ASSUME CacheInv, NEW k \in Keys, Hit(k)
    PROVE  CacheInv'
<1> USE DEF CacheInv
<1>1. PICK S \in Evictions :
         k \in DOMAIN entries \ S /\ Trimmed(S) /\ (CleanHit(k, S) \/ DirtyHit(k, S))
  BY DEF Hit
<1>2. submit.pc = "walk" /\ UNCHANGED <<mem, dirtied, watched, flips, next_id, sink>>
  BY DEF Hit, CanGet, pageVars, dirtyVars
<1>3. /\ DOMAIN submit' = DOMAIN submit /\ submit'.pc = "walk"
      /\ submit'.gets \in Nat /\ submit'.floor = submit.floor
  BY <1>1, <1>2, WalkIs DEF CleanHit, DirtyHit, CacheTypeOK
<1>4. CacheTypeOK'
  BY <1>1, <1>2, <1>3 DEF CacheTypeOK, Trimmed
<1> DEFINE e == entries[k]
           u == [e EXCEPT !.last_used = flips]
           v == [e EXCEPT !.dirty = FALSE, !.last_used = flips, !.data = Copy(k)]
<1>5. EntryOK(k, e, mem, dirtied, watched, submit.floor)
  BY <1>1 DEF EntriesOK
<1>6. u \in Entry /\ u.id = e.id /\ u.dirty = e.dirty /\ u.data = e.data
  BY <1>5, UseKeeps DEF EntryOK, CacheTypeOK
<1>7. Copy(k) \in [Cells -> Nat] /\ \A c \in Extent(k) : Copy(k)[c] = mem[c] /\ c \in Cells
  BY CopyIs, KeyCells DEF CacheTypeOK
<1>8. v \in Entry /\ v.id = e.id /\ v.data = Copy(k)
  BY <1>5, <1>7 DEF EntryOK, Entry, CacheTypeOK
<1>9. EntryOK(k, u, mem, dirtied, watched, submit.floor)
  BY <1>5, <1>6 DEF EntryOK
<1>10. EntryOK(k, v, mem, dirtied, watched, submit.floor)
  BY <1>5, <1>7, <1>8 DEF EntryOK, FloorBelow
<1>11. /\ DOMAIN entries' = DOMAIN entries \ S
       /\ \A j \in DOMAIN entries \ S : j # k => entries'[j] = entries[j]
       /\ entries'[k] \in {u, v}
  <2>1. DOMAIN Kept(S) = DOMAIN entries \ S /\ \A j \in DOMAIN entries \ S : Kept(S)[j] = entries[j]
    BY WithoutIs DEF Kept
  <2>2. CASE CleanHit(k, S)
    BY <1>1, <2>1, <2>2 DEF CleanHit
  <2>3. CASE DirtyHit(k, S)
    BY <1>1, <2>1, <2>3 DEF DirtyHit
  <2> QED BY <1>1, <2>2, <2>3
<1>12. \A j \in DOMAIN entries' :
           /\ j \in DOMAIN entries /\ entries'[j].id = entries[j].id
           /\ EntryOK(j, entries'[j], mem, dirtied, watched, submit.floor)
  BY <1>6, <1>8, <1>9, <1>10, <1>11 DEF EntriesOK
<1>13. EntriesOK' /\ IdsApart'
  BY <1>2, <1>3, <1>12, EntriesStay
<1>14. FloorBelow' /\ FillOK'
  BY <1>2, <1>3 DEF FloorBelow, FillOK
<1> QED BY <1>4, <1>13, <1>14

LEMMA Fill_Inv ==
    ASSUME CacheInv, NEW k \in Keys, Fill(k)
    PROVE  CacheInv'
<1> USE DEF CacheInv
<1> DEFINE data == IF Readable(k) THEN Copy(k) ELSE Nothing
<1>1. PICK S \in Evictions :
         /\ Trimmed(S) /\ entries' = Kept(S) /\ next_id' = next_id + 1
         /\ \E g, f, l : /\ g = submit.gets + 1 /\ f = submit.floor
                         /\ submit' = [pc |-> "fill", gets |-> g, floor |-> f, list |-> l,
                                       key |-> k, data |-> data, dirty |-> ~Readable(k)]
  BY DEF Fill
<1>2. ~IsRt(k) /\ submit.pc = "walk" /\ UNCHANGED <<mem, dirtied, watched, flips, sink>>
  BY DEF Fill, CanGet, pageVars, dirtyVars
<1>3. /\ DOMAIN submit' = {"pc", "gets", "floor", "list", "key", "data", "dirty"}
      /\ submit'.pc = "fill" /\ submit'.gets = submit.gets + 1 /\ submit'.floor = submit.floor
      /\ submit'.key = k /\ submit'.data = data /\ submit'.dirty = ~Readable(k)
  BY <1>1
<1>4. CacheTypeOK'
  BY <1>1, <1>2, <1>3 DEF CacheTypeOK, Trimmed
<1>5. DOMAIN entries' \subseteq DOMAIN entries /\ \A j \in DOMAIN entries' : entries'[j] = entries[j]
  <2>1. entries' = Without(entries, S)
    BY <1>1 DEF Kept
  <2> QED BY <2>1 DEF Without
<1>6. EntriesOK'
  BY <1>2, <1>3, <1>5 DEF EntriesOK
<1>7. FloorBelow'
  BY <1>2, <1>3 DEF FloorBelow
<1>8. FillOK'
  <2>1. data \in [Cells -> Nat] /\ (Readable(k) => \A c \in Extent(k) : data[c] = mem[c])
    BY CopyIs, NothingIs DEF CacheTypeOK
  <2>2. submit'.dirty \in BOOLEAN
    BY <1>3, Zenon
  <2>3. ~submit'.dirty => Readable(k)
    BY <1>3
  <2> QED BY <1>2, <1>3, <2>1, <2>2, <2>3 DEF FillOK
<1>9. IdsApart'
  <2>1. next_id \in Nat /\ next_id' = next_id + 1
    BY <1>1 DEF CacheTypeOK
  <2>2. \A j \in DOMAIN entries : entries[j].id < next_id /\ entries[j].id \in Nat
    BY DEF IdsApart, EntriesOK, EntryOK, Entry
  <2>3. \A j \in DOMAIN entries' : entries'[j].id < next_id' - 1 /\ entries'[j].id < next_id'
    BY <1>5, <2>1, <2>2
  <2> QED BY <1>5, <2>3 DEF IdsApart
<1> QED BY <1>4, <1>6, <1>7, <1>8, <1>9

LEMMA Insert_Inv ==
    ASSUME CacheInv, Insert
    PROVE  CacheInv'
<1> USE DEF CacheInv
<1> DEFINE k == submit.key
           e == [id |-> next_id - 1, dirty |-> submit.dirty, last_used |-> trimmed_flip, data |-> submit.data]
<1>1. /\ submit.pc = "fill" /\ UNCHANGED <<mem, dirtied, flips, next_id, trimmed_flip, sink>>
      /\ entries' = With(entries, k, e)
      /\ watched' = IF watch_pays(k.layout) THEN watched \cup PagesOf(k) ELSE watched
  BY DEF Insert, pageVars
<1>2. /\ DOMAIN submit' = {"pc", "gets", "floor", "list"} /\ submit'.pc = "walk"
      /\ submit'.gets = submit.gets /\ submit'.floor = submit.floor
  BY IdleIs DEF Insert
<1>3. CacheTypeOK'
  BY <1>1, <1>2 DEF CacheTypeOK
<1>4. /\ DOMAIN entries' = DOMAIN entries \cup {k} /\ entries'[k] = e
      /\ \A j \in DOMAIN entries : j # k => entries'[j] = entries[j]
  BY <1>1 DEF With
<1>5. EntriesOK'
  <2>1. EntryOK(k, e, mem, dirtied, watched', submit.floor)
    <3>1. k \in Keys /\ e \in Entry
      BY <1>1 DEF FillOK, Entry, CacheTypeOK
    <3>2. Extent(k) \subseteq Cells
      BY <3>1, KeyCells
    <3>3. Tracked(k) => PagesOf(k) \subseteq watched'
      BY <1>1 DEF Tracked
    <3>4. ASSUME ~RacyFill, ~e.dirty, NEW c \in Extent(k)
          PROVE  e.data[c] = mem[c] /\ submit.floor[c] <= e.data[c]
      BY <1>1, <3>2, <3>4 DEF FillOK, FloorBelow
    <3> QED BY <3>1, <3>3, <3>4 DEF EntryOK
  <2>2. \A j \in DOMAIN entries : EntryOK(j, entries[j], mem, dirtied, watched', submit.floor)
    BY <1>1 DEF EntriesOK, EntryOK
  <2> QED BY <1>1, <1>2, <1>4, <2>1, <2>2 DEF EntriesOK
<1>6. FloorBelow' /\ FillOK'
  BY <1>1, <1>2 DEF FloorBelow, FillOK
<1>7. IdsApart'
  <2>1. next_id \in Nat /\ next_id' = next_id /\ submit'.pc # "fill" /\ e.id = next_id - 1
    BY <1>1, <1>2 DEF CacheTypeOK
  <2>2. \A j \in DOMAIN entries : entries[j].id < next_id - 1 /\ entries[j].id \in Nat
    BY <1>1 DEF IdsApart, EntriesOK, EntryOK, Entry
  <2> QED BY <1>4, <2>1, <2>2 DEF IdsApart
<1> QED BY <1>3, <1>5, <1>6, <1>7

LEMMA GetRenderTarget_Inv ==
    ASSUME CacheInv, NEW k \in Keys, GetRenderTarget(k)
    PROVE  CacheInv'
<1> USE DEF CacheInv
<1>1. /\ IsRt(k) /\ submit.pc = "walk"
      /\ UNCHANGED <<mem, dirtied, watched, flips, trimmed_flip, sink>>
  BY DEF GetRenderTarget, CanGet, pageVars, dirtyVars
<1>2. /\ DOMAIN submit' = DOMAIN submit /\ submit'.pc = "walk"
      /\ submit'.gets \in Nat /\ submit'.floor = submit.floor
  BY <1>1, WalkIs DEF GetRenderTarget, CacheTypeOK
<1>3. FloorBelow' /\ FillOK'
  BY <1>1, <1>2 DEF FloorBelow, FillOK
<1>4. CASE k \in DOMAIN entries
  <2>1. entries' = [entries EXCEPT ![k] = [entries[k] EXCEPT !.last_used = trimmed_flip]] /\ next_id' = next_id
    BY <1>4 DEF GetRenderTarget
  <2>2. EntryOK(k, entries[k], mem, dirtied, watched, submit.floor)
    BY <1>4 DEF EntriesOK
  <2>3. /\ entries'[k] \in Entry /\ entries'[k].id = entries[k].id /\ entries'[k].dirty = entries[k].dirty
        /\ entries'[k].data = entries[k].data
    BY <1>4, <2>1, <2>2, UseKeeps DEF EntryOK, CacheTypeOK
  <2>4. DOMAIN entries' = DOMAIN entries /\ \A j \in DOMAIN entries : j # k => entries'[j] = entries[j]
    BY <2>1
  <2>5. EntryOK(k, entries'[k], mem, dirtied, watched, submit.floor)
    BY <2>2, <2>3 DEF EntryOK
  <2>6. EntriesOK' /\ IdsApart'
    <3>1. \A j \in DOMAIN entries' :
               /\ j \in DOMAIN entries /\ entries'[j].id = entries[j].id
               /\ EntryOK(j, entries'[j], mem, dirtied, watched, submit.floor)
      BY <2>3, <2>4, <2>5 DEF EntriesOK
    <3> QED BY <1>1, <1>2, <2>1, <3>1, EntriesStay
  <2>7. CacheTypeOK'
    BY <1>1, <1>2, <2>1 DEF CacheTypeOK
  <2> QED BY <1>3, <2>6, <2>7
<1>5. CASE k \notin DOMAIN entries
  <2> DEFINE e == [id |-> next_id, dirty |-> FALSE, last_used |-> trimmed_flip, data |-> Nothing]
  <2>1. entries' = With(entries, k, e) /\ next_id' = next_id + 1
    BY <1>5 DEF GetRenderTarget
  <2>2. /\ DOMAIN entries' = DOMAIN entries \cup {k} /\ entries'[k] = e
        /\ \A j \in DOMAIN entries : entries'[j] = entries[j]
    BY <1>5, <2>1 DEF With
  <2>3. EntryOK(k, e, mem, dirtied, watched, submit.floor)
    BY <1>1, NothingIs DEF EntryOK, Entry, Tracked, CacheTypeOK
  <2>4. EntriesOK'
    BY <1>1, <1>2, <2>2, <2>3 DEF EntriesOK
  <2>5. IdsApart'
    <3>1. next_id \in Nat /\ e.id = next_id /\ \A j \in DOMAIN entries : entries[j].id < next_id /\ entries[j].id \in Nat
      BY DEF CacheTypeOK, IdsApart, EntriesOK, EntryOK, Entry
    <3>2. ASSUME NEW j \in DOMAIN entries' PROVE entries'[j].id < next_id'
      <4>1. CASE j = k
        BY <2>1, <2>2, <3>1, <4>1
      <4>2. CASE j \in DOMAIN entries
        <5>1. entries'[j].id = entries[j].id /\ entries[j].id < next_id /\ entries[j].id \in Nat
          BY <2>2, <3>1, <4>2
        <5> QED BY <2>1, <3>1, <5>1
      <4> QED BY <2>2, <4>1, <4>2
    <3>3. ASSUME NEW i \in DOMAIN entries', NEW j \in DOMAIN entries', entries'[j].id = entries'[i].id
          PROVE  j = i
      <4>1. CASE i \in DOMAIN entries /\ j \in DOMAIN entries
        BY <2>2, <3>3, <4>1 DEF IdsApart
      <4>2. CASE i = k /\ j \in DOMAIN entries
        <5>1. entries'[j].id < next_id /\ entries'[i].id = next_id
          BY <2>2, <3>1, <4>2
        <5> QED BY <3>1, <3>3, <5>1
      <4>3. CASE j = k /\ i \in DOMAIN entries
        <5>1. entries'[i].id < next_id /\ entries'[j].id = next_id
          BY <2>2, <3>1, <4>3
        <5> QED BY <3>1, <3>3, <5>1
      <4> QED BY <2>2, <4>1, <4>2, <4>3
    <3> QED BY <1>2, <3>2, <3>3 DEF IdsApart
  <2>6. CacheTypeOK'
    BY <1>1, <1>2, <2>1 DEF CacheTypeOK
  <2> QED BY <1>3, <2>4, <2>5, <2>6
<1> QED BY <1>4, <1>5

\* The list is sent, or the lock given up: nothing is asked for any more.
LEMMA Over_Inv ==
    ASSUME CacheInv, UNCHANGED <<mem, dirtyVars, entries, next_id, trimmed_flip, flips, sink>>,
           DOMAIN submit' = {"pc", "gets", "floor", "list"}, submit'.pc # "fill",
           submit'.gets = 0, submit'.floor = Nothing
    PROVE  CacheInv'
<1> USE DEF CacheInv, dirtyVars
<1>1. CacheTypeOK'
  BY NothingIs DEF CacheTypeOK
<1>2. FloorBelow' /\ FillOK'
  BY NothingIs DEF FloorBelow, FillOK, CacheTypeOK
<1>3. EntriesOK'
  <2> SUFFICES ASSUME NEW k \in DOMAIN entries
               PROVE  EntryOK(k, entries[k], mem, dirtied, watched, Nothing)
    BY DEF EntriesOK
  <2>1. EntryOK(k, entries[k], mem, dirtied, watched, submit.floor)
    BY DEF EntriesOK
  <2>2. \A c \in Extent(k) : Nothing[c] <= entries[k].data[c]
    BY <2>1, KeyCells, NothingIs DEF EntryOK, Entry
  <2> QED BY <2>1, <2>2 DEF EntryOK
<1>4. IdsApart'
  BY DEF IdsApart
<1> QED BY <1>1, <1>2, <1>3, <1>4

----------------------------------------------------------------------------
(* Unmapping *)

\* The pages that lose their protection are the unmapped one, and an entry
\* on that one is gone.
LEMMA NotifyFree_Inv ==
    ASSUME WholeUnmaps, CacheInv, NotifyFree
    PROVE  CacheInv'
<1> USE DEF CacheInv
<1> DEFINE freed == {k \in DOMAIN entries : ranges_overlap(k, PageCells(sink.page))}
           gone == UNION {PagesOf(k) : k \in {j \in freed : Unwatches(j)}}
<1>1. /\ sink.pc = "unmapped" /\ submit.pc = "idle" /\ sink.page \in UnmapPages
      /\ entries' = Without(entries, freed) /\ watched' = watched \ gone
      /\ UNCHANGED <<mem, dirtied, flips, next_id, trimmed_flip, submit>>
      /\ sink'.pc # "unmapped"
  BY DEF NotifyFree, LockFree, pageVars, CacheTypeOK
<1>2. DOMAIN entries' = DOMAIN entries \ freed /\ \A k \in DOMAIN entries' : entries'[k] = entries[k]
  BY <1>1 DEF Without
<1>3. CacheTypeOK' /\ FloorBelow' /\ FillOK'
  BY <1>1 DEF CacheTypeOK, FloorBelow, FillOK
<1>4. \A k \in DOMAIN entries : k \in Keys
  BY DEF EntriesOK, EntryOK
<1>5. gone \subseteq {sink.page}
  <2> SUFFICES ASSUME NEW j \in freed, Unwatches(j)
               PROVE  PagesOf(j) \subseteq {sink.page}
    OBVIOUS
  <2>1. PICK c \in Extent(j) : c \in PageCells(sink.page)
    BY DEF ranges_overlap
  <2>2. sink.page \in PagesOf(j)
    BY <2>1 DEF PagesOf, PageCells
  <2> QED BY <1>1, <1>4, <2>2 DEF WholeUnmaps
<1>6. \A k \in DOMAIN entries' : sink.page \notin PagesOf(k)
  BY <1>2, <1>4, KeyCells DEF ranges_overlap, PagesOf, PageCells
<1>7. EntriesOK'
  <2> SUFFICES ASSUME NEW k \in DOMAIN entries'
               PROVE  EntryOK(k, entries[k], mem, dirtied, watched', submit.floor)
    BY <1>1, <1>2 DEF EntriesOK
  <2>1. EntryOK(k, entries[k], mem, dirtied, watched, submit.floor)
    BY <1>2 DEF EntriesOK
  <2>2. PagesOf(k) \subseteq watched => PagesOf(k) \subseteq watched'
    BY <1>1, <1>5, <1>6
  <2> HIDE DEF freed, gone
  <2> QED BY <2>1, <2>2 DEF EntryOK
<1>8. IdsApart'
  BY <1>1, <1>2 DEF IdsApart
<1> QED BY <1>3, <1>7, <1>8

LEMMA Replay_Inv ==
    ASSUME CacheInv, Replay
    PROVE  CacheInv'
<1> USE DEF CacheInv
<1>1. /\ UNCHANGED <<mem, dirtied, watched, flips, entries, next_id, trimmed_flip>>
      /\ submit' = submit \/ submit' = [submit EXCEPT !.pc = "done"]
      /\ sink' = sink \/ sink' = [pc |-> "idle"]
  BY DEF Replay, pageVars, dirtyVars, cacheVars
<1>2. CASE submit' = submit
  BY <1>1, <1>2 DEF CacheTypeOK, EntriesOK, FloorBelow, FillOK, IdsApart
<1>3. CASE submit' = [submit EXCEPT !.pc = "done"]
  <2>1. /\ DOMAIN submit' = DOMAIN submit /\ submit'.pc = "done" /\ submit'.floor = submit.floor
        /\ submit'.gets = submit.gets
    BY <1>3 DEF CacheTypeOK
  <2> QED BY <1>1, <2>1 DEF CacheTypeOK, EntriesOK, FloorBelow, FillOK, IdsApart
<1> QED BY <1>1, <1>2, <1>3

----------------------------------------------------------------------------
\* Entries, watches, written pages and the fill under way agree in every state,
\* through stores, look-ups, evictions, acquires, frees and replays.
THEOREM CacheInvariance ==
    ASSUME WholeUnmaps
    PROVE  CacheSpec => []CacheInv
<1>1. CacheInit => CacheInv
  <2> SUFFICES ASSUME CacheInit PROVE CacheInv
    OBVIOUS
  <2>1. DOMAIN entries = {}
    BY DEF CacheInit
  <2>2. /\ mem \in [Cells -> Nat] /\ \A c \in Cells : mem[c] = 0
    BY DEF CacheInit
  <2>3. /\ DOMAIN submit = {"pc", "gets", "floor", "list"} /\ submit.pc = "idle" /\ submit.gets = 0
        /\ submit.floor = Nothing /\ sink.pc = "idle"
    BY IdleIs DEF CacheInit
  <2>4. CacheTypeOK
    BY <2>2, <2>3, NothingIs DEF CacheInit, CacheTypeOK
  <2> QED BY <2>1, <2>2, <2>3, <2>4, NothingIs DEF CacheInv, EntriesOK, FloorBelow, FillOK, IdsApart
<1>2. CacheInv /\ [CacheNext]_resourceVars => CacheInv'
  <2> SUFFICES ASSUME CacheInv, [CacheNext]_resourceVars PROVE CacheInv'
    OBVIOUS
  <2>1. ASSUME NEW c \in Cells, GuestWrite(c) PROVE CacheInv'
    BY <2>1, GuestWrite_Inv
  <2>2. ASSUME NEW p \in UnmapPages, Map(p) \/ Munmap(p) PROVE CacheInv'
    BY <2>2, Quiet_Inv DEF Map, Munmap, cacheVars, CacheInv, CacheTypeOK
  <2>3. ASSUME NEW p \in AcquirePages, AcquireMem(p) PROVE CacheInv'
    BY <2>3, AcquireMem_Inv
  <2>4. ASSUME NEW k \in Keys, Hit(k) \/ Fill(k) \/ GetRenderTarget(k) PROVE CacheInv'
    BY <2>4, Hit_Inv, Fill_Inv, GetRenderTarget_Inv
  <2>5. CASE Flip
    BY <2>5, Quiet_Inv DEF Flip, pageVars, cacheVars, CacheInv, CacheTypeOK
  <2>6. CASE Submit
    BY <2>6, Submit_Inv
  <2>7. CASE Insert
    BY <2>7, Insert_Inv
  <2>8. CASE Ship \/ SubmitEnd
    BY <2>8, IdleIs, Over_Inv DEF Ship, SubmitEnd, pageVars, cacheVars
  <2>9. CASE NotifyFree
    BY <2>9, NotifyFree_Inv
  <2>10. CASE SendFrees
    BY <2>10, Quiet_Inv DEF SendFrees, pageVars, cacheVars, CacheInv, CacheTypeOK
  <2>11. CASE Replay
    BY <2>11, Replay_Inv
  <2>12. CASE UNCHANGED resourceVars
    BY <2>12, Quiet_Inv DEF resourceVars, pageVars, cacheVars, CacheInv, CacheTypeOK
  <2> QED BY <2>1, <2>2, <2>3, <2>4, <2>5, <2>6, <2>7, <2>8, <2>9, <2>10, <2>11, <2>12 DEF CacheNext
<1> QED BY <1>1, <1>2, PTL DEF CacheSpec

\* An entry whose hit would upload nothing was uploaded with what memory held
\* when the submit began, or later.
CleanHitsFresh ==
    \A k \in DOMAIN entries :
        ~IsRt(k) /\ Trusted(k) => \A c \in Cells : Need(k)[c] <= entries[k].data[c]

\* A clean hit is never stale: the half of DrawReadsFresh that the cache
\* answers for.  DrawsFresh below follows it to the display thread's replay.
THEOREM SkippedUploadsFresh ==
    ASSUME WholeUnmaps, ~RacyFill
    PROVE  CacheSpec => []CleanHitsFresh
<1>1. CacheInv => CleanHitsFresh
  <2> SUFFICES ASSUME CacheInv, NEW k \in DOMAIN entries, ~IsRt(k), Trusted(k), NEW c \in Cells
               PROVE  Need(k)[c] <= entries[k].data[c]
    BY DEF CleanHitsFresh
  <2>1. EntryOK(k, entries[k], mem, dirtied, watched, submit.floor)
    BY DEF CacheInv, EntriesOK
  <2>2. entries[k].data[c] \in Nat
    BY <2>1 DEF EntryOK, Entry
  <2>3. CASE c \in Extent(k)
    BY <2>1, <2>3 DEF EntryOK, Need, Tracked, Trusted
  <2>4. CASE c \notin Extent(k)
    BY <2>2, <2>4 DEF Need
  <2> QED BY <2>3, <2>4
<1> QED BY <1>1, CacheInvariance, PTL

\* What get's documentation says of a clean hit holds for a guest that unmaps
\* whole resources; GpuCache_unwatch.cfg shows what another guest meets.
THEOREM WatchedHits ==
    ASSUME WholeUnmaps
    PROVE  CacheSpec => OnlyWatchedHitsClean
<1> DEFINE A == \A k \in DOMAIN entries : Hit(k) /\ Trusted(k) => PagesOf(k) \subseteq watched
<1>1. CacheInv => [A]_resourceVars
  BY DEF CacheInv, EntriesOK, EntryOK, Tracked, Trusted, Hit
<1> QED BY <1>1, CacheInvariance, PTL DEF OnlyWatchedHitsClean

----------------------------------------------------------------------------
(***************************************************************************)
(* Induction, as a fact about sets of numbers.                             *)
(***************************************************************************)
LEMMA LeastNumber ==
    ASSUME NEW T, T \subseteq Nat, T # {}
    PROVE  \E x \in T : \A y \in T : x <= y
<1> DEFINE R == OpToRel(<, Nat)
<1>1. PICK x \in T : \A y \in T : <<y, x>> \notin R
  BY NatLessThanWellFounded, WFMin
<1>2. \A y \in T : ~(y < x)
  BY <1>1 DEF OpToRel
<1> HIDE DEF R
<1>3. \A y \in T : x <= y
  BY <1>2
<1> QED BY <1>3

\* A set with zero, and with each number's successor, has every number.
LEMMA Induction ==
    ASSUME NEW S, 0 \in S, \A n \in Nat : n \in S => n + 1 \in S
    PROVE  Nat \subseteq S
<1> SUFFICES ASSUME Nat \ S # {} PROVE FALSE
  OBVIOUS
<1>1. PICK x \in Nat \ S : \A y \in Nat \ S : x <= y
  BY LeastNumber
<1>2. x # 0 /\ x - 1 \in Nat
  BY <1>1
<1>3. x - 1 \in S
  BY <1>1, <1>2
<1> QED BY <1>1, <1>2, <1>3

----------------------------------------------------------------------------
(***************************************************************************)
(* From the cache to the draws, for a guest that unmaps resources whole    *)
(* and does not write what is being filled.  Consistent relates the        *)
(* backend, the list the submit has under way, the resources of the        *)
(* entries and the ids the sink is to free: once the list is run every     *)
(* resource is there with the bytes its entry remembers, whatever the      *)
(* order in which the two lists reach the display thread, because their    *)
(* ids are apart.  Every step keeps it (DeliveryInv), commands being added *)
(* one at a time; running a list is followed command by command, by        *)
(* induction on how many were run (Ran).                                   *)
(***************************************************************************)
Bytes == [Cells -> Nat]
Kinds == {"rt", "buffer", "image"}
Command == [op : {"create"}, id : Nat, kind : Kinds] \cup [op : {"upload"}, id : Nat, data : Bytes]
           \cup [op : {"free"}, id : Nat] \cup [op : {"draw"}, id : Nat, need : Bytes]
Resource == [kind : Kinds, live : BOOLEAN, data : Bytes]

AtMost(f, g) == \A c \in Cells : f[c] <= g[c]
BytesOf(k, m) == [c \in Cells |-> IF c \in Extent(k) THEN m[c] ELSE 0]

\* Command i of list L is op on resource id; resource id is in backend g.
Is(L, i, op, id) == L[i].op = op /\ L[i].id = id
Live(g, id) == id \in DOMAIN g /\ g[id].live

\* Resource id is there when command n of list L is run on backend g.
Stands(g, L, n, id) ==
    /\ Live(g, id) \/ \E j \in DOMAIN L : j < n /\ Is(L, j, "create", id)
    /\ \A j \in DOMAIN L : j < n => ~Is(L, j, "free", id)

\* After list L resource id holds data, or newer.
Delivers(g, L, id, data) ==
    \/ AtMost(data, Nothing)
    \/ \E u \in DOMAIN L : Is(L, u, "upload", id) /\ AtMost(data, L[u].data)
    \/ Live(g, id) /\ AtMost(data, g[id].data)

\* What backend g does with list L: nothing is made twice, an upload or a draw
\* finds its resource, uploads bring newer bytes, a draw is served.
CreatesOK(g, L) ==
    \A i \in DOMAIN L : L[i].op = "create" =>
        L[i].id \notin DOMAIN g /\ \A j \in DOMAIN L : j < i => L[j].id # L[i].id
UsesOK(g, L) ==
    \A i \in DOMAIN L : L[i].op \in {"upload", "draw"} => Stands(g, L, i, L[i].id)
UploadsOK(g, L) ==
    \A i \in DOMAIN L : L[i].op = "upload" =>
        /\ Live(g, L[i].id) => AtMost(g[L[i].id].data, L[i].data)
        /\ \A j \in DOMAIN L : j < i /\ Is(L, j, "upload", L[i].id) => AtMost(L[j].data, L[i].data)
DrawsOK(g, L) ==
    \A i \in DOMAIN L : L[i].op = "draw" => Delivers(g, L, L[i].id, L[i].need)
ListOK(g, L) == CreatesOK(g, L) /\ UsesOK(g, L) /\ UploadsOK(g, L) /\ DrawsOK(g, L)

\* The resource e, of a key and last uploaded with e.data, once list L is run.
ResourceOK(g, L, e, m) ==
    /\ Stands(g, L, Len(L) + 1, e.id)
    /\ Delivers(g, L, e.id, e.data)
    /\ \A i \in DOMAIN L : Is(L, i, "upload", e.id) => AtMost(L[i].data, BytesOf(e.key, m))
    /\ \A i \in DOMAIN L : Is(L, i, "create", e.id) => L[i].kind = KindOf(e.key)
    /\ Live(g, e.id) => AtMost(g[e.id].data, BytesOf(e.key, m)) /\ g[e.id].kind = KindOf(e.key)

\* Names: commands and resources are of ids given out; the ids the sink frees,
\* Z, are nobody else's; no two resources share one.
NamesOK(L, E, Z, next) ==
    /\ next \in Nat /\ L \in Seq(Command) /\ Z \subseteq 0..next - 1
    /\ \A i \in DOMAIN L : L[i].id < next /\ L[i].id \notin Z
    /\ \A e \in E : /\ e \in [key : Keys, id : Nat, data : Bytes] /\ e.id < next /\ e.id \notin Z
                    /\ \A f \in E : f.id = e.id => f = e

\* What takes memory is somebody's, or about to be freed.
Owned(L, E, Z, id) ==
    \/ \E e \in E : e.id = id
    \/ id \in Z
    \/ \E i \in DOMAIN L : Is(L, i, "free", id)
NoLeak(g, L, E, Z) ==
    /\ \A id \in DOMAIN g : g[id].live => Owned(L, E, Z, id) \/ g[id].kind = "image"
    /\ \A i \in DOMAIN L : L[i].op = "create" => Owned(L, E, Z, L[i].id)

BackendOK(g, next) == \A id \in DOMAIN g : id \in Nat /\ id < next /\ g[id] \in Resource

\* The backend g, the submit's list L, the resources E, the ids Z the sink
\* frees, the next id and memory m.
Consistent(g, L, E, Z, next, m) ==
    /\ NamesOK(L, E, Z, next) /\ BackendOK(g, next) /\ m \in Bytes
    /\ ListOK(g, L)
    /\ \A e \in E : ResourceOK(g, L, e, m)
    /\ NoLeak(g, L, E, Z)

----------------------------------------------------------------------------
\* No newer than: an order on bytes.
LEMMA AtMostIs ==
    /\ \A f \in Bytes : AtMost(f, f)
    /\ \A f, h, k \in Bytes : AtMost(f, h) /\ AtMost(h, k) => AtMost(f, k)
    /\ \A f \in Bytes : AtMost(Nothing, f)
    /\ Nothing \in Bytes
BY NothingIs DEF AtMost, Bytes

\* The bytes of a key, of memory and of memory later.
LEMMA BytesOfIs ==
    ASSUME NEW k, NEW m \in Bytes, NEW m2 \in Bytes, AtMost(m, m2)
    PROVE  /\ BytesOf(k, m) \in Bytes /\ BytesOf(k, m2) \in Bytes
           /\ AtMost(BytesOf(k, m), BytesOf(k, m2))
BY DEF BytesOf, Bytes, AtMost

\* List L2 is list L and command x after it, at place p.
Longer(L, x, L2, p) ==
    /\ L2 \in Seq(Command) /\ p \in Nat /\ p = Len(L) + 1 /\ p = Len(L2)
    /\ DOMAIN L2 = DOMAIN L \cup {p} /\ L2[p] = x
    /\ \A i \in DOMAIN L : i \in Nat /\ i < p /\ L2[i] = L[i]

\* A command appended.
LEMMA OneMore ==
    ASSUME NEW L \in Seq(Command), NEW x \in Command
    PROVE  Longer(L, x, Append(L, x), Len(L) + 1)
<1>1. /\ Append(L, x) \in Seq(Command) /\ Len(Append(L, x)) = Len(L) + 1
      /\ \A i \in 1..Len(L) : Append(L, x)[i] = L[i]
      /\ Append(L, x)[Len(L) + 1] = x
  BY AppendProperties
<1>2. Len(L) \in Nat /\ DOMAIN L = 1..Len(L) /\ DOMAIN Append(L, x) = 1..Len(Append(L, x))
  BY <1>1, LenProperties
<1> DEFINE n == Len(L)
           L2 == Append(L, x)
<1> HIDE DEF n, L2
<1>3. n \in Nat /\ DOMAIN L = 1..n /\ DOMAIN L2 = 1..n + 1
  BY <1>1, <1>2 DEF n, L2
<1>4. DOMAIN L2 = DOMAIN L \cup {n + 1} /\ \A i \in DOMAIN L : i \in Nat /\ i < n + 1
  BY <1>3
<1> QED BY <1>1, <1>2, <1>3, <1>4 DEF Longer, n, L2

----------------------------------------------------------------------------
(* Commands added to the list *)

\* What was true of a list's commands is true of them in the longer list.
LEMMA StillStands ==
    ASSUME NEW g, NEW L, NEW x, NEW L2, NEW p, Longer(L, x, L2, p)
    PROVE  /\ \A i \in DOMAIN L : \A id : Stands(g, L, i, id) => Stands(g, L2, i, id)
           /\ \A id, d : Delivers(g, L, id, d) => Delivers(g, L2, id, d)
           /\ \A id : Stands(g, L, p, id) => Stands(g, L2, p, id)
           /\ \A id : Stands(g, L, p, id) /\ ~(x.op = "free" /\ x.id = id) => Stands(g, L2, p + 1, id)
<1>1. \A i \in DOMAIN L : \A id : Stands(g, L, i, id) => Stands(g, L2, i, id)
  BY DEF Stands, Longer, Is
<1>2. \A id, d : Delivers(g, L, id, d) => Delivers(g, L2, id, d)
  BY DEF Delivers, Longer, Is
<1>3. \A id : Stands(g, L, p, id) => Stands(g, L2, p, id)
  BY DEF Stands, Longer, Is
<1>4. \A id : Stands(g, L, p, id) /\ ~(x.op = "free" /\ x.id = id) => Stands(g, L2, p + 1, id)
  BY DEF Stands, Longer, Is
<1> QED BY <1>1, <1>2, <1>3, <1>4

\* The list stays good if the new command is.
LEMMA LongerOK ==
    ASSUME NEW g, NEW L, NEW x, NEW L2, NEW p, Longer(L, x, L2, p), ListOK(g, L),
           x.op = "create" => x.id \notin DOMAIN g /\ \A j \in DOMAIN L : L[j].id # x.id,
           x.op \in {"upload", "draw"} => Stands(g, L, p, x.id),
           x.op = "upload" => /\ Live(g, x.id) => AtMost(g[x.id].data, x.data)
                              /\ \A j \in DOMAIN L : Is(L, j, "upload", x.id) => AtMost(L[j].data, x.data),
           x.op = "draw" => Delivers(g, L, x.id, x.need)
    PROVE  ListOK(g, L2)
<1>1. DOMAIN L2 = DOMAIN L \cup {p} /\ L2[p] = x /\ \A i \in DOMAIN L : i < p /\ ~(p < i) /\ L2[i] = L[i]
  BY DEF Longer
<1>2. ~(p < p)
  BY DEF Longer
<1>3. CreatesOK(g, L2)
  BY <1>1, <1>2 DEF ListOK, CreatesOK
<1>4. UsesOK(g, L2)
  <2>1. /\ \A i \in DOMAIN L : \A id : Stands(g, L, i, id) => Stands(g, L2, i, id)
        /\ \A id : Stands(g, L, p, id) => Stands(g, L2, p, id)
    BY StillStands
  <2> SUFFICES ASSUME NEW i \in DOMAIN L2, L2[i].op \in {"upload", "draw"}
               PROVE  Stands(g, L2, i, L2[i].id)
    BY DEF UsesOK
  <2>2. CASE i \in DOMAIN L
    BY <1>1, <2>1, <2>2 DEF ListOK, UsesOK
  <2>3. CASE i = p
    BY <1>1, <2>1, <2>3
  <2> QED BY <1>1, <2>2, <2>3
<1>5. UploadsOK(g, L2)
  BY <1>1, <1>2 DEF ListOK, UploadsOK, Is
<1>6. DrawsOK(g, L2)
  BY <1>1, StillStands DEF ListOK, DrawsOK
<1> QED BY <1>3, <1>4, <1>5, <1>6 DEF ListOK

\* A resource stays as it is if the new command is not about it, or draws it.
LEMMA OthersStay ==
    ASSUME NEW g, NEW L, NEW x, NEW L2, NEW p, Longer(L, x, L2, p), NEW m, NEW e, ResourceOK(g, L, e, m),
           x.id = e.id => x.op = "draw"
    PROVE  ResourceOK(g, L2, e, m)
<1>1. DOMAIN L2 = DOMAIN L \cup {p} /\ L2[p] = x /\ \A i \in DOMAIN L : L2[i] = L[i]
  BY DEF Longer
<1>2. Len(L) + 1 = p /\ Len(L2) = p
  BY DEF Longer
<1>3. Stands(g, L2, Len(L2) + 1, e.id) /\ Delivers(g, L2, e.id, e.data)
  <2>1. Stands(g, L, p, e.id) /\ Delivers(g, L, e.id, e.data)
    BY <1>2 DEF ResourceOK
  <2>2. Stands(g, L2, p + 1, e.id) /\ Delivers(g, L2, e.id, e.data)
    BY <2>1, StillStands
  <2> QED BY <1>2, <2>2
<1>4. /\ \A i \in DOMAIN L2 : Is(L2, i, "upload", e.id) => AtMost(L2[i].data, BytesOf(e.key, m))
      /\ \A i \in DOMAIN L2 : Is(L2, i, "create", e.id) => L2[i].kind = KindOf(e.key)
  BY <1>1 DEF ResourceOK, Is
<1> QED BY <1>3, <1>4 DEF ResourceOK

\* What had an owner still has one.
LEMMA OwnedStill ==
    ASSUME NEW L, NEW x, NEW L2, NEW p, Longer(L, x, L2, p), NEW E, NEW E2, NEW Z,
           \A e \in E : \E f \in E2 : f.id = e.id
    PROVE  \A id : Owned(L, E, Z, id) => Owned(L2, E2, Z, id)
BY DEF Owned, Longer, Is

\* The values a consistent state is made of.
LEMMA Typed ==
    ASSUME NEW g, NEW L, NEW E, NEW Z, NEW next, NEW m, Consistent(g, L, E, Z, next, m)
    PROVE  /\ \A u \in DOMAIN L : L[u] \in Command /\ (L[u].op = "upload" => L[u].data \in Bytes)
           /\ \A id : Live(g, id) => g[id].data \in Bytes
           /\ \A e \in E : e.id \in Nat /\ e.data \in Bytes /\ e.key \in Keys
<1>1. \A u \in DOMAIN L : L[u] \in Command
  BY ElementOfSeq, LenProperties DEF Consistent, NamesOK
<1>2. \A y \in Command : y.op = "upload" => y.data \in Bytes
  BY DEF Command
<1>3. \A id : Live(g, id) => g[id].data \in Bytes
  BY DEF Consistent, BackendOK, Resource, Live
<1>4. \A e \in E : e.id \in Nat /\ e.data \in Bytes /\ e.key \in Keys
  BY DEF Consistent, NamesOK
<1> QED BY <1>1, <1>2, <1>3, <1>4

\* A draw of a resource that has what the draw needs.
LEMMA AddDraw ==
    ASSUME NEW g, NEW L, NEW E, NEW Z, NEW next, NEW m, Consistent(g, L, E, Z, next, m),
           NEW e \in E, NEW need \in Bytes, AtMost(need, e.data)
    PROVE  Consistent(g, Append(L, Draw(e.id, need)), E, Z, next, m)
<1> DEFINE x == Draw(e.id, need)
           L2 == Append(L, x)
           p == Len(L) + 1
<1>1. x \in Command /\ x.op = "draw" /\ x.id = e.id /\ x.need = need
  BY DEF Draw, Command, Consistent, NamesOK
<1>2. Longer(L, x, L2, p)
  BY <1>1, OneMore DEF Consistent, NamesOK
<1> HIDE DEF x, L2, p
<1>3. ResourceOK(g, L, e, m)
  BY DEF Consistent
<1>4. Stands(g, L, p, x.id)
  BY <1>1, <1>3 DEF ResourceOK, p
<1>5. Delivers(g, L, x.id, x.need)
  <2>1. /\ e.data \in Bytes /\ \A u \in DOMAIN L : L[u].op = "upload" => L[u].data \in Bytes
        /\ Live(g, e.id) => g[e.id].data \in Bytes
    BY Typed
  <2>2. ASSUME NEW d \in Bytes, AtMost(e.data, d) PROVE AtMost(need, d)
    BY <2>1, <2>2, AtMostIs
  <2>3. Delivers(g, L, e.id, e.data)
    BY <1>3 DEF ResourceOK
  <2>4. Delivers(g, L, e.id, need)
    BY <2>1, <2>2, <2>3, AtMostIs DEF Delivers, Is
  <2> QED BY <1>1, <2>4
<1>6. ListOK(g, L2)
  BY <1>1, <1>2, <1>4, <1>5, LongerOK DEF Consistent
<1>7. \A f \in E : ResourceOK(g, L2, f, m)
  BY <1>1, <1>2, OthersStay DEF Consistent
<1>8. NamesOK(L2, E, Z, next)
  BY <1>1, <1>2 DEF Consistent, NamesOK, Longer
<1>9. NoLeak(g, L2, E, Z)
  <2>1. \A id : Owned(L, E, Z, id) => Owned(L2, E, Z, id)
    BY <1>2, OwnedStill
  <2>2. DOMAIN L2 = DOMAIN L \cup {p} /\ L2[p] = x /\ \A i \in DOMAIN L : L2[i] = L[i]
    BY <1>2 DEF Longer
  <2> QED BY <1>1, <2>1, <2>2 DEF Consistent, NoLeak
<1> QED BY <1>6, <1>7, <1>8, <1>9 DEF Consistent, x, L2

\* An upload of what memory holds to a resource.
LEMMA AddUpload ==
    ASSUME NEW g, NEW L, NEW E, NEW Z, NEW next, NEW m, Consistent(g, L, E, Z, next, m),
           NEW e \in E, NEW data, data = BytesOf(e.key, m),
           NEW e2, e2 = [key |-> e.key, id |-> e.id, data |-> data],
           NEW E2, E2 = (E \ {e}) \cup {e2}
    PROVE  Consistent(g, Append(L, Upload(e.id, data)), E2, Z, next, m)
<1> DEFINE x == Upload(e.id, data)
           L2 == Append(L, x)
           p == Len(L) + 1
<1>1. data \in Bytes
  BY BytesOfIs, AtMostIs DEF Consistent
<1>2. x \in Command /\ x.op = "upload" /\ x.id = e.id /\ x.data = data
  BY <1>1 DEF Upload, Command, Consistent, NamesOK
<1>3. Longer(L, x, L2, p)
  BY <1>2, OneMore DEF Consistent, NamesOK
<1>4. DOMAIN L2 = DOMAIN L \cup {p} /\ L2[p] = x /\ \A i \in DOMAIN L : L2[i] = L[i]
  BY <1>3 DEF Longer
<1> HIDE DEF x, L2, p
<1>5. ResourceOK(g, L, e, m)
  BY DEF Consistent
<1>6. e2.key = e.key /\ e2.id = e.id /\ e2.data = data /\ e2 \in [key : Keys, id : Nat, data : Bytes]
  BY <1>1, Typed
<1>7. Stands(g, L, p, x.id)
  BY <1>2, <1>5 DEF ResourceOK, p
<1>8. ListOK(g, L2)
  <2>1. /\ Live(g, x.id) => AtMost(g[x.id].data, x.data)
        /\ \A j \in DOMAIN L : Is(L, j, "upload", x.id) => AtMost(L[j].data, x.data)
    BY <1>2, <1>5 DEF ResourceOK
  <2> QED BY <1>2, <1>3, <1>7, <2>1, LongerOK DEF Consistent
<1>9. ResourceOK(g, L2, e2, m)
  <2>1. Stands(g, L2, Len(L2) + 1, e2.id)
    <3>1. Stands(g, L2, p + 1, x.id)
      BY <1>2, <1>3, <1>7, StillStands
    <3> QED BY <1>2, <1>3, <1>6, <3>1 DEF Longer
  <2>2. Delivers(g, L2, e2.id, e2.data)
    BY <1>1, <1>2, <1>4, <1>6, AtMostIs DEF Delivers, Is
  <2>3. \A i \in DOMAIN L2 : Is(L2, i, "upload", e2.id) => AtMost(L2[i].data, BytesOf(e2.key, m))
    BY <1>1, <1>2, <1>4, <1>5, <1>6, AtMostIs DEF ResourceOK, Is
  <2>4. \A i \in DOMAIN L2 : Is(L2, i, "create", e2.id) => L2[i].kind = KindOf(e2.key)
    BY <1>2, <1>4, <1>5, <1>6 DEF ResourceOK, Is
  <2>5. Live(g, e2.id) => AtMost(g[e2.id].data, BytesOf(e2.key, m)) /\ g[e2.id].kind = KindOf(e2.key)
    BY <1>5, <1>6 DEF ResourceOK
  <2> QED BY <2>1, <2>2, <2>3, <2>4, <2>5 DEF ResourceOK
<1>10. ASSUME NEW f \in E2 PROVE ResourceOK(g, L2, f, m)
  <2>1. CASE f \in E \ {e}
    <3>1. f.id # e.id /\ ResourceOK(g, L, f, m)
      BY <2>1 DEF Consistent, NamesOK
    <3> QED BY <1>2, <1>3, <3>1, OthersStay
  <2> QED BY <1>9, <2>1
<1>11. NamesOK(L2, E2, Z, next)
  <2>1. \A i \in DOMAIN L2 : L2[i].id < next /\ L2[i].id \notin Z
    BY <1>2, <1>4 DEF Consistent, NamesOK
  <2>2. \A f \in E2 : /\ f \in [key : Keys, id : Nat, data : Bytes] /\ f.id < next /\ f.id \notin Z
                      /\ \A h \in E2 : h.id = f.id => h = f
    BY <1>6 DEF Consistent, NamesOK
  <2> QED BY <1>3, <2>1, <2>2 DEF Consistent, NamesOK, Longer
<1>12. NoLeak(g, L2, E2, Z)
  <2>1. \A f \in E : \E h \in E2 : h.id = f.id
    BY <1>6
  <2>2. \A id : Owned(L, E, Z, id) => Owned(L2, E2, Z, id)
    <3> SUFFICES ASSUME NEW id, Owned(L, E, Z, id) PROVE Owned(L2, E2, Z, id)
      OBVIOUS
    <3>1. CASE \E f \in E : f.id = id
      BY <2>1, <3>1 DEF Owned
    <3>2. CASE id \in Z
      BY <3>2 DEF Owned
    <3>3. CASE \E i \in DOMAIN L : Is(L, i, "free", id)
      BY <1>4, <3>3 DEF Owned, Is
    <3> QED BY <3>1, <3>2, <3>3 DEF Owned
  <2> QED BY <1>2, <1>4, <2>2 DEF Consistent, NoLeak
<1> QED BY <1>8, <1>10, <1>11, <1>12 DEF Consistent, x, L2

\* A resource made under an id given out now.
LEMMA AddCreate ==
    ASSUME NEW g, NEW L, NEW E, NEW Z, NEW next, NEW m, Consistent(g, L, E, Z, next, m),
           NEW k \in Keys, NEW e, e = [key |-> k, id |-> next, data |-> Nothing]
    PROVE  Consistent(g, Append(L, Create(next, KindOf(k))), E \cup {e}, Z, next + 1, m)
<1> DEFINE x == Create(next, KindOf(k))
           L2 == Append(L, x)
           p == Len(L) + 1
           E2 == E \cup {e}
<1>1. next \in Nat /\ m \in Bytes
  BY DEF Consistent, NamesOK
<1>2. x \in Command /\ x.op = "create" /\ x.id = next /\ x.kind = KindOf(k)
  BY <1>1 DEF Create, Command, KindOf, Kinds
<1>3. Longer(L, x, L2, p)
  BY <1>2, OneMore DEF Consistent, NamesOK
<1>4. DOMAIN L2 = DOMAIN L \cup {p} /\ L2[p] = x /\ \A i \in DOMAIN L : L2[i] = L[i] /\ i < p /\ i < p + 1
      /\ p < p + 1
  BY <1>3 DEF Longer
<1> HIDE DEF x, L2, p, E2
<1>5. e \in [key : Keys, id : Nat, data : Bytes] /\ e.key = k /\ e.id = next /\ e.data = Nothing
  BY <1>1, AtMostIs
<1>6. /\ \A j \in DOMAIN L : L[j].id # next /\ L[j].id < next + 1 /\ L[j].id \in Nat
      /\ next \notin DOMAIN g /\ next \notin Z /\ \A f \in E : f.id # next /\ f.id < next + 1
  <2>1. \A y \in Command : y.id \in Nat
    BY DEF Command
  <2>2. \A j \in DOMAIN L : L[j].id \in Nat /\ L[j].id < next
    BY <2>1, Typed DEF Consistent, NamesOK
  <2>3. \A f \in E : f.id \in Nat /\ f.id < next
    BY DEF Consistent, NamesOK
  <2>4. next \notin DOMAIN g /\ next \notin Z
    BY <1>1 DEF Consistent, NamesOK, BackendOK
  <2> QED BY <1>1, <2>2, <2>3, <2>4
<1>7. ListOK(g, L2)
  BY <1>2, <1>3, <1>6, LongerOK DEF Consistent
<1>8. ResourceOK(g, L2, e, m)
  <2>1. Stands(g, L2, Len(L2) + 1, e.id)
    <3>1. Len(L2) = p
      BY <1>3 DEF Longer
    <3> QED BY <1>2, <1>4, <1>5, <1>6, <3>1 DEF Stands, Is
  <2>2. Delivers(g, L2, e.id, e.data)
    BY <1>5, AtMostIs DEF Delivers
  <2>3. /\ \A i \in DOMAIN L2 : ~Is(L2, i, "upload", e.id)
        /\ \A i \in DOMAIN L2 : Is(L2, i, "create", e.id) => L2[i].kind = KindOf(e.key)
        /\ ~Live(g, e.id)
    BY <1>2, <1>4, <1>5, <1>6 DEF Is, Live
  <2> QED BY <2>1, <2>2, <2>3 DEF ResourceOK
<1>9. \A f \in E2 : ResourceOK(g, L2, f, m)
  <2>1. ASSUME NEW f \in E PROVE ResourceOK(g, L2, f, m)
    <3>1. f.id # x.id /\ ResourceOK(g, L, f, m)
      BY <1>2, <1>6 DEF Consistent
    <3> QED BY <1>3, <3>1, OthersStay
  <2> QED BY <1>8, <2>1 DEF E2
<1>10. NamesOK(L2, E2, Z, next + 1)
  <2>1. next + 1 \in Nat /\ L2 \in Seq(Command) /\ next < next + 1
    BY <1>1, <1>3 DEF Longer
  <2>2. Z \subseteq 0..(next + 1) - 1
    BY <1>1 DEF Consistent, NamesOK
  <2>3. \A i \in DOMAIN L2 : L2[i].id < next + 1 /\ L2[i].id \notin Z
    BY <1>2, <1>4, <1>6, <2>1 DEF Consistent, NamesOK
  <2>4. \A f \in E2 : /\ f \in [key : Keys, id : Nat, data : Bytes] /\ f.id < next + 1 /\ f.id \notin Z
                      /\ \A h \in E2 : h.id = f.id => h = f
    BY <1>5, <1>6, <2>1 DEF Consistent, NamesOK, E2
  <2> QED BY <2>1, <2>2, <2>3, <2>4 DEF NamesOK
<1>11. NoLeak(g, L2, E2, Z)
  <2>1. \A id : Owned(L, E, Z, id) => Owned(L2, E2, Z, id)
    BY <1>3, OwnedStill DEF E2
  <2>2. Owned(L2, E2, Z, next)
    BY <1>5 DEF Owned, E2
  <2> QED BY <1>2, <1>4, <2>1, <2>2 DEF Consistent, NoLeak
<1>12. BackendOK(g, next + 1)
  BY <1>1 DEF Consistent, BackendOK
<1> QED BY <1>7, <1>9, <1>10, <1>11, <1>12 DEF Consistent, x, L2, E2

\* Resources evicted: each has its free, and only they.
LEMMA AddFrees ==
    ASSUME NEW g, NEW L, NEW E, NEW Z, NEW next, NEW m, Consistent(g, L, E, Z, next, m),
           NEW M \in Seq(Command), NEW F \in SUBSET E,
           \A i \in DOMAIN M : M[i].op = "free" /\ \E e \in F : M[i].id = e.id,
           \A e \in F : \E i \in DOMAIN M : M[i].id = e.id
    PROVE  Consistent(g, L \o M, E \ F, Z, next, m)
<1> DEFINE n == Len(L)
           L2 == L \o M
           E2 == E \ F
<1>1. /\ n \in Nat /\ DOMAIN L = 1..n /\ Len(M) \in Nat /\ DOMAIN M = 1..Len(M)
      /\ L2 \in Seq(Command) /\ DOMAIN L2 = 1..Len(L2) /\ Len(L2) = n + Len(M)
      /\ \A i \in 1..n + Len(M) : L2[i] = IF i <= n THEN L[i] ELSE M[i - n]
  <2>1. L \in Seq(Command)
    BY DEF Consistent, NamesOK
  <2> QED BY <2>1, ConcatProperties, LenProperties
<1> HIDE DEF n, L2, E2
<1>2. /\ \A i \in DOMAIN L : i \in DOMAIN L2 /\ L2[i] = L[i] /\ i < n + 1 /\ i < Len(L2) + 1
      /\ \A i \in DOMAIN L2 : i \in DOMAIN L \/ (i - n \in DOMAIN M /\ L2[i] = M[i - n] /\ ~(i < n + 1))
      /\ \A i \in DOMAIN M : i + n \in DOMAIN L2 /\ L2[i + n] = M[i] /\ i + n < Len(L2) + 1
  <2>1. \A i \in DOMAIN L : i \in DOMAIN L2 /\ L2[i] = L[i] /\ i < n + 1 /\ i < Len(L2) + 1
    BY <1>1
  <2>2. \A i \in DOMAIN L2 : i \in DOMAIN L \/ (i - n \in DOMAIN M /\ L2[i] = M[i - n] /\ ~(i < n + 1))
    BY <1>1
  <2>3. ASSUME NEW i \in DOMAIN M PROVE i + n \in DOMAIN L2 /\ L2[i + n] = M[i] /\ i + n < Len(L2) + 1
    <3>1. i + n \in 1..n + Len(M) /\ ~(i + n <= n) /\ i + n - n = i
      BY <1>1
    <3> QED BY <1>1, <3>1
  <2> QED BY <2>1, <2>2, <2>3
<1>3. \A i \in DOMAIN L2 : i \notin DOMAIN L => L2[i].op = "free" /\ \E e \in F : L2[i].id = e.id
  BY <1>2
<1>4. \A i \in DOMAIN L, j \in DOMAIN L2 : j < i => j \in DOMAIN L
  BY <1>1
<1>5. \A i \in DOMAIN L : \A id : Stands(g, L, i, id) => Stands(g, L2, i, id)
  BY <1>2, <1>4 DEF Stands, Is
<1>6. \A id, d : Delivers(g, L, id, d) => Delivers(g, L2, id, d)
  BY <1>2 DEF Delivers, Is
<1>7. ListOK(g, L2)
  <2>1. CreatesOK(g, L2)
    BY <1>2, <1>3, <1>4 DEF Consistent, ListOK, CreatesOK
  <2>2. UsesOK(g, L2)
    BY <1>2, <1>3, <1>5 DEF Consistent, ListOK, UsesOK
  <2>3. UploadsOK(g, L2)
    BY <1>2, <1>3, <1>4 DEF Consistent, ListOK, UploadsOK, Is
  <2>4. DrawsOK(g, L2)
    BY <1>2, <1>3, <1>6 DEF Consistent, ListOK, DrawsOK
  <2> QED BY <2>1, <2>2, <2>3, <2>4 DEF ListOK
<1>8. \A e \in F, f \in E2 : f.id # e.id
  BY DEF Consistent, NamesOK, E2
<1>9. ASSUME NEW f \in E2 PROVE ResourceOK(g, L2, f, m)
  <2>1. ResourceOK(g, L, f, m)
    BY DEF Consistent, E2
  <2>2. \A i \in DOMAIN L2 : i \notin DOMAIN L => L2[i].id # f.id
    BY <1>3, <1>8
  <2>3. Stands(g, L, n + 1, f.id)
    BY <2>1 DEF ResourceOK, n
  <2>4. Stands(g, L2, Len(L2) + 1, f.id)
    BY <1>2, <2>2, <2>3 DEF Stands, Is
  <2>5. Delivers(g, L2, f.id, f.data)
    BY <1>6, <2>1 DEF ResourceOK
  <2> QED BY <1>2, <2>1, <2>2, <2>4, <2>5 DEF ResourceOK, Is
<1>10. NamesOK(L2, E2, Z, next)
  <2>1. \A i \in DOMAIN L2 : L2[i].id < next /\ L2[i].id \notin Z
    BY <1>2, <1>3 DEF Consistent, NamesOK
  <2> QED BY <1>1, <2>1 DEF Consistent, NamesOK, E2
<1>11. NoLeak(g, L2, E2, Z)
  <2>1. ASSUME NEW id, Owned(L, E, Z, id) PROVE Owned(L2, E2, Z, id)
    <3>1. ASSUME NEW e \in F, e.id = id PROVE \E i \in DOMAIN L2 : Is(L2, i, "free", id)
      <4>1. PICK i \in DOMAIN M : M[i].id = e.id /\ M[i].op = "free"
        OBVIOUS
      <4> QED BY <1>2, <3>1, <4>1 DEF Is
    <3> QED BY <1>2, <2>1, <3>1 DEF Owned, Is, E2
  <2>2. \A i \in DOMAIN L2 : L2[i].op = "create" => i \in DOMAIN L
    BY <1>3
  <2> QED BY <1>2, <2>1, <2>2 DEF Consistent, NoLeak
<1> QED BY <1>7, <1>9, <1>10, <1>11 DEF Consistent, L2, E2

----------------------------------------------------------------------------
(* Other steps *)

\* Memory is only ever written anew.
LEMMA MemoryGrows ==
    ASSUME NEW g, NEW L, NEW E, NEW Z, NEW next, NEW m, Consistent(g, L, E, Z, next, m),
           NEW m2 \in Bytes, AtMost(m, m2)
    PROVE  Consistent(g, L, E, Z, next, m2)
<1> SUFFICES ASSUME NEW e \in E PROVE ResourceOK(g, L, e, m2)
  BY DEF Consistent
<1>1. ResourceOK(g, L, e, m) /\ m \in Bytes
  BY DEF Consistent
<1>2. /\ BytesOf(e.key, m) \in Bytes /\ BytesOf(e.key, m2) \in Bytes
      /\ AtMost(BytesOf(e.key, m), BytesOf(e.key, m2))
  BY <1>1, BytesOfIs
<1>3. \A d \in Bytes : AtMost(d, BytesOf(e.key, m)) => AtMost(d, BytesOf(e.key, m2))
  BY <1>2, AtMostIs
<1> QED BY <1>1, <1>3, Typed DEF ResourceOK, Is

\* What was freed goes back to the pool before a list is run.
LEMMA RecycledConsistent ==
    ASSUME NEW g, NEW L, NEW E, NEW Z, NEW next, NEW m, Consistent(g, L, E, Z, next, m)
    PROVE  /\ Consistent(Recycled(g), L, E, Z, next, m)
           /\ \A id \in DOMAIN Recycled(g) : Recycled(g)[id].live
<1> DEFINE h == Recycled(g)
<1>1. /\ DOMAIN h = {id \in DOMAIN g : g[id].live} /\ \A id \in DOMAIN h : h[id] = g[id]
  BY DEF Recycled
<1> HIDE DEF h
<1>2. \A id : /\ Live(h, id) <=> Live(g, id)
              /\ Live(g, id) => h[id] = g[id]
  BY <1>1 DEF Live
<1>3. \A n, id : Stands(g, L, n, id) <=> Stands(h, L, n, id)
  BY <1>2 DEF Stands
<1>4. \A id, d : Delivers(g, L, id, d) <=> Delivers(h, L, id, d)
  BY <1>2 DEF Delivers
<1>5. ListOK(h, L)
  BY <1>1, <1>2, <1>3, <1>4 DEF Consistent, ListOK, CreatesOK, UsesOK, UploadsOK, DrawsOK
<1>6. \A e \in E : ResourceOK(h, L, e, m)
  BY <1>2, <1>3, <1>4 DEF Consistent, ResourceOK
<1>7. NoLeak(h, L, E, Z) /\ BackendOK(h, next)
  BY <1>1 DEF Consistent, NoLeak, BackendOK
<1>8. Consistent(h, L, E, Z, next, m)
  BY <1>5, <1>6, <1>7 DEF Consistent
<1> QED BY <1>1, <1>8 DEF h

----------------------------------------------------------------------------
(* The replay of a list *)

\* f is the backend after each of the first n commands of list L.
Runs(f, g, L, n) ==
    f = [i \in 0..n |-> IF i = 0 THEN [gpu |-> g, draws |-> {}] ELSE ReplayStep(f[i - 1], L[i])]

\* The recursion that defines Replayed has a solution, by induction.
LEMMA ReplayedRuns ==
    ASSUME NEW g, NEW L, Len(L) \in Nat
    PROVE  \E f : Runs(f, g, L, Len(L)) /\ Replayed(g, L) = f[Len(L)]
<1> DEFINE b == [gpu |-> g, draws |-> {}]
           S == {m \in Nat : \E f : Runs(f, g, L, m)}
<1> HIDE DEF b
<1>1. 0 \in S
  <2>1. Runs([i \in 0..0 |-> b], g, L, 0)
    BY DEF Runs, b
  <2> QED BY <2>1
<1>2. ASSUME NEW m \in Nat, m \in S PROVE m + 1 \in S
  <2>1. PICK f : Runs(f, g, L, m)
    BY <1>2
  <2> DEFINE h == [i \in 0..m + 1 |-> IF i = m + 1 THEN ReplayStep(f[m], L[m + 1]) ELSE f[i]]
  <2>2. \A i \in 0..m : f[i] = IF i = 0 THEN b ELSE ReplayStep(f[i - 1], L[i])
    BY <2>1 DEF Runs, b
  <2>3. ASSUME NEW i \in 0..m + 1 PROVE h[i] = IF i = 0 THEN b ELSE ReplayStep(h[i - 1], L[i])
    <3>1. CASE i = m + 1
      <4>1. h[i - 1] = f[m] /\ h[i] = ReplayStep(f[m], L[i])
        BY <3>1
      <4> QED BY <3>1, <4>1
    <3>2. CASE i # m + 1 /\ i # 0
      <4>1. h[i - 1] = f[i - 1] /\ h[i] = f[i] /\ i \in 0..m
        BY <3>2
      <4> QED BY <2>2, <3>2, <4>1
    <3>3. CASE i = 0
      BY <2>2, <3>3
    <3> QED BY <3>1, <3>2, <3>3
  <2>4. Runs(h, g, L, m + 1)
    BY <2>3 DEF Runs, b
  <2> QED BY <2>4
<1>3. Len(L) \in S
  <2>1. Nat \subseteq S
    <3> HIDE DEF S
    <3> QED BY <1>1, <1>2, Induction
  <2> QED BY <2>1
<1> DEFINE r == CHOOSE f : Runs(f, g, L, Len(L))
<1>4. Runs(r, g, L, Len(L))
  BY <1>3
<1>5. Replayed(g, L) = r[Len(L)]
  BY Zenon DEF Replayed, Runs
<1> QED BY <1>4, <1>5

\* A backend with the draws walked so far, and what a command does to it.
Walker(b) == b = [gpu |-> b.gpu, draws |-> b.draws]
SameElsewhere(g, h, id) == \A j \in DOMAIN g : j # id => j \in DOMAIN h /\ h[j] = g[j]

\* What a command does to the backend.
LEMMA StepIs ==
    ASSUME NEW b, Walker(b), NEW x \in Command, NEW b2, b2 = ReplayStep(b, x),
           \A id \in DOMAIN b.gpu : b.gpu[id] \in Resource
    PROVE  /\ Walker(b2) /\ SameElsewhere(b.gpu, b2.gpu, x.id)
           /\ x.op = "create" => /\ DOMAIN b2.gpu = DOMAIN b.gpu \cup {x.id} /\ b2.draws = b.draws
                                 /\ b2.gpu[x.id] = [kind |-> x.kind, live |-> TRUE, data |-> Nothing]
           /\ x.op # "create" => DOMAIN b2.gpu = DOMAIN b.gpu
           /\ x.op = "upload" /\ Live(b.gpu, x.id) =>
                b2.gpu[x.id] = [b.gpu[x.id] EXCEPT !.data = x.data] /\ b2.draws = b.draws
           /\ x.op = "free" => /\ b2.draws = b.draws
                               /\ x.id \in DOMAIN b.gpu =>
                                    b2.gpu[x.id] = IF b.gpu[x.id].kind = "image" THEN b.gpu[x.id]
                                                   ELSE [b.gpu[x.id] EXCEPT !.live = FALSE]
           /\ x.op = "draw" =>
                /\ b2.gpu = b.gpu
                /\ b2.draws = b.draws \cup {[id |-> x.id, need |-> x.need, bound |-> Live(b.gpu, x.id)]}
<1>1. DOMAIN b = {"gpu", "draws"}
  BY DEF Walker
<1>2. CASE x.op = "create"
  <2>1. b2 = [b EXCEPT !.gpu = With(b.gpu, x.id, [kind |-> x.kind, live |-> TRUE, data |-> Nothing])]
    BY <1>2 DEF ReplayStep
  <2>2. b2.gpu = With(b.gpu, x.id, [kind |-> x.kind, live |-> TRUE, data |-> Nothing]) /\ b2.draws = b.draws
        /\ Walker(b2)
    BY <1>1, <2>1 DEF Walker
  <2> QED BY <1>2, <2>2 DEF With, SameElsewhere
<1>3. CASE x.op = "upload"
  <2>1. CASE Live(b.gpu, x.id)
    <3>1. b2 = [b EXCEPT !.gpu = [b.gpu EXCEPT ![x.id] = [b.gpu[x.id] EXCEPT !.data = x.data]]]
      BY <1>3, <2>1 DEF ReplayStep, Live
    <3>2. b2.gpu = [b.gpu EXCEPT ![x.id] = [b.gpu[x.id] EXCEPT !.data = x.data]] /\ b2.draws = b.draws /\ Walker(b2)
      BY <1>1, <3>1 DEF Walker
    <3> QED BY <1>3, <2>1, <3>2 DEF SameElsewhere, Live
  <2>2. CASE ~Live(b.gpu, x.id)
    <3>1. b2 = b
      BY <1>3, <2>2 DEF ReplayStep, Live
    <3> QED BY <1>3, <2>2, <3>1 DEF SameElsewhere
  <2> QED BY <2>1, <2>2
<1>4. CASE x.op = "free"
  <2>1. b2 = [b EXCEPT !.gpu = Freed(b.gpu, x.id)]
    BY <1>4 DEF ReplayStep
  <2>2. b2.gpu = Freed(b.gpu, x.id) /\ b2.draws = b.draws /\ Walker(b2)
    BY <1>1, <2>1 DEF Walker
  <2>3. CASE x.id \in DOMAIN b.gpu /\ b.gpu[x.id].kind # "image"
    <3>1. b2.gpu = [b.gpu EXCEPT ![x.id] = [b.gpu[x.id] EXCEPT !.live = FALSE]]
      BY <2>2, <2>3 DEF Freed
    <3> QED BY <1>4, <2>2, <2>3, <3>1 DEF SameElsewhere
  <2>4. CASE ~(x.id \in DOMAIN b.gpu /\ b.gpu[x.id].kind # "image")
    <3>1. b2.gpu = b.gpu
      BY <2>2, <2>4 DEF Freed
    <3> QED BY <1>4, <2>2, <2>4, <3>1 DEF SameElsewhere
  <2> QED BY <2>3, <2>4
<1>5. CASE x.op = "draw"
  <2> DEFINE d == [id |-> x.id, need |-> x.need, bound |-> x.id \in DOMAIN b.gpu /\ b.gpu[x.id].live]
  <2>1. b2 = [b EXCEPT !.draws = b.draws \cup {d}]
    BY <1>5 DEF ReplayStep
  <2>2. d = [id |-> x.id, need |-> x.need, bound |-> Live(b.gpu, x.id)]
    BY Zenon DEF Live
  <2> HIDE DEF d
  <2>3. b2.gpu = b.gpu /\ b2.draws = b.draws \cup {d} /\ Walker(b2)
    BY <1>1, <2>1 DEF Walker
  <2> QED BY <1>5, <2>2, <2>3 DEF SameElsewhere
<1>6. x.op \in {"create", "upload", "free", "draw"}
  BY DEF Command
<1> QED BY <1>2, <1>3, <1>4, <1>5, <1>6

\* Backend h, with draws ds, once the first n commands of list L were run on
\* g: who is there, who of them is live, what bytes they hold, what was drawn.
Present(g, L, n, h) ==
    /\ \A id : id \in DOMAIN h <=> id \in DOMAIN g \/ \E i \in DOMAIN L : i <= n /\ Is(L, i, "create", id)
    /\ \A id \in DOMAIN h :
         /\ h[id] \in Resource
         /\ id \in DOMAIN g => h[id].kind = g[id].kind
         /\ \A i \in DOMAIN L : i <= n /\ Is(L, i, "create", id) => h[id].kind = L[i].kind
Alive(L, n, h) ==
    \A id \in DOMAIN h :
        /\ (\A i \in DOMAIN L : i <= n => ~Is(L, i, "free", id)) => h[id].live
        /\ \A i \in DOMAIN L : i <= n /\ Is(L, i, "free", id) => ~h[id].live \/ h[id].kind = "image"
Newest(g, L, n, h) ==
    \A id \in DOMAIN h :
        /\ \A u \in DOMAIN L : u <= n /\ Is(L, u, "upload", id) => AtMost(L[u].data, h[id].data)
        /\ id \in DOMAIN g => AtMost(g[id].data, h[id].data)
        /\ \/ h[id].data = Nothing
           \/ id \in DOMAIN g /\ h[id].data = g[id].data
           \/ \E u \in DOMAIN L : u <= n /\ Is(L, u, "upload", id) /\ h[id].data = L[u].data
Drawn(L, n, ds) ==
    \A d \in ds : d.bound /\ \E i \in DOMAIN L : i <= n /\ Is(L, i, "draw", d.id) /\ d.need = L[i].need
Ran(g, L, n, b) ==
    Walker(b) /\ Present(g, L, n, b.gpu) /\ Alive(L, n, b.gpu) /\ Newest(g, L, n, b.gpu) /\ Drawn(L, n, b.draws)

LEMMA RanOn ==
    ASSUME NEW g, \A id \in DOMAIN g : g[id] \in Resource /\ g[id].live,
           NEW L \in Seq(Command), ListOK(g, L), NEW n \in Nat, NEW p, p = n + 1, p \in DOMAIN L,
           NEW b, Ran(g, L, n, b), NEW b2, b2 = ReplayStep(b, L[p])
    PROVE  Ran(g, L, p, b2)
<1> DEFINE x == L[p]
           h == b.gpu
           h2 == b2.gpu
<1>1. x \in Command /\ x.op \in {"create", "upload", "free", "draw"} /\ x.id \in Nat
      /\ (x.op = "create" => x.kind \in Kinds) /\ (x.op = "upload" => x.data \in Bytes)
  <2>1. x \in Command
    BY ElementOfSeq, LenProperties
  <2> HIDE DEF x
  <2> QED BY <2>1 DEF Command
<1>2. \A i \in DOMAIN L : /\ i <= p <=> i <= n \/ i = p
                          /\ i < p <=> i <= n
  BY LenProperties
<1>2a. ~(p <= n) /\ p <= p
  OBVIOUS
<1>3. \A u \in DOMAIN L : L[u].op = "upload" => L[u].data \in Bytes
  <2>1. \A u \in DOMAIN L : L[u] \in Command
    BY ElementOfSeq, LenProperties
  <2> QED BY <2>1 DEF Command
<1>4. Walker(b) /\ Present(g, L, n, h) /\ Alive(L, n, h) /\ Newest(g, L, n, h) /\ Drawn(L, n, b.draws)
  BY DEF Ran
<1>5. \A id \in DOMAIN h : h[id] \in Resource
  BY <1>4 DEF Present
<1> HIDE DEF x, h, h2
<1>6. /\ Walker(b2) /\ SameElsewhere(h, h2, x.id)
      /\ x.op = "create" => /\ DOMAIN h2 = DOMAIN h \cup {x.id} /\ b2.draws = b.draws
                            /\ h2[x.id] = [kind |-> x.kind, live |-> TRUE, data |-> Nothing]
      /\ x.op # "create" => DOMAIN h2 = DOMAIN h
      /\ x.op = "upload" /\ Live(h, x.id) => h2[x.id] = [h[x.id] EXCEPT !.data = x.data] /\ b2.draws = b.draws
      /\ x.op = "free" => /\ b2.draws = b.draws
                          /\ x.id \in DOMAIN h =>
                               h2[x.id] = IF h[x.id].kind = "image" THEN h[x.id] ELSE [h[x.id] EXCEPT !.live = FALSE]
      /\ x.op = "draw" => /\ h2 = h
                          /\ b2.draws = b.draws \cup {[id |-> x.id, need |-> x.need, bound |-> Live(h, x.id)]}
  BY <1>1, <1>4, <1>5, StepIs DEF x, h, h2
<1>7. x = L[p]
  BY DEF x
<1>8. x.op \in {"upload", "draw"} => Live(h, x.id)
  <2> SUFFICES ASSUME x.op \in {"upload", "draw"} PROVE Live(h, x.id)
    OBVIOUS
  <2>1. Stands(g, L, p, x.id)
    BY <1>7 DEF ListOK, UsesOK
  <2>2. x.id \in DOMAIN h
    BY <1>2, <1>4, <2>1 DEF Present, Stands, Live
  <2>3. \A i \in DOMAIN L : i <= n => ~Is(L, i, "free", x.id)
    BY <1>2, <2>1 DEF Stands
  <2> QED BY <1>4, <2>2, <2>3 DEF Alive, Live
<1>9. x.op = "create" => x.id \notin DOMAIN g /\ \A j \in DOMAIN L : j <= n => L[j].id # x.id
  BY <1>2, <1>7 DEF ListOK, CreatesOK
<1>10. \A i \in DOMAIN L : \A op, id : i <= p /\ Is(L, i, op, id) =>
          \/ i <= n /\ Is(L, i, op, id)
          \/ i = p /\ x.op = op /\ x.id = id
  BY <1>2, <1>7 DEF Is
<1>11. \A i \in DOMAIN L : i <= n => i <= p
  BY <1>2
<1>12. \A op, id : x.op = op /\ x.id = id => p <= p /\ Is(L, p, op, id)
  BY <1>2a, <1>7 DEF Is
<1>13. \A id \in DOMAIN h2 : id # x.id => id \in DOMAIN h /\ h2[id] = h[id]
  BY <1>6 DEF SameElsewhere
<1>14. /\ x.op = "upload" => /\ h2[x.id].kind = h[x.id].kind /\ h2[x.id].live = h[x.id].live
                             /\ h2[x.id].data = x.data /\ h2[x.id] \in Resource
       /\ x.op = "free" /\ x.id \in DOMAIN h => /\ h2[x.id].kind = h[x.id].kind /\ h2[x.id].data = h[x.id].data
                                                /\ h2[x.id].live => h2[x.id].kind = "image"
                                                /\ h2[x.id] \in Resource
       /\ x.op = "create" => /\ h2[x.id].kind = x.kind /\ h2[x.id].live /\ h2[x.id].data = Nothing
                             /\ h2[x.id] \in Resource
  <2>1. CASE x.op = "upload"
    <3>1. h[x.id] \in Resource /\ h2[x.id] = [h[x.id] EXCEPT !.data = x.data]
      BY <1>5, <1>6, <1>8, <2>1 DEF Live
    <3> QED BY <1>1, <2>1, <3>1 DEF Resource
  <2>2. CASE x.op = "free" /\ x.id \in DOMAIN h
    <3>1. h[x.id] \in Resource
      BY <1>5, <2>2
    <3>2. h2[x.id] = IF h[x.id].kind = "image" THEN h[x.id] ELSE [h[x.id] EXCEPT !.live = FALSE]
      BY <1>6, <2>2
    <3> QED BY <2>2, <3>1, <3>2 DEF Resource
  <2>3. CASE x.op = "create"
    <3>1. h2[x.id] = [kind |-> x.kind, live |-> TRUE, data |-> Nothing]
      BY <1>6, <2>3
    <3> QED BY <1>1, <2>3, <3>1, AtMostIs DEF Resource
  <2> QED BY <2>1, <2>2, <2>3
<1>15. Present(g, L, p, h2)
  <2>1. ASSUME NEW id PROVE id \in DOMAIN h2 <=> id \in DOMAIN g \/ \E i \in DOMAIN L : i <= p /\ Is(L, i, "create", id)
    BY <1>4, <1>6, <1>10, <1>11, <1>12 DEF Present
  <2>2. ASSUME NEW id \in DOMAIN h2
        PROVE  /\ h2[id] \in Resource
               /\ id \in DOMAIN g => h2[id].kind = g[id].kind
               /\ \A i \in DOMAIN L : i <= p /\ Is(L, i, "create", id) => h2[id].kind = L[i].kind
    <3>1. CASE id # x.id
      BY <1>4, <1>10, <1>13, <3>1 DEF Present
    <3>2. CASE id = x.id /\ x.op = "create"
      BY <1>7, <1>9, <1>10, <1>14, <3>2 DEF Is
    <3>3. CASE id = x.id /\ x.op # "create"
      <4>1. id \in DOMAIN h
        BY <1>6, <3>3
      <4>2. h2[id] \in Resource /\ h2[id].kind = h[id].kind
        BY <1>1, <1>4, <1>6, <1>14, <3>3, <4>1 DEF Present
      <4> QED BY <1>4, <1>10, <3>3, <4>1, <4>2 DEF Present
    <3> QED BY <3>1, <3>2, <3>3
  <2> QED BY <2>1, <2>2 DEF Present
<1>16. Alive(L, p, h2)
  <2> SUFFICES ASSUME NEW id \in DOMAIN h2
               PROVE  /\ (\A i \in DOMAIN L : i <= p => ~Is(L, i, "free", id)) => h2[id].live
                      /\ \A i \in DOMAIN L : i <= p /\ Is(L, i, "free", id) => ~h2[id].live \/ h2[id].kind = "image"
    BY DEF Alive
  <2>1. CASE id # x.id
    BY <1>4, <1>10, <1>11, <1>13, <2>1 DEF Alive
  <2>2. CASE id = x.id /\ x.op = "create"
    BY <1>9, <1>10, <1>14, <2>2 DEF Is
  <2>3. CASE id = x.id /\ x.op = "free"
    BY <1>6, <1>12, <1>14, <2>3
  <2>4. CASE id = x.id /\ x.op \in {"upload", "draw"}
    <3>1. id \in DOMAIN h /\ h2[id].live = h[id].live /\ h2[id].kind = h[id].kind
      BY <1>6, <1>8, <1>14, <2>4 DEF Live
    <3> QED BY <1>4, <1>10, <1>11, <2>4, <3>1 DEF Alive
  <2> QED BY <1>1, <2>1, <2>2, <2>3, <2>4
<1>17. Newest(g, L, p, h2)
  <2> SUFFICES ASSUME NEW id \in DOMAIN h2
               PROVE  /\ \A u \in DOMAIN L : u <= p /\ Is(L, u, "upload", id) => AtMost(L[u].data, h2[id].data)
                      /\ id \in DOMAIN g => AtMost(g[id].data, h2[id].data)
                      /\ \/ h2[id].data = Nothing
                         \/ id \in DOMAIN g /\ h2[id].data = g[id].data
                         \/ \E u \in DOMAIN L : u <= p /\ Is(L, u, "upload", id) /\ h2[id].data = L[u].data
    BY DEF Newest
  <2>1. CASE id # x.id
    BY <1>4, <1>10, <1>11, <1>13, <2>1 DEF Newest
  <2>2. CASE id = x.id /\ x.op = "create"
    BY <1>9, <1>10, <1>14, <2>2 DEF Is
  <2>3. CASE id = x.id /\ x.op \in {"free", "draw"}
    <3>1. id \in DOMAIN h /\ h2[id].data = h[id].data
      BY <1>6, <1>14, <2>3
    <3> QED BY <1>4, <1>10, <1>11, <2>3, <3>1 DEF Newest
  <2>4. CASE id = x.id /\ x.op = "upload"
    <3>1. h2[id].data = x.data /\ x.data \in Bytes /\ x.data = L[p].data
      BY <1>1, <1>7, <1>14, <2>4
    <3>2. id \in DOMAIN g => AtMost(g[id].data, x.data)
      BY <1>7, <2>4 DEF ListOK, UploadsOK, Live
    <3>3. \A u \in DOMAIN L : u <= n /\ Is(L, u, "upload", id) => AtMost(L[u].data, x.data)
      BY <1>2, <1>7, <2>4 DEF ListOK, UploadsOK
    <3>4. AtMost(x.data, x.data)
      BY <3>1, AtMostIs
    <3>5. \A u \in DOMAIN L : u <= p /\ Is(L, u, "upload", id) => AtMost(L[u].data, x.data)
      BY <1>7, <1>10, <3>3, <3>4
    <3>6. \E u \in DOMAIN L : u <= p /\ Is(L, u, "upload", id) /\ x.data = L[u].data
      BY <1>12, <2>4, <3>1
    <3> QED BY <3>1, <3>2, <3>5, <3>6
  <2> QED BY <1>1, <2>1, <2>2, <2>3, <2>4
<1>18. Drawn(L, p, b2.draws)
  <2> SUFFICES ASSUME NEW d \in b2.draws
               PROVE  d.bound /\ \E i \in DOMAIN L : i <= p /\ Is(L, i, "draw", d.id) /\ d.need = L[i].need
    BY DEF Drawn
  <2>1. CASE d \in b.draws
    BY <1>4, <1>11, <2>1 DEF Drawn
  <2>2. CASE d \notin b.draws
    <3>1. x.op = "draw" /\ d = [id |-> x.id, need |-> x.need, bound |-> Live(h, x.id)]
      BY <1>1, <1>6, <1>8, <2>2
    <3>2. d.bound /\ d.id = x.id /\ d.need = x.need
      BY <1>8, <3>1
    <3> QED BY <1>7, <1>12, <3>1, <3>2
  <2> QED BY <2>1, <2>2
<1> QED BY <1>6, <1>15, <1>16, <1>17, <1>18 DEF Ran, h2

\* The whole list, by induction.
LEMMA RanAll ==
    ASSUME NEW g, \A id \in DOMAIN g : g[id] \in Resource /\ g[id].live,
           NEW L \in Seq(Command), ListOK(g, L)
    PROVE  Ran(g, L, Len(L), Replayed(g, L))
<1> DEFINE n == Len(L)
<1>1. n \in Nat /\ DOMAIN L = 1..n
  BY LenProperties
<1>2. PICK f : Runs(f, g, L, n) /\ Replayed(g, L) = f[n]
  BY <1>1, ReplayedRuns
<1> HIDE DEF n
<1> DEFINE S == {i \in Nat : i <= n => Ran(g, L, i, f[i])}
<1>3. f[0] = [gpu |-> g, draws |-> {}] /\ \A i \in 1..n : f[i] = ReplayStep(f[i - 1], L[i])
  <2>1. \A i \in 0..n : f[i] = IF i = 0 THEN [gpu |-> g, draws |-> {}] ELSE ReplayStep(f[i - 1], L[i])
    BY <1>2 DEF Runs
  <2>2. 0 \in 0..n /\ \A i \in 1..n : i \in 0..n /\ i # 0
    BY <1>1
  <2> QED BY <2>1, <2>2
<1>4. 0 \in S
  <2>1. f[0].gpu = g /\ f[0].draws = {} /\ Walker(f[0])
    BY <1>3 DEF Walker
  <2>2. \A i \in DOMAIN L : ~(i <= 0)
    BY <1>1
  <2>3. \A id \in DOMAIN g : g[id].data \in Bytes
    BY DEF Resource
  <2>4. Present(g, L, 0, g) /\ Alive(L, 0, g) /\ Newest(g, L, 0, g) /\ Drawn(L, 0, {})
    BY <2>2, <2>3, AtMostIs DEF Present, Alive, Newest, Drawn
  <2> QED BY <2>1, <2>4 DEF Ran
<1>5. ASSUME NEW i \in Nat, i \in S PROVE i + 1 \in S
  <2> SUFFICES ASSUME i + 1 <= n PROVE Ran(g, L, i + 1, f[i + 1])
    OBVIOUS
  <2>1. Ran(g, L, i, f[i]) /\ i + 1 \in DOMAIN L
    BY <1>1, <1>5
  <2>2. f[i + 1] = ReplayStep(f[i], L[i + 1])
    BY <1>1, <1>3, <2>1
  <2> HIDE DEF S
  <2> QED BY <2>1, <2>2, RanOn
<1>6. n \in S
  <2>1. Nat \subseteq S
    <3> HIDE DEF S
    <3> QED BY <1>4, <1>5, Induction
  <2> QED BY <1>1, <2>1
<1> QED BY <1>1, <1>2, <1>6 DEF n

\* The submit's list is run: the resources are there with their bytes, and
\* every draw of it found its own with bytes as new as it needs.
LEMMA SubmitRun ==
    ASSUME NEW g, NEW L, NEW E, NEW Z, NEW next, NEW m, Consistent(g, L, E, Z, next, m),
           \A id \in DOMAIN g : g[id].live, NEW b, b = Replayed(g, L)
    PROVE  /\ Consistent(b.gpu, <<>>, E, Z, next, m)
           /\ \A d \in b.draws : d.bound /\ d.id \in DOMAIN b.gpu /\ AtMost(d.need, b.gpu[d.id].data)
<1> DEFINE n == Len(L)
           h == b.gpu
<1>1. L \in Seq(Command) /\ n \in Nat /\ DOMAIN L = 1..n /\ ListOK(g, L)
  BY LenProperties DEF Consistent, NamesOK
<1>2. \A id \in DOMAIN g : g[id] \in Resource /\ g[id].live
  BY DEF Consistent, BackendOK
<1>3. Ran(g, L, n, b)
  BY <1>1, <1>2, RanAll
<1>4. \A i \in DOMAIN L : i <= n /\ i < n + 1
  BY <1>1
<1> HIDE DEF n, h
<1>5. Present(g, L, n, h) /\ Alive(L, n, h) /\ Newest(g, L, n, h) /\ Drawn(L, n, b.draws)
  BY <1>3 DEF Ran, h
<1>6. <<>> \in Seq(Command) /\ Len(<<>>) = 0 /\ DOMAIN <<>> = {}
  BY EmptySeq
<1>7. \A id, n2 : Live(h, id) => Stands(h, <<>>, n2, id)
  BY <1>6 DEF Stands
<1>8. \A id, d : id \in DOMAIN h /\ Delivers(g, L, id, d) /\ d \in Bytes => AtMost(d, h[id].data)
  <2> SUFFICES ASSUME NEW id \in DOMAIN h, NEW d \in Bytes, Delivers(g, L, id, d)
               PROVE  AtMost(d, h[id].data)
    OBVIOUS
  <2>1. h[id].data \in Bytes
    BY <1>5 DEF Present, Resource
  <2>2. CASE AtMost(d, Nothing)
    BY <2>1, <2>2, AtMostIs
  <2>3. ASSUME NEW u \in DOMAIN L, Is(L, u, "upload", id), AtMost(d, L[u].data)
        PROVE  AtMost(d, h[id].data)
    <3>1. AtMost(L[u].data, h[id].data) /\ L[u].data \in Bytes
      BY <1>4, <1>5, <2>3, Typed DEF Newest, Is
    <3> QED BY <2>1, <2>3, <3>1, AtMostIs
  <2>4. CASE Live(g, id) /\ AtMost(d, g[id].data)
    <3>1. AtMost(g[id].data, h[id].data) /\ g[id].data \in Bytes
      BY <1>5, <2>4, Typed DEF Newest, Live
    <3> QED BY <2>1, <2>4, <3>1, AtMostIs
  <2> QED BY <2>2, <2>3, <2>4 DEF Delivers
<1>9. \A id : Stands(g, L, n + 1, id) => Live(h, id)
  <2> SUFFICES ASSUME NEW id, Stands(g, L, n + 1, id) PROVE Live(h, id)
    OBVIOUS
  <2>1. id \in DOMAIN h
    BY <1>4, <1>5 DEF Present, Stands, Live
  <2>2. \A i \in DOMAIN L : i <= n => ~Is(L, i, "free", id)
    BY <1>4 DEF Stands
  <2> QED BY <1>5, <2>1, <2>2 DEF Alive, Live
<1>10. ASSUME NEW e \in E PROVE ResourceOK(h, <<>>, e, m)
  <2>1. ResourceOK(g, L, e, m) /\ e.data \in Bytes
    BY Typed DEF Consistent
  <2>2. Live(h, e.id)
    BY <1>9, <2>1 DEF ResourceOK, n
  <2>3. e.id \in DOMAIN h /\ Delivers(h, <<>>, e.id, e.data)
    BY <1>8, <2>1, <2>2 DEF ResourceOK, Delivers, Live
  <2>4. AtMost(h[e.id].data, BytesOf(e.key, m))
    <3>1. BytesOf(e.key, m) \in Bytes
      BY BytesOfIs, AtMostIs DEF Consistent
    <3>2. CASE h[e.id].data = Nothing
      BY <3>1, <3>2, AtMostIs
    <3>3. CASE e.id \in DOMAIN g /\ h[e.id].data = g[e.id].data
      BY <1>2, <2>1, <3>3 DEF ResourceOK, Live
    <3>4. ASSUME NEW u \in DOMAIN L, Is(L, u, "upload", e.id), h[e.id].data = L[u].data
          PROVE  AtMost(h[e.id].data, BytesOf(e.key, m))
      BY <2>1, <3>4 DEF ResourceOK
    <3> QED BY <1>5, <2>3, <3>2, <3>3, <3>4 DEF Newest
  <2>5. h[e.id].kind = KindOf(e.key)
    <3>1. CASE e.id \in DOMAIN g
      BY <1>2, <1>5, <2>1, <2>3, <3>1 DEF Present, ResourceOK, Live
    <3>2. ASSUME NEW i \in DOMAIN L, i <= n, Is(L, i, "create", e.id) PROVE h[e.id].kind = KindOf(e.key)
      BY <1>5, <2>1, <2>3, <3>2 DEF Present, ResourceOK
    <3> QED BY <1>5, <2>3, <3>1, <3>2 DEF Present
  <2>6. Stands(h, <<>>, Len(<<>>) + 1, e.id)
    BY <1>7, <2>2
  <2> QED BY <1>6, <2>3, <2>4, <2>5, <2>6 DEF ResourceOK
<1>11. NamesOK(<<>>, E, Z, next)
  BY <1>6 DEF Consistent, NamesOK
<1>12. BackendOK(h, next)
  <2>1. \A y \in Command : y.id \in Nat
    BY DEF Command
  <2>2. \A i \in DOMAIN L : L[i].id \in Nat /\ L[i].id < next
    BY <2>1, Typed DEF Consistent, NamesOK
  <2> QED BY <1>5, <2>2 DEF Consistent, BackendOK, Present, Is
<1>13. ListOK(h, <<>>)
  BY <1>6 DEF ListOK, CreatesOK, UsesOK, UploadsOK, DrawsOK
<1>14. NoLeak(h, <<>>, E, Z)
  <2> SUFFICES ASSUME NEW id \in DOMAIN h, h[id].live, h[id].kind # "image"
               PROVE  Owned(<<>>, E, Z, id)
    BY <1>6 DEF NoLeak
  <2>1. \A i \in DOMAIN L : ~Is(L, i, "free", id)
    BY <1>4, <1>5 DEF Alive
  <2>2. Owned(L, E, Z, id)
    <3>1. CASE id \in DOMAIN g
      BY <1>2, <1>5, <3>1 DEF Present, Consistent, NoLeak
    <3>2. ASSUME NEW i \in DOMAIN L, Is(L, i, "create", id) PROVE Owned(L, E, Z, id)
      BY <3>2 DEF Consistent, NoLeak, Is
    <3> QED BY <1>5, <3>1, <3>2 DEF Present
  <2> QED BY <2>1, <2>2 DEF Owned
<1>15. ASSUME NEW d \in b.draws PROVE d.bound /\ d.id \in DOMAIN h /\ AtMost(d.need, h[d.id].data)
  <2>1. PICK i \in DOMAIN L : d.bound /\ Is(L, i, "draw", d.id) /\ d.need = L[i].need
    BY <1>5 DEF Drawn
  <2>2. d.need \in Bytes
    <3>1. \A y \in Command : y.op = "draw" => y.need \in Bytes
      BY DEF Command
    <3> QED BY <2>1, <3>1, Typed DEF Is
  <2>3. Stands(g, L, i, d.id) /\ Delivers(g, L, d.id, d.need)
    BY <1>1, <2>1 DEF ListOK, UsesOK, DrawsOK, Is
  <2>4. d.id \in DOMAIN h
    BY <1>4, <1>5, <2>3 DEF Stands, Present, Live
  <2> QED BY <1>8, <2>1, <2>2, <2>3, <2>4
<1> QED BY <1>10, <1>11, <1>12, <1>13, <1>14, <1>15 DEF Consistent, h

\* The sink's list is run: what it frees goes, all else stays.
LEMMA SinkRun ==
    ASSUME NEW g, NEW L, NEW E, NEW Z, NEW next, NEW m, Consistent(g, L, E, Z, next, m),
           \A id \in DOMAIN g : g[id].live,
           NEW M \in Seq(Command), \A i \in DOMAIN M : M[i].op = "free" /\ M[i].id \in Z,
           \A id \in Z : \E i \in DOMAIN M : M[i].id = id,
           NEW b, b = Replayed(g, M)
    PROVE  Consistent(b.gpu, L, E, {}, next, m) /\ b.draws = {}
<1> DEFINE n == Len(M)
           h == b.gpu
<1>1. n \in Nat /\ DOMAIN M = 1..n /\ \A i \in DOMAIN M : i <= n
  BY LenProperties
<1>2. \A id \in DOMAIN g : g[id] \in Resource /\ g[id].live
  BY DEF Consistent, BackendOK
<1>3. ListOK(g, M)
  BY DEF ListOK, CreatesOK, UsesOK, UploadsOK, DrawsOK
<1>4. Ran(g, M, n, b)
  BY <1>1, <1>2, <1>3, RanAll
<1> HIDE DEF n, h
<1>5. Present(g, M, n, h) /\ Alive(M, n, h) /\ Newest(g, M, n, h) /\ Drawn(M, n, b.draws)
  BY <1>4 DEF Ran, h
<1>6. b.draws = {}
  BY <1>5 DEF Drawn, Is
<1>7. \A id : id \in DOMAIN h <=> id \in DOMAIN g
  BY <1>5 DEF Present, Is
<1>8. \A id \in DOMAIN h : /\ h[id] \in Resource /\ h[id].kind = g[id].kind
                           /\ id \notin Z => h[id].live
                           /\ id \in Z => ~h[id].live \/ h[id].kind = "image"
  BY <1>1, <1>5, <1>7 DEF Present, Alive, Is
<1>9. \A id \in DOMAIN h : h[id].data = g[id].data
  <2> SUFFICES ASSUME NEW id \in DOMAIN h PROVE h[id].data = g[id].data
    OBVIOUS
  <2>1. /\ AtMost(g[id].data, h[id].data) /\ (h[id].data = Nothing \/ h[id].data = g[id].data)
        /\ g[id].data \in Bytes
    BY <1>2, <1>5, <1>7 DEF Newest, Is, Resource
  <2>2. ASSUME h[id].data = Nothing PROVE g[id].data = Nothing
    <3>1. \A c \in Cells : g[id].data[c] = 0 /\ Nothing[c] = 0
      BY <2>1, <2>2, NothingIs DEF AtMost, Bytes
    <3> QED BY <2>1, <3>1, NothingIs DEF Bytes
  <2> QED BY <2>1, <2>2
<1>10. \A id : id \notin Z => /\ Live(h, id) <=> Live(g, id)
                              /\ Live(h, id) => h[id].data = g[id].data /\ h[id].kind = g[id].kind
  BY <1>2, <1>7, <1>8, <1>9 DEF Live
<1>11. \A id, n2 : id \notin Z => (Stands(g, L, n2, id) <=> Stands(h, L, n2, id))
  BY <1>10 DEF Stands
<1>12. \A id, d : id \notin Z => (Delivers(g, L, id, d) <=> Delivers(h, L, id, d))
  BY <1>10 DEF Delivers
<1>13. \A i \in DOMAIN L : L[i].id \notin Z
  BY DEF Consistent, NamesOK
<1>14. ListOK(h, L)
  <2>1. CreatesOK(h, L) /\ UsesOK(h, L)
    BY <1>7, <1>11, <1>13 DEF Consistent, ListOK, CreatesOK, UsesOK
  <2>2. UploadsOK(h, L) /\ DrawsOK(h, L)
    BY <1>10, <1>12, <1>13 DEF Consistent, ListOK, UploadsOK, DrawsOK
  <2> QED BY <2>1, <2>2 DEF ListOK
<1>15. ASSUME NEW e \in E PROVE ResourceOK(h, L, e, m)
  <2>1. e.id \notin Z /\ ResourceOK(g, L, e, m)
    BY DEF Consistent, NamesOK
  <2> QED BY <1>10, <1>11, <1>12, <2>1 DEF ResourceOK
<1>16. NamesOK(L, E, {}, next)
  BY DEF Consistent, NamesOK
<1>17. BackendOK(h, next)
  BY <1>7, <1>8 DEF Consistent, BackendOK
<1>18. NoLeak(h, L, E, {})
  <2>1. ASSUME NEW id \in DOMAIN h, h[id].live PROVE Owned(L, E, {}, id) \/ h[id].kind = "image"
    <3>1. Owned(L, E, Z, id) \/ h[id].kind = "image"
      BY <1>2, <1>7, <1>8 DEF Consistent, NoLeak
    <3> QED BY <1>8, <2>1, <3>1 DEF Owned
  <2>2. ASSUME NEW i \in DOMAIN L, L[i].op = "create" PROVE Owned(L, E, {}, L[i].id)
    BY <1>13, <2>2 DEF Consistent, NoLeak, Owned
  <2> QED BY <2>1, <2>2 DEF NoLeak
<1> QED BY <1>6, <1>14, <1>15, <1>16, <1>17, <1>18 DEF Consistent, h

----------------------------------------------------------------------------
(* The channel *)

Senders == {"submit", "sink"}
Item == [from : Senders, list : Seq(Command)]
On(ch, who) == \E i \in DOMAIN ch : ch[i].from = who
ListFrom(ch, who) == ch[CHOOSE i \in DOMAIN ch : ch[i].from = who].list

\* Each sender has at most one list on its way.
OneEach(ch) == ch \in Seq(Item) /\ \A i, j \in DOMAIN ch : ch[i].from = ch[j].from => i = j

\* The list of a sender is the one it sent.
LEMMA ListFromIs ==
    ASSUME NEW ch, OneEach(ch), NEW i \in DOMAIN ch
    PROVE  ListFrom(ch, ch[i].from) = ch[i].list
<1> DEFINE w == ch[i].from
           j == CHOOSE k \in DOMAIN ch : ch[k].from = w
<1>1. j \in DOMAIN ch /\ ch[j].from = w
  OBVIOUS
<1>2. j = i
  BY <1>1 DEF OneEach
<1> QED BY <1>2 DEF ListFrom

\* Item x is put on channel ch.
Sent(ch, x, ch2) == ch2 = Append(ch, x)

\* A list sent by who has none on its way.
LEMMA SendIs ==
    ASSUME NEW ch, OneEach(ch), NEW x \in Item, NEW who, who = x.from, ~On(ch, who),
           NEW ch2, Sent(ch, x, ch2)
    PROVE  /\ OneEach(ch2) /\ On(ch2, who) /\ ListFrom(ch2, who) = x.list
           /\ \A w : w # who => (On(ch2, w) <=> On(ch, w))
           /\ \A w : w # who /\ On(ch, w) => ListFrom(ch2, w) = ListFrom(ch, w)
<1> DEFINE n == Len(ch)
<1>1. x \in Item /\ x.from = who
  OBVIOUS
<1>2. /\ ch2 \in Seq(Item) /\ Len(ch2) = n + 1 /\ ch2[n + 1] = x /\ \A i \in 1..n : ch2[i] = ch[i]
  BY <1>1, AppendProperties DEF OneEach, Sent
<1>3. n \in Nat /\ DOMAIN ch = 1..n /\ DOMAIN ch2 = 1..n + 1
  BY <1>2, LenProperties DEF OneEach
<1> HIDE DEF n
<1>4. DOMAIN ch2 = DOMAIN ch \cup {n + 1} /\ n + 1 \notin DOMAIN ch /\ \A i \in DOMAIN ch : ch2[i] = ch[i]
  BY <1>2, <1>3
<1>5. OneEach(ch2)
  BY <1>1, <1>2, <1>4 DEF OneEach, On
<1>6. On(ch2, who) /\ ListFrom(ch2, who) = x.list
  <2>1. n + 1 \in DOMAIN ch2 /\ ch2[n + 1].from = who /\ ch2[n + 1].list = x.list
    BY <1>1, <1>2, <1>4
  <2>2. ListFrom(ch2, ch2[n + 1].from) = ch2[n + 1].list
    BY <1>5, <2>1, ListFromIs
  <2> QED BY <2>1, <2>2 DEF On
<1>7. \A w : w # who => (On(ch2, w) <=> On(ch, w))
  BY <1>1, <1>2, <1>4 DEF On
<1>8. ASSUME NEW w, w # who, On(ch, w) PROVE ListFrom(ch2, w) = ListFrom(ch, w)
  <2>1. PICK i \in DOMAIN ch : ch[i].from = w
    BY <1>8 DEF On
  <2>2. i \in DOMAIN ch2 /\ ch2[i] = ch[i]
    BY <1>4
  <2>3. ListFrom(ch, w) = ch[i].list
    BY <2>1, ListFromIs
  <2>4. ListFrom(ch2, w) = ch2[i].list
    BY <1>5, <2>1, <2>2, ListFromIs
  <2> QED BY <2>2, <2>3, <2>4
<1> QED BY <1>5, <1>6, <1>7, <1>8

\* The oldest list is taken off the channel.
LEMMA ReceiveIs ==
    ASSUME NEW ch, OneEach(ch), ch # <<>>, NEW ch2, ch2 = Tail(ch)
    PROVE  LET who == Head(ch).from IN
             /\ who \in Senders /\ On(ch, who) /\ ListFrom(ch, who) = Head(ch).list
             /\ Head(ch).list \in Seq(Command)
             /\ OneEach(ch2) /\ ~On(ch2, who)
             /\ \A w : w # who => (On(ch2, w) <=> On(ch, w))
             /\ \A w : w # who /\ On(ch, w) => ListFrom(ch2, w) = ListFrom(ch, w)
<1> DEFINE n == Len(ch)
           who == Head(ch).from
<1>1. /\ Head(ch) \in Item /\ ch2 \in Seq(Item) /\ Len(ch2) = n - 1 /\ Head(ch) = ch[1]
      /\ \A i \in 1..n - 1 : ch2[i] = ch[i + 1]
  BY HeadTailProperties DEF OneEach
<1>2. n \in Nat \ {0} /\ DOMAIN ch = 1..n /\ DOMAIN ch2 = 1..n - 1
  BY <1>1, LenProperties, EmptySeq DEF OneEach
<1> HIDE DEF n
<1>3. /\ \A i \in DOMAIN ch2 : i + 1 \in DOMAIN ch /\ ch2[i] = ch[i + 1] /\ i + 1 # 1
      /\ \A i \in DOMAIN ch : i # 1 => i - 1 \in DOMAIN ch2 /\ ch2[i - 1] = ch[i]
      /\ \A i, j \in DOMAIN ch2 : i + 1 = j + 1 => i = j
      /\ 1 \in DOMAIN ch
  <2>1. \A i \in DOMAIN ch2 : i + 1 \in DOMAIN ch /\ ch2[i] = ch[i + 1] /\ i + 1 # 1
    BY <1>1, <1>2
  <2>2. ASSUME NEW i \in DOMAIN ch, i # 1 PROVE i - 1 \in DOMAIN ch2 /\ ch2[i - 1] = ch[i]
    <3>1. i - 1 \in 1..n - 1 /\ (i - 1) + 1 = i
      BY <1>2, <2>2
    <3> QED BY <1>1, <1>2, <3>1
  <2>3. 1 \in DOMAIN ch /\ \A i, j \in DOMAIN ch2 : i + 1 = j + 1 => i = j
    BY <1>2
  <2> QED BY <2>1, <2>2, <2>3
<1>4. who \in Senders /\ Head(ch).list \in Seq(Command) /\ ch[1].from = who /\ ch[1].list = Head(ch).list
  BY <1>1 DEF Item
<1> HIDE DEF who
<1>5. On(ch, who) /\ ListFrom(ch, who) = Head(ch).list
  BY <1>3, <1>4, ListFromIs DEF On
<1>6. OneEach(ch2)
  BY <1>1, <1>3 DEF OneEach
<1>7. ~On(ch2, who)
  BY <1>3, <1>4 DEF On, OneEach
<1>8. ASSUME NEW w, w # who PROVE On(ch2, w) <=> On(ch, w)
  <2>1. ASSUME NEW i \in DOMAIN ch, ch[i].from = w PROVE On(ch2, w)
    <3>1. i # 1
      BY <1>4, <1>8, <2>1
    <3> QED BY <1>3, <2>1, <3>1 DEF On
  <2>2. ASSUME NEW i \in DOMAIN ch2, ch2[i].from = w PROVE On(ch, w)
    BY <1>3, <2>2 DEF On
  <2> QED BY <2>1, <2>2 DEF On
<1>9. ASSUME NEW w, w # who, On(ch, w) PROVE ListFrom(ch2, w) = ListFrom(ch, w)
  <2>1. PICK i \in DOMAIN ch : ch[i].from = w
    BY <1>9 DEF On
  <2>2. i # 1
    BY <1>4, <1>9, <2>1
  <2>3. i - 1 \in DOMAIN ch2 /\ ch2[i - 1] = ch[i]
    BY <1>3, <2>2
  <2>4. ListFrom(ch, w) = ch[i].list
    BY <2>1, ListFromIs
  <2>5. ListFrom(ch2, w) = ch2[i - 1].list
    BY <1>6, <2>1, <2>3, ListFromIs
  <2> QED BY <2>3, <2>4, <2>5
<1> QED BY <1>4, <1>5, <1>6, <1>7, <1>8, <1>9 DEF who

\* A set of ids as a list of frees.
Frees(ids) == [i \in 1..Cardinality(ids) |-> FreeResource(SetToSeq(ids)[i])]

\* It frees the ids, each of them and no other.
LEMMA FreesIs ==
    ASSUME NEW ids, NEW next \in Nat, ids \subseteq 0..next - 1
    PROVE  /\ Frees(ids) \in Seq(Command)
           /\ \A i \in DOMAIN Frees(ids) : Frees(ids)[i].op = "free" /\ Frees(ids)[i].id \in ids
           /\ \A id \in ids : \E i \in DOMAIN Frees(ids) : Frees(ids)[i].id = id
<1> DEFINE n == Cardinality(ids)
           f == SetToSeq(ids)
           M == Frees(ids)
<1>1. IsFiniteSet(ids) /\ ids \subseteq Nat
  <2>1. ids \in SUBSET Nat /\ \A i \in ids : i <= next
    OBVIOUS
  <2> QED BY <2>1, FS_BoundedSetOfNaturals
<1>2. n \in Nat /\ ExistsBijection(1..n, ids)
  BY <1>1, FS_CardinalityType
<1>3. \E h \in [1..n -> ids] : IsInjective(h)
  BY <1>2 DEF ExistsBijection, Bijection, Injection, IsInjective
<1>4. f \in [1..n -> ids] /\ IsInjective(f)
  BY <1>3 DEF SetToSeq
<1>5. f \in Surjection(1..n, ids)
  <2>1. f \in Injection(1..n, ids)
    BY <1>4 DEF Injection, IsInjective
  <2>2. Cardinality(1..n) = Cardinality(ids)
    BY <1>2, FS_Interval
  <2> QED BY <1>1, <2>1, <2>2, FS_Injection
<1>6. \A id \in ids : \E i \in 1..n : f[i] = id
  BY <1>5 DEF Surjection
<1>7. M = [i \in 1..n |-> FreeResource(f[i])]
  BY DEF Frees
<1> HIDE DEF n, f, M
<1>8. \A i \in 1..n : f[i] \in ids /\ f[i] \in Nat
  BY <1>1, <1>4
<1>9. \A j \in Nat : FreeResource(j) \in Command /\ FreeResource(j).op = "free" /\ FreeResource(j).id = j
  BY DEF FreeResource, Command
<1>10. DOMAIN M = 1..n /\ M \in [1..n -> Command] /\ \A i \in 1..n : M[i].op = "free" /\ M[i].id = f[i]
  BY <1>7, <1>8, <1>9
<1>11. M \in Seq(Command)
  BY <1>2, <1>10, SeqDef
<1> QED BY <1>6, <1>8, <1>10, <1>11 DEF M

\* Resources the sink is to free.
LEMMA GiveUp ==
    ASSUME NEW g, NEW E, NEW next, NEW m, Consistent(g, <<>>, E, {}, next, m), NEW F \in SUBSET E,
           NEW Z, Z = {e.id : e \in F}
    PROVE  Consistent(g, <<>>, E \ F, Z, next, m)
<1>1. DOMAIN <<>> = {}
  OBVIOUS
<1>2. NamesOK(<<>>, E \ F, Z, next)
  BY <1>1 DEF Consistent, NamesOK
<1>3. NoLeak(g, <<>>, E \ F, Z)
  BY <1>1 DEF Consistent, NoLeak, Owned
<1> QED BY <1>2, <1>3 DEF Consistent

\* Lists put together are lists with commands appended.
LEMMA OneJoins ==
    ASSUME NEW L \in Seq(Command), NEW x \in Command
    PROVE  L \o <<x>> = Append(L, x)
BY AppendIsConcat

LEMMA OneJoinsBoth ==
    ASSUME NEW L \in Seq(Command), NEW M \in Seq(Command), NEW x \in Command
    PROVE  L \o (M \o <<x>>) = Append(L \o M, x)
<1>1. <<x>> \in Seq(Command)
  BY SeqDef
<1>2. L \o M \in Seq(Command)
  BY ConcatProperties
<1>3. L \o (M \o <<x>>) = (L \o M) \o <<x>>
  BY <1>1, ConcatAssociative
<1> QED BY <1>2, <1>3, AppendIsConcat

LEMMA TwoJoin ==
    ASSUME NEW L \in Seq(Command), NEW x \in Command, NEW y \in Command
    PROVE  /\ L \o <<x, y>> = Append(Append(L, x), y)
           /\ L \o (<<x>> \o <<y>>) = Append(Append(L, x), y)
           /\ <<x, y>> \in Seq(Command)
<1>1. <<x>> \in Seq(Command) /\ <<y>> \in Seq(Command)
  BY SeqDef
<1>2. <<x, y>> = Append(<<x>>, y)
  OBVIOUS
<1>3. <<x>> \o <<y>> = <<x, y>>
  BY <1>1, <1>2, AppendIsConcat
<1>4. <<x, y>> \in Seq(Command)
  BY <1>1, <1>2, AppendProperties
<1>5. L \o <<x>> = Append(L, x) /\ Append(L, x) \in Seq(Command)
  BY AppendIsConcat, AppendProperties
<1>6. Append(Append(L, x), y) = (L \o <<x>>) \o <<y>>
  BY <1>5, AppendIsConcat
<1>7. (L \o <<x>>) \o <<y>> = L \o (<<x>> \o <<y>>)
  BY <1>1, ConcatAssociative
<1> QED BY <1>3, <1>4, <1>6, <1>7

LEMMA TwoJoinBoth ==
    ASSUME NEW L \in Seq(Command), NEW M \in Seq(Command), NEW x \in Command, NEW y \in Command
    PROVE  L \o (M \o <<x, y>>) = Append(Append(L \o M, x), y)
<1>1. <<x, y>> \in Seq(Command)
  BY TwoJoin
<1>2. L \o M \in Seq(Command)
  BY ConcatProperties
<1>3. L \o (M \o <<x, y>>) = (L \o M) \o <<x, y>>
  BY <1>1, ConcatAssociative
<1> QED BY <1>2, <1>3, TwoJoin

----------------------------------------------------------------------------
(* The state *)

\* The resources: those of the entries, and the one being filled.
RecordOf(ents, k) == [key |-> k, id |-> ents[k].id, data |-> ents[k].data]
Held(ents) == {RecordOf(ents, k) : k \in DOMAIN ents}
Filled == [key |-> submit.key, id |-> next_id - 1, data |-> submit.data]
Current == IF submit.pc = "fill" THEN Held(entries) \cup {Filled} ELSE Held(entries)

\* The list the submit builds or has sent, and that of the sink.
SubmitList == IF submit.pc = "wait" THEN ListFrom(channel, "submit") ELSE submit.list
SinkList == IF sink.pc = "wait" THEN ListFrom(channel, "sink")
            ELSE IF sink.pc = "send" THEN sink.list ELSE <<>>
SinkIds == {SinkList[i].id : i \in DOMAIN SinkList}

ChannelOK ==
    /\ OneEach(channel)
    /\ On(channel, "submit") <=> submit.pc = "wait"
    /\ On(channel, "sink") <=> sink.pc = "wait"
    /\ submit.pc \in {"idle", "wait", "done"} => submit.list = <<>>
    /\ submit.pc = "fill" => submit.key \notin DOMAIN entries
SinkOK == SinkList \in Seq(Command) /\ \A i \in DOMAIN SinkList : SinkList[i].op = "free"

DeliveryInv ==
    /\ ChannelOK /\ SinkOK
    /\ Consistent(gpu, SubmitList, Current, SinkIds, next_id, mem)
    /\ DrawReadsFresh

\* Steps that leave the lists, the resources and the backend alone.
LEMMA Calm_Delivery ==
    ASSUME DeliveryInv, ChannelOK', UNCHANGED <<gpu, next_id, passes, mem>>,
           SubmitList' = SubmitList, SinkList' = SinkList, Current' = Current
    PROVE  DeliveryInv'
BY DEF DeliveryInv, SinkOK, SinkIds, DrawReadsFresh

LEMMA GuestWrite_Delivery ==
    ASSUME CacheInv, DeliveryInv, NEW c \in Cells, GuestWrite(c)
    PROVE  DeliveryInv'
<1>1. mem \in Bytes /\ mem' \in Bytes /\ AtMost(mem, mem')
  BY DEF CacheInv, CacheTypeOK, GuestWrite, Bytes, AtMost
<1>2. UNCHANGED <<gpu, next_id, passes, entries, submit, sink, channel>>
  BY DEF GuestWrite, cacheVars, backendVars
<1>3. SubmitList' = SubmitList /\ SinkList' = SinkList /\ Current' = Current /\ ChannelOK'
  BY <1>2 DEF SubmitList, SinkList, Current, Filled, ChannelOK, DeliveryInv
<1>4. Consistent(gpu, SubmitList, Current, SinkIds, next_id, mem')
  BY <1>1, MemoryGrows DEF DeliveryInv
<1> QED BY <1>2, <1>3, <1>4 DEF DeliveryInv, SinkOK, SinkIds, DrawReadsFresh

\* Mapping and unmapping, flips, and steps that change nothing.
LEMMA Quiet_Delivery ==
    ASSUME DeliveryInv, UNCHANGED <<gpu, next_id, passes, mem, entries, submit, channel>>,
           sink' = sink \/ (sink.pc = "idle" /\ sink'.pc = "unmapped")
    PROVE  DeliveryInv'
<1>1. SubmitList' = SubmitList /\ SinkList' = SinkList /\ Current' = Current /\ ChannelOK'
  BY DEF SubmitList, SinkList, Current, Filled, ChannelOK, DeliveryInv
<1> QED BY <1>1, Calm_Delivery

\* Entries marked dirty keep their ids and what they were uploaded with.
LEMMA HeldMarked ==
    ASSUME CacheInv, NEW cells
    PROVE  Held(apply_dirty(entries, cells)) = Held(entries)
<1> DEFINE ents == apply_dirty(entries, cells)
<1>1. DOMAIN ents = DOMAIN entries
  BY DEF apply_dirty
<1>2. \A k \in DOMAIN entries : ents[k].id = entries[k].id /\ ents[k].data = entries[k].data
  BY MarkedOK
<1> HIDE DEF ents
<1>3. \A k \in DOMAIN entries : RecordOf(ents, k) = RecordOf(entries, k)
  BY <1>2 DEF RecordOf
<1> QED BY <1>1, <1>3 DEF Held, ents

LEMMA Submit_Delivery ==
    ASSUME CacheInv, DeliveryInv, Submit
    PROVE  DeliveryInv'
<1>1. submit.pc = "idle" /\ submit.list = <<>> /\ UNCHANGED <<gpu, next_id, passes, mem, channel, sink>>
  BY DEF Submit, LockFree, pageVars, backendVars, DeliveryInv, ChannelOK
<1>2. submit'.pc = "walk" /\ submit'.list = <<>>
  BY DEF Submit, Idle
<1>3. Held(entries') = Held(entries)
  BY HeldMarked DEF Submit
<1>4. SubmitList' = SubmitList /\ SinkList' = SinkList /\ Current' = Current
  BY <1>1, <1>2, <1>3 DEF SubmitList, SinkList, Current
<1>5. ChannelOK'
  BY <1>1, <1>2 DEF ChannelOK, DeliveryInv
<1> QED BY <1>1, <1>4, <1>5, Calm_Delivery

LEMMA AcquireMem_Delivery ==
    ASSUME CacheInv, DeliveryInv, NEW p \in AcquirePages, AcquireMem(p)
    PROVE  DeliveryInv'
<1>1. submit.pc = "walk" /\ UNCHANGED <<gpu, next_id, passes, mem, channel, sink>>
  BY DEF AcquireMem, CanGet, pageVars, backendVars
<1>2. submit'.pc = "walk" /\ submit'.list = submit.list
  BY <1>1 DEF AcquireMem, CacheInv, CacheTypeOK
<1>3. Held(entries') = Held(entries)
  BY HeldMarked DEF AcquireMem
<1>4. SubmitList' = SubmitList /\ SinkList' = SinkList /\ Current' = Current
  BY <1>1, <1>2, <1>3 DEF SubmitList, SinkList, Current
<1>5. ChannelOK'
  BY <1>1, <1>2 DEF ChannelOK, DeliveryInv
<1> QED BY <1>1, <1>4, <1>5, Calm_Delivery

\* A look-up that adds to the list, evicts or mints.
LEMMA Walk_Delivery ==
    ASSUME DeliveryInv, submit.pc = "walk", submit'.pc \in {"walk", "fill"},
           submit'.pc = "fill" => submit'.key \notin DOMAIN entries',
           UNCHANGED <<gpu, passes, mem, channel, sink>>,
           Consistent(gpu, submit'.list, Current', SinkIds, next_id', mem)
    PROVE  DeliveryInv'
<1>1. SubmitList' = submit'.list /\ SinkList' = SinkList
  BY DEF SubmitList, SinkList
<1>2. SinkIds' = SinkIds
  BY <1>1 DEF SinkIds
<1>3. ChannelOK' /\ SinkOK' /\ DrawReadsFresh'
  BY <1>1 DEF DeliveryInv, ChannelOK, SinkOK, DrawReadsFresh
<1> QED BY <1>1, <1>2, <1>3 DEF DeliveryInv

\* Commands are added at the end of the list.
LEMMA WalkAdds ==
    ASSUME CacheInv, submit.pc = "walk", NEW cmds, Walk(cmds)
    PROVE  submit'.pc = "walk" /\ submit'.list = submit.list \o cmds
BY DEF CacheInv, CacheTypeOK, Walk

\* Entries that keep their ids and what they were uploaded with.
LEMMA HeldSame ==
    ASSUME NEW a, NEW b, DOMAIN a = DOMAIN b,
           \A j \in DOMAIN a : a[j].id = b[j].id /\ a[j].data = b[j].data
    PROVE  Held(a) = Held(b)
<1>1. \A j \in DOMAIN a : RecordOf(a, j) = RecordOf(b, j)
  BY DEF RecordOf
<1> QED BY <1>1 DEF Held

\* Entry k replaced.
LEMMA HeldReplaced ==
    ASSUME NEW a, NEW b, NEW k \in DOMAIN a, DOMAIN b = DOMAIN a,
           \A j \in DOMAIN a : j # k => b[j] = a[j]
    PROVE  Held(b) = (Held(a) \ {RecordOf(a, k)}) \cup {RecordOf(b, k)}
<1>1. \A j \in DOMAIN a : j # k => RecordOf(b, j) = RecordOf(a, j)
  BY DEF RecordOf
<1>2. \A j \in DOMAIN a : RecordOf(a, j).key = j
  BY DEF RecordOf
<1> QED BY <1>1, <1>2 DEF Held

\* Entry k added.
LEMMA HeldAdded ==
    ASSUME NEW a, NEW k, k \notin DOMAIN a, NEW v
    PROVE  Held(With(a, k, v)) = Held(a) \cup {[key |-> k, id |-> v.id, data |-> v.data]}
<1> DEFINE b == With(a, k, v)
<1>1. DOMAIN b = DOMAIN a \cup {k} /\ b[k] = v /\ \A j \in DOMAIN a : b[j] = a[j]
  BY DEF With
<1> HIDE DEF b
<1>2. \A j \in DOMAIN a : RecordOf(b, j) = RecordOf(a, j)
  BY <1>1 DEF RecordOf
<1>3. RecordOf(b, k) = [key |-> k, id |-> v.id, data |-> v.data]
  BY <1>1 DEF RecordOf
<1> QED BY <1>1, <1>2, <1>3 DEF Held, b

\* Entries S given up.
LEMMA HeldWithout ==
    ASSUME NEW a, NEW S \in SUBSET DOMAIN a
    PROVE  Held(Without(a, S)) = Held(a) \ {RecordOf(a, j) : j \in S}
<1> DEFINE b == Without(a, S)
<1>1. DOMAIN b = DOMAIN a \ S /\ \A j \in DOMAIN b : b[j] = a[j]
  BY DEF Without
<1> HIDE DEF b
<1>2. \A j \in DOMAIN b : RecordOf(b, j) = RecordOf(a, j)
  BY <1>1 DEF RecordOf
<1>3. \A j \in DOMAIN a : RecordOf(a, j).key = j
  BY DEF RecordOf
<1> QED BY <1>1, <1>2, <1>3 DEF Held, b

\* The ids of entries, and the frees of some of them.
LEMMA FreeAllIs ==
    ASSUME CacheInv, NEW S \in SUBSET DOMAIN entries, NEW ids, ids = {entries[k].id : k \in S}
    PROVE  /\ ids \subseteq 0..next_id - 1 /\ FreeAll(S) = Frees(ids)
           /\ FreeAll(S) \in Seq(Command)
           /\ \A i \in DOMAIN FreeAll(S) : FreeAll(S)[i].op = "free" /\ FreeAll(S)[i].id \in ids
           /\ \A id \in ids : \E i \in DOMAIN FreeAll(S) : FreeAll(S)[i].id = id
<1>1. \A k \in DOMAIN entries : entries[k].id \in Nat /\ entries[k].id < next_id
  BY DEF CacheInv, EntriesOK, EntryOK, Entry, IdsApart
<1>2. next_id \in Nat
  BY DEF CacheInv, CacheTypeOK
<1>3. ids \subseteq 0..next_id - 1
  BY <1>1, <1>2
<1>4. FreeAll(S) = Frees(ids)
  BY DEF FreeAll, Frees
<1>5. /\ Frees(ids) \in Seq(Command)
      /\ \A i \in DOMAIN Frees(ids) : Frees(ids)[i].op = "free" /\ Frees(ids)[i].id \in ids
      /\ \A id \in ids : \E i \in DOMAIN Frees(ids) : Frees(ids)[i].id = id
  BY <1>2, <1>3, FreesIs
<1> QED BY <1>3, <1>4, <1>5

\* Only what is cached is evicted.
LEMMA EvictedHeld ==
    ASSUME NEW S \in Evictions
    PROVE  S \in SUBSET DOMAIN entries
BY DEF Evictions, LinearKeys

\* The list and the resources once trim evicted S.
LEMMA Evicted ==
    ASSUME CacheInv, DeliveryInv, submit.pc = "walk", NEW S \in Evictions
    PROVE  /\ submit.list \in Seq(Command) /\ FreeAll(S) \in Seq(Command)
           /\ Consistent(gpu, submit.list \o FreeAll(S), Held(Kept(S)), SinkIds, next_id, mem)
<1> DEFINE F == {RecordOf(entries, j) : j \in S}
           M == FreeAll(S)
           ids == {entries[k].id : k \in S}
<1>1. S \in SUBSET DOMAIN entries
  BY EvictedHeld
<1>2. Consistent(gpu, submit.list, Held(entries), SinkIds, next_id, mem)
  BY DEF DeliveryInv, SubmitList, Current
<1>3. F \in SUBSET Held(entries)
  BY <1>1 DEF Held
<1>4. /\ M \in Seq(Command)
      /\ \A i \in DOMAIN M : M[i].op = "free" /\ M[i].id \in ids
      /\ \A id \in ids : \E i \in DOMAIN M : M[i].id = id
  BY <1>1, FreeAllIs
<1>5. \A id \in ids : \E e \in F : id = e.id
  <2>1. \A j \in S : RecordOf(entries, j) \in F /\ RecordOf(entries, j).id = entries[j].id
    BY DEF RecordOf
  <2> HIDE DEF F
  <2> QED BY <2>1
<1>6. \A e \in F : e.id \in ids
  BY DEF RecordOf
<1>7. Held(Kept(S)) = Held(entries) \ F
  BY <1>1, HeldWithout DEF Kept
<1> HIDE DEF F, M, ids
<1>8. Consistent(gpu, submit.list \o M, Held(entries) \ F, SinkIds, next_id, mem)
  BY <1>2, <1>3, <1>4, <1>5, <1>6, AddFrees
<1>9. submit.list \in Seq(Command)
  BY <1>2 DEF Consistent, NamesOK
<1> QED BY <1>4, <1>7, <1>8, <1>9 DEF M

----------------------------------------------------------------------------

\* A clean hit's entry is as new as the submit asks for.
LEMMA CleanServes ==
    ASSUME ~RacyFill, CacheInv, NEW k \in DOMAIN entries, ~IsRt(k), Trusted(k)
    PROVE  Need(k) \in Bytes /\ AtMost(Need(k), entries[k].data)
<1>1. EntryOK(k, entries[k], mem, dirtied, watched, submit.floor) /\ submit.floor \in Bytes
  BY DEF CacheInv, EntriesOK, CacheTypeOK, Bytes
<1>2. Need(k) \in Bytes
  BY <1>1 DEF Need, Bytes
<1>3. \A c \in Cells : c \in Extent(k) => Need(k)[c] <= entries[k].data[c]
  BY <1>1 DEF EntryOK, Need, Tracked, Trusted
<1>4. \A c \in Cells : c \notin Extent(k) => Need(k)[c] <= entries[k].data[c]
  BY <1>1 DEF EntryOK, Entry, Need
<1> QED BY <1>2, <1>3, <1>4 DEF AtMost

\* A copy is what memory holds, and so as new as the submit asks for.
LEMMA CopyServes ==
    ASSUME CacheInv, NEW k \in Keys
    PROVE  /\ Copy(k) = BytesOf(k, mem) /\ Copy(k) \in Bytes
           /\ Need(k) \in Bytes /\ AtMost(Need(k), Copy(k))
<1>1. mem \in Bytes /\ submit.floor \in Bytes /\ \A c \in Cells : submit.floor[c] <= mem[c]
  BY DEF CacheInv, CacheTypeOK, FloorBelow, Bytes
<1>2. Copy(k) = BytesOf(k, mem)
  BY DEF Copy, BytesOf
<1>3. Copy(k) \in Bytes /\ Need(k) \in Bytes
  BY <1>1 DEF Copy, Need, Bytes
<1>4. AtMost(Need(k), Copy(k))
  BY <1>1 DEF Copy, Need, Bytes, AtMost
<1> QED BY <1>2, <1>3, <1>4

\* A clean hit draws what is as new as needed; another uploads first.
LEMMA Hit_Delivery ==
    ASSUME ~RacyFill, CacheInv, DeliveryInv, NEW k \in Keys, Hit(k)
    PROVE  DeliveryInv'
<1>1. PICK S \in Evictions :
         k \in DOMAIN entries \ S /\ (CleanHit(k, S) \/ DirtyHit(k, S))
  BY DEF Hit
<1>2. submit.pc = "walk" /\ ~IsRt(k) /\ UNCHANGED <<gpu, next_id, passes, mem, channel, sink>>
  BY DEF Hit, CanGet, pageVars, backendVars
<1> DEFINE L == submit.list
           M == FreeAll(S)
           K == L \o M
           E == Held(Kept(S))
           e == RecordOf(entries, k)
           d1 == Draw(e.id, Need(k))
           d2 == Draw(e.id, Nothing)
           u == Upload(e.id, Copy(k))
<1>3. L \in Seq(Command) /\ M \in Seq(Command) /\ Consistent(gpu, K, E, SinkIds, next_id, mem)
  BY <1>1, <1>2, Evicted
<1>4. DOMAIN Kept(S) = DOMAIN entries \ S /\ \A j \in DOMAIN entries \ S : Kept(S)[j] = entries[j]
  BY WithoutIs DEF Kept
<1>5. e = RecordOf(Kept(S), k) /\ e \in E
  BY <1>1, <1>4 DEF RecordOf, Held
<1>6. e.key = k /\ e.id = entries[k].id /\ e.data = entries[k].data
  BY DEF RecordOf
<1>7. e.id \in Nat
  BY <1>3, <1>5, Typed
<1>8. Need(k) \in Bytes /\ Copy(k) \in Bytes /\ Nothing \in Bytes
  BY CopyServes, AtMostIs
<1>9. d1 \in Command /\ d2 \in Command /\ u \in Command
  BY <1>7, <1>8 DEF Draw, Upload, Command
<1> SUFFICES submit'.pc = "walk" /\ Consistent(gpu, submit'.list, Held(entries'), SinkIds, next_id, mem)
  BY <1>2, Walk_Delivery DEF Current
<1>10. ASSUME UNCHANGED next_id, Held(entries') = E, NEW d \in {d1, d2}, Walk(M \o <<d>>),
              Consistent(gpu, Append(K, d), E, SinkIds, next_id, mem)
       PROVE  submit'.pc = "walk" /\ Consistent(gpu, submit'.list, Held(entries'), SinkIds, next_id, mem)
  <2>1. submit'.pc = "walk" /\ submit'.list = L \o (M \o <<d>>)
    BY <1>2, <1>10, WalkAdds
  <2>2. L \o (M \o <<d>>) = Append(K, d)
    <3>1. d \in Command
      BY <1>9, <1>10
    <3> HIDE DEF L, M, d1, d2
    <3> QED BY <1>3, <3>1, OneJoinsBoth
  <2> QED BY <1>10, <2>1, <2>2
<1>11. ASSUME entries' = [Kept(S) EXCEPT ![k].last_used = flips]
       PROVE  Held(entries') = E
  <2>1. /\ DOMAIN entries' = DOMAIN Kept(S)
        /\ \A j \in DOMAIN Kept(S) : j # k => entries'[j] = Kept(S)[j]
        /\ entries'[k] = [entries[k] EXCEPT !.last_used = flips]
    BY <1>1, <1>4, <1>11
  <2>2. entries[k] \in Entry /\ flips \in Nat
    BY <1>1 DEF CacheInv, EntriesOK, EntryOK, CacheTypeOK
  <2>3. entries'[k].id = Kept(S)[k].id /\ entries'[k].data = Kept(S)[k].data
    BY <1>1, <1>4, <2>1, <2>2, UseKeeps
  <2> QED BY <2>1, <2>3, HeldSame
<1>12. CASE CleanHit(k, S)
  <2>1. AtMost(Need(k), e.data)
    BY <1>1, <1>2, <1>6, <1>12, CleanServes DEF CleanHit
  <2>2. Consistent(gpu, Append(K, d1), E, SinkIds, next_id, mem)
    BY <1>3, <1>5, <1>8, <2>1, AddDraw
  <2>3. Held(entries') = E /\ Walk(M \o <<d1>>)
    BY <1>6, <1>11, <1>12 DEF CleanHit
  <2> QED BY <1>2, <1>10, <2>2, <2>3
<1>13. CASE DirtyHit(k, S) /\ ~Readable(k)
  <2>1. AtMost(Nothing, e.data)
    BY <1>3, <1>5, AtMostIs, Typed
  <2>2. Consistent(gpu, Append(K, d2), E, SinkIds, next_id, mem)
    BY <1>3, <1>5, <1>8, <2>1, AddDraw
  <2>3. Held(entries') = E /\ Walk(M \o <<d2>>)
    BY <1>6, <1>11, <1>13 DEF DirtyHit
  <2> QED BY <1>2, <1>10, <2>2, <2>3
<1>14. CASE DirtyHit(k, S) /\ Readable(k)
  <2> DEFINE e2 == RecordOf(entries', k)
             E2 == (E \ {e}) \cup {e2}
  <2>1. /\ entries' = [Kept(S) EXCEPT ![k] = [@ EXCEPT !.dirty = FALSE, !.last_used = flips, !.data = Copy(k)]]
        /\ Walk(M \o <<u, d1>>)
    BY <1>6, <1>14 DEF DirtyHit
  <2>2. /\ DOMAIN entries' = DOMAIN Kept(S)
        /\ \A j \in DOMAIN Kept(S) : j # k => entries'[j] = Kept(S)[j]
        /\ entries'[k] = [entries[k] EXCEPT !.dirty = FALSE, !.last_used = flips, !.data = Copy(k)]
    BY <1>1, <1>4, <2>1
  <2>3. entries'[k].id = e.id /\ entries'[k].data = Copy(k)
    <3>1. entries[k] \in Entry
      BY <1>1 DEF CacheInv, EntriesOK, EntryOK
    <3> QED BY <1>6, <2>2, <3>1 DEF Entry
  <2>4. e2 = [key |-> e.key, id |-> e.id, data |-> Copy(k)]
    BY <1>6, <2>3 DEF RecordOf
  <2>5. Held(entries') = E2
    BY <1>1, <1>4, <1>5, <2>2, HeldReplaced
  <2>6. Copy(k) = BytesOf(e.key, mem) /\ AtMost(Need(k), Copy(k))
    BY <1>6, CopyServes
  <2>7. submit'.pc = "walk" /\ submit'.list = L \o (M \o <<u, d1>>)
    BY <1>2, <2>1, WalkAdds
  <2>8. L \o (M \o <<u, d1>>) = Append(Append(K, u), d1)
    BY <1>3, <1>9, TwoJoinBoth
  <2>9. e2 \in E2 /\ e2.id = e.id /\ e2.data = Copy(k)
    BY <2>4
  <2> HIDE DEF K, E, e, e2, E2
  <2>10. Consistent(gpu, Append(K, u), E2, SinkIds, next_id, mem)
    <3>1. E2 = (E \ {e}) \cup {e2}
      BY DEF E2
    <3> QED BY <1>3, <1>5, <2>4, <2>6, <3>1, AddUpload
  <2>11. Consistent(gpu, Append(Append(K, u), Draw(e2.id, Need(k))), E2, SinkIds, next_id, mem)
    BY <1>8, <2>6, <2>9, <2>10, AddDraw
  <2> QED BY <2>5, <2>7, <2>8, <2>9, <2>11
<1> QED BY <1>1, <1>12, <1>13, <1>14

\* A first use creates under a new id, uploads what it could read and draws.
LEMMA Fill_Delivery ==
    ASSUME CacheInv, DeliveryInv, NEW k \in Keys, Fill(k)
    PROVE  DeliveryInv'
<1> DEFINE data == IF Readable(k) THEN Copy(k) ELSE Nothing
           need == IF Readable(k) THEN Need(k) ELSE Nothing
           d == Draw(next_id, need)
           c == Create(next_id, KindOf(k))
           u == Upload(next_id, Copy(k))
           L == submit.list
<1>1. PICK S \in Evictions :
         /\ k \notin DOMAIN entries \ S /\ entries' = Kept(S) /\ next_id' = next_id + 1
         /\ submit' = [pc |-> "fill", gets |-> submit.gets + 1, floor |-> submit.floor,
                       list |-> L \o FreeAll(S) \o FirstUse(k) \o <<d>>,
                       key |-> k, data |-> data, dirty |-> ~Readable(k)]
  BY DEF Fill
<1> DEFINE M == FreeAll(S)
           K == L \o M
           E == Held(Kept(S))
           e == [key |-> k, id |-> next_id, data |-> Nothing]
           e2 == [key |-> k, id |-> next_id, data |-> data]
<1>2. submit.pc = "walk" /\ UNCHANGED <<gpu, passes, mem, channel, sink>>
  BY DEF Fill, CanGet, pageVars, backendVars
<1>3. /\ submit'.pc = "fill" /\ submit'.key = k /\ submit'.data = data
      /\ submit'.list = K \o FirstUse(k) \o <<d>>
  BY <1>1
<1>4. L \in Seq(Command) /\ M \in Seq(Command) /\ Consistent(gpu, K, E, SinkIds, next_id, mem)
  BY <1>1, <1>2, Evicted
<1>5. K \in Seq(Command)
  BY <1>4, ConcatProperties
<1>6. DOMAIN entries' = DOMAIN entries \ S
  BY <1>1, WithoutIs DEF Kept
<1>7. next_id \in Nat
  BY DEF CacheInv, CacheTypeOK
<1>8. Need(k) \in Bytes /\ Copy(k) \in Bytes /\ Nothing \in Bytes /\ need \in Bytes
  BY CopyServes, AtMostIs
<1>9. c \in Command /\ u \in Command /\ d \in Command
  BY <1>7, <1>8 DEF Draw, Upload, Create, Command, KindOf, Kinds
<1>10. Current' = E \cup {e2}
  <2>1. Held(entries') = E
    BY <1>1
  <2>2. Filled' = e2
    BY <1>1, <1>3, <1>7 DEF Filled
  <2> HIDE DEF E, e2
  <2> QED BY <1>3, <2>1, <2>2 DEF Current
<1>11. Consistent(gpu, Append(K, c), E \cup {e}, SinkIds, next_id + 1, mem)
  <2> HIDE DEF K, E
  <2> QED BY <1>4, AddCreate
<1>12. e \in E \cup {e} /\ e.id = next_id /\ e.key = k /\ e2.id = next_id /\ e2.data = data
  OBVIOUS
<1>13. e \notin E
  BY <1>4, <1>12 DEF Consistent, NamesOK
<1>14. Append(K, c) \in Seq(Command)
  BY <1>5, <1>9, AppendProperties
<1> HIDE DEF K, E, e, e2, c, d, u
<1>15. Consistent(gpu, submit'.list, E \cup {e2}, SinkIds, next_id + 1, mem)
  <2>1. CASE Readable(k)
    <3>1. FirstUse(k) = <<c>> \o <<u>>
      BY <2>1 DEF FirstUse, c, u
    <3>2. K \o FirstUse(k) = Append(Append(K, c), u)
      <4>1. K \o (<<c>> \o <<u>>) = Append(Append(K, c), u)
        BY <1>5, <1>9, TwoJoin
      <4> QED BY <3>1, <4>1
    <3>3. Append(Append(K, c), u) \in Seq(Command)
      BY <1>9, <1>14, AppendProperties
    <3>4. submit'.list = Append(Append(Append(K, c), u), d)
      BY <1>3, <1>9, <3>2, <3>3, OneJoins
    <3>5. Consistent(gpu, Append(Append(K, c), u), E \cup {e2}, SinkIds, next_id + 1, mem)
      <4>1. Copy(k) = BytesOf(e.key, mem)
        BY <1>12, CopyServes
      <4>2. e2 = [key |-> e.key, id |-> e.id, data |-> Copy(k)]
        BY <1>12, <2>1 DEF e2
      <4>3. E \cup {e2} = ((E \cup {e}) \ {e}) \cup {e2}
        BY <1>13
      <4>4. u = Upload(e.id, Copy(k))
        BY <1>12 DEF u
      <4> QED BY <1>11, <1>12, <4>1, <4>2, <4>3, <4>4, AddUpload
    <3>6. e2 \in E \cup {e2} /\ AtMost(need, e2.data) /\ d = Draw(e2.id, need)
      BY <1>12, <2>1, CopyServes DEF d
    <3> QED BY <1>8, <3>4, <3>5, <3>6, AddDraw
  <2>2. CASE ~Readable(k)
    <3>1. FirstUse(k) = <<c>> \o <<>> /\ <<c>> \o <<>> = <<c>>
      <4>1. <<c>> \in Seq(Command)
        BY <1>9, SeqDef
      <4> QED BY <2>2, <4>1, ConcatEmptySeq DEF FirstUse, c
    <3>2. K \o FirstUse(k) = Append(K, c)
      BY <1>5, <1>9, <3>1, OneJoins
    <3>3. submit'.list = Append(Append(K, c), d)
      BY <1>3, <1>9, <1>14, <3>2, OneJoins
    <3>4. e2 = e /\ d = Draw(e.id, Nothing) /\ e.data = Nothing
      BY <1>12, <2>2 DEF e, e2, d
    <3>5. AtMost(Nothing, e.data)
      BY <1>8, <3>4, AtMostIs
    <3> QED BY <1>8, <1>11, <1>12, <3>3, <3>4, <3>5, AddDraw
  <2> QED BY <2>1, <2>2
<1>16. submit'.key \notin DOMAIN entries'
  BY <1>1, <1>3, <1>6
<1> QED BY <1>1, <1>2, <1>3, <1>10, <1>15, <1>16, Walk_Delivery

\* The resource filled becomes an entry's.
LEMMA Insert_Delivery ==
    ASSUME CacheInv, DeliveryInv, Insert
    PROVE  DeliveryInv'
<1> DEFINE k == submit.key
           v == [id |-> next_id - 1, dirty |-> submit.dirty, last_used |-> trimmed_flip, data |-> submit.data]
<1>1. submit.pc = "fill" /\ UNCHANGED <<gpu, next_id, passes, mem, channel, sink>>
  BY DEF Insert, pageVars, backendVars
<1>2. entries' = With(entries, k, v)
  BY DEF Insert
<1>3. submit'.pc = "walk" /\ submit'.list = submit.list
  BY DEF Insert, Idle
<1>4. k \notin DOMAIN entries
  BY <1>1 DEF DeliveryInv, ChannelOK
<1>5. Held(entries') = Held(entries) \cup {[key |-> k, id |-> v.id, data |-> v.data]}
  <2> HIDE DEF v
  <2> QED BY <1>2, <1>4, HeldAdded
<1>6. Current' = Current
  BY <1>1, <1>3, <1>5 DEF Current, Filled
<1>7. SubmitList' = SubmitList /\ SinkList' = SinkList
  BY <1>1, <1>3 DEF SubmitList, SinkList
<1>8. ChannelOK'
  BY <1>1, <1>3 DEF ChannelOK, DeliveryInv
<1> QED BY <1>1, <1>6, <1>7, <1>8, Calm_Delivery

\* A render target is drawn, created first if it is new.
LEMMA GetRenderTarget_Delivery ==
    ASSUME CacheInv, DeliveryInv, NEW k \in Keys, GetRenderTarget(k)
    PROVE  DeliveryInv'
<1>1. submit.pc = "walk" /\ IsRt(k) /\ UNCHANGED <<gpu, passes, mem, channel, sink>>
  BY DEF GetRenderTarget, CanGet, pageVars, backendVars
<1> DEFINE L == submit.list
           E == Held(entries)
<1>2. L \in Seq(Command) /\ Consistent(gpu, L, E, SinkIds, next_id, mem)
  BY <1>1 DEF DeliveryInv, SubmitList, Current, Consistent, NamesOK
<1>3. Nothing \in Bytes /\ next_id \in Nat /\ trimmed_flip \in Nat
  BY AtMostIs DEF CacheInv, CacheTypeOK
<1> SUFFICES submit'.pc = "walk" /\ Consistent(gpu, submit'.list, Held(entries'), SinkIds, next_id', mem)
  BY <1>1, Walk_Delivery DEF Current
<1>4. CASE k \in DOMAIN entries
  <2> DEFINE e == RecordOf(entries, k)
             d == Draw(e.id, Nothing)
  <2>1. e \in E /\ e.id = entries[k].id
    BY <1>4 DEF Held, RecordOf
  <2>2. /\ entries' = [entries EXCEPT ![k].last_used = trimmed_flip]
        /\ Walk(<<d>>) /\ next_id' = next_id
    BY <1>4, <2>1 DEF GetRenderTarget
  <2>3. e.id \in Nat /\ AtMost(Nothing, e.data)
    BY <1>2, <2>1, Typed, AtMostIs
  <2>4. d \in Command
    BY <1>3, <2>3 DEF Draw, Command
  <2>5. submit'.pc = "walk" /\ submit'.list = Append(L, d)
    <3>1. L \o <<d>> = Append(L, d)
      BY <1>2, <2>4, OneJoins
    <3> QED BY <1>1, <2>2, <3>1, WalkAdds
  <2>6. Held(entries') = E
    <3>1. entries[k] \in Entry
      BY <1>4 DEF CacheInv, EntriesOK, EntryOK
    <3>2. DOMAIN entries' = DOMAIN entries /\ \A j \in DOMAIN entries : j # k => entries'[j] = entries[j]
      BY <2>2
    <3>3. entries'[k] = [entries[k] EXCEPT !.last_used = trimmed_flip]
      BY <1>4, <2>2
    <3>4. entries'[k].id = entries[k].id /\ entries'[k].data = entries[k].data
      BY <1>3, <3>1, <3>3, UseKeeps
    <3> QED BY <3>2, <3>4, HeldSame
  <2>7. Consistent(gpu, Append(L, d), E, SinkIds, next_id, mem)
    <3> HIDE DEF L, E
    <3> QED BY <1>2, <1>3, <2>1, <2>3, AddDraw
  <2> QED BY <2>2, <2>5, <2>6, <2>7
<1>5. CASE k \notin DOMAIN entries
  <2> DEFINE v == [id |-> next_id, dirty |-> FALSE, last_used |-> trimmed_flip, data |-> Nothing]
             c == Create(next_id, "rt")
             d == Draw(next_id, Nothing)
             e == [key |-> k, id |-> next_id, data |-> Nothing]
             E2 == E \cup {e}
  <2>1. entries' = With(entries, k, v) /\ Walk(<<c, d>>) /\ next_id' = next_id + 1
    BY <1>5 DEF GetRenderTarget
  <2>2. c \in Command /\ d \in Command
    BY <1>3 DEF Create, Draw, Command, Kinds
  <2>3. submit'.pc = "walk" /\ submit'.list = Append(Append(L, c), d)
    <3>1. L \o <<c, d>> = Append(Append(L, c), d)
      BY <1>2, <2>2, TwoJoin
    <3> QED BY <1>1, <2>1, <3>1, WalkAdds
  <2>4. Held(entries') = E2
    <3>1. v.id = next_id /\ v.data = Nothing
      OBVIOUS
    <3> HIDE DEF v
    <3> QED BY <1>5, <2>1, <3>1, HeldAdded
  <2>5. KindOf(k) = "rt"
    BY <1>1 DEF KindOf
  <2>6. e \in E2 /\ e.id = next_id /\ e.data = Nothing
    OBVIOUS
  <2> HIDE DEF L, E, e
  <2>7. Consistent(gpu, Append(L, c), E2, SinkIds, next_id + 1, mem)
    BY <1>2, <2>5, AddCreate DEF e
  <2> HIDE DEF E2
  <2>8. Consistent(gpu, Append(Append(L, c), Draw(e.id, Nothing)), E2, SinkIds, next_id + 1, mem)
    <3>1. AtMost(Nothing, e.data)
      BY <1>3, <2>6, AtMostIs
    <3> QED BY <1>3, <2>6, <2>7, <3>1, AddDraw
  <2> QED BY <2>1, <2>3, <2>4, <2>6, <2>8
<1> QED BY <1>4, <1>5

\* The list goes from the submit to the channel.
LEMMA Ship_Delivery ==
    ASSUME DeliveryInv, Ship
    PROVE  DeliveryInv'
<1>1. submit.pc = "walk" /\ UNCHANGED <<gpu, next_id, passes, mem, sink, entries>>
  BY DEF Ship, pageVars, backendVars, cacheVars
<1>2. submit'.pc = "wait" /\ submit'.list = <<>>
  BY DEF Ship, Idle
<1>3. channel' = Append(channel, [from |-> "submit", list |-> submit.list])
  BY DEF Ship
<1>4. OneEach(channel) /\ ~On(channel, "submit") /\ (On(channel, "sink") <=> sink.pc = "wait")
  BY <1>1 DEF DeliveryInv, ChannelOK
<1>5. SubmitList = submit.list /\ submit.list \in Seq(Command)
  BY <1>1 DEF DeliveryInv, SubmitList, Consistent, NamesOK
<1>6. /\ OneEach(channel') /\ On(channel', "submit") /\ ListFrom(channel', "submit") = submit.list
      /\ On(channel', "sink") <=> On(channel, "sink")
      /\ On(channel, "sink") => ListFrom(channel', "sink") = ListFrom(channel, "sink")
  <2>1. PICK x : x = [from |-> "submit", list |-> submit.list]
    OBVIOUS
  <2>2. x \in Item /\ x.from = "submit" /\ x.list = submit.list
    BY <1>5, <2>1 DEF Item, Senders
  <2>3. Sent(channel, x, channel')
    BY <1>3, <2>1 DEF Sent
  <2>4. /\ OneEach(channel') /\ On(channel', "submit") /\ ListFrom(channel', "submit") = x.list
        /\ \A w : w # "submit" => (On(channel', w) <=> On(channel, w))
        /\ \A w : w # "submit" /\ On(channel, w) => ListFrom(channel', w) = ListFrom(channel, w)
    BY <1>4, <2>2, <2>3, SendIs
  <2>5. "sink" # "submit"
    OBVIOUS
  <2> QED BY <2>2, <2>4, <2>5
<1>7. SubmitList' = SubmitList /\ SinkList' = SinkList /\ Current' = Current
  BY <1>1, <1>2, <1>4, <1>5, <1>6 DEF SubmitList, SinkList, Current
<1>8. ChannelOK'
  BY <1>1, <1>2, <1>4, <1>6 DEF ChannelOK
<1> QED BY <1>1, <1>7, <1>8, Calm_Delivery

\* The frees go from the sink to the channel.
LEMMA SendFrees_Delivery ==
    ASSUME DeliveryInv, SendFrees
    PROVE  DeliveryInv'
<1>1. sink.pc = "send" /\ sink'.pc = "wait" /\ UNCHANGED <<gpu, next_id, passes, mem, submit, entries>>
  BY DEF SendFrees, pageVars, backendVars, cacheVars
<1>2. channel' = Append(channel, [from |-> "sink", list |-> sink.list])
  BY DEF SendFrees
<1>3. OneEach(channel) /\ ~On(channel, "sink") /\ (On(channel, "submit") <=> submit.pc = "wait")
  BY <1>1 DEF DeliveryInv, ChannelOK
<1>4. SinkList = sink.list /\ sink.list \in Seq(Command)
  BY <1>1 DEF DeliveryInv, SinkList, SinkOK
<1>5. /\ OneEach(channel') /\ On(channel', "sink") /\ ListFrom(channel', "sink") = sink.list
      /\ On(channel', "submit") <=> On(channel, "submit")
      /\ On(channel, "submit") => ListFrom(channel', "submit") = ListFrom(channel, "submit")
  <2>1. PICK x : x = [from |-> "sink", list |-> sink.list]
    OBVIOUS
  <2>2. x \in Item /\ x.from = "sink" /\ x.list = sink.list
    BY <1>4, <2>1 DEF Item, Senders
  <2>3. Sent(channel, x, channel')
    BY <1>2, <2>1 DEF Sent
  <2>4. /\ OneEach(channel') /\ On(channel', "sink") /\ ListFrom(channel', "sink") = x.list
        /\ \A w : w # "sink" => (On(channel', w) <=> On(channel, w))
        /\ \A w : w # "sink" /\ On(channel, w) => ListFrom(channel', w) = ListFrom(channel, w)
    BY <1>3, <2>2, <2>3, SendIs
  <2>5. "sink" # "submit"
    OBVIOUS
  <2> QED BY <2>2, <2>4, <2>5
<1>6. SubmitList' = SubmitList /\ SinkList' = SinkList /\ Current' = Current
  BY <1>1, <1>3, <1>4, <1>5 DEF SubmitList, SinkList, Current, Filled
<1>7. ChannelOK'
  BY <1>1, <1>3, <1>5 DEF ChannelOK, DeliveryInv
<1> QED BY <1>1, <1>6, <1>7, Calm_Delivery

\* The lock is given up with nothing left to send.
LEMMA SubmitEnd_Delivery ==
    ASSUME DeliveryInv, SubmitEnd
    PROVE  DeliveryInv'
<1>1. /\ submit.pc \in {"done", "walk"} /\ submit.list = <<>> /\ passes' = {}
      /\ UNCHANGED <<gpu, next_id, mem, sink, channel, entries>>
  BY DEF SubmitEnd, pageVars, cacheVars, DeliveryInv, ChannelOK
<1>2. submit'.pc = "idle" /\ submit'.list = <<>>
  BY DEF SubmitEnd, Idle
<1>3. SubmitList' = SubmitList /\ SinkList' = SinkList /\ Current' = Current
  BY <1>1, <1>2 DEF SubmitList, SinkList, Current
<1>4. ChannelOK' /\ DrawReadsFresh'
  BY <1>1, <1>2 DEF ChannelOK, DeliveryInv, DrawReadsFresh
<1> QED BY <1>1, <1>3, <1>4 DEF DeliveryInv, SinkOK, SinkIds

\* The resources over the unmapped page become the sink's to free.
LEMMA NotifyFree_Delivery ==
    ASSUME CacheInv, DeliveryInv, NotifyFree
    PROVE  DeliveryInv'
<1> DEFINE freed == {k \in DOMAIN entries : ranges_overlap(k, PageCells(sink.page))}
           F == {RecordOf(entries, j) : j \in freed}
           ids == {entries[k].id : k \in freed}
<1>1. /\ sink.pc = "unmapped" /\ submit.pc = "idle" /\ entries' = Without(entries, freed)
      /\ UNCHANGED <<gpu, next_id, passes, mem, submit, channel>>
      /\ sink' = IF freed = {} THEN [pc |-> "idle"] ELSE [pc |-> "send", list |-> FreeAll(freed)]
  BY DEF NotifyFree, LockFree, pageVars, backendVars
<1>2. freed \in SUBSET DOMAIN entries
  OBVIOUS
<1>3. F \in SUBSET Held(entries) /\ Held(entries') = Held(entries) \ F
  <2> HIDE DEF freed
  <2>1. F \in SUBSET Held(entries)
    BY <1>2 DEF Held
  <2> QED BY <1>1, <1>2, <2>1, HeldWithout
<1> HIDE DEF freed
<1>4. \A j \in freed : RecordOf(entries, j).id = entries[j].id
  BY DEF RecordOf
<1>5. ids = {e.id : e \in F}
  BY <1>4
<1>6. Consistent(gpu, <<>>, Held(entries), {}, next_id, mem)
  <2>1. SubmitList = <<>> /\ Current = Held(entries) /\ SinkList = <<>>
    BY <1>1 DEF SubmitList, Current, SinkList, DeliveryInv, ChannelOK
  <2>2. SinkIds = {}
    BY <2>1 DEF SinkIds
  <2> QED BY <2>1, <2>2 DEF DeliveryInv
<1>7. Consistent(gpu, <<>>, Held(entries'), ids, next_id, mem)
  <2> HIDE DEF F, ids
  <2> QED BY <1>3, <1>5, <1>6, GiveUp
<1>8. /\ SinkList' \in Seq(Command) /\ SinkIds' = ids
      /\ \A i \in DOMAIN SinkList' : SinkList'[i].op = "free"
  <2>1. CASE freed = {}
    <3>1. SinkList' = <<>> /\ ids = {}
      BY <1>1, <2>1 DEF SinkList
    <3>2. <<>> \in Seq(Command) /\ DOMAIN <<>> = {}
      BY EmptySeq
    <3> HIDE DEF ids
    <3> QED BY <3>1, <3>2 DEF SinkIds
  <2>2. CASE freed # {}
    <3> DEFINE M == FreeAll(freed)
    <3>1. SinkList' = M
      BY <1>1, <2>2 DEF SinkList
    <3>2. /\ M \in Seq(Command)
          /\ \A i \in DOMAIN M : M[i].op = "free" /\ M[i].id \in ids
          /\ \A id \in ids : \E i \in DOMAIN M : M[i].id = id
      BY <1>2, FreeAllIs
    <3> HIDE DEF M, ids
    <3> QED BY <3>1, <3>2 DEF SinkIds
  <2> QED BY <2>1, <2>2
<1>9. sink'.pc \in {"idle", "send"}
  BY <1>1
<1>10. SubmitList' = <<>> /\ Current' = Held(entries')
  BY <1>1 DEF SubmitList, Current, DeliveryInv, ChannelOK
<1>11. ChannelOK'
  BY <1>1, <1>9 DEF ChannelOK, DeliveryInv
<1>12. DrawReadsFresh'
  BY <1>1 DEF DeliveryInv, DrawReadsFresh
<1> HIDE DEF ids
<1>13. Consistent(gpu, SubmitList, Current, SinkIds, next_id, mem)'
  BY <1>1, <1>7, <1>8, <1>10
<1> QED BY <1>8, <1>11, <1>12, <1>13 DEF DeliveryInv, SinkOK

\* The oldest list is run: the submit's serves its draws, the sink's has none.
LEMMA Replay_Delivery ==
    ASSUME CacheInv, DeliveryInv, Replay
    PROVE  DeliveryInv'
<1> DEFINE who == Head(channel).from
           M == Head(channel).list
           h == Recycled(gpu)
           b == Replayed(h, M)
<1>1. /\ channel # <<>> /\ channel' = Tail(channel) /\ gpu' = b.gpu
      /\ passes' = {[need |-> d.need, bound |-> d.bound,
                     got |-> IF d.id \in DOMAIN b.gpu THEN b.gpu[d.id].data ELSE Nothing] : d \in b.draws}
      /\ submit' = IF who = "submit" THEN [submit EXCEPT !.pc = "done"] ELSE submit
      /\ sink' = IF who = "sink" THEN [pc |-> "idle"] ELSE sink
      /\ UNCHANGED <<mem, entries, next_id>>
  BY DEF Replay, pageVars, cacheVars
<1>2. OneEach(channel)
  BY DEF DeliveryInv, ChannelOK
<1>3. /\ who \in Senders /\ On(channel, who) /\ ListFrom(channel, who) = M
      /\ OneEach(channel') /\ ~On(channel', who)
      /\ \A w : w # who => (On(channel', w) <=> On(channel, w))
      /\ \A w : w # who /\ On(channel, w) => ListFrom(channel', w) = ListFrom(channel, w)
  BY <1>1, <1>2, ReceiveIs
<1>4. /\ Consistent(h, SubmitList, Current, SinkIds, next_id, mem)
      /\ \A id \in DOMAIN h : h[id].live
  BY RecycledConsistent DEF DeliveryInv
<1>5. /\ On(channel, "submit") <=> submit.pc = "wait"
      /\ On(channel, "sink") <=> sink.pc = "wait"
      /\ submit.pc \in {"idle", "wait", "done"} => submit.list = <<>>
      /\ submit.pc = "fill" => submit.key \notin DOMAIN entries
  BY DEF DeliveryInv, ChannelOK
<1> HIDE DEF h, b, who, M
<1>6. CASE who = "submit"
  <2>1. submit.pc = "wait" /\ submit.list = <<>> /\ SubmitList = M
    BY <1>3, <1>5, <1>6 DEF SubmitList
  <2>2. submit'.pc = "done" /\ submit'.list = <<>> /\ sink' = sink
    BY <1>1, <1>6, <2>1 DEF CacheInv, CacheTypeOK
  <2>3. /\ Consistent(b.gpu, <<>>, Current, SinkIds, next_id, mem)
        /\ \A d \in b.draws : d.bound /\ d.id \in DOMAIN b.gpu /\ AtMost(d.need, b.gpu[d.id].data)
    BY <1>4, <2>1, SubmitRun DEF b
  <2>4. SubmitList' = <<>> /\ Current' = Current
    BY <1>1, <2>1, <2>2 DEF SubmitList, Current
  <2>5. SinkList' = SinkList
    BY <1>3, <1>5, <1>6, <2>2 DEF SinkList
  <2>6. SinkIds' = SinkIds /\ SinkOK'
    BY <2>5 DEF SinkIds, SinkOK, DeliveryInv
  <2>7. ChannelOK'
    BY <1>3, <1>5, <1>6, <2>2 DEF ChannelOK
  <2>8. DrawReadsFresh'
    <3> SUFFICES ASSUME NEW d \in b.draws,
                        NEW q, q = [need |-> d.need, bound |-> d.bound,
                                    got |-> IF d.id \in DOMAIN b.gpu THEN b.gpu[d.id].data ELSE Nothing]
                 PROVE  q.bound /\ \A c \in Cells : q.got[c] >= q.need[c]
      BY <1>1 DEF DrawReadsFresh
    <3>1. d.bound /\ d.id \in DOMAIN b.gpu /\ \A c \in Cells : d.need[c] <= b.gpu[d.id].data[c]
      BY <2>3 DEF AtMost
    <3>2. q.bound = d.bound /\ q.need = d.need /\ q.got = b.gpu[d.id].data
      BY <3>1
    <3> QED BY <3>1, <3>2
  <2> QED BY <1>1, <2>3, <2>4, <2>6, <2>7, <2>8 DEF DeliveryInv
<1>7. CASE who = "sink"
  <2>1. sink.pc = "wait" /\ SinkList = M /\ SinkIds = {M[i].id : i \in DOMAIN M}
    BY <1>3, <1>5, <1>7 DEF SinkList, SinkIds
  <2>2. sink'.pc = "idle" /\ submit' = submit
    BY <1>1, <1>7
  <2>3. M \in Seq(Command) /\ \A i \in DOMAIN M : M[i].op = "free"
    BY <2>1 DEF DeliveryInv, SinkOK
  <2>4. Consistent(b.gpu, SubmitList, Current, {}, next_id, mem) /\ b.draws = {}
    <3>1. /\ \A i \in DOMAIN M : M[i].op = "free" /\ M[i].id \in SinkIds
          /\ \A id \in SinkIds : \E i \in DOMAIN M : M[i].id = id
      BY <2>1, <2>3
    <3> QED BY <1>4, <2>3, <3>1, SinkRun DEF b
  <2>5. SubmitList' = SubmitList
    BY <1>3, <1>5, <1>7, <2>2 DEF SubmitList
  <2>6. Current' = Current
    BY <1>1, <2>2 DEF Current, Filled
  <2>7. SinkList' = <<>>
    BY <2>2 DEF SinkList
  <2>8. SinkIds' = {} /\ SinkOK'
    <3>1. <<>> \in Seq(Command) /\ DOMAIN <<>> = {}
      BY EmptySeq
    <3> QED BY <2>7, <3>1 DEF SinkIds, SinkOK
  <2>9. ChannelOK'
    BY <1>1, <1>3, <1>5, <1>7, <2>2 DEF ChannelOK
  <2>10. DrawReadsFresh'
    BY <1>1, <2>4 DEF DrawReadsFresh
  <2> QED BY <1>1, <2>4, <2>5, <2>6, <2>8, <2>9, <2>10 DEF DeliveryInv
<1> QED BY <1>3, <1>6, <1>7 DEF Senders

\* Nothing is cached, sent or held at first.
LEMMA Init_Delivery ==
    ASSUME CacheInit
    PROVE  DeliveryInv
<1>1. <<>> \in Seq(Command) /\ Len(<<>>) = 0 /\ DOMAIN <<>> = {}
  BY EmptySeq
<1>2. /\ gpu = <<>> /\ entries = <<>> /\ channel = <<>> /\ passes = {} /\ next_id = 1
      /\ submit.pc = "idle" /\ submit.list = <<>> /\ sink.pc = "idle" /\ mem \in Bytes
  BY DEF CacheInit, Idle, Bytes
<1>3. SubmitList = <<>> /\ SinkList = <<>> /\ SinkIds = {} /\ Current = {}
  BY <1>1, <1>2 DEF SubmitList, SinkList, SinkIds, Current, Held
<1>4. <<>> \in Seq(Item)
  BY EmptySeq
<1>5. ChannelOK
  BY <1>1, <1>2, <1>4 DEF ChannelOK, OneEach, On
<1>6. SinkOK /\ DrawReadsFresh
  BY <1>1, <1>2, <1>3 DEF SinkOK, DrawReadsFresh
<1>7. Consistent(<<>>, <<>>, {}, {}, 1, mem)
  BY <1>1, <1>2 DEF Consistent, NamesOK, BackendOK, ListOK, CreatesOK, UsesOK, UploadsOK, DrawsOK, NoLeak
<1> QED BY <1>2, <1>3, <1>5, <1>6, <1>7 DEF DeliveryInv

\* Backend, lists, entries and the ids under way agree in every state.
THEOREM Delivery ==
    ASSUME WholeUnmaps, ~RacyFill
    PROVE  CacheSpec => []DeliveryInv
<1>1. CacheInit => DeliveryInv
  BY Init_Delivery
<1>2. CacheInv /\ DeliveryInv /\ [CacheNext]_resourceVars => DeliveryInv'
  <2> SUFFICES ASSUME CacheInv, DeliveryInv, [CacheNext]_resourceVars PROVE DeliveryInv'
    OBVIOUS
  <2>1. ASSUME NEW c \in Cells, GuestWrite(c) PROVE DeliveryInv'
    BY <2>1, GuestWrite_Delivery
  <2>2. ASSUME NEW p \in UnmapPages, Map(p) \/ Munmap(p) PROVE DeliveryInv'
    BY <2>2, Quiet_Delivery DEF Map, Munmap, cacheVars, backendVars
  <2>3. ASSUME NEW p \in AcquirePages, AcquireMem(p) PROVE DeliveryInv'
    BY <2>3, AcquireMem_Delivery
  <2>4. ASSUME NEW k \in Keys, Hit(k) \/ Fill(k) \/ GetRenderTarget(k) PROVE DeliveryInv'
    BY <2>4, Hit_Delivery, Fill_Delivery, GetRenderTarget_Delivery
  <2>5. CASE Flip
    BY <2>5, Quiet_Delivery DEF Flip, pageVars, cacheVars, backendVars
  <2>6. CASE Submit
    BY <2>6, Submit_Delivery
  <2>7. CASE Insert
    BY <2>7, Insert_Delivery
  <2>8. CASE Ship \/ SubmitEnd
    BY <2>8, Ship_Delivery, SubmitEnd_Delivery
  <2>9. CASE NotifyFree
    BY <2>9, NotifyFree_Delivery
  <2>10. CASE SendFrees
    BY <2>10, SendFrees_Delivery
  <2>11. CASE Replay
    BY <2>11, Replay_Delivery
  <2>12. CASE UNCHANGED resourceVars
    BY <2>12, Quiet_Delivery DEF resourceVars, pageVars, cacheVars, backendVars
  <2> QED BY <2>1, <2>2, <2>3, <2>4, <2>5, <2>6, <2>7, <2>8, <2>9, <2>10, <2>11, <2>12 DEF CacheNext
<1> QED BY <1>1, <1>2, CacheInvariance, PTL DEF CacheSpec

\* Every draw finds its resource and reads bytes as new as its submit asked
\* for: an upload skipped by a clean hit, an eviction, a free sent from
\* another thread or a replay in between never leaves it behind.
THEOREM DrawsFresh ==
    ASSUME WholeUnmaps, ~RacyFill
    PROVE  CacheSpec => []DrawReadsFresh
<1>1. DeliveryInv => DrawReadsFresh
  BY DEF DeliveryInv
<1> QED BY <1>1, Delivery, PTL

----------------------------------------------------------------------------
(* The byte account: buffer_bytes is the fold of Size over the linear      *)
(* buffers cached, whatever order the fold takes them in.                  *)

\* The element a fold over a set takes first, and the fold of Size.
Pick(T) == CHOOSE x \in T : TRUE
SumAt(f, T) == IF T = {} THEN 0 ELSE f[T \ {Pick(T)}] + Size(Pick(T))
Small(S, n) == {T \in SUBSET S : Cardinality(T) <= n}
Sums(f, D) == f = [T \in D |-> SumAt(f, T)]

\* Subsets of a finite set, and one element less.
LEMMA SmallerIs ==
    ASSUME NEW S, IsFiniteSet(S), NEW T \in SUBSET S
    PROVE  /\ IsFiniteSet(T) /\ Cardinality(T) \in Nat /\ Cardinality(T) <= Cardinality(S)
           /\ T = {} <=> Cardinality(T) = 0
           /\ \A x \in T : T \ {x} \in SUBSET S /\ Cardinality(T \ {x}) = Cardinality(T) - 1
           /\ T # {} => Pick(T) \in T
<1>1. IsFiniteSet(T) /\ Cardinality(T) <= Cardinality(S)
  BY FS_Subset
<1>2. Cardinality(T) \in Nat /\ (T = {} <=> Cardinality(T) = 0)
  BY <1>1, FS_CardinalityType, FS_EmptySet
<1>3. \A x \in T : T \ {x} \in SUBSET S /\ Cardinality(T \ {x}) = Cardinality(T) - 1
  BY <1>1, FS_RemoveElement
<1>4. T # {} => Pick(T) \in T
  BY DEF Pick
<1> QED BY <1>1, <1>2, <1>3, <1>4

\* The recursion that defines the fold has a solution.
LEMMA SumsExist ==
    ASSUME NEW S, IsFiniteSet(S)
    PROVE  \E f : Sums(f, SUBSET S)
<1> DEFINE G == {n \in Nat : \E f : Sums(f, Small(S, n))}
<1>1. 0 \in G
  <2> DEFINE f == [T \in Small(S, 0) |-> 0]
  <2>1. \A T \in Small(S, 0) : T = {}
    BY SmallerIs DEF Small
  <2>2. \A T \in Small(S, 0) : SumAt(f, T) = 0
    BY <2>1 DEF SumAt
  <2>3. Sums(f, Small(S, 0))
    BY <2>2 DEF Sums
  <2> QED BY <2>3
<1>2. ASSUME NEW n \in Nat, n \in G PROVE n + 1 \in G
  <2>1. PICK f : Sums(f, Small(S, n))
    BY <1>2
  <2> DEFINE h == [T \in Small(S, n + 1) |-> SumAt(f, T)]
  <2>2. \A T \in Small(S, n) : T \in Small(S, n + 1) /\ f[T] = SumAt(f, T)
    BY <2>1, SmallerIs DEF Small, Sums
  <2>3. \A T \in Small(S, n) : h[T] = f[T]
    BY <2>2
  <2>4. ASSUME NEW T \in Small(S, n + 1) PROVE SumAt(f, T) = SumAt(h, T)
    <3>1. CASE T = {}
      BY <3>1 DEF SumAt
    <3>2. CASE T # {}
      <4>1. T \ {Pick(T)} \in Small(S, n)
        <5>1. T \in SUBSET S /\ Cardinality(T) <= n + 1
          BY DEF Small
        <5>2. Cardinality(T) \in Nat /\ T \ {Pick(T)} \in SUBSET S /\ Cardinality(T \ {Pick(T)}) = Cardinality(T) - 1
          BY <3>2, <5>1, SmallerIs
        <5> QED BY <5>1, <5>2 DEF Small
      <4> HIDE DEF h
      <4> QED BY <2>3, <3>2, <4>1 DEF SumAt
    <3> QED BY <3>1, <3>2
  <2>5. Sums(h, Small(S, n + 1))
    BY <2>4 DEF Sums
  <2> QED BY <2>5
<1>3. Cardinality(S) \in Nat /\ Small(S, Cardinality(S)) = SUBSET S
  BY SmallerIs DEF Small
<1>4. Cardinality(S) \in G
  <2>1. Nat \subseteq G
    <3> HIDE DEF G
    <3> QED BY <1>1, <1>2, Induction
  <2> QED BY <1>3, <2>1
<1> QED BY <1>3, <1>4

\* A solution for a larger set is one for a smaller.
LEMMA SumsAgree ==
    ASSUME NEW S, IsFiniteSet(S), NEW R \in SUBSET S, NEW f, Sums(f, SUBSET S), NEW h, Sums(h, SUBSET R)
    PROVE  f[R] = h[R]
<1> DEFINE G == {n \in Nat : \A T \in SUBSET R : Cardinality(T) = n => f[T] = h[T]}
<1>1. \A T \in SUBSET R : T \in SUBSET S /\ f[T] = SumAt(f, T) /\ h[T] = SumAt(h, T)
  BY DEF Sums
<1>2. \A T \in SUBSET R : Cardinality(T) = 0 => f[T] = h[T]
  BY <1>1, SmallerIs DEF SumAt
<1>3. ASSUME NEW n \in Nat, n \in G PROVE n + 1 \in G
  <2> SUFFICES ASSUME NEW T \in SUBSET R, Cardinality(T) = n + 1 PROVE f[T] = h[T]
    OBVIOUS
  <2> DEFINE x == Pick(T)
  <2>1. T # {} /\ x \in T /\ Cardinality(T \ {x}) = n
    BY <1>1, SmallerIs
  <2>2. f[T \ {x}] = h[T \ {x}]
    BY <1>3, <2>1
  <2> QED BY <1>1, <2>1, <2>2 DEF SumAt
<1>4. Cardinality(R) \in Nat
  BY SmallerIs
<1>5. Nat \subseteq G
  <2>1. 0 \in G
    BY <1>2
  <2> HIDE DEF G
  <2> QED BY <1>3, <2>1, Induction
<1> QED BY <1>4, <1>5

\* The fold takes the element it picks, and goes on with the rest.
LEMMA TotalSizeUnfolds ==
    ASSUME NEW S, IsFiniteSet(S)
    PROVE  TotalSize(S) = IF S = {} THEN 0 ELSE TotalSize(S \ {Pick(S)}) + Size(Pick(S))
<1> DEFINE F(R) == CHOOSE f : Sums(f, SUBSET R)
<1>1. ASSUME NEW R PROVE TotalSize(R) = F(R)[R]
  BY DEF TotalSize, FoldSet, MapThenFoldSet, Pick, Sums, SumAt
<1>2. \A R \in SUBSET S : IsFiniteSet(R)
  BY SmallerIs
<1>3. \A R \in SUBSET S : Sums(F(R), SUBSET R)
  BY <1>2, SumsExist
<1> HIDE DEF F
<1>4. F(S)[S] = SumAt(F(S), S)
  <2>1. \A f : Sums(f, SUBSET S) => f[S] = SumAt(f, S)
    BY DEF Sums
  <2> QED BY <1>3, <2>1
<1>5. CASE S = {}
  BY <1>1, <1>4, <1>5 DEF SumAt
<1>6. CASE S # {}
  <2> DEFINE R == S \ {Pick(S)}
  <2>1. R \in SUBSET S
    OBVIOUS
  <2>2. F(S)[R] = F(R)[R]
    BY <1>3, <2>1, SumsAgree
  <2> QED BY <1>1, <1>4, <1>6, <2>2 DEF SumAt
<1> QED BY <1>5, <1>6

\* The sizes of a set of keys add up to a number.
LEMMA TotalSizeNat ==
    ASSUME NEW S \in SUBSET Keys, IsFiniteSet(S)
    PROVE  TotalSize(S) \in Nat
<1>1. \A k \in Keys : Size(k) \in Nat
  BY CacheAssumption DEF Size
<1> DEFINE G == {n \in Nat : \A T \in SUBSET S : Cardinality(T) = n => TotalSize(T) \in Nat}
<1>2. 0 \in G
  <2>1. TotalSize({}) = 0
    BY FS_EmptySet, TotalSizeUnfolds
  <2>2. \A T \in SUBSET S : Cardinality(T) = 0 => T = {}
    BY SmallerIs
  <2> QED BY <2>1, <2>2
<1>3. ASSUME NEW n \in Nat, n \in G PROVE n + 1 \in G
  <2> SUFFICES ASSUME NEW T \in SUBSET S, Cardinality(T) = n + 1 PROVE TotalSize(T) \in Nat
    OBVIOUS
  <2> DEFINE x == Pick(T)
             U == T \ {x}
  <2>1. T # {} /\ x \in T /\ x \in Keys /\ IsFiniteSet(T) /\ U \in SUBSET S /\ Cardinality(U) = n
    BY SmallerIs
  <2>2. TotalSize(T) = TotalSize(U) + Size(x)
    BY <2>1, TotalSizeUnfolds
  <2>3. TotalSize(U) \in Nat
    BY <1>3, <2>1
  <2> QED BY <1>1, <2>1, <2>2, <2>3
<1>4. Cardinality(S) \in Nat
  BY SmallerIs
<1>5. Nat \subseteq G
  <2> HIDE DEF G
  <2> QED BY <1>2, <1>3, Induction
<1> QED BY <1>4, <1>5

\* Any key taken out takes its size, whatever order the fold goes in.
LEMMA TotalSizeLess ==
    ASSUME NEW S \in SUBSET Keys, IsFiniteSet(S)
    PROVE  \A k \in S : TotalSize(S) = TotalSize(S \ {k}) + Size(k)
<1>1. \A k \in Keys : Size(k) \in Nat
  BY CacheAssumption DEF Size
<1> DEFINE Good(T) == \A k \in T : TotalSize(T) = TotalSize(T \ {k}) + Size(k)
           G == {n \in Nat : \A T \in SUBSET S : Cardinality(T) = n => Good(T)}
<1>2. \A T \in SUBSET S : TotalSize(T) \in Nat
  <2>1. \A T \in SUBSET S : T \in SUBSET Keys /\ IsFiniteSet(T)
    BY SmallerIs
  <2> QED BY <2>1, TotalSizeNat
<1>3. 0 \in G
  <2>1. \A T \in SUBSET S : Cardinality(T) = 0 => T = {}
    BY SmallerIs
  <2> QED BY <2>1
<1>4. ASSUME NEW n \in Nat, n \in G PROVE n + 1 \in G
  <2> SUFFICES ASSUME NEW T \in SUBSET S, Cardinality(T) = n + 1 PROVE Good(T)
    OBVIOUS
  <2> DEFINE x == Pick(T)
             U == T \ {x}
  <2>1. T # {} /\ x \in T /\ x \in Keys /\ IsFiniteSet(T) /\ U \in SUBSET S /\ Cardinality(U) = n
    BY SmallerIs
  <2>2. TotalSize(T) = TotalSize(U) + Size(x)
    BY <2>1, TotalSizeUnfolds
  <2>3. ASSUME NEW k \in T, k # x PROVE TotalSize(T) = TotalSize(T \ {k}) + Size(k)
    <3> DEFINE V == T \ {k}
               W == U \ {k}
    <3>1. V \in SUBSET S /\ W \in SUBSET S /\ k \in U /\ x \in V /\ V \ {x} = W /\ k \in Keys
      BY <2>1, <2>3
    <3>2. Cardinality(V) = n
      BY SmallerIs
    <3>3. TotalSize(U) = TotalSize(W) + Size(k)
      BY <1>4, <2>1, <3>1
    <3>4. TotalSize(V) = TotalSize(V \ {x}) + Size(x)
      BY <1>4, <3>1, <3>2
    <3>5. TotalSize(W) \in Nat /\ Size(k) \in Nat /\ Size(x) \in Nat
      BY <1>1, <1>2, <2>1, <3>1
    <3>6. TotalSize(V) = TotalSize(W) + Size(x)
      BY <3>1, <3>4
    <3> HIDE DEF V, W, U, x
    <3>7. TotalSize(T) = TotalSize(V) + Size(k)
      BY <2>2, <3>3, <3>5, <3>6
    <3> QED BY <3>7 DEF V
  <2> QED BY <2>2, <2>3
<1>5. Cardinality(S) \in Nat
  BY SmallerIs
<1>6. Nat \subseteq G
  <2> HIDE DEF G
  <2> QED BY <1>3, <1>4, Induction
<1>7. Good(S)
  BY <1>5, <1>6
<1> QED BY <1>7

\* A set of keys taken out takes its sizes.
LEMMA TotalSizeMinus ==
    ASSUME NEW S \in SUBSET Keys, IsFiniteSet(S), NEW R \in SUBSET S
    PROVE  TotalSize(S \ R) = TotalSize(S) - TotalSize(R)
<1> DEFINE G == {n \in Nat : \A T \in SUBSET R : Cardinality(T) = n => TotalSize(S) = TotalSize(S \ T) + TotalSize(T)}
<1>1. \A T \in SUBSET S : /\ T \in SUBSET Keys /\ IsFiniteSet(T) /\ TotalSize(T) \in Nat
                          /\ \A k \in T : TotalSize(T) = TotalSize(T \ {k}) + Size(k) /\ Size(k) \in Nat
  <2>1. \A T \in SUBSET S : IsFiniteSet(T) /\ T \in SUBSET Keys
    BY SmallerIs
  <2>2. \A k \in Keys : Size(k) \in Nat
    BY CacheAssumption DEF Size
  <2> QED BY <2>1, <2>2, TotalSizeNat, TotalSizeLess
<1>2. 0 \in G
  <2>1. TotalSize({}) = 0 /\ S \ {} = S
    BY FS_EmptySet, TotalSizeUnfolds
  <2>2. \A T \in SUBSET R : Cardinality(T) = 0 => T = {}
    BY SmallerIs
  <2> QED BY <1>1, <2>1, <2>2
<1>3. ASSUME NEW n \in Nat, n \in G PROVE n + 1 \in G
  <2> SUFFICES ASSUME NEW T \in SUBSET R, Cardinality(T) = n + 1
               PROVE  TotalSize(S) = TotalSize(S \ T) + TotalSize(T)
    OBVIOUS
  <2>1. PICK k : k \in T /\ T \ {k} \in SUBSET R /\ Cardinality(T \ {k}) = n
    BY SmallerIs
  <2> DEFINE U == T \ {k}
  <2>2. TotalSize(S) = TotalSize(S \ U) + TotalSize(U)
    BY <1>3, <2>1
  <2>3. k \in S \ U /\ (S \ U) \ {k} = S \ T /\ S \ U \in SUBSET S
    BY <2>1
  <2>4. TotalSize(S \ U) = TotalSize(S \ T) + Size(k) /\ TotalSize(S \ T) \in Nat
    BY <1>1, <2>3
  <2>5. TotalSize(T) = TotalSize(U) + Size(k) /\ TotalSize(U) \in Nat /\ Size(k) \in Nat
    BY <1>1, <2>1
  <2> QED BY <2>2, <2>4, <2>5
<1>4. Cardinality(R) \in Nat
  BY SmallerIs
<1>5. Nat \subseteq G
  <2> HIDE DEF G
  <2> QED BY <1>2, <1>3, Induction
<1>6. TotalSize(S) = TotalSize(S \ R) + TotalSize(R)
  BY <1>4, <1>5
<1> QED BY <1>1, <1>6

\* Finitely many entries, their linear buffers accounted for.
AccountOK == IsFiniteSet(DOMAIN entries) /\ buffer_bytes = TotalSize(LinearKeys)

\* Entries given up, with their bytes.
LEMMA Less_Account ==
    ASSUME CacheInv, AccountOK, NEW S \in SUBSET DOMAIN entries, DOMAIN entries' = DOMAIN entries \ S,
           buffer_bytes' = buffer_bytes - TotalSize({k \in S : is_linear_buffer(k.layout)})
    PROVE  AccountOK'
<1> DEFINE R == {k \in S : is_linear_buffer(k.layout)}
<1>1. DOMAIN entries \in SUBSET Keys
  BY DEF CacheInv, EntriesOK, EntryOK
<1>2. LinearKeys \in SUBSET Keys /\ LinearKeys \in SUBSET DOMAIN entries /\ R \in SUBSET LinearKeys
  BY <1>1 DEF LinearKeys
<1>3. IsFiniteSet(LinearKeys) /\ IsFiniteSet(DOMAIN entries')
  BY <1>2, FS_Subset DEF AccountOK
<1>4. LinearKeys' = LinearKeys \ R
  BY DEF LinearKeys
<1> HIDE DEF R
<1>5. TotalSize(LinearKeys \ R) = TotalSize(LinearKeys) - TotalSize(R)
  BY <1>2, <1>3, TotalSizeMinus
<1> QED BY <1>3, <1>4, <1>5 DEF AccountOK, R

\* An entry added, with its bytes.
LEMMA More_Account ==
    ASSUME CacheInv, AccountOK, NEW k \in Keys, k \notin DOMAIN entries,
           DOMAIN entries' = DOMAIN entries \cup {k},
           buffer_bytes' = IF is_linear_buffer(k.layout) THEN buffer_bytes + Size(k) ELSE buffer_bytes
    PROVE  AccountOK'
<1>1. DOMAIN entries \in SUBSET Keys
  BY DEF CacheInv, EntriesOK, EntryOK
<1>2. IsFiniteSet(DOMAIN entries')
  BY FS_AddElement DEF AccountOK
<1>3. CASE is_linear_buffer(k.layout)
  <2>1. LinearKeys' = LinearKeys \cup {k} /\ LinearKeys' \ {k} = LinearKeys /\ k \in LinearKeys'
    BY <1>3 DEF LinearKeys
  <2>2. LinearKeys' \in SUBSET Keys /\ LinearKeys' \in SUBSET DOMAIN entries'
    BY <1>1 DEF LinearKeys
  <2>3. IsFiniteSet(LinearKeys')
    BY <1>2, <2>2, FS_Subset
  <2>4. TotalSize(LinearKeys') = TotalSize(LinearKeys) + Size(k)
    BY <2>1, <2>2, <2>3, TotalSizeLess
  <2> QED BY <1>2, <1>3, <2>4 DEF AccountOK
<1>4. CASE ~is_linear_buffer(k.layout)
  <2>1. LinearKeys' = LinearKeys
    BY <1>4 DEF LinearKeys
  <2> QED BY <1>2, <1>4, <2>1 DEF AccountOK
<1> QED BY <1>3, <1>4

\* Steps that add no entry and give none up.
LEMMA Same_Account ==
    ASSUME AccountOK, DOMAIN entries' = DOMAIN entries, buffer_bytes' = buffer_bytes
    PROVE  AccountOK'
BY DEF AccountOK, LinearKeys

\* What trim evicts are linear buffers.
LEMMA Evict_Account ==
    ASSUME CacheInv, AccountOK, NEW S \in Evictions, Trimmed(S), DOMAIN entries' = DOMAIN entries \ S
    PROVE  AccountOK'
<1>1. S \in SUBSET DOMAIN entries /\ \A k \in S : is_linear_buffer(k.layout)
  BY DEF Evictions, LinearKeys
<1>2. S = {k \in S : is_linear_buffer(k.layout)}
  BY <1>1
<1>3. buffer_bytes' = buffer_bytes - TotalSize({k \in S : is_linear_buffer(k.layout)})
  BY <1>2 DEF Trimmed
<1> QED BY <1>1, <1>3, Less_Account

LEMMA Hit_Account ==
    ASSUME CacheInv, AccountOK, NEW k \in Keys, Hit(k)
    PROVE  AccountOK'
<1>1. PICK S \in Evictions : Trimmed(S) /\ (CleanHit(k, S) \/ DirtyHit(k, S))
  BY DEF Hit
<1>2. DOMAIN entries' = DOMAIN Kept(S)
  BY <1>1 DEF CleanHit, DirtyHit
<1>3. DOMAIN Kept(S) = DOMAIN entries \ S
  BY WithoutIs DEF Kept
<1> QED BY <1>1, <1>2, <1>3, Evict_Account

LEMMA Fill_Account ==
    ASSUME CacheInv, AccountOK, NEW k \in Keys, Fill(k)
    PROVE  AccountOK'
<1>1. PICK S \in Evictions : Trimmed(S) /\ entries' = Kept(S)
  BY DEF Fill
<1>2. DOMAIN entries' = DOMAIN entries \ S
  BY <1>1, WithoutIs DEF Kept
<1> QED BY <1>1, <1>2, Evict_Account

LEMMA Insert_Account ==
    ASSUME CacheInv, DeliveryInv, AccountOK, Insert
    PROVE  AccountOK'
<1> DEFINE k == submit.key
<1>1. submit.pc = "fill"
  BY DEF Insert
<1>2. k \in Keys /\ k \notin DOMAIN entries
  BY <1>1 DEF CacheInv, FillOK, DeliveryInv, ChannelOK
<1>3. DOMAIN entries' = DOMAIN entries \cup {k}
  BY DEF Insert, With
<1>4. buffer_bytes' = IF is_linear_buffer(k.layout) THEN buffer_bytes + Size(k) ELSE buffer_bytes
  BY DEF Insert
<1> HIDE DEF k
<1> QED BY <1>2, <1>3, <1>4, More_Account

LEMMA GetRenderTarget_Account ==
    ASSUME CacheInv, AccountOK, NEW k \in Keys, GetRenderTarget(k)
    PROVE  AccountOK'
<1>1. ~is_linear_buffer(k.layout) /\ buffer_bytes' = buffer_bytes
  BY DEF GetRenderTarget, IsRt, is_linear_buffer
<1>2. CASE k \in DOMAIN entries
  <2>1. DOMAIN entries' = DOMAIN entries
    BY <1>2 DEF GetRenderTarget
  <2> QED BY <1>1, <2>1, Same_Account
<1>3. CASE k \notin DOMAIN entries
  <2>1. DOMAIN entries' = DOMAIN entries \cup {k}
    BY <1>3 DEF GetRenderTarget, With
  <2> QED BY <1>1, <1>3, <2>1, More_Account
<1> QED BY <1>2, <1>3

LEMMA NotifyFree_Account ==
    ASSUME CacheInv, AccountOK, NotifyFree
    PROVE  AccountOK'
<1> DEFINE freed == {k \in DOMAIN entries : ranges_overlap(k, PageCells(sink.page))}
<1>1. /\ DOMAIN entries' = DOMAIN entries \ freed
      /\ buffer_bytes' = buffer_bytes - TotalSize({k \in freed : is_linear_buffer(k.layout)})
  BY DEF NotifyFree, Without
<1>2. freed \in SUBSET DOMAIN entries
  OBVIOUS
<1> HIDE DEF freed
<1> QED BY <1>1, <1>2, Less_Account

\* With no list under way the backend holds what the cache does.
LEMMA Mirrored ==
    ASSUME CacheInv, DeliveryInv, AccountOK
    PROVE  BackendMirrorsCache
<1> SUFFICES ASSUME submit.pc = "idle", sink.pc \in {"idle", "unmapped"}
             PROVE  {id \in DOMAIN gpu : gpu[id].live /\ gpu[id].kind # "image"}
                      = {entries[k].id : k \in {j \in DOMAIN entries : KindOf(j) # "image"}}
  BY DEF BackendMirrorsCache, AccountOK
<1>1. <<>> \in Seq(Command) /\ Len(<<>>) = 0 /\ DOMAIN <<>> = {}
  BY EmptySeq
<1>2. SubmitList = <<>> /\ SinkList = <<>> /\ SinkIds = {} /\ Current = Held(entries)
  BY <1>1 DEF SubmitList, SinkList, SinkIds, Current, DeliveryInv, ChannelOK
<1>3. Consistent(gpu, <<>>, Held(entries), {}, next_id, mem)
  BY <1>2 DEF DeliveryInv
<1>4. \A e \in Held(entries) : Live(gpu, e.id) /\ gpu[e.id].kind = KindOf(e.key)
  <2> SUFFICES ASSUME NEW e \in Held(entries) PROVE Live(gpu, e.id) /\ gpu[e.id].kind = KindOf(e.key)
    OBVIOUS
  <2>1. ResourceOK(gpu, <<>>, e, mem)
    BY <1>3 DEF Consistent
  <2> QED BY <1>1, <2>1 DEF ResourceOK, Stands
<1>5. \A k \in DOMAIN entries : /\ Live(gpu, entries[k].id) /\ gpu[entries[k].id].kind = KindOf(k)
  <2>1. \A k \in DOMAIN entries : /\ RecordOf(entries, k) \in Held(entries) /\ RecordOf(entries, k).key = k
                                  /\ RecordOf(entries, k).id = entries[k].id
    BY DEF Held, RecordOf
  <2> QED BY <1>4, <2>1
<1>6. \A id \in DOMAIN gpu : gpu[id].live /\ gpu[id].kind # "image" => \E k \in DOMAIN entries : entries[k].id = id
  <2> SUFFICES ASSUME NEW id \in DOMAIN gpu, gpu[id].live, gpu[id].kind # "image"
               PROVE  \E k \in DOMAIN entries : entries[k].id = id
    OBVIOUS
  <2>1. Owned(<<>>, Held(entries), {}, id)
    BY <1>3 DEF Consistent, NoLeak
  <2>2. PICK e \in Held(entries) : e.id = id
    BY <1>1, <2>1 DEF Owned
  <2> QED BY <2>2 DEF Held, RecordOf
<1> QED BY <1>5, <1>6 DEF Live

\* With no list under way the backend holds the cached buffers and render
\* targets and no others, and buffer_bytes is the sum of their sizes.
THEOREM BackendMirror ==
    ASSUME WholeUnmaps, ~RacyFill
    PROVE  CacheSpec => []BackendMirrorsCache
<1>1. CacheInit => AccountOK
  <2> SUFFICES ASSUME CacheInit PROVE AccountOK
    OBVIOUS
  <2>1. DOMAIN entries = {} /\ buffer_bytes = 0
    BY DEF CacheInit
  <2>2. LinearKeys = {} /\ TotalSize({}) = 0
    BY <2>1, FS_EmptySet, TotalSizeUnfolds DEF LinearKeys
  <2> QED BY <2>1, <2>2, FS_EmptySet DEF AccountOK
<1>2. CacheInv /\ DeliveryInv /\ AccountOK /\ [CacheNext]_resourceVars => AccountOK'
  <2> SUFFICES ASSUME CacheInv, DeliveryInv, AccountOK, [CacheNext]_resourceVars PROVE AccountOK'
    OBVIOUS
  <2>1. ASSUME UNCHANGED <<entries, buffer_bytes>> PROVE AccountOK'
    BY <2>1, Same_Account
  <2>2. ASSUME NEW c \in Cells, GuestWrite(c) PROVE AccountOK'
    BY <2>1, <2>2 DEF GuestWrite, cacheVars
  <2>3. ASSUME NEW p \in UnmapPages, Map(p) \/ Munmap(p) PROVE AccountOK'
    BY <2>1, <2>3 DEF Map, Munmap, cacheVars
  <2>4. ASSUME NEW p \in AcquirePages, AcquireMem(p) PROVE AccountOK'
    BY <2>4, Same_Account DEF AcquireMem, apply_dirty
  <2>5. ASSUME NEW k \in Keys, Hit(k) \/ Fill(k) \/ GetRenderTarget(k) PROVE AccountOK'
    BY <2>5, Hit_Account, Fill_Account, GetRenderTarget_Account
  <2>6. CASE Submit
    BY <2>6, Same_Account DEF Submit, apply_dirty
  <2>7. CASE Insert
    BY <2>7, Insert_Account
  <2>8. CASE Flip \/ Ship \/ SubmitEnd \/ SendFrees \/ Replay
    BY <2>1, <2>8 DEF Flip, Ship, SubmitEnd, SendFrees, Replay, cacheVars
  <2>9. CASE NotifyFree
    BY <2>9, NotifyFree_Account
  <2>10. CASE UNCHANGED resourceVars
    BY <2>1, <2>10 DEF resourceVars, cacheVars
  <2> QED BY <2>2, <2>3, <2>4, <2>5, <2>6, <2>7, <2>8, <2>9, <2>10 DEF CacheNext
<1>3. CacheInv /\ DeliveryInv /\ AccountOK => BackendMirrorsCache
  BY Mirrored
<1> QED BY <1>1, <1>2, <1>3, CacheInvariance, Delivery, PTL DEF CacheSpec

----------------------------------------------------------------------------
(***************************************************************************)
(* The recompiled shaders of DrawExec, for any shaders, binaries, targets  *)
(* and bounds, and a guest that leaves code alone while it is recompiled.  *)
(* An entry is found by the header's hash and watched where it was read;   *)
(* a hit may be for another address.  What makes it right is that an entry *)
(* differs from the code at its own address only while that is in the      *)
(* dirty set (EntriesCurrent), which a submit empties after it dropped     *)
(* those entries, and that a recompile under way has read what is still    *)
(* there when the watch begins (ReadingCurrent).                           *)
(***************************************************************************)
CodeTypeOK ==
    /\ code \in [Shaders -> Binaries]
    /\ regs.shader \in Shaders
    /\ {"shader", "target", "texture"} \subseteq DOMAIN regs

\* The code at address a is w, under the header h.
Holds(a, h, w) == a \in Shaders /\ code[a].hash = h /\ code[a].words = w

ReadingCurrent == \A r \in reading : Holds(r.addr, r.hash, r.words)

EntriesCurrent ==
    \A h \in DOMAIN shader_cache :
        /\ shader_cache[h].addr \in Shaders \cap code_watched
        /\ shader_cache[h].addr \in code_dirty \/ Holds(shader_cache[h].addr, h, shader_cache[h].words)

CodeInv == CodeTypeOK /\ ReadingCurrent /\ EntriesCurrent

\* A store into code, with its header or without: entries over it are dirty,
\* and nothing of it is being recompiled.
LEMMA StoreCode_Code ==
    ASSUME ~RacyCode, CodeInv, NEW s \in Shaders, NEW b \in Binaries, StoreCode(s, b)
    PROVE  CodeInv'
<1>1. /\ code' \in [Shaders -> Binaries]
      /\ \A q \in Shaders \ {s} : code'[q] = code[q]
      /\ \A r \in reading : r.addr # s
  BY DEF StoreCode, CodeInv, CodeTypeOK
<1>2. /\ code_dirty' = IF s \in code_watched THEN code_dirty \cup {s} ELSE code_dirty
      /\ UNCHANGED <<regs, shader_cache, code_watched, reading>>
  BY DEF StoreCode, execVars
<1>3. CodeTypeOK'
  BY <1>1, <1>2 DEF CodeInv, CodeTypeOK
<1>4. ReadingCurrent'
  BY <1>1, <1>2 DEF CodeInv, ReadingCurrent, Holds
<1>5. EntriesCurrent'
  BY <1>1, <1>2 DEF CodeInv, EntriesCurrent, Holds
<1> QED BY <1>3, <1>4, <1>5 DEF CodeInv

\* A submit drops the entries over dirty code before it forgets what is dirty.
LEMMA BeginSubmit_Code ==
    ASSUME CodeInv, BeginSubmit
    PROVE  CodeInv'
<1>1. /\ code_dirty' = {} /\ UNCHANGED <<code, code_watched, reading, regs>>
      /\ DOMAIN shader_cache' = {h \in DOMAIN shader_cache : shader_cache[h].addr \notin code_dirty}
      /\ \A h \in DOMAIN shader_cache' : shader_cache'[h] = shader_cache[h]
  BY DEF BeginSubmit, shader_apply_dirty
<1>2. CodeTypeOK' /\ ReadingCurrent'
  BY <1>1 DEF CodeInv, CodeTypeOK, ReadingCurrent, Holds
<1>3. EntriesCurrent'
  BY <1>1 DEF CodeInv, EntriesCurrent, Holds
<1> QED BY <1>2, <1>3 DEF CodeInv

\* A miss reads what memory holds.
LEMMA ReadCode_Code ==
    ASSUME CodeInv, ReadCode
    PROVE  CodeInv'
<1>1. /\ reading' = {[addr |-> regs.shader, hash |-> code[regs.shader].hash, words |-> code[regs.shader].words]}
      /\ UNCHANGED <<regs, shader_cache, code, code_watched, code_dirty>>
  BY DEF ReadCode, execVars
<1>2. CodeTypeOK' /\ EntriesCurrent'
  BY <1>1 DEF CodeInv, CodeTypeOK, EntriesCurrent, Holds
<1>3. ReadingCurrent'
  BY <1>1 DEF CodeInv, CodeTypeOK, ReadingCurrent, Holds
<1> QED BY <1>2, <1>3 DEF CodeInv

\* A draw is served an entry, or makes one of what was read, or defers and
\* forgets that.
LEMMA DispatchDraw_Code ==
    ASSUME CodeInv, NEW fault \in Faults, DispatchDraw(fault)
    PROVE  CodeInv'
<1>1. UNCHANGED <<regs, code, code_dirty>>
  BY DEF DispatchDraw
<1>2. DropShader \/ HitShader(regs.shader) \/ InsertShader
  BY DEF DispatchDraw, DeferEarly, DeferDescriptor, Complete, ResolveShader
<1>3. CodeTypeOK'
  BY <1>1 DEF CodeInv, CodeTypeOK
<1>4. CASE DropShader \/ HitShader(regs.shader)
  <2>1. UNCHANGED <<shader_cache, code_watched>> /\ reading' \subseteq reading
    BY <1>4 DEF DropShader, HitShader
  <2> QED BY <1>1, <1>3, <2>1 DEF CodeInv, ReadingCurrent, EntriesCurrent, Holds
<1>5. CASE InsertShader
  <2>1. PICK r \in reading : /\ code_watched' = code_watched \cup {r.addr}
                             /\ shader_cache' = Put(shader_cache, r.hash, [addr |-> r.addr, words |-> r.words])
    BY <1>5 DEF InsertShader
  <2>2. ReadingCurrent'
    BY <1>5 DEF InsertShader, ReadingCurrent
  <2>3. Holds(r.addr, r.hash, r.words)
    BY DEF CodeInv, ReadingCurrent
  <2>4. /\ DOMAIN shader_cache' = DOMAIN shader_cache \cup {r.hash}
        /\ shader_cache'[r.hash].addr = r.addr /\ shader_cache'[r.hash].words = r.words
        /\ \A h \in DOMAIN shader_cache' \ {r.hash} : shader_cache'[h] = shader_cache[h]
    BY <2>1 DEF Put
  <2>5. EntriesCurrent'
    BY <1>1, <2>1, <2>3, <2>4 DEF CodeInv, EntriesCurrent, Holds
  <2> QED BY <1>3, <2>2, <2>5 DEF CodeInv
<1> QED BY <1>2, <1>4, <1>5

\* The remaining steps leave code and cache alone.
LEMMA Others_Code ==
    ASSUME CodeInv,
           \/ \E s \in Shaders : SetReg("shader", s)
           \/ \E t \in Bases \cup {Screen} : SetReg("target", t)
           \/ \E t \in Bases \cup {NoTexture} : SetReg("texture", t)
           \/ \E b \in Bases : FreeTarget(b)
           \/ ShipList \/ SubmitFlip
           \/ UNCHANGED drawVars
    PROVE  CodeInv'
<1>1. UNCHANGED <<code, code_watched, code_dirty, reading, shader_cache>>
  BY DEF SetReg, FreeTarget, ShipList, SubmitFlip, drawVars, execVars, codeVars
<1>2. regs'.shader \in Shaders /\ {"shader", "target", "texture"} \subseteq DOMAIN regs'
  BY DEF CodeInv, CodeTypeOK, SetReg, FreeTarget, ShipList, SubmitFlip, drawVars, execVars
<1>3. CodeTypeOK'
  BY <1>1, <1>2 DEF CodeInv, CodeTypeOK
<1> QED BY <1>1, <1>3 DEF CodeInv, ReadingCurrent, EntriesCurrent, Holds

\* A hit of the shader cache serves the code memory holds, at whichever of
\* the addresses with its header it is asked for, if those agree: for any
\* number of shaders, binaries, stores and submits of a guest that leaves
\* code alone while it is recompiled.
THEOREM ShadersCurrent ==
    ASSUME ~RacyCode
    PROVE  DrawSpec => []ResolvedShaderIsCurrent
<1>1. DrawInit => CodeInv
  BY DEF DrawInit, CodeInv, CodeTypeOK, ReadingCurrent, EntriesCurrent
<1>2. CodeInv /\ [DrawNext]_drawVars => CodeInv'
  BY StoreCode_Code, BeginSubmit_Code, ReadCode_Code, DispatchDraw_Code, Others_Code DEF DrawNext
<1>3. CodeInv => ResolvedShaderIsCurrent
  <2> SUFFICES ASSUME CodeInv, code_dirty = {}, NEW s \in Shaders,
                      code[s].hash \in DOMAIN shader_cache, Agree(code[s].hash)
               PROVE  shader_cache[code[s].hash].words = code[s].words
    BY DEF ResolvedShaderIsCurrent
  <2> DEFINE h == code[s].hash
             a == shader_cache[h].addr
  <2>1. Holds(a, h, shader_cache[h].words)
    BY DEF CodeInv, EntriesCurrent
  <2> QED BY <2>1 DEF Holds, Agree
<1> QED BY <1>1, <1>2, <1>3, PTL DEF DrawSpec
----------------------------------------------------------------------------
(***************************************************************************)
(* The videoout image of DrawExec.  What a list leaves on it is the        *)
(* outcome of two walks, over its commands and then over the passes they   *)
(* made; the claim about the second (PassesShown) holds after any number   *)
(* of passes, so it is carried along both by induction.  A frame whose     *)
(* clear is not through has no finished draw (FrameInv): that is what lets *)
(* a timeout take the clear back.                                          *)
(***************************************************************************)
\* A sequence, of anything; and a list of commands the walk knows.
IsList(s) == \E S : s \in Seq(S)
CmdOps == {"create_pipeline", "bind_pipeline", "create_rt", "set_rt", "bind_texture", "draw"}
IsCmds(L) == \E S : L \in Seq(S) /\ \A c \in S : c.op \in CmdOps

\* Lists of commands are joined.
LEMMA CmdsJoin ==
    ASSUME NEW L, NEW M, IsCmds(L), IsCmds(M)
    PROVE  IsCmds(L \o M)
<1>1. PICK S : L \in Seq(S) /\ \A c \in S : c.op \in CmdOps
  BY DEF IsCmds
<1>2. PICK T : M \in Seq(T) /\ \A c \in T : c.op \in CmdOps
  BY DEF IsCmds
<1>3. L \in Seq(S \cup T) /\ M \in Seq(S \cup T)
  BY <1>1, <1>2
<1>4. L \o M \in Seq(S \cup T)
  BY <1>3
<1> QED BY <1>1, <1>2, <1>4 DEF IsCmds

\* Any sequence of known commands.
LEMMA CmdsOf ==
    ASSUME NEW S, \A c \in S : c.op \in CmdOps, NEW L \in Seq(S)
    PROVE  IsCmds(L)
  BY DEF IsCmds

\* One command is a list of them, and so is none.
LEMMA CmdsOne ==
    /\ IsCmds(<<>>)
    /\ \A c : c.op \in CmdOps => IsCmds(<<c>>)
<1>1. IsCmds(<<>>)
  <2>1. <<>> \in Seq({})
    OBVIOUS
  <2> QED BY <2>1, CmdsOf
<1>2. ASSUME NEW c, c.op \in CmdOps PROVE IsCmds(<<c>>)
  <2>1. <<c>> \in Seq({c})
    OBVIOUS
  <2>2. \A d \in {c} : d.op \in CmdOps
    BY <1>2
  <2> QED BY <2>1, <2>2, CmdsOf
<1> QED BY <1>1, <1>2

\* What setup_draw puts in a list.
LEMMA SetupIsCmds ==
    /\ IsCmds(TargetCmds(regs.target))
    /\ IsCmds(SetupCmds)
    /\ IsCmds(SetupCmds \o <<DrawCmd(Want)>>)
<1> DEFINE key == PipelineKey(regs.shader, regs.texture)
           c == WithTarget(regs.target)
<1>1. ASSUME NEW x PROVE IsCmds(<<SetRenderTarget(x)>>) /\ IsCmds(<<CreateRenderTarget(x)>>)
                         /\ IsCmds(<<BindPipeline(x)>>) /\ IsCmds(<<BindTexture(x)>>) /\ IsCmds(<<DrawCmd(x)>>)
  <2>1. /\ SetRenderTarget(x).op \in CmdOps /\ CreateRenderTarget(x).op \in CmdOps
        /\ BindPipeline(x).op \in CmdOps /\ BindTexture(x).op \in CmdOps /\ DrawCmd(x).op \in CmdOps
    BY DEF SetRenderTarget, CreateRenderTarget, BindPipeline, BindTexture, DrawCmd, CmdOps
  <2> QED BY <2>1, CmdsOne
<1>2. ASSUME NEW x, NEW y PROVE IsCmds(<<CreatePipeline(x, y)>>)
  <2>1. CreatePipeline(x, y).op \in CmdOps
    BY DEF CreatePipeline, CmdOps
  <2> QED BY <2>1, CmdsOne
<1>3. ASSUME NEW d, NEW b PROVE IsCmds(RtCmds(d, b))
  BY <1>1, CmdsOne DEF RtCmds
<1>4. IsCmds(TargetCmds(regs.target))
  BY <1>1, <1>3, CmdsOne, CmdsJoin DEF TargetCmds
<1>5. IsCmds(PipelineCmds(key, Resolved(regs.shader)))
  <2> HIDE DEF key
  <2> QED BY <1>1, <1>2, CmdsOne, CmdsJoin DEF PipelineCmds
<1>6. IsCmds(TextureCmds(c, regs.texture))
  <2> HIDE DEF c
  <2> QED BY <1>1, <1>3, CmdsOne, CmdsJoin DEF TextureCmds
<1>7. IsCmds(SetupCmds)
  <2>1. IsCmds(TargetCmds(regs.target) \o PipelineCmds(key, Resolved(regs.shader)))
    BY <1>4, <1>5, CmdsJoin
  <2> QED BY <1>6, <2>1, CmdsJoin DEF SetupCmds
<1>8. IsCmds(SetupCmds \o <<DrawCmd(Want)>>)
  BY <1>1, <1>7, CmdsJoin
<1> QED BY <1>4, <1>7, <1>8

\* f is the walk after each of the first n commands of list L.
Walks(f, L, n) == f = [i \in 0..n |-> IF i = 0 THEN WalkBegin ELSE WalkStep(f[i - 1], L[i])]

\* The recursion that defines Walked has a solution, by induction.
LEMMA WalkedWalks ==
    ASSUME NEW L, Len(L) \in Nat
    PROVE  \E f : Walks(f, L, Len(L)) /\ Walked(L) = f[Len(L)]
<1> DEFINE S == {m \in Nat : \E f : Walks(f, L, m)}
<1>1. 0 \in S
  <2>1. Walks([i \in 0..0 |-> WalkBegin], L, 0)
    BY DEF Walks
  <2> QED BY <2>1
<1>2. ASSUME NEW m \in Nat, m \in S PROVE m + 1 \in S
  <2>1. PICK f : Walks(f, L, m)
    BY <1>2
  <2> DEFINE h == [i \in 0..m + 1 |-> IF i = m + 1 THEN WalkStep(f[m], L[m + 1]) ELSE f[i]]
  <2>2. \A i \in 0..m : f[i] = IF i = 0 THEN WalkBegin ELSE WalkStep(f[i - 1], L[i])
    BY <2>1 DEF Walks
  <2>3. ASSUME NEW i \in 0..m + 1 PROVE h[i] = IF i = 0 THEN WalkBegin ELSE WalkStep(h[i - 1], L[i])
    <3>1. CASE i = m + 1
      <4>1. h[i - 1] = f[m] /\ h[i] = WalkStep(f[m], L[i])
        BY <3>1
      <4> QED BY <3>1, <4>1
    <3>2. CASE i # m + 1 /\ i # 0
      <4>1. h[i - 1] = f[i - 1] /\ h[i] = f[i] /\ i \in 0..m
        BY <3>2
      <4> QED BY <2>2, <3>2, <4>1
    <3>3. CASE i = 0
      BY <2>2, <3>3
    <3> QED BY <3>1, <3>2, <3>3
  <2>4. Walks(h, L, m + 1)
    BY <2>3 DEF Walks
  <2> QED BY <2>4
<1>3. Len(L) \in S
  <2>1. Nat \subseteq S
    <3> HIDE DEF S
    <3> QED BY <1>1, <1>2, Induction
  <2> QED BY <2>1
<1> DEFINE r == CHOOSE f : Walks(f, L, Len(L))
<1>4. Walks(r, L, Len(L))
  BY <1>3
<1>5. Walked(L) = r[Len(L)]
  BY Zenon DEF Walked, Walks
<1> QED BY <1>4, <1>5

\* The state of a walk, with the passes it has made in a sequence.
IsWalk(w) ==
    /\ w = [pipelines |-> w.pipelines, rts |-> w.rts, bound |-> w.bound, texture |-> w.texture,
            rt |-> w.rt, passes |-> w.passes]
    /\ IsList(w.passes)

\* A pass more is still a sequence.
LEMMA ListGrows ==
    ASSUME NEW s, NEW e, IsList(s)
    PROVE  IsList(Append(s, e))
<1>1. PICK S : s \in Seq(S)
  BY DEF IsList
<1>2. s \in Seq(S \cup {e})
  BY <1>1
<1>3. Append(s, e) \in Seq(S \cup {e})
  BY <1>2
<1> QED BY <1>3 DEF IsList

\* Every command leaves a walk behind.
LEMMA WalkSteps ==
    ASSUME NEW w, IsWalk(w), NEW cmd, cmd.op \in CmdOps
    PROVE  IsWalk(WalkStep(w, cmd))
<1>1. CASE cmd.op \in {"create_pipeline", "bind_pipeline"}
  <2>1. WalkStep(w, cmd) = WalkPipeline(w, cmd)
    BY <1>1 DEF WalkStep
  <2> QED BY <2>1 DEF WalkPipeline, IsWalk
<1>2. CASE cmd.op \in {"create_rt", "set_rt"}
  <2>1. WalkStep(w, cmd) = WalkTarget(w, cmd)
    BY <1>2 DEF WalkStep
  <2> QED BY <2>1 DEF WalkTarget, IsWalk
<1>3. CASE cmd.op = "bind_texture"
  <2>1. WalkStep(w, cmd) = WalkTexture(w, cmd)
    BY <1>3 DEF WalkStep
  <2> QED BY <2>1 DEF WalkTexture, IsWalk
<1>4. CASE cmd.op = "draw"
  <2>1. WalkStep(w, cmd) = WalkDraw(w, cmd)
    BY <1>4 DEF WalkStep
  <2> DEFINE p == IF draw_guards_ok(w) THEN Append(w.passes, PassOf(w, cmd)) ELSE w.passes
  <2>2. IsList(p)
    BY ListGrows DEF IsWalk
  <2>3. WalkDraw(w, cmd) = [w EXCEPT !.texture = {}, !.rt = {}, !.passes = p]
    BY DEF WalkDraw, IsWalk
  <2> HIDE DEF p
  <2> QED BY <2>1, <2>2, <2>3 DEF IsWalk
<1> QED BY <1>1, <1>2, <1>3, <1>4 DEF CmdOps

\* The passes of a list are a sequence.
LEMMA WalkedIsWalk ==
    ASSUME NEW L, IsCmds(L)
    PROVE  IsWalk(Walked(L))
<1>1. PICK S : L \in Seq(S) /\ \A c \in S : c.op \in CmdOps
  BY DEF IsCmds
<1>2. Len(L) \in Nat /\ \A i \in 1..Len(L) : L[i].op \in CmdOps
  BY <1>1
<1> DEFINE n == Len(L)
<1>3. PICK f : Walks(f, L, n) /\ Walked(L) = f[n]
  BY <1>2, WalkedWalks
<1> HIDE DEF n
<1>4. n \in Nat /\ \A i \in 1..n : L[i].op \in CmdOps
  BY <1>2 DEF n
<1>5. \A i \in 0..n : f[i] = IF i = 0 THEN WalkBegin ELSE WalkStep(f[i - 1], L[i])
  BY <1>3 DEF Walks
<1> DEFINE T == {i \in Nat : i <= n => IsWalk(f[i])}
<1>6. 0 \in T
  <2>1. <<>> \in Seq({})
    OBVIOUS
  <2>2. IsWalk(WalkBegin)
    BY <2>1 DEF IsWalk, WalkBegin, IsList
  <2>3. f[0] = WalkBegin
    BY <1>4, <1>5
  <2> QED BY <2>2, <2>3
<1>7. ASSUME NEW i \in Nat, i \in T PROVE i + 1 \in T
  <2> SUFFICES ASSUME i + 1 <= n PROVE IsWalk(f[i + 1])
    OBVIOUS
  <2>1. IsWalk(f[i]) /\ L[i + 1].op \in CmdOps
    BY <1>4, <1>7
  <2>2. f[i + 1] = WalkStep(f[i], L[i + 1])
    BY <1>4, <1>5
  <2> QED BY <2>1, <2>2, WalkSteps
<1>8. n \in T
  <2> HIDE DEF T
  <2> QED BY <1>4, <1>6, <1>7, Induction
<1> QED BY <1>3, <1>4, <1>8

\* f is the recording after each of the first n passes of walk w.
Records(f, w, n) == f = [i \in 0..n |-> IF i = 0 THEN RecordBegin(w) ELSE RecordPass(f[i - 1], w.passes[i])]

\* The recursion that defines Recorded has a solution, by induction.
LEMMA RecordedRecords ==
    ASSUME NEW w, Len(w.passes) \in Nat
    PROVE  \E f : Records(f, w, Len(w.passes)) /\ Recorded(w) = f[Len(w.passes)]
<1> DEFINE S == {m \in Nat : \E f : Records(f, w, m)}
           L == w.passes
<1>1. 0 \in S
  <2>1. Records([i \in 0..0 |-> RecordBegin(w)], w, 0)
    BY DEF Records
  <2> QED BY <2>1
<1>2. ASSUME NEW m \in Nat, m \in S PROVE m + 1 \in S
  <2>1. PICK f : Records(f, w, m)
    BY <1>2
  <2> DEFINE h == [i \in 0..m + 1 |-> IF i = m + 1 THEN RecordPass(f[m], L[m + 1]) ELSE f[i]]
  <2>2. \A i \in 0..m : f[i] = IF i = 0 THEN RecordBegin(w) ELSE RecordPass(f[i - 1], L[i])
    BY <2>1 DEF Records
  <2>3. ASSUME NEW i \in 0..m + 1 PROVE h[i] = IF i = 0 THEN RecordBegin(w) ELSE RecordPass(h[i - 1], L[i])
    <3> HIDE DEF L
    <3>1. CASE i = m + 1
      <4>1. h[i - 1] = f[m] /\ h[i] = RecordPass(f[m], L[i])
        BY <3>1
      <4> QED BY <3>1, <4>1
    <3>2. CASE i # m + 1 /\ i # 0
      <4>1. h[i - 1] = f[i - 1] /\ h[i] = f[i] /\ i \in 0..m
        BY <3>2
      <4> QED BY <2>2, <3>2, <4>1
    <3>3. CASE i = 0
      BY <2>2, <3>3
    <3> QED BY <3>1, <3>2, <3>3
  <2>4. Records(h, w, m + 1)
    BY <2>3 DEF Records
  <2> QED BY <2>4
<1>3. Len(L) \in S
  <2>1. Nat \subseteq S
    <3> HIDE DEF S
    <3> QED BY <1>1, <1>2, Induction
  <2> QED BY <2>1
<1> DEFINE r == CHOOSE f : Records(f, w, Len(L))
<1>4. Records(r, w, Len(L))
  BY <1>3
<1>5. Recorded(w) = r[Len(L)]
  BY Zenon DEF Recorded, Records
<1> QED BY <1>4, <1>5

\* What is true of a recording after any number of its passes: with the clear
\* done the image shows what was finished before and what this list drew,
\* all of this frame; with nothing drawn on it the image is untouched.
PassesShown(r) ==
    /\ r = [image |-> r.image, latch |-> r.latch, rts |-> r.rts, onscreen |-> r.onscreen, touched |-> r.touched]
    /\ r.latch => finished \cup r.onscreen \subseteq r.image /\ \A d \in r.image : d.frame = frame
    /\ ~r.latch => finished \cup r.onscreen = {}
    /\ latch => r.latch
    /\ r.onscreen = {} => r.image = image /\ r.latch = latch

\* Every pass keeps it.
LEMMA PassRecorded ==
    ASSUME NEW r, PassesShown(r), NEW pass
    PROVE  PassesShown(RecordPass(r, pass))
<1>1. CASE pass.target = {}
  <2> DEFINE shown == [n |-> pass.want.n, frame |-> frame]
             s == RecordScreen(r, pass)
  <2>1. s = [r EXCEPT !.image = IF r.latch THEN r.image \cup {shown} ELSE {shown},
                      !.latch = TRUE, !.onscreen = r.onscreen \cup {shown}]
    BY DEF RecordScreen, PassesShown
  <2>2. shown.frame = frame
    OBVIOUS
  <2> HIDE DEF shown, s
  <2>3. /\ s.image = IF r.latch THEN r.image \cup {shown} ELSE {shown}
        /\ s.latch = TRUE /\ s.onscreen = r.onscreen \cup {shown}
        /\ s = [image |-> s.image, latch |-> s.latch, rts |-> s.rts, onscreen |-> s.onscreen, touched |-> s.touched]
    BY <2>1 DEF PassesShown
  <2>4. PassesShown(s)
    BY <2>2, <2>3 DEF PassesShown
  <2> QED BY <1>1, <2>4 DEF RecordPass, s
<1>2. CASE pass.target # {}
  <2> DEFINE s == RecordTarget(r, pass)
  <2>1. /\ s.image = r.image /\ s.latch = r.latch /\ s.onscreen = r.onscreen
        /\ s = [image |-> s.image, latch |-> s.latch, rts |-> s.rts, onscreen |-> s.onscreen, touched |-> s.touched]
    BY DEF RecordTarget, PassesShown
  <2> HIDE DEF s
  <2>2. PassesShown(s)
    BY <2>1 DEF PassesShown
  <2> QED BY <1>2, <2>2 DEF RecordPass, s
<1> QED BY <1>1, <1>2

\* A frame whose clear is not through has finished nothing.
FrameInv ==
    /\ FrameIsItsDraws
    /\ ~latch => finished = {}
    /\ {"open", "list"} \subseteq DOMAIN submission
    /\ IsCmds(submission.list)

\* So it is true of the whole recording.
LEMMA RecordedShown ==
    ASSUME FrameInv, NEW w, IsWalk(w)
    PROVE  PassesShown(Recorded(w))
<1> DEFINE n == Len(w.passes)
<1>1. n \in Nat
  BY DEF IsWalk, IsList
<1>2. PICK f : Records(f, w, n) /\ Recorded(w) = f[n]
  BY <1>1, RecordedRecords
<1> HIDE DEF n
<1>3. \A i \in 0..n : f[i] = IF i = 0 THEN RecordBegin(w) ELSE RecordPass(f[i - 1], w.passes[i])
  BY <1>2 DEF Records
<1> DEFINE T == {i \in Nat : i <= n => PassesShown(f[i])}
<1>4. 0 \in T
  <2>1. PassesShown(RecordBegin(w))
    BY DEF FrameInv, FrameIsItsDraws, PassesShown, RecordBegin
  <2>2. f[0] = RecordBegin(w)
    BY <1>1, <1>3
  <2> QED BY <2>1, <2>2
<1>5. ASSUME NEW i \in Nat, i \in T PROVE i + 1 \in T
  <2> SUFFICES ASSUME i + 1 <= n PROVE PassesShown(f[i + 1])
    OBVIOUS
  <2>1. PassesShown(f[i])
    BY <1>1, <1>5
  <2>2. f[i + 1] = RecordPass(f[i], w.passes[i + 1])
    BY <1>1, <1>3
  <2> QED BY <2>1, <2>2, PassRecorded
<1>6. n \in T
  <2> HIDE DEF T
  <2> QED BY <1>1, <1>4, <1>5, Induction
<1> QED BY <1>1, <1>2, <1>6

\* The list is executed, or times out and takes back a clear it made.
LEMMA ShipList_Frame ==
    ASSUME FrameInv, ShipList
    PROVE  FrameInv'
<1> DEFINE w == Walked(submission.list)
           r == Recorded(w)
<1>1. PassesShown(r)
  <2>1. IsWalk(w)
    BY WalkedIsWalk DEF FrameInv
  <2> HIDE DEF w
  <2> QED BY <2>1, RecordedShown
<1>2. (Executed(r) \/ TimedOut(r)) /\ frame' = frame
  BY DEF ShipList, Replays
<1>3. {"open", "list"} \subseteq DOMAIN submission' /\ IsCmds(submission'.list)
  BY CmdsOne DEF ShipList, NoSubmit
<1> HIDE DEF r, w
<1>4. CASE Executed(r)
  <2>1. FrameIsItsDraws' /\ (~latch => finished = {})'
    BY <1>1, <1>2, <1>4 DEF Executed, PassesShown, FrameIsItsDraws
  <2> QED BY <1>3, <2>1 DEF FrameInv
<1>5. CASE TimedOut(r)
  <2>1. /\ image' \in {image, r.image} /\ finished' = finished
        /\ latch' = IF r.onscreen # {} /\ ~latch THEN FALSE ELSE r.latch
    BY <1>5 DEF TimedOut, LatchAfterTimeout
  <2>2. CASE r.onscreen # {} /\ ~latch
    <3>1. ~latch' /\ finished' = {}
      BY <2>1, <2>2 DEF FrameInv
    <3> QED BY <1>3, <3>1 DEF FrameInv, FrameIsItsDraws
  <2>3. CASE r.onscreen = {}
    <3>1. image' = image /\ latch' = latch
      BY <1>1, <2>1, <2>3 DEF PassesShown
    <3>2. FrameIsItsDraws' /\ (~latch => finished = {})'
      <4>1. CASE latch
        BY <1>2, <2>1, <3>1, <4>1 DEF FrameInv, FrameIsItsDraws
      <4>2. CASE ~latch
        <5>1. ~latch'
          BY <3>1, <4>2, Zenon
        <5>2. finished' = {}
          BY <2>1, <4>2 DEF FrameInv
        <5> QED BY <5>1, <5>2 DEF FrameIsItsDraws
      <4> QED BY <4>1, <4>2
    <3> QED BY <1>3, <3>2 DEF FrameInv
  <2>4. CASE r.onscreen # {} /\ latch
    <3>1. r.latch /\ latch'
      BY <1>1, <2>1, <2>4 DEF PassesShown
    <3>2. finished \subseteq image /\ \A d \in image : d.frame = frame
      BY <2>4 DEF FrameInv, FrameIsItsDraws
    <3>3. finished \subseteq r.image /\ \A d \in r.image : d.frame = frame
      BY <1>1, <3>1 DEF PassesShown
    <3>4. FrameIsItsDraws'
      BY <1>2, <2>1, <3>2, <3>3 DEF FrameIsItsDraws
    <3> QED BY <1>3, <3>1, <3>4 DEF FrameInv
  <2> QED BY <2>2, <2>3, <2>4
<1> QED BY <1>2, <1>4, <1>5

\* The other steps of the executor: they change the list, or nothing here.
LEMMA Others_Frame ==
    ASSUME FrameInv,
           \/ \E s \in Shaders : SetReg("shader", s) \/ \E b \in Binaries : StoreCode(s, b)
           \/ ReadCode
           \/ \E t \in Bases \cup {Screen} : SetReg("target", t)
           \/ \E t \in Bases \cup {NoTexture} : SetReg("texture", t)
           \/ \E f \in Faults : DispatchDraw(f)
           \/ \E b \in Bases : FreeTarget(b)
           \/ BeginSubmit
           \/ UNCHANGED drawVars
    PROVE  FrameInv'
<1>1. UNCHANGED screenVars
  BY DEF StoreCode, ReadCode, SetReg, DispatchDraw, FreeTarget, BeginSubmit, drawVars
<1>2. {"open", "list"} \subseteq DOMAIN submission' /\ IsCmds(submission'.list)
  <2>1. CASE submission' = submission
    BY <2>1 DEF FrameInv
  <2>2. CASE BeginSubmit
    BY <2>2, CmdsOne DEF BeginSubmit
  <2>3. ASSUME NEW f \in Faults, DispatchDraw(f) PROVE {"open", "list"} \subseteq DOMAIN submission' /\ IsCmds(submission'.list)
    <3>1. \/ UNCHANGED submission
          \/ \E cmds \in {TargetCmds(regs.target), SetupCmds, SetupCmds \o <<DrawCmd(Want)>>} : Push(cmds)
      BY <2>3 DEF DispatchDraw, DeferEarly, DeferDescriptor, Complete
    <3>2. ASSUME NEW cmds, IsCmds(cmds), Push(cmds) PROVE {"open", "list"} \subseteq DOMAIN submission' /\ IsCmds(submission'.list)
      <4>1. submission'.list = submission.list \o cmds /\ DOMAIN submission' = DOMAIN submission
        BY <3>2 DEF Push, FrameInv
      <4> QED BY <3>2, <4>1, CmdsJoin DEF FrameInv
    <3> QED BY <2>1, <3>1, <3>2, SetupIsCmds
  <2> QED BY <2>1, <2>2, <2>3 DEF StoreCode, ReadCode, SetReg, FreeTarget, drawVars
<1> QED BY <1>1, <1>2 DEF FrameInv, FrameIsItsDraws, screenVars

\* Once a frame's first videoout pass is through, the image shows every draw
\* finished in the frame and none of an earlier one, however many passes the
\* lists have and whichever of their fences time out.
THEOREM FrameShown == DrawSpec => []FrameIsItsDraws
<1>1. DrawInit => FrameInv
  BY CmdsOne DEF DrawInit, FrameInv, FrameIsItsDraws, NoSubmit
<1>2. FrameInv /\ [DrawNext]_drawVars => FrameInv'
  <2> SUFFICES ASSUME FrameInv, [DrawNext]_drawVars PROVE FrameInv'
    OBVIOUS
  <2>1. CASE SubmitFlip
    BY <2>1 DEF SubmitFlip, FrameInv, FrameIsItsDraws
  <2> QED BY <2>1, ShipList_Frame, Others_Frame DEF DrawNext
<1>3. FrameInv => FrameIsItsDraws
  BY DEF FrameInv
<1> QED BY <1>1, <1>2, <1>3, PTL DEF DrawSpec
=============================================================================
