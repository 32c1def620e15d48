-------------------------- MODULE GpuCompletion --------------------------
(***************************************************************************)
(* How a guest learns that the GPU is done.  Two channels exist: an event  *)
(* queue the guest waits on (crates/libs/src/libkernel/equeue.rs and       *)
(* events.rs) and a label in guest memory that an end-of-pipe packet       *)
(* writes (emit_label in crates/gnm/src/exec.rs).  Titles that collect     *)
(* completions from the queue must not be shown the label, titles that     *)
(* poll the label need it; the emulator withholds labels until a second    *)
(* has gone by without a collection, and a watchdog thread then writes     *)
(* what was withheld (crates/core/src/gpu.rs).                             *)
(***************************************************************************)
EXTENDS Naturals, FiniteSets, FiniteSetsExt

CONSTANTS Waiters,      \* guest threads that wait on event queues
          Queues,       \* event queue handles
          EventIds,     \* the guest's cookies
          Labels,       \* label addresses
          MaxEmits,     \* bound on the end-of-pipe packets
          MaxSignals,   \* bound on the submits that are done
          Wrap,         \* where PENDING_COMPLETIONS wraps (2^64 in the code)
          GraceChecks,  \* wakes of the watchdog that outlast the grace (4)
          Checks        \* wakes of the watchdog in all (20)

\* No run is long enough for the counter to wrap.
ASSUME WrapAssumption == Wrap \in Nat /\ MaxEmits \in Nat /\ MaxSignals \in Nat /\ MaxSignals < Wrap
ASSUME WaitersAssumption == IsFiniteSet(Waiters)
ASSUME ChecksAssumption == GraceChecks \in Nat /\ Checks \in Nat /\ GraceChecks < Checks

VARIABLES
    events,      \* EQUEUE: the (queue, id) pairs registered
    pending,     \* PENDING_COMPLETIONS
    wpc, wq,     \* each waiter's place in sceKernelWaitEqueue, and its queue
    cur,         \* the count it has loaded
    triggered,   \* did it take a completion?
    collected,   \* COMPLETION_EVENT_REGISTERED
    first,       \* FIRST_EOP_SUBMIT is set
    grace,       \* LABEL_WATCHDOG_GRACE has elapsed since then
    eop_sync,    \* UNEMUPS4_GPU_EOP_SYNC
    epc, ea, ev, \* the executor in emit_label: place, address, value
    withheld,    \* PENDING_EOP_LABELS: address -> value, 0 if none
    armed,       \* LABEL_WATCHDOG_ARMED
    dog, wakes,  \* the watchdog thread: place, wakes so far
    flush,       \* the entries it has taken out
    label,       \* guest memory at the label addresses, 0 at first
    last,        \* the value last emitted for each label
    signals,     \* submits done
    reported,    \* completions reported to waiters
    settled      \* had the guest collected by the end of the grace?

queueVars == <<events, pending, wpc, wq, cur, triggered, signals, reported>>
labelVars == <<first, grace, eop_sync, epc, ea, ev, withheld, armed, dog, wakes,
               flush, label, last, settled>>
completionVars == <<queueVars, collected, labelVars>>

NoLabels == [a \in Labels |-> 0]

\* The executor is not in emit_label.
NoTarget == "idle"

CompletionInit ==
    /\ events = {} /\ pending = 0
    /\ wpc = [w \in Waiters |-> "guest"]
    /\ wq \in [Waiters -> Queues]
    /\ cur = [w \in Waiters |-> 0]
    /\ triggered = [w \in Waiters |-> FALSE]
    /\ collected = FALSE /\ first = FALSE /\ grace = FALSE
    /\ eop_sync \in BOOLEAN
    /\ epc = "idle" /\ ea = NoTarget /\ ev = 0
    /\ withheld = NoLabels /\ flush = NoLabels /\ label = NoLabels /\ last = NoLabels
    /\ armed = FALSE /\ dog = "off" /\ wakes = 0
    /\ signals = 0 /\ reported = 0 /\ settled = FALSE

----------------------------------------------------------------------------
(* The event queue *)

add_event(q, i) ==
    /\ events' = events \cup {<<q, i>>}
    /\ UNCHANGED <<pending, wpc, wq, cur, triggered, signals, reported, collected, labelVars>>

delete_event(q, i) ==
    /\ events' = events \ {<<q, i>>}
    /\ UNCHANGED <<pending, wpc, wq, cur, triggered, signals, reported, collected, labelVars>>

\* Every way of being done with a submit; fetch_add wraps.
signal_gpu_completion ==
    /\ signals < MaxSignals
    /\ signals' = signals + 1
    /\ pending' = (pending + 1) % Wrap
    /\ UNCHANGED <<events, wpc, wq, cur, triggered, reported, collected, labelVars>>

WaiterAt(w, from, to) == wpc[w] = from /\ wpc' = [wpc EXCEPT ![w] = to]

\* take_triggered looks for an event of the queue under the lock ...
wait_equeue(w, q) ==
    /\ WaiterAt(w, "guest", IF \E i \in EventIds : <<q, i>> \in events THEN "load" ELSE "note")
    /\ wq' = [wq EXCEPT ![w] = q]
    /\ triggered' = [triggered EXCEPT ![w] = FALSE]
    /\ UNCHANGED <<events, pending, cur, signals, reported, collected, labelVars>>

\* ... and after it takes one completion, if there is any, by compare and
\* exchange.
take_load(w) ==
    /\ WaiterAt(w, "load", IF pending = 0 THEN "note" ELSE "cas")
    /\ cur' = [cur EXCEPT ![w] = pending]
    /\ UNCHANGED <<events, pending, wq, triggered, signals, reported, collected, labelVars>>

\* Mutated form: a plain store of the count loaded before.
take_store(w) ==
    /\ WaiterAt(w, "cas", "note")
    /\ pending' = cur[w] - 1
    /\ triggered' = [triggered EXCEPT ![w] = TRUE]
    /\ UNCHANGED <<events, wq, cur, signals, reported, collected, labelVars>>

take_cas(w) ==
    /\ \/ /\ pending = cur[w]
          /\ WaiterAt(w, "cas", "note")
          /\ pending' = pending - 1
          /\ triggered' = [triggered EXCEPT ![w] = TRUE]
       \/ /\ pending # cur[w]
          /\ WaiterAt(w, "cas", "load")
          /\ UNCHANGED <<pending, triggered>>
    /\ UNCHANGED <<events, wq, cur, signals, reported, collected, labelVars>>

\* Back in the handler: with any event registered, on any queue, the guest is
\* taken for one that collects.  The count of events goes to the guest.
wait_note(w) ==
    /\ WaiterAt(w, "note", "guest")
    /\ collected' = (collected \/ events # {})
    /\ reported' = IF triggered[w] THEN reported + 1 ELSE reported
    /\ triggered' = [triggered EXCEPT ![w] = FALSE]
    /\ cur' = [cur EXCEPT ![w] = 0]
    /\ UNCHANGED <<events, pending, wq, signals, labelVars>>

----------------------------------------------------------------------------
(* emit_label: the executor, one at a time under the driver lock *)

ExecAt(from, to) == epc = from /\ epc' = to

\* An end-of-pipe packet names a label and its next value.
emit_label(a) ==
    /\ ExecAt("idle", "flag") /\ MapThenSumSet(LAMBDA b : last[b], Labels) < MaxEmits
    /\ first' = TRUE
    /\ ea' = a /\ ev' = last[a] + 1
    /\ last' = [last EXCEPT ![a] = @ + 1]
    /\ UNCHANGED <<queueVars, collected, grace, eop_sync, withheld, armed, dog, wakes,
                   flush, label, settled>>

\* Mutated form: the collected flag is not looked at.
emit_flag_ignored ==
    /\ ExecAt("flag", IF eop_sync THEN "write" ELSE "time")
    /\ UNCHANGED <<queueVars, collected, first, grace, eop_sync, ea, ev, withheld, armed,
                   dog, wakes, flush, label, last, settled>>

\* should_write_completion_label: the flag first, then the clock.
emit_flag ==
    /\ ExecAt("flag", IF eop_sync THEN "write" ELSE IF collected THEN "push" ELSE "time")
    /\ UNCHANGED <<queueVars, collected, first, grace, eop_sync, ea, ev, withheld, armed,
                   dog, wakes, flush, label, last, settled>>

emit_time ==
    /\ ExecAt("time", IF grace THEN "write" ELSE "push")
    /\ UNCHANGED <<queueVars, collected, first, grace, eop_sync, ea, ev, withheld, armed,
                   dog, wakes, flush, label, last, settled>>

emit_write ==
    /\ ExecAt("write", "retain")
    /\ label' = [label EXCEPT ![ea] = ev]
    /\ UNCHANGED <<queueVars, collected, first, grace, eop_sync, ea, ev, withheld, armed,
                   dog, wakes, flush, last, settled>>

\* Drop the withheld copy of this address.
emit_retain ==
    /\ ExecAt("retain", "idle")
    /\ withheld' = [withheld EXCEPT ![ea] = 0]
    /\ ea' = NoTarget /\ ev' = 0
    /\ UNCHANGED <<queueVars, collected, first, grace, eop_sync, armed, dog,
                   wakes, flush, label, last, settled>>

\* Withhold: remember the write, in place of an older one of the address.
emit_push ==
    /\ ExecAt("push", "arm")
    /\ withheld' = [withheld EXCEPT ![ea] = ev]
    /\ UNCHANGED <<queueVars, collected, first, grace, eop_sync, ea, ev, armed, dog,
                   wakes, flush, label, last, settled>>

\* The watchdog is started once; if the host has no thread for it, never.
arm_label_flush_watchdog ==
    /\ ExecAt("arm", "idle")
    /\ armed' = TRUE
    /\ \/ armed /\ UNCHANGED dog
       \/ ~armed /\ dog' = "sleep"
       \/ ~armed /\ dog' = "done"
    /\ ea' = NoTarget /\ ev' = 0
    /\ UNCHANGED <<queueVars, collected, first, grace, eop_sync, withheld, wakes,
                   flush, label, last, settled>>

----------------------------------------------------------------------------
(* The watchdog thread *)

DogAt(from, to) ==
    /\ dog = from /\ dog' = to
    /\ UNCHANGED <<queueVars, collected, first, grace, eop_sync, epc, ea, ev, armed, last, settled>>

\* It sleeps for a quarter of the grace: after four of them the grace, which
\* began before the watchdog was started, is over.
watchdog_wake ==
    /\ wakes < Checks
    /\ GraceChecks <= wakes + 1 => grace
    /\ DogAt("sleep", "registered")
    /\ wakes' = wakes + 1
    /\ UNCHANGED <<withheld, flush, label>>

watchdog_tired ==
    /\ wakes = Checks
    /\ DogAt("sleep", "done")
    /\ UNCHANGED <<wakes, withheld, flush, label>>

\* An equeue title: nothing to flush.
watchdog_registered ==
    /\ DogAt("registered", IF collected THEN "done" ELSE "flag")
    /\ UNCHANGED <<wakes, withheld, flush, label>>

\* should_write_completion_label again: flag, then clock.
watchdog_flag ==
    /\ DogAt("flag", IF collected THEN "sleep" ELSE "time")
    /\ UNCHANGED <<wakes, withheld, flush, label>>

watchdog_time ==
    /\ DogAt("time", IF grace THEN "take" ELSE "sleep")
    /\ UNCHANGED <<wakes, withheld, flush, label>>

\* Mutated form: one entry is flushed, the others are dropped.
watchdog_take_one ==
    /\ DogAt("take", IF withheld = NoLabels THEN "sleep" ELSE "flush")
    /\ flush' \in {[NoLabels EXCEPT ![a] = withheld[a]] : a \in Labels}
    /\ withheld' = NoLabels
    /\ UNCHANGED <<wakes, label>>

\* Take all entries out under the lock; write them after it.
watchdog_take ==
    /\ DogAt("take", IF withheld = NoLabels THEN "sleep" ELSE "flush")
    /\ flush' = withheld
    /\ withheld' = NoLabels
    /\ UNCHANGED <<wakes, label>>

watchdog_write(a) ==
    /\ flush[a] # 0
    /\ DogAt("flush", "flush")
    /\ label' = [label EXCEPT ![a] = flush[a]]
    /\ flush' = [flush EXCEPT ![a] = 0]
    /\ UNCHANGED <<wakes, withheld>>

watchdog_done ==
    /\ flush = NoLabels
    /\ DogAt("flush", "done")
    /\ UNCHANGED <<wakes, withheld, flush, label>>

----------------------------------------------------------------------------
\* A second after the first end-of-pipe.
GraceElapses ==
    /\ first /\ ~grace
    /\ grace' = TRUE
    /\ settled' = (collected /\ epc # "time" /\ dog # "time")
    /\ UNCHANGED <<queueVars, collected, first, eop_sync, epc, ea, ev, withheld, armed,
                   dog, wakes, flush, label, last>>

Executor == emit_flag \/ emit_time \/ emit_write \/ emit_retain \/ emit_push
              \/ arm_label_flush_watchdog

Watchdog == watchdog_wake \/ watchdog_tired \/ watchdog_registered \/ watchdog_flag
              \/ watchdog_time \/ watchdog_take \/ watchdog_done
              \/ \E a \in Labels : watchdog_write(a)

Waiter(w) == take_load(w) \/ take_cas(w) \/ wait_note(w)

CompletionNext ==
    \/ \E q \in Queues, i \in EventIds : add_event(q, i) \/ delete_event(q, i)
    \/ signal_gpu_completion
    \/ \E w \in Waiters, q \in Queues : wait_equeue(w, q)
    \/ \E w \in Waiters : Waiter(w)
    \/ \E a \in Labels : emit_label(a)
    \/ Executor \/ Watchdog \/ GraceElapses

CompletionSpec == CompletionInit /\ [][CompletionNext]_completionVars

\* Host threads that can go on do, and time passes.
CompletionFairness ==
    /\ WF_completionVars(Executor) /\ WF_completionVars(Watchdog) /\ WF_completionVars(GraceElapses)
    /\ \A w \in Waiters : WF_completionVars(Waiter(w))
CompletionFairSpec == CompletionSpec /\ CompletionFairness

----------------------------------------------------------------------------
(* Properties *)

\* Waiters that race for completions neither lose nor invent one: those
\* signalled are pending, in the hands of a waiter, or reported.
CompletionsConserved ==
    signals = pending + Cardinality({w \in Waiters : triggered[w]}) + reported

\* A title that has collected a completion by the time the grace is over is
\* never shown a label, neither by the executor nor by the watchdog.  (A
\* decision that straddles the end of the grace, flag read before and clock
\* after, is excepted.)
CollectorNeverLabelled ==
    ~eop_sync /\ (~grace \/ settled) => label = NoLabels

\* A label never goes back to an older value: "drop any withheld copy of THIS
\* address so the watchdog does not redundantly re-write it".
LabelNeverGoesBack ==
    [][\A a \in Labels : label'[a] >= label[a]]_completionVars

\* A label withheld when the grace is over and the watchdog has still to take
\* its entries is written, unless the guest turns out to collect.
WithheldLabelFlushed ==
    \A a \in Labels :
        (withheld[a] # 0 /\ grace /\ dog \in {"sleep", "registered", "flag", "time", "take"})
           ~> (label[a] # 0 \/ collected)
=============================================================================
