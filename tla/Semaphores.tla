---------------------------- MODULE Semaphores ----------------------------
(***************************************************************************)
(* The counting semaphores of crates/libs/src/libkernel/sema.rs: POSIX     *)
(* sem_t, found by guest address and made on first use, and the SCE        *)
(* handle API, found by an id drawn once.  Each is a HostSem, a count under *)
(* a host mutex with a condition variable.  A call looks its HostSem up    *)
(* under the registry's lock and works on it afterwards, so that an init,  *)
(* a destroy or a delete may come in between.                              *)
(***************************************************************************)
EXTENDS Integers, FiniteSets, FiniteSetsExt

CONSTANTS Threads,
          Addrs,       \* guest addresses of sem_t objects
          MaxSce,      \* bound on the SCE ids ever drawn
          Args,        \* counts the guest passes to the SCE calls and to init
          Sems,        \* host objects (Arc<HostSem>)
          MaxCount,    \* bound on the permits of one HostSem
          Careful,     \* does the guest leave semaphores in use alone?
          None

ASSUME ArgsAssumption == Args \subseteq Int /\ MaxCount \in Nat /\ MaxSce \in Nat
ASSUME SemsAssumption == None \notin Sems

SceIds == 1..MaxSce
\* The two registries: an address and an id never name the same semaphore.
Posix == {"posix"} \X Addrs
Sce   == {"sce"} \X SceIds
Names == Posix \cup Sce

AtLeast(n, low) == IF n < low THEN low ELSE n

VARIABLES
    sem,          \* POSIX_SEMS and SCE_SEMS: name -> HostSem
    NEXT_SEMA_ID,
    count,        \* HostSem.count
    pc,           \* "guest", "wait", "parked", "late", "try", "signal"
    on,           \* the name a call is about
    arc,          \* the HostSem it has found
    need,         \* the permits it asks for or gives
    timed,        \* does the wait have a deadline?
    expired,      \* has it passed?
    due           \* name -> initial value + permits given - permits taken

semaVars == <<sem, NEXT_SEMA_ID, count, pc, on, arc, need, timed, expired, due>>

\* The thread's call is over.
Return(t) ==
    /\ pc' = [pc EXCEPT ![t] = "guest"]
    /\ on' = [on EXCEPT ![t] = None]
    /\ arc' = [arc EXCEPT ![t] = None]
    /\ need' = [need EXCEPT ![t] = 0]
    /\ timed' = [timed EXCEPT ![t] = FALSE]
    /\ expired' = [expired EXCEPT ![t] = FALSE]

Locals == <<pc, on, arc, need, timed, expired>>

SemaInit ==
    /\ sem = [n \in Names |-> None]
    /\ NEXT_SEMA_ID = 1
    /\ count = [s \in Sems |-> 0]
    /\ pc = [t \in Threads |-> "guest"]
    /\ on = [t \in Threads |-> None]
    /\ arc = [t \in Threads |-> None]
    /\ need = [t \in Threads |-> 0]
    /\ timed = [t \in Threads |-> FALSE]
    /\ expired = [t \in Threads |-> FALSE]
    /\ due = [n \in Names |-> 0]

\* A HostSem nobody refers to: dropped, or not allocated yet.
FreshSem == {s \in Sems : (\A n \in Names : sem[n] # s) /\ (\A t \in Threads : arc[t] # s)}

\* A careful guest defines or removes a semaphore only while no call is on it.
MayReplace(n) == Careful => \A t \in Threads : on[t] # n

\* Bound: the permits on their way to one semaphore and already there.
RoomFor(k) ==
    \A s \in Sems :
        count[s] + MapThenSumSet(LAMBDA u : need[u], {u \in Threads : pc[u] = "signal"}) + k <= MaxCount

----------------------------------------------------------------------------
(* Defining and removing *)

\* A new HostSem under name n, in place of whatever was there.
Insert(n, initial) ==
    \E s \in FreshSem :
        /\ sem' = [sem EXCEPT ![n] = s]
        /\ count' = [count EXCEPT ![s] = initial]
        /\ due' = [due EXCEPT ![n] = initial]

\* sem_init overwrites any prior instance.
sem_init(t, n, v) ==
    /\ pc[t] = "guest" /\ n \in Posix /\ v \in Nat /\ MayReplace(n)
    /\ Insert(n, v)
    /\ UNCHANGED <<NEXT_SEMA_ID, Locals>>

\* sem_destroy and sceKernelDeleteSema: the entry goes, the HostSem lives on
\* for the calls that have found it.
sem_destroy(t, n) ==
    /\ pc[t] = "guest" /\ sem[n] # None /\ MayReplace(n)
    /\ sem' = [sem EXCEPT ![n] = None]
    /\ due' = [due EXCEPT ![n] = 0]
    /\ UNCHANGED <<NEXT_SEMA_ID, count, Locals>>

\* The id is drawn, and entered before anybody is told of it.
create_sema(t, init) ==
    /\ pc[t] = "guest" /\ NEXT_SEMA_ID \in SceIds
    /\ NEXT_SEMA_ID' = NEXT_SEMA_ID + 1
    /\ Insert(<<"sce", NEXT_SEMA_ID>>, AtLeast(init, 0))
    /\ UNCHANGED Locals

----------------------------------------------------------------------------
(* Looking up *)

Enter(t, n, s, op, k, tm) ==
    /\ pc' = [pc EXCEPT ![t] = op]
    /\ on' = [on EXCEPT ![t] = n]
    /\ arc' = [arc EXCEPT ![t] = s]
    /\ need' = [need EXCEPT ![t] = k]
    /\ timed' = [timed EXCEPT ![t] = tm]
    /\ UNCHANGED <<NEXT_SEMA_ID, expired>>

Ops == {"wait", "try", "signal"}

\* Mutated form: a lookup enters a new HostSem without looking.
posix_insert(t, n, op, tm) ==
    \E s \in FreshSem :
        /\ sem' = [sem EXCEPT ![n] = s]
        /\ count' = [count EXCEPT ![s] = 0]
        /\ Enter(t, n, s, op, 1, tm)
        /\ UNCHANGED due

\* Look the address up and, in the same critical section, create what is not
\* there with no permits.
posix_get_or_create(t, n, op, tm) ==
    \/ /\ sem[n] # None
       /\ Enter(t, n, sem[n], op, 1, tm)
       /\ UNCHANGED <<sem, count, due>>
    \/ /\ sem[n] = None
       /\ \E s \in FreshSem :
             /\ sem' = [sem EXCEPT ![n] = s]
             /\ count' = [count EXCEPT ![s] = 0]
             /\ Enter(t, n, s, op, 1, tm)
       /\ UNCHANGED due

\* sem_wait, sem_timedwait, sem_trywait, sem_post.  A timespec that does not
\* parse is an error and changes nothing.
sem_call(t, n, op, tm) ==
    /\ pc[t] = "guest" /\ n \in Posix
    /\ tm => op = "wait"
    /\ op = "signal" => RoomFor(1)
    /\ posix_get_or_create(t, n, op, tm)

\* sceKernelWaitSema and sceKernelSignalSema; an unknown id is ESRCH.
sema_call(t, n, op, arg, tm) ==
    /\ pc[t] = "guest" /\ n \in Sce /\ sem[n] # None
    /\ op \in {"wait", "signal"} /\ (tm => op = "wait")
    /\ op = "signal" => RoomFor(AtLeast(arg, 1))
    /\ Enter(t, n, sem[n], op, AtLeast(arg, 1), tm)
    /\ UNCHANGED <<sem, count, due>>

----------------------------------------------------------------------------
(* HostSem: each step is one stretch under the count's mutex *)

\* The books are kept for a careful guest only.
Charge(n, k) == due' = IF Careful THEN [due EXCEPT ![n] = @ + k] ELSE due

Enough(t) == count[arc[t]] >= need[t]

\* Take the permits.
take(t) ==
    /\ count' = [count EXCEPT ![arc[t]] = @ - need[t]]
    /\ Charge(on[t], -need[t])
    /\ Return(t)
    /\ UNCHANGED <<sem, NEXT_SEMA_ID>>

\* A thread gives up and returns an error.
fail(t) == Return(t) /\ UNCHANGED <<sem, NEXT_SEMA_ID, count, due>>

\* wait and wait_timeout: the count is looked at after every wakeup.
wait_take(t) == pc[t] = "wait" /\ Enough(t) /\ take(t)

\* Mutated form: the deadline is computed anew for every wait.
wait_park_again(t) ==
    /\ pc[t] = "wait" /\ ~Enough(t)
    /\ pc' = [pc EXCEPT ![t] = "parked"]
    /\ expired' = [expired EXCEPT ![t] = FALSE]
    /\ UNCHANGED <<sem, NEXT_SEMA_ID, count, on, arc, need, timed, due>>

\* Not enough, and time left: block, which releases the mutex.
wait_park(t) ==
    /\ pc[t] = "wait" /\ ~Enough(t) /\ ~expired[t]
    /\ pc' = [pc EXCEPT ![t] = "parked"]
    /\ UNCHANGED <<sem, NEXT_SEMA_ID, count, on, arc, need, timed, expired, due>>

\* Not enough, and the deadline has passed.
wait_give_up(t) == pc[t] = "wait" /\ ~Enough(t) /\ expired[t] /\ fail(t)

\* The blocked wait times out ...
wait_timeout(t) ==
    /\ pc[t] = "parked" /\ timed[t] /\ expired[t]
    /\ pc' = [pc EXCEPT ![t] = "late"]
    /\ UNCHANGED <<sem, NEXT_SEMA_ID, count, on, arc, need, timed, expired, due>>

\* ... and under the mutex again, a post that came in time still counts.
late_take(t) == pc[t] = "late" /\ Enough(t) /\ take(t)
late_fail(t) == pc[t] = "late" /\ ~Enough(t) /\ fail(t)

\* A wakeup without a notification.
wait_wakeup(t) ==
    /\ pc[t] = "parked"
    /\ pc' = [pc EXCEPT ![t] = "wait"]
    /\ UNCHANGED <<sem, NEXT_SEMA_ID, count, on, arc, need, timed, expired, due>>

try_wait(t) ==
    /\ pc[t] = "try"
    /\ IF Enough(t) THEN take(t) ELSE fail(t)

Woken(s) == {u \in Threads : pc[u] = "parked" /\ arc[u] = s}

\* Add the permits and wake the threads W.
SignalTo(t, W) ==
    /\ pc[t] = "signal"
    /\ count' = [count EXCEPT ![arc[t]] = @ + need[t]]
    /\ Charge(on[t], need[t])
    /\ pc' = [u \in Threads |-> IF u = t THEN "guest" ELSE IF u \in W THEN "wait" ELSE pc[u]]
    /\ on' = [on EXCEPT ![t] = None]
    /\ arc' = [arc EXCEPT ![t] = None]
    /\ need' = [need EXCEPT ![t] = 0]
    /\ UNCHANGED <<sem, NEXT_SEMA_ID, timed, expired>>

\* Mutated form: notify_one.
signal_one(t) ==
    \E W \in SUBSET Woken(arc[t]) :
        Cardinality(W) = (IF Woken(arc[t]) = {} THEN 0 ELSE 1) /\ SignalTo(t, W)

\* Every waiter is woken: they may ask for different numbers of permits.
signal(t) == SignalTo(t, Woken(arc[t]))

----------------------------------------------------------------------------
\* The deadline of a wait passes.
Expire(t) ==
    /\ timed[t] /\ ~expired[t]
    /\ expired' = [expired EXCEPT ![t] = TRUE]
    /\ UNCHANGED <<sem, NEXT_SEMA_ID, count, pc, on, arc, need, timed, due>>

SemaStep(t) ==
    \/ wait_take(t) \/ wait_park(t) \/ wait_give_up(t) \/ wait_timeout(t)
    \/ late_take(t) \/ late_fail(t) \/ try_wait(t) \/ signal(t)

Call(t) ==
    \/ \E n \in Posix, v \in Args : sem_init(t, n, v)
    \/ \E n \in Names : sem_destroy(t, n)
    \/ \E v \in Args : create_sema(t, v)
    \/ \E n \in Posix, op \in Ops, tm \in BOOLEAN : sem_call(t, n, op, tm)
    \/ \E n \in Sce, op \in Ops, arg \in Args, tm \in BOOLEAN : sema_call(t, n, op, arg, tm)

SemaNext == \E t \in Threads : Call(t) \/ SemaStep(t) \/ wait_wakeup(t) \/ Expire(t)

SemaSpec == SemaInit /\ [][SemaNext]_semaVars

\* The host schedules threads that can go on, and time passes.
SemaFairness == \A t \in Threads : WF_semaVars(SemaStep(t)) /\ WF_semaVars(Expire(t))
SemaFairSpec == SemaSpec /\ SemaFairness

----------------------------------------------------------------------------
(* Properties *)

\* Nobody stays blocked beside the permits it asks for: also when waiters
\* ask for different numbers of permits and one post serves several of them.
NobodyParkedWithPermit ==
    \A t \in Threads : pc[t] = "parked" => count[arc[t]] < need[t]

\* With a guest that leaves semaphores in use alone: the permits of a
\* semaphore are its initial value plus what was given less what was taken
\* under its name.  Calls that race on a sem_t nobody initialised meet at one
\* HostSem, a wait that gives up takes nothing, and an address and an id never
\* share a count.
PermitsAccounted ==
    \A n \in Names : sem[n] # None => count[sem[n]] = due[n]

\* A wait with a deadline returns, however often it is woken for permits that
\* others take first.
TimedWaitReturns == \A t \in Threads : timed[t] ~> ~timed[t]
=============================================================================
