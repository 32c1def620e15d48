-------------------------- MODULE SemaphoresProofs --------------------------
(***************************************************************************)
(* Semaphores, for any threads, addresses, ids and numbers of permits.     *)
(* Two arguments: a HostSem gains permits only in a signal, which wakes    *)
(* every waiter on it, or before anybody refers to it; and, for a guest    *)
(* that leaves semaphores in use alone, a call works on the HostSem that   *)
(* its name still stands for, which no other name stands for.              *)
(***************************************************************************)
EXTENDS Semaphores, TLAPS

Stages == {"guest", "wait", "parked", "late", "try", "signal"}

\* A count is never negative: permits are only taken when they are there.
SemaTypeOK ==
    /\ sem \in [Names -> Sems \cup {None}]
    /\ NEXT_SEMA_ID \in Nat
    /\ count \in [Sems -> Nat]
    /\ pc \in [Threads -> Stages]
    /\ on \in [Threads -> Names \cup {None}]
    /\ arc \in [Threads -> Sems \cup {None}]
    /\ need \in [Threads -> Nat]
    /\ timed \in [Threads -> BOOLEAN]
    /\ expired \in [Threads -> BOOLEAN]
    /\ due \in [Names -> Int]

\* A call in progress has a name, a HostSem and permits to ask for or give.
CallsHold ==
    \A t \in Threads : pc[t] # "guest" => on[t] \in Names /\ arc[t] \in Sems /\ need[t] >= 1

\* No two names stand for one HostSem, and an id not yet drawn for none.
NamesApart ==
    /\ \A m, n \in Names : sem[m] # None /\ sem[m] = sem[n] => m = n
    /\ \A i \in SceIds : i >= NEXT_SEMA_ID => sem[<<"sce", i>>] = None

\* With a careful guest: the name of a call in progress still stands for the
\* HostSem the call has found.
CallsCurrent == Careful => \A t \in Threads : pc[t] # "guest" => sem[on[t]] = arc[t]

\* With a careful guest: the books are right, and closed for absent names.
Books ==
    Careful => /\ PermitsAccounted
               /\ \A n \in Names : sem[n] = None => due[n] = 0

Inv == /\ SemaTypeOK /\ CallsHold /\ NamesApart /\ NobodyParkedWithPermit
       /\ CallsCurrent /\ Books

----------------------------------------------------------------------------
(* Defining and removing *)

\* A HostSem nobody refers to may be put under a name that no call in
\* progress of a careful guest is about.
LEMMA InsertInv ==
    ASSUME Inv, NEW n \in Names, NEW k \in Nat, Insert(n, k), UNCHANGED Locals,
           Careful => \A t \in Threads : pc[t] # "guest" => on[t] # n,
           NEXT_SEMA_ID' \in Nat, NEXT_SEMA_ID' >= NEXT_SEMA_ID,
           \A i \in SceIds : n = <<"sce", i>> => i < NEXT_SEMA_ID'
    PROVE  Inv'
<1> USE DEF Locals
<1>1. PICK s \in FreshSem : /\ sem' = [sem EXCEPT ![n] = s]
                            /\ count' = [count EXCEPT ![s] = k]
                            /\ due' = [due EXCEPT ![n] = k]
  BY DEF Insert
<1>2. /\ s \in Sems /\ s # None
      /\ \A m \in Names : sem[m] # s
      /\ \A t \in Threads : arc[t] # s
  BY SemsAssumption DEF FreshSem
<1>3. SemaTypeOK' /\ CallsHold'
  BY <1>1, <1>2 DEF Inv, SemaTypeOK, CallsHold
<1>4. NamesApart'
  <2>1. \A m, p \in Names : sem'[m] # None /\ sem'[m] = sem'[p] => m = p
    BY <1>1, <1>2 DEF Inv, SemaTypeOK, NamesApart
  <2>2. ASSUME NEW i \in SceIds, i >= NEXT_SEMA_ID' PROVE sem'[<<"sce", i>>] = None
    <3>1. i \in Nat /\ i >= NEXT_SEMA_ID /\ NEXT_SEMA_ID \in Nat
      BY <2>2 DEF SceIds, Inv, SemaTypeOK
    <3>2. n # <<"sce", i>>
      BY <2>2, <3>1
    <3>3. <<"sce", i>> \in Names
      BY DEF Names, Sce
    <3> QED
      BY <1>1, <3>1, <3>2, <3>3 DEF Inv, SemaTypeOK, NamesApart
  <2> QED
    BY <2>1, <2>2 DEF NamesApart
<1>5. NobodyParkedWithPermit'
  BY <1>1, <1>2 DEF Inv, SemaTypeOK, CallsHold, NobodyParkedWithPermit
<1>6. CallsCurrent'
  BY <1>1 DEF Inv, SemaTypeOK, CallsHold, CallsCurrent
<1>7. Books'
  BY <1>1, <1>2 DEF Inv, SemaTypeOK, Books, PermitsAccounted
<1> QED
  BY <1>3, <1>4, <1>5, <1>6, <1>7 DEF Inv

\* sem_init of a careful guest replaces nothing a call is on.
LEMMA sem_init_Inv ==
    ASSUME Inv, NEW t \in Threads, NEW n \in Posix, NEW v \in Args, sem_init(t, n, v)
    PROVE  Inv'
<1>1. n \in Names /\ \A i \in SceIds : n # <<"sce", i>>
  BY DEF Names, Posix
<1>2. NEXT_SEMA_ID' \in Nat /\ NEXT_SEMA_ID' >= NEXT_SEMA_ID
  BY DEF sem_init, Inv, SemaTypeOK
<1> QED
  BY <1>1, <1>2, InsertInv DEF sem_init, MayReplace

\* The id drawn is one no semaphore has, so no call is on it.
LEMMA create_sema_Inv ==
    ASSUME Inv, NEW t \in Threads, NEW v \in Args, create_sema(t, v)
    PROVE  Inv'
<1> DEFINE n == <<"sce", NEXT_SEMA_ID>>
<1>1. n \in Names
  BY DEF create_sema, Names, Sce
<1>2. AtLeast(v, 0) \in Nat
  BY ArgsAssumption DEF AtLeast
<1>3. sem[n] = None
  BY DEF create_sema, Inv, SemaTypeOK, NamesApart
<1>4. Careful => \A u \in Threads : pc[u] # "guest" => on[u] # n
  BY <1>3, SemsAssumption DEF Inv, CallsHold, CallsCurrent
<1>5. NEXT_SEMA_ID' \in Nat /\ NEXT_SEMA_ID' >= NEXT_SEMA_ID
  BY DEF create_sema, Inv, SemaTypeOK
<1>6. \A i \in SceIds : n = <<"sce", i>> => i < NEXT_SEMA_ID'
  BY DEF create_sema, Inv, SemaTypeOK
<1> QED
  BY <1>1, <1>2, <1>4, <1>5, <1>6, InsertInv DEF create_sema

\* The entry goes while no call of a careful guest is on it.
LEMMA sem_destroy_Inv ==
    ASSUME Inv, NEW t \in Threads, NEW n \in Names, sem_destroy(t, n)
    PROVE  Inv'
<1> USE DEF sem_destroy, Locals
<1>1. SemaTypeOK' /\ CallsHold'
  BY DEF Inv, SemaTypeOK, CallsHold
<1>2. NamesApart'
  BY DEF Inv, SemaTypeOK, NamesApart, Names, Sce
<1>3. NobodyParkedWithPermit'
  BY DEF Inv, NobodyParkedWithPermit
<1>4. CallsCurrent'
  BY DEF Inv, SemaTypeOK, CallsHold, CallsCurrent, MayReplace
<1>5. Books'
  BY DEF Inv, SemaTypeOK, Books, PermitsAccounted
<1> QED
  BY <1>1, <1>2, <1>3, <1>4, <1>5 DEF Inv

----------------------------------------------------------------------------
(* Looking up *)

\* A call enters with the HostSem its name stands for.
LEMMA EnterInv ==
    ASSUME Inv, NEW t \in Threads, NEW n \in Names, sem[n] # None, NEW op \in Ops,
           NEW k \in Nat, k >= 1, NEW tm \in BOOLEAN, Enter(t, n, sem[n], op, k, tm),
           UNCHANGED <<sem, count, due>>
    PROVE  Inv'
<1> USE DEF Enter, Ops
<1>0. sem[n] \in Sems
  BY DEF Inv, SemaTypeOK
<1>1. SemaTypeOK'
  BY <1>0 DEF Inv, SemaTypeOK, Stages
<1>2. CallsHold'
  BY <1>0 DEF Inv, SemaTypeOK, CallsHold
<1>3. NamesApart'
  BY DEF Inv, NamesApart
<1>4. NobodyParkedWithPermit'
  BY DEF Inv, SemaTypeOK, NobodyParkedWithPermit
<1>5. CallsCurrent'
  BY DEF Inv, SemaTypeOK, CallsCurrent
<1>6. Books'
  BY DEF Inv, Books, PermitsAccounted
<1> QED
  BY <1>1, <1>2, <1>3, <1>4, <1>5, <1>6 DEF Inv

\* A sem_t nobody initialised: the HostSem is entered and found in one
\* critical section.
LEMMA EnterNewInv ==
    ASSUME Inv, NEW t \in Threads, NEW n \in Posix, sem[n] = None, NEW op \in Ops,
           NEW s \in FreshSem, NEW tm \in BOOLEAN, Enter(t, n, s, op, 1, tm),
           sem' = [sem EXCEPT ![n] = s], count' = [count EXCEPT ![s] = 0], due' = due
    PROVE  Inv'
<1> USE DEF Enter, Ops
<1>1. /\ s \in Sems /\ s # None
      /\ \A m \in Names : sem[m] # s
      /\ \A u \in Threads : arc[u] # s
  BY SemsAssumption DEF FreshSem
<1>2. n \in Names /\ \A i \in SceIds : n # <<"sce", i>> /\ <<"sce", i>> \in Names
  BY DEF Names, Posix, Sce
<1>3. SemaTypeOK'
  BY <1>1, <1>2 DEF Inv, SemaTypeOK, Stages
<1>4. CallsHold'
  BY <1>1, <1>2 DEF Inv, SemaTypeOK, CallsHold
<1>5. NamesApart'
  BY <1>1, <1>2 DEF Inv, SemaTypeOK, NamesApart
<1>6. NobodyParkedWithPermit'
  BY <1>1 DEF Inv, SemaTypeOK, CallsHold, NobodyParkedWithPermit
<1>7. CallsCurrent'
  <2>1. Careful => \A u \in Threads : pc[u] # "guest" => on[u] # n
    BY SemsAssumption DEF Inv, CallsHold, CallsCurrent
  <2> QED
    BY <1>2, <2>1 DEF Inv, SemaTypeOK, CallsHold, CallsCurrent
<1>8. Books'
  BY <1>1, <1>2 DEF Inv, SemaTypeOK, Books, PermitsAccounted
<1> QED
  BY <1>3, <1>4, <1>5, <1>6, <1>7, <1>8 DEF Inv

\* The POSIX calls.
LEMMA sem_call_Inv ==
    ASSUME Inv, NEW t \in Threads, NEW n \in Posix, NEW op \in Ops, NEW tm \in BOOLEAN,
           sem_call(t, n, op, tm)
    PROVE  Inv'
<1>1. CASE sem[n] # None /\ Enter(t, n, sem[n], op, 1, tm) /\ UNCHANGED <<sem, count, due>>
  <2>1. n \in Names
    BY DEF Names
  <2> QED
    BY <1>1, <2>1, EnterInv
<1>2. CASE /\ sem[n] = None
           /\ \E s \in FreshSem : /\ sem' = [sem EXCEPT ![n] = s]
                                  /\ count' = [count EXCEPT ![s] = 0]
                                  /\ Enter(t, n, s, op, 1, tm)
           /\ UNCHANGED due
  <2>1. PICK s \in FreshSem : /\ sem' = [sem EXCEPT ![n] = s]
                              /\ count' = [count EXCEPT ![s] = 0]
                              /\ Enter(t, n, s, op, 1, tm)
    BY <1>2
  <2>2. sem[n] = None /\ due' = due
    BY <1>2
  <2> QED
    BY <2>1, <2>2, EnterNewInv, Zenon
<1> QED
  BY <1>1, <1>2 DEF sem_call, posix_get_or_create

\* The SCE calls.
LEMMA sema_call_Inv ==
    ASSUME Inv, NEW t \in Threads, NEW n \in Sce, NEW op \in Ops, NEW arg \in Args,
           NEW tm \in BOOLEAN, sema_call(t, n, op, arg, tm)
    PROVE  Inv'
<1>1. AtLeast(arg, 1) \in Nat /\ AtLeast(arg, 1) >= 1
  BY ArgsAssumption DEF AtLeast
<1>2. n \in Names
  BY DEF Names
<1> QED
  BY <1>1, <1>2, EnterInv DEF sema_call

----------------------------------------------------------------------------
(* HostSem *)

\* Permits that are there are taken: nobody parked has fewer to wait for.
LEMMA TakeInv ==
    ASSUME Inv, NEW t \in Threads, pc[t] # "guest", Enough(t), take(t)
    PROVE  Inv'
<1> USE DEF take, Return
<1>1. arc[t] \in Sems /\ on[t] \in Names /\ need[t] \in Nat /\ count[arc[t]] \in Nat
      /\ count[arc[t]] - need[t] \in Nat
  BY DEF Inv, SemaTypeOK, CallsHold, Enough
<1>2. /\ count' = [count EXCEPT ![arc[t]] = count[arc[t]] - need[t]]
      /\ Careful => due' = [due EXCEPT ![on[t]] = due[on[t]] - need[t]]
      /\ ~Careful => due' = due
  BY <1>1 DEF Charge, Inv, SemaTypeOK
<1>3. SemaTypeOK'
  <2>1. due' \in [Names -> Int]
    BY <1>1, <1>2 DEF Inv, SemaTypeOK
  <2> QED
    BY <1>1, <1>2, <2>1 DEF Inv, SemaTypeOK, Stages
<1>4. CallsHold'
  BY DEF Inv, SemaTypeOK, CallsHold
<1>5. NamesApart'
  BY DEF Inv, NamesApart
<1>6. NobodyParkedWithPermit'
  BY <1>1, <1>2 DEF Inv, SemaTypeOK, CallsHold, NobodyParkedWithPermit
<1>7. CallsCurrent'
  BY DEF Inv, SemaTypeOK, CallsCurrent
<1>8. Books'
  BY <1>1, <1>2, SemsAssumption
     DEF Inv, SemaTypeOK, NamesApart, CallsCurrent, Books, PermitsAccounted
<1> QED
  BY <1>3, <1>4, <1>5, <1>6, <1>7, <1>8 DEF Inv

\* A call that gives up leaves the permits alone.
LEMMA FailInv ==
    ASSUME Inv, NEW t \in Threads, fail(t)
    PROVE  Inv'
<1> USE DEF fail, Return
<1>1. SemaTypeOK' /\ CallsHold'
  BY DEF Inv, SemaTypeOK, Stages, CallsHold
<1>2. NamesApart' /\ Books'
  BY DEF Inv, NamesApart, Books, PermitsAccounted
<1>3. NobodyParkedWithPermit' /\ CallsCurrent'
  BY DEF Inv, SemaTypeOK, NobodyParkedWithPermit, CallsCurrent
<1> QED
  BY <1>1, <1>2, <1>3 DEF Inv

\* Parking, timing out, waking and a deadline's passing move one thread; it
\* parks only under the mutex and short of permits.
LEMMA MoveInv ==
    ASSUME Inv, NEW t \in Threads,
           wait_park(t) \/ wait_timeout(t) \/ wait_wakeup(t) \/ Expire(t)
    PROVE  Inv'
<1> USE DEF wait_park, wait_timeout, wait_wakeup, Expire
<1>1. SemaTypeOK' /\ CallsHold'
  BY DEF Inv, SemaTypeOK, Stages, CallsHold
<1>2. NamesApart' /\ Books'
  BY DEF Inv, NamesApart, Books, PermitsAccounted
<1>3. NobodyParkedWithPermit'
  BY DEF Inv, SemaTypeOK, CallsHold, NobodyParkedWithPermit, Enough
<1>4. CallsCurrent'
  BY DEF Inv, SemaTypeOK, CallsCurrent
<1> QED
  BY <1>1, <1>2, <1>3, <1>4 DEF Inv

\* Whoever is parked on the HostSem that gains permits is woken.
LEMMA signal_Inv ==
    ASSUME Inv, NEW t \in Threads, signal(t)
    PROVE  Inv'
<1> USE DEF signal, SignalTo, Woken
<1>1. arc[t] \in Sems /\ on[t] \in Names /\ need[t] \in Nat
  BY DEF Inv, SemaTypeOK, CallsHold
<1>2. /\ count' = [count EXCEPT ![arc[t]] = count[arc[t]] + need[t]]
      /\ Careful => due' = [due EXCEPT ![on[t]] = due[on[t]] + need[t]]
      /\ ~Careful => due' = due
  BY DEF Charge
<1>3. SemaTypeOK'
  <2>1. due' \in [Names -> Int]
    BY <1>1, <1>2 DEF Inv, SemaTypeOK
  <2>2. pc' \in [Threads -> Stages]
    BY DEF Inv, SemaTypeOK, Stages
  <2> QED
    BY <1>1, <1>2, <2>1, <2>2 DEF Inv, SemaTypeOK
<1>4. CallsHold'
  BY DEF Inv, SemaTypeOK, CallsHold
<1>5. NamesApart'
  BY DEF Inv, NamesApart
<1>6. NobodyParkedWithPermit'
  BY <1>1, <1>2 DEF Inv, SemaTypeOK, CallsHold, NobodyParkedWithPermit
<1>7. CallsCurrent'
  BY DEF Inv, SemaTypeOK, CallsCurrent
<1>8. Books'
  BY <1>1, <1>2, SemsAssumption
     DEF Inv, SemaTypeOK, NamesApart, CallsCurrent, Books, PermitsAccounted
<1> QED
  BY <1>3, <1>4, <1>5, <1>6, <1>7, <1>8 DEF Inv

----------------------------------------------------------------------------
\* No semaphore exists and no call is in progress.
LEMMA InitInv == SemaInit => Inv
<1> SUFFICES ASSUME SemaInit PROVE Inv
  OBVIOUS
<1> USE DEF SemaInit
<1>1. SemaTypeOK
  BY DEF SemaTypeOK, Stages
<1>2. NamesApart
  BY DEF NamesApart, Names, Sce
<1>3. CallsHold /\ NobodyParkedWithPermit /\ CallsCurrent /\ Books
  BY DEF CallsHold, NobodyParkedWithPermit, CallsCurrent, Books, PermitsAccounted
<1> QED
  BY <1>1, <1>2, <1>3 DEF Inv

\* The invariant holds in every state of every execution.
THEOREM Invariance == SemaSpec => []Inv
<1>1. Inv /\ [SemaNext]_semaVars => Inv'
  <2> SUFFICES ASSUME Inv, [SemaNext]_semaVars PROVE Inv'
    OBVIOUS
  <2>1. ASSUME NEW t \in Threads, Call(t) PROVE Inv'
    BY <2>1, sem_init_Inv, sem_destroy_Inv, create_sema_Inv, sem_call_Inv, sema_call_Inv DEF Call
  <2>2. ASSUME NEW t \in Threads, SemaStep(t) PROVE Inv'
    BY <2>2, TakeInv, FailInv, MoveInv, signal_Inv
       DEF SemaStep, wait_take, wait_give_up, late_take, late_fail, try_wait
  <2>3. ASSUME NEW t \in Threads, wait_wakeup(t) \/ Expire(t) PROVE Inv'
    BY <2>3, MoveInv
  <2>4. CASE UNCHANGED semaVars
    BY <2>4 DEF semaVars, Inv, SemaTypeOK, CallsHold, NamesApart, NobodyParkedWithPermit,
                CallsCurrent, Books, PermitsAccounted
  <2> QED
    BY <2>1, <2>2, <2>3, <2>4 DEF SemaNext
<1> QED
  BY <1>1, InitInv, PTL DEF SemaSpec

\* Types; in particular no count goes below zero.
THEOREM TypeCorrect == SemaSpec => []SemaTypeOK
<1>1. Inv => SemaTypeOK
  BY DEF Inv
<1> QED
  BY <1>1, Invariance, PTL

\* No waiter is left beside enough permits, whatever the waiters of a HostSem
\* ask for and whether or not the guest replaces semaphores in use.
THEOREM NoLostPermit == SemaSpec => []NobodyParkedWithPermit
<1>1. Inv => NobodyParkedWithPermit
  BY DEF Inv
<1> QED
  BY <1>1, Invariance, PTL

\* With a guest that leaves semaphores in use alone, the permits of every
\* semaphore are the ones its name was given less the ones taken under it.
THEOREM PermitsAddUp ==
    ASSUME Careful
    PROVE  SemaSpec => []PermitsAccounted
<1>1. Inv => PermitsAccounted
  BY DEF Inv, Books
<1> QED
  BY <1>1, Invariance, PTL
=============================================================================
