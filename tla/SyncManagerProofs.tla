------------------------- MODULE SyncManagerProofs -------------------------
(***************************************************************************)
(* Proofs about SyncManager, for every set of threads, addresses and Arcs  *)
(* and for careful and careless guests alike.                              *)
(*                                                                         *)
(* NobodyParkedOnFree is not inductive alone.  What makes it so: a thread  *)
(* that is inside a call has the Arc and the address the call needs        *)
(* (Locals), and a mutex has an owner exactly when its count is not zero   *)
(* (OwnerCounted), so that the unlock that brings the count from one to    *)
(* zero, and wakes the waiters, is the only one that clears the owner.     *)
(* NoLostWakeup is an action property: of a step from a state of Inv, the  *)
(* only one that ends a signal is the notification under wait_lock.        *)
(***************************************************************************)
EXTENDS SyncManager, TLAPS

\* Where a thread has cloned an Arc<HostMutex>.
WithMutex == AtState \cup Parked \cup Suspended

Locals ==
    \A t \in Threads :
        /\ pc[t] \in WithMutex => mx[t] \in MutexArcs /\ addr[t] \in MutexAddrs
        /\ pc[t] \in {"lazy", "cond_lookup"} => addr[t] \in MutexAddrs
        /\ pc[t] \in Suspended \cup {"cond_gate"} => saved[t] # 0

OwnerCounted == \A m \in MutexArcs : (owner[m] = NoThread) <=> (locks[m] = 0)

\* The inductive invariant.
Inv == TypeOK /\ Locals /\ OwnerCounted /\ NobodyParkedOnFree

\* The part of TypeOK about the variables of one thread's call.
LocalTypes ==
    /\ pc \in [Threads -> PCs]
    /\ mx \in [Threads -> MutexArcs \cup {NoArc}]
    /\ cv \in [Threads -> CondArcs \cup {NoArc}]
    /\ addr \in [Threads -> MutexAddrs \cup {NoAddr}]
    /\ timed \in [Threads -> BOOLEAN]
    /\ saved \in [Threads -> Nat]
    /\ ret \in [Threads -> Codes \cup {Pending}]

\* pcs differs from pc only in that some parked threads are runnable.
OnlyWakes(pcs) ==
    /\ pcs \in [Threads -> PCs]
    /\ \A u \in Threads :
          \/ pcs[u] = pc[u]
          \/ pc[u] = "parked" /\ pcs[u] = "lock_state"
          \/ pc[u] = "relock_parked" /\ pcs[u] = "relock"
          \/ pc[u] = "cond_parked" /\ pcs[u] = "cond_woken"

----------------------------------------------------------------------------
(* Facts about the helpers *)

LEMMA CodesFact == {0, EPERM, EDEADLK, EBUSY, EINVAL, ETIMEDOUT} \subseteq Codes
BY DEF Codes

LEMMA TypeLocals == TypeOK => LocalTypes
BY DEF TypeOK, LocalTypes

LEMMA NothingWakes == TypeOK => OnlyWakes(pc)
BY DEF TypeOK, OnlyWakes

\* notify_all moves only threads that were parked on the mutex, and all of them.
LEMMA NotifiedWakes ==
    ASSUME TypeOK, NEW m
    PROVE  /\ OnlyWakes(Notified(m))
           /\ \A u \in Threads : mx[u] = m => Notified(m)[u] \notin Parked
           /\ \A u \in Threads : Notified(m)[u] \in Parked => pc[u] \in Parked
BY DEF TypeOK, OnlyWakes, Notified, PCs, Parked, AtState, Suspended

\* A wakeup takes a thread to a place with the same needs.
LEMMA WakeKeepsNeeds ==
    ASSUME NEW pcs, OnlyWakes(pcs), NEW u \in Threads
    PROVE  /\ pcs[u] \in WithMutex => pc[u] \in WithMutex
           /\ pcs[u] \in {"lazy", "cond_lookup"} => pc[u] = pcs[u]
           /\ pcs[u] \in Suspended \cup {"cond_gate"} => pc[u] \in Suspended \cup {"cond_gate"}
           /\ pcs[u] \in Parked => pc[u] \in Parked
BY DEF OnlyWakes, WithMutex, AtState, Parked, Suspended

\* A call that returns gives up its locals and leaves the other threads theirs.
LEMMA ReturnKeeps ==
    ASSUME TypeOK, Locals, NEW t \in Threads, NEW r \in Codes, NEW pcs,
           OnlyWakes(pcs), Return(t, r, pcs)
    PROVE  /\ LocalTypes' /\ Locals'
           /\ pc'[t] = "guest"
           /\ \A u \in Threads : u # t => pc'[u] = pcs[u] /\ mx'[u] = mx[u]
<1>1. "guest" \in PCs /\ "guest" \notin WithMutex \cup Suspended \cup {"cond_gate", "lazy", "cond_lookup"}
  BY DEF PCs, WithMutex, AtState, Parked, Suspended
<1>2. LocalTypes'
  BY <1>1 DEF TypeOK, LocalTypes, Return, OnlyWakes
<1>3. /\ pc'[t] = "guest"
      /\ \A u \in Threads : u # t => /\ pc'[u] = pcs[u] /\ mx'[u] = mx[u]
                                     /\ addr'[u] = addr[u] /\ saved'[u] = saved[u]
  BY DEF TypeOK, Return, OnlyWakes
<1>4. Locals'
  BY <1>1, <1>3, WakeKeepsNeeds DEF Locals
<1> QED
  BY <1>2, <1>3, <1>4

\* Entering a call on a mutex address.
LEMMA EnterInv ==
    ASSUME Inv, NEW t \in Threads, NEW a \in MutexAddrs, NEW l \in PCs, NEW b \in BOOLEAN,
           EnterMutexCall(t, a, l, b), l \notin Parked \cup Suspended \cup {"cond_gate"},
           l # "lazy" => mutexes[a] # NoArc
    PROVE  Inv'
<1> USE DEF EnterMutexCall, Inv
<1>1. TypeOK'
  BY DEF TypeOK, mapVars, stateVars, Pending
<1>2. Locals'
  <2>1. "lazy" \notin WithMutex
    BY DEF WithMutex, AtState, Parked, Suspended
  <2> QED
    BY <2>1 DEF TypeOK, Locals, mapVars, stateVars
<1>3. OwnerCounted'
  BY DEF OwnerCounted, stateVars
<1>4. NobodyParkedOnFree'
  BY DEF TypeOK, NobodyParkedOnFree, stateVars
<1> QED
  BY <1>1, <1>2, <1>3, <1>4

LEMMA RefuseInv ==
    ASSUME Inv, NEW t \in Threads, NEW r \in Codes, Refuse(t, r)
    PROVE  Inv'
<1> USE DEF Refuse, Inv
<1>1. TypeOK'
  BY DEF TypeOK, mapVars, stateVars
<1>2. Locals' /\ OwnerCounted' /\ NobodyParkedOnFree'
  BY DEF Locals, OwnerCounted, NobodyParkedOnFree, mapVars, stateVars
<1> QED
  BY <1>1, <1>2

\* A returning call that changes no mutex.
LEMMA PlainReturnInv ==
    ASSUME Inv, NEW t \in Threads, NEW r \in Codes, NEW pcs, OnlyWakes(pcs),
           Return(t, r, pcs), UNCHANGED <<mapVars, owner, locks, held>>,
           mtype' \in [MutexArcs -> MutexType]
    PROVE  Inv'
<1> USE DEF Inv
<1>1. /\ LocalTypes' /\ Locals' /\ pc'[t] = "guest"
      /\ \A u \in Threads : u # t => pc'[u] = pcs[u] /\ mx'[u] = mx[u]
  BY ReturnKeeps
<1>2. TypeOK'
  BY <1>1 DEF TypeOK, LocalTypes, mapVars
<1>3. OwnerCounted'
  BY DEF OwnerCounted
<1>4. NobodyParkedOnFree'
  BY <1>1, WakeKeepsNeeds DEF NobodyParkedOnFree, Parked
<1> QED
  BY <1>1, <1>2, <1>3, <1>4

\* A step that moves only the program counter of t (and perhaps its saved
\* count or its return code), to a place it has what it needs for.
LEMMA GotoInv ==
    ASSUME Inv, NEW t \in Threads, NEW l \in PCs, Goto(t, l),
           UNCHANGED <<mapVars, stateVars, mx, cv, addr, timed, held>>,
           pc[t] \in WithMutex, l \notin {"lazy", "cond_lookup"},
           saved' \in [Threads -> Nat], \A u \in Threads : u # t => saved'[u] = saved[u],
           l \in Suspended \cup {"cond_gate"} => saved'[t] # 0,
           ret' \in [Threads -> Codes \cup {Pending}],
           l \in Parked => owner[mx[t]] # NoThread
    PROVE  Inv'
<1> USE DEF Inv
<1>1. /\ pc' \in [Threads -> PCs] /\ pc'[t] = l
      /\ \A u \in Threads : u # t => pc'[u] = pc[u]
  BY DEF TypeOK, Goto
<1>2. TypeOK'
  BY <1>1 DEF TypeOK, mapVars, stateVars
<1>3. Locals'
  BY <1>1 DEF Locals
<1>4. OwnerCounted' /\ NobodyParkedOnFree'
  BY <1>1 DEF OwnerCounted, NobodyParkedOnFree, stateVars
<1> QED
  BY <1>2, <1>3, <1>4

\* A returning call that leaves its thread the owner of the mutex, n deep.
LEMMA TakeReturnInv ==
    ASSUME Inv, NEW t \in Threads, NEW r \in Codes, Return(t, r, pc),
           UNCHANGED <<mapVars, mtype>>, pc[t] \in WithMutex, NEW n \in Nat \ {0},
           owner' = [owner EXCEPT ![mx[t]] = t], locks' = [locks EXCEPT ![mx[t]] = n],
           held' \in [Threads -> [MutexAddrs -> Int]]
    PROVE  Inv'
<1> USE DEF Inv
<1>1. /\ LocalTypes' /\ Locals' /\ pc'[t] = "guest"
      /\ \A u \in Threads : u # t => pc'[u] = pc[u] /\ mx'[u] = mx[u]
  BY ReturnKeeps, NothingWakes
<1>2. mx[t] \in MutexArcs /\ t # NoThread
  BY DistinctNone DEF Locals
<1>3. TypeOK'
  BY <1>1 DEF TypeOK, LocalTypes, mapVars
<1>4. OwnerCounted'
  BY <1>2 DEF OwnerCounted, TypeOK
<1>5. NobodyParkedOnFree'
  BY <1>1, <1>2 DEF NobodyParkedOnFree, Parked, TypeOK, Locals, WithMutex
<1> QED
  BY <1>1, <1>3, <1>4, <1>5

\* A returning call that leaves the mutex free and wakes its waiters.
LEMMA FreeReturnInv ==
    ASSUME Inv, NEW t \in Threads, NEW r \in Codes, Return(t, r, Notified(mx[t])),
           UNCHANGED <<mapVars, mtype>>, pc[t] \in WithMutex,
           owner' = [owner EXCEPT ![mx[t]] = NoThread], locks' = [locks EXCEPT ![mx[t]] = 0],
           held' \in [Threads -> [MutexAddrs -> Int]]
    PROVE  Inv'
<1> USE DEF Inv
<1>1. /\ LocalTypes' /\ Locals' /\ pc'[t] = "guest"
      /\ \A u \in Threads : u # t => pc'[u] = Notified(mx[t])[u] /\ mx'[u] = mx[u]
  BY ReturnKeeps, NotifiedWakes
<1>2. mx[t] \in MutexArcs
  BY DEF Locals
<1>3. TypeOK'
  BY <1>1 DEF TypeOK, LocalTypes, mapVars
<1>4. OwnerCounted'
  BY <1>2 DEF OwnerCounted, TypeOK
<1>5. NobodyParkedOnFree'
  <2> SUFFICES ASSUME NEW u \in Threads, pc'[u] \in Parked
               PROVE  owner'[mx'[u]] # NoThread
    BY DEF NobodyParkedOnFree
  <2>1. u # t /\ Notified(mx[t])[u] \in Parked /\ mx'[u] = mx[u]
    BY <1>1 DEF Parked
  <2>2. pc[u] \in Parked /\ mx[u] # mx[t]
    BY <2>1, NotifiedWakes
  <2>3. mx[u] \in MutexArcs /\ owner[mx[u]] # NoThread
    BY <2>2 DEF Locals, WithMutex, NobodyParkedOnFree
  <2> QED
    BY <2>1, <2>2, <2>3 DEF TypeOK
<1> QED
  BY <1>1, <1>3, <1>4, <1>5

\* Mapping an unused Arc disturbs no thread.
LEMMA InsertKeeps ==
    ASSUME Inv, NEW a \in MutexAddrs, NEW m \in MutexArcs, NEW ty \in MutexType,
           UnusedMutexArc(m), InsertMutex(a, m, ty)
    PROVE  /\ mutexes' \in [MutexAddrs -> MutexArcs \cup {NoArc}]
           /\ owner' \in [MutexArcs -> Threads \cup {NoThread}]
           /\ locks' \in [MutexArcs -> Nat] /\ mtype' \in [MutexArcs -> MutexType]
           /\ OwnerCounted'
           /\ \A u \in Threads : mx[u] \in MutexArcs => owner'[mx[u]] = owner[mx[u]]
BY DEF Inv, TypeOK, OwnerCounted, UnusedMutexArc, InsertMutex

\* Setting what a thread believes keeps the type of held.
LEMMA SetHeldType ==
    ASSUME TypeOK, NEW t \in Threads, addr[t] \in MutexAddrs, NEW n \in Int, SetHeld(t, n)
    PROVE  held' \in [Threads -> [MutexAddrs -> Int]]
BY DEF TypeOK, SetHeld

----------------------------------------------------------------------------
(* Every step keeps the invariant: one lemma per action *)

LEMMA mutex_init_new_Inv ==
    ASSUME Inv, NEW t \in Threads, NEW a \in MutexAddrs, mutex_init_new(t, a)
    PROVE  Inv'
<1> USE DEF Inv
<1> PICK m \in MutexArcs, ty \in MutexType : UnusedMutexArc(m) /\ InsertMutex(a, m, ty)
  BY DEF mutex_init_new
<1>1. TypeOK'
  BY InsertKeeps, CodesFact DEF mutex_init_new, TypeOK
<1>2. Locals'
  BY DEF mutex_init_new, Locals
<1>3. OwnerCounted'
  BY InsertKeeps
<1>4. NobodyParkedOnFree'
  BY InsertKeeps DEF mutex_init_new, NobodyParkedOnFree, Locals, WithMutex
<1> QED
  BY <1>1, <1>2, <1>3, <1>4

LEMMA mutex_init_state_Inv ==
    ASSUME Inv, NEW t \in Threads, mutex_init_state(t)
    PROVE  Inv'
<1> USE DEF mutex_init_state
<1>1. CASE owner[mx[t]] # NoThread \/ locks[mx[t]] > 0
  <2>1. owner[mx[t]] # NoThread \/ locks[mx[t]] # 0
    BY <1>1
  <2>2. mx[t] \in MutexArcs /\ (owner[mx[t]] # NoThread <=> locks[mx[t]] # 0)
    BY DEF Inv, Locals, WithMutex, AtState, OwnerCounted
  <2>3. Return(t, EBUSY, pc) /\ UNCHANGED stateVars
    BY <2>1, <2>2
  <2> QED
    BY <2>3, PlainReturnInv, NothingWakes, CodesFact DEF Inv, TypeOK, stateVars
<1>2. CASE ~(owner[mx[t]] # NoThread \/ locks[mx[t]] > 0)
  <2>1. PICK ty \in MutexType : mtype' = [mtype EXCEPT ![mx[t]] = ty]
    BY <1>2
  <2>2. Return(t, 0, Notified(mx[t])) /\ UNCHANGED <<owner, locks>>
    BY <1>2
  <2>3. mtype' \in [MutexArcs -> MutexType]
    BY <2>1 DEF Inv, TypeOK
  <2> QED
    BY <2>2, <2>3, PlainReturnInv, NotifiedWakes, CodesFact DEF Inv
<1> QED
  BY <1>1, <1>2

LEMMA mutex_destroy_Inv ==
    ASSUME Inv, NEW t \in Threads, NEW a \in MutexAddrs, mutex_destroy(t, a)
    PROVE  Inv'
<1> USE DEF mutex_destroy, Inv
<1>1. TypeOK'
  BY CodesFact DEF TypeOK, stateVars
<1>2. Locals' /\ OwnerCounted' /\ NobodyParkedOnFree'
  BY DEF Locals, OwnerCounted, NobodyParkedOnFree, stateVars
<1> QED
  BY <1>1, <1>2

LEMMA mutex_lock_Inv ==
    ASSUME Inv, NEW t \in Threads, NEW a \in MutexAddrs,
           \/ mutex_init_existing(t, a) \/ mutex_lock(t, a) \/ mutex_timedlock(t, a)
           \/ mutex_unlock(t, a) \/ mutex_trylock(t, a)
    PROVE  Inv'
<1>1. {"init_state", "lazy", "lock_state", "unlock_state", "try_state"} \subseteq
        PCs \ (Parked \cup Suspended \cup {"cond_gate"})
  BY DEF PCs, Parked, AtState, Suspended
<1>2. CASE mutex_init_existing(t, a)
  BY <1>1, <1>2, EnterInv DEF mutex_init_existing
<1>3. CASE mutex_lock(t, a)
  <2>1. CASE mutexes[a] = NoArc
    BY <1>1, <1>3, <2>1, EnterInv DEF mutex_lock
  <2>2. CASE mutexes[a] # NoArc
    BY <1>1, <1>3, <2>2, EnterInv DEF mutex_lock
  <2> QED
    BY <2>1, <2>2
<1>4. CASE mutex_timedlock(t, a)
  BY <1>1, <1>4, EnterInv, RefuseInv, CodesFact DEF mutex_timedlock
<1>5. CASE mutex_unlock(t, a)
  BY <1>1, <1>5, EnterInv, RefuseInv, CodesFact DEF mutex_unlock
<1>6. CASE mutex_trylock(t, a)
  BY <1>1, <1>6, EnterInv, RefuseInv, CodesFact DEF mutex_trylock
<1> QED
  BY <1>2, <1>3, <1>4, <1>5, <1>6

LEMMA mutex_lock_lazy_Inv ==
    ASSUME Inv, NEW t \in Threads, mutex_lock_lazy(t)
    PROVE  Inv'
<1> USE DEF Inv
<1>1. /\ pc' \in [Threads -> PCs] /\ pc'[t] = "lock_state"
      /\ \A u \in Threads : u # t => pc'[u] = pc[u]
  BY DEF mutex_lock_lazy, Goto, TypeOK, PCs, AtState
<1>2. addr[t] \in MutexAddrs
  BY DEF mutex_lock_lazy, Locals
<1>3. "lock_state" \notin Parked \cup Suspended \cup {"cond_gate", "lazy", "cond_lookup"}
  BY DEF Parked, Suspended
<1>4. CASE mutexes[addr[t]] # NoArc
  <2>1. mx' = [mx EXCEPT ![t] = mutexes[addr[t]]] /\ UNCHANGED <<mutexes, stateVars>>
    BY <1>4 DEF mutex_lock_lazy
  <2>2. mutexes[addr[t]] \in MutexArcs
    BY <1>2, <1>4 DEF TypeOK
  <2>3. TypeOK'
    BY <1>1, <2>1, <2>2 DEF mutex_lock_lazy, TypeOK, stateVars
  <2>4. Locals'
    BY <1>1, <1>2, <1>3, <2>1, <2>2 DEF mutex_lock_lazy, TypeOK, Locals
  <2>5. OwnerCounted' /\ NobodyParkedOnFree'
    BY <1>1, <1>3, <2>1 DEF OwnerCounted, NobodyParkedOnFree, TypeOK, stateVars
  <2> QED
    BY <2>3, <2>4, <2>5
<1>5. CASE mutexes[addr[t]] = NoArc
  <2> PICK m \in MutexArcs : /\ UnusedMutexArc(m) /\ InsertMutex(addr[t], m, "Normal")
                             /\ mx' = [mx EXCEPT ![t] = m]
    BY <1>5 DEF mutex_lock_lazy
  <2>1. /\ mutexes' \in [MutexAddrs -> MutexArcs \cup {NoArc}]
        /\ owner' \in [MutexArcs -> Threads \cup {NoThread}]
        /\ locks' \in [MutexArcs -> Nat] /\ mtype' \in [MutexArcs -> MutexType]
        /\ OwnerCounted'
        /\ \A u \in Threads : mx[u] \in MutexArcs => owner'[mx[u]] = owner[mx[u]]
    BY <1>2, InsertKeeps DEF MutexType
  <2>2. TypeOK'
    BY <1>1, <2>1 DEF mutex_lock_lazy, TypeOK
  <2>3. Locals'
    BY <1>1, <1>2, <1>3 DEF mutex_lock_lazy, TypeOK, Locals
  <2>4. NobodyParkedOnFree'
    BY <1>1, <1>3, <2>1 DEF NobodyParkedOnFree, TypeOK, Locals, WithMutex
  <2> QED
    BY <2>1, <2>2, <2>3, <2>4
<1> QED
  BY <1>4, <1>5

LEMMA lock_free_Inv ==
    ASSUME Inv, NEW t \in Threads, lock_free(t)
    PROVE  Inv'
<1>1. pc[t] \in WithMutex /\ addr[t] \in MutexAddrs
  BY DEF lock_free, Inv, Locals, WithMutex, AtState
<1>2. held' \in [Threads -> [MutexAddrs -> Int]]
  BY <1>1, SetHeldType DEF lock_free, Inv
<1> QED
  <2>1. 0 \in Codes /\ 1 \in Nat \ {0}
    BY CodesFact
  <2>2. /\ owner' = [owner EXCEPT ![mx[t]] = t] /\ locks' = [locks EXCEPT ![mx[t]] = 1]
        /\ Return(t, 0, pc) /\ UNCHANGED <<mapVars, mtype>>
    BY DEF lock_free
  <2> QED
    BY <1>1, <1>2, <2>1, <2>2, TakeReturnInv

LEMMA lock_again_Inv ==
    ASSUME Inv, NEW t \in Threads, lock_again(t)
    PROVE  Inv'
<1>1. pc[t] \in WithMutex /\ addr[t] \in MutexAddrs /\ mx[t] \in MutexArcs
  BY DEF lock_again, Inv, Locals, WithMutex, AtState
<1>2. CASE mtype[mx[t]] = "ErrorCheck"
  BY <1>2, PlainReturnInv, NothingWakes, CodesFact DEF lock_again, Inv, TypeOK
<1>3. CASE mtype[mx[t]] # "ErrorCheck"
  <2>1. held[t][addr[t]] + 1 \in Int /\ locks[mx[t]] + 1 \in Nat \ {0}
    BY <1>1 DEF Inv, TypeOK
  <2>2. held' \in [Threads -> [MutexAddrs -> Int]]
    BY <1>1, <1>3, <2>1, SetHeldType DEF lock_again, Inv
  <2>3. owner' = [owner EXCEPT ![mx[t]] = t]
    BY <1>1 DEF lock_again, Inv, TypeOK
  <2>4. /\ locks' = [locks EXCEPT ![mx[t]] = locks[mx[t]] + 1]
        /\ Return(t, 0, pc) /\ UNCHANGED <<mapVars, mtype>>
    BY <1>3 DEF lock_again
  <2> QED
    BY <1>1, <2>1, <2>2, <2>3, <2>4, TakeReturnInv, CodesFact
<1> QED
  BY <1>2, <1>3

LEMMA lock_contended_Inv ==
    ASSUME Inv, NEW t \in Threads, lock_contended(t)
    PROVE  Inv'
<1>1. pc[t] \in WithMutex /\ "parked" \in PCs
      /\ "parked" \notin Suspended \cup {"cond_gate", "lazy", "cond_lookup"}
  BY DEF lock_contended, WithMutex, AtState, PCs, Parked, Suspended
<1>2. CASE Goto(t, "parked") /\ UNCHANGED <<mx, cv, addr, timed, saved, ret>>
  BY <1>1, <1>2, GotoInv DEF lock_contended, Inv, TypeOK
<1>3. CASE timed[t] /\ Return(t, ETIMEDOUT, pc)
  BY <1>3, PlainReturnInv, NothingWakes, CodesFact DEF lock_contended, Inv, TypeOK, stateVars
<1> QED
  BY <1>2, <1>3 DEF lock_contended

LEMMA lock_wakeup_Inv ==
    ASSUME Inv, NEW t \in Threads, lock_wakeup(t)
    PROVE  Inv'
<1>1. pc[t] \in WithMutex /\ "lock_state" \in PCs
      /\ "lock_state" \notin Suspended \cup Parked \cup {"cond_gate", "lazy", "cond_lookup"}
  BY DEF lock_wakeup, WithMutex, AtState, PCs, Parked, Suspended
<1> QED
  BY <1>1, GotoInv DEF lock_wakeup, Inv, TypeOK

LEMMA lock_timeout_Inv ==
    ASSUME Inv, NEW t \in Threads, lock_timeout(t)
    PROVE  Inv'
BY PlainReturnInv, NothingWakes, CodesFact DEF lock_timeout, Inv, TypeOK, stateVars

LEMMA mutex_unlock_state_Inv ==
    ASSUME Inv, NEW t \in Threads, mutex_unlock_state(t)
    PROVE  Inv'
<1>1. pc[t] \in WithMutex /\ addr[t] \in MutexAddrs /\ mx[t] \in MutexArcs
  BY DEF mutex_unlock_state, Inv, Locals, WithMutex, AtState
<1>2. CASE owner[mx[t]] # t
  BY <1>2, PlainReturnInv, NothingWakes, CodesFact DEF mutex_unlock_state, Inv, TypeOK
<1>3. CASE owner[mx[t]] = t
  <2>1. locks[mx[t]] \in Nat \ {0} /\ held[t][addr[t]] - 1 \in Int
    BY <1>1, <1>3, DistinctNone DEF Inv, TypeOK, OwnerCounted
  <2>2. /\ locks' = [locks EXCEPT ![mx[t]] = locks[mx[t]] - 1]
        /\ SetHeld(t, held[t][addr[t]] - 1) /\ UNCHANGED <<mapVars, mtype>>
    BY <1>3 DEF mutex_unlock_state
  <2>3. held' \in [Threads -> [MutexAddrs -> Int]]
    BY <1>1, <2>1, <2>2, SetHeldType DEF Inv
  <2>4. CASE locks[mx[t]] = 1
    <3>1. /\ owner' = [owner EXCEPT ![mx[t]] = NoThread]
          /\ locks' = [locks EXCEPT ![mx[t]] = 0]
          /\ Return(t, 0, Notified(mx[t]))
      BY <1>3, <2>2, <2>4 DEF mutex_unlock_state
    <3> QED
      BY <1>1, <2>2, <2>3, <3>1, FreeReturnInv, CodesFact
  <2>5. CASE locks[mx[t]] # 1
    <3>1. owner' = [owner EXCEPT ![mx[t]] = t] /\ Return(t, 0, pc)
      BY <1>1, <1>3, <2>5 DEF mutex_unlock_state, Inv, TypeOK
    <3>2. locks[mx[t]] - 1 \in Nat \ {0}
      BY <2>1, <2>5
    <3> QED
      BY <1>1, <2>2, <2>3, <3>1, <3>2, TakeReturnInv, CodesFact
  <2> QED
    BY <2>4, <2>5
<1> QED
  BY <1>2, <1>3

LEMMA try_collides_Inv ==
    ASSUME Inv, NEW t \in Threads, try_collides(t)
    PROVE  Inv'
BY PlainReturnInv, NothingWakes, CodesFact DEF try_collides, Inv, TypeOK, stateVars

LEMMA try_state_Inv ==
    ASSUME Inv, NEW t \in Threads, try_state(t)
    PROVE  Inv'
<1>1. pc[t] \in WithMutex /\ addr[t] \in MutexAddrs /\ mx[t] \in MutexArcs
  BY DEF try_state, Inv, Locals, WithMutex, AtState
<1>2. CASE owner[mx[t]] = NoThread
  <2>1. /\ owner' = [owner EXCEPT ![mx[t]] = t] /\ locks' = [locks EXCEPT ![mx[t]] = 1]
        /\ SetHeld(t, 1) /\ Return(t, 0, pc) /\ UNCHANGED <<mapVars, mtype>>
    BY <1>2, DistinctNone DEF try_state
  <2>2. held' \in [Threads -> [MutexAddrs -> Int]]
    BY <1>1, <2>1, SetHeldType DEF Inv
  <2>3. 0 \in Codes /\ 1 \in Nat \ {0}
    BY CodesFact
  <2> QED
    BY <1>1, <2>1, <2>2, <2>3, TakeReturnInv
<1>3. CASE owner[mx[t]] = t /\ mtype[mx[t]] = "Recursive"
  <2>1. held[t][addr[t]] + 1 \in Int /\ locks[mx[t]] + 1 \in Nat \ {0}
    BY <1>1 DEF Inv, TypeOK
  <2>2. /\ locks' = [locks EXCEPT ![mx[t]] = locks[mx[t]] + 1]
        /\ SetHeld(t, held[t][addr[t]] + 1)
        /\ Return(t, 0, pc) /\ UNCHANGED <<mapVars, mtype, owner>>
    BY <1>3, DistinctNone DEF try_state
  <2>3. held' \in [Threads -> [MutexAddrs -> Int]]
    BY <1>1, <2>1, <2>2, SetHeldType DEF Inv
  <2>4. owner' = [owner EXCEPT ![mx[t]] = t]
    BY <1>1, <1>3, <2>2 DEF Inv, TypeOK
  <2> QED
    BY <1>1, <2>1, <2>2, <2>3, <2>4, TakeReturnInv, CodesFact
<1>4. CASE owner[mx[t]] # NoThread /\ (owner[mx[t]] = t => mtype[mx[t]] # "Recursive")
  BY <1>4, PlainReturnInv, NothingWakes, CodesFact DEF try_state, Inv, TypeOK
<1> QED
  BY <1>2, <1>3, <1>4

LEMMA cond_init_Inv ==
    ASSUME Inv, NEW t \in Threads, NEW c \in CondAddrs, cond_init(t, c)
    PROVE  Inv'
<1>1. CASE Refuse(t, EBUSY)
  BY <1>1, RefuseInv, CodesFact
<1>2. CASE /\ \E v \in CondArcs : condvars' = [condvars EXCEPT ![c] = v]
           /\ ret' = [ret EXCEPT ![t] = 0]
           /\ UNCHANGED <<mutexes, stateVars, pc, mx, cv, addr, timed, saved, held>>
  <2>1. TypeOK'
    BY <1>2, CodesFact DEF Inv, TypeOK, stateVars
  <2>2. Locals' /\ OwnerCounted' /\ NobodyParkedOnFree'
    BY <1>2 DEF Inv, Locals, OwnerCounted, NobodyParkedOnFree, stateVars
  <2> QED
    BY <2>1, <2>2 DEF Inv
<1> QED
  BY <1>1, <1>2 DEF cond_init

LEMMA cond_destroy_Inv ==
    ASSUME Inv, NEW t \in Threads, NEW c \in CondAddrs, cond_destroy(t, c)
    PROVE  Inv'
<1> USE DEF cond_destroy, Inv
<1>1. TypeOK'
  BY CodesFact DEF TypeOK, stateVars
<1>2. Locals' /\ OwnerCounted' /\ NobodyParkedOnFree'
  BY DEF Locals, OwnerCounted, NobodyParkedOnFree, stateVars
<1> QED
  BY <1>1, <1>2

\* Entering a wait, a signal or a broadcast: the condvar's Arc is cloned.
LEMMA EnterCondInv ==
    ASSUME Inv, NEW t \in Threads, NEW c \in CondAddrs,
           NEW l \in {"cond_lookup", "signal", "broadcast"},
           Goto(t, l), ret' = [ret EXCEPT ![t] = Pending],
           cv' = [cv EXCEPT ![t] = condvars[c]],
           addr' \in [Threads -> MutexAddrs \cup {NoAddr}],
           timed' \in [Threads -> BOOLEAN],
           \A u \in Threads : u # t => addr'[u] = addr[u],
           l = "cond_lookup" => addr'[t] \in MutexAddrs,
           UNCHANGED <<mapVars, stateVars, mx, saved, held>>
    PROVE  Inv'
<1> USE DEF Inv
<1>1. l \in PCs /\ l \notin WithMutex \cup {"lazy", "cond_gate"}
  BY DEF PCs, WithMutex, AtState, Parked, Suspended
<1>2. /\ pc' \in [Threads -> PCs] /\ pc'[t] = l
      /\ \A u \in Threads : u # t => pc'[u] = pc[u]
  BY <1>1 DEF TypeOK, Goto
<1>3. TypeOK'
  BY <1>2 DEF TypeOK, mapVars, stateVars
<1>4. Locals'
  BY <1>1, <1>2 DEF Locals, WithMutex
<1>5. OwnerCounted' /\ NobodyParkedOnFree'
  BY <1>1, <1>2 DEF OwnerCounted, NobodyParkedOnFree, stateVars, WithMutex
<1> QED
  BY <1>3, <1>4, <1>5

LEMMA cond_wait_Inv ==
    ASSUME Inv, NEW t \in Threads, NEW c \in CondAddrs, NEW a \in MutexAddrs,
           NEW b \in BOOLEAN, cond_wait(t, c, a, b)
    PROVE  Inv'
<1>1. CASE Refuse(t, EINVAL)
  BY <1>1, RefuseInv, CodesFact
<1>2. CASE ~Refuse(t, EINVAL)
  <2>1. /\ Goto(t, "cond_lookup") /\ ret' = [ret EXCEPT ![t] = Pending]
        /\ cv' = [cv EXCEPT ![t] = condvars[c]]
        /\ addr' = [addr EXCEPT ![t] = a] /\ timed' = [timed EXCEPT ![t] = b]
        /\ UNCHANGED <<mapVars, stateVars, mx, saved, held>>
    BY <1>2 DEF cond_wait
  <2>2. /\ addr' \in [Threads -> MutexAddrs \cup {NoAddr}] /\ addr'[t] \in MutexAddrs
        /\ \A u \in Threads : u # t => addr'[u] = addr[u]
        /\ timed' \in [Threads -> BOOLEAN]
    BY <2>1 DEF Inv, TypeOK
  <2> QED
    BY <2>1, <2>2, EnterCondInv
<1> QED
  BY <1>1, <1>2

LEMMA EnterSignal_Inv ==
    ASSUME Inv, NEW t \in Threads, NEW c \in CondAddrs,
           NEW l \in {"signal", "broadcast"}, EnterSignal(t, c, l)
    PROVE  Inv'
<1>1. CASE Refuse(t, 0)
  BY <1>1, RefuseInv, CodesFact
<1>2. CASE ~Refuse(t, 0)
  <2>1. /\ Goto(t, l) /\ ret' = [ret EXCEPT ![t] = Pending]
        /\ cv' = [cv EXCEPT ![t] = condvars[c]]
        /\ UNCHANGED <<mapVars, stateVars, mx, addr, timed, saved, held>>
    BY <1>2 DEF EnterSignal
  <2>2. /\ addr' \in [Threads -> MutexAddrs \cup {NoAddr}]
        /\ timed' \in [Threads -> BOOLEAN]
        /\ \A u \in Threads : u # t => addr'[u] = addr[u]
    BY <2>1 DEF Inv, TypeOK
  <2>3. l \in {"cond_lookup", "signal", "broadcast"} /\ l # "cond_lookup"
    OBVIOUS
  <2> QED
    BY <2>1, <2>2, <2>3, EnterCondInv
<1> QED
  BY <1>1, <1>2

LEMMA cond_wait_lookup_Inv ==
    ASSUME Inv, NEW t \in Threads, cond_wait_lookup(t)
    PROVE  Inv'
<1> USE DEF Inv
<1>1. CASE mutexes[addr[t]] = NoArc
  BY <1>1, PlainReturnInv, NothingWakes, CodesFact DEF cond_wait_lookup, TypeOK, stateVars
<1>2. CASE mutexes[addr[t]] # NoArc
  <2>1. /\ mx' = [mx EXCEPT ![t] = mutexes[addr[t]]] /\ Goto(t, "cond_enter")
        /\ UNCHANGED <<mapVars, stateVars, held, cv, addr, timed, saved, ret>>
    BY <1>2 DEF cond_wait_lookup
  <2>2. addr[t] \in MutexAddrs /\ mutexes[addr[t]] \in MutexArcs
    BY <1>2 DEF cond_wait_lookup, Locals, TypeOK
  <2>3. /\ "cond_enter" \in PCs
        /\ "cond_enter" \notin Parked \cup Suspended \cup {"cond_gate", "lazy", "cond_lookup"}
    BY DEF PCs, AtState, Parked, Suspended
  <2>4. /\ pc' \in [Threads -> PCs] /\ pc'[t] = "cond_enter"
        /\ \A u \in Threads : u # t => pc'[u] = pc[u] /\ mx'[u] = mx[u]
        /\ mx'[t] \in MutexArcs
    BY <2>1, <2>2, <2>3 DEF TypeOK, Goto
  <2>5. TypeOK'
    BY <2>1, <2>2, <2>4 DEF TypeOK, mapVars, stateVars
  <2>6. Locals'
    BY <2>1, <2>2, <2>3, <2>4 DEF Locals
  <2>7. OwnerCounted' /\ NobodyParkedOnFree'
    BY <2>1, <2>3, <2>4 DEF OwnerCounted, NobodyParkedOnFree, stateVars
  <2> QED
    BY <2>5, <2>6, <2>7
<1> QED
  BY <1>1, <1>2

LEMMA cond_wait_enter_Inv ==
    ASSUME Inv, NEW t \in Threads, cond_wait_enter(t)
    PROVE  Inv'
<1>1. CASE owner[mx[t]] # t
  BY <1>1, PlainReturnInv, NothingWakes, CodesFact DEF cond_wait_enter, Inv, TypeOK, stateVars
<1>2. CASE owner[mx[t]] = t
  <2>1. /\ pc[t] \in WithMutex /\ mx[t] \in MutexArcs /\ "cond_gate" \in PCs
        /\ "cond_gate" \notin Parked
    BY DEF cond_wait_enter, Inv, Locals, WithMutex, AtState, PCs, Parked
  <2>2. locks[mx[t]] \in Nat \ {0}
    BY <1>2, <2>1, DistinctNone DEF Inv, TypeOK, OwnerCounted
  <2>3. /\ saved' = [saved EXCEPT ![t] = locks[mx[t]]] /\ Goto(t, "cond_gate")
        /\ UNCHANGED <<mapVars, stateVars, mx, cv, addr, timed, ret, held>>
    BY <1>2 DEF cond_wait_enter
  <2>4. /\ saved' \in [Threads -> Nat] /\ saved'[t] # 0
        /\ \A u \in Threads : u # t => saved'[u] = saved[u]
    BY <2>2, <2>3 DEF Inv, TypeOK
  <2> QED
    BY <2>1, <2>3, <2>4, GotoInv DEF Inv, TypeOK
<1> QED
  BY <1>1, <1>2

LEMMA cond_wait_release_Inv ==
    ASSUME Inv, NEW t \in Threads, cond_wait_release(t)
    PROVE  Inv'
<1> USE DEF Inv
<1>1. /\ OnlyWakes(Notified(mx[t]))
      /\ \A u \in Threads : mx[u] = mx[t] => Notified(mx[t])[u] \notin Parked
  BY NotifiedWakes
<1>2. /\ "cond_block" \in PCs /\ "cond_block" \in Suspended
      /\ "cond_block" \notin Parked \cup {"lazy", "cond_lookup"}
      /\ mx[t] \in MutexArcs /\ addr[t] \in MutexAddrs /\ saved[t] # 0
  BY DEF cond_wait_release, Locals, WithMutex, AtState, PCs, Parked, Suspended
<1>3. /\ pc' \in [Threads -> PCs] /\ pc'[t] = "cond_block"
      /\ \A u \in Threads : u # t => pc'[u] = Notified(mx[t])[u]
  BY <1>1, <1>2 DEF cond_wait_release, OnlyWakes
<1>4. TypeOK'
  BY <1>3 DEF cond_wait_release, TypeOK, mapVars
<1>5. Locals'
  BY <1>1, <1>2, <1>3, WakeKeepsNeeds DEF cond_wait_release, Locals
<1>6. OwnerCounted'
  BY <1>2 DEF cond_wait_release, OwnerCounted, TypeOK
<1>7. NobodyParkedOnFree'
  <2> SUFFICES ASSUME NEW u \in Threads, pc'[u] \in Parked
               PROVE  owner'[mx'[u]] # NoThread
    BY DEF NobodyParkedOnFree
  <2>1. u # t /\ Notified(mx[t])[u] \in Parked /\ mx'[u] = mx[u]
    BY <1>2, <1>3 DEF cond_wait_release
  <2>2. pc[u] \in Parked /\ mx[u] # mx[t]
    BY <1>1, <2>1, WakeKeepsNeeds
  <2>3. mx[u] \in MutexArcs /\ owner[mx[u]] # NoThread
    BY <2>2 DEF Locals, WithMutex, NobodyParkedOnFree
  <2> QED
    BY <2>1, <2>2, <2>3 DEF cond_wait_release, TypeOK
<1> QED
  BY <1>4, <1>5, <1>6, <1>7

\* The steps of a wait that only move the thread on.
LEMMA cond_wait_moves_Inv ==
    ASSUME Inv, NEW t \in Threads,
           \/ cond_wait_block(t) \/ cond_wait_timeout(t) \/ cond_wait_wakeup(t)
           \/ cond_wait_woken(t) \/ relock_wakeup(t)
    PROVE  Inv'
<1>1. /\ {"cond_parked", "cond_woken", "relock"} \subseteq PCs \ (Parked \cup {"lazy", "cond_lookup"})
      /\ {"cond_block", "cond_parked", "cond_woken", "relock", "relock_parked"} \subseteq
           WithMutex \cap Suspended
  BY DEF PCs, Parked, AtState, Suspended, WithMutex
<1>2. CASE cond_wait_block(t)
  BY <1>1, <1>2, GotoInv DEF cond_wait_block, Inv, Locals, TypeOK
<1>3. CASE cond_wait_timeout(t)
  <2>1. ret' \in [Threads -> Codes \cup {Pending}]
    BY <1>3, CodesFact DEF cond_wait_timeout, Inv, TypeOK
  <2> QED
    BY <1>1, <1>3, <2>1, GotoInv DEF cond_wait_timeout, Inv, Locals, TypeOK
<1>4. CASE cond_wait_wakeup(t)
  BY <1>1, <1>4, GotoInv DEF cond_wait_wakeup, Inv, Locals, TypeOK
<1>5. CASE cond_wait_woken(t)
  BY <1>1, <1>5, GotoInv DEF cond_wait_woken, Inv, Locals, TypeOK
<1>6. CASE relock_wakeup(t)
  BY <1>1, <1>6, GotoInv DEF relock_wakeup, Inv, Locals, TypeOK
<1> QED
  BY <1>2, <1>3, <1>4, <1>5, <1>6

LEMMA cond_wait_relock_Inv ==
    ASSUME Inv, NEW t \in Threads, cond_wait_relock(t)
    PROVE  Inv'
<1>1. /\ pc[t] \in WithMutex /\ saved[t] \in Nat \ {0}
      /\ "relock_parked" \in PCs /\ "relock_parked" \notin {"lazy", "cond_lookup"}
  BY DEF cond_wait_relock, Inv, Locals, TypeOK, WithMutex, AtState, Suspended, PCs, Parked
<1>2. CASE owner[mx[t]] = NoThread
  <2>1. PICK r \in Codes : Return(t, r, pc)
    BY <1>2, CodesFact DEF cond_wait_relock
  <2>2. /\ owner' = [owner EXCEPT ![mx[t]] = t] /\ locks' = [locks EXCEPT ![mx[t]] = saved[t]]
        /\ UNCHANGED <<mapVars, mtype, held>>
    BY <1>2 DEF cond_wait_relock
  <2> QED
    BY <1>1, <2>1, <2>2, TakeReturnInv DEF Inv, TypeOK
<1>3. CASE owner[mx[t]] # NoThread
  BY <1>1, <1>3, GotoInv DEF cond_wait_relock, Inv, TypeOK, stateVars
<1> QED
  BY <1>2, <1>3

LEMMA cond_notify_one_Inv ==
    ASSUME Inv, NEW t \in Threads, cond_notify_one(t)
    PROVE  Inv'
<1>1. CASE Return(t, 0, pc)
  BY <1>1, PlainReturnInv, NothingWakes, CodesFact DEF cond_notify_one, Inv, TypeOK, stateVars
<1>2. ASSUME NEW u \in ParkedOn(cv[t]), Return(t, 0, [pc EXCEPT ![u] = "cond_woken"])
      PROVE  Inv'
  <2>1. OnlyWakes([pc EXCEPT ![u] = "cond_woken"])
    BY <1>2 DEF OnlyWakes, ParkedOn, Inv, TypeOK, PCs, Suspended
  <2> QED
    BY <1>2, <2>1, PlainReturnInv, CodesFact DEF cond_notify_one, Inv, TypeOK, stateVars
<1> QED
  BY <1>1, <1>2 DEF cond_notify_one

LEMMA cond_notify_all_Inv ==
    ASSUME Inv, NEW t \in Threads, cond_notify_all(t)
    PROVE  Inv'
<1> DEFINE pcs == [u \in Threads |-> IF u \in ParkedOn(cv[t]) THEN "cond_woken" ELSE pc[u]]
<1>1. OnlyWakes(pcs)
  BY DEF OnlyWakes, ParkedOn, Inv, TypeOK, PCs, Suspended
<1>2. Return(t, 0, pcs)
  BY DEF cond_notify_all
<1> HIDE DEF pcs
<1> QED
  BY <1>1, <1>2, PlainReturnInv, CodesFact DEF cond_notify_all, Inv, TypeOK, stateVars

----------------------------------------------------------------------------
(* The theorems *)

LEMMA InitInv == Init => Inv
<1> SUFFICES ASSUME Init PROVE Inv
  OBVIOUS
<1>1. TypeOK
  BY CodesFact DEF Init, TypeOK, MutexType, PCs
<1>2. Locals
  BY DEF Init, Locals, WithMutex, AtState, Parked, Suspended
<1>3. OwnerCounted /\ NobodyParkedOnFree
  BY DEF Init, OwnerCounted, NobodyParkedOnFree, Parked
<1> QED
  BY <1>1, <1>2, <1>3 DEF Inv

LEMMA CallInv ==
    ASSUME Inv, NEW t \in Threads, Call(t)
    PROVE  Inv'
<1>1. ASSUME NEW a \in MutexAddrs,
             \/ mutex_init_new(t, a) \/ mutex_init_existing(t, a) \/ mutex_destroy(t, a)
             \/ mutex_lock(t, a) \/ mutex_timedlock(t, a) \/ mutex_trylock(t, a)
             \/ mutex_unlock(t, a)
      PROVE  Inv'
  BY <1>1, mutex_init_new_Inv, mutex_destroy_Inv, mutex_lock_Inv
<1>2. ASSUME NEW c \in CondAddrs, cond_signal(t, c) \/ cond_broadcast(t, c)
      PROVE  Inv'
  BY <1>2, EnterSignal_Inv DEF cond_signal, cond_broadcast
<1>3. ASSUME NEW c \in CondAddrs, cond_init(t, c) \/ cond_destroy(t, c)
      PROVE  Inv'
  BY <1>3, cond_init_Inv, cond_destroy_Inv
<1>4. ASSUME NEW c \in CondAddrs, NEW a \in MutexAddrs, NEW b \in BOOLEAN,
             cond_wait(t, c, a, b)
      PROVE  Inv'
  BY <1>4, cond_wait_Inv
<1> QED
  BY <1>1, <1>2, <1>3, <1>4 DEF Call

LEMMA StepInv ==
    ASSUME Inv, NEW t \in Threads, Step(t) \/ SpuriousWakeup(t)
    PROVE  Inv'
<1>1. CASE Step(t)
  BY <1>1, mutex_init_state_Inv, mutex_lock_lazy_Inv, lock_free_Inv, lock_again_Inv,
     lock_contended_Inv, lock_timeout_Inv, mutex_unlock_state_Inv, try_collides_Inv,
     try_state_Inv, cond_wait_lookup_Inv, cond_wait_enter_Inv, cond_wait_release_Inv,
     cond_wait_moves_Inv, cond_wait_relock_Inv, cond_notify_one_Inv, cond_notify_all_Inv
     DEF Step
<1>2. CASE SpuriousWakeup(t)
  BY <1>2, lock_wakeup_Inv, cond_wait_moves_Inv DEF SpuriousWakeup
<1> QED
  BY <1>1, <1>2

LEMMA StutterInv == Inv /\ UNCHANGED vars => Inv'
BY DEF Inv, TypeOK, Locals, OwnerCounted, NobodyParkedOnFree, vars, mapVars, stateVars,
       localVars

\* The inductive invariant holds in every reachable state.
THEOREM Invariance == Spec => []Inv
<1>1. Inv /\ [Next]_vars => Inv'
  BY CallInv, StepInv, StutterInv DEF Next
<1> QED
  BY InitInv, <1>1, PTL DEF Spec

\* Every variable of the manager keeps its type, whatever the guest calls; in
\* particular no recursion count goes below zero.
THEOREM TypeCorrect == Spec => []TypeOK
BY Invariance, PTL DEF Inv

\* No thread is ever left asleep on a mutex without an owner: each of the
\* three ways a mutex becomes free wakes those parked on it.
THEOREM NoSleepOnFree == Spec => []NobodyParkedOnFree
BY Invariance, PTL DEF Inv

----------------------------------------------------------------------------
(* No lost wakeup *)

\* Nobody moves a thread that is inside a signal but itself.
LEMMA SignallerStays ==
    ASSUME TypeOK, NEW t \in Threads, NEW u \in Threads, u # t, pc[t] \in {"signal", "broadcast"},
           Call(u) \/ Step(u) \/ SpuriousWakeup(u)
    PROVE  pc'[t] = pc[t]
<1>1. ASSUME NEW l, Goto(u, l) PROVE pc'[t] = pc[t]
  BY <1>1 DEF Goto, TypeOK
<1>2. ASSUME NEW r, NEW pcs, OnlyWakes(pcs), Return(u, r, pcs) PROVE pc'[t] = pc[t]
  BY <1>2 DEF Return, OnlyWakes
<1>3. ASSUME NEW a, NEW l, NEW b, EnterMutexCall(u, a, l, b) PROVE pc'[t] = pc[t]
  BY <1>3 DEF EnterMutexCall, TypeOK
<1>4. ASSUME NEW r, Refuse(u, r) PROVE pc'[t] = pc[t]
  BY <1>4 DEF Refuse
<1>5. OnlyWakes(pc) /\ OnlyWakes(Notified(mx[u]))
  BY NothingWakes, NotifiedWakes
<1>6. CASE Call(u)
  <2>1. ASSUME NEW a \in MutexAddrs,
               \/ mutex_init_new(u, a) \/ mutex_init_existing(u, a) \/ mutex_destroy(u, a)
               \/ mutex_lock(u, a) \/ mutex_timedlock(u, a) \/ mutex_trylock(u, a)
               \/ mutex_unlock(u, a)
        PROVE  pc'[t] = pc[t]
    BY <1>3, <1>4, <2>1 DEF mutex_init_new, mutex_init_existing, mutex_destroy, mutex_lock,
       mutex_timedlock, mutex_trylock, mutex_unlock
  <2>2. ASSUME NEW c \in CondAddrs,
               \/ cond_init(u, c) \/ cond_destroy(u, c) \/ cond_signal(u, c) \/ cond_broadcast(u, c)
               \/ \E a \in MutexAddrs, b \in BOOLEAN : cond_wait(u, c, a, b)
        PROVE  pc'[t] = pc[t]
    BY <1>1, <1>4, <2>2 DEF cond_init, cond_destroy, cond_signal, cond_broadcast, EnterSignal, cond_wait
  <2> QED
    BY <1>6, <2>1, <2>2 DEF Call
<1>7. CASE mutex_init_state(u) \/ mutex_lock_lazy(u) \/ lock_free(u) \/ lock_again(u)
  BY <1>1, <1>2, <1>5, <1>7 DEF mutex_init_state, mutex_lock_lazy, lock_free, lock_again
<1>8. CASE lock_contended(u) \/ lock_timeout(u) \/ mutex_unlock_state(u)
  BY <1>1, <1>2, <1>5, <1>8 DEF lock_contended, lock_timeout, mutex_unlock_state
<1>9. CASE try_collides(u) \/ try_state(u) \/ cond_wait_lookup(u) \/ cond_wait_enter(u)
  BY <1>1, <1>2, <1>5, <1>9 DEF try_collides, try_state, cond_wait_lookup, cond_wait_enter
<1>10. CASE cond_wait_release(u)
  BY <1>5, <1>10 DEF cond_wait_release, OnlyWakes
<1>11. CASE cond_wait_block(u) \/ cond_wait_timeout(u) \/ cond_wait_woken(u) \/ cond_wait_relock(u)
  BY <1>1, <1>2, <1>5, <1>11 DEF cond_wait_block, cond_wait_timeout, cond_wait_woken, cond_wait_relock
<1>12. CASE SpuriousWakeup(u)
  BY <1>1, <1>12 DEF SpuriousWakeup, lock_wakeup, cond_wait_wakeup, relock_wakeup
<1>13. CASE cond_notify_one(u)
  <2>1. \A v \in ParkedOn(cv[u]) : OnlyWakes([pc EXCEPT ![v] = "cond_woken"])
    BY <1>5 DEF OnlyWakes, ParkedOn, TypeOK, PCs, Suspended
  <2> QED
    BY <1>2, <1>5, <1>13, <2>1 DEF cond_notify_one
<1>14. CASE cond_notify_all(u)
  <2> DEFINE pcs == [v \in Threads |-> IF v \in ParkedOn(cv[u]) THEN "cond_woken" ELSE pc[v]]
  <2>1. OnlyWakes(pcs)
    BY <1>5 DEF OnlyWakes, ParkedOn, TypeOK, PCs, Suspended
  <2>2. \E r : Return(u, r, pcs)
    BY <1>14 DEF cond_notify_all
  <2> HIDE DEF pcs
  <2> QED
    BY <1>2, <2>1, <2>2
<1> QED
  BY <1>6, <1>7, <1>8, <1>9, <1>10, <1>11, <1>12, <1>13, <1>14 DEF Step

\* A thread inside a signal can only complete it.
LEMMA SignallerSignals ==
    ASSUME NEW t \in Threads, Call(t) \/ Step(t) \/ SpuriousWakeup(t)
    PROVE  /\ pc[t] = "signal" => cond_notify_one(t)
           /\ pc[t] = "broadcast" => cond_notify_all(t)
<1>1. CASE Call(t)
  <2>1. pc[t] = "guest"
    BY <1>1 DEF Call, mutex_init_new, mutex_init_existing, mutex_destroy, mutex_lock, mutex_timedlock,
       mutex_trylock, mutex_unlock, EnterMutexCall, Refuse, cond_init, cond_destroy, cond_signal,
       cond_broadcast, EnterSignal, cond_wait
  <2> QED
    BY <2>1
<1>2. CASE Step(t)
  BY <1>2 DEF Step, mutex_init_state, mutex_lock_lazy, lock_free, lock_again, lock_contended,
     lock_timeout, mutex_unlock_state, try_collides, try_state, cond_wait_lookup, cond_wait_enter,
     cond_wait_release, cond_wait_block, cond_wait_timeout, cond_wait_woken, cond_wait_relock,
     cond_notify_one, cond_notify_all
<1>3. CASE SpuriousWakeup(t)
  BY <1>3 DEF SpuriousWakeup, lock_wakeup, cond_wait_wakeup, relock_wakeup
<1> QED
  BY <1>1, <1>2, <1>3

\* Under wait_lock nobody is between the release of its mutex and its wait, so
\* whoever waits is parked where the signal reaches it.
LEMMA GateCatchesAll ==
    ASSUME NEW v, WaitLockFree(v)
    PROVE  Waiting(v) = ParkedOn(v)
  BY DEF WaitLockFree, Waiting, ParkedOn

\* cond_signal makes a thread that has released its mutex to wait runnable, and
\* cond_broadcast all of them, even if it comes between the release and the
\* wait: whatever the guest does, for any number of waiters.
THEOREM NoWakeupLost == Spec => NoLostWakeup
<1> DEFINE Signalled(t) ==
             /\ pc[t] = "signal" /\ pc'[t] = "guest" /\ Waiting(cv[t]) # {}
                  => \E u \in Waiting(cv[t]) : pc'[u] = "cond_woken"
             /\ pc[t] = "broadcast" /\ pc'[t] = "guest"
                  => \A u \in Waiting(cv[t]) : pc'[u] = "cond_woken"
<1>1. ASSUME Inv, Next, NEW t \in Threads PROVE Signalled(t)
  <2> SUFFICES ASSUME pc[t] \in {"signal", "broadcast"}, pc'[t] = "guest" PROVE Signalled(t)
    OBVIOUS
  <2>1. PICK u \in Threads : Call(u) \/ Step(u) \/ SpuriousWakeup(u)
    BY <1>1 DEF Next
  <2>2. u = t
    BY <1>1, <2>1, SignallerStays DEF Inv
  <2>3. /\ pc[t] = "signal" => cond_notify_one(t)
        /\ pc[t] = "broadcast" => cond_notify_all(t)
    BY <2>1, <2>2, SignallerSignals
  <2>4. pc \in [Threads -> PCs]
    BY <1>1 DEF Inv, TypeOK
  <2>5. CASE pc[t] = "signal"
    <3>1. cond_notify_one(t) /\ Waiting(cv[t]) = ParkedOn(cv[t])
      BY <2>3, <2>5, GateCatchesAll DEF cond_notify_one
    <3>2. CASE ParkedOn(cv[t]) = {}
      BY <2>5, <3>1, <3>2
    <3>3. ASSUME NEW w \in ParkedOn(cv[t]), Return(t, 0, [pc EXCEPT ![w] = "cond_woken"])
          PROVE  Signalled(t)
      <4>1. w \in Threads /\ w # t
        BY <2>5, <3>3 DEF ParkedOn
      <4>2. pc'[w] = "cond_woken"
        BY <2>4, <3>3, <4>1 DEF Return
      <4> QED
        BY <2>5, <3>1, <4>2
    <3> QED
      BY <3>1, <3>2, <3>3 DEF cond_notify_one
  <2>6. CASE pc[t] = "broadcast"
    <3>1. cond_notify_all(t) /\ Waiting(cv[t]) = ParkedOn(cv[t])
      BY <2>3, <2>6, GateCatchesAll DEF cond_notify_all
    <3>2. ASSUME NEW w \in ParkedOn(cv[t]) PROVE pc'[w] = "cond_woken"
      BY <2>4, <2>6, <3>1 DEF cond_notify_all, Return, ParkedOn
    <3> QED
      BY <2>6, <3>1, <3>2
  <2> QED
    BY <2>5, <2>6
<1>2. Inv /\ [Next]_vars => [\A t \in Threads : Signalled(t)]_vars
  BY <1>1
<1> QED
  BY <1>2, Invariance, PTL DEF Spec, NoLostWakeup

----------------------------------------------------------------------------
(***************************************************************************)
(* What a careful guest is promised, for every set of threads, addresses   *)
(* and Arcs and every recursion depth: what a thread believes it holds is  *)
(* what the kernel has recorded, and the manager implements GuestMutex.    *)
(*                                                                         *)
(* Both rest on this: the map names an object by one address (OneName),    *)
(* and, since nobody destroys a mutex in use, the Arc a call has cloned is *)
(* still the one its address maps to (CallsCurrent).                       *)
(***************************************************************************)

OneName ==
    \A a, b \in MutexAddrs : mutexes[a] # NoArc /\ mutexes[a] = mutexes[b] => a = b

CallsCurrent == \A t \in Threads : pc[t] \in WithMutex => mx[t] = mutexes[addr[t]]

\* A thread about to give the mutex up for a wait has it, at the saved depth.
Gated ==
    \A t \in Threads : pc[t] = "cond_gate" => owner[mx[t]] = t /\ locks[mx[t]] = saved[t]

\* A suspended thread has its depth on deposit.
Deposited == \A t \in Threads : pc[t] \in Suspended => held[t][addr[t]] = saved[t]

\* The owner of a mapped mutex knows, and knows the depth.
OwnerKnows ==
    \A t \in Threads, a \in MutexAddrs :
        mutexes[a] # NoArc /\ owner[mutexes[a]] = t => held[t][a] = locks[mutexes[a]]

\* The inductive invariant of a careful guest.
GuestInv == /\ OneName /\ CallsCurrent /\ Gated /\ Deposited /\ OwnerKnows
            /\ BeliefMatchesState

\* A step of the manager as the guest sees it.
GuestStep == [Abs!Next]_(Abs!vars)

\* A step that changes no mutex, no entry of the map and no belief, and takes
\* no thread into or out of a wait.
Quiet ==
    /\ UNCHANGED <<mutexes, owner, locks, held>>
    /\ \A u \in Threads :
          /\ pc'[u] \in Suspended <=> pc[u] \in Suspended
          /\ pc[u] \in Suspended => addr'[u] = addr[u] /\ saved'[u] = saved[u]
          /\ pc'[u] \in WithMutex => mx'[u] = mutexes[addr'[u]]
          /\ pc'[u] = "cond_gate" => owner[mx'[u]] = u /\ locks[mx'[u]] = saved'[u]

----------------------------------------------------------------------------
(* Quiet steps *)

\* A quiet step is no step of the guest's mutexes.
LEMMA QuietKeeps ==
    ASSUME Inv, GuestInv, Quiet
    PROVE  GuestInv' /\ GuestStep
<1> USE DEF Quiet, GuestInv
<1>1. OneName' /\ CallsCurrent' /\ Gated'
  BY DEF OneName, CallsCurrent, Gated
<1>2. Deposited' /\ OwnerKnows'
  BY DEF Deposited, OwnerKnows
<1>3. BeliefMatchesState'
  BY DEF BeliefMatchesState
<1>4. AbsHolder' = AbsHolder /\ AbsDepth' = AbsDepth
  BY DEF AbsHolder, AbsDepth
<1>5. AbsResume' = AbsResume
  <2>1. ASSUME NEW u \in Threads, NEW a \in MutexAddrs
        PROVE  (IF pc'[u] \in Suspended /\ addr'[u] = a THEN saved'[u] ELSE 0)
                 = (IF pc[u] \in Suspended /\ addr[u] = a THEN saved[u] ELSE 0)
    OBVIOUS
  <2> QED
    BY <2>1 DEF AbsResume
<1> QED
  BY <1>1, <1>2, <1>3, <1>4, <1>5 DEF GuestStep, Abs!vars

\* A call that touches nothing but its return code and the condvars.
LEMMA NoMoveQuiet ==
    ASSUME GuestInv, UNCHANGED <<mutexes, owner, locks, held, pc, mx, addr, saved>>
    PROVE  Quiet
  BY DEF Quiet, GuestInv, CallsCurrent, Gated

LEMMA RefuseQuiet ==
    ASSUME GuestInv, NEW t, NEW r, Refuse(t, r)
    PROVE  Quiet
  BY NoMoveQuiet DEF Refuse, mapVars, stateVars

\* A call that returns, not from a wait, and perhaps wakes others.
LEMMA ReturnQuiet ==
    ASSUME Inv, GuestInv, NEW t \in Threads, NEW r, NEW pcs, OnlyWakes(pcs), Return(t, r, pcs),
           pc[t] \notin Suspended, UNCHANGED <<mutexes, owner, locks, held>>
    PROVE  Quiet
<1>1. "guest" \notin WithMutex \cup Suspended \cup {"cond_gate"}
  BY DEF WithMutex, AtState, Parked, Suspended
<1>2. /\ pc'[t] = "guest"
      /\ \A u \in Threads : u # t => /\ pc'[u] = pcs[u] /\ mx'[u] = mx[u]
                                     /\ addr'[u] = addr[u] /\ saved'[u] = saved[u]
  BY DEF Inv, TypeOK, Return, OnlyWakes
<1>3. ASSUME NEW u \in Threads
      PROVE  /\ pcs[u] \in Suspended <=> pc[u] \in Suspended
             /\ pcs[u] \in WithMutex <=> pc[u] \in WithMutex
             /\ pcs[u] = "cond_gate" <=> pc[u] = "cond_gate"
  BY DEF OnlyWakes, WithMutex, AtState, Parked, Suspended
<1> QED
  BY <1>1, <1>2, <1>3 DEF Quiet, GuestInv, CallsCurrent, Gated

\* A step that only moves the program counter of t.
LEMMA GotoQuiet ==
    ASSUME Inv, GuestInv, NEW t \in Threads, NEW l, Goto(t, l),
           UNCHANGED <<mutexes, owner, locks, held, mx, addr, saved>>,
           l \in Suspended <=> pc[t] \in Suspended, l \in WithMutex => pc[t] \in WithMutex,
           l # "cond_gate"
    PROVE  Quiet
<1>1. pc'[t] = l /\ \A u \in Threads : u # t => pc'[u] = pc[u]
  BY DEF Inv, TypeOK, Goto
<1> QED
  BY <1>1 DEF Quiet, GuestInv, CallsCurrent, Gated

\* Entering a call on a mutex.
LEMMA EnterQuiet ==
    ASSUME Inv, GuestInv, NEW t \in Threads, NEW a \in MutexAddrs, NEW b,
           NEW l \in {"init_state", "lazy", "lock_state", "unlock_state", "try_state"},
           EnterMutexCall(t, a, l, b)
    PROVE  Quiet
<1>1. l \notin Suspended \cup {"cond_gate"} /\ "guest" \notin Suspended
  BY DEF Suspended
<1>2. /\ pc[t] = "guest" /\ pc'[t] = l /\ mx'[t] = mutexes[a] /\ addr'[t] = a
      /\ \A u \in Threads : u # t => /\ pc'[u] = pc[u] /\ mx'[u] = mx[u]
                                     /\ addr'[u] = addr[u] /\ saved'[u] = saved[u]
      /\ UNCHANGED <<mutexes, owner, locks, held>>
  BY DEF Inv, TypeOK, EnterMutexCall, mapVars, stateVars
<1> QED
  BY <1>1, <1>2 DEF Quiet, GuestInv, CallsCurrent, Gated

----------------------------------------------------------------------------
(* Steps that take or free a mutex *)

\* The call of t is on the object its address maps to, and on no other.
LEMMA CallFacts ==
    ASSUME Inv, GuestInv, NEW t \in Threads, pc[t] \in WithMutex
    PROVE  /\ addr[t] \in MutexAddrs /\ mx[t] \in MutexArcs /\ mx[t] # NoArc
           /\ mx[t] = mutexes[addr[t]]
           /\ \A b \in MutexAddrs : mutexes[b] = mx[t] => b = addr[t]
           /\ \A b \in MutexAddrs : mutexes[b] # NoArc => mutexes[b] \in MutexArcs
<1>1. addr[t] \in MutexAddrs /\ mx[t] \in MutexArcs /\ mx[t] # NoArc
  BY DistinctNone DEF Inv, Locals
<1>2. mx[t] = mutexes[addr[t]]
  BY DEF GuestInv, CallsCurrent
<1> QED
  BY <1>1, <1>2 DEF GuestInv, OneName, Inv, TypeOK

\* A returning call leaves its thread the owner, n deep, and the guest knows.
LEMMA TakeKeeps ==
    ASSUME Inv, GuestInv, NEW t \in Threads, NEW r, Return(t, r, pc), NEW n \in Nat,
           pc[t] \in WithMutex, owner[mx[t]] \in {NoThread, t}, UNCHANGED mutexes,
           owner' = [owner EXCEPT ![mx[t]] = t], locks' = [locks EXCEPT ![mx[t]] = n],
           held' = [held EXCEPT ![t][addr[t]] = n]
    PROVE  /\ GuestInv'
           /\ AbsHolder' = [AbsHolder EXCEPT ![addr[t]] = t]
           /\ AbsDepth' = [AbsDepth EXCEPT ![addr[t]] = n]
           /\ AbsResume' = [AbsResume EXCEPT ![t][addr[t]] = 0]
<1> DEFINE a == addr[t]
<1>1. /\ a \in MutexAddrs /\ mx[t] \in MutexArcs /\ mx[t] # NoArc /\ mx[t] = mutexes[a]
      /\ \A b \in MutexAddrs : mutexes[b] = mx[t] => b = a
      /\ \A b \in MutexAddrs : mutexes[b] # NoArc => mutexes[b] \in MutexArcs
  BY CallFacts
<1>2. "guest" \notin WithMutex \cup Suspended \cup {"cond_gate"}
  BY DEF WithMutex, AtState, Parked, Suspended
<1>3. /\ pc'[t] = "guest"
      /\ \A u \in Threads : u # t => /\ pc'[u] = pc[u] /\ mx'[u] = mx[u]
                                     /\ addr'[u] = addr[u] /\ saved'[u] = saved[u]
  BY DEF Inv, TypeOK, Return
<1>4. /\ owner'[mx[t]] = t /\ locks'[mx[t]] = n
      /\ \A m \in MutexArcs : m # mx[t] => owner'[m] = owner[m] /\ locks'[m] = locks[m]
  BY <1>1 DEF Inv, TypeOK
<1>5. /\ held'[t][a] = n
      /\ \A b \in MutexAddrs : b # a => held'[t][b] = held[t][b]
      /\ \A u \in Threads, b \in MutexAddrs : u # t => held'[u][b] = held[u][b]
  BY <1>1 DEF Inv, TypeOK
<1>6. \A u \in Threads : u # t => u # NoThread /\ owner[mx[t]] # u
  BY DistinctNone
<1>7. \A u \in Threads : pc[u] \in WithMutex => mx[u] \in MutexArcs /\ addr[u] \in MutexAddrs
  BY DEF Inv, Locals
<1> HIDE DEF a
<1>8. OneName' /\ CallsCurrent'
  BY <1>2, <1>3 DEF GuestInv, OneName, CallsCurrent
<1>9. Gated'
  <2> SUFFICES ASSUME NEW u \in Threads, pc'[u] = "cond_gate"
               PROVE  owner'[mx'[u]] = u /\ locks'[mx'[u]] = saved'[u]
    BY DEF Gated
  <2>1. u # t /\ pc[u] = "cond_gate" /\ mx'[u] = mx[u] /\ saved'[u] = saved[u]
    BY <1>2, <1>3
  <2>2. owner[mx[u]] = u /\ locks[mx[u]] = saved[u] /\ mx[u] \in MutexArcs
    BY <1>7, <2>1 DEF GuestInv, Gated, WithMutex, AtState
  <2> QED
    BY <1>4, <1>6, <2>1, <2>2
<1>10. Deposited'
  <2> SUFFICES ASSUME NEW u \in Threads, pc'[u] \in Suspended
               PROVE  held'[u][addr'[u]] = saved'[u]
    BY DEF Deposited
  <2>1. u # t /\ pc[u] \in Suspended /\ addr'[u] = addr[u] /\ saved'[u] = saved[u]
    BY <1>2, <1>3
  <2>2. addr[u] \in MutexAddrs /\ held[u][addr[u]] = saved[u]
    BY <1>7, <2>1 DEF GuestInv, Deposited, WithMutex
  <2> QED
    BY <1>5, <2>1, <2>2
<1>11. OwnerKnows'
  <2> SUFFICES ASSUME NEW u \in Threads, NEW b \in MutexAddrs, mutexes[b] # NoArc, owner'[mutexes[b]] = u
               PROVE  held'[u][b] = locks'[mutexes[b]]
    BY DEF OwnerKnows
  <2>1. CASE b = a
    BY <1>1, <1>4, <1>5, <2>1
  <2>2. CASE b # a
    BY <1>1, <1>4, <1>5, <2>2 DEF GuestInv, OwnerKnows
  <2> QED
    BY <2>1, <2>2
<1>12. BeliefMatchesState'
  <2> SUFFICES ASSUME NEW u \in Threads, NEW b \in MutexAddrs, held'[u][b] # 0,
                      ~(pc'[u] \in Suspended /\ addr'[u] = b)
               PROVE  /\ mutexes[b] # NoArc /\ owner'[mutexes[b]] = u
                      /\ locks'[mutexes[b]] = held'[u][b]
    BY DEF BeliefMatchesState
  <2>1. CASE u = t /\ b = a
    BY <1>1, <1>4, <1>5, <2>1
  <2>2. CASE ~(u = t /\ b = a)
    <3>1. held'[u][b] = held[u][b]
      BY <1>5, <2>2
    <3>2. ~(pc[u] \in Suspended /\ addr[u] = b)
      BY <1>3, <2>2 DEF a
    <3>3. mutexes[b] # NoArc /\ owner[mutexes[b]] = u /\ locks[mutexes[b]] = held[u][b]
      BY <3>1, <3>2 DEF GuestInv, BeliefMatchesState
    <3>4. mutexes[b] # mx[t]
      BY <1>1, <1>6, <2>2, <3>3
    <3> QED
      BY <1>1, <1>4, <3>1, <3>3, <3>4
  <2> QED
    BY <2>1, <2>2
<1>13. AbsHolder' = [AbsHolder EXCEPT ![a] = t] /\ AbsDepth' = [AbsDepth EXCEPT ![a] = n]
  <2>1. \A b \in MutexAddrs : b # a /\ mutexes[b] # NoArc =>
            owner'[mutexes[b]] = owner[mutexes[b]] /\ locks'[mutexes[b]] = locks[mutexes[b]]
    BY <1>1, <1>4
  <2>2. mutexes[a] # NoArc /\ owner'[mutexes[a]] = t /\ locks'[mutexes[a]] = n
    BY <1>1, <1>4
  <2> QED
    BY <2>1, <2>2 DEF AbsHolder, AbsDepth
<1>14. AbsResume' = [AbsResume EXCEPT ![t][a] = 0]
  <2> DEFINE deposit(u, b) == IF pc[u] \in Suspended /\ addr[u] = b THEN saved[u] ELSE 0
             deposit2(u, b) == IF pc'[u] \in Suspended /\ addr'[u] = b THEN saved'[u] ELSE 0
  <2>1. \A u \in Threads, b \in MutexAddrs : u # t => deposit2(u, b) = deposit(u, b)
    BY <1>3
  <2>2. \A b \in MutexAddrs : b # a => deposit(t, b) = 0
    BY DEF a
  <2>3. \A b \in MutexAddrs : deposit2(t, b) = 0
    BY <1>2, <1>3
  <2>4. /\ AbsResume = [u \in Threads |-> [b \in MutexAddrs |-> deposit(u, b)]]
        /\ AbsResume' = [u \in Threads |-> [b \in MutexAddrs |-> deposit2(u, b)]]
    BY DEF AbsResume
  <2> HIDE DEF deposit, deposit2
  <2> QED
    BY <1>1, <2>1, <2>2, <2>3, <2>4
<1> QED
  BY <1>8, <1>9, <1>10, <1>11, <1>12, <1>13, <1>14 DEF a, GuestInv

\* A step that frees the mutex its thread owns: the call returns, or goes on to
\* wait with its depth on deposit.
LEMMA FreeKeeps ==
    ASSUME Inv, GuestInv, NEW t \in Threads, pc[t] \in WithMutex \ Suspended,
           owner[mx[t]] = t, UNCHANGED mutexes,
           owner' = [owner EXCEPT ![mx[t]] = NoThread], locks' = [locks EXCEPT ![mx[t]] = 0],
           \A u \in Threads : u # t => /\ pc'[u] = Notified(mx[t])[u] /\ mx'[u] = mx[u]
                                       /\ addr'[u] = addr[u] /\ saved'[u] = saved[u],
           \/ pc'[t] = "guest" /\ held' = [held EXCEPT ![t][addr[t]] = 0]
           \/ /\ pc'[t] = "cond_block" /\ UNCHANGED held /\ locks[mx[t]] = saved[t]
              /\ mx'[t] = mx[t] /\ addr'[t] = addr[t] /\ saved'[t] = saved[t]
    PROVE  /\ GuestInv'
           /\ AbsHolder' = [AbsHolder EXCEPT ![addr[t]] = NoThread]
           /\ AbsDepth' = [AbsDepth EXCEPT ![addr[t]] = 0]
           /\ AbsResume' = IF pc'[t] = "guest" THEN AbsResume
                           ELSE [AbsResume EXCEPT ![t][addr[t]] = locks[mx[t]]]
<1> DEFINE a == addr[t]
<1>1. /\ a \in MutexAddrs /\ mx[t] \in MutexArcs /\ mx[t] # NoArc /\ mx[t] = mutexes[a]
      /\ \A b \in MutexAddrs : mutexes[b] = mx[t] => b = a
      /\ \A b \in MutexAddrs : mutexes[b] # NoArc => mutexes[b] \in MutexArcs
  BY CallFacts
<1>2. /\ "guest" \notin WithMutex \cup Suspended \cup {"cond_gate"}
      /\ "cond_block" \in Suspended /\ "cond_block" \in WithMutex
  BY DEF WithMutex, AtState, Parked, Suspended
<1>3. ASSUME NEW u \in Threads, u # t
      PROVE  /\ pc'[u] \in Suspended <=> pc[u] \in Suspended
             /\ pc'[u] \in WithMutex <=> pc[u] \in WithMutex
             /\ pc'[u] = "cond_gate" <=> pc[u] = "cond_gate"
  <2>1. OnlyWakes(Notified(mx[t])) /\ pc'[u] = Notified(mx[t])[u]
    BY <1>3, NotifiedWakes DEF Inv
  <2> QED
    BY <2>1 DEF OnlyWakes, WithMutex, AtState, Parked, Suspended
<1>4. /\ owner'[mx[t]] = NoThread /\ locks'[mx[t]] = 0
      /\ \A m \in MutexArcs : m # mx[t] => owner'[m] = owner[m] /\ locks'[m] = locks[m]
  BY <1>1 DEF Inv, TypeOK
<1>5. /\ \A b \in MutexAddrs : b # a => held'[t][b] = held[t][b]
      /\ \A u \in Threads, b \in MutexAddrs : u # t => held'[u][b] = held[u][b]
      /\ pc'[t] = "guest" => held'[t][a] = 0
      /\ pc'[t] = "cond_block" => held'[t][a] = held[t][a]
  BY <1>1, <1>2 DEF Inv, TypeOK
<1>6. held[t][a] = locks[mx[t]]
  BY <1>1 DEF GuestInv, OwnerKnows
<1>7. \A u \in Threads : pc[u] \in WithMutex => mx[u] \in MutexArcs /\ addr[u] \in MutexAddrs
  BY DEF Inv, Locals
<1>8. pc'[t] = "cond_block" => addr'[t] = a /\ mx'[t] = mx[t] /\ saved'[t] = locks[mx[t]]
  OBVIOUS
<1>9. pc'[t] \in {"guest", "cond_block"} /\ addr[t] = a /\ pc[t] \notin Suspended
  OBVIOUS
<1> HIDE DEF a
<1>10. OneName' /\ CallsCurrent'
  <2>1. OneName'
    BY DEF GuestInv, OneName
  <2>2. ASSUME NEW u \in Threads, pc'[u] \in WithMutex PROVE mx'[u] = mutexes[addr'[u]]
    <3>1. CASE u = t
      BY <1>1, <1>2, <1>8, <1>9, <2>2, <3>1
    <3>2. CASE u # t
      BY <1>3, <2>2, <3>2 DEF GuestInv, CallsCurrent
    <3> QED
      BY <3>1, <3>2
  <2> QED
    BY <2>1, <2>2 DEF CallsCurrent
<1>11. Gated'
  <2> SUFFICES ASSUME NEW u \in Threads, pc'[u] = "cond_gate"
               PROVE  owner'[mx'[u]] = u /\ locks'[mx'[u]] = saved'[u]
    BY DEF Gated
  <2>1. u # t
    BY <1>9
  <2>2. pc[u] = "cond_gate" /\ mx'[u] = mx[u] /\ saved'[u] = saved[u]
    BY <1>3, <2>1
  <2>3. owner[mx[u]] = u /\ locks[mx[u]] = saved[u] /\ mx[u] \in MutexArcs
    BY <1>7, <2>2 DEF GuestInv, Gated, WithMutex, AtState
  <2> QED
    BY <1>4, <2>1, <2>2, <2>3
<1>12. Deposited'
  <2> SUFFICES ASSUME NEW u \in Threads, pc'[u] \in Suspended
               PROVE  held'[u][addr'[u]] = saved'[u]
    BY DEF Deposited
  <2>1. CASE u = t
    BY <1>2, <1>5, <1>6, <1>8, <1>9, <2>1
  <2>2. CASE u # t
    <3>1. pc[u] \in Suspended /\ addr'[u] = addr[u] /\ saved'[u] = saved[u]
      BY <1>3, <2>2
    <3>2. addr[u] \in MutexAddrs /\ held[u][addr[u]] = saved[u]
      BY <1>7, <3>1 DEF GuestInv, Deposited, WithMutex
    <3> QED
      BY <1>5, <2>2, <3>1, <3>2
  <2> QED
    BY <2>1, <2>2
<1>13. OwnerKnows'
  <2> SUFFICES ASSUME NEW u \in Threads, NEW b \in MutexAddrs, mutexes[b] # NoArc, owner'[mutexes[b]] = u
               PROVE  held'[u][b] = locks'[mutexes[b]]
    BY DEF OwnerKnows
  <2>1. b # a
    BY <1>1, <1>4, DistinctNone
  <2>2. owner[mutexes[b]] = u /\ locks'[mutexes[b]] = locks[mutexes[b]]
    BY <1>1, <1>4, <2>1
  <2> QED
    BY <1>5, <2>1, <2>2 DEF GuestInv, OwnerKnows
<1>14. BeliefMatchesState'
  <2> SUFFICES ASSUME NEW u \in Threads, NEW b \in MutexAddrs, held'[u][b] # 0,
                      ~(pc'[u] \in Suspended /\ addr'[u] = b)
               PROVE  /\ mutexes[b] # NoArc /\ owner'[mutexes[b]] = u
                      /\ locks'[mutexes[b]] = held'[u][b]
    BY DEF BeliefMatchesState
  <2>1. ~(u = t /\ b = a)
    BY <1>2, <1>5, <1>8, <1>9
  <2>2. held'[u][b] = held[u][b]
    BY <1>5, <2>1
  <2>3. ~(pc[u] \in Suspended /\ addr[u] = b)
    BY <1>3, <1>9
  <2>4. mutexes[b] # NoArc /\ owner[mutexes[b]] = u /\ locks[mutexes[b]] = held[u][b]
    BY <2>2, <2>3 DEF GuestInv, BeliefMatchesState
  <2>5. mutexes[b] # mx[t]
    BY <1>1, <2>1, <2>4
  <2> QED
    BY <1>1, <1>4, <2>2, <2>4, <2>5
<1>15. AbsHolder' = [AbsHolder EXCEPT ![a] = NoThread] /\ AbsDepth' = [AbsDepth EXCEPT ![a] = 0]
  <2>1. \A b \in MutexAddrs : b # a /\ mutexes[b] # NoArc =>
            owner'[mutexes[b]] = owner[mutexes[b]] /\ locks'[mutexes[b]] = locks[mutexes[b]]
    BY <1>1, <1>4
  <2>2. mutexes[a] # NoArc /\ owner'[mutexes[a]] = NoThread /\ locks'[mutexes[a]] = 0
    BY <1>1, <1>4
  <2>3. UNCHANGED mutexes /\ a \in MutexAddrs
    BY <1>1
  <2>4. \A b \in MutexAddrs : /\ AbsHolder'[b] = IF b = a THEN NoThread ELSE AbsHolder[b]
                              /\ AbsDepth'[b] = IF b = a THEN 0 ELSE AbsDepth[b]
    BY <2>1, <2>2, <2>3 DEF AbsHolder, AbsDepth
  <2>5. /\ DOMAIN AbsHolder' = MutexAddrs /\ DOMAIN AbsHolder = MutexAddrs
        /\ DOMAIN AbsDepth' = MutexAddrs /\ DOMAIN AbsDepth = MutexAddrs
        /\ AbsHolder' = [b \in MutexAddrs |-> AbsHolder'[b]]
        /\ AbsDepth' = [b \in MutexAddrs |-> AbsDepth'[b]]
    BY DEF AbsHolder, AbsDepth
  <2> QED
    BY <2>3, <2>4, <2>5
<1>16. AbsResume' = IF pc'[t] = "guest" THEN AbsResume
                    ELSE [AbsResume EXCEPT ![t][a] = locks[mx[t]]]
  <2> DEFINE deposit(u, b) == IF pc[u] \in Suspended /\ addr[u] = b THEN saved[u] ELSE 0
             deposit2(u, b) == IF pc'[u] \in Suspended /\ addr'[u] = b THEN saved'[u] ELSE 0
  <2>1. \A u \in Threads, b \in MutexAddrs : u # t => deposit2(u, b) = deposit(u, b)
    BY <1>3
  <2>2. \A b \in MutexAddrs : deposit(t, b) = 0
    BY <1>9
  <2>3. \A b \in MutexAddrs : deposit2(t, b) = IF pc'[t] = "cond_block" /\ b = a THEN locks[mx[t]] ELSE 0
    BY <1>2, <1>8, <1>9
  <2>4. /\ AbsResume = [u \in Threads |-> [b \in MutexAddrs |-> deposit(u, b)]]
        /\ AbsResume' = [u \in Threads |-> [b \in MutexAddrs |-> deposit2(u, b)]]
    BY DEF AbsResume
  <2> HIDE DEF deposit, deposit2
  <2>5. CASE pc'[t] = "guest"
    BY <2>1, <2>2, <2>3, <2>4, <2>5
  <2>6. CASE pc'[t] # "guest"
    <3>1. \A b \in MutexAddrs : deposit2(t, b) = IF b = a THEN locks[mx[t]] ELSE deposit(t, b)
      BY <1>9, <2>2, <2>3, <2>6
    <3>2. AbsResume'[t] = [AbsResume[t] EXCEPT ![a] = locks[mx[t]]]
      BY <1>1, <2>4, <3>1
    <3>3. \A u \in Threads : u # t => AbsResume'[u] = AbsResume[u]
      BY <2>1, <2>4
    <3>4. /\ AbsResume = [u \in Threads |-> AbsResume[u]]
          /\ AbsResume' = [u \in Threads |-> AbsResume'[u]]
      BY <2>4
    <3> QED
      BY <2>6, <3>2, <3>3, <3>4
  <2> QED
    BY <2>5, <2>6
<1> QED
  BY <1>10, <1>11, <1>12, <1>13, <1>14, <1>15, <1>16 DEF a, GuestInv

\* The object mapped at an address that had none is free and known to nobody.
LEMMA InsertFresh ==
    ASSUME Inv, GuestInv, NEW a \in MutexAddrs, NEW m \in MutexArcs, NEW ty,
           UnusedMutexArc(m), InsertMutex(a, m, ty), mutexes[a] = NoArc, UNCHANGED held,
           UNCHANGED <<addr, saved>>,
           \A u \in Threads : /\ pc'[u] \in Suspended <=> pc[u] \in Suspended
                              /\ pc'[u] = "cond_gate" <=> pc[u] = "cond_gate"
                              /\ pc'[u] \in WithMutex =>
                                   \/ pc[u] \in WithMutex /\ mx'[u] = mx[u]
                                   \/ addr[u] = a /\ mx'[u] = m
    PROVE  GuestInv' /\ GuestStep
<1>1. /\ mutexes'[a] = m /\ m # NoArc
      /\ \A b \in MutexAddrs : b # a => mutexes'[b] = mutexes[b]
      /\ owner'[m] = NoThread /\ locks'[m] = 0
      /\ \A o \in MutexArcs : o # m => owner'[o] = owner[o] /\ locks'[o] = locks[o]
  BY DistinctNone DEF Inv, TypeOK, InsertMutex
<1>2. /\ \A b \in MutexAddrs : mutexes[b] # m
      /\ \A u \in Threads : mx[u] # m
  BY DEF UnusedMutexArc
<1>3. \A u \in Threads : pc[u] \in WithMutex =>
          mx[u] \in MutexArcs /\ addr[u] \in MutexAddrs /\ addr[u] # a /\ mx[u] = mutexes[addr[u]]
  BY DistinctNone DEF Inv, Locals, GuestInv, CallsCurrent
<1>4. \A b \in MutexAddrs : mutexes[b] # NoArc => mutexes[b] \in MutexArcs
  BY DEF Inv, TypeOK
<1>5. OneName'
  BY <1>1, <1>2 DEF GuestInv, OneName
<1>6. CallsCurrent'
  BY <1>1, <1>3 DEF CallsCurrent
<1>7. Gated'
  <2> SUFFICES ASSUME NEW u \in Threads, pc'[u] = "cond_gate"
               PROVE  owner'[mx'[u]] = u /\ locks'[mx'[u]] = saved'[u]
    BY DEF Gated
  <2>1. pc[u] = "cond_gate" /\ pc'[u] \in WithMutex /\ pc[u] \in WithMutex
    BY DEF WithMutex, AtState
  <2>2. mx'[u] = mx[u] /\ mx[u] \in MutexArcs /\ mx[u] # m
    BY <1>2, <1>3, <2>1
  <2> QED
    BY <1>1, <2>1, <2>2 DEF GuestInv, Gated
<1>8. Deposited'
  BY DEF GuestInv, Deposited
<1>9. OwnerKnows'
  BY <1>1, <1>2, <1>4, DistinctNone DEF GuestInv, OwnerKnows
<1>10. BeliefMatchesState'
  <2> SUFFICES ASSUME NEW u \in Threads, NEW b \in MutexAddrs, held[u][b] # 0,
                      ~(pc'[u] \in Suspended /\ addr'[u] = b)
               PROVE  /\ mutexes'[b] # NoArc /\ owner'[mutexes'[b]] = u
                      /\ locks'[mutexes'[b]] = held[u][b]
    BY DEF BeliefMatchesState
  <2>1. mutexes[b] # NoArc /\ owner[mutexes[b]] = u /\ locks[mutexes[b]] = held[u][b]
    BY DEF GuestInv, BeliefMatchesState
  <2> QED
    BY <1>1, <1>2, <1>4, <2>1
<1>11. AbsHolder' = AbsHolder /\ AbsDepth' = AbsDepth
  <2>1. ASSUME NEW b \in MutexAddrs
        PROVE  /\ (IF mutexes'[b] = NoArc THEN NoThread ELSE owner'[mutexes'[b]])
                    = (IF mutexes[b] = NoArc THEN NoThread ELSE owner[mutexes[b]])
               /\ (IF mutexes'[b] = NoArc THEN 0 ELSE locks'[mutexes'[b]])
                    = (IF mutexes[b] = NoArc THEN 0 ELSE locks[mutexes[b]])
    BY <1>1, <1>2, <1>4
  <2> QED
    BY <2>1 DEF AbsHolder, AbsDepth
<1>12. AbsResume' = AbsResume
  BY DEF AbsResume
<1> QED
  BY <1>5, <1>6, <1>7, <1>8, <1>9, <1>10, <1>11, <1>12 DEF GuestInv, GuestStep, Abs!vars

\* A careful guest destroys a mutex nobody holds, waits for or uses.
LEMMA DestroyKeeps ==
    ASSUME Inv, GuestInv, CarefulGuest, NEW t \in Threads, NEW a \in MutexAddrs, mutex_destroy(t, a)
    PROVE  GuestInv' /\ GuestStep
<1>1. /\ \A u \in Threads : held[u][a] = 0 /\ addr[u] # a
      /\ mutexes' = [mutexes EXCEPT ![a] = NoArc]
      /\ UNCHANGED <<owner, locks, pc, mx, addr, saved, held>>
  BY DEF mutex_destroy, MutexUnusedByGuest, stateVars
<1>2. mutexes'[a] = NoArc /\ \A b \in MutexAddrs : b # a => mutexes'[b] = mutexes[b]
  BY <1>1 DEF Inv, TypeOK
<1>3. \A u \in Threads : pc[u] \in WithMutex => addr[u] \in MutexAddrs /\ addr[u] # a
  BY <1>1 DEF Inv, Locals
<1>4. OneName' /\ CallsCurrent' /\ Gated' /\ Deposited'
  BY <1>1, <1>2, <1>3 DEF GuestInv, OneName, CallsCurrent, Gated, Deposited
<1>5. OwnerKnows' /\ BeliefMatchesState'
  BY <1>1, <1>2 DEF GuestInv, OwnerKnows, BeliefMatchesState
<1>6. mutexes[a] # NoArc => owner[mutexes[a]] = NoThread /\ locks[mutexes[a]] = 0
  <2> SUFFICES ASSUME mutexes[a] # NoArc PROVE owner[mutexes[a]] = NoThread /\ locks[mutexes[a]] = 0
    OBVIOUS
  <2>1. mutexes[a] \in MutexArcs /\ owner[mutexes[a]] \in Threads \cup {NoThread}
    BY DEF Inv, TypeOK
  <2>2. ASSUME owner[mutexes[a]] \in Threads PROVE FALSE
    <3>1. locks[mutexes[a]] = 0
      BY <1>1, <2>2 DEF GuestInv, OwnerKnows
    <3> QED
      BY <2>1, <2>2, <3>1, DistinctNone DEF Inv, OwnerCounted
  <2> QED
    BY <2>1, <2>2 DEF Inv, OwnerCounted
<1>7. AbsHolder' = AbsHolder /\ AbsDepth' = AbsDepth
  <2>1. ASSUME NEW b \in MutexAddrs
        PROVE  /\ (IF mutexes'[b] = NoArc THEN NoThread ELSE owner'[mutexes'[b]])
                    = (IF mutexes[b] = NoArc THEN NoThread ELSE owner[mutexes[b]])
               /\ (IF mutexes'[b] = NoArc THEN 0 ELSE locks'[mutexes'[b]])
                    = (IF mutexes[b] = NoArc THEN 0 ELSE locks[mutexes[b]])
    BY <1>1, <1>2, <1>6
  <2> QED
    BY <2>1 DEF AbsHolder, AbsDepth
<1>8. AbsResume' = AbsResume
  BY <1>1 DEF AbsResume
<1> QED
  BY <1>4, <1>5, <1>7, <1>8 DEF GuestInv, GuestStep, Abs!vars

----------------------------------------------------------------------------
(* What the steps are to the guest *)

\* The abstract state of the mutex a call is on.
LEMMA AbsFacts ==
    ASSUME Inv, GuestInv, NEW t \in Threads, pc[t] \in WithMutex
    PROVE  /\ addr[t] \in MutexAddrs
           /\ AbsHolder[addr[t]] = owner[mx[t]] /\ AbsDepth[addr[t]] = locks[mx[t]]
           /\ AbsResume[t][addr[t]] = IF pc[t] \in Suspended THEN saved[t] ELSE 0
           /\ pc[t] \notin Suspended => [AbsResume EXCEPT ![t][addr[t]] = 0] = AbsResume
<1>1. addr[t] \in MutexAddrs /\ mx[t] # NoArc /\ mx[t] = mutexes[addr[t]]
  BY CallFacts
<1>2. AbsHolder[addr[t]] = owner[mx[t]] /\ AbsDepth[addr[t]] = locks[mx[t]]
  BY <1>1 DEF AbsHolder, AbsDepth
<1>3. AbsResume[t][addr[t]] = IF pc[t] \in Suspended THEN saved[t] ELSE 0
  BY <1>1 DEF AbsResume
<1>4. AbsResume = [u \in Threads |-> [b \in MutexAddrs |-> AbsResume[u][b]]]
  BY DEF AbsResume
<1>5. pc[t] \notin Suspended => [AbsResume EXCEPT ![t][addr[t]] = 0] = AbsResume
  BY <1>3, <1>4
<1> QED
  BY <1>1, <1>2, <1>3, <1>5

\* A call that returns with the mutex one, one more or one fewer deep.
LEMMA Acquires ==
    ASSUME Inv, GuestInv, NEW t \in Threads, NEW r, Return(t, r, pc),
           pc[t] \in WithMutex \ Suspended, UNCHANGED mutexes, NEW n \in Nat,
           \/ owner[mx[t]] = NoThread /\ n = 1
           \/ owner[mx[t]] = t /\ n = locks[mx[t]] + 1
           \/ owner[mx[t]] = t /\ locks[mx[t]] # 1 /\ n = locks[mx[t]] - 1,
           owner' = [owner EXCEPT ![mx[t]] = t], locks' = [locks EXCEPT ![mx[t]] = n],
           held' = [held EXCEPT ![t][addr[t]] = n]
    PROVE  GuestInv' /\ GuestStep
<1> DEFINE a == addr[t]
<1>1. /\ GuestInv'
      /\ AbsHolder' = [AbsHolder EXCEPT ![a] = t]
      /\ AbsDepth' = [AbsDepth EXCEPT ![a] = n]
      /\ AbsResume' = [AbsResume EXCEPT ![t][a] = 0]
  BY TakeKeeps
<1>2. /\ a \in MutexAddrs /\ AbsHolder[a] = owner[mx[t]] /\ AbsDepth[a] = locks[mx[t]]
      /\ AbsResume' = AbsResume
  BY <1>1, AbsFacts
<1>3. AbsHolder[a] = t => AbsHolder' = AbsHolder
  BY <1>1 DEF AbsHolder
<1> HIDE DEF a
<1>4. Abs!Acquire(t, a) \/ Abs!Nest(t, a) \/ Abs!Release(t, a)
  BY <1>1, <1>2, <1>3 DEF Abs!Acquire, Abs!Nest, Abs!Release
<1> QED
  BY <1>1, <1>2, <1>4 DEF GuestStep, Abs!Next

\* mutex_lock and mutex_timedlock get the mutex, or get it once more.
LEMMA lock_Guest ==
    ASSUME Inv, GuestInv, NEW t \in Threads, lock_free(t) \/ lock_again(t) \/ lock_contended(t)
    PROVE  GuestInv' /\ GuestStep
<1>1. pc[t] \in WithMutex \ Suspended /\ mx[t] \in MutexArcs /\ addr[t] \in MutexAddrs
  BY DEF lock_free, lock_again, lock_contended, Inv, Locals, WithMutex, AtState, Suspended
<1>2. CASE lock_free(t)
  <2>1. 1 \in Nat
    OBVIOUS
  <2> QED
    BY <1>1, <1>2, <2>1, Acquires DEF lock_free, SetHeld, mapVars
<1>3. CASE lock_again(t)
  <2>1. CASE mtype[mx[t]] = "ErrorCheck"
    BY <1>1, <1>3, <2>1, ReturnQuiet, NothingWakes, QuietKeeps DEF lock_again, Inv, mapVars
  <2>2. CASE mtype[mx[t]] # "ErrorCheck"
    <3>1. /\ owner[mx[t]] = t /\ UNCHANGED <<mutexes, owner>> /\ Return(t, 0, pc)
          /\ locks' = [locks EXCEPT ![mx[t]] = locks[mx[t]] + 1]
          /\ held' = [held EXCEPT ![t][addr[t]] = held[t][addr[t]] + 1]
      BY <1>3, <2>2 DEF lock_again, SetHeld, mapVars
    <3>2. owner' = [owner EXCEPT ![mx[t]] = t]
      BY <1>1, <3>1 DEF Inv, TypeOK
    <3>3. held[t][addr[t]] = locks[mx[t]] /\ locks[mx[t]] + 1 \in Nat
      BY <1>1, <3>1, CallFacts DEF GuestInv, OwnerKnows, Inv, TypeOK
    <3> QED
      BY <1>1, <3>1, <3>2, <3>3, Acquires
  <2> QED
    BY <2>1, <2>2
<1>4. CASE lock_contended(t)
  <2>1. "parked" \notin Suspended /\ "parked" # "cond_gate"
    BY DEF Suspended
  <2>2. CASE Goto(t, "parked") /\ UNCHANGED <<mx, cv, addr, timed, saved, ret>>
    BY <1>1, <1>4, <2>1, <2>2, GotoQuiet, QuietKeeps DEF lock_contended, mapVars, stateVars
  <2>3. CASE timed[t] /\ Return(t, ETIMEDOUT, pc)
    BY <1>1, <1>4, <2>3, ReturnQuiet, NothingWakes, QuietKeeps
       DEF lock_contended, Inv, mapVars, stateVars
  <2> QED
    BY <1>4, <2>2, <2>3 DEF lock_contended
<1> QED
  BY <1>2, <1>3, <1>4

\* mutex_unlock: the last one frees the mutex.
LEMMA unlock_Guest ==
    ASSUME Inv, GuestInv, NEW t \in Threads, mutex_unlock_state(t)
    PROVE  GuestInv' /\ GuestStep
<1>1. pc[t] \in WithMutex \ Suspended /\ mx[t] \in MutexArcs /\ addr[t] \in MutexAddrs
  BY DEF mutex_unlock_state, Inv, Locals, WithMutex, AtState, Suspended
<1>2. CASE owner[mx[t]] # t
  BY <1>1, <1>2, ReturnQuiet, NothingWakes, QuietKeeps DEF mutex_unlock_state, Inv, mapVars
<1>3. CASE owner[mx[t]] = t
  <2>1. /\ UNCHANGED mutexes
        /\ locks' = [locks EXCEPT ![mx[t]] = locks[mx[t]] - 1]
        /\ held' = [held EXCEPT ![t][addr[t]] = held[t][addr[t]] - 1]
    BY <1>3 DEF mutex_unlock_state, SetHeld, mapVars
  <2>2. held[t][addr[t]] = locks[mx[t]] /\ locks[mx[t]] \in Nat \ {0}
    BY <1>1, <1>3, CallFacts, DistinctNone DEF GuestInv, OwnerKnows, Inv, TypeOK, OwnerCounted
  <2>3. CASE locks[mx[t]] = 1
    <3>1. /\ owner' = [owner EXCEPT ![mx[t]] = NoThread] /\ Return(t, 0, Notified(mx[t]))
          /\ locks' = [locks EXCEPT ![mx[t]] = 0] /\ held' = [held EXCEPT ![t][addr[t]] = 0]
      BY <1>3, <2>1, <2>2, <2>3 DEF mutex_unlock_state
    <3>2. /\ pc'[t] = "guest"
          /\ \A u \in Threads : u # t => /\ pc'[u] = Notified(mx[t])[u] /\ mx'[u] = mx[u]
                                         /\ addr'[u] = addr[u] /\ saved'[u] = saved[u]
      BY <3>1 DEF Return, Notified, Inv, TypeOK
    <3> DEFINE a == addr[t]
    <3>3. /\ GuestInv'
          /\ AbsHolder' = [AbsHolder EXCEPT ![a] = NoThread]
          /\ AbsDepth' = [AbsDepth EXCEPT ![a] = 0] /\ AbsResume' = AbsResume
      BY <1>1, <1>3, <2>1, <3>1, <3>2, FreeKeeps
    <3>4. a \in MutexAddrs /\ AbsHolder[a] = t /\ AbsDepth[a] = 1
      BY <1>1, <1>3, <2>3, AbsFacts
    <3> HIDE DEF a
    <3>5. Abs!Release(t, a)
      BY <3>3, <3>4 DEF Abs!Release
    <3> QED
      BY <3>3, <3>4, <3>5 DEF GuestStep, Abs!Next
  <2>4. CASE locks[mx[t]] # 1
    <3>1. owner' = [owner EXCEPT ![mx[t]] = t] /\ Return(t, 0, pc)
      BY <1>1, <1>3, <2>4 DEF mutex_unlock_state, Inv, TypeOK
    <3>2. locks[mx[t]] - 1 \in Nat /\ held' = [held EXCEPT ![t][addr[t]] = locks[mx[t]] - 1]
      BY <2>1, <2>2
    <3> QED
      BY <1>1, <1>3, <2>1, <2>4, <3>1, <3>2, Acquires
  <2> QED
    BY <2>3, <2>4
<1> QED
  BY <1>2, <1>3

\* mutex_trylock.
LEMMA try_Guest ==
    ASSUME Inv, GuestInv, NEW t \in Threads, try_state(t) \/ try_collides(t)
    PROVE  GuestInv' /\ GuestStep
<1>1. pc[t] \in WithMutex \ Suspended /\ mx[t] \in MutexArcs /\ addr[t] \in MutexAddrs
  BY DEF try_state, try_collides, Inv, Locals, WithMutex, AtState, Suspended
<1>2. CASE try_collides(t)
  BY <1>1, <1>2, ReturnQuiet, NothingWakes, QuietKeeps DEF try_collides, Inv, mapVars, stateVars
<1>3. CASE try_state(t) /\ owner[mx[t]] = NoThread
  <2>1. /\ owner' = [owner EXCEPT ![mx[t]] = t] /\ locks' = [locks EXCEPT ![mx[t]] = 1]
        /\ held' = [held EXCEPT ![t][addr[t]] = 1] /\ Return(t, 0, pc) /\ UNCHANGED mutexes
    BY <1>3, DistinctNone DEF try_state, SetHeld, mapVars
  <2>2. 1 \in Nat
    OBVIOUS
  <2> QED
    BY <1>1, <1>3, <2>1, <2>2, Acquires
<1>4. CASE try_state(t) /\ owner[mx[t]] = t /\ mtype[mx[t]] = "Recursive"
  <2>1. /\ UNCHANGED <<mutexes, owner>> /\ Return(t, 0, pc)
        /\ locks' = [locks EXCEPT ![mx[t]] = locks[mx[t]] + 1]
        /\ held' = [held EXCEPT ![t][addr[t]] = held[t][addr[t]] + 1]
    BY <1>4, DistinctNone DEF try_state, SetHeld, mapVars
  <2>2. owner' = [owner EXCEPT ![mx[t]] = t]
    BY <1>1, <1>4, <2>1 DEF Inv, TypeOK
  <2>3. held[t][addr[t]] = locks[mx[t]] /\ locks[mx[t]] + 1 \in Nat
    BY <1>1, <1>4, CallFacts DEF GuestInv, OwnerKnows, Inv, TypeOK
  <2> QED
    BY <1>1, <1>4, <2>1, <2>2, <2>3, Acquires
<1>5. CASE try_state(t) /\ owner[mx[t]] # NoThread /\ (owner[mx[t]] = t => mtype[mx[t]] # "Recursive")
  BY <1>1, <1>5, ReturnQuiet, NothingWakes, QuietKeeps DEF try_state, Inv, mapVars
<1> QED
  BY <1>2, <1>3, <1>4, <1>5

\* cond_wait gives the mutex up, and takes it back.
LEMMA release_Guest ==
    ASSUME Inv, GuestInv, NEW t \in Threads, cond_wait_release(t)
    PROVE  GuestInv' /\ GuestStep
<1> DEFINE a == addr[t]
<1>1. pc[t] = "cond_gate" /\ pc[t] \in WithMutex \ Suspended
  BY DEF cond_wait_release, WithMutex, AtState, Suspended
<1>2. owner[mx[t]] = t /\ locks[mx[t]] = saved[t]
  BY <1>1 DEF GuestInv, Gated
<1>3. /\ pc'[t] = "cond_block" /\ pc'[t] # "guest"
      /\ \A u \in Threads : u # t => pc'[u] = Notified(mx[t])[u]
      /\ UNCHANGED <<mutexes, held, mx, addr, saved>>
      /\ owner' = [owner EXCEPT ![mx[t]] = NoThread] /\ locks' = [locks EXCEPT ![mx[t]] = 0]
  BY DEF cond_wait_release, Notified, mapVars
<1>4. /\ GuestInv'
      /\ AbsHolder' = [AbsHolder EXCEPT ![a] = NoThread]
      /\ AbsDepth' = [AbsDepth EXCEPT ![a] = 0]
      /\ AbsResume' = [AbsResume EXCEPT ![t][a] = locks[mx[t]]]
  BY <1>1, <1>2, <1>3, FreeKeeps
<1>5. a \in MutexAddrs /\ AbsHolder[a] = t /\ AbsDepth[a] = locks[mx[t]]
  BY <1>1, <1>2, AbsFacts
<1> HIDE DEF a
<1>6. Abs!Suspend(t, a)
  BY <1>4, <1>5 DEF Abs!Suspend
<1> QED
  BY <1>4, <1>5, <1>6 DEF GuestStep, Abs!Next

LEMMA relock_Guest ==
    ASSUME Inv, GuestInv, NEW t \in Threads, cond_wait_relock(t)
    PROVE  GuestInv' /\ GuestStep
<1> DEFINE a == addr[t]
<1>1. pc[t] \in Suspended /\ pc[t] \in WithMutex /\ "relock_parked" \in Suspended
  BY DEF cond_wait_relock, WithMutex, Suspended
<1>2. saved[t] \in Nat /\ saved[t] > 0 /\ held[t][a] = saved[t]
  BY <1>1 DEF GuestInv, Deposited, Inv, Locals, TypeOK
<1>3. CASE owner[mx[t]] = NoThread
  <2>1. PICK r : Return(t, r, pc)
    BY <1>3 DEF cond_wait_relock
  <2>2. /\ owner' = [owner EXCEPT ![mx[t]] = t] /\ locks' = [locks EXCEPT ![mx[t]] = saved[t]]
        /\ UNCHANGED <<mutexes, held>>
    BY <1>3 DEF cond_wait_relock, mapVars
  <2>3. held' = [held EXCEPT ![t][addr[t]] = saved[t]]
    <3>1. held = [u \in Threads |-> [b \in MutexAddrs |-> held[u][b]]]
      BY DEF Inv, TypeOK
    <3> QED
      BY <1>2, <2>2, <3>1
  <2>4. /\ GuestInv'
        /\ AbsHolder' = [AbsHolder EXCEPT ![a] = t]
        /\ AbsDepth' = [AbsDepth EXCEPT ![a] = saved[t]]
        /\ AbsResume' = [AbsResume EXCEPT ![t][a] = 0]
    BY <1>1, <1>2, <1>3, <2>1, <2>2, <2>3, TakeKeeps
  <2>5. a \in MutexAddrs /\ AbsHolder[a] = NoThread /\ AbsResume[t][a] = saved[t]
    BY <1>1, <1>3, AbsFacts
  <2> HIDE DEF a
  <2>6. Abs!Resume(t, a)
    BY <1>2, <2>4, <2>5 DEF Abs!Resume
  <2> QED
    BY <2>4, <2>5, <2>6 DEF GuestStep, Abs!Next
<1>4. CASE owner[mx[t]] # NoThread
  BY <1>1, <1>4, GotoQuiet, QuietKeeps DEF cond_wait_relock, mapVars
<1> QED
  BY <1>3, <1>4

\* The calls that start something, and those that end at once.
LEMMA Call_Guest ==
    ASSUME Inv, GuestInv, CarefulGuest, NEW t \in Threads, Call(t)
    PROVE  GuestInv' /\ GuestStep
<1> USE DEF mapVars, stateVars
<1>1. ASSUME NEW a \in MutexAddrs, mutex_init_new(t, a)
      PROVE  GuestInv' /\ GuestStep
  <2> PICK m \in MutexArcs, ty \in MutexType : UnusedMutexArc(m) /\ InsertMutex(a, m, ty)
    BY <1>1 DEF mutex_init_new
  <2> QED
    BY <1>1, InsertFresh DEF mutex_init_new
<1>2. ASSUME NEW a \in MutexAddrs, mutex_destroy(t, a)
      PROVE  GuestInv' /\ GuestStep
  BY <1>2, DestroyKeeps
<1>3. ASSUME NEW a \in MutexAddrs,
             \/ mutex_init_existing(t, a) \/ mutex_lock(t, a) \/ mutex_timedlock(t, a)
             \/ mutex_trylock(t, a) \/ mutex_unlock(t, a)
      PROVE  Quiet
  <2>1. CASE mutex_init_existing(t, a)
    BY <2>1, EnterQuiet DEF mutex_init_existing
  <2>2. CASE mutex_lock(t, a)
    BY <2>2, EnterQuiet DEF mutex_lock
  <2>3. CASE mutex_timedlock(t, a)
    BY <2>3, EnterQuiet, RefuseQuiet DEF mutex_timedlock
  <2>4. CASE mutex_trylock(t, a)
    BY <2>4, EnterQuiet, RefuseQuiet DEF mutex_trylock
  <2>5. CASE mutex_unlock(t, a)
    BY <2>5, EnterQuiet, RefuseQuiet DEF mutex_unlock
  <2> QED
    BY <1>3, <2>1, <2>2, <2>3, <2>4, <2>5
<1>4. ASSUME NEW c \in CondAddrs, cond_init(t, c) \/ cond_destroy(t, c)
      PROVE  Quiet
  BY <1>4, NoMoveQuiet, RefuseQuiet DEF cond_init, cond_destroy
<1>5. {"guest", "signal", "broadcast", "cond_lookup"} \cap (Suspended \cup WithMutex) = {}
  BY DEF Suspended, WithMutex, AtState, Parked
<1>6. ASSUME NEW c \in CondAddrs, cond_signal(t, c) \/ cond_broadcast(t, c)
      PROVE  Quiet
  BY <1>5, <1>6, GotoQuiet, RefuseQuiet DEF cond_signal, cond_broadcast, EnterSignal
<1>7. ASSUME NEW c \in CondAddrs, NEW a \in MutexAddrs, NEW b \in BOOLEAN, cond_wait(t, c, a, b)
      PROVE  Quiet
  <2>1. CASE Refuse(t, EINVAL)
    BY <2>1, RefuseQuiet
  <2>2. CASE ~Refuse(t, EINVAL)
    <3>1. /\ pc[t] = "guest" /\ pc'[t] = "cond_lookup" /\ UNCHANGED <<mutexes, owner, locks, held, mx, saved>>
          /\ \A u \in Threads : u # t => pc'[u] = pc[u] /\ addr'[u] = addr[u]
      BY <1>7, <2>2 DEF cond_wait, Goto, Inv, TypeOK
    <3> QED
      BY <1>5, <3>1 DEF Quiet, GuestInv, CallsCurrent, Gated
  <2> QED
    BY <2>1, <2>2
<1> QED
  BY <1>1, <1>2, <1>3, <1>4, <1>6, <1>7, QuietKeeps DEF Call

\* The lookup or the insertion of mutex_lock on an unknown address.
LEMMA lazy_Guest ==
    ASSUME Inv, GuestInv, NEW t \in Threads, mutex_lock_lazy(t)
    PROVE  GuestInv' /\ GuestStep
<1>1. /\ pc[t] = "lazy" /\ pc'[t] = "lock_state" /\ addr[t] \in MutexAddrs
      /\ \A u \in Threads : u # t => pc'[u] = pc[u]
      /\ UNCHANGED <<addr, saved, held>>
  BY DEF mutex_lock_lazy, Goto, Inv, TypeOK, Locals
<1>2. {"lazy", "lock_state"} \cap (Suspended \cup {"cond_gate"}) = {} /\ "lazy" \notin WithMutex
  BY DEF Suspended, WithMutex, AtState, Parked
<1>3. CASE mutexes[addr[t]] # NoArc
  <2>1. /\ UNCHANGED <<mutexes, owner, locks>> /\ mx'[t] = mutexes[addr[t]]
        /\ \A u \in Threads : u # t => mx'[u] = mx[u]
    BY <1>3 DEF mutex_lock_lazy, stateVars, Inv, TypeOK
  <2>2. Quiet
    BY <1>1, <1>2, <2>1 DEF Quiet, GuestInv, CallsCurrent, Gated
  <2> QED
    BY <2>2, QuietKeeps
<1>4. CASE mutexes[addr[t]] = NoArc
  <2>1. PICK m \in MutexArcs : /\ UnusedMutexArc(m) /\ InsertMutex(addr[t], m, "Normal")
                               /\ mx' = [mx EXCEPT ![t] = m]
    BY <1>4 DEF mutex_lock_lazy
  <2>2. mx'[t] = m /\ \A u \in Threads : u # t => mx'[u] = mx[u]
    BY <2>1 DEF Inv, TypeOK
  <2> QED
    BY <1>1, <1>2, <1>4, <2>1, <2>2, InsertFresh
<1> QED
  BY <1>3, <1>4

\* The steps of a call that change no mutex.
LEMMA Quiet_Steps ==
    ASSUME Inv, GuestInv, NEW t \in Threads,
           \/ mutex_init_state(t) \/ lock_timeout(t) \/ cond_wait_lookup(t) \/ cond_wait_enter(t)
           \/ cond_wait_block(t) \/ cond_wait_timeout(t) \/ cond_wait_woken(t)
           \/ cond_notify_one(t) \/ cond_notify_all(t) \/ SpuriousWakeup(t)
    PROVE  Quiet
<1> USE DEF mapVars, stateVars
<1>0. TypeOK /\ OnlyWakes(pc)
  BY NothingWakes DEF Inv
<1>1. CASE mutex_init_state(t)
  <2>1. pc[t] \notin Suspended /\ OnlyWakes(Notified(mx[t]))
    BY <1>0, <1>1, NotifiedWakes DEF mutex_init_state, Suspended
  <2> QED
    BY <1>0, <1>1, <2>1, ReturnQuiet DEF mutex_init_state
<1>2. CASE lock_timeout(t)
  <2>1. pc[t] \notin Suspended
    BY <1>2 DEF lock_timeout, Suspended
  <2> QED
    BY <1>0, <1>2, <2>1, ReturnQuiet DEF lock_timeout
<1>3. CASE cond_wait_lookup(t)
  <2>1. pc[t] \notin Suspended /\ "cond_enter" \notin Suspended
    BY <1>3 DEF cond_wait_lookup, Suspended
  <2>2. CASE mutexes[addr[t]] = NoArc
    BY <1>0, <1>3, <2>1, <2>2, ReturnQuiet DEF cond_wait_lookup
  <2>3. CASE mutexes[addr[t]] # NoArc
    <3>1. /\ pc'[t] = "cond_enter" /\ mx'[t] = mutexes[addr[t]]
          /\ UNCHANGED <<mutexes, owner, locks, held, addr, saved>>
          /\ \A u \in Threads : u # t => pc'[u] = pc[u] /\ mx'[u] = mx[u]
      BY <1>3, <2>3 DEF cond_wait_lookup, Goto, Inv, TypeOK
    <3> QED
      BY <2>1, <3>1 DEF Quiet, GuestInv, CallsCurrent, Gated
  <2> QED
    BY <2>2, <2>3
<1>4. CASE cond_wait_enter(t)
  <2>1. pc[t] \in WithMutex \ Suspended /\ "cond_gate" \notin Suspended
    BY <1>4 DEF cond_wait_enter, Suspended, WithMutex, AtState
  <2>2. CASE owner[mx[t]] # t
    BY <1>0, <1>4, <2>1, <2>2, ReturnQuiet DEF cond_wait_enter
  <2>3. CASE owner[mx[t]] = t
    <3>1. /\ pc'[t] = "cond_gate" /\ saved'[t] = locks[mx[t]]
          /\ UNCHANGED <<mutexes, owner, locks, held, addr, mx>>
          /\ \A u \in Threads : u # t => pc'[u] = pc[u] /\ saved'[u] = saved[u]
      BY <1>4, <2>3 DEF cond_wait_enter, Goto, Inv, TypeOK
    <3> QED
      BY <2>1, <2>3, <3>1 DEF Quiet, GuestInv, CallsCurrent, Gated
  <2> QED
    BY <2>2, <2>3
<1>5. /\ {"cond_block", "cond_parked", "cond_woken", "relock", "relock_parked"} \subseteq
           WithMutex \cap Suspended
      /\ {"parked", "lock_state"} \subseteq WithMutex \ Suspended
  BY DEF Suspended, WithMutex, AtState, Parked
<1>6. CASE cond_wait_block(t) \/ cond_wait_timeout(t) \/ cond_wait_woken(t)
  <2>1. CASE cond_wait_block(t)
    BY <1>5, <2>1, GotoQuiet DEF cond_wait_block
  <2>2. CASE cond_wait_timeout(t)
    BY <1>5, <2>2, GotoQuiet DEF cond_wait_timeout
  <2>3. CASE cond_wait_woken(t)
    BY <1>5, <2>3, GotoQuiet DEF cond_wait_woken
  <2> QED
    BY <1>6, <2>1, <2>2, <2>3
<1>7. CASE SpuriousWakeup(t)
  <2>1. CASE lock_wakeup(t)
    BY <1>5, <2>1, GotoQuiet DEF lock_wakeup
  <2>2. CASE cond_wait_wakeup(t)
    BY <1>5, <2>2, GotoQuiet DEF cond_wait_wakeup
  <2>3. CASE relock_wakeup(t)
    BY <1>5, <2>3, GotoQuiet DEF relock_wakeup
  <2> QED
    BY <1>7, <2>1, <2>2, <2>3 DEF SpuriousWakeup
<1>8. {"signal", "broadcast"} \cap Suspended = {}
  BY DEF Suspended
<1>9. CASE cond_notify_one(t)
  <2>1. \A u \in ParkedOn(cv[t]) : OnlyWakes([pc EXCEPT ![u] = "cond_woken"])
    BY <1>0 DEF OnlyWakes, ParkedOn, TypeOK, PCs, Suspended
  <2> QED
    BY <1>0, <1>8, <1>9, <2>1, ReturnQuiet DEF cond_notify_one
<1>10. CASE cond_notify_all(t)
  <2> DEFINE pcs == [u \in Threads |-> IF u \in ParkedOn(cv[t]) THEN "cond_woken" ELSE pc[u]]
  <2>1. OnlyWakes(pcs)
    BY <1>0 DEF OnlyWakes, ParkedOn, TypeOK, PCs, Suspended
  <2>2. Return(t, 0, pcs)
    BY <1>10 DEF cond_notify_all
  <2> HIDE DEF pcs
  <2> QED
    BY <1>8, <1>10, <2>1, <2>2, ReturnQuiet DEF cond_notify_all
<1> QED
  BY <1>1, <1>2, <1>3, <1>4, <1>6, <1>7, <1>9, <1>10

----------------------------------------------------------------------------
(* The theorems *)

LEMMA GuestInit == Init => GuestInv /\ Abs!Init
<1> SUFFICES ASSUME Init PROVE GuestInv /\ Abs!Init
  OBVIOUS
<1>1. "guest" \notin WithMutex \cup Suspended \cup {"cond_gate"}
  BY DEF WithMutex, AtState, Parked, Suspended
<1>2. GuestInv
  BY <1>1 DEF Init, GuestInv, OneName, CallsCurrent, Gated, Deposited, OwnerKnows, BeliefMatchesState
<1>3. Abs!Init
  BY <1>1 DEF Init, Abs!Init, AbsHolder, AbsDepth, AbsResume
<1> QED
  BY <1>2, <1>3

LEMMA GuestNext ==
    ASSUME Inv, GuestInv, CarefulGuest, [Next]_vars
    PROVE  GuestInv' /\ GuestStep
<1>1. ASSUME NEW t \in Threads, Call(t) PROVE GuestInv' /\ GuestStep
  BY <1>1, Call_Guest
<1>2. ASSUME NEW t \in Threads, Step(t) PROVE GuestInv' /\ GuestStep
  BY <1>2, lazy_Guest, lock_Guest, unlock_Guest, try_Guest, release_Guest, relock_Guest,
     Quiet_Steps, QuietKeeps DEF Step
<1>3. ASSUME NEW t \in Threads, SpuriousWakeup(t) PROVE GuestInv' /\ GuestStep
  BY <1>3, Quiet_Steps, QuietKeeps
<1>4. CASE UNCHANGED vars
  BY <1>4, NoMoveQuiet, QuietKeeps DEF vars, mapVars, stateVars, localVars
<1> QED
  BY <1>1, <1>2, <1>3, <1>4 DEF Next

\* Of a guest that destroys only what nobody uses: what each thread believes
\* from the return codes of its calls is what the kernel has recorded, at any
\* recursion depth and through any waits on condition variables.
THEOREM BeliefsAreTrue ==
    ASSUME CarefulGuest
    PROVE  Spec => []BeliefMatchesState
<1>1. Init => GuestInv
  BY GuestInit
<1>2. Inv /\ GuestInv /\ [Next]_vars => GuestInv'
  BY GuestNext
<1>3. GuestInv => BeliefMatchesState
  BY DEF GuestInv
<1> QED
  BY <1>1, <1>2, <1>3, Invariance, PTL DEF Spec

\* For such a guest the manager, with its lookups, lazy insertions, re-inits,
\* timeouts and wakeups, implements one recursive mutex per address.
THEOREM Refinement ==
    ASSUME CarefulGuest
    PROVE  Spec => ImplementsGuestMutex
<1>1. Init => GuestInv /\ Abs!Init
  BY GuestInit
<1>2. Inv /\ GuestInv /\ [Next]_vars => GuestInv' /\ [Abs!Next]_(Abs!vars)
  BY GuestNext DEF GuestStep
<1> QED
  BY <1>1, <1>2, Invariance, PTL DEF Spec, ImplementsGuestMutex, Abs!Spec
=============================================================================
