---------------------------- MODULE SyncManager ----------------------------
(***************************************************************************)
(* The kernel's guest synchronisation objects: SyncManager of              *)
(* crates/kernel/src/sync.rs.  A guest address names a mutex or a          *)
(* condition variable; the manager maps it to a host object behind an Arc. *)
(* A call first clones the Arc out of the map and only then takes the host *)
(* locks, so a thread may act on an object the map no longer names.        *)
(*                                                                         *)
(* Atomicity.  Everything done under a HostMutex's `state` lock is one     *)
(* step, except in cond_wait, which keeps `state` while it waits for the   *)
(* condvar's `wait_lock`.  Which thread holds a host lock follows from its *)
(* program counter:                                                        *)
(*    mutexes.write   held at "init_state"                                 *)
(*    condvars.read   held at "signal" and "broadcast"                     *)
(*    state           held at "cond_gate"                                  *)
(*    wait_lock       held at "cond_block"                                 *)
(* A std Condvar is the set of threads parked on it; a parked thread may   *)
(* wake spuriously, and a timed one may time out, at any moment.           *)
(***************************************************************************)
EXTENDS Integers, FiniteSets

CONSTANTS
    Threads,        \* guest threads
    MutexAddrs,     \* guest addresses used for mutexes
    CondAddrs,      \* guest addresses used for condition variables
    MutexArcs,      \* identities of Arc<HostMutex> allocations
    CondArcs,       \* identities of Arc<HostCond> allocations
    NoThread,       \* owner == None
    NoArc,          \* no entry, or a local that holds no Arc
    NoAddr,
    MaxDepth,       \* bound on the recursion count of a mutex
    CarefulGuest    \* does the guest destroy only what nobody uses (POSIX)?

ASSUME DistinctNone ==
    /\ NoThread \notin Threads
    /\ NoArc \notin MutexArcs
    /\ NoArc \notin CondArcs
    /\ NoAddr \notin MutexAddrs
ASSUME BoundsAssumption == MaxDepth \in Nat \ {0} /\ CarefulGuest \in BOOLEAN

MutexType == {"Normal", "ErrorCheck", "Recursive"}

\* The return codes of the calls; "pending" while a call is in flight.
EPERM     == 1
EDEADLK   == 11
EBUSY     == 16
EINVAL    == 22
ETIMEDOUT == 60
Pending   == 99
Codes     == {0, EPERM, EDEADLK, EBUSY, EINVAL, ETIMEDOUT}

VARIABLES
    mutexes,    \* SyncManager.mutexes:  address -> Arc
    condvars,   \* SyncManager.condvars: address -> Arc
    owner,      \* HostMutexState.owner, per Arc
    locks,      \* HostMutexState.locks
    mtype,      \* HostMutexState.mtype
    pc,         \* where each thread is
    mx,         \* the Arc<HostMutex> a thread has cloned
    cv,         \* the Arc<HostCond> a thread has cloned
    addr,       \* the mutex address a thread's call was given
    timed,      \* is the call the timed variant?
    saved,      \* cond_wait's saved_recursion
    ret,        \* what the last call returned
    held        \* how often each thread, going by the return codes it was
                \* given, believes it holds the mutex at an address

mapVars   == <<mutexes, condvars>>
stateVars == <<owner, locks, mtype>>
localVars == <<pc, mx, cv, addr, timed, saved, ret>>
vars      == <<mapVars, stateVars, localVars, held>>

----------------------------------------------------------------------------
\* Program counters.
Parked == {"parked", "relock_parked"}    \* waiting on HostMutex.cond
\* about to take `state` (or holding it): the steps a try_lock can collide with
AtState == {"lock_state", "unlock_state", "try_state", "init_state",
            "cond_enter", "cond_gate", "relock"}
\* inside cond_wait with the guest mutex released
Suspended == {"cond_block", "cond_parked", "cond_woken", "relock",
              "relock_parked"}
PCs == {"guest", "lazy", "cond_lookup", "signal", "broadcast"}
         \cup Parked \cup AtState \cup Suspended

Init ==
    /\ mutexes = [a \in MutexAddrs |-> NoArc]
    /\ condvars = [c \in CondAddrs |-> NoArc]
    /\ owner = [m \in MutexArcs |-> NoThread]
    /\ locks = [m \in MutexArcs |-> 0]
    /\ mtype = [m \in MutexArcs |-> "Normal"]
    /\ pc = [t \in Threads |-> "guest"]
    /\ mx = [t \in Threads |-> NoArc]
    /\ cv = [t \in Threads |-> NoArc]
    /\ addr = [t \in Threads |-> NoAddr]
    /\ timed = [t \in Threads |-> FALSE]
    /\ saved = [t \in Threads |-> 0]
    /\ ret = [t \in Threads |-> 0]
    /\ held = [t \in Threads |-> [a \in MutexAddrs |-> 0]]

----------------------------------------------------------------------------
\* The host locks, read off the program counters.
MutexMapFree    == \A u \in Threads : pc[u] # "init_state"
CondMapUnread   == \A u \in Threads : pc[u] \notin {"signal", "broadcast"}
StateFree(m)    == \A u \in Threads : ~(pc[u] = "cond_gate" /\ mx[u] = m)
WaitLockFree(c) == \A u \in Threads : ~(pc[u] = "cond_block" /\ cv[u] = c)

\* An Arc nobody points to: the allocation a new Arc::new may return.
UnusedMutexArc(m) == /\ \A a \in MutexAddrs : mutexes[a] # m
                     /\ \A u \in Threads : mx[u] # m
UnusedCondArc(v)  == /\ \A c \in CondAddrs : condvars[c] # v
                     /\ \A u \in Threads : cv[u] # v

\* HostMutex.cond.notify_all(): where every thread is once the parked threads
\* of m are made runnable again.
Notified(m) ==
    [u \in Threads |-> IF mx[u] # m THEN pc[u]
                       ELSE IF pc[u] = "parked" THEN "lock_state"
                       ELSE IF pc[u] = "relock_parked" THEN "relock"
                       ELSE pc[u]]

\* The call of thread t returns code r; pcs is where the threads are otherwise.
Return(t, r, pcs) ==
    /\ pc' = [pcs EXCEPT ![t] = "guest"]
    /\ ret' = [ret EXCEPT ![t] = r]
    /\ mx' = [mx EXCEPT ![t] = NoArc]
    /\ cv' = [cv EXCEPT ![t] = NoArc]
    /\ addr' = [addr EXCEPT ![t] = NoAddr]
    /\ timed' = [timed EXCEPT ![t] = FALSE]
    /\ saved' = [saved EXCEPT ![t] = 0]

\* Thread t moves on inside its call.
Goto(t, l) == pc' = [pc EXCEPT ![t] = l]

\* Thread t enters a call on mutex address a: the lookup under mutexes.read
\* clones the Arc, and the thread goes to l.
EnterMutexCall(t, a, l, isTimed) ==
    /\ pc[t] = "guest" /\ MutexMapFree
    /\ pc' = [pc EXCEPT ![t] = l]
    /\ ret' = [ret EXCEPT ![t] = Pending]
    /\ mx' = [mx EXCEPT ![t] = mutexes[a]]
    /\ addr' = [addr EXCEPT ![t] = a]
    /\ timed' = [timed EXCEPT ![t] = isTimed]
    /\ UNCHANGED <<mapVars, stateVars, cv, saved, held>>

\* A call that returns at once and changes nothing.
Refuse(t, r) ==
    /\ pc[t] = "guest"
    /\ ret' = [ret EXCEPT ![t] = r]
    /\ UNCHANGED <<mapVars, stateVars, pc, mx, cv, addr, timed, saved, held>>

SetHeld(t, n) == held' = [held EXCEPT ![t][addr[t]] = n]

----------------------------------------------------------------------------
(* mutex_init *)

\* Map m at address a as a fresh, unlocked mutex of type ty.
InsertMutex(a, m, ty) ==
    /\ mutexes' = [mutexes EXCEPT ![a] = m]
    /\ owner' = [owner EXCEPT ![m] = NoThread]
    /\ locks' = [locks EXCEPT ![m] = 0]
    /\ mtype' = [mtype EXCEPT ![m] = ty]

\* Unknown address: insert a new object.
mutex_init_new(t, a) ==
    /\ pc[t] = "guest" /\ MutexMapFree
    /\ mutexes[a] = NoArc
    /\ \E m \in MutexArcs, ty \in MutexType : UnusedMutexArc(m) /\ InsertMutex(a, m, ty)
    /\ ret' = [ret EXCEPT ![t] = 0]
    /\ UNCHANGED <<condvars, pc, mx, cv, addr, timed, saved, held>>

\* Known address: keep mutexes.write and go for the object's `state`.
mutex_init_existing(t, a) ==
    /\ mutexes[a] # NoArc
    /\ EnterMutexCall(t, a, "init_state", FALSE)

\* Reset in place, or EBUSY when the mutex is held.
mutex_init_state(t) ==
    /\ pc[t] = "init_state" /\ StateFree(mx[t])
    /\ \/ /\ owner[mx[t]] # NoThread \/ locks[mx[t]] > 0
          /\ Return(t, EBUSY, pc)
          /\ UNCHANGED stateVars
       \/ /\ owner[mx[t]] = NoThread /\ locks[mx[t]] = 0
          /\ \E ty \in MutexType : mtype' = [mtype EXCEPT ![mx[t]] = ty]
          /\ Return(t, 0, Notified(mx[t]))
          /\ UNCHANGED <<owner, locks>>
    /\ UNCHANGED <<mapVars, held>>

\* The guest's side of the POSIX contract: nobody holds the mutex at a, waits
\* for it or has a call on it under way.
MutexUnusedByGuest(a) ==
    \A u \in Threads : held[u][a] = 0 /\ addr[u] # a

\* The entry goes whatever the state of the object behind it.
mutex_destroy(t, a) ==
    /\ pc[t] = "guest" /\ MutexMapFree
    /\ CarefulGuest => MutexUnusedByGuest(a)
    /\ mutexes' = [mutexes EXCEPT ![a] = NoArc]
    /\ ret' = [ret EXCEPT ![t] = IF mutexes[a] = NoArc THEN EINVAL ELSE 0]
    /\ UNCHANGED <<condvars, stateVars, pc, mx, cv, addr, timed, saved, held>>

----------------------------------------------------------------------------
(* mutex_lock and mutex_timedlock *)

\* The bound: a guest stops at MaxDepth nested locks.
MayNest(t, a) == held[t][a] < MaxDepth

mutex_lock(t, a) ==
    /\ MayNest(t, a)
    /\ EnterMutexCall(t, a, IF mutexes[a] = NoArc THEN "lazy" ELSE "lock_state", FALSE)

\* Mutated form: no recheck under mutexes.write.
mutex_lock_lazy_unchecked(t) ==
    /\ pc[t] = "lazy" /\ MutexMapFree
    /\ \E m \in MutexArcs :
          /\ UnusedMutexArc(m)
          /\ InsertMutex(addr[t], m, "Normal")
          /\ mx' = [mx EXCEPT ![t] = m]
    /\ Goto(t, "lock_state")
    /\ UNCHANGED <<condvars, cv, addr, timed, saved, ret, held>>

\* The lookup missed: insert under mutexes.write unless somebody else has.
mutex_lock_lazy(t) ==
    /\ pc[t] = "lazy" /\ MutexMapFree
    /\ \/ /\ mutexes[addr[t]] # NoArc
          /\ mx' = [mx EXCEPT ![t] = mutexes[addr[t]]]
          /\ UNCHANGED <<mutexes, stateVars>>
       \/ /\ mutexes[addr[t]] = NoArc
          /\ \E m \in MutexArcs :
                /\ UnusedMutexArc(m)
                /\ InsertMutex(addr[t], m, "Normal")
                /\ mx' = [mx EXCEPT ![t] = m]
    /\ Goto(t, "lock_state")
    /\ UNCHANGED <<condvars, cv, addr, timed, saved, ret, held>>

\* No lazy insertion here: an unknown address is EINVAL.
mutex_timedlock(t, a) ==
    \/ mutexes[a] # NoArc /\ MayNest(t, a) /\ EnterMutexCall(t, a, "lock_state", TRUE)
    \/ mutexes[a] = NoArc /\ MutexMapFree /\ Refuse(t, EINVAL)

\* One turn of the loop shared by both calls, under `state`.
lock_free(t) ==
    /\ pc[t] = "lock_state" /\ StateFree(mx[t])
    /\ owner[mx[t]] = NoThread
    /\ owner' = [owner EXCEPT ![mx[t]] = t]
    /\ locks' = [locks EXCEPT ![mx[t]] = 1]
    /\ SetHeld(t, 1)
    /\ Return(t, 0, pc)
    /\ UNCHANGED <<mapVars, mtype>>

\* Self-relock: only ErrorCheck refuses.
lock_again(t) ==
    /\ pc[t] = "lock_state" /\ StateFree(mx[t])
    /\ owner[mx[t]] = t
    /\ \/ /\ mtype[mx[t]] = "ErrorCheck"
          /\ Return(t, EDEADLK, pc)
          /\ UNCHANGED <<locks, held>>
       \/ /\ mtype[mx[t]] # "ErrorCheck"
          /\ locks' = [locks EXCEPT ![mx[t]] = @ + 1]
          /\ SetHeld(t, held[t][addr[t]] + 1)
          /\ Return(t, 0, pc)
    /\ UNCHANGED <<mapVars, owner, mtype>>

\* Owned by another thread: park on HostMutex.cond, which gives up `state` in
\* the same step; the timed call may find its deadline already past.
lock_contended(t) ==
    /\ pc[t] = "lock_state" /\ StateFree(mx[t])
    /\ owner[mx[t]] \notin {NoThread, t}
    /\ \/ Goto(t, "parked") /\ UNCHANGED <<mx, cv, addr, timed, saved, ret>>
       \/ timed[t] /\ Return(t, ETIMEDOUT, pc)
    /\ UNCHANGED <<mapVars, stateVars, held>>

\* A spurious wakeup, or the end of one of mutex_lock's five-second slices.
lock_wakeup(t) ==
    /\ pc[t] = "parked"
    /\ Goto(t, "lock_state")
    /\ UNCHANGED <<mapVars, stateVars, mx, cv, addr, timed, saved, ret, held>>

\* The timed wait reports a timeout: the loop returns without looking at the
\* owner again, even if the mutex was released meanwhile.
lock_timeout(t) ==
    /\ pc[t] = "parked" /\ timed[t] /\ StateFree(mx[t])
    /\ Return(t, ETIMEDOUT, pc)
    /\ UNCHANGED <<mapVars, stateVars, held>>

----------------------------------------------------------------------------
(* mutex_unlock and mutex_trylock *)

mutex_unlock(t, a) ==
    \/ mutexes[a] # NoArc /\ EnterMutexCall(t, a, "unlock_state", FALSE)
    \/ mutexes[a] = NoArc /\ MutexMapFree /\ Refuse(t, EINVAL)

mutex_unlock_state(t) ==
    /\ pc[t] = "unlock_state" /\ StateFree(mx[t])
    /\ \/ /\ owner[mx[t]] # t
          /\ Return(t, EPERM, pc)
          /\ UNCHANGED <<owner, locks, held>>
       \/ /\ owner[mx[t]] = t
          /\ locks' = [locks EXCEPT ![mx[t]] = @ - 1]
          /\ SetHeld(t, held[t][addr[t]] - 1)
          /\ IF locks[mx[t]] = 1
             THEN /\ owner' = [owner EXCEPT ![mx[t]] = NoThread]
                  /\ Return(t, 0, Notified(mx[t]))
             ELSE /\ UNCHANGED owner
                  /\ Return(t, 0, pc)
    /\ UNCHANGED <<mapVars, mtype>>

mutex_trylock(t, a) ==
    \/ mutexes[a] # NoArc /\ MayNest(t, a) /\ EnterMutexCall(t, a, "try_state", FALSE)
    \/ mutexes[a] = NoArc /\ MutexMapFree /\ Refuse(t, EINVAL)

\* state.try_lock() fails whenever another thread is at that moment inside a
\* critical section of the object, whether or not the guest mutex is owned.
try_collides(t) ==
    /\ pc[t] = "try_state"
    /\ \E u \in Threads \ {t} : mx[u] = mx[t] /\ pc[u] \in AtState
    /\ Return(t, EBUSY, pc)
    /\ UNCHANGED <<mapVars, stateVars, held>>

try_state(t) ==
    /\ pc[t] = "try_state" /\ StateFree(mx[t])
    /\ \/ /\ owner[mx[t]] = NoThread
          /\ owner' = [owner EXCEPT ![mx[t]] = t]
          /\ locks' = [locks EXCEPT ![mx[t]] = 1]
          /\ SetHeld(t, 1)
          /\ Return(t, 0, pc)
       \/ /\ owner[mx[t]] = t /\ mtype[mx[t]] = "Recursive"
          /\ locks' = [locks EXCEPT ![mx[t]] = @ + 1]
          /\ SetHeld(t, held[t][addr[t]] + 1)
          /\ Return(t, 0, pc)
          /\ UNCHANGED owner
       \/ /\ owner[mx[t]] # NoThread
          /\ owner[mx[t]] = t => mtype[mx[t]] # "Recursive"
          /\ Return(t, EBUSY, pc)
          /\ UNCHANGED <<owner, locks, held>>
    /\ UNCHANGED <<mapVars, mtype>>

----------------------------------------------------------------------------
(* cond_init, cond_destroy *)

cond_init(t, c) ==
    /\ CondMapUnread
    /\ \/ condvars[c] # NoArc /\ Refuse(t, EBUSY)
       \/ /\ pc[t] = "guest" /\ condvars[c] = NoArc
          /\ \E v \in CondArcs : UnusedCondArc(v) /\ condvars' = [condvars EXCEPT ![c] = v]
          /\ ret' = [ret EXCEPT ![t] = 0]
          /\ UNCHANGED <<mutexes, stateVars, pc, mx, cv, addr, timed, saved, held>>

\* POSIX: a condition variable may go once nobody is blocked on it.
cond_destroy(t, c) ==
    /\ pc[t] = "guest" /\ CondMapUnread
    /\ CarefulGuest => \A u \in Threads : condvars[c] # NoArc => cv[u] # condvars[c]
    /\ condvars' = [condvars EXCEPT ![c] = NoArc]
    /\ ret' = [ret EXCEPT ![t] = IF condvars[c] = NoArc THEN EINVAL ELSE 0]
    /\ UNCHANGED <<mutexes, stateVars, pc, mx, cv, addr, timed, saved, held>>

----------------------------------------------------------------------------
(* cond_wait and cond_timedwait *)

\* The condvar is looked up first, the mutex after it.
cond_wait(t, c, a, isTimed) ==
    \/ condvars[c] = NoArc /\ Refuse(t, EINVAL)
    \/ /\ pc[t] = "guest" /\ condvars[c] # NoArc
       /\ Goto(t, "cond_lookup")
       /\ ret' = [ret EXCEPT ![t] = Pending]
       /\ cv' = [cv EXCEPT ![t] = condvars[c]]
       /\ addr' = [addr EXCEPT ![t] = a]
       /\ timed' = [timed EXCEPT ![t] = isTimed]
       /\ UNCHANGED <<mapVars, stateVars, mx, saved, held>>

cond_wait_lookup(t) ==
    /\ pc[t] = "cond_lookup" /\ MutexMapFree
    /\ \/ /\ mutexes[addr[t]] = NoArc
          /\ Return(t, EINVAL, pc)
       \/ /\ mutexes[addr[t]] # NoArc
          /\ mx' = [mx EXCEPT ![t] = mutexes[addr[t]]]
          /\ Goto(t, "cond_enter")
          /\ UNCHANGED <<cv, addr, timed, saved, ret>>
    /\ UNCHANGED <<mapVars, stateVars, held>>

\* Take `state`; only the owner may wait.
cond_wait_enter(t) ==
    /\ pc[t] = "cond_enter" /\ StateFree(mx[t])
    /\ \/ /\ owner[mx[t]] # t
          /\ Return(t, EPERM, pc)
       \/ /\ owner[mx[t]] = t
          /\ saved' = [saved EXCEPT ![t] = locks[mx[t]]]
          /\ Goto(t, "cond_gate")
          /\ UNCHANGED <<mx, cv, addr, timed, ret>>
    /\ UNCHANGED <<mapVars, stateVars, held>>

\* Mutated form: the release for the wait wakes nobody.
cond_wait_release_silent(t) ==
    /\ pc[t] = "cond_gate" /\ WaitLockFree(cv[t])
    /\ owner' = [owner EXCEPT ![mx[t]] = NoThread]
    /\ locks' = [locks EXCEPT ![mx[t]] = 0]
    /\ Goto(t, "cond_block")
    /\ UNCHANGED <<mapVars, mtype, mx, cv, addr, timed, saved, ret, held>>

\* With `state` still held, take wait_lock; then release the guest mutex, wake
\* its waiters and drop `state`, keeping wait_lock.
cond_wait_release(t) ==
    /\ pc[t] = "cond_gate" /\ WaitLockFree(cv[t])
    /\ owner' = [owner EXCEPT ![mx[t]] = NoThread]
    /\ locks' = [locks EXCEPT ![mx[t]] = 0]
    /\ pc' = [Notified(mx[t]) EXCEPT ![t] = "cond_block"]
    /\ UNCHANGED <<mapVars, mtype, mx, cv, addr, timed, saved, ret, held>>

\* inner.wait: park and give up wait_lock in one step.
cond_wait_block(t) ==
    /\ pc[t] = "cond_block"
    /\ Goto(t, "cond_parked")
    /\ UNCHANGED <<mapVars, stateVars, mx, cv, addr, timed, saved, ret, held>>

\* A spurious wakeup of inner.wait.
cond_wait_wakeup(t) ==
    /\ pc[t] = "cond_parked"
    /\ Goto(t, "cond_woken")
    /\ UNCHANGED <<mapVars, stateVars, mx, cv, addr, timed, saved, ret, held>>

\* The timed wait gives up; the code to return is fixed here, before the call
\* has the guest mutex back.
cond_wait_timeout(t) ==
    /\ pc[t] = "cond_parked" /\ timed[t]
    /\ Goto(t, "cond_woken")
    /\ ret' = [ret EXCEPT ![t] = ETIMEDOUT]
    /\ UNCHANGED <<mapVars, stateVars, mx, cv, addr, timed, saved, held>>

\* inner.wait re-takes wait_lock before it returns; it is dropped at once.
cond_wait_woken(t) ==
    /\ pc[t] = "cond_woken" /\ WaitLockFree(cv[t])
    /\ Goto(t, "relock")
    /\ UNCHANGED <<mapVars, stateVars, mx, cv, addr, timed, saved, ret, held>>

\* Mutated form: the mutex comes back at depth 1.
cond_wait_relock_once(t) ==
    /\ pc[t] = "relock" /\ StateFree(mx[t])
    /\ owner[mx[t]] = NoThread
    /\ owner' = [owner EXCEPT ![mx[t]] = t]
    /\ locks' = [locks EXCEPT ![mx[t]] = 1]
    /\ Return(t, IF ret[t] = ETIMEDOUT THEN ETIMEDOUT ELSE 0, pc)
    /\ UNCHANGED <<mapVars, mtype, held>>

\* Take the guest mutex back at the recursion depth it was released from.
cond_wait_relock(t) ==
    /\ pc[t] = "relock" /\ StateFree(mx[t])
    /\ \/ /\ owner[mx[t]] = NoThread
          /\ owner' = [owner EXCEPT ![mx[t]] = t]
          /\ locks' = [locks EXCEPT ![mx[t]] = saved[t]]
          /\ Return(t, IF ret[t] = ETIMEDOUT THEN ETIMEDOUT ELSE 0, pc)
       \/ /\ owner[mx[t]] # NoThread
          /\ Goto(t, "relock_parked")
          /\ UNCHANGED <<owner, locks, mx, cv, addr, timed, saved, ret>>
    /\ UNCHANGED <<mapVars, mtype, held>>

relock_wakeup(t) ==
    /\ pc[t] = "relock_parked"
    /\ Goto(t, "relock")
    /\ UNCHANGED <<mapVars, stateVars, mx, cv, addr, timed, saved, ret, held>>

----------------------------------------------------------------------------
(* cond_signal, cond_broadcast *)

\* An unknown condvar is a no-op; a known one is signalled under condvars.read.
EnterSignal(t, c, l) ==
    \/ condvars[c] = NoArc /\ Refuse(t, 0)
    \/ /\ pc[t] = "guest" /\ condvars[c] # NoArc
       /\ Goto(t, l)
       /\ ret' = [ret EXCEPT ![t] = Pending]
       /\ cv' = [cv EXCEPT ![t] = condvars[c]]
       /\ UNCHANGED <<mapVars, stateVars, mx, addr, timed, saved, held>>

cond_signal(t, c)    == EnterSignal(t, c, "signal")
cond_broadcast(t, c) == EnterSignal(t, c, "broadcast")

ParkedOn(c) == {u \in Threads : pc[u] = "cond_parked" /\ cv[u] = c}

\* Mutated form: the signal does not take wait_lock.
cond_notify_one_ungated(t) ==
    /\ pc[t] = "signal"
    /\ \/ ParkedOn(cv[t]) = {} /\ Return(t, 0, pc)
       \/ \E u \in ParkedOn(cv[t]) : Return(t, 0, [pc EXCEPT ![u] = "cond_woken"])
    /\ UNCHANGED <<mapVars, stateVars, held>>

\* notify_one under wait_lock.
cond_notify_one(t) ==
    /\ pc[t] = "signal" /\ WaitLockFree(cv[t])
    /\ \/ ParkedOn(cv[t]) = {} /\ Return(t, 0, pc)
       \/ \E u \in ParkedOn(cv[t]) : Return(t, 0, [pc EXCEPT ![u] = "cond_woken"])
    /\ UNCHANGED <<mapVars, stateVars, held>>

\* notify_all under wait_lock.
cond_notify_all(t) ==
    /\ pc[t] = "broadcast" /\ WaitLockFree(cv[t])
    /\ Return(t, 0, [u \in Threads |-> IF u \in ParkedOn(cv[t]) THEN "cond_woken" ELSE pc[u]])
    /\ UNCHANGED <<mapVars, stateVars, held>>

----------------------------------------------------------------------------
\* A guest thread makes a call.
Call(t) ==
    \/ \E a \in MutexAddrs :
          \/ mutex_init_new(t, a) \/ mutex_init_existing(t, a) \/ mutex_destroy(t, a)
          \/ mutex_lock(t, a) \/ mutex_timedlock(t, a) \/ mutex_trylock(t, a)
          \/ mutex_unlock(t, a)
    \/ \E c \in CondAddrs :
          \/ cond_init(t, c) \/ cond_destroy(t, c)
          \/ cond_signal(t, c) \/ cond_broadcast(t, c)
          \/ \E a \in MutexAddrs, b \in BOOLEAN : cond_wait(t, c, a, b)

\* A call under way moves on of its own accord.
Step(t) ==
    \/ mutex_init_state(t) \/ mutex_lock_lazy(t)
    \/ lock_free(t) \/ lock_again(t) \/ lock_contended(t) \/ lock_timeout(t)
    \/ mutex_unlock_state(t) \/ try_collides(t) \/ try_state(t)
    \/ cond_wait_lookup(t) \/ cond_wait_enter(t) \/ cond_wait_release(t)
    \/ cond_wait_block(t) \/ cond_wait_timeout(t) \/ cond_wait_woken(t)
    \/ cond_wait_relock(t)
    \/ cond_notify_one(t) \/ cond_notify_all(t)

\* The host may wake a parked thread for no reason.
SpuriousWakeup(t) == lock_wakeup(t) \/ cond_wait_wakeup(t) \/ relock_wakeup(t)

Next == \E t \in Threads : Call(t) \/ Step(t) \/ SpuriousWakeup(t)

Spec == Init /\ [][Next]_vars

\* The host scheduler lets a thread inside a call go on, and a thread that
\* keeps finding a host lock free gets it in the end (strong fairness: the
\* lock may be taken by others in between).  Nothing makes a guest thread
\* call, and nothing makes a spurious wakeup happen.
Fairness == \A t \in Threads : SF_vars(Step(t))

----------------------------------------------------------------------------
(* Properties *)

\* Every variable keeps to its type.
TypeOK ==
    /\ mutexes \in [MutexAddrs -> MutexArcs \cup {NoArc}]
    /\ condvars \in [CondAddrs -> CondArcs \cup {NoArc}]
    /\ owner \in [MutexArcs -> Threads \cup {NoThread}]
    /\ locks \in [MutexArcs -> Nat]
    /\ mtype \in [MutexArcs -> MutexType]
    /\ pc \in [Threads -> PCs]
    /\ mx \in [Threads -> MutexArcs \cup {NoArc}]
    /\ cv \in [Threads -> CondArcs \cup {NoArc}]
    /\ addr \in [Threads -> MutexAddrs \cup {NoAddr}]
    /\ timed \in [Threads -> BOOLEAN]
    /\ saved \in [Threads -> Nat]
    /\ ret \in [Threads -> Codes \cup {Pending}]
    /\ held \in [Threads -> [MutexAddrs -> Int]]

\* No thread sleeps on a mutex that nobody owns: every release (mutex_unlock,
\* cond_wait's release, a re-init) that could let it in has woken it.
NobodyParkedOnFree ==
    \A t \in Threads : pc[t] \in Parked => owner[mx[t]] # NoThread

\* What a thread believes is what the kernel has recorded: a thread inside
\* the critical section owns the mapped object at just that recursion depth
\* (so a wait on a condvar gives back the depth it took), and an owner knows.
BeliefMatchesState ==
    \A t \in Threads, a \in MutexAddrs :
        held[t][a] # 0 /\ ~(pc[t] \in Suspended /\ addr[t] = a)
          => /\ mutexes[a] # NoArc
             /\ owner[mutexes[a]] = t
             /\ locks[mutexes[a]] = held[t][a]

\* Threads that have given up their mutex to wait on v and that no signal has
\* reached yet.
Waiting(v) == {u \in Threads : pc[u] \in {"cond_block", "cond_parked"} /\ cv[u] = v}

\* No lost wakeup: a signal sent while some thread has already released its
\* mutex to wait makes one such thread runnable, and a broadcast all of them,
\* even if it comes between the release and the wait.
NoLostWakeup ==
    [][\A t \in Threads :
         /\ pc[t] = "signal" /\ pc'[t] = "guest" /\ Waiting(cv[t]) # {}
              => \E u \in Waiting(cv[t]) : pc'[u] = "cond_woken"
         /\ pc[t] = "broadcast" /\ pc'[t] = "guest"
              => \A u \in Waiting(cv[t]) : pc'[u] = "cond_woken"]_vars

\* A waiter that was woken comes back from cond_wait unless another thread
\* owns the mutex it has to take back: it never sleeps on beside a free mutex.
WokenWaiterProceeds ==
    \A t \in Threads :
        pc[t] \in {"cond_woken", "relock", "relock_parked"}
          ~> (pc[t] \notin Suspended \/ owner[mx[t]] # NoThread)

----------------------------------------------------------------------------
(* What a careful guest is promised: GuestMutex. *)

\* The state of the mutex at an address is that of the object it maps to; a
\* thread suspended in cond_wait has its depth on deposit.
AbsHolder == [a \in MutexAddrs |->
                 IF mutexes[a] = NoArc THEN NoThread ELSE owner[mutexes[a]]]
AbsDepth  == [a \in MutexAddrs |->
                 IF mutexes[a] = NoArc THEN 0 ELSE locks[mutexes[a]]]
AbsResume == [t \in Threads |-> [a \in MutexAddrs |->
                 IF pc[t] \in Suspended /\ addr[t] = a THEN saved[t] ELSE 0]]

Abs == INSTANCE GuestMutex WITH Addrs <- MutexAddrs,
                                holder <- AbsHolder, depth <- AbsDepth,
                                resume <- AbsResume

\* The lookups, lazy insertion, re-inits, timeouts and wakeups of the code
\* together behave as one recursive mutex per guest address, whose owner may
\* suspend itself on a condition variable and resume at the same depth.
ImplementsGuestMutex == Abs!Spec
============================================================================
