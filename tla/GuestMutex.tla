----------------------------- MODULE GuestMutex -----------------------------
(***************************************************************************)
(* What the kernel promises a guest about the mutex at an address: one     *)
(* holder, a recursion depth, and, for a thread that waits on a condition  *)
(* variable, the return of the mutex at the depth it was given up.         *)
(***************************************************************************)
EXTENDS Naturals

CONSTANTS Threads, Addrs, NoThread

VARIABLES holder,   \* address -> the thread inside, or NoThread
          depth,    \* address -> how often the holder has to unlock
          resume    \* thread -> address -> depth to come back to, 0 if none

vars == <<holder, depth, resume>>

Init ==
    /\ holder = [a \in Addrs |-> NoThread]
    /\ depth = [a \in Addrs |-> 0]
    /\ resume = [t \in Threads |-> [a \in Addrs |-> 0]]

\* A free mutex is taken.
Acquire(t, a) ==
    /\ holder[a] = NoThread
    /\ holder' = [holder EXCEPT ![a] = t]
    /\ depth' = [depth EXCEPT ![a] = 1]
    /\ UNCHANGED resume

\* The holder locks again.
Nest(t, a) ==
    /\ holder[a] = t
    /\ depth' = [depth EXCEPT ![a] = @ + 1]
    /\ UNCHANGED <<holder, resume>>

\* The holder unlocks; the last unlock frees the mutex.
Release(t, a) ==
    /\ holder[a] = t
    /\ depth' = [depth EXCEPT ![a] = @ - 1]
    /\ holder' = [holder EXCEPT ![a] = IF depth[a] = 1 THEN NoThread ELSE t]
    /\ UNCHANGED resume

\* The holder gives the mutex up, whatever its depth, to wait.
Suspend(t, a) ==
    /\ holder[a] = t
    /\ holder' = [holder EXCEPT ![a] = NoThread]
    /\ depth' = [depth EXCEPT ![a] = 0]
    /\ resume' = [resume EXCEPT ![t][a] = depth[a]]

\* The wait over, the thread has the mutex back as it was.
Resume(t, a) ==
    /\ resume[t][a] > 0 /\ holder[a] = NoThread
    /\ holder' = [holder EXCEPT ![a] = t]
    /\ depth' = [depth EXCEPT ![a] = resume[t][a]]
    /\ resume' = [resume EXCEPT ![t][a] = 0]

Next == \E t \in Threads, a \in Addrs :
           \/ Acquire(t, a) \/ Nest(t, a) \/ Release(t, a)
           \/ Suspend(t, a) \/ Resume(t, a)

Spec == Init /\ [][Next]_vars
=============================================================================
