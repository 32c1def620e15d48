------------------------------ MODULE Threads ------------------------------
(***************************************************************************)
(* The life of a guest thread: ThreadManager and Thread::execute of        *)
(* crates/kernel/src/thread.rs, with the bridge call that creates and      *)
(* starts one.  A thread is created by another, runs guest code, and on    *)
(* its way out publishes its exit value in four separate steps; others     *)
(* join or detach it at any point of that.  The guest names a thread by    *)
(* its tid, so a join or a detach may name any number.                     *)
(***************************************************************************)
EXTENDS Naturals, FiniteSets

CONSTANTS MaxTid,       \* bound on the threads ever created
          Values        \* what guest code may exit with

ASSUME MaxTidAssumption == MaxTid \in Nat \ {0}
\* 0 is what exit_value is created with; exiting with another value makes a
\* premature read visible.
ASSUME ValuesAssumption == Values \subseteq Nat \ {0}

Tids == 1..MaxTid
Unset == 0

VARIABLES
    threads,     \* ThreadManager.threads: the tids with an entry
    next_tid,
    tpc,          \* where each thread is
    tgt,         \* the thread a call of this one is about
    handle,      \* Thread.host_thread is Some
    exited,      \* Thread.exited
    exit_value,  \* Thread.exit_value
    detached,    \* Thread.detached
    leaving,     \* what the guest code of a thread exited with
    got          \* the exit value a join has read

threadVars == <<threads, next_tid, tpc, tgt, handle, exited, exit_value, detached,
          leaving, got>>

\* Only the program counter of t moves.
ThreadAt(t, l) == tpc' = [tpc EXCEPT ![t] = l]
Unused == <<threads, next_tid, tgt, handle, exited, exit_value, detached, leaving, got>>

\* The stages in which the host thread behind a tid exists.
Joining == {"join_load", "join_lock", "join_wait", "join_value", "join_take",
            "join_host", "join_return"}
Leaving == {"set_value", "set_flag", "notify", "reap"}
\* The app creates and starts the main thread, tid 1.
ThreadsInit ==
    /\ threads = {1}
    /\ next_tid = 2
    /\ tpc = [t \in Tids |-> IF t = 1 THEN "user" ELSE "unborn"]
    /\ tgt = [t \in Tids |-> 0]
    /\ handle = [t \in Tids |-> t = 1]
    /\ exited = [t \in Tids |-> FALSE]
    /\ exit_value = [t \in Tids |-> Unset]
    /\ detached = [t \in Tids |-> FALSE]
    /\ leaving = [t \in Tids |-> Unset]
    /\ got = [t \in Tids |-> Unset]

----------------------------------------------------------------------------
(* create_thread and execute *)

\* A tid, the stack and the TLS block, and the entry in the table.
create_thread(t) ==
    /\ tpc[t] = "user" /\ next_tid \in Tids
    /\ next_tid' = next_tid + 1
    /\ \/ /\ threads' = threads \cup {next_tid}
          /\ tpc' = [tpc EXCEPT ![t] = "spawn", ![next_tid] = "mapped"]
          /\ tgt' = [tgt EXCEPT ![t] = next_tid]
       \/ \* the memory could not be mapped: the tid is used up
          UNCHANGED <<threads, tpc, tgt>>
    /\ UNCHANGED <<handle, exited, exit_value, detached, leaving, got>>

\* execute(): the host thread starts before its handle is stored ...
execute_spawn(t) ==
    /\ tpc[t] = "spawn"
    /\ \/ /\ tpc' = [tpc EXCEPT ![t] = "store", ![tgt[t]] = "user"]
          /\ tgt' = tgt
       \/ \* spawn fails: create returns an error, the entry stays
          /\ tpc' = [tpc EXCEPT ![t] = "user", ![tgt[t]] = "stillborn"]
          /\ tgt' = [tgt EXCEPT ![t] = 0]
    /\ UNCHANGED <<threads, next_tid, handle, exited, exit_value, detached, leaving, got>>

\* ... by the creator, whatever became of the thread meanwhile.
execute_store(t) ==
    /\ tpc[t] = "store"
    /\ handle' = [handle EXCEPT ![tgt[t]] = TRUE]
    /\ tgt' = [tgt EXCEPT ![t] = 0]
    /\ ThreadAt(t, "user")
    /\ UNCHANGED <<threads, next_tid, exited, exit_value, detached, leaving, got>>

----------------------------------------------------------------------------
(* Leaving: the tail of the closure in execute() *)

\* The guest code returns, calls thread-exit or faults; the TLS destructors
\* run (module TlsKeys) before anything is published.
guest_exit(t) ==
    /\ tpc[t] = "user"
    /\ \E v \in Values : leaving' = [leaving EXCEPT ![t] = v]
    /\ ThreadAt(t, "set_value")
    /\ UNCHANGED <<threads, next_tid, tgt, handle, exited, exit_value, detached, got>>

\* Mutated form: the flag is up before the value is stored.
exit_store_flag_first(t) ==
    /\ tpc[t] = "set_value"
    /\ exited' = [exited EXCEPT ![t] = TRUE]
    /\ ThreadAt(t, "set_flag")
    /\ UNCHANGED <<threads, next_tid, tgt, handle, exit_value, detached, leaving, got>>

\* Under exit_mu, taken here and held until the flag is up.
exit_store_value(t) ==
    /\ tpc[t] = "set_value"
    /\ exit_value' = [exit_value EXCEPT ![t] = leaving[t]]
    /\ ThreadAt(t, "set_flag")
    /\ UNCHANGED <<threads, next_tid, tgt, handle, exited, detached, leaving, got>>

exit_store_flag(t) ==
    /\ tpc[t] = "set_flag"
    /\ exited' = [exited EXCEPT ![t] = TRUE]
    /\ ThreadAt(t, "notify")
    /\ UNCHANGED <<threads, next_tid, tgt, handle, exit_value, detached, leaving, got>>

\* exit_cv.notify_all(), exit_mu no longer held.
exit_notify(t) ==
    /\ tpc[t] = "notify"
    /\ tpc' = [u \in Tids |-> IF u = t THEN "reap"
                             ELSE IF tpc[u] = "join_wait" /\ tgt[u] = t THEN "join_lock"
                             ELSE tpc[u]]
    /\ UNCHANGED Unused

\* A detached thread takes itself out of the table; then the host thread ends.
exit_reap(t) ==
    /\ tpc[t] = "reap"
    /\ threads' = IF detached[t] THEN threads \ {t} ELSE threads
    /\ ThreadAt(t, "ended")
    /\ UNCHANGED <<next_tid, tgt, handle, exited, exit_value, detached, leaving, got>>

----------------------------------------------------------------------------
(* join_thread *)

\* The table is looked up; a tid without an entry is an error.
join_thread(t, u) ==
    /\ tpc[t] = "user"
    /\ u \in threads
    /\ ThreadAt(t, "join_load")
    /\ tgt' = [tgt EXCEPT ![t] = u]
    /\ UNCHANGED <<threads, next_tid, handle, exited, exit_value, detached, leaving, got>>

\* The first look at the flag is taken without exit_mu.
join_load(t) ==
    /\ tpc[t] = "join_load"
    /\ ThreadAt(t, IF exited[tgt[t]] THEN "join_value" ELSE "join_lock")
    /\ UNCHANGED Unused

\* Mutated form: after the first look, wait without looking again.
join_wait_unchecked(t) ==
    /\ tpc[t] = "join_lock" /\ tpc[tgt[t]] # "set_flag"
    /\ ThreadAt(t, "join_wait")
    /\ UNCHANGED Unused

\* Under exit_mu: the flag again, or wait, which releases exit_mu.
join_check(t) ==
    /\ tpc[t] = "join_lock" /\ tpc[tgt[t]] # "set_flag"
    /\ ThreadAt(t, IF exited[tgt[t]] THEN "join_value" ELSE "join_wait")
    /\ UNCHANGED Unused

join_wakeup(t) ==
    /\ tpc[t] = "join_wait"
    /\ ThreadAt(t, "join_lock")
    /\ UNCHANGED Unused

join_value(t) ==
    /\ tpc[t] = "join_value"
    /\ got' = [got EXCEPT ![t] = exit_value[tgt[t]]]
    /\ ThreadAt(t, "join_take")
    /\ UNCHANGED <<threads, next_tid, tgt, handle, exited, exit_value, detached, leaving>>

\* Take the host handle, if it was stored and nobody took or dropped it.
join_take(t) ==
    /\ tpc[t] = "join_take"
    /\ handle' = [handle EXCEPT ![tgt[t]] = FALSE]
    /\ ThreadAt(t, IF handle[tgt[t]] THEN "join_host" ELSE "join_return")
    /\ UNCHANGED <<threads, next_tid, tgt, exited, exit_value, detached, leaving, got>>

\* JoinHandle::join waits for the host thread itself.
join_host(t) ==
    /\ tpc[t] = "join_host" /\ tpc[tgt[t]] = "ended"
    /\ ThreadAt(t, "join_return")
    /\ UNCHANGED Unused

join_return(t) ==
    /\ tpc[t] = "join_return"
    /\ tgt' = [tgt EXCEPT ![t] = 0]
    /\ got' = [got EXCEPT ![t] = Unset]
    /\ ThreadAt(t, "user")
    /\ UNCHANGED <<threads, next_tid, handle, exited, exit_value, detached, leaving>>

----------------------------------------------------------------------------
(* thread_detach *)

\* An unknown tid is ESRCH.
thread_detach(t, u) ==
    /\ tpc[t] = "user"
    /\ u \in threads
    /\ ThreadAt(t, "detach_flag")
    /\ tgt' = [tgt EXCEPT ![t] = u]
    /\ UNCHANGED <<threads, next_tid, handle, exited, exit_value, detached, leaving, got>>

detach_flag(t) ==
    /\ tpc[t] = "detach_flag"
    /\ detached' = [detached EXCEPT ![tgt[t]] = TRUE]
    /\ ThreadAt(t, "detach_handle")
    /\ UNCHANGED <<threads, next_tid, tgt, handle, exited, exit_value, leaving, got>>

\* Drop the host handle: nobody will wait for the host thread.
detach_handle(t) ==
    /\ tpc[t] = "detach_handle"
    /\ handle' = [handle EXCEPT ![tgt[t]] = FALSE]
    /\ tgt' = [tgt EXCEPT ![t] = 0]
    /\ ThreadAt(t, "user")
    /\ UNCHANGED <<threads, next_tid, exited, exit_value, detached, leaving, got>>

----------------------------------------------------------------------------
\* What a thread does once it is inside execute(), a join or its own exit.
ThreadStep(t) ==
    \/ execute_spawn(t) \/ execute_store(t)
    \/ exit_store_value(t) \/ exit_store_flag(t) \/ exit_notify(t) \/ exit_reap(t)
    \/ join_load(t) \/ join_check(t) \/ join_value(t) \/ join_take(t)
    \/ join_host(t) \/ join_return(t)
    \/ detach_flag(t) \/ detach_handle(t)

\* The calls a guest thread may make: scePthreadCreate, Exit, Join, Detach.
ThreadCall(t) ==
    \/ create_thread(t) \/ guest_exit(t)
    \/ \E u \in Tids : join_thread(t, u) \/ thread_detach(t, u)

ThreadsNext == \E t \in Tids : ThreadCall(t) \/ ThreadStep(t) \/ join_wakeup(t)

ThreadsSpec == ThreadsInit /\ [][ThreadsNext]_threadVars

\* The host schedules every thread that can go on; nothing makes a guest
\* thread create, join, detach or exit.
ThreadsFairness == \A t \in Tids : WF_threadVars(ThreadStep(t))
ThreadsFairSpec == ThreadsSpec /\ ThreadsFairness

----------------------------------------------------------------------------
(* Properties *)

\* join_thread never returns a value the joined thread did not exit with,
\* whichever of its two looks at the flag let it in, and however late the
\* joined thread's host handle is stored, taken or dropped.
JoinReturnsExitValue ==
    \A t \in Tids :
        tpc[t] = "join_return" =>
            leaving[tgt[t]] \in Values /\ got[t] = leaving[tgt[t]]

\* A join of a thread that exits comes back (unless a thread joins itself,
\* which waits for ever).
JoinCompletes ==
    \A t \in Tids :
        (tpc[t] \in Joining /\ tpc[tgt[t]] \in Leaving) ~> tpc[t] \notin Joining
=============================================================================
