--------------------------- MODULE ThreadsProofs ---------------------------
(***************************************************************************)
(* Threads, for any number of threads and any exit values.  Three facts    *)
(* carry the proofs: the thread a creator is about to start is its own and *)
(* has never run; what a thread exits with is final once its flag is up;   *)
(* and whoever is past the wait of a join has seen that flag.              *)
(***************************************************************************)
EXTENDS Threads, TLAPS

\* Where a call names another thread.
Calling == Joining \cup {"spawn", "store", "detach_flag", "detach_handle"}
Gone == {"notify", "reap", "ended"}
Stages == Calling \cup Leaving \cup {"user", "unborn", "mapped", "stillborn", "ended"}

ThreadsTypeOK ==
    /\ threads \subseteq Tids
    /\ next_tid \in Nat \ {0}
    /\ tpc \in [Tids -> Stages]
    /\ tgt \in [Tids -> Nat]
    /\ \A t \in Tids : tpc[t] \in Calling => tgt[t] \in Tids
    /\ handle \in [Tids -> BOOLEAN]
    /\ exited \in [Tids -> BOOLEAN]
    /\ detached \in [Tids -> BOOLEAN]
    /\ exit_value \in [Tids -> Values \cup {Unset}]
    /\ leaving \in [Tids -> Values \cup {Unset}]
    /\ got \in [Tids -> Values \cup {Unset}]

\* A tid not yet given out has never run.
FreshUnborn == \A u \in Tids : u >= next_tid => tpc[u] = "unborn"

\* The thread a creator is about to start is mapped, and no other creator
\* is about to start it.
SpawnsOwn ==
    \A t \in Tids : tpc[t] = "spawn" =>
        /\ tpc[tgt[t]] = "mapped"
        /\ \A u \in Tids : tpc[u] = "spawn" /\ tgt[u] = tgt[t] => u = t

\* The exit value is stored before the flag, and the flag is up exactly on
\* the threads that are past it.
Published ==
    \A u \in Tids :
        /\ tpc[u] \in Leaving \cup Gone => leaving[u] \in Values
        /\ tpc[u] \in Gone \cup {"set_flag"} => exit_value[u] = leaving[u]
        /\ exited[u] <=> tpc[u] \in Gone

\* A join past its wait has seen the flag, and what it read is final.
JoinersSaw ==
    \A t \in Tids :
        /\ tpc[t] \in {"join_value", "join_take", "join_host", "join_return"}
               => exited[tgt[t]]
        /\ tpc[t] \in {"join_take", "join_host", "join_return"}
               => got[t] = leaving[tgt[t]]

\* Nobody sleeps in join_thread on a thread that has called notify_all: no
\* wakeup is lost between the second look at the flag and the wait.
NobodyParkedOnExited ==
    \A t \in Tids : tpc[t] = "join_wait" => tpc[tgt[t]] \notin {"reap", "ended"}

Inv == /\ ThreadsTypeOK /\ FreshUnborn /\ SpawnsOwn
       /\ Published /\ JoinersSaw /\ NobodyParkedOnExited


\* A creator has a fresh tid, which no thread has run under and which no
\* call names.
LEMMA create_thread_Inv ==
    ASSUME Inv, NEW t \in Tids, create_thread(t)
    PROVE  Inv'
<1> USE DEF Inv
<1>1. next_tid \in Tids /\ tpc[next_tid] = "unborn" /\ next_tid # t /\ tpc[t] = "user"
  BY DEF create_thread, FreshUnborn, ThreadsTypeOK
<1>2. next_tid' \in Nat \ {0} /\ \A u \in Tids : u >= next_tid' => u >= next_tid /\ u # next_tid
  BY MaxTidAssumption DEF create_thread, ThreadsTypeOK, Tids
<1>3. CASE /\ threads' = threads \cup {next_tid}
           /\ tpc' = [tpc EXCEPT ![t] = "spawn", ![next_tid] = "mapped"]
           /\ tgt' = [tgt EXCEPT ![t] = next_tid]
  <2> UNCHANGED <<handle, exited, exit_value, detached, leaving, got>>
    BY DEF create_thread
  <2> tpc' = [u \in Tids |-> IF u = next_tid THEN "mapped"
                             ELSE IF u = t THEN "spawn" ELSE tpc[u]]
    BY <1>1, <1>3 DEF ThreadsTypeOK
  <2> tgt' = [u \in Tids |-> IF u = t THEN next_tid ELSE tgt[u]]
    BY <1>1, <1>3 DEF ThreadsTypeOK
  <2> HIDE DEF Inv
  <2>1. ThreadsTypeOK'
    <3>1. next_tid \in Nat
      BY DEF Inv, ThreadsTypeOK
    <3>2. tpc' \in [Tids -> Stages]
      BY <1>1 DEF Inv, ThreadsTypeOK, Stages, Calling
    <3>3. tgt' \in [Tids -> Nat]
      BY <1>1, <3>1 DEF Inv, ThreadsTypeOK
    <3>4. \A u \in Tids : tpc'[u] \in Calling => tgt'[u] \in Tids
      BY <1>1 DEF Inv, ThreadsTypeOK, Calling, Joining
    <3> QED
      BY <1>1, <1>2, <1>3, <3>2, <3>3, <3>4 DEF Inv, ThreadsTypeOK
  <2>2. FreshUnborn'
    BY <1>1, <1>2 DEF Inv, ThreadsTypeOK, FreshUnborn
  <2>3. SpawnsOwn'
    BY <1>1 DEF Inv, ThreadsTypeOK, SpawnsOwn, Calling
  <2>4. Published'
    BY <1>1 DEF Inv, Published, Leaving, Gone
  <2>5. JoinersSaw'
    BY <1>1 DEF Inv, JoinersSaw
  <2>6. NobodyParkedOnExited'
    BY <1>1 DEF Inv, ThreadsTypeOK, Calling, Joining, NobodyParkedOnExited
  <2> QED
    BY <2>1, <2>2, <2>3, <2>4, <2>5, <2>6 DEF Inv
<1>4. CASE UNCHANGED <<threads, tpc, tgt>>
  <2> UNCHANGED <<handle, exited, exit_value, detached, leaving, got>>
    BY DEF create_thread
  <2> QED
    BY <1>2, <1>4 DEF ThreadsTypeOK, FreshUnborn, SpawnsOwn, Published, JoinersSaw,
                      NobodyParkedOnExited
<1> QED
  BY <1>3, <1>4 DEF create_thread

\* What execute() starts, or fails to start, is the mapped thread its caller
\* created: no thread that already runs or has exited is touched.
LEMMA execute_spawn_Inv ==
    ASSUME Inv, NEW t \in Tids, execute_spawn(t)
    PROVE  Inv'
<1> DEFINE n == tgt[t]
<1>1. /\ n \in Tids /\ n \in Nat /\ tpc[n] = "mapped" /\ n # t /\ tpc[t] = "spawn"
      /\ \A u \in Tids : tpc[u] = "spawn" /\ tgt[u] = n => u = t
  BY DEF Inv, execute_spawn, ThreadsTypeOK, SpawnsOwn, Calling
<1>2. UNCHANGED <<threads, next_tid, handle, exited, exit_value, detached, leaving, got>>
  BY DEF execute_spawn
<1>3. PICK a \in {"store", "user"}, b \in {"user", "stillborn"} :
        /\ tpc' = [u \in Tids |-> IF u = n THEN b ELSE IF u = t THEN a ELSE tpc[u]]
        /\ \/ a = "store" /\ tgt' = tgt
           \/ a = "user" /\ tgt' = [u \in Tids |-> IF u = t THEN 0 ELSE tgt[u]]
  <2>1. CASE tpc' = [tpc EXCEPT ![t] = "store", ![tgt[t]] = "user"] /\ tgt' = tgt
    <3>1. tpc' = [u \in Tids |-> IF u = n THEN "user" ELSE IF u = t THEN "store" ELSE tpc[u]]
      BY <1>1, <2>1 DEF Inv, ThreadsTypeOK
    <3> QED
      BY <2>1, <3>1
  <2>2. CASE /\ tpc' = [tpc EXCEPT ![t] = "user", ![tgt[t]] = "stillborn"]
             /\ tgt' = [tgt EXCEPT ![t] = 0]
    <3>1. tpc' = [u \in Tids |-> IF u = n THEN "stillborn" ELSE IF u = t THEN "user" ELSE tpc[u]]
      BY <1>1, <2>2 DEF Inv, ThreadsTypeOK
    <3>2. tgt' = [u \in Tids |-> IF u = t THEN 0 ELSE tgt[u]]
      BY <2>2 DEF Inv, ThreadsTypeOK
    <3> QED
      BY <3>1, <3>2
  <2> QED
    BY <2>1, <2>2 DEF execute_spawn
<1> HIDE DEF n
<1>4. \A u \in Tids : u # t => tgt'[u] = tgt[u]
  BY <1>3
<1>5. ThreadsTypeOK'
  <2>1. tpc' \in [Tids -> Stages]
    BY <1>1, <1>3 DEF Inv, ThreadsTypeOK, Stages, Calling
  <2>2. tgt' \in [Tids -> Nat]
    BY <1>1, <1>3 DEF Inv, ThreadsTypeOK
  <2>3. \A u \in Tids : tpc'[u] \in Calling => tgt'[u] \in Tids
    BY <1>1, <1>3 DEF Inv, ThreadsTypeOK, Calling, Joining, n
  <2> QED
    BY <1>2, <2>1, <2>2, <2>3 DEF Inv, ThreadsTypeOK
<1>6. FreshUnborn'
  BY <1>1, <1>2, <1>3 DEF Inv, ThreadsTypeOK, FreshUnborn
<1>7. SpawnsOwn'
  BY <1>1, <1>3, <1>4 DEF Inv, ThreadsTypeOK, SpawnsOwn, Calling
<1>8. Published'
  BY <1>1, <1>2, <1>3 DEF Inv, Published, Leaving, Gone
<1>9. JoinersSaw'
  BY <1>1, <1>2, <1>3, <1>4 DEF Inv, JoinersSaw
<1>10. NobodyParkedOnExited'
  BY <1>1, <1>3, <1>4 DEF Inv, ThreadsTypeOK, Calling, Joining, NobodyParkedOnExited
<1> QED
  BY <1>5, <1>6, <1>7, <1>8, <1>9, <1>10 DEF Inv

\* The handle of a started thread is stored.
LEMMA execute_store_Inv ==
    ASSUME Inv, NEW t \in Tids, execute_store(t)
    PROVE  Inv'
<1> USE DEF Inv, execute_store, ThreadAt
<1>1. ThreadsTypeOK'
  BY DEF ThreadsTypeOK, Stages, Calling, Joining, Leaving, Unset
<1>2. FreshUnborn'
  BY DEF ThreadsTypeOK, FreshUnborn
<1>3. SpawnsOwn'
  BY DEF ThreadsTypeOK, SpawnsOwn, Calling
<1>4. Published'
  BY DEF ThreadsTypeOK, Published, Leaving, Gone, Calling, Joining
<1>5. JoinersSaw'
  BY DEF ThreadsTypeOK, JoinersSaw, Published, Gone, Calling, Joining
<1>6. NobodyParkedOnExited'
  BY DEF ThreadsTypeOK, NobodyParkedOnExited, Published, Gone, Calling, Joining
<1> QED
  BY <1>1, <1>2, <1>3, <1>4, <1>5, <1>6

\* A running thread's flag is down, so what it leaves with is not yet read.
LEMMA guest_exit_Inv ==
    ASSUME Inv, NEW t \in Tids, guest_exit(t)
    PROVE  Inv'
<1> USE DEF Inv, guest_exit, ThreadAt
<1>1. ThreadsTypeOK'
  BY DEF ThreadsTypeOK, Stages, Calling, Joining, Leaving, Unset
<1>2. FreshUnborn'
  BY DEF ThreadsTypeOK, FreshUnborn
<1>3. SpawnsOwn'
  BY DEF ThreadsTypeOK, SpawnsOwn, Calling
<1>4. Published'
  BY DEF ThreadsTypeOK, Published, Leaving, Gone, Calling, Joining
<1>5. JoinersSaw'
  BY DEF ThreadsTypeOK, JoinersSaw, Published, Gone, Calling, Joining
<1>6. NobodyParkedOnExited'
  BY DEF ThreadsTypeOK, NobodyParkedOnExited, Published, Gone, Calling, Joining
<1> QED
  BY <1>1, <1>2, <1>3, <1>4, <1>5, <1>6

\* The value is stored while the flag is down.
LEMMA exit_store_value_Inv ==
    ASSUME Inv, NEW t \in Tids, exit_store_value(t)
    PROVE  Inv'
<1> USE DEF Inv, exit_store_value, ThreadAt
<1>1. ThreadsTypeOK'
  BY DEF ThreadsTypeOK, Stages, Calling, Joining, Leaving, Unset
<1>2. FreshUnborn'
  BY DEF ThreadsTypeOK, FreshUnborn
<1>3. SpawnsOwn'
  BY DEF ThreadsTypeOK, SpawnsOwn, Calling
<1>4. Published'
  BY DEF ThreadsTypeOK, Published, Leaving, Gone, Calling, Joining
<1>5. JoinersSaw'
  BY DEF ThreadsTypeOK, JoinersSaw, Published, Gone, Calling, Joining
<1>6. NobodyParkedOnExited'
  BY DEF ThreadsTypeOK, NobodyParkedOnExited, Published, Gone, Calling, Joining
<1> QED
  BY <1>1, <1>2, <1>3, <1>4, <1>5, <1>6

\* The flag goes up after the value; nobody is between look and wait.
LEMMA exit_store_flag_Inv ==
    ASSUME Inv, NEW t \in Tids, exit_store_flag(t)
    PROVE  Inv'
<1> USE DEF Inv, exit_store_flag, ThreadAt
<1>1. ThreadsTypeOK'
  BY DEF ThreadsTypeOK, Stages, Calling, Joining, Leaving, Unset
<1>2. FreshUnborn'
  BY DEF ThreadsTypeOK, FreshUnborn
<1>3. SpawnsOwn'
  BY DEF ThreadsTypeOK, SpawnsOwn, Calling
<1>4. Published'
  BY DEF ThreadsTypeOK, Published, Leaving, Gone, Calling, Joining
<1>5. JoinersSaw'
  BY DEF ThreadsTypeOK, JoinersSaw, Published, Gone, Calling, Joining
<1>6. NobodyParkedOnExited'
  BY DEF ThreadsTypeOK, NobodyParkedOnExited, Published, Gone, Calling, Joining
<1> QED
  BY <1>1, <1>2, <1>3, <1>4, <1>5, <1>6

\* Every join waiting for t looks at the flag again.
LEMMA exit_notify_Inv ==
    ASSUME Inv, NEW t \in Tids, exit_notify(t)
    PROVE  Inv'
<1> USE DEF Inv, exit_notify, Unused
<1>1. ThreadsTypeOK'
  BY DEF ThreadsTypeOK, Stages, Calling, Joining, Leaving, Unset
<1>2. FreshUnborn'
  BY DEF ThreadsTypeOK, FreshUnborn
<1>3. SpawnsOwn'
  BY DEF ThreadsTypeOK, SpawnsOwn, Calling
<1>4. Published'
  BY DEF ThreadsTypeOK, Published, Leaving, Gone, Calling, Joining
<1>5. JoinersSaw'
  BY DEF ThreadsTypeOK, JoinersSaw, Published, Gone, Calling, Joining
<1>6. NobodyParkedOnExited'
  BY DEF ThreadsTypeOK, NobodyParkedOnExited, Published, Gone, Calling, Joining
<1> QED
  BY <1>1, <1>2, <1>3, <1>4, <1>5, <1>6

\* The table entry goes; the values stay.
LEMMA exit_reap_Inv ==
    ASSUME Inv, NEW t \in Tids, exit_reap(t)
    PROVE  Inv'
<1> USE DEF Inv, exit_reap, ThreadAt
<1>1. ThreadsTypeOK'
  BY DEF ThreadsTypeOK, Stages, Calling, Joining, Leaving, Unset
<1>2. FreshUnborn'
  BY DEF ThreadsTypeOK, FreshUnborn
<1>3. SpawnsOwn'
  BY DEF ThreadsTypeOK, SpawnsOwn, Calling
<1>4. Published'
  BY DEF ThreadsTypeOK, Published, Leaving, Gone, Calling, Joining
<1>5. JoinersSaw'
  BY DEF ThreadsTypeOK, JoinersSaw, Published, Gone, Calling, Joining
<1>6. NobodyParkedOnExited'
  BY DEF ThreadsTypeOK, NobodyParkedOnExited, Published, Gone, Calling, Joining
<1> QED
  BY <1>1, <1>2, <1>3, <1>4, <1>5, <1>6

\* The look without exit_mu.
LEMMA join_load_Inv ==
    ASSUME Inv, NEW t \in Tids, join_load(t)
    PROVE  Inv'
<1> USE DEF Inv, join_load, ThreadAt, Unused
<1>1. ThreadsTypeOK'
  BY DEF ThreadsTypeOK, Stages, Calling, Joining, Leaving, Unset
<1>2. FreshUnborn'
  BY DEF ThreadsTypeOK, FreshUnborn
<1>3. SpawnsOwn'
  BY DEF ThreadsTypeOK, SpawnsOwn, Calling
<1>4. Published'
  BY DEF ThreadsTypeOK, Published, Leaving, Gone, Calling, Joining
<1>5. JoinersSaw'
  BY DEF ThreadsTypeOK, JoinersSaw, Published, Gone, Calling, Joining
<1>6. NobodyParkedOnExited'
  BY DEF ThreadsTypeOK, NobodyParkedOnExited, Published, Gone, Calling, Joining
<1> QED
  BY <1>1, <1>2, <1>3, <1>4, <1>5, <1>6

\* The look under exit_mu: a thread that may still call notify_all.
LEMMA join_check_Inv ==
    ASSUME Inv, NEW t \in Tids, join_check(t)
    PROVE  Inv'
<1> USE DEF Inv, join_check, ThreadAt, Unused
<1>1. ThreadsTypeOK'
  BY DEF ThreadsTypeOK, Stages, Calling, Joining, Leaving, Unset
<1>2. FreshUnborn'
  BY DEF ThreadsTypeOK, FreshUnborn
<1>3. SpawnsOwn'
  BY DEF ThreadsTypeOK, SpawnsOwn, Calling
<1>4. Published'
  BY DEF ThreadsTypeOK, Published, Leaving, Gone, Calling, Joining
<1>5. JoinersSaw'
  BY DEF ThreadsTypeOK, JoinersSaw, Published, Gone, Calling, Joining
<1>6. NobodyParkedOnExited'
  BY DEF ThreadsTypeOK, NobodyParkedOnExited, Published, Gone, Calling, Joining
<1> QED
  BY <1>1, <1>2, <1>3, <1>4, <1>5, <1>6

\* A wakeup nobody asked for.
LEMMA join_wakeup_Inv ==
    ASSUME Inv, NEW t \in Tids, join_wakeup(t)
    PROVE  Inv'
<1> USE DEF Inv, join_wakeup, ThreadAt, Unused
<1>1. ThreadsTypeOK'
  BY DEF ThreadsTypeOK, Stages, Calling, Joining, Leaving, Unset
<1>2. FreshUnborn'
  BY DEF ThreadsTypeOK, FreshUnborn
<1>3. SpawnsOwn'
  BY DEF ThreadsTypeOK, SpawnsOwn, Calling
<1>4. Published'
  BY DEF ThreadsTypeOK, Published, Leaving, Gone, Calling, Joining
<1>5. JoinersSaw'
  BY DEF ThreadsTypeOK, JoinersSaw, Published, Gone, Calling, Joining
<1>6. NobodyParkedOnExited'
  BY DEF ThreadsTypeOK, NobodyParkedOnExited, Published, Gone, Calling, Joining
<1> QED
  BY <1>1, <1>2, <1>3, <1>4, <1>5, <1>6

\* What is read is final, for the flag is up.
LEMMA join_value_Inv ==
    ASSUME Inv, NEW t \in Tids, join_value(t)
    PROVE  Inv'
<1> USE DEF Inv, join_value, ThreadAt
<1>1. ThreadsTypeOK'
  BY DEF ThreadsTypeOK, Stages, Calling, Joining, Leaving, Unset
<1>2. FreshUnborn'
  BY DEF ThreadsTypeOK, FreshUnborn
<1>3. SpawnsOwn'
  BY DEF ThreadsTypeOK, SpawnsOwn, Calling
<1>4. Published'
  BY DEF ThreadsTypeOK, Published, Leaving, Gone, Calling, Joining
<1>5. JoinersSaw'
  BY DEF ThreadsTypeOK, JoinersSaw, Published, Gone, Calling, Joining
<1>6. NobodyParkedOnExited'
  BY DEF ThreadsTypeOK, NobodyParkedOnExited, Published, Gone, Calling, Joining
<1> QED
  BY <1>1, <1>2, <1>3, <1>4, <1>5, <1>6

\* Taking the handle.
LEMMA join_take_Inv ==
    ASSUME Inv, NEW t \in Tids, join_take(t)
    PROVE  Inv'
<1> USE DEF Inv, join_take, ThreadAt
<1>1. ThreadsTypeOK'
  BY DEF ThreadsTypeOK, Stages, Calling, Joining, Leaving, Unset
<1>2. FreshUnborn'
  BY DEF ThreadsTypeOK, FreshUnborn
<1>3. SpawnsOwn'
  BY DEF ThreadsTypeOK, SpawnsOwn, Calling
<1>4. Published'
  BY DEF ThreadsTypeOK, Published, Leaving, Gone, Calling, Joining
<1>5. JoinersSaw'
  BY DEF ThreadsTypeOK, JoinersSaw, Published, Gone, Calling, Joining
<1>6. NobodyParkedOnExited'
  BY DEF ThreadsTypeOK, NobodyParkedOnExited, Published, Gone, Calling, Joining
<1> QED
  BY <1>1, <1>2, <1>3, <1>4, <1>5, <1>6

\* Waiting for the host thread.
LEMMA join_host_Inv ==
    ASSUME Inv, NEW t \in Tids, join_host(t)
    PROVE  Inv'
<1> USE DEF Inv, join_host, ThreadAt, Unused
<1>1. ThreadsTypeOK'
  BY DEF ThreadsTypeOK, Stages, Calling, Joining, Leaving, Unset
<1>2. FreshUnborn'
  BY DEF ThreadsTypeOK, FreshUnborn
<1>3. SpawnsOwn'
  BY DEF ThreadsTypeOK, SpawnsOwn, Calling
<1>4. Published'
  BY DEF ThreadsTypeOK, Published, Leaving, Gone, Calling, Joining
<1>5. JoinersSaw'
  BY DEF ThreadsTypeOK, JoinersSaw, Published, Gone, Calling, Joining
<1>6. NobodyParkedOnExited'
  BY DEF ThreadsTypeOK, NobodyParkedOnExited, Published, Gone, Calling, Joining
<1> QED
  BY <1>1, <1>2, <1>3, <1>4, <1>5, <1>6

\* The join returns.
LEMMA join_return_Inv ==
    ASSUME Inv, NEW t \in Tids, join_return(t)
    PROVE  Inv'
<1> USE DEF Inv, join_return, ThreadAt
<1>1. ThreadsTypeOK'
  BY DEF ThreadsTypeOK, Stages, Calling, Joining, Leaving, Unset
<1>2. FreshUnborn'
  BY DEF ThreadsTypeOK, FreshUnborn
<1>3. SpawnsOwn'
  BY DEF ThreadsTypeOK, SpawnsOwn, Calling
<1>4. Published'
  BY DEF ThreadsTypeOK, Published, Leaving, Gone, Calling, Joining
<1>5. JoinersSaw'
  BY DEF ThreadsTypeOK, JoinersSaw, Published, Gone, Calling, Joining
<1>6. NobodyParkedOnExited'
  BY DEF ThreadsTypeOK, NobodyParkedOnExited, Published, Gone, Calling, Joining
<1> QED
  BY <1>1, <1>2, <1>3, <1>4, <1>5, <1>6

\* Detaching sets the flag of the thread it names.
LEMMA detach_flag_Inv ==
    ASSUME Inv, NEW t \in Tids, detach_flag(t)
    PROVE  Inv'
<1> USE DEF Inv, detach_flag, ThreadAt
<1>1. ThreadsTypeOK'
  BY DEF ThreadsTypeOK, Stages, Calling, Joining, Leaving, Unset
<1>2. FreshUnborn'
  BY DEF ThreadsTypeOK, FreshUnborn
<1>3. SpawnsOwn'
  BY DEF ThreadsTypeOK, SpawnsOwn, Calling
<1>4. Published'
  BY DEF ThreadsTypeOK, Published, Leaving, Gone, Calling, Joining
<1>5. JoinersSaw'
  BY DEF ThreadsTypeOK, JoinersSaw, Published, Gone, Calling, Joining
<1>6. NobodyParkedOnExited'
  BY DEF ThreadsTypeOK, NobodyParkedOnExited, Published, Gone, Calling, Joining
<1> QED
  BY <1>1, <1>2, <1>3, <1>4, <1>5, <1>6

\* Detaching drops the handle.
LEMMA detach_handle_Inv ==
    ASSUME Inv, NEW t \in Tids, detach_handle(t)
    PROVE  Inv'
<1> USE DEF Inv, detach_handle, ThreadAt
<1>1. ThreadsTypeOK'
  BY DEF ThreadsTypeOK, Stages, Calling, Joining, Leaving, Unset
<1>2. FreshUnborn'
  BY DEF ThreadsTypeOK, FreshUnborn
<1>3. SpawnsOwn'
  BY DEF ThreadsTypeOK, SpawnsOwn, Calling
<1>4. Published'
  BY DEF ThreadsTypeOK, Published, Leaving, Gone, Calling, Joining
<1>5. JoinersSaw'
  BY DEF ThreadsTypeOK, JoinersSaw, Published, Gone, Calling, Joining
<1>6. NobodyParkedOnExited'
  BY DEF ThreadsTypeOK, NobodyParkedOnExited, Published, Gone, Calling, Joining
<1> QED
  BY <1>1, <1>2, <1>3, <1>4, <1>5, <1>6

\* A join or a detach names a thread that has an entry; nothing else moves.
LEMMA name_thread_Inv ==
    ASSUME Inv, NEW t \in Tids, NEW u \in Tids, join_thread(t, u) \/ thread_detach(t, u)
    PROVE  Inv'
<1> USE DEF Inv
<1>0. PICK l \in {"join_load", "detach_flag"} :
        /\ tpc[t] = "user" /\ tpc' = [tpc EXCEPT ![t] = l] /\ tgt' = [tgt EXCEPT ![t] = u]
        /\ UNCHANGED <<threads, next_tid, handle, exited, exit_value, detached, leaving, got>>
  BY DEF join_thread, thread_detach, ThreadAt
<1>1. ThreadsTypeOK'
  <2>1. u \in Nat
    BY MaxTidAssumption DEF Tids
  <2>2. tpc' \in [Tids -> Stages] /\ tgt' \in [Tids -> Nat]
    BY <1>0, <2>1 DEF ThreadsTypeOK, Stages, Calling, Joining
  <2>3. \A v \in Tids : tpc'[v] \in Calling => tgt'[v] \in Tids
    BY <1>0 DEF ThreadsTypeOK
  <2> QED
    BY <1>0, <2>2, <2>3 DEF ThreadsTypeOK
<1>2. FreshUnborn' /\ SpawnsOwn'
  BY <1>0 DEF ThreadsTypeOK, FreshUnborn, SpawnsOwn, Calling
<1>3. Published'
  BY <1>0 DEF ThreadsTypeOK, Published, Leaving, Gone
<1>4. JoinersSaw' /\ NobodyParkedOnExited'
  BY <1>0 DEF ThreadsTypeOK, JoinersSaw, NobodyParkedOnExited, Calling, Joining
<1> QED
  BY <1>1, <1>2, <1>3, <1>4

----------------------------------------------------------------------------
\* The main thread runs and no other has been created.
LEMMA InitInv == ThreadsInit => Inv
<1> SUFFICES ASSUME ThreadsInit PROVE Inv
  OBVIOUS
<1> USE DEF ThreadsInit
<1>1. ThreadsTypeOK
  BY MaxTidAssumption DEF ThreadsTypeOK, Stages, Calling, Joining, Tids
<1>2. FreshUnborn
  BY DEF FreshUnborn, Tids
<1>3. SpawnsOwn /\ Published /\ JoinersSaw /\ NobodyParkedOnExited
  BY DEF SpawnsOwn, Published, JoinersSaw, NobodyParkedOnExited, Leaving, Gone
<1> QED
  BY <1>1, <1>2, <1>3 DEF Inv

\* The invariant holds in every state of every execution.
THEOREM Invariance == ThreadsSpec => []Inv
<1>1. Inv /\ [ThreadsNext]_threadVars => Inv'
  <2> SUFFICES ASSUME Inv, [ThreadsNext]_threadVars PROVE Inv'
    OBVIOUS
  <2>1. ASSUME NEW t \in Tids, ThreadCall(t) PROVE Inv'
    BY <2>1, create_thread_Inv, guest_exit_Inv, name_thread_Inv DEF ThreadCall
  <2>2. ASSUME NEW t \in Tids, ThreadStep(t) PROVE Inv'
    BY <2>2, execute_spawn_Inv, execute_store_Inv, exit_store_value_Inv, exit_store_flag_Inv,
       exit_notify_Inv, exit_reap_Inv, join_load_Inv, join_check_Inv, join_value_Inv,
       join_take_Inv, join_host_Inv, join_return_Inv, detach_flag_Inv, detach_handle_Inv
       DEF ThreadStep
  <2>3. CASE UNCHANGED threadVars
    BY <2>3 DEF threadVars, Inv, ThreadsTypeOK, FreshUnborn, SpawnsOwn, Published,
                JoinersSaw, NobodyParkedOnExited
  <2> QED
    BY <2>1, <2>2, <2>3, join_wakeup_Inv DEF ThreadsNext
<1> QED
  BY <1>1, InitInv, PTL DEF ThreadsSpec

\* Types, and that a call in progress names a thread that exists.
THEOREM TypeCorrect == ThreadsSpec => []ThreadsTypeOK
<1>1. Inv => ThreadsTypeOK
  BY DEF Inv
<1> QED
  BY <1>1, Invariance, PTL

\* join_thread returns what the joined thread exited with, for any number of
\* threads creating, joining and detaching one another: the value is stored
\* before the flag, and a thread that has exited is never started again.
THEOREM JoinsAreTrue == ThreadsSpec => []JoinReturnsExitValue
<1>1. Inv => JoinReturnsExitValue
  BY DEF Inv, ThreadsTypeOK, Published, JoinersSaw, JoinReturnsExitValue, Calling, Joining, Gone
<1> QED
  BY <1>1, Invariance, PTL

\* No join sleeps past the notify_all of the thread it waits for, the safety
\* half of JoinCompletes.
THEOREM NoLostExit == ThreadsSpec => []NobodyParkedOnExited
<1>1. Inv => NobodyParkedOnExited
  BY DEF Inv
<1> QED
  BY <1>1, Invariance, PTL

\* What a thread exited with is final: once its flag is up, neither the flag
\* nor the value changes, so every later join of it returns the same.
ExitIsFinal ==
    [][\A u \in Tids : exited[u] => exited'[u] /\ exit_value'[u] = exit_value[u]]_threadVars

\* No call of any thread takes an exit back.
THEOREM ExitsAreFinal == ThreadsSpec => ExitIsFinal
<1> DEFINE Kept == \A u \in Tids : exited[u] => exited'[u] /\ exit_value'[u] = exit_value[u]
<1>1. Inv /\ [ThreadsNext]_threadVars => [Kept]_threadVars
  <2> SUFFICES ASSUME Inv, ThreadsNext PROVE Kept
    OBVIOUS
  <2>1. PICK t \in Tids : ThreadCall(t) \/ ThreadStep(t) \/ join_wakeup(t)
    BY DEF ThreadsNext
  <2>2. CASE exit_store_value(t)
    BY <2>2 DEF exit_store_value, Inv, ThreadsTypeOK, Published, Gone
  <2>3. CASE exit_store_flag(t)
    BY <2>3 DEF exit_store_flag, Inv, ThreadsTypeOK
  <2>4. CASE UNCHANGED <<exited, exit_value>>
    BY <2>4
  <2> QED
    BY <2>1, <2>2, <2>3, <2>4 DEF ThreadCall, ThreadStep, create_thread, guest_exit,
       join_thread, thread_detach, execute_spawn, execute_store, exit_notify, exit_reap,
       join_load, join_check, join_wakeup, join_value, join_take, join_host, join_return,
       detach_flag, detach_handle, Unused
<1> QED
  BY <1>1, Invariance, PTL DEF ThreadsSpec, ExitIsFinal
=============================================================================
