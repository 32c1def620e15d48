------------------------------ MODULE TlsKeys ------------------------------
(***************************************************************************)
(* pthread keys: the key registry of crates/kernel/src/tls.rs, the slots   *)
(* each thread keeps, and the destructor sweep of thread.rs that runs when *)
(* a thread leaves.  A destructor is guest code and may store values again *)
(* or create keys.                                                         *)
(***************************************************************************)
EXTENDS Naturals, FiniteSets

CONSTANTS Threads,
          MaxKeys,      \* bound on the keys ever created
          DTOR_ITERS    \* rounds of the sweep (4 in the code)

ASSUME RoundsAssumption == DTOR_ITERS \in Nat \ {0} /\ MaxKeys \in Nat

Keys == 0..(MaxKeys - 1)

VARIABLES
    next,        \* TlsKeys.next
    len,         \* TlsKeys.destructors.len()
    destructors, \* keys whose entry is Some
    slots,       \* thread -> the keys whose slot in tls_specific is not 0
    pc,          \* "guest", "record", "sweep", "dtor", "gone"
    exiting,     \* is the guest code the thread runs a destructor?
    newkey,      \* create_key in progress: the key drawn
    newdtor,     \* create_key in progress: a destructor was given
    round,       \* rounds of the sweep started
    to_run,      \* keys collected in this round, their slots cleared
    asked,       \* keys whose create_key was given a destructor
    made,        \* keys create_key has returned to the guest
    armed,       \* thread -> keys with a value and a destructor when it left
    ran          \* thread -> keys whose destructor it has run

tlsVars == <<next, len, destructors, slots, pc, exiting, newkey, newdtor, round,
          to_run, asked, made, armed, ran>>

TlsInit ==
    /\ next = 0 /\ len = 0 /\ destructors = {}
    /\ slots = [t \in Threads |-> {}]
    /\ pc = [t \in Threads |-> "guest"]
    /\ exiting = [t \in Threads |-> FALSE]
    /\ newkey = [t \in Threads |-> 0]
    /\ newdtor = [t \in Threads |-> FALSE]
    /\ round = [t \in Threads |-> 0]
    /\ to_run = [t \in Threads |-> {}]
    /\ asked = {} /\ made = {}
    /\ armed = [t \in Threads |-> {}]
    /\ ran = [t \in Threads |-> {}]

----------------------------------------------------------------------------
(* create_key: the number is drawn first, the entry written after *)

create_key_draw(t) ==
    /\ pc[t] = "guest" /\ next \in Keys
    /\ next' = next + 1
    /\ newkey' = [newkey EXCEPT ![t] = next]
    /\ \E d \in BOOLEAN : /\ newdtor' = [newdtor EXCEPT ![t] = d]
                          /\ asked' = IF d THEN asked \cup {next} ELSE asked
    /\ pc' = [pc EXCEPT ![t] = "record"]
    /\ UNCHANGED <<len, destructors, slots, exiting, round, to_run, made, armed, ran>>

\* Under the lock: grow the vector with None up to the key, then write it.
create_key_record(t) ==
    /\ pc[t] = "record"
    /\ len' = IF newkey[t] >= len THEN newkey[t] + 1 ELSE len
    /\ destructors' = IF newdtor[t] THEN destructors \cup {newkey[t]}
                                    ELSE destructors \ {newkey[t]}
    /\ made' = made \cup {newkey[t]}
    /\ pc' = [pc EXCEPT ![t] = "guest"]
    /\ UNCHANGED <<next, slots, exiting, newkey, newdtor, round, to_run, asked, armed, ran>>

----------------------------------------------------------------------------
(* The slots *)

\* Store a value other than 0; the vector of slots grows as needed.
tls_set_specific(t, k) ==
    /\ pc[t] = "guest" /\ k \in made
    /\ slots' = [slots EXCEPT ![t] = @ \cup {k}]
    /\ UNCHANGED <<next, len, destructors, pc, exiting, newkey, newdtor, round, to_run,
                   asked, made, armed, ran>>

\* Store 0.
tls_clear_specific(t, k) ==
    /\ pc[t] = "guest" /\ k \in made
    /\ slots' = [slots EXCEPT ![t] = @ \ {k}]
    /\ UNCHANGED <<next, len, destructors, pc, exiting, newkey, newdtor, round, to_run,
                   asked, made, armed, ran>>

----------------------------------------------------------------------------
(* run_tls_destructors_on_exit *)

\* The thread's guest code is over.
thread_exit(t) ==
    /\ pc[t] = "guest" /\ ~exiting[t]
    /\ pc' = [pc EXCEPT ![t] = "sweep"]
    /\ exiting' = [exiting EXCEPT ![t] = TRUE]
    /\ armed' = [armed EXCEPT ![t] = {k \in slots[t] : k \in asked}]
    /\ UNCHANGED <<next, len, destructors, slots, newkey, newdtor, round, to_run,
                   asked, made, ran>>

\* Mutated form: the sweep stops before the highest key.
CollectedShort(t) == {k \in slots[t] : k + 1 < len /\ k \in destructors}

\* Keys below max_key with a value and a destructor.
Collected(t) == {k \in slots[t] : k < len /\ k \in destructors}

\* One round: collect under the slots lock, clearing what is collected.  A
\* round that finds nothing ends the sweep.
sweep_collect(t) ==
    /\ pc[t] = "sweep" /\ to_run[t] = {} /\ round[t] < DTOR_ITERS
    /\ round' = [round EXCEPT ![t] = @ + 1]
    /\ to_run' = [to_run EXCEPT ![t] = Collected(t)]
    /\ slots' = [slots EXCEPT ![t] = @ \ Collected(t)]
    /\ pc' = [pc EXCEPT ![t] = IF Collected(t) = {} THEN "gone" ELSE "dtor"]
    /\ UNCHANGED <<next, len, destructors, exiting, newkey, newdtor, asked, made, armed, ran>>

\* Run the next collected destructor: guest code, in key order.
sweep_call(t) ==
    /\ pc[t] = "dtor"
    /\ \E k \in to_run[t] :
          /\ \A j \in to_run[t] : k <= j
          /\ to_run' = [to_run EXCEPT ![t] = @ \ {k}]
          /\ ran' = [ran EXCEPT ![t] = @ \cup {k}]
    /\ pc' = [pc EXCEPT ![t] = "guest"]
    /\ UNCHANGED <<next, len, destructors, slots, exiting, newkey, newdtor, round, asked, made, armed>>

\* The destructor returns, exits the thread or faults: all the same here.
sweep_return(t) ==
    /\ pc[t] = "guest" /\ exiting[t]
    /\ pc' = [pc EXCEPT ![t] = IF to_run[t] # {} THEN "dtor" ELSE "sweep"]
    /\ UNCHANGED <<next, len, destructors, slots, exiting, newkey, newdtor, round, to_run,
                   asked, made, armed, ran>>

\* The last round is over.
sweep_stop(t) ==
    /\ pc[t] = "sweep" /\ to_run[t] = {} /\ round[t] = DTOR_ITERS
    /\ pc' = [pc EXCEPT ![t] = "gone"]
    /\ UNCHANGED <<next, len, destructors, slots, exiting, newkey, newdtor, round, to_run,
                   asked, made, armed, ran>>

----------------------------------------------------------------------------
Step(t) == create_key_record(t) \/ sweep_collect(t) \/ sweep_call(t)
             \/ sweep_return(t) \/ sweep_stop(t)

\* The calls a guest thread may make: pthread_key_create, setspecific, exit.
TlsCall(t) ==
    \/ create_key_draw(t) \/ thread_exit(t)
    \/ \E k \in Keys : tls_set_specific(t, k) \/ tls_clear_specific(t, k)

TlsNext == \E t \in Threads : TlsCall(t) \/ Step(t)

TlsSpec == TlsInit /\ [][TlsNext]_tlsVars

----------------------------------------------------------------------------
(* Properties *)

\* Every value with a destructor that a thread leaves behind is destroyed, and
\* so is what its destructors store again, under keys old or new, unless they
\* kept the sweep busy for all of its rounds: a thread that stopped sooner has
\* left nothing with a destructor in its slots.
ExitRunsEveryDestructor ==
    \A t \in Threads : pc[t] = "gone" =>
        /\ armed[t] \subseteq ran[t]
        /\ round[t] < DTOR_ITERS => slots[t] \cap asked = {}
=============================================================================
