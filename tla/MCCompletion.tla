---------------------------- MODULE MCCompletion ----------------------------
(***************************************************************************)
(* TLC's instance of two things a guest thread is woken by: the owner of a *)
(* mutex or the signaller of a condition variable (SyncManager), and the   *)
(* GPU (GpuCompletion).  The two share no state, so a behaviour moves one  *)
(* of them and leaves the other where it began: every state of each is     *)
(* reached, without their product.                                         *)
(***************************************************************************)
EXTENDS SyncManager, GpuCompletion

VARIABLE part

mcVars == <<part, vars, completionVars>>

\* The end-of-pipe mode is chosen when the GPU's part moves.
MCInit ==
    /\ part \in {"sync", "gpu"} /\ Init /\ CompletionInit
    /\ part # "gpu" => ~eop_sync

MCNext ==
    \/ part = "sync" /\ Next /\ UNCHANGED <<part, completionVars>>
    \/ part = "gpu" /\ CompletionNext /\ UNCHANGED <<part, vars>>

\* Fairness and CompletionFairness, of the part that moves.
MCFairness ==
    /\ \A t \in Threads : SF_vars(part = "sync" /\ Step(t))
    /\ WF_completionVars(part = "gpu" /\ Executor) /\ WF_completionVars(part = "gpu" /\ Watchdog)
    /\ WF_completionVars(part = "gpu" /\ GraceElapses)
    /\ \A w \in Waiters : WF_completionVars(part = "gpu" /\ Waiter(w))

MCSpec == MCInit /\ [][MCNext]_mcVars /\ MCFairness
=============================================================================
