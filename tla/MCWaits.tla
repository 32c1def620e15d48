------------------------------- MODULE MCWaits -------------------------------
(***************************************************************************)
(* TLC's instance of what a guest thread waits for: a semaphore of either  *)
(* API, and the display thread's answer.  They share no state, so a        *)
(* behaviour moves one of them and leaves the others where they began:     *)
(* every state of each is reached, without their product.                  *)
(***************************************************************************)
EXTENDS Semaphores, Display

\* A count below the least the calls accept, which they raise to it (a need of 1,
\* none to begin with), and a need of two.
MCArgs == {-1, 2}

VARIABLE part

mcVars == <<part, semaVars, displayVars>>

MCInit ==
    /\ part \in {"posix", "sce", "display"}
    /\ SemaInit /\ DisplayInit
    /\ part # "display" => ~device

\* The guest may have nothing more to show, or have deleted its last semaphore.
Stopped ==
    /\ part = "sce" => NEXT_SEMA_ID \notin SceIds /\ \A n \in Names : sem[n] = None
    /\ part # "posix" /\ UNCHANGED mcVars

MCNext ==
    \/ part = "posix" /\ SemaNext /\ UNCHANGED <<NEXT_SEMA_ID, part, displayVars>>
    \/ part = "sce" /\ SemaNext /\ (\A n \in Posix : sem'[n] = None) /\ UNCHANGED <<part, displayVars>>
    \/ part = "display" /\ DisplayNext /\ UNCHANGED <<part, semaVars>>
    \/ Stopped

\* SemaFairness and DisplayFairness, of the part that moves.
MCFairness ==
    /\ \A t \in Threads : /\ WF_semaVars(part # "display" /\ SemaStep(t))
                          /\ WF_semaVars(part # "display" /\ Expire(t))
    /\ WF_displayVars(part = "display" /\ LoopStep) /\ WF_displayVars(part = "display" /\ GpuStep)
    /\ WF_displayVars(part = "display" /\ FlipReturns)
    /\ \A t \in GpuCallers : WF_displayVars(part = "display" /\ ListReturns(t))

MCSpec == MCInit /\ [][MCNext]_mcVars /\ MCFairness
=============================================================================
