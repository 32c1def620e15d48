------------------------------ MODULE MCSystem ------------------------------
(***************************************************************************)
(* TLC's instance of the parts that share no state with each other: the    *)
(* kernel's tables (object handles, HLE arena, pthread keys), the guest    *)
(* address space and the shader back ends.  A behaviour moves one of them  *)
(* and leaves the others where they began: every state of each is reached, *)
(* without their product.                                                  *)
(***************************************************************************)
EXTENDS Handles, HleArena, TlsKeys, GuestMemory, MCGcnShader

VARIABLE part

mcVars == <<part, handleVars, arenaVars, tlsVars, memoryVars, shaderVars>>

\* Where the shader part begins when another part moves.
FirstShader ==
    /\ shader = VS(EndPgm) /\ launch = {0}
    /\ phase = "idle" /\ cfg = <<>> /\ wave = init_launch("vs", {0})
    /\ here = 1 /\ trips = 0 /\ saved = {} /\ module = <<>> /\ inv = <<>>

MCInit ==
    /\ part \in {"handles", "arena", "keys", "memory", "shader"}
    /\ HandlesInit /\ ArenaInit /\ TlsInit /\ MemoryInit
    /\ IF part = "shader" THEN ShaderInit ELSE FirstShader

MCNext ==
    \/ part = "handles" /\ HandlesNext /\ UNCHANGED <<part, arenaVars, tlsVars, memoryVars, shaderVars>>
    \/ part = "arena" /\ ArenaNext /\ UNCHANGED <<part, handleVars, tlsVars, memoryVars, shaderVars>>
    \/ part = "keys" /\ TlsNext /\ UNCHANGED <<part, handleVars, arenaVars, memoryVars, shaderVars>>
    \/ part = "memory" /\ MemoryNext /\ UNCHANGED <<part, handleVars, arenaVars, tlsVars, shaderVars>>
    \/ part = "shader" /\ ShaderNext /\ UNCHANGED <<part, handleVars, arenaVars, tlsVars, memoryVars>>

MCSpec == MCInit /\ [][MCNext]_mcVars

\* Numbers below, beside and beyond the handles.
MCJunk == {-1, 0, 1, 12}

\* This guest's alignments are whole pages.
ASSUME MCWholeAligns == WholeAligns
=============================================================================
