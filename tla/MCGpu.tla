------------------------------- MODULE MCGpu -------------------------------
(***************************************************************************)
(* TLC's instance of the GPU side: the resource cache, the draws of a      *)
(* command buffer, frame captures, the guest's command buffers, surfaces   *)
(* and shader binaries.  A behaviour moves one of them and leaves the      *)
(* others where they began: every state of each is reached, without their  *)
(* product.  DrawExec is two parts: "draws", whose shader stays the same,  *)
(* and "code", where shaders are stored into and bound and every draw is   *)
(* to the screen, without a texture.                                       *)
(***************************************************************************)
EXTENDS GpuCache, DrawExec, Snapshot, CommandBuffer, Surfaces, ShaderBinary, TLC

----------------------------------------------------------------------------
\* Two pages of two cells: an index buffer and a texture of one cell each,
\* and across the page boundary a vertex buffer and a render target.
MCCells == 0..3
Key(l, h, lay) == [lo |-> l, hi |-> h, layout |-> lay]
MCKeys == {Key(0, 0, "IndexBuf"), Key(3, 3, "Texture"), Key(1, 2, "VertexBuf"), Key(1, 2, "RenderTarget")}

----------------------------------------------------------------------------
(* Shader code: a binary, that binary patched in place, and another one. *)

MCBinaries == {[hash |-> 1, words |-> 1], [hash |-> 1, words |-> 2], [hash |-> 2, words |-> 3]}

FirstCode ==
    /\ code = [s \in Shaders |-> CHOOSE b \in Binaries : TRUE]
    /\ regs.shader = CHOOSE s \in Shaders : TRUE

----------------------------------------------------------------------------
(* Captures: what may happen in each frame *)

MCEvents == (0 :> 0) @@ (1 :> 2) @@ (2 :> 1) @@ (3 :> 0)

----------------------------------------------------------------------------
(* Shader binaries: memory with headers, half headers and data that looks   *)
(* like one; programs with calls and branches, over fetch shaders.          *)

Footer(c) == <<M1, M2, c>>
MCTails ==
    {<<Op>>, <<End>>, <<Lit, M1>>, <<M1>>, Footer(Vs(1)), Footer(Cs(2)), Footer(Vs(4)), Footer(Vs(5))}
Strings(pieces, lengths) == UNION {{FlattenSeq(p) : p \in [1..n -> pieces]} : n \in lengths}
Program(p) == p \o <<End>> \o Footer(Vs(Len(p) + 1))
MCPrograms ==
    {Program(p) : p \in Strings({<<Op>>, <<Br(1)>>, <<SwapCall>>, <<Lit, M1>>}, {3})
                          \cup {<<BadCall>>, <<SwapCall, Wide, SwapCall>>, <<LongOp, SwapCall, Op>>}}
MCFetches ==
    {<<>>} \cup Strings({<<LoadV(1)>>, <<LoadV(2), Fmt(2), Ret>>, <<Fmt(1), Op>>, <<Wait>>, <<Ret>>}, {3, 4})
MCInputs == (Strings(MCTails, 1..4) \X {<<>>}) \cup (MCPrograms \X MCFetches)

----------------------------------------------------------------------------
VARIABLE part

mcVars == <<part, resourceVars, drawVars, snapVars, cmdVars, surfaceVars, shaderBinVars>>

\* A part that does not move begins in one of its initial states.
Still(p, first) == part = p \/ first

MCInit ==
    /\ part \in {"cache", "draws", "code", "snapshot", "commands", "surfaces", "binary"}
    /\ Still("snapshot", shader_code = [a \in ShaderAddrs |-> TRUE])
    /\ Still("commands", arena = [i \in 1..ArenaDwords |-> Zero])
    /\ CacheInit /\ DrawInit /\ SnapInit /\ CmdInit /\ SurfaceInit
    /\ Still("code", FirstCode)
    /\ IF part = "binary" THEN ShaderBinInit ELSE ShaderBinStart(<<<<>>, <<>>>>)

MCNext ==
    \/ part = "cache" /\ CacheNext
       /\ UNCHANGED <<part, drawVars, snapVars, cmdVars, surfaceVars, shaderBinVars>>
    \/ part \in {"draws", "code"} /\ DrawNext
       /\ (part = "draws" => code' = code /\ regs'.shader = regs.shader)
       /\ (part = "code" => regs'.target = Screen /\ regs'.texture = NoTexture)
       /\ UNCHANGED <<part, resourceVars, snapVars, cmdVars, surfaceVars, shaderBinVars>>
    \/ part = "snapshot" /\ SnapNext
       /\ UNCHANGED <<part, resourceVars, drawVars, cmdVars, surfaceVars, shaderBinVars>>
    \/ part = "commands" /\ CmdNext
       /\ UNCHANGED <<part, resourceVars, drawVars, snapVars, surfaceVars, shaderBinVars>>
    \/ part = "surfaces" /\ SurfaceNext
       /\ UNCHANGED <<part, resourceVars, drawVars, snapVars, cmdVars, shaderBinVars>>
    \/ part = "binary" /\ ShaderBinNext
       /\ UNCHANGED <<part, resourceVars, drawVars, snapVars, cmdVars, surfaceVars>>

MCSpec == MCInit /\ [][MCNext]_mcVars
=============================================================================
