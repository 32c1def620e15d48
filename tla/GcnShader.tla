------------------------------ MODULE GcnShader ------------------------------
(***************************************************************************)
(* A shader through the emulator: the control-flow graph is built, the     *)
(* interpreter runs the wave, the recompiler emits a module, and every     *)
(* launched lane runs the module as an invocation of its own.  What the    *)
(* two export must agree: that is what the differential tests compare      *)
(* (crates/gcn/tests, crates/gpu/src/bin/diff_harness.rs).                 *)
(***************************************************************************)
EXTENDS GcnRecompile

CONSTANTS
    Programs,       \* the shaders examined: records with a stage and the code
    Launches        \* the launch masks

VARIABLES
    shader, launch, phase,
    cfg,                        \* the blocks build_cfg found
    wave, here, trips, saved,     \* the interpreter
    module, inv                 \* the emitted module and its invocations

waveVars == <<wave, here, trips, saved>>
shaderVars == <<shader, launch, phase, cfg, waveVars, module, inv>>

prog == shader.code
B == cfg

ShaderInit ==
    /\ shader \in Programs /\ launch \in Launches
    /\ phase = "cfg" /\ cfg = <<>> /\ wave = init_launch(shader.stage, launch)
    /\ here = 1 /\ trips = 0 /\ saved = {}
    /\ module = <<>> /\ inv = [l \in launch |-> Invocation]

Refused == phase' = "refused"

\* build_cfg, the first thing both back ends do.
BuildCfg ==
    /\ phase = "cfg"
    /\ IF build_cfg(prog) THEN phase' = "wave" /\ cfg' = Blocks(prog) ELSE Refused /\ cfg' = cfg
    /\ UNCHANGED <<shader, launch, waveVars, module, inv>>

\* execute_cfg at the block of here: its body, then its terminator.
Body == run_block_body(wave, prog, B, here)
InterpBlock ==
    /\ phase = "wave" /\ saved = {} /\ B[here].term.kind # "cond"
    /\ wave' = Body
    /\ IF B[here].term.kind = "return" THEN phase' = "emit" /\ here' = here
       ELSE phase' = phase /\ here' = B[here].term.to
    /\ UNCHANGED <<shader, launch, cfg, trips, saved, module, inv>>

InterpBranch ==
    /\ phase = "wave" /\ saved = {} /\ B[here].term.kind = "cond" /\ ~ClosesLoop(B, here)
    /\ IF merge_target(B, here) = {} THEN Refused /\ UNCHANGED waveVars
       ELSE /\ wave' = RunBranch(Body, prog, B, here)
            /\ here' = CHOOSE x \in merge_target(B, here) : TRUE
            /\ UNCHANGED <<phase, trips, saved>>
    /\ UNCHANGED <<shader, launch, cfg, module, inv>>

\* The block before the back edge runs once under the full mask.
InterpEnterLoop ==
    /\ phase = "wave" /\ saved = {} /\ ClosesLoop(B, here)
    /\ wave' = Body /\ saved' = {Body.exec} /\ trips' = 0
    /\ UNCHANGED <<shader, launch, cfg, phase, here, module, inv>>

\* run_loop: the lanes whose condition holds go round again, the others wait
\* with EXEC off until the loop is left and the saved mask comes back.
LeaveLoop(st, mask) == [st EXCEPT !.exec = mask]
InterpLoop ==
    /\ phase = "wave" /\ saved # {}
    /\ LET l == loop_of(B, here)
           go == taken_mask(wave, l.cond)
       IN IF go = {}
          THEN /\ wave' = LeaveLoop(wave, CHOOSE x \in saved : TRUE)
               /\ here' = l.merge /\ saved' = {}
               /\ UNCHANGED <<phase, trips>>
          ELSE IF trips >= LOOP_ITER_CAP THEN Refused /\ UNCHANGED waveVars
          ELSE /\ wave' = run_loop_body(wave, prog, B, l, go)
               /\ trips' = trips + 1
               /\ UNCHANGED <<phase, here, saved>>
    /\ UNCHANGED <<shader, launch, cfg, module, inv>>

Recompile ==
    /\ phase = "emit"
    /\ LET m == emit(shader.stage, prog, B) IN
       IF finish(m) THEN module' = m.blocks /\ phase' = "lanes" ELSE Refused /\ module' = module
    /\ UNCHANGED <<shader, launch, cfg, waveVars, inv>>

\* An invocation enters the next block; a label no block begins is an
\* invalid module.  Invocations share nothing: their order does not matter.
Running == {l \in launch : inv[l].at # 0}
RunLane ==
    /\ phase = "lanes" /\ Running # {}
    /\ LET l == Min(Running) IN
       IF inv[l].at \notin DOMAIN module THEN phase' = "invalid" /\ UNCHANGED inv
       ELSE IF inv[l].trips > LOOP_ITER_CAP + Len(prog) THEN phase' = "endless" /\ UNCHANGED inv
       ELSE /\ inv' = [inv EXCEPT ![l] = [RunBlock(@, l, module[@.at]) EXCEPT !.trips = @ + 1]]
            /\ phase' = phase
    /\ UNCHANGED <<shader, launch, cfg, waveVars, module>>

LanesDone ==
    /\ phase = "lanes" /\ Running = {}
    /\ phase' = "done"
    /\ UNCHANGED <<shader, launch, cfg, waveVars, module, inv>>

ShaderNext ==
    BuildCfg \/ InterpBlock \/ InterpBranch \/ InterpEnterLoop \/ InterpLoop \/ Recompile \/ RunLane \/ LanesDone
ShaderSpec == ShaderInit /\ [][ShaderNext]_shaderVars

-----------------------------------------------------------------------------
(* The programs on which the two are meant to agree. *)
At(n) == Max({b \in DOMAIN B : b <= n})
InLoop(n) == \E b \in LoopBlocks(B) : B[b].term.taken <= n /\ n <= B[b].last
InArm(n) ==
    \E b \in DOMAIN B \ LoopBlocks(B) :
       /\ B[b].term.kind = "cond" /\ B[b].term.cond \in {"vccz", "vccnz"}
       /\ \E m \in merge_target(B, b) :
            \/ At(n) \in ToSet(Path(B, B[b].term.taken, m))
            \/ At(n) \in ToSet(Path(B, B[b].term.fall, m))
Guarded(n) == InLoop(n) \/ InArm(n)
Live == 1..LiveLen(prog)
Ops(S) == {n \in Live : prog[n].op \in S}
Defs(r) == {n \in Ops({"s_mov_b32", "s_mov_b64", "s_load", "s_buffer_load", "v_mov_b32", "v_add_i32", "v_cndmask",
                       "v_cndmask_e64", "v_cmp_e64", "buffer_load", "v_interp_p1", "v_interp_p2", "image_sample"}) :
              prog[n].d = r}
VccWrites == Ops({"v_cmp", "v_add_i32"})
VccReads == Ops({"v_cndmask"}) \cup {n \in Ops({"s_cbranch"}) : prog[n].cond \in {"vccz", "vccnz"}}

\* Every lane that leaves a vccnz loop leaves it with its VCC bit clear.
ClearLoop(n) == InLoop(n) /\ \A b \in LoopBlocks(B) : B[b].term.cond = "vccnz"
\* No VCC, predicate or scalar write under a partial mask: the interpreter
\* clears the dead lanes' bits and writes the one SGPR for the whole wave.
MasksUniform ==
    /\ \A n \in VccWrites : Guarded(n) => ClearLoop(n)
    /\ \A n \in Ops({"v_cmp_e64", "s_mov_b32", "s_mov_b64", "s_load", "s_buffer_load"}) : ~Guarded(n)
\* The registers tracked as the vertex index are not written in one arm only.
IndexUnguarded ==
    \A n \in Live : Guarded(n) /\ "d" \in DOMAIN prog[n] =>
       /\ prog[n].d # "v0"
       /\ \A k \in Defs(prog[n].d) : prog[k].op # "v_mov_b32" \/ prog[k].a \notin VRegs
\* EXEC only comes back from a mask saved before.
ExecRestored ==
    \A n \in Ops({"s_mov_b64"}) : prog[n].d = "exec" => \E k \in 1..(n - 1) : prog[k].op = "s_mov_b64" /\ prog[k].d = prog[n].a
\* An SGPR holds either a descriptor for good or data; a constant buffer's
\* base is the user's own; descriptors are dense and unswizzled.
DescriptorsStable ==
    /\ \A n \in Ops({"s_load"}) : /\ Defs(prog[n].d) = {n}
                                  /\ Desc[prog[n].k + 1].sel = "x" /\ Desc[prog[n].k + 1].nr # 0
                                  /\ \A k \in Live : ("a" \in DOMAIN prog[k] /\ prog[k].a = prog[n].d) =>
                                        prog[k].op \in {"buffer_load", "image_sample"} /\ k > n
    /\ \A n \in Ops({"s_buffer_load", "image_sample"}) :
          Defs(prog[n].a) \cap Ops({"s_mov_b32", "s_buffer_load"}) = {}
    /\ \A n \in Ops({"s_buffer_load"}) : Defs(prog[n].a) = {}
    /\ Cardinality({prog[n].k : n \in Ops({"s_load"})}) <= MAX_VS_STREAMS
\* A loop is one block, so that its header is its back edge.
OneBlockLoop == \A b \in LoopBlocks(B) : B[b].term.taken = b
\* A constant moved to VCC is not read back.
VccConstantUnread ==
    \A n \in Ops({"s_mov_b32"}) : prog[n].d = "vcc" => \A k \in VccReads : k < n

InSubset ==
    /\ MasksUniform /\ IndexUnguarded /\ ExecRestored
    /\ DescriptorsStable /\ OneBlockLoop

SameExports == \A l \in launch : inv[l].out = wave.exports[l]

\* On every program of the subset that both back ends accept, each launched
\* lane's invocation of the emitted module exports what the interpreter
\* exports for that lane (interp.rs is the oracle of recompile.rs).
OracleAgrees == phase = "done" /\ InSubset /\ VccConstantUnread => SameExports

=============================================================================
