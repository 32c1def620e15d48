------------------------------ MODULE DrawExec ------------------------------
(***************************************************************************)
(* From a draw packet to a render pass: the PM4 executor that turns shadow *)
(* registers into backend commands (crates/gnm/src/exec.rs, derive.rs,     *)
(* state.rs, cache/pipeline.rs, shader/gcn.rs), and the display thread     *)
(* that walks the command list and records its passes                      *)
(* (crates/gpu/src/backend.rs, replay_command_list and record_passes).     *)
(*                                                                         *)
(* The registers a draw reads are the shader's address, its color target   *)
(* (the screen, or an offscreen base) and the base of the texture it       *)
(* samples.  A fault is a check of setup_draw that guest data fails; what  *)
(* the executor has by then put in the list stays there.                   *)
(***************************************************************************)
EXTENDS Naturals, FiniteSets, Sequences

CONSTANTS
    Shaders,     \* addresses of shader binaries
    Binaries,    \* what may lie there: the words, and the hash the header gives them
    RacyCode,    \* the guest may store into code while it is being recompiled
    Bases,       \* addresses of offscreen targets and textures
    Faults,      \* a subset of FaultKinds
    MaxLoads, MaxDraws, MaxLists, MaxFrames, MaxHangs, MaxFrees   \* bounds

Screen == "screen"
NoTexture == "none"
FaultKinds == {"none", "shader", "target", "const", "texture", "layout", "stream", "index"}
ASSUME DrawAssumption ==
    /\ (\A b \in Binaries : DOMAIN b = {"hash", "words"}) /\ RacyCode \in BOOLEAN
    /\ Faults \subseteq FaultKinds /\ Screen \notin Bases /\ NoTexture \notin Bases
    /\ {MaxLoads, MaxDraws, MaxLists, MaxFrames, MaxHangs, MaxFrees} \subseteq Nat

VARIABLES
    regs,            \* GpuState.regs: shader, color target and texture of the next draw
    code,            \* the binary at each address
    code_watched, code_dirty,   \* the dirty source, for shader code
    reading,         \* what resolve_gcn has read of the shader it recompiles, if it does
    shader_cache,    \* GcnShaderProvider.cache: of a header's hash, the words recompiled
                     \* and the address they were read at
    pipeline_cache,  \* PipelineCache: id of each key
    rt_entries,      \* ResourceCache entries of render targets: id of each base
    next_res,        \* ResourceCache.next_id
    render_targets,  \* RenderTargetRegistry: bases a draw may sample as a target
    submission,      \* the submit under way, and its list
    pipelines,       \* AshBackend.pipelines
    rts,             \* AshBackend.render_targets: the layout of each
    latch,           \* AshBackend.videoout_cleared_this_frame
    image,           \* the draws the videoout image shows
    frame, finished, \* the frame, and the videoout draws finished in it
    recorded,        \* the passes of the last list
    loads, draws, begun, hangs, frees

execVars == <<regs, shader_cache, pipeline_cache, rt_entries, next_res, render_targets>>
codeVars == <<code, code_watched, code_dirty, reading>>
screenVars == <<latch, image, frame, finished>>
drawVars == <<execVars, codeVars, submission, pipelines, rts, screenVars, recorded,
              loads, draws, begun, hangs, frees>>

Put(f, x, v) == [y \in DOMAIN f \cup {x} |-> IF y = x THEN v ELSE f[y]]
Forget(f, x) == [y \in DOMAIN f \ {x} |-> f[y]]
NoSubmit == [open |-> FALSE, list |-> <<>>]

----------------------------------------------------------------------------
(* The guest's shaders in memory *)

\* Another binary is loaded over the old one, or one that also lies elsewhere,
\* or instructions are patched in place and the header keeps its hash.
StoreCode(s, b) ==
    /\ loads < MaxLoads /\ loads' = loads + 1
    /\ b # code[s]
    /\ RacyCode \/ \A r \in reading : r.addr # s
    /\ code' = [code EXCEPT ![s] = b]
    /\ code_dirty' = IF s \in code_watched THEN code_dirty \cup {s} ELSE code_dirty
    /\ UNCHANGED <<execVars, code_watched, reading, submission, pipelines, rts, screenVars, recorded,
                   draws, begun, hangs, frees>>

----------------------------------------------------------------------------
(* A command buffer *)

\* GcnShaderProvider::apply_dirty: entries read from written code go.
KeepAll(cache, dirty) == cache   \* mutant: invalidation forgotten
shader_apply_dirty(cache, dirty) == [h \in {k \in DOMAIN cache : cache[k].addr \notin dirty} |-> cache[h]]

\* record_submit, before Executor::run.
BeginSubmit ==
    /\ ~submission.open /\ begun < MaxLists
    /\ begun' = begun + 1
    /\ shader_cache' = shader_apply_dirty(shader_cache, code_dirty)
    /\ code_dirty' = {}
    /\ submission' = [open |-> TRUE, list |-> <<>>]
    /\ recorded' = <<>>
    /\ UNCHANGED <<code, code_watched, reading, regs, pipeline_cache, rt_entries, next_res, render_targets,
                   pipelines, rts, screenVars, loads, draws, hangs, frees>>

\* SET_CONTEXT_REG, SET_SH_REG and CLEAR_STATE packets.
SetReg(field, value) ==
    /\ submission.open /\ reading = {} /\ regs[field] # value
    /\ regs' = [regs EXCEPT ![field] = value]
    /\ UNCHANGED <<shader_cache, pipeline_cache, rt_entries, next_res, render_targets, codeVars, submission,
                   pipelines, rts, screenVars, recorded, loads, draws, begun, hangs, frees>>

----------------------------------------------------------------------------
(* setup_draw *)

(* GcnShaderProvider::resolve_gcn.  The key is the header's alone: two       *)
(* addresses with one header share an entry.  A fetch shader's words, which  *)
(* are in no key and not watched, are taken to stay as they are.             *)

\* A miss reads the words, and recompiles what it has read.
ReadCode ==
    /\ submission.open /\ draws < MaxDraws /\ reading = {}
    /\ code[regs.shader].hash \notin DOMAIN shader_cache
    /\ reading' = {[addr |-> regs.shader, hash |-> code[regs.shader].hash, words |-> code[regs.shader].words]}
    /\ UNCHANGED <<execVars, code, code_watched, code_dirty, submission, pipelines, rts, screenVars,
                   recorded, loads, draws, begun, hangs, frees>>

\* A hit returns the entry and watches nothing.  After a recompile the code
\* is watched and the entry made.
HitShader(s) ==
    /\ reading = {} /\ code[s].hash \in DOMAIN shader_cache
    /\ UNCHANGED <<shader_cache, code_watched, reading>>
InsertShader ==
    /\ \E r \in reading : /\ code_watched' = code_watched \cup {r.addr}
                          /\ shader_cache' = Put(shader_cache, r.hash, [addr |-> r.addr, words |-> r.words])
    /\ reading' = {}
ResolveShader(s) == HitShader(s) \/ InsertShader
Resolved(s) == IF reading = {} THEN shader_cache[code[s].hash].words ELSE (CHOOSE r \in reading : TRUE).words

\* The header does not parse, or the recompiler refuses what was read.
DropShader == reading' = {} /\ UNCHANGED <<shader_cache, code_watched>>

\* derive_pipeline and shader_hash: the key a draw's pipeline is cached
\* under names the shader by its address.
shader_hash(s) == s
ResourceSignature(tex) == tex # NoTexture
PipelineKey(s, tex) == [shader |-> shader_hash(s), textured |-> ResourceSignature(tex)]

\* Commands
SetRenderTarget(id)    == [op |-> "set_rt", id |-> id]
CreateRenderTarget(id) == [op |-> "create_rt", id |-> id]
CreatePipeline(id, words) == [op |-> "create_pipeline", id |-> id, words |-> words,
                              shader |-> regs.shader, textured |-> regs.texture # NoTexture]
BindPipeline(id)       == [op |-> "bind_pipeline", id |-> id]
BindTexture(src)       == [op |-> "bind_texture", src |-> src]
DrawCmd(want)          == [op |-> "draw", want |-> want]

\* ResourceCache::get_render_target on base b, from the cache c.
RtCache == [ids |-> rt_entries, next |-> next_res]
GotTarget(c, b) == IF b \in DOMAIN c.ids THEN c ELSE [ids |-> Put(c.ids, b, c.next), next |-> c.next + 1]
RtCmds(c, b) == IF b \in DOMAIN c.ids THEN <<>> ELSE <<CreateRenderTarget(c.next)>>

\* register_render_target: what an offscreen draw puts first.
WithTarget(t) == IF t = Screen THEN RtCache ELSE GotTarget(RtCache, t)
TargetCmds(t) == IF t = Screen THEN <<>>
                 ELSE RtCmds(RtCache, t) \o <<SetRenderTarget(WithTarget(t).ids[t])>>

\* PipelineCache::get_or_mint.
PipelineId(key) == IF key \in DOMAIN pipeline_cache THEN pipeline_cache[key] ELSE Cardinality(DOMAIN pipeline_cache)
PipelineCmds(key, words) ==
    (IF key \in DOMAIN pipeline_cache THEN <<>> ELSE <<CreatePipeline(PipelineId(key), words)>>)
    \o <<BindPipeline(PipelineId(key))>>

\* A texture in the registry is bound as the target drawn into it
\* (bind_render_target_as_texture), any other as an image (bind_texture; its
\* upload is GpuCache's matter).
WithTexture(c, tex) == IF tex \in render_targets THEN GotTarget(c, tex) ELSE c
TextureCmds(c, tex) ==
    IF tex = NoTexture THEN <<>>
    ELSE IF tex \in render_targets
      THEN RtCmds(c, tex) \o <<BindTexture([rt |-> TRUE, id |-> WithTexture(c, tex).ids[tex]])>>
      ELSE <<BindTexture([rt |-> FALSE, id |-> 0])>>

Caching(c) == rt_entries' = c.ids /\ next_res' = c.next
Push(cmds) == submission' = [submission EXCEPT !.list = @ \o cmds]
Want == [shader |-> regs.shader, textured |-> regs.texture # NoTexture, target |-> regs.target,
         n |-> draws]

(* The checks of a draw, in their order.  Each reads guest memory: what it *)
(* finds there is the fault chosen for the draw.                            *)
ShaderResolves(fault)  == fault # "shader"    \* both stages bound, and inside the recompiler's subset
TargetDerives(fault)   == fault # "target"    \* a color target with a known extent, format and tiling
ConstResolves(fault)   == fault # "const"     \* at most one constant buffer a stage, its V# usable
TextureResolves(fault) == fault # "texture"   \* every T# and S# usable, no macro tiling
LayoutResolves(fault)  == fault # "layout"    \* the fetched attributes form a vertex layout
StreamsMatch(fault)    == fault # "stream"    \* a vertex buffer for every storage binding
IndexUsable(fault)     == fault # "index"     \* an index buffer, not empty

\* The first checks fail, of this stage's shader or the other's or of the
\* target: nothing is in the list yet.
DeferEarly(fault) ==
    /\ \/ ~ShaderResolves(fault) /\ (DropShader \/ ResolveShader(regs.shader))
       \/ ~TargetDerives(fault) /\ ResolveShader(regs.shader)
    /\ UNCHANGED <<submission, rt_entries, next_res, pipeline_cache, render_targets>>

\* A constant buffer, sampler or vertex layout does not resolve: the target
\* is already in the list.
DeferDescriptor(fault) ==
    /\ ~ConstResolves(fault) \/ ~TextureResolves(fault) \/ ~LayoutResolves(fault)
    /\ ResolveShader(regs.shader)
    /\ Push(TargetCmds(regs.target))
    /\ Caching(WithTarget(regs.target))
    /\ UNCHANGED <<pipeline_cache, render_targets>>

\* The pipeline and all binds.
SetupCmds == TargetCmds(regs.target)
             \o PipelineCmds(PipelineKey(regs.shader, regs.texture), Resolved(regs.shader))
             \o TextureCmds(WithTarget(regs.target), regs.texture)

\* All of them are in the list: a vertex stream is missing, or the draw is
\* complete but for its index buffer, or it draws.
Registered(fault) == IF StreamsMatch(fault) /\ regs.target # Screen THEN {regs.target} ELSE {}
Complete(fault) ==
    LET key == PipelineKey(regs.shader, regs.texture) IN
    /\ \A check \in {ShaderResolves(fault), TargetDerives(fault), ConstResolves(fault), TextureResolves(fault),
                     LayoutResolves(fault)} : check
    /\ ResolveShader(regs.shader)
    /\ Caching(WithTexture(WithTarget(regs.target), regs.texture))
    /\ pipeline_cache' = Put(pipeline_cache, key, PipelineId(key))
    /\ render_targets' = render_targets \cup Registered(fault)
    /\ Push(IF StreamsMatch(fault) /\ IndexUsable(fault) THEN SetupCmds \o <<DrawCmd(Want)>> ELSE SetupCmds)

\* dispatch_draw_auto, dispatch_draw_index_2, dispatch_draw_index_offset.
DispatchDraw(fault) ==
    /\ submission.open /\ draws < MaxDraws
    /\ draws' = draws + 1
    /\ DeferEarly(fault) \/ DeferDescriptor(fault) \/ Complete(fault)
    /\ UNCHANGED <<regs, code, code_dirty, pipelines, rts, screenVars, recorded, loads, begun, hangs, frees>>

----------------------------------------------------------------------------
(* The display thread: the walk over the list *)

\* CreatePipeline builds a host pipeline; BindPipeline of an unknown id unbinds.
HostPipeline(cmd) == [shader |-> cmd.shader, textured |-> cmd.textured, words |-> cmd.words]
WalkPipeline(w, cmd) ==
    IF cmd.op = "create_pipeline" THEN [w EXCEPT !.pipelines = Put(w.pipelines, cmd.id, HostPipeline(cmd))]
    ELSE [w EXCEPT !.bound = IF cmd.id \in DOMAIN w.pipelines THEN {w.pipelines[cmd.id]} ELSE {}]

NewTarget == "UNDEFINED"    \* the layout of a fresh render target
WalkTarget(w, cmd) ==
    IF cmd.op = "create_rt" THEN [w EXCEPT !.rts = Put(w.rts, cmd.id, NewTarget)]
    ELSE [w EXCEPT !.rt = {cmd.id}]

\* A texture that is a target must be one the backend has.
WalkTexture(w, cmd) ==
    IF cmd.src.rt => cmd.src.id \in DOMAIN w.rts THEN [w EXCEPT !.texture = {cmd.src}] ELSE w

\* draw_guards_ok: what the pipeline's layout names must be bound.
draw_guards_ok(w) == \E p \in w.bound : p.textured => w.texture # {}
PassOf(w, cmd) == [want |-> cmd.want, pipeline |-> CHOOSE p \in w.bound : TRUE, texture |-> w.texture, target |-> w.rt]
WalkDraw(w, cmd) ==
    [w EXCEPT !.texture = {}, !.rt = {},
              !.passes = IF draw_guards_ok(w) THEN Append(@, PassOf(w, cmd)) ELSE @]

WalkStep(w, cmd) ==
    CASE cmd.op \in {"create_pipeline", "bind_pipeline"} -> WalkPipeline(w, cmd)
      [] cmd.op \in {"create_rt", "set_rt"} -> WalkTarget(w, cmd)
      [] cmd.op = "bind_texture" -> WalkTexture(w, cmd)
      [] cmd.op = "draw" -> WalkDraw(w, cmd)
WalkBegin == [pipelines |-> pipelines, rts |-> rts, bound |-> {}, texture |-> {}, rt |-> {}, passes |-> <<>>]
Walked(list) ==
    LET after[n \in 0..Len(list)] == IF n = 0 THEN WalkBegin ELSE WalkStep(after[n - 1], list[n])
    IN after[Len(list)]

\* record_passes: the first videoout pass of a frame clears the image, later
\* ones add to it; a render target is cleared on its first use.
RecordScreen(r, pass) ==
    LET shown == [n |-> pass.want.n, frame |-> frame] IN
    [r EXCEPT !.image = IF r.latch THEN @ \cup {shown} ELSE {shown},
              !.latch = TRUE, !.onscreen = @ \cup {shown}]
RecordTarget(r, pass) ==
    LET id == CHOOSE i \in pass.target : TRUE IN
    IF id \in DOMAIN r.rts THEN [r EXCEPT !.rts[id] = "SHADER_READ", !.touched = @ \cup {id}] ELSE r
RecordPass(r, pass) == IF pass.target = {} THEN RecordScreen(r, pass) ELSE RecordTarget(r, pass)
RecordBegin(w) == [image |-> image, latch |-> latch, rts |-> w.rts, onscreen |-> {}, touched |-> {}]
Recorded(w) ==
    LET after[n \in 0..Len(w.passes)] == IF n = 0 THEN RecordBegin(w) ELSE RecordPass(after[n - 1], w.passes[n])
    IN after[Len(w.passes)]

\* The fence signals in time.
Executed(r) ==
    /\ image' = r.image /\ latch' = r.latch /\ rts' = r.rts
    /\ finished' = finished \cup r.onscreen
    /\ UNCHANGED hangs

\* It does not: the passes may have run or not, the layouts are forgotten,
\* and the clear is redone if this list had made it.
LatchKept(r) == r.latch   \* mutant: the clear is taken for done
LatchAfterTimeout(r) == IF r.onscreen # {} /\ ~latch THEN FALSE ELSE r.latch
TimedOut(r) ==
    /\ r.image # image \/ r.touched # {}
    /\ hangs < MaxHangs /\ hangs' = hangs + 1
    /\ image' \in {image, r.image}
    /\ rts' = [id \in DOMAIN r.rts |-> IF id \in r.touched THEN "UNDEFINED" ELSE r.rts[id]]
    /\ latch' = LatchAfterTimeout(r)
    /\ UNCHANGED finished

Replays(list) ==
    LET w == Walked(list) IN
    /\ pipelines' = w.pipelines
    /\ recorded' = w.passes
    /\ Executed(Recorded(w)) \/ TimedOut(Recorded(w))
    /\ UNCHANGED frame

\* The end of Executor::run ships the list.
ShipList ==
    /\ submission.open /\ reading = {}
    /\ Replays(submission.list)
    /\ submission' = NoSubmit
    /\ UNCHANGED <<execVars, codeVars, loads, draws, begun, frees>>

\* submit_flip: the next videoout pass starts a new frame.
SubmitFlip ==
    /\ ~submission.open /\ frame < MaxFrames
    /\ latch' = FALSE /\ frame' = frame + 1 /\ finished' = {}
    /\ UNCHANGED <<execVars, codeVars, submission, pipelines, rts, image, recorded,
                   loads, draws, begun, hangs, frees>>

\* The guest frees a target's memory: ResourceCache::free_range and the list
\* of one FreeResource.  The registry keeps the base.
FreeTarget(b) ==
    /\ ~submission.open /\ b \in DOMAIN rt_entries /\ frees < MaxFrees
    /\ frees' = frees + 1
    /\ rt_entries' = Forget(rt_entries, b)
    /\ rts' = Forget(rts, rt_entries[b])
    /\ recorded' = <<>>
    /\ UNCHANGED <<regs, shader_cache, pipeline_cache, next_res, render_targets, codeVars, submission, pipelines,
                   screenVars, loads, draws, begun, hangs>>

----------------------------------------------------------------------------
DrawInit ==
    /\ \E s \in Shaders : regs = [shader |-> s, target |-> Screen, texture |-> NoTexture]
    /\ code \in [Shaders -> Binaries]
    /\ code_watched = {} /\ code_dirty = {} /\ reading = {} /\ shader_cache = <<>>
    /\ pipeline_cache = <<>> /\ rt_entries = <<>> /\ next_res = 1 /\ render_targets = {}
    /\ submission = NoSubmit
    /\ pipelines = <<>> /\ rts = <<>>
    /\ latch = FALSE /\ image = {} /\ frame = 0 /\ finished = {}
    /\ recorded = <<>>
    /\ loads = 0 /\ draws = 0 /\ begun = 0 /\ hangs = 0 /\ frees = 0

DrawNext ==
    \/ \E s \in Shaders : SetReg("shader", s) \/ \E b \in Binaries : StoreCode(s, b)
    \/ ReadCode
    \/ \E t \in Bases \cup {Screen} : SetReg("target", t)
    \/ \E t \in Bases \cup {NoTexture} : SetReg("texture", t)
    \/ \E f \in Faults : DispatchDraw(f)
    \/ \E b \in Bases : FreeTarget(b)
    \/ BeginSubmit \/ ShipList \/ SubmitFlip

DrawSpec == DrawInit /\ [][DrawNext]_drawVars

----------------------------------------------------------------------------
(* Properties *)

\* Once the frame's first videoout pass is through, the image shows every
\* draw finished in this frame and none of an earlier one, fence hangs
\* included.
FrameIsItsDraws ==
    latch => /\ finished \subseteq image
             /\ \A d \in image : d.frame = frame

\* A hit serves the code memory holds: in a submit since whose start nobody
\* has stored into recompiled code, an entry's words are those at every
\* address with its header.  That is for headers whose copies agree; the
\* entry of one that does not is any of its copies.
Agree(h) == \A s, t \in Shaders : code[s].hash = h /\ code[t].hash = h => code[s].words = code[t].words
ResolvedShaderIsCurrent ==
    submission.open /\ code_dirty = {} =>
      \A s \in Shaders : LET h == code[s].hash IN
        h \in DOMAIN shader_cache /\ Agree(h) => shader_cache[h].words = code[s].words
=============================================================================
