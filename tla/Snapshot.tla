------------------------------ MODULE Snapshot ------------------------------
(***************************************************************************)
(* The on-demand GPU state snapshot: a key on the display thread leaves a  *)
(* frame budget (core/src/snapshot.rs), the submit thread arms a recorder  *)
(* at the next flip and writes the frame out at the one after              *)
(* (gnm/src/snapshot.rs), and a writer thread saves shaders, textures and  *)
(* pictures.                                                               *)
(*                                                                         *)
(* A file is a tuple of its extension and key.  A shader's hash is its     *)
(* address, as derive.rs:shader_hash has it; a texture is its contents.    *)
(***************************************************************************)
EXTENDS Integers, Sequences

CONSTANTS
    SnapRegs, RegValues, \* shadow registers and what the guest writes to them
    VertexShaders, PixelShaders, \* where guest shaders lie
    Unreadable,          \* of those, where the bytes can no longer be read
    Texels, Layouts,     \* texture contents, surface layouts
    Undetilable, Narrow, \* layouts the detiler rejects; with less than 4 bytes a texel
    RtBases,             \* bases of offscreen render targets
    MAX_PENDING,         \* the most frames a budget may hold
    Burst,               \* burst_frames()
    MaxSnapFlips, MaxPresses, MaxEvents \* bounds for TLC: flips, keys, draws of each frame

VARIABLES
    PENDING_FRAMES, presses,
    shadow_regs,     \* the shadow register file: the registers written so far
    shader_code,     \* whether the code at each address recompiles
    flip_count,
    submit_at,       \* what the submit thread does: "frame", "claim", "flush"
    wrote,           \* on_frame_boundary's local
    recorder,        \* Recorder
    queue,           \* the writer's channel
    disk, unwritten, \* files written, files whose write failed
    captures,        \* frame directories: label -> draws.json
    shown            \* (history) label -> what the frame that began there did

ShaderAddrs == VertexShaders \cup PixelShaders
snapVars == <<PENDING_FRAMES, presses, shadow_regs, shader_code, flip_count, submit_at, wrote, recorder, queue, disk, unwritten, captures, shown>>

FlushToken == {<<"flush">>}
\* What one record hands to the writer goes in as one batch of files.
Enqueue(files) == queue' = IF files = {} THEN queue ELSE Append(queue, files)
Happened(e) == shown' = [shown EXCEPT ![flip_count] = Append(@, e)]
Room == submit_at = "frame" /\ Len(shown[flip_count]) < MaxEvents[flip_count]

(***************************************************************************)
(* The display thread: F10 asks for one frame, F9 for a burst.             *)
(***************************************************************************)
request(frames) ==
    /\ presses < MaxPresses /\ presses' = presses + 1
    /\ PENDING_FRAMES' = LET n == PENDING_FRAMES + frames IN IF n < MAX_PENDING THEN n ELSE MAX_PENDING
    /\ UNCHANGED <<shadow_regs, shader_code, flip_count, submit_at, wrote, recorder, queue, disk, unwritten, captures, shown>>

(***************************************************************************)
(* The recorder.                                                           *)
(***************************************************************************)
\* RegSnapshot::delta: what a register file has that another has not.
delta(now, before) ==
    {[reg |-> r, from |-> IF r \in DOMAIN before THEN {before[r]} ELSE {}, to |-> IF r \in DOMAIN now THEN {now[r]} ELSE {}] :
        r \in {q \in DOMAIN now \cup DOMAIN before :
                  ~(q \in DOMAIN now /\ q \in DOMAIN before /\ now[q] = before[q])}}

\* A stage's shader files, once a hash.  The reference to them says which of
\* the optional ones there are.
ShaderFiles(a) == {<<"spv", a>>, <<"txt", a>>} \cup {<<"sb", b>> : b \in {a} \ Unreadable}
dump_shader(a) ==
    IF a \in recorder.shaders THEN [files |-> {}, ref |-> [key |-> a, sb |-> a \in recorder.with_sb]]
    ELSE [files |-> ShaderFiles(a), ref |-> [key |-> a, sb |-> a \notin Unreadable]]

\* A sampled texture's files: the raw texels once by contents, the detiled
\* ones and the picture once by contents and layout; a picture only when the
\* texels fill it.
dump_texture(texel, layout) ==
    LET linear == {<<"detiled", texel, layout>>} \cup (IF layout \in Narrow THEN {} ELSE {<<"png", texel, layout>>})
    IN  [files |-> (IF texel \in recorder.textures THEN {} ELSE {<<"raw", texel>>})
                   \cup (IF layout \in Undetilable \/ <<texel, layout>> \in recorder.detiled THEN {} ELSE linear),
         ref |-> [key |-> texel, layout |-> layout, detiled |-> layout \notin Undetilable]]

\* A picture of the draw's offscreen target, once a base and frame.
RtFile(base) == <<"rt", recorder.frame, base>>
request_rt_dump(base) == IF base \in RtBases \ recorder.rt_dumps THEN {RtFile(base)} ELSE {}
target_dump_outcome(base) == IF base \in RtBases THEN {RtFile(base)} ELSE {}

\* A draw that reached the backend.  Its shaders recompile, or did when the
\* cache kept them.
record_draw(vs, ps, target, sampled) ==
    /\ Room /\ shader_code[vs] /\ shader_code[ps]
    /\ Happened([draw |-> TRUE, regs |-> shadow_regs])
    /\ IF ~recorder.armed THEN UNCHANGED <<recorder, queue>>
       ELSE LET tex == IF sampled = <<>> THEN {} ELSE {dump_texture(sampled[1], sampled[2])}
                v == dump_shader(vs)
                p == dump_shader(ps)
            IN  /\ recorder' = [recorder EXCEPT
                       !.draws = Append(@, [reg_delta |-> delta(shadow_regs, recorder.prev_regs), vs |-> v.ref, ps |-> p.ref,
                                            target_dump |-> target_dump_outcome(target), sampled |-> {t.ref : t \in tex}]),
                       !.prev_regs = shadow_regs,
                       !.shaders = @ \cup {vs, ps},
                       !.with_sb = @ \cup ({vs, ps} \ (recorder.shaders \cup Unreadable)),
                       !.rt_dumps = @ \cup ({target} \cap RtBases),
                       !.textures = IF sampled = <<>> THEN @ ELSE @ \cup {sampled[1]},
                       !.detiled = IF sampled = <<>> \/ sampled[2] \in Undetilable THEN @ ELSE @ \cup {sampled}]
                /\ Enqueue(request_rt_dump(target) \cup (UNION {t.files : t \in tex}) \cup v.files \cup p.files)
    /\ UNCHANGED <<PENDING_FRAMES, presses, shadow_regs, shader_code, flip_count, submit_at, wrote, disk, unwritten, captures>>

\* A draw whose shader the recompiler rejects: its machine code is dumped, and
\* the hash counts as seen.
record_deferred_gcn(a) ==
    /\ Room /\ ~shader_code[a]
    /\ Happened([draw |-> FALSE, regs |-> shadow_regs])
    /\ IF ~recorder.armed THEN UNCHANGED <<recorder, queue>>
       ELSE /\ recorder' = [recorder EXCEPT
                   !.deferred = Append(@, [after_draw |-> Len(recorder.draws), shader |-> a]),
                   !.shaders = @ \cup {a}, !.with_sb = @ \cup ({a} \ (recorder.shaders \cup Unreadable))]
            /\ Enqueue(IF a \in recorder.shaders THEN {} ELSE ShaderFiles(a) \ {<<"spv", a>>})
    /\ UNCHANGED <<PENDING_FRAMES, presses, shadow_regs, shader_code, flip_count, submit_at, wrote, disk, unwritten, captures>>

(***************************************************************************)
(* What the capture's files say.                                           *)
(***************************************************************************)
\* The module is named always, the machine code when it was written.
shader_json(ref) == {<<"spv", ref.key>>, <<"txt", ref.key>>} \cup (IF ref.sb THEN {<<"sb", ref.key>>} ELSE {})
\* The picture is named with the detiled texels.
texture_dump_json(ref) ==
    {<<"raw", ref.key>>} \cup (IF ref.detiled THEN {<<"detiled", ref.key, ref.layout>>, <<"png", ref.key, ref.layout>>} ELSE {})
draw_json(d) ==
    [reg_delta |-> d.reg_delta,
     named |-> d.target_dump \cup (UNION {texture_dump_json(t) : t \in d.sampled}) \cup shader_json(d.vs) \cup shader_json(d.ps)]
draws_json(r) == [draws |-> [i \in DOMAIN r.draws |-> draw_json(r.draws[i])], deferred |-> r.deferred]

\* What the guest does between draws: a register, or other code at an address.
write_reg(r, v) ==
    /\ Room
    /\ shadow_regs' = [q \in DOMAIN shadow_regs \cup {r} |-> IF q = r THEN v ELSE shadow_regs[q]]
    /\ shadow_regs' # shadow_regs
    /\ UNCHANGED <<PENDING_FRAMES, presses, shader_code, flip_count, submit_at, wrote, recorder, queue, disk, unwritten, captures, shown>>

\* CLEAR_STATE: every register bank.
clear_banks ==
    /\ Room /\ shadow_regs # <<>> /\ shadow_regs' = <<>>
    /\ UNCHANGED <<PENDING_FRAMES, presses, shader_code, flip_count, submit_at, wrote, recorder, queue, disk, unwritten, captures, shown>>

NewCode(a) ==
    /\ Room
    /\ shader_code' = [shader_code EXCEPT ![a] = ~@]
    /\ UNCHANGED <<PENDING_FRAMES, presses, shadow_regs, flip_count, submit_at, wrote, recorder, queue, disk, unwritten, captures, shown>>

(***************************************************************************)
(* on_frame_boundary, on the submit thread, before the flip.               *)
(***************************************************************************)
\* First a capture that was armed is written; a failed write is only logged.
write_capture(ok) ==
    /\ submit_at = "frame" /\ flip_count < MaxSnapFlips
    /\ wrote' = recorder.armed
    /\ recorder' = [recorder EXCEPT !.armed = FALSE, !.draws = <<>>, !.deferred = <<>>]
    /\ captures' = IF recorder.armed /\ ok THEN [f \in DOMAIN captures \cup {recorder.frame} |->
                          IF f = recorder.frame THEN draws_json(recorder) ELSE captures[f]] ELSE captures
    /\ submit_at' = "claim"
    /\ UNCHANGED <<PENDING_FRAMES, presses, shadow_regs, shader_code, flip_count, queue, disk, unwritten, shown>>

\* A mutant: the register file of the last capture is kept.
Armed_stale == [recorder EXCEPT !.armed = TRUE, !.frame = flip_count, !.draws = <<>>, !.deferred = <<>>, !.rt_dumps = {}]

\* The frame that follows is another one, whatever its events.
Armed == [recorder EXCEPT !.armed = TRUE, !.frame = flip_count, !.draws = <<>>, !.deferred = <<>>, !.rt_dumps = {}, !.prev_regs = <<>>]

\* submit_flip advances the count once the flip is shown.  The label of a
\* frame is the count when it was armed; the model counts from the claim.
NextFrame == /\ flip_count' = flip_count + 1 /\ submit_at' = "frame"
        /\ shown' = [f \in DOMAIN shown \cup {flip_count + 1} |-> IF f = flip_count + 1 THEN <<>> ELSE shown[f]]

take_frame ==
    /\ submit_at = "claim" /\ PENDING_FRAMES > 0
    /\ PENDING_FRAMES' = PENDING_FRAMES - 1
    /\ recorder' = Armed /\ NextFrame
    /\ UNCHANGED <<presses, shadow_regs, shader_code, wrote, queue, disk, unwritten, captures>>

\* Nothing more is owed: wait for the writer if a capture was just written.
no_frame ==
    /\ submit_at = "claim" /\ PENDING_FRAMES = 0
    /\ IF wrote THEN submit_at' = "flush" /\ queue' = Append(queue, FlushToken) /\ UNCHANGED <<flip_count, shown>>
       ELSE NextFrame /\ UNCHANGED queue
    /\ UNCHANGED <<PENDING_FRAMES, presses, shadow_regs, shader_code, wrote, recorder, disk, unwritten, captures>>

(***************************************************************************)
(* The writer thread.                                                      *)
(***************************************************************************)
writer_flush ==
    /\ queue # <<>> /\ Head(queue) = FlushToken
    /\ queue' = Tail(queue) /\ NextFrame
    /\ UNCHANGED <<PENDING_FRAMES, presses, shadow_regs, shader_code, wrote, recorder, disk, unwritten, captures>>

\* A batch's files, or none of them when the disk refuses.
writer_files(ok) ==
    /\ queue # <<>> /\ Head(queue) # FlushToken
    /\ queue' = Tail(queue)
    /\ disk' = IF ok THEN disk \cup Head(queue) ELSE disk
    /\ unwritten' = IF ok THEN unwritten ELSE unwritten \cup Head(queue)
    /\ UNCHANGED <<PENDING_FRAMES, presses, shadow_regs, shader_code, flip_count, submit_at, wrote, recorder, captures, shown>>

SnapInit ==
    /\ PENDING_FRAMES = 0 /\ presses = 0 /\ shadow_regs = <<>> /\ shader_code \in [ShaderAddrs -> BOOLEAN]
    /\ flip_count = 0 /\ submit_at = "frame" /\ wrote = FALSE
    /\ recorder = [armed |-> FALSE, frame |-> 0, draws |-> <<>>, deferred |-> <<>>, prev_regs |-> <<>>, shaders |-> {}, with_sb |-> {},
                   rt_dumps |-> {}, textures |-> {}, detiled |-> {}]
    /\ queue = <<>> /\ disk = {} /\ unwritten = {} /\ captures = <<>> /\ shown = [f \in {0} |-> <<>>]

Sampled == {<<>>} \cup (Texels \X Layouts)
SnapNext ==
    \/ \E n \in {1, Burst} : request(n)
    \/ \E r \in SnapRegs, v \in RegValues : write_reg(r, v)
    \/ clear_banks
    \/ \E a \in ShaderAddrs : NewCode(a) \/ record_deferred_gcn(a)
    \/ \E vs \in VertexShaders, ps \in PixelShaders, target \in RtBases \cup {0}, s \in Sampled : record_draw(vs, ps, target, s)
    \/ \E ok \in BOOLEAN : write_capture(ok)
    \/ take_frame \/ no_frame \/ writer_flush
    \/ \E ok \in BOOLEAN : writer_files(ok)

SnapSpec == SnapInit /\ [][SnapNext]_snapVars

(***************************************************************************)
(* Properties.                                                             *)
(***************************************************************************)
\* The register file after the first n records, put together from the deltas.
Apply(rs, ch) ==
    LET set == {c \in ch : c.to # {}}
        gone == {c.reg : c \in {x \in ch : x.to = {}}}
    IN  [r \in (DOMAIN rs \ gone) \cup {c.reg : c \in set} |->
            IF \E c \in set : c.reg = r THEN CHOOSE v \in (CHOOSE c \in set : c.reg = r).to : TRUE ELSE rs[r]]
Rebuilt(ds) ==
    LET after[n \in 0..Len(ds)] == IF n = 0 THEN <<>> ELSE Apply(after[n - 1], ds[n].reg_delta)
    IN  after
\* How many of the first n events of a frame were draws that ran.
DrawsAmong(es) ==
    LET first[n \in 0..Len(es)] == IF n = 0 THEN 0 ELSE first[n - 1] + (IF es[n].draw THEN 1 ELSE 0)
    IN  first

\* A capture is one whole frame: it has a record for every draw between the
\* flip that armed it and the next, in order, none of another frame; a
\* deferred one says after how many others it came; and the register deltas
\* add up to the register file each draw ran with
\* (gnm/src/snapshot.rs:on_frame_boundary, RegSnapshot::delta).
CaptureRebuildsFrame ==
    \A f \in DOMAIN captures :
        LET c == captures[f]
            es == shown[f + 1]
            drawn == DrawsAmong(es)
        IN  /\ Len(c.draws) = drawn[Len(es)]
            /\ Len(c.deferred) = Len(es) - drawn[Len(es)]
            /\ \A i \in DOMAIN es :
                   IF es[i].draw THEN Rebuilt(c.draws)[drawn[i]] = es[i].regs
                   ELSE c.deferred[i - drawn[i]].after_draw = drawn[i]

=============================================================================
