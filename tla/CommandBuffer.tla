--------------------------- MODULE CommandBuffer ----------------------------
(***************************************************************************)
(* PM4 command buffers: the builders of crates/libs/src/libscegnmdriver    *)
(* write packets into slots the guest reserves (gnm/src/pm4/emit.rs), and  *)
(* a submit walks the buffer (pm4/decode.rs, exec.rs:run) over the shadow  *)
(* registers of gnm/src/state.rs.                                          *)
(*                                                                         *)
(* The guest uses the same arena again for every frame: what it does not   *)
(* write holds what an earlier frame left.  A dword is what the walk could *)
(* take it for; packets keep their shape with shorter bodies.              *)
(***************************************************************************)
EXTENDS Integers, Sequences, SequencesExt

CONSTANTS
    ArenaDwords,
    Programs,       \* addresses of shader programs
    EmbeddedIds,    \* the shaders sceGnmSetEmbedded* names
    Unset,          \* no shader
    Slots,          \* the dwords a guest may reserve for a packet
    MAX_DRAW_RESERVED_DWORDS, MAX_NOP_FILL_DWORDS,
    MaxSends, MaxBuilt \* bounds for TLC: submits, builder calls in a frame

Stages == {"vs", "ps"}

ASSUME CommandBufferAssumption ==
    /\ Unset \notin Programs \cup EmbeddedIds
    /\ ArenaDwords \in Nat /\ Slots \subseteq Nat
    /\ MAX_NOP_FILL_DWORDS \in Nat /\ MAX_NOP_FILL_DWORDS > 1

VARIABLES
    arena,     \* the guest's dwords
    cursor,    \* where the guest's next packet goes
    built,     \* builder calls of this frame
    sh_regs,   \* SPI_SHADER_PGM of each stage in the SH bank
    shaders,   \* GpuState::shaders, the embedded binds
    walk,      \* the submit's walk: [pos, end], pos = 0 when there is none
    ran,       \* draws the walk has run
    sends,     \* submits so far
    wanted,    \* (history) draws built since the last submit, with the shaders bound then
    planned,   \* (history) the PGM registers as they will be where the cursor is
    clean      \* (history) every slot since the last submit was written in full

cmdVars == <<arena, cursor, built, sh_regs, shaders, walk, ran, sends, wanted, planned, clean>>
builderVars == <<arena, cursor, planned, clean>>
histVars == <<wanted, planned, clean>>

(***************************************************************************)
(* Dwords.                                                                 *)
(***************************************************************************)
\* t3_header: a type-3 header whose body has n dwords.
T3(op, n) == [type |-> 3, op |-> op, body |-> n, v |-> Unset]
TYPE2_NOP == [type |-> 2, op |-> "none", body |-> 0, v |-> Unset]
\* Any other dword: as a header it is of type 0 with one dword of body.
Word(v) == [type |-> 0, op |-> "none", body |-> 1, v |-> v]
Zero == Word(Unset)
\* 0xFFFFFFFF and the like: a header no buffer is long enough for.
Garbage == [type |-> 3, op |-> "none", body |-> ArenaDwords, v |-> Unset]

SetOp(stage) == IF stage = "vs" THEN "set_vs" ELSE "set_ps"
SetRegPacket(stage, p) == <<T3(SetOp(stage), 2), Zero, Word(p)>>
set_shader(stage, p) == SetRegPacket(stage, p) \o <<T3("nop", 1), Zero>>
draw_index_auto(n) == <<T3("draw", 2), Word(n), Zero>>

\* A mutant: every gap takes a NOP with a body.
pad_to_reserved_t3(packet, reserved) ==
    LET gap == reserved - Len(packet)
    IN  packet \o (IF gap <= 0 \/ gap > MAX_NOP_FILL_DWORDS THEN <<>>
                   ELSE <<T3("nop", 1)>> \o [i \in 1..gap - 1 |-> Zero])

\* A packet made as long as its slot with a NOP; a gap of one dword takes the
\* NOP without a body, and one too wide for a NOP is left.
pad_to_reserved(packet, reserved) ==
    LET gap == reserved - Len(packet)
    IN  packet \o (IF gap <= 0 \/ gap > MAX_NOP_FILL_DWORDS THEN <<>>
                   ELSE IF gap = 1 THEN <<TYPE2_NOP>>
                   ELSE <<T3("nop", gap - 1)>> \o [i \in 1..gap - 1 |-> Zero])

(***************************************************************************)
(* The builders.                                                           *)
(***************************************************************************)
Building == walk.pos = 0 /\ sends < MaxSends /\ built < MaxBuilt
Fits(n) == cursor + n - 1 <= ArenaDwords
Later(a, b) == IF a < b THEN b ELSE a

\* A packet into a slot; the guest goes on after the slot, or after the packet
\* when it gave no size.
Emit(packet, reserved, cap) ==
    LET words == pad_to_reserved(packet, reserved)
        refused == (reserved # 0 /\ reserved < Len(packet)) \/ reserved > cap
        slot == IF reserved = 0 THEN Len(packet) ELSE reserved
    IN  /\ Building /\ Fits(Later(slot, Len(words)))
        /\ arena' = IF refused THEN arena
                    ELSE [i \in DOMAIN arena |-> IF i \in cursor..cursor + Len(words) - 1 THEN words[i - cursor + 1] ELSE arena[i]]
        /\ cursor' = cursor + slot /\ built' = built + 1
        /\ clean' = (clean /\ ~refused /\ Len(words) = slot)

\* BoundShaders: the embedded bind takes precedence; the registers otherwise.
derive_bound_shaders(emb, regs) == [s \in Stages |-> IF emb[s] # Unset THEN emb[s] ELSE regs[s]]

sce_gnm_draw_index_auto(reserved) ==
    /\ Emit(draw_index_auto(sends), reserved, MAX_DRAW_RESERVED_DWORDS)
    /\ wanted' = Append(wanted, [n |-> sends, bound |-> derive_bound_shaders(shaders, planned), rebound |-> {}])
    /\ UNCHANGED <<sh_regs, shaders, walk, ran, sends, planned>>

\* What a rebind outside the buffer does to the draws already built.
Rebound(s) == wanted' = [i \in DOMAIN wanted |-> [wanted[i] EXCEPT !.rebound = @ \cup {s}]]

\* A shader's packet, refused only when the slot is too small for it.
emit_into_cmdbuf(packet, reserved) == Emit(packet, reserved, reserved)

\* sceGnmSetVsShader, sceGnmSetPsShader and their variants: the embedded bind
\* of the stage is dropped at once, the registers go into the buffer.
sce_gnm_set_shader(s, p, reserved) ==
    /\ emit_into_cmdbuf(set_shader(s, p), reserved)
    /\ shaders' = [shaders EXCEPT ![s] = Unset]
    /\ planned' = IF clean' THEN [planned EXCEPT ![s] = p] ELSE planned
    /\ IF shaders[s] = Unset THEN UNCHANGED wanted ELSE Rebound(s)
    /\ UNCHANGED <<sh_regs, walk, ran, sends>>

\* sceGnmSetEmbeddedVsShader and its like: recorded at once, nothing emitted.
sce_gnm_set_embedded_shader(s, id) ==
    /\ Building /\ built' = built + 1
    /\ shaders' = [shaders EXCEPT ![s] = id]
    /\ Rebound(s)
    /\ UNCHANGED <<builderVars, sh_regs, walk, ran, sends>>

\* The builders that emit nothing leave their slot as it was: the default state
\* preambles and markers, indexed draws, dispatches, the other shader stages.
no_pm4(reserved) ==
    /\ Building /\ Fits(reserved) /\ reserved > 0
    /\ cursor' = cursor + reserved /\ built' = built + 1 /\ clean' = FALSE
    /\ UNCHANGED <<arena, sh_regs, shaders, walk, ran, sends, wanted, planned>>

sce_gnm_draw_init_default_hardware_state(size) == no_pm4(size)
sce_gnm_draw_index(size) == no_pm4(size)
sce_gnm_dispatch_direct(size) == no_pm4(size)
sce_gnm_set_other_shader(size) == no_pm4(size)

\* Packets the guest writes itself: a program register, and CLEAR_STATE.
Raw(packet) ==
    /\ Building /\ Fits(Len(packet))
    /\ arena' = [i \in DOMAIN arena |-> IF i \in cursor..cursor + Len(packet) - 1 THEN packet[i - cursor + 1] ELSE arena[i]]
    /\ cursor' = cursor + Len(packet) /\ built' = built + 1
    /\ UNCHANGED <<sh_regs, shaders, walk, ran, sends, wanted, clean>>
raw_set_reg(s, p) == Raw(SetRegPacket(s, p)) /\ planned' = [planned EXCEPT ![s] = p]
raw_clear_state == Raw(<<T3("clear", 1), Zero>>) /\ planned' = [s \in Stages |-> Unset]

(***************************************************************************)
(* The submit: the decoder's walk and what the executor does with each     *)
(* packet.                                                                 *)
(***************************************************************************)
record_submit ==
    /\ walk.pos = 0 /\ sends < MaxSends /\ cursor > 1
    /\ walk' = [pos |-> 1, end |-> cursor] /\ ran' = <<>>
    /\ UNCHANGED <<arena, cursor, built, sh_regs, shaders, sends, histVars>>

Header == arena[walk.pos]
Body(i) == arena[walk.pos + i]
\* A packet whose body runs out of the buffer, or of type 1, ends the walk.
Truncated == IF walk.pos < walk.end THEN Header.type # 2 /\ walk.pos + Header.body >= walk.end ELSE FALSE
Step == walk' = [walk EXCEPT !.pos = @ + 1 + Header.body]
InWalk == walk.pos > 0 /\ walk.pos < walk.end /\ ~Truncated

decode_other ==
    /\ InWalk /\ (Header.type # 3 \/ Header.op = "nop") = TRUE /\ Step
    /\ UNCHANGED <<arena, cursor, built, sh_regs, shaders, ran, sends, histVars>>
apply_set_reg(s) ==
    /\ InWalk /\ Header.type = 3 /\ Header.op = SetOp(s) /\ Step
    /\ sh_regs' = [sh_regs EXCEPT ![s] = Body(2).v]
    /\ UNCHANGED <<arena, cursor, built, shaders, ran, sends, histVars>>
clear_regs ==
    /\ InWalk /\ Header.type = 3 /\ Header.op = "clear" /\ Step
    /\ sh_regs' = [s \in Stages |-> Unset]
    /\ UNCHANGED <<arena, cursor, built, shaders, ran, sends, histVars>>
dispatch_draw_auto ==
    /\ InWalk /\ Header.type = 3 /\ Header.op = "draw" /\ Step
    /\ ran' = Append(ran, [n |-> Body(1).v, bound |-> derive_bound_shaders(shaders, sh_regs)])
    /\ UNCHANGED <<arena, cursor, built, sh_regs, shaders, sends, histVars>>

\* The walk over, the guest begins its arena again.
submit_end ==
    /\ walk.pos > 0 /\ (walk.pos >= walk.end \/ Truncated) = TRUE
    /\ walk' = [pos |-> 0, end |-> 0] /\ sends' = sends + 1
    /\ cursor' = 1 /\ built' = 0 /\ wanted' = <<>> /\ ran' = <<>> /\ clean' = TRUE
    /\ planned' = sh_regs
    /\ UNCHANGED <<arena, sh_regs, shaders>>

CmdInit ==
    /\ arena \in {[i \in 1..ArenaDwords |-> w] : w \in {Zero, Garbage}}
    /\ cursor = 1 /\ built = 0 /\ sh_regs = [s \in Stages |-> Unset] /\ shaders = [s \in Stages |-> Unset]
    /\ walk = [pos |-> 0, end |-> 0] /\ ran = <<>> /\ sends = 0
    /\ wanted = <<>> /\ planned = [s \in Stages |-> Unset] /\ clean = TRUE

CmdNext ==
    \/ \E r \in Slots : sce_gnm_draw_index_auto(r) \/ sce_gnm_draw_init_default_hardware_state(r)
                          \/ sce_gnm_draw_index(r) \/ sce_gnm_dispatch_direct(r) \/ sce_gnm_set_other_shader(r)
    \/ \E s \in Stages, p \in Programs : raw_set_reg(s, p) \/ \E r \in Slots : sce_gnm_set_shader(s, p, r)
    \/ \E s \in Stages, id \in EmbeddedIds : sce_gnm_set_embedded_shader(s, id)
    \/ raw_clear_state \/ record_submit \/ submit_end
    \/ decode_other \/ clear_regs \/ dispatch_draw_auto \/ \E s \in Stages : apply_set_reg(s)

CmdSpec == CmdInit /\ [][CmdNext]_cmdVars

(***************************************************************************)
(* Properties.                                                             *)
(***************************************************************************)
WalkOver == walk.pos > 0 /\ walk.pos >= walk.end

\* When every slot of a frame was written in full, the walk runs the draws the
\* guest built and no other: what an earlier frame left in the arena is never
\* taken for a packet, and no packet is lost with it (emit.rs:pad_to_reserved,
\* decode.rs:Decoder::next).  Each runs with the shaders that were bound where
\* the guest built it, by whichever of the two routes, as long as its stage was
\* not rebound outside the buffer between building and submitting
\* (state.rs:derive_bound_shaders, unbind_embedded_shader).
WalkRunsWhatWasBuilt ==
    clean /\ walk.pos > 0 =>
        /\ IsPrefix([i \in DOMAIN ran |-> ran[i].n], [i \in DOMAIN wanted |-> wanted[i].n])
        /\ \A i \in DOMAIN ran : \A s \in Stages :
              s \in wanted[i].rebound \/ ran[i].bound[s] = wanted[i].bound[s]
        /\ ~Truncated
        /\ WalkOver => Len(ran) = Len(wanted)
=============================================================================
