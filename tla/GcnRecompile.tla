----------------------------- MODULE GcnRecompile -----------------------------
(***************************************************************************)
(* The GCN to SPIR-V recompiler (crates/gcn/src/recompile.rs), and what    *)
(* one invocation of the shader it emits computes.                         *)
(*                                                                         *)
(* The recompiler walks the program once and keeps a compile-time state:   *)
(* which VGPRs still hold the launch vertex index, which SGPRs an s_load   *)
(* filled with which descriptor, which predicates were written, which      *)
(* streams and textures are bound.  A module is a set of labelled blocks.  *)
(***************************************************************************)
EXTENDS GcnInterp

CONSTANTS
    MAX_VS_STREAMS, MAX_PS_TEXTURES

NoDesc == 9         \* no s_load has filled this SGPR
UserDesc == 0       \* the descriptor the launch left in the user SGPRs
HeaderLabel == 100  \* header_l / body_l / continue_l of emit_loop_cfg

\* The state of a fresh Recompiler.
NewRecompiler(stage) ==
    [stage |-> stage, tracked |-> IF stage = "vs" THEN {"v0"} ELSE {},
     vsharp |-> [r \in SRegs |-> NoDesc], preds |-> {}, cb |-> {}, streams |-> <<>>,
     textures |-> <<>>, pos |-> FALSE, err |-> FALSE, code |-> <<>>]

\* eval_bits / eval_f32: a VGPR that still holds the vertex index reads gl_VertexIndex.
eval_bits(c, src) == IF src \in c.tracked THEN "vidx" ELSE src
Put(c, o) == [c EXCEPT !.code = Append(@, o)]
Fail(c) == [c EXCEPT !.err = TRUE]

\* untrack_vertex_index: the register's slot takes over from the built-in.
Spill(c, n) == Put(c, [k |-> "mov", d |-> n, a |-> "vidx"])
\* Mutant of untrack_vertex_index: the slot is not filled.
UntrackOnly(c, n) == [c EXCEPT !.tracked = @ \ {n}]

untrack_vertex_index(c, n) ==
    IF n \in c.tracked THEN [Spill(c, n) EXCEPT !.tracked = @ \ {n}] ELSE c

emit_sop1(c, i) ==
    IF i.op = "s_mov_b32" /\ i.d # "vcc" THEN Put(c, [k |-> "mov", d |-> i.d, a |-> i.a])
    ELSE c      \* a VCC write and the EXEC moves are dropped

emit_vop1(c, i) ==
    LET src == eval_bits(c, i.a)
        u == untrack_vertex_index(c, i.d)
        t == IF src = "vidx" THEN [u EXCEPT !.tracked = @ \cup {i.d}] ELSE u
    IN Put(t, [k |-> "mov", d |-> i.d, a |-> src])

\* set_predicate / load_predicate_bool: a predicate read before any write defers.
set_predicate(c, key) == [c EXCEPT !.preds = @ \cup {key}]
Select(c, i, key) ==
    LET u == untrack_vertex_index(c, i.d) IN
    IF key \in u.preds
    THEN Put(u, [k |-> "select", d |-> i.d, a |-> eval_bits(u, i.a), b |-> eval_bits(u, i.b), p |-> key])
    ELSE Fail(u)
emit_f32_compare(c, i, key) ==
    set_predicate(Put(c, [k |-> "less", d |-> key, a |-> eval_bits(c, i.a), b |-> eval_bits(c, i.b)]), key)

emit_vop2(c, i) ==
    IF i.op = "v_cndmask" THEN Select(c, i, "vcc")
    ELSE LET u == untrack_vertex_index(c, i.d) IN
         set_predicate(Put(u, [k |-> "add", d |-> i.d, a |-> eval_bits(u, i.a), b |-> eval_bits(u, i.b)]), "vcc")

emit_vopc(c, i) == emit_f32_compare(c, i, "vcc")
emit_vop3(c, i) == IF i.op = "v_cmp_e64" THEN emit_f32_compare(c, i, i.d) ELSE Select(c, i, i.p)

\* ensure_const_buffer: one SBASE per shader, resolved from the user SGPRs.
ensure_const_buffer(c, sbase) == IF c.cb \subseteq {sbase} THEN [c EXCEPT !.cb = {sbase}] ELSE Fail(c)
emit_s_buffer_load(c, i) == Put(ensure_const_buffer(c, i.a), [k |-> "cb", d |-> i.d, x |-> i.k])
\* An s_load stores nothing: only the provenance of the SGPR is noted.
emit_smrd(c, i) == IF i.op = "s_load" THEN [c EXCEPT !.vsharp[i.d] = i.k] ELSE emit_s_buffer_load(c, i)

\* ensure_vs_buffer: beyond the cap a new source folds onto the last stream.
ensure_vs_buffer(c, source) ==
    IF Contains(c.streams, source) \/ Len(c.streams) >= MAX_VS_STREAMS THEN c
    ELSE [c EXCEPT !.streams = Append(@, source)]
StreamOf(c, source) == IF Contains(c.streams, source) THEN source ELSE Last(c.streams)
emit_mubuf(c, i) ==
    IF c.vsharp[i.a] = NoDesc \/ i.b \notin c.tracked THEN Fail(c)
    ELSE LET e == ensure_vs_buffer(c, c.vsharp[i.a])
             u == untrack_vertex_index(e, i.d)
         IN Put(u, [k |-> "fetch", d |-> i.d, x |-> StreamOf(e, c.vsharp[i.a])])

emit_vintrp(c, i) == Put(c, [k |-> "input", d |-> i.d])

ensure_ps_texture(c, source) ==
    IF Contains(c.textures, source) THEN c
    ELSE IF Len(c.textures) >= MAX_PS_TEXTURES THEN Fail(c)
    ELSE [c EXCEPT !.textures = Append(@, source)]
emit_mimg(c, i) ==
    LET source == IF c.vsharp[i.a] = NoDesc THEN UserDesc ELSE c.vsharp[i.a] IN
    IF c.stage # "ps" THEN Fail(c)
    ELSE Put(ensure_ps_texture(c, source), [k |-> "sample", d |-> i.d, a |-> eval_bits(c, i.b), x |-> source])

emit_exp(c, i) == [Put(c, [k |-> "exp", a |-> eval_bits(c, i.a)]) EXCEPT !.pos = TRUE]

emit_inst(c, i) ==
    CASE c.err -> c     \* the first error ends the walk
      [] i.op \in {"s_mov_b32", "s_mov_b64"} /\ ~c.err -> emit_sop1(c, i)
      [] i.op = "v_mov_b32" /\ ~c.err -> emit_vop1(c, i)
      [] i.op \in {"v_add_i32", "v_cndmask"} /\ ~c.err -> emit_vop2(c, i)
      [] i.op \in {"v_cmp_e64", "v_cndmask_e64"} /\ ~c.err -> emit_vop3(c, i)
      [] i.op = "v_cmp" /\ ~c.err -> emit_vopc(c, i)
      [] i.op \in {"s_load", "s_buffer_load"} /\ ~c.err -> emit_smrd(c, i)
      [] i.op = "buffer_load" /\ ~c.err -> emit_mubuf(c, i)
      [] i.op \in {"v_interp_p1", "v_interp_p2"} /\ ~c.err -> emit_vintrp(c, i)
      [] i.op = "image_sample" /\ ~c.err -> emit_mimg(c, i)
      [] i.op = "exp" /\ ~c.err -> emit_exp(c, i)
      [] OTHER -> c

emit_block_body(c, p, B, b) == FoldLeft(emit_inst, [c EXCEPT !.code = <<>>], SubSeq(p, b, B[b].last))

\* The terminator of an emitted block.  A conditional on VCC reads the
\* predicate variable, one on EXEC is static: an invocation is always live.
BranchOn(cond, yes, no) ==
    CASE cond \in {"vccz", "vccnz"} -> [kind |-> "cond", neg |-> cond = "vccz", yes |-> yes, no |-> no]
      [] cond = "execz" -> [kind |-> "br", to |-> no]
      [] cond = "execnz" -> [kind |-> "br", to |-> yes]
cond_bool_for_branch(c, cond) == cond \in {"execz", "execnz"} \/ "vcc" \in c.preds

\* emit_cfg: the blocks in order, the compile-time state threaded through
\* all of them whatever the control flow.
EmitBlock(m, p, B, b) ==
    LET c == emit_block_body(m.c, p, B, b)
        t == B[b].term
        ok == ~c.err /\ (t.kind = "cond" => cond_bool_for_branch(c, t.cond) /\ merge_target(B, b) # {})
        term == CASE t.kind = "return" -> [kind |-> "ret"]
                  [] t.kind \in {"branch", "fallthrough"} -> [kind |-> "br", to |-> t.to]
                  [] t.kind = "cond" -> BranchOn(t.cond, t.taken, t.fall)
    IN [c |-> [c EXCEPT !.err = ~ok], blocks |-> (b :> [code |-> c.code, term |-> term]) @@ m.blocks]

\* emit_loop_cfg: the back-edge block becomes header, body and continue; the
\* branch into the loop goes to its header.
EmitLoopBlock(m, p, B, l, b) ==
    LET c == emit_block_body(m.c, p, B, b)
        t == B[b].term
        ok == ~c.err /\ (b = l.back => cond_bool_for_branch(c, l.cond)) /\ (b # l.back => t.kind # "cond")
        to == IF t.kind \in {"branch", "fallthrough"} /\ t.to # l.header THEN t.to ELSE HeaderLabel
    IN [c |-> [c EXCEPT !.err = ~ok],
        blocks |-> IF b = l.back
                   THEN (HeaderLabel :> [code |-> c.code, term |-> BranchOn(l.cond, HeaderLabel, l.merge)]) @@ m.blocks
                   ELSE (b :> [code |-> c.code, term |-> IF t.kind = "return" THEN [kind |-> "ret"]
                                                         ELSE [kind |-> "br", to |-> to]]) @@ m.blocks]

LoopBlocks(B) == {b \in DOMAIN B : ClosesLoop(B, b)}
emit(stage, p, B) ==
    LET order == SetToSortSeq(DOMAIN B, <)
        start == [c |-> NewRecompiler(stage), blocks |-> <<>>]
        l == loop_of(B, CHOOSE b \in LoopBlocks(B) : TRUE)
    IN IF LoopBlocks(B) = {} THEN FoldLeft(LAMBDA m, b : EmitBlock(m, p, B, b), start, order)
       ELSE IF l.cond \in {"execz", "execnz"} THEN [start EXCEPT !.c.err = TRUE]
       ELSE FoldLeft(LAMBDA m, b : EmitLoopBlock(m, p, B, l, b), start, order)

\* finish: a vertex shader must export a position.
finish(m) == ~m.c.err /\ (m.c.stage = "vs" => m.c.pos)

-----------------------------------------------------------------------------
(* One invocation: the slots are zero-initialised, the predicates false. *)
Invocation == [v |-> [r \in VRegs \cup SRegs |-> 0], preds |-> {}, out |-> <<>>, at |-> 1, trips |-> 0]

Value(s, l, src) ==
    CASE src = "vidx" -> (first_vertex + l) % Word
      [] src \in DOMAIN s.v -> s.v[src]
      [] OTHER -> Consts[src]

clamp_index(nr, index) == IF nr = 0 THEN 0 ELSE IF index < nr THEN index ELSE nr - 1
convert_packed_component(fmt, raw) == IF fmt = "8" THEN raw % 2 ELSE raw
\* load_pc_member: the fields of a stream's descriptor come as push constants.
load_pc_member(d) == Desc[d + 1]
\* The loaded element, unpacked by the descriptor's format.
Unpacked(d, index) ==
    convert_packed_component(load_pc_member(d).fmt, Element(d, clamp_index(load_pc_member(d).nr, index)))
fetch_buffer_component(d, index) ==
    LET s == load_pc_member(d) IN
    CASE s.sel = "zero" -> 0
      [] s.sel = "one" -> 1
      [] s.sel = "x" -> Unpacked(d, index)
\* read_ps_input: the host interpolates the attribute.
read_ps_input(l) ==
    (Plane[1] + Bary(l)[1] * (Plane[2] + Word - Plane[1]) + Bary(l)[2] * (Plane[3] + Word - Plane[1])) % Word

RunOp(s, l, o) ==
    CASE o.k = "mov" -> [s EXCEPT !.v[o.d] = Value(s, l, o.a)]
      [] o.k = "add" -> LET sum == Value(s, l, o.a) + Value(s, l, o.b) IN
                        [s EXCEPT !.v[o.d] = sum % Word,
                                  !.preds = IF sum >= Word THEN @ \cup {"vcc"} ELSE @ \ {"vcc"}]
      [] o.k = "select" -> [s EXCEPT !.v[o.d] = Value(s, l, IF o.p \in s.preds THEN o.b ELSE o.a)]
      [] o.k = "less" -> [s EXCEPT !.preds = IF Value(s, l, o.a) < Value(s, l, o.b) THEN @ \cup {o.d} ELSE @ \ {o.d}]
      [] o.k = "cb" -> [s EXCEPT !.v[o.d] = Constant(UserDesc, o.x)]
      [] o.k = "fetch" -> [s EXCEPT !.v[o.d] = fetch_buffer_component(o.x, first_vertex + l)]
      [] o.k = "input" -> [s EXCEPT !.v[o.d] = read_ps_input(l)]
      [] o.k = "sample" -> [s EXCEPT !.v[o.d] = Texel(o.x, Value(s, l, o.a))]
      [] o.k = "exp" -> [s EXCEPT !.out = Append(@, Value(s, l, o.a))]

\* A block of the module, and the label it leads to (0 when it returns).
RunBlock(s, l, block) ==
    LET r == FoldLeft(LAMBDA x, o : RunOp(x, l, o), s, block.code)
        t == block.term
    IN [r EXCEPT !.at = CASE t.kind = "ret" -> 0
                          [] t.kind = "br" -> t.to
                          [] t.kind = "cond" -> IF ("vcc" \in r.preds) # t.neg THEN t.yes ELSE t.no]
=============================================================================
