------------------------------ MODULE GcnInterp ------------------------------
(***************************************************************************)
(* The GCN wave interpreter (crates/gcn/src/interp.rs): the oracle that    *)
(* the SPIR-V recompiler is compared with.  One wave runs in lock step;    *)
(* EXEC says which lanes an instruction touches.                           *)
(*                                                                         *)
(* Words are reduced to two bits, the wave to the lanes of Lanes.  A       *)
(* source operand is a register name or one of the constants c0..c3.  A    *)
(* descriptor held in SGPRs is the word that names it in guest memory.     *)
(***************************************************************************)
EXTENDS GcnCfg, SequencesExt

CONSTANTS
    Lanes,      \* the lanes of the wave
    LOOP_ITER_CAP

Word == 4
VRegs == {"v0", "v1", "v2"}
SRegs == {"s0", "s1", "m0"}
Masks == {"vcc", "s2", "s4"}
Consts == [c0 |-> 0, c1 |-> 1, c2 |-> 2, c3 |-> 3]
first_vertex == 1

(* Guest memory as the shader reads it: descriptors by their word. *)
Desc == <<[nr |-> 2, sel |-> "x", fmt |-> "32"], [nr |-> 2, sel |-> "x", fmt |-> "8"],
          [nr |-> 2, sel |-> "one", fmt |-> "32"], [nr |-> 0, sel |-> "x", fmt |-> "32"]>>
Element(d, index) == (2 * d + index + 1) % Word     \* the index-th element of buffer d
Constant(d, offset) == (d + offset + 2) % Word      \* the offset-th dword of constant buffer d
Texel(d, u) == (3 * u + d) % Word                   \* texture d at coordinate u
Plane == <<1, 2, 0>>                                \* p0, p1, p2 of the one attribute
Bary(lane) == <<lane % 2, 1>>                       \* the barycentrics of a pixel lane

\* init_launch: user SGPR s0 holds descriptor 0, v0 the vertex index or v0/v1
\* the barycentrics; the launch mask is EXEC.
init_launch(stage, exec) ==
    [v |-> [r \in VRegs |-> [l \in Lanes |->
              CASE stage = "vs" /\ r = "v0" -> (first_vertex + l) % Word
                [] stage = "ps" /\ r = "v0" -> Bary(l)[1]
                [] stage = "ps" /\ r = "v1" -> Bary(l)[2]
                [] OTHER -> 0]],
     s |-> [r \in SRegs |-> 0], mask |-> [m \in Masks |-> {}],
     exec |-> exec, exports |-> [l \in Lanes |-> <<>>]]

read_scalar(st, src) == IF src \in SRegs THEN st.s[src] ELSE Consts[src]
read_src_lane(st, src, l) == IF src \in VRegs THEN st.v[src][l] ELSE read_scalar(st, src)

\* A write reaches the live lanes only.
write_vgpr(st, d, val) ==
    [st EXCEPT !.v[d] = [l \in Lanes |-> IF l \in st.exec THEN val[l] ELSE @[l]]]
\* A predicate write clears the bits of the dead lanes.
write_predicate(st, m, set) == [st EXCEPT !.mask[m] = set \cap st.exec]

exec_sop1(st, i) ==
    CASE i.op = "s_mov_b32" /\ i.d = "vcc" ->
           [st EXCEPT !.mask.vcc = IF read_scalar(st, i.a) = 0 THEN {} ELSE Lanes]
      [] i.op = "s_mov_b32" /\ i.d # "vcc" -> [st EXCEPT !.s[i.d] = read_scalar(st, i.a)]
      [] i.op = "s_mov_b64" /\ i.d = "exec" -> [st EXCEPT !.exec = st.mask[i.a]]
      [] i.op = "s_mov_b64" /\ i.a = "exec" -> [st EXCEPT !.mask[i.d] = st.exec]

exec_vop1(st, i) == write_vgpr(st, i.d, [l \in Lanes |-> read_src_lane(st, i.a, l)])

\* V_ADD_I32 with its carry, V_CNDMASK_B32 on VCC.
exec_vop2(st, i) ==
    LET sum == [l \in Lanes |-> read_src_lane(st, i.a, l) + read_src_lane(st, i.b, l)]
    IN IF i.op = "v_add_i32"
       THEN write_predicate(write_vgpr(st, i.d, [l \in Lanes |-> sum[l] % Word]), "vcc",
                            {l \in Lanes : sum[l] >= Word})
       ELSE write_vgpr(st, i.d, [l \in Lanes |->
              read_src_lane(st, IF l \in st.mask["vcc"] THEN i.b ELSE i.a, l)])

eval_f32_compare(a, b) == a < b
Compared(st, i) ==
    {l \in Lanes : eval_f32_compare(read_src_lane(st, i.a, l), read_src_lane(st, i.b, l))}

exec_vopc(st, i) == write_predicate(st, "vcc", Compared(st, i))

\* The VOP3 forms name the SGPR pair of the predicate.
exec_vop3(st, i) ==
    IF i.op = "v_cmp_e64" THEN write_predicate(st, i.d, Compared(st, i))
    ELSE write_vgpr(st, i.d, [l \in Lanes |->
           read_src_lane(st, IF l \in st.mask[i.p] THEN i.b ELSE i.a, l)])

\* S_LOAD brings a descriptor into SGPRs, S_BUFFER_LOAD a constant.
exec_smrd(st, i) ==
    [st EXCEPT !.s[i.d] = IF i.op = "s_load" THEN i.k ELSE Constant(read_scalar(st, i.a), i.k)]

convert_packed_int(fmt, raw) == IF fmt = "8" THEN raw % 2 ELSE raw
exec_mubuf(st, i) ==
    LET d == read_scalar(st, i.a)
        at(l) == LET index == read_src_lane(st, i.b, l) IN
                 IF Desc[d + 1].nr # 0 /\ index >= Desc[d + 1].nr THEN Desc[d + 1].nr - 1 ELSE index
    IN write_vgpr(st, i.d, [l \in Lanes |-> convert_packed_int(Desc[d + 1].fmt, Element(d, at(l)))])

exec_vintrp(st, i) ==
    write_vgpr(st, i.d, [l \in Lanes |->
       IF i.op = "v_interp_p1" THEN (Plane[1] + st.v["v0"][l] * (Plane[2] + Word - Plane[1])) % Word
       ELSE (st.v[i.d][l] + st.v["v1"][l] * (Plane[3] + Word - Plane[1])) % Word])

sample_texture(d, u) == Texel(d, u)
exec_mimg(st, i) ==
    write_vgpr(st, i.d, [l \in Lanes |-> sample_texture(read_scalar(st, i.a), read_src_lane(st, i.b, l))])

exec_exp(st, i) ==
    [st EXCEPT !.exports = [l \in Lanes |->
       IF l \in st.exec THEN Append(@[l], read_src_lane(st, i.a, l)) ELSE @[l]]]

exec_one(st, i) ==
    CASE i.op \in {"s_mov_b32", "s_mov_b64"} -> exec_sop1(st, i)
      [] i.op = "v_mov_b32" -> exec_vop1(st, i)
      [] i.op \in {"v_add_i32", "v_cndmask"} -> exec_vop2(st, i)
      [] i.op \in {"v_cmp_e64", "v_cndmask_e64"} -> exec_vop3(st, i)
      [] i.op = "v_cmp" -> exec_vopc(st, i)
      [] i.op \in {"s_load", "s_buffer_load"} -> exec_smrd(st, i)
      [] i.op = "buffer_load" -> exec_mubuf(st, i)
      [] i.op \in {"v_interp_p1", "v_interp_p2"} -> exec_vintrp(st, i)
      [] i.op = "image_sample" -> exec_mimg(st, i)
      [] i.op = "exp" -> exec_exp(st, i)
      [] OTHER -> st        \* branches and s_endpgm: the block's terminator

run_block_body(st, p, B, b) == FoldLeft(exec_one, st, SubSeq(p, b, B[b].last))

\* The blocks an arm runs before it reaches `stop'.  Reach follows only
\* unconditional edges, so no arm can meet a second conditional on the way.
Path(B, start, stop) ==
    LET walk[n \in 0..Cardinality(DOMAIN B)] ==
          IF n = 0 THEN IF start = stop THEN <<>> ELSE <<start>>
          ELSE LET w == walk[n - 1]
                   next == IF w = <<>> THEN {} ELSE uncond_succ(B, Last(w)) \ {stop}
               IN IF next = {} THEN w ELSE Append(w, CHOOSE x \in next : TRUE)
    IN walk[Cardinality(DOMAIN B)]

\* run_region: one arm of a branch under its lane mask.
run_region(st, p, B, mask, start, stop) ==
    IF start = stop \/ mask = {} THEN st
    ELSE FoldLeft(LAMBDA s, b : run_block_body(s, p, B, b), [st EXCEPT !.exec = mask],
                  Path(B, start, stop))

\* The lanes that take a branch.
taken_mask(st, cond) ==
    CASE cond = "vccz" -> st.exec \ st.mask["vcc"]
      [] cond = "vccnz" -> st.exec \cap st.mask["vcc"]
      [] cond = "execz" -> {}
      [] cond = "execnz" -> st.exec

\* Both arms in turn, then the lanes reconverge under the saved EXEC.
RunBranch(st, p, B, b) ==
    LET t == B[b].term
        merge == CHOOSE x \in merge_target(B, b) : TRUE
        taken == taken_mask(st, t.cond)
        fall == st.exec \ taken
        s1 == run_region(st, p, B, taken, t.taken, merge)
        s2 == run_region(s1, p, B, fall, t.fall, merge)
    IN [s2 EXCEPT !.exec = st.exec]

\* run_loop_body: one trip from the header to the back edge.
run_loop_body(st, p, B, l, mask) ==
    LET s == [st EXCEPT !.exec = mask]
        before == IF l.header = l.back THEN <<>> ELSE Path(B, l.header, l.back)
    IN run_block_body(FoldLeft(LAMBDA x, b : run_block_body(x, p, B, b), s, before), p, B, l.back)
=============================================================================
