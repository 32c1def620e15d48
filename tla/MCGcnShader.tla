----------------------------- MODULE MCGcnShader -----------------------------
(* The shaders model-checked: straight-line code, one conditional branch to *)
(* any target, and one conditional with one jump; vertex fetch, constant    *)
(* and pixel programs.                                                      *)
EXTENDS GcnShader

Mov(d, a) == <<[op |-> "v_mov_b32", d |-> d, a |-> a]>>
SMov(d, a) == <<[op |-> "s_mov_b32", d |-> d, a |-> a]>>
MovB64(d, a) == <<[op |-> "s_mov_b64", d |-> d, a |-> a]>>
Add(d, a, b) == <<[op |-> "v_add_i32", d |-> d, a |-> a, b |-> b]>>
Cnd(d, a, b) == <<[op |-> "v_cndmask", d |-> d, a |-> a, b |-> b]>>
Cmp(a, b) == <<[op |-> "v_cmp", a |-> a, b |-> b]>>
SLoad(d, k) == <<[op |-> "s_load", d |-> d, k |-> k]>>
Fetch(d, a) == <<[op |-> "buffer_load", d |-> d, a |-> a, b |-> "v0"]>>
CLoad(d, a, k) == <<[op |-> "s_buffer_load", d |-> d, a |-> a, k |-> k]>>
Interp == <<[op |-> "v_interp_p1", d |-> "v2"], [op |-> "v_interp_p2", d |-> "v2"]>>
Sample(a) == <<[op |-> "image_sample", d |-> "v2", a |-> a, b |-> "v2"]>>
CmpE64(d, a, b) == <<[op |-> "v_cmp_e64", d |-> d, a |-> a, b |-> b]>>
CndE64(d, a, b, p) == <<[op |-> "v_cndmask_e64", d |-> d, a |-> a, b |-> b, p |-> p]>>
Exp(a) == <<[op |-> "exp", a |-> a]>>
EndPgm == <<[op |-> "s_endpgm"]>>
CBr(cond, to) == <<[op |-> "s_cbranch", cond |-> cond, to |-> to]>>
Br(to) == <<[op |-> "s_branch", to |-> to]>>

Seqs(S, n) == [1..n -> S]
Code(head, slots, tail) == head \o FlattenSeq(slots) \o tail
VS(c) == [stage |-> "vs", code |-> c]
PS(c) == [stage |-> "ps", code |-> c]

Alu == {Mov("v1", "c1"), Mov("v1", "v0"), Add("v0", "v0", "c2"), Cnd("v1", "v0", "c3"), Cmp("v1", "c2"), SMov("vcc", "c3")}
Few == {Mov("v1", "c1"), Add("v0", "v0", "c1"), Cmp("v0", "c3")}
VsHead == Cmp("v0", "c2")
VsTail == Exp("v1") \o EndPgm

Straight == {VS(Code(VsHead, s, VsTail)) : s \in Seqs(Alu, 3)}
OneBranch ==
    {VS(Code(VsHead, [s EXCEPT ![n] = CBr(c, t)], VsTail)) :
       s \in Seqs(Alu, 3), n \in 1..3, c \in {"vccz", "vccnz"}, t \in 1..6}
    \cup {VS(Code(VsHead, [s EXCEPT ![n] = CBr(c, t)], VsTail)) :
       s \in Seqs(Few, 3), n \in 1..3, c \in {"execz", "execnz", "scc"}, t \in 1..7}
TwoBranches ==
    {VS(Code(VsHead, [s EXCEPT ![n] = CBr(c, t), ![m] = Br(u)], VsTail)) :
       s \in Seqs(Few, 4), n \in 1..2, c \in {"vccz", "vccnz"}, t \in 2..7, m \in 3..4, u \in 4..7}
\* A jump into a loop splits it into two blocks.
SplitLoops ==
    {VS(Code(VsHead, [s EXCEPT ![m] = Br(u), ![n] = CBr(c, t)], VsTail)) :
       s \in Seqs(Few, 4), m \in 1..2, n \in 3..4, c \in {"vccz", "vccnz"}, t \in 2..4, u \in 3..5}
Loads == {SLoad("s1", 1), SMov("s1", "c1"), Fetch("v1", "s0"), Fetch("v1", "s1"), CLoad("s1", "s0", 1), Mov("v1", "s1")}
FetchOps == Loads \cup {SLoad("s0", 0), SLoad("s1", 2), SMov("m0", "s1"), Mov("v0", "c1")}
Fetches == {VS(Code(<<>>, s, VsTail)) : s \in Seqs(FetchOps, 3) \cup Seqs(Loads, 4)}
Blends == {Interp, Sample("s0"), CmpE64("s4", "v2", "c2"), CndE64("v2", "v2", "c1", "s4"), MovB64("exec", "s2")}
PixelOps == Blends \cup {Sample("s1"), SLoad("s1", 1), MovB64("s2", "exec")}
Pixels == {PS(Code(<<>>, s, Exp("v2") \o EndPgm)) : s \in Seqs(PixelOps, 3) \cup Seqs(Blends, 4)}
NoPosition == {VS(Mov("v1", "c1") \o EndPgm)}

MCPrograms == Straight \cup OneBranch \cup TwoBranches \cup SplitLoops \cup Fetches \cup Pixels \cup NoPosition
MCLaunches == {{0}, {0, 1}}
=============================================================================
