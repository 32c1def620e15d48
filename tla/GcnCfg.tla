------------------------------- MODULE GcnCfg -------------------------------
(***************************************************************************)
(* The control-flow graph of a decoded GCN shader (crates/gcn/src/cfg.rs), *)
(* the one view of a program's branches that the interpreter and the       *)
(* SPIR-V recompiler share.                                                *)
(*                                                                         *)
(* A program is a sequence of instructions, records with an op; every      *)
(* instruction is one dword, so offsets are positions.  A branch carries   *)
(* its target `to', already displaced.                                     *)
(***************************************************************************)
EXTENDS Naturals, FiniteSets, Sequences, FiniteSetsExt

IsEnd(i) == i.op = "s_endpgm"
IsCond(i) == i.op = "s_cbranch"
is_cfg_branch(i) == i.op \in {"s_branch", "s_cbranch"}

\* What is decoded beyond the first s_endpgm is not part of the shader.
Ends(p) == {n \in DOMAIN p : IsEnd(p[n])}
LiveLen(p) == IF Ends(p) = {} THEN Len(p) ELSE Min(Ends(p))

Branches(p) == {n \in 1..LiveLen(p) : is_cfg_branch(p[n])}

\* The errors of the first pass: an SCC branch, a target off the stream.
UnsupportedCondBranch(p) == \E n \in Branches(p) : IsCond(p[n]) /\ p[n].cond = "scc"
TargetOutOfRange(p) == \E n \in Branches(p) : p[n].to \notin 1..LiveLen(p)

\* Block leaders: the first instruction, every target, what follows a branch.
Leaders(p) ==
    {n \in 1..LiveLen(p) : n = 1 \/ n - 1 \in Branches(p) \/ \E b \in Branches(p) : p[b].to = n}

NoBlock == 0    \* usize::MAX: a conditional branch with nothing after it

Terminator(p, last) ==
    CASE IsEnd(p[last]) -> [kind |-> "return"]
      [] p[last].op = "s_branch" -> [kind |-> "branch", to |-> p[last].to]
      [] IsCond(p[last]) -> [kind |-> "cond", cond |-> p[last].cond, taken |-> p[last].to,
                             fall |-> IF last < LiveLen(p) THEN last + 1 ELSE NoBlock]
      [] OTHER -> IF last < LiveLen(p) THEN [kind |-> "fallthrough", to |-> last + 1]
                                       ELSE [kind |-> "return"]

\* The blocks, by leader: the last instruction and the terminator of each.
Blocks(p) ==
    [b \in Leaders(p) |->
       LET later == {n \in Leaders(p) : n > b}
           last == IF later = {} THEN LiveLen(p) ELSE Min(later) - 1
       IN [last |-> last, term |-> Terminator(p, last)]]

\* Cfg::uncond_succ.
uncond_succ(B, b) == IF B[b].term.kind \in {"branch", "fallthrough"} THEN {B[b].term.to} ELSE {}

\* The blocks an arm runs through before the next conditional.
Reach(B, start) ==
    LET step[n \in 0..Cardinality(DOMAIN B)] ==
          IF n = 0 THEN {start} ELSE step[n - 1] \cup UNION {uncond_succ(B, b) : b \in step[n - 1]}
    IN step[Cardinality(DOMAIN B)]

\* Cfg::merge_target: the first block both arms reach, {} if there is none.
merge_target(B, b) ==
    LET t == B[b].term
        meet == IF t.fall = NoBlock THEN {} ELSE Reach(B, t.taken) \cap Reach(B, t.fall)
    IN IF meet = {} THEN {} ELSE {Min(meet)}

\* Cfg::loop_of: a conditional branch to its own block or an earlier one.
ClosesLoop(B, b) == B[b].term.kind = "cond" /\ B[b].term.taken <= b
loop_of(B, b) == [header |-> B[b].term.taken, back |-> b, merge |-> B[b].term.fall, cond |-> B[b].term.cond]

\* validate_loops: one back-edge, entered from a block before it, left by
\* falling out of it, with no other conditional inside.
validate_loops(B) ==
    /\ \A b \in DOMAIN B : B[b].term.kind = "branch" => B[b].term.to > b
    /\ \A b, c \in {x \in DOMAIN B : ClosesLoop(B, x)} : b = c
    /\ \A b \in {x \in DOMAIN B : ClosesLoop(B, x)} :
         LET l == loop_of(B, b) IN
         /\ l.header # 1 /\ l.merge # NoBlock
         /\ \A o \in DOMAIN B \ {b} : (l.header <= o /\ o <= l.back) => B[o].term.kind # "cond"

\* build_cfg succeeds.
build_cfg(p) ==
    /\ ~UnsupportedCondBranch(p) /\ ~TargetOutOfRange(p)
    /\ validate_loops(Blocks(p))
=============================================================================
