---------------------------- MODULE ShaderBinary ----------------------------
(***************************************************************************)
(* From an address in SPI_SHADER_PGM to a shader that can be recompiled:   *)
(* the search for the OrbShdr header behind the code (gnm/src/shader/      *)
(* sb.rs), the instruction stream (gcn/src/decoder.rs), the fetch shader a *)
(* vertex shader calls (shader/gcn.rs, gcn/src/fetch_shader.rs), the       *)
(* splice of the two (gcn/src/fetch_call.rs) and the vertex streams the    *)
(* fetched descriptors name (gnm/src/vbuf.rs, exec.rs).                    *)
(*                                                                         *)
(* A cell is a dword by what it decodes to; the magic takes two cells and  *)
(* a header three.  Mapped memory ends where an image ends.                *)
(***************************************************************************)
EXTENDS Integers, Sequences, SequencesExt, FiniteSetsExt

CONSTANTS
    Inputs,         \* memory at a PGM address and at the fetch pointer (<<>>: null)
    CHUNK, MAX_SCAN, MAX_FOOTER_GAP,
    FETCH_WINDOW_MIN, FETCH_WINDOW_MAX

ASSUME ShaderBinaryAssumption == CHUNK > 0 /\ FETCH_WINDOW_MIN \in 1..FETCH_WINDOW_MAX

VARIABLES
    sb_image, fetch, \* guest memory
    step,          \* where the provider is
    scan_off,      \* the scan's window
    header,        \* the candidate header
    sb_code,       \* the instructions of the shader
    window,        \* the window on the fetch shader
    body,          \* what was read of it, decoded
    resolved,      \* the stream given to the recompiler
    streams        \* the draw's vertex streams: binding -> the descriptor it reads

shaderBinVars == <<sb_image, fetch, step, scan_off, header, sb_code, window, body, resolved, streams>>

(***************************************************************************)
(* Cells.                                                                  *)
(***************************************************************************)
Op == <<"op", 0>>
LongOp == <<"op", 1>>         \* a vector instruction with a literal or in the long form
End == <<"end", 0>>
Lit == <<"lit", 0>>            \* a scalar instruction with a literal: the next cell is data
Wide == <<"wide", 0>>          \* an image or export instruction, two dwords
Wait == <<"wait", 0>>
Br(d) == <<"br", d>>           \* a conditional branch over d dwords
SwapCall == <<"call", 0>>
BadCall == <<"call", 1>>       \* through a special register
Ret == <<"ret", 0>>
LoadV(r) == <<"load", r>>      \* s_load_dwordx4: the descriptor r
Fmt(r) == <<"fmt", r>>         \* buffer_load_format, two dwords
M1 == <<"m1", 0>>
M2 == <<"m2", 0>>
Vs(n) == <<"vs", n>>           \* the header's stage and code length
Cs(n) == <<"cs", n>>

MAGIC_LEN == 2
SHADER_BINARY_INFO_SIZE == 3

(***************************************************************************)
(* sb.rs.  Offsets count from the start of the code.                       *)
(***************************************************************************)
\* The longest of want, want/2, ... that can be read, or 0.
read_shrinking(off, want) ==
    LET shorter[len \in 0..want] ==
            IF off + len <= Len(sb_image) THEN len
            ELSE IF len <= MAGIC_LEN THEN 0
            ELSE shorter[Max({len \div 2, MAGIC_LEN})]
    IN  shorter[want]

IsMagic(off) == off + MAGIC_LEN <= Len(sb_image) /\ sb_image[off + 1] = M1 /\ sb_image[off + 2] = M2

\* How far a window that found nothing moves the scan: the magic may begin in
\* its last cell.
window_step(scanned) == scanned - (MAGIC_LEN - 1)

\* One window of the scan.
scan_for_magic ==
    LET scanned == read_shrinking(scan_off, CHUNK + MAGIC_LEN - 1)
        hits == {o \in scan_off..scan_off + scanned - MAGIC_LEN : IsMagic(o)}
    IN  /\ step = "scan"
        /\ IF scan_off >= MAX_SCAN \/ scanned = 0
           THEN step' = "rejected" /\ UNCHANGED <<scan_off, header>>
           ELSE IF hits # {}
           THEN step' = "validate" /\ header' = Min(hits) /\ UNCHANGED scan_off
           ELSE scan_off' = scan_off + window_step(scanned) /\ UNCHANGED <<step, header>>
        /\ UNCHANGED <<sb_image, fetch, sb_code, window, body, resolved, streams>>

\* ShaderBinaryInfo::parse: the words after the magic, stage and code length.
parse(off) == sb_image[off + SHADER_BINARY_INFO_SIZE]
\* The stages from_m_type knows, and of these the ones a draw can use.
SbStage == {"vs", "cs"}
logical_stage(info) == {info[1]} \ {"cs"}

\* The header's own words: read whole, of a known stage, its code ends in
\* s_endpgm a little before it.
Valid(off) ==
    /\ off + SHADER_BINARY_INFO_SIZE <= Len(sb_image)
    /\ LET info == parse(off)
       IN  /\ info[1] \in SbStage
           /\ info[2] \in 1..off /\ off - info[2] <= MAX_FOOTER_GAP
           /\ sb_image[info[2]] = End

(***************************************************************************)
(* decoder.rs: a walk from the first dword; an instruction cut off by the  *)
(* end of the code is as long as what is left.                             *)
(***************************************************************************)
\* How many dwords an instruction takes, encoding by encoding.
decode_scalar(cell) == IF cell[1] = "lit" THEN 2 ELSE 1
decode_smrd(cell) == 1
decode_vop(cell) == 1 + cell[2]
decode_mubuf(cell) == 2
decode_mimg(cell) == 2          \* and exports
decode_one(cell) ==
    CASE cell[1] = "fmt" -> decode_mubuf(cell)
      [] cell[1] = "wide" -> decode_mimg(cell)
      [] cell[1] = "load" -> decode_smrd(cell)
      [] cell[1] = "op" -> decode_vop(cell)
      [] OTHER -> decode_scalar(cell)     \* data too, as it comes
decode_all(words) ==
    LET from[pc \in 1..Len(words) + 1] ==
            IF pc > Len(words) THEN <<>>
            ELSE LET size == Min({decode_one(words[pc]), Len(words) - pc + 1})
                 IN  <<[inst |-> words[pc], at |-> pc - 1, size |-> size]>> \o from[pc + size]
    IN  from[1]
Kind(d) == d.inst[1]
IsReturn(d) == Kind(d) \in {"ret", "call"}
Returns(insts) == {i \in DOMAIN insts : IsReturn(insts[i])}

\* A candidate that does not hold is passed over; otherwise its code is read.
validate_sb_candidate ==
    /\ step = "validate"
    /\ IF Valid(header)
       THEN LET info == parse(header)
                insts == decode_all(SubSeq(sb_image, 1, info[2]))
                calls == \E i \in DOMAIN insts : Kind(insts[i]) = "call"
            IN  /\ sb_code' = insts
                /\ step' = IF logical_stage(info) = {} \/ (calls /\ fetch = <<>>) THEN "deferred"
                           ELSE IF calls THEN "fetch" ELSE "recompile"
                /\ resolved' = IF calls THEN <<>> ELSE insts
                /\ UNCHANGED scan_off
       ELSE step' = "scan" /\ scan_off' = header + 1 /\ UNCHANGED <<sb_code, resolved>>
    /\ UNCHANGED <<sb_image, fetch, header, window, body, streams>>

(***************************************************************************)
(* The fetch shader.                                                       *)
(***************************************************************************)
\* Where the first return that the walk lands on ends; 0 for none.
fetch_aligned_return_end(words) ==
    LET insts == decode_all(words)
    IN  IF Returns(insts) = {} THEN 0 ELSE LET d == insts[Min(Returns(insts))] IN d.at + d.size

\* The window doubles until it holds a return, is at its largest, or can no
\* longer be read: then the last one that could.
read_fetch_code ==
    LET words == SubSeq(fetch, 1, window)
        end == fetch_aligned_return_end(words)
    IN  /\ step = "fetch"
        /\ IF window > Len(fetch)
           THEN step' = (IF window = FETCH_WINDOW_MIN THEN "deferred" ELSE "splice") /\ UNCHANGED <<window, body>>
           ELSE IF end # 0
           THEN step' = "splice" /\ body' = decode_all(SubSeq(fetch, 1, end)) /\ UNCHANGED window
           ELSE /\ body' = decode_all(words)
                /\ IF window >= FETCH_WINDOW_MAX THEN step' = "splice" /\ UNCHANGED window
                   ELSE window' = Min({window * 2, FETCH_WINDOW_MAX}) /\ UNCHANGED step
        /\ UNCHANGED <<sb_image, fetch, scan_off, header, sb_code, resolved, streams>>

\* Loads of descriptors, fetches through them, waits, a return: the fetches in
\* order, or nothing if there is anything else.
parse_fetch_shader(insts) ==
    LET n == IF Returns(insts) = {} THEN 0 ELSE Min(Returns(insts)) - 1
        Known(i) == \/ Kind(insts[i]) \in {"wait", "load"}
                    \/ Kind(insts[i]) = "fmt" /\ \E j \in 1..i - 1 : insts[j].inst = LoadV(insts[i].inst[2])
        IsFetch(d) == Kind(d) = "fmt"
    IN  IF \A i \in 1..n : Known(i) THEN SelectSeq(SubSeq(insts, 1, n), IsFetch) ELSE <<>>

\* Every instruction where the sizes of those before it put it.
renumber(insts) ==
    [i \in DOMAIN insts |-> [insts[i] EXCEPT !.at = FoldSeq(LAMBDA d, sum : d.size + sum, 0, SubSeq(insts, 1, i - 1))]]
\* A mutant: the return stays in the stream as an instruction of no effect, and
\* the one after the call goes.
Splice_late(main, call, fetched, ret) ==
    renumber(SubSeq(main, 1, call - 1) \o SubSeq(fetched, 1, ret - 1) \o SubSeq(main, call + 2, Len(main)))

Splice(main, call, fetched, ret) ==
    renumber(SubSeq(main, 1, call - 1) \o SubSeq(fetched, 1, ret - 1) \o SubSeq(main, call + 1, Len(main)))

resolve_fetch_call ==
    LET calls == {i \in DOMAIN sb_code : Kind(sb_code[i]) = "call"}
        call == Min(calls)
        accepted == Cardinality(calls) = 1 /\ sb_code[call].inst = SwapCall /\ parse_fetch_shader(body) # <<>>
    IN  /\ step = "splice"
        /\ step' = IF accepted THEN "recompile" ELSE "deferred"
        /\ resolved' = IF accepted THEN Splice(sb_code, call, body, Min(Returns(body))) ELSE resolved
        /\ UNCHANGED <<sb_image, fetch, scan_off, header, sb_code, window, body, streams>>

\* Where control may go after instruction i; a branch by its offset.
Follow(insts, i) ==
    IF Kind(insts[i]) = "end" THEN {}
    ELSE {i + 1} \cup {j \in DOMAIN insts : Kind(insts[i]) = "br" /\ insts[j].at = insts[i].at + insts[i].size + insts[i].inst[2]}

\* The recompiler takes a stream without calls whose branches have targets.
recompile ==
    LET lands == \A i \in DOMAIN resolved : Kind(resolved[i]) = "br" => Cardinality(Follow(resolved, i) \ {i + 1}) = 1 \/ resolved[i].inst[2] = 0
        known == \A i \in DOMAIN resolved : Kind(resolved[i]) \in {"op", "lit", "wide", "wait", "br", "load", "fmt", "end"}
    IN  /\ step = "recompile"
        /\ step' = IF lands /\ known THEN "host" ELSE "deferred"
        /\ UNCHANGED <<sb_image, fetch, scan_off, header, sb_code, window, body, resolved, streams>>

(***************************************************************************)
(* The draw's vertex streams: one slot for every fetch of the shader.  A   *)
(* slot whose pointer or descriptor is of no use yields no range.          *)
(***************************************************************************)
fetch_layout_of == LET IsFetch(d) == Kind(d) = "fmt" IN SelectSeq(resolved, IsFetch)

\* The slot's pointer out of the user SGPRs, the V# it points at, and whether
\* that is usable: one range, or none for any of VbufError.
VbufError == {"SlotOutOfRange", "NullPointer", "MemoryFault", "NullDescriptor"}
resolve_slot(slot, outcome) == IF outcome \in VbufError THEN <<>> ELSE <<slot.inst[2]>>
derive_buffer_ranges(slots, outcomes) == FlattenSeq([i \in DOMAIN slots |-> resolve_slot(slots[i], outcomes[i])])
\* Bound in order, when there is a range for every slot.
enough_streams(ranges, slots) == Len(ranges) >= Len(slots)

bind_streams(outcomes) ==
    LET slots == fetch_layout_of
        ranges == derive_buffer_ranges(slots, outcomes)
    IN  /\ step = "host"
        /\ step' = IF enough_streams(ranges, slots) THEN "drawn" ELSE "deferred"
        /\ streams' = IF enough_streams(ranges, slots) THEN ranges ELSE streams
        /\ UNCHANGED <<sb_image, fetch, scan_off, header, sb_code, window, body, resolved>>

ShaderBinStart(input) ==
    /\ sb_image = input[1] /\ fetch = input[2]
    /\ step = "scan" /\ scan_off = 0 /\ header = 0
    /\ sb_code = <<>> /\ window = FETCH_WINDOW_MIN /\ body = <<>> /\ resolved = <<>> /\ streams = <<>>
ShaderBinInit == \E input \in Inputs : ShaderBinStart(input)

ShaderBinNext ==
    \/ scan_for_magic \/ validate_sb_candidate \/ read_fetch_code \/ resolve_fetch_call \/ recompile
    \/ \E outcomes \in [DOMAIN fetch_layout_of -> VbufError \cup {"ok"}] : bind_streams(outcomes)

ShaderBinSpec == ShaderBinInit /\ [][ShaderBinNext]_shaderBinVars

(***************************************************************************)
(* Properties.                                                             *)
(***************************************************************************)

\* What the hardware runs: the paths through a stream from its first
\* instruction, a call standing for all of the fetch shader in memory.
Paths(insts) ==
    LET from[i \in 1..Len(insts) + 1] ==
            IF i > Len(insts) THEN {<<>>}
            ELSE IF Follow(insts, i) = {} THEN {<<insts[i].inst>>}
            ELSE UNION {{<<insts[i].inst>> \o p : p \in from[j]} : j \in Follow(insts, i)}
    IN  from[1]
FetchProgram == decode_all(fetch)
FetchBody == LET n == Min(Returns(FetchProgram)) - 1 IN [i \in 1..n |-> FetchProgram[i].inst]
Called(p) == FlattenSeq([k \in DOMAIN p |-> IF p[k] = SwapCall THEN FetchBody ELSE <<p[k]>>])
CallAt == Min({i \in DOMAIN sb_code : Kind(sb_code[i]) = "call"})
CrossesCall == \E i \in 1..CallAt - 1 : \E j \in Follow(sb_code, i) : j > CallAt

\* The stream given to the recompiler runs, on every path, what calling the
\* fetch shader would run, provided no branch of the shader jumps over the
\* call; and a fetch shader of the expected shape that some window holds to
\* its return is never given up (gcn.rs:read_fetch_code,
\* fetch_call.rs:resolve_fetch_call).
SpliceRunsTheSame ==
    /\ step \in {"host", "drawn"} /\ body # <<>> /\ ~CrossesCall => Paths(resolved) = {Called(p) : p \in Paths(sb_code)}
    /\ step = "deferred" /\ body # <<>> /\ Cardinality({i \in DOMAIN sb_code : Kind(sb_code[i]) = "call"}) = 1 /\ sb_code[CallAt].inst = SwapCall =>
           \/ parse_fetch_shader(FetchProgram) = <<>>
           \/ resolved # <<>>
           \/ FetchProgram[Min(Returns(FetchProgram))].at >= window
           \/ window > Len(fetch)

=============================================================================
