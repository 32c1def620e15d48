------------------------------ MODULE Surfaces ------------------------------
(***************************************************************************)
(* Surfaces in guest memory: the render target a draw's registers describe *)
(* (gnm/src/derive.rs), its readback into the guest's layout               *)
(* (gpu/src/backend.rs), and a sampled texture, which is the target's host *)
(* image or a detiled upload of guest memory (gnm/src/exec.rs, vbuf.rs,    *)
(* cache/tile.rs, core/src/tiling.rs).                                     *)
(*                                                                         *)
(* Memory is counted in 32-bit texels; every surface begins at 0.  The     *)
(* sides of a micro tile and the pitch alignment are parameters.           *)
(***************************************************************************)
EXTENDS Integers, FiniteSetsExt

CONSTANTS
    MICRO_TILE_DIM, LINEAR_ALIGNED_PITCH_TEXELS,
    TileModes,          \* tile mode indices in use
    Extents,            \* widths and heights a descriptor may state
    TexturePitches,     \* pitches a T# may state, 0 for none
    PitchTileMax, SliceTileMax, \* values of CB_COLOR0_PITCH and CB_COLOR0_SLICE
    SurfaceTexels,      \* how much of guest memory is mapped
    MaxReadbacks        \* bound for TLC: no target is derived or read back after so many

ASSUME SurfaceAssumption ==
    /\ MICRO_TILE_DIM \in Nat \ {0} /\ LINEAR_ALIGNED_PITCH_TEXELS \in Nat \ {0}
    /\ Extents \subseteq Nat /\ TexturePitches \subseteq Nat

VARIABLES
    texels,    \* guest memory
    target,    \* the registered render target, or {}
    bound,     \* the last texture bind and the picture it samples
    readbacks  \* readbacks so far

surfaceVars == <<texels, target, bound, readbacks>>

Blank == <<"zero">>
Unbound == [how |-> "none", t |-> {}, pic |-> <<>>]

(***************************************************************************)
(* core/src/tiling.rs.                                                     *)
(***************************************************************************)
tile_kind(index) == CASE index = 0 -> "Linear" [] index \in 1..7 -> "Thin1d" [] index = 8 -> "LinearAligned" [] OTHER -> "Macro2d"

div_ceil(a, b) == (a + b - 1) \div b
linear_aligned_pitch(width) == div_ceil(width, LINEAR_ALIGNED_PITCH_TEXELS) * LINEAR_ALIGNED_PITCH_TEXELS
linear_aligned_pitch_or(width, decoded) == IF decoded >= width THEN decoded ELSE linear_aligned_pitch(width)

\* The bits of x and y within a micro tile, interleaved.
bit(v, b) == (v \div (2 ^ b)) % 2
TileBits == CHOOSE n \in 0..3 : 2 ^ n = MICRO_TILE_DIM
micro_tile_index(x, y) ==
    LET Weighted(b) == bit(x, b) * (2 ^ (2 * b)) + bit(y, b) * (2 ^ (2 * b + 1))
    IN  MapThenSumSet(Weighted, 0..TileBits - 1)
thin1d_texel_offset(x, y, width) ==
    LET tiles_per_row == div_ceil(width, MICRO_TILE_DIM)
        tile_index == (y \div MICRO_TILE_DIM) * tiles_per_row + x \div MICRO_TILE_DIM
    IN  tile_index * MICRO_TILE_DIM * MICRO_TILE_DIM + micro_tile_index(x, y)
linear_aligned_texel_offset(x, y, pitch) == y * pitch + x

(***************************************************************************)
(* cache/tile.rs: a layout is a tiling, an extent and a decoded pitch.     *)
(***************************************************************************)
Grid(w, h) == (0..w - 1) \X (0..h - 1)
aligned_pitch(l) == linear_aligned_pitch_or(l.width, l.pitch)

tiled_size(l) == CASE l.tiling = "LinearGeneral" -> l.width * l.height
                   [] l.tiling = "LinearAligned" -> aligned_pitch(l) * l.height
                   [] OTHER -> div_ceil(l.width, MICRO_TILE_DIM) * div_ceil(l.height, MICRO_TILE_DIM) * MICRO_TILE_DIM * MICRO_TILE_DIM

TexelAt(l, x, y) == CASE l.tiling = "LinearGeneral" -> y * l.width + x
                      [] l.tiling = "LinearAligned" -> linear_aligned_texel_offset(x, y, aligned_pitch(l))
                      [] OTHER -> thin1d_texel_offset(x, y, l.width)

\* The picture in a run of bytes, when there are enough of them.
detile(bytes, l) == [p \in Grid(l.width, l.height) |-> bytes[TexelAt(l, p[1], p[2])]]
\* The bytes of a picture; what no texel falls on is zero.
tile(pic, l) ==
    [i \in 0..tiled_size(l) - 1 |->
        LET here == {p \in Grid(l.width, l.height) : TexelAt(l, p[1], p[2]) = i}
        IN  IF here = {} THEN Blank ELSE pic[CHOOSE p \in here : TRUE]]

(***************************************************************************)
(* The render target of a draw.                                            *)
(***************************************************************************)
pitch_pixels(pitch_reg) == (pitch_reg + 1) * MICRO_TILE_DIM
offscreen_rows(slice_reg, pitch) == ((slice_reg + 1) * MICRO_TILE_DIM * MICRO_TILE_DIM) \div pitch
\* What the viewport shows of it; a viewport below a pixel says nothing.
offscreen_content_extent(view, allocated) == IF view < 1 THEN allocated ELSE IF view < allocated THEN view ELSE allocated

\* The draw renders: each texel of the host image is its own mark.  The base
\* keeps one registration, the latest; freeing the memory does not end it.
derive_target(pitch_reg, slice_reg, vw, vh, mode) ==
    LET pitch == pitch_pixels(pitch_reg)
        rows == offscreen_rows(slice_reg, pitch)
    IN  /\ rows # 0 /\ bound = Unbound /\ readbacks < MaxReadbacks
        /\ target' = {[width |-> offscreen_content_extent(vw, pitch), height |-> offscreen_content_extent(vh, rows),
                       pitch |-> pitch, mode |-> mode, size |-> pitch * rows]}
        /\ UNCHANGED <<texels, bound, readbacks>>
Rendered(x, y) == <<"rt", x, y>>

\* The layout a readback packs into; none for macro tiles.
guest_surface_layout(rt) ==
    LET kind == tile_kind(rt.mode)
    IN  IF rt.pitch < rt.width \/ kind = "Macro2d" THEN {}
        ELSE {[tiling |-> IF kind = "Thin1d" THEN "Thin1d" ELSE "LinearGeneral", width |-> rt.pitch, height |-> rt.height, pitch |-> 0]}

\* The target's image, copied to a host buffer of its own extent.
copy_rt_to_host(rt) == [p \in Grid(rt.width, rt.height) |-> Rendered(p[1], p[2])]

\* Rows are filled up to the pitch with zeros, then tiled.
pack_guest_surface(rt, l) ==
    LET host == copy_rt_to_host(rt)
    IN  tile([p \in Grid(l.width, l.height) |-> IF p \in DOMAIN host THEN host[p] ELSE Blank], l)

\* UNEMUPS4_RT_READBACK: the host image goes into the target's range, unless
\* the copy fails.
readback ==
    \E rt \in target : \E l \in guest_surface_layout(rt) :
        LET bytes == pack_guest_surface(rt, l)
            n == Min({rt.size, tiled_size(l)})
        IN  /\ bound = Unbound /\ n <= SurfaceTexels /\ readbacks < MaxReadbacks /\ readbacks' = readbacks + 1
            /\ texels' = [i \in DOMAIN texels |-> IF i < n THEN bytes[i] ELSE texels[i]]
            /\ UNCHANGED <<target, bound>>

(***************************************************************************)
(* A sampled texture: a T# of extent, tile mode and pitch.                 *)
(***************************************************************************)
\* A mutant: the rows of an aligned surface are as wide as the texture.
byte_span_tight(t) ==
    IF tile_kind(t.mode) \in {"Linear", "LinearAligned"} THEN t.width * t.height
    ELSE div_ceil(t.width, MICRO_TILE_DIM) * div_ceil(t.height, MICRO_TILE_DIM) * MICRO_TILE_DIM * MICRO_TILE_DIM

byte_span(t) ==
    LET kind == tile_kind(t.mode)
    IN  CASE kind = "Linear" -> t.width * t.height
          [] kind = "LinearAligned" -> linear_aligned_pitch_or(t.width, t.pitch) * t.height
          [] OTHER -> div_ceil(t.width, MICRO_TILE_DIM) * div_ceil(t.height, MICRO_TILE_DIM) * MICRO_TILE_DIM * MICRO_TILE_DIM

texture_surface_layout(t) ==
    [tiling |-> CASE tile_kind(t.mode) = "Thin1d" -> "Thin1d" [] tile_kind(t.mode) = "LinearAligned" -> "LinearAligned"
                  [] OTHER -> "LinearGeneral",
     width |-> t.width, height |-> t.height, pitch |-> t.pitch]

\* The T# and S# through a descriptor set, or in the user SGPRs themselves: a
\* draw whose descriptors cannot be had samples nothing.
Unresolved ==
    /\ bound = Unbound
    /\ bound' = [Unbound EXCEPT !.how = "unresolved"] /\ UNCHANGED <<texels, target, readbacks>>
derive_texture(outcome) == outcome \in {"SlotOutOfRange", "NullPointer", "MemoryFault", "NullDescriptor"} /\ Unresolved
derive_texture_inline(outcome) == outcome \in {"SlotOutOfRange", "NullDescriptor"} /\ Unresolved

\* RtRegistry::lookup: the base, and all of the span within.
lookup(t) == {rt \in target : byte_span(t) <= rt.size}

bind_render_target(t) ==
    /\ bound = Unbound /\ lookup(t) # {}
    /\ \E rt \in target : bound' = [how |-> "rt", t |-> {t}, pic |-> [p \in Grid(rt.width, rt.height) |-> Rendered(p[1], p[2])]]
    /\ UNCHANGED <<texels, target, readbacks>>
defer_macro_tiled(t) ==
    /\ bound = Unbound /\ lookup(t) = {} /\ tile_kind(t.mode) = "Macro2d"
    /\ bound' = [Unbound EXCEPT !.how = "deferred"] /\ UNCHANGED <<texels, target, readbacks>>
\* Guest memory is read and detiled; a span that cannot be read, or is too
\* short for the layout, uploads nothing.
emit_image_upload(t) ==
    LET l == texture_surface_layout(t)
        bytes == byte_span(t)
    IN  /\ bound = Unbound /\ lookup(t) = {} /\ tile_kind(t.mode) # "Macro2d"
        /\ bound' = IF bytes > SurfaceTexels THEN [Unbound EXCEPT !.how = "unreadable"]
                    ELSE IF bytes < tiled_size(l) THEN [Unbound EXCEPT !.how = "short"]
                    ELSE [how |-> "upload", t |-> {t}, pic |-> detile(texels, l)]
        /\ UNCHANGED <<texels, target, readbacks>>

\* A T# whose base is not mapped: one white texel stands in for it.
white_dummy ==
    /\ bound = Unbound /\ bound' = [Unbound EXCEPT !.how = "white"] /\ UNCHANGED <<texels, target, readbacks>>

\* The draw is over.
next_draw == bound # Unbound /\ bound' = Unbound /\ UNCHANGED <<texels, target, readbacks>>

\* The interpreter's own address of a texel.
OracleOffset(t, x, y) ==
    LET kind == tile_kind(t.mode)
    IN  CASE kind = "Linear" -> y * t.width + x
          [] kind = "LinearAligned" -> linear_aligned_texel_offset(x, y, linear_aligned_pitch_or(t.width, t.pitch))
          [] OTHER -> thin1d_texel_offset(x, y, t.width)

Textures == [width : Extents, height : Extents, mode : TileModes, pitch : TexturePitches]

SurfaceInit == texels = [i \in 0..SurfaceTexels - 1 |-> <<"cpu", i>>] /\ target = {} /\ bound = Unbound /\ readbacks = 0

SurfaceNext ==
    \/ \E p \in PitchTileMax, s \in SliceTileMax, vw, vh \in Extents \cup {0}, m \in TileModes : derive_target(p, s, vw, vh, m)
    \/ readback \/ white_dummy \/ next_draw
    \/ \E o \in {"SlotOutOfRange", "NullPointer", "MemoryFault", "NullDescriptor"} : derive_texture(o) \/ derive_texture_inline(o)
    \/ \E t \in Textures : bind_render_target(t) \/ defer_macro_tiled(t) \/ emit_image_upload(t)

SurfaceSpec == SurfaceInit /\ [][SurfaceNext]_surfaceVars

(***************************************************************************)
(* Properties.                                                             *)
(***************************************************************************)
\* An uploaded texture holds, texel by texel, what the interpreter would read
\* from guest memory with the same descriptor, and a span that can be read is
\* never too short for its layout: four places compute the surface's shape on
\* their own (vbuf.rs:byte_span, exec.rs:texture_surface_layout,
\* tile.rs:detile, interp.rs:texel).
UploadIsWhatTheOracleReads ==
    /\ bound.how # "short"
    /\ bound.how = "upload" => \A t \in bound.t : \A p \in Grid(t.width, t.height) :
           bound.pic[p] = texels[OracleOffset(t, p[1], p[2])]

=============================================================================
