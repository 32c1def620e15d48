----------------------------- MODULE MCGpuCache -----------------------------
(***************************************************************************)
(* TLC's instance of the resource cache alone: a texture across the        *)
(* boundary of two pages, and an index buffer on the first of them.        *)
(***************************************************************************)
EXTENDS GpuCache

MCCells == 0..3
Key(lo, hi, layout) == [lo |-> lo, hi |-> hi, layout |-> layout]
MCKeys == {Key(0, 0, "IndexBuf"), Key(1, 2, "Texture")}
=============================================================================
