---------------------------- MODULE MCHleArena ----------------------------
(* TLC's instances of HleArena. *)
EXTENDS HleArena, TLC

=============================================================================
