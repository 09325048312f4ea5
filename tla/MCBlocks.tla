------------------------------ MODULE MCBlocks ------------------------------
(* Half hours, sessions of two hours, five entries in seven hours: room for *)
(* a gap, a cut without one and entries on every boundary.                  *)
EXTENDS Blocks
=============================================================================
