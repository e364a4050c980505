--------------------------- MODULE MCBlockWriter ---------------------------
(***************************************************************************)
(* Values of BlockWriter's constant for TLC.                               *)
(***************************************************************************)
EXTENDS BlockWriter

CONSTANTS b1, b2, b3

MCBlocks == {b1, b2, b3}
=============================================================================
