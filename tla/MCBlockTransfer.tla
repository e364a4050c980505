--------------------------- MODULE MCBlockTransfer ---------------------------
(***************************************************************************)
(* BlockTransfer on small files, for TLC.                                  *)
(***************************************************************************)
EXTENDS BlockTransfer

\* What the 32-bit routing hash can let through: nothing, other bytes of the
\* right length or a shorter frame, or these and a longer frame.
NoDamage    == {}
NotLonger   == {"bad", "short"}
AnyDamage   == {"bad", "short", "long"}

\* Which blocks a worker verifies.
FirstBlock  == {0}
AllByWorker == Blocks
=============================================================================
