------------------------- MODULE MCTransferSession -------------------------
(***************************************************************************)
(* Values of TransferSession's constants for TLC.                          *)
(***************************************************************************)
EXTENDS TransferSession

\* The files of one call of sendFiles, or of a call each.
OneBatch  == [f \in 1 .. NumFiles |-> 1]
CallsEach == [f \in 1 .. NumFiles |-> f]

\* Messages that may be lost.
NoKinds == {}
Asking  == {"request-transfer", "prepare-upload"}

\* What may go wrong: at either device by itself, by its users, or without
\* disturbing a file that is being sent.
LocalFaults == {"read", "verify", "quota", "expiry"}
UserFaults  == {"cancel"}
MildFaults  == {"quota", "expiry"}
=============================================================================
