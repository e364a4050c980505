---------------------------- MODULE FileDelivery ----------------------------
(***************************************************************************)
(* What sending one file promises, without pipelines or routes: blocks are *)
(* stored one by one, the sender learns of a block only after it is        *)
(* stored, and the file is handed over once, with every block in it.  After*)
(* the receiving side aborted nothing more is promised about the file.     *)
(***************************************************************************)
CONSTANT Parts  \* the blocks of the file

VARIABLES
  stored,     \* blocks the receiver verified and wrote
  confirmed,  \* blocks the sender knows to be stored
  file,       \* "none", then "whole" or (after an abort only) "partial"
  aborted     \* the receiving side gave the file up

deliveryVars == <<stored, confirmed, file, aborted>>

Init ==
  /\ stored = {}
  /\ confirmed = {}
  /\ file = "none"
  /\ aborted = FALSE

Store(b) ==
  /\ file = "none"
  /\ stored' = stored \cup {b}
  /\ UNCHANGED <<confirmed, file, aborted>>

Confirm(b) ==
  /\ b \in stored
  /\ confirmed' = confirmed \cup {b}
  /\ UNCHANGED <<stored, file, aborted>>

Deliver ==
  /\ file = "none"
  /\ stored = Parts
  /\ file' = "whole"
  /\ UNCHANGED <<stored, confirmed, aborted>>

DeliverAfterAbort ==
  /\ aborted
  /\ file = "none"
  /\ file' \in {"whole", "partial"}
  /\ UNCHANGED <<stored, confirmed, aborted>>

Abort ==
  /\ file = "none"
  /\ aborted' = TRUE
  /\ UNCHANGED <<stored, confirmed, file>>

Next ==
  \/ \E b \in Parts : Store(b) \/ Confirm(b)
  \/ Deliver
  \/ DeliverAfterAbort
  \/ Abort

Spec == Init /\ [][Next]_deliveryVars
=============================================================================
