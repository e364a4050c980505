--------------------------- MODULE SessionRoutes ---------------------------
(***************************************************************************)
(* What passes between the two NetworkServices of a transfer session       *)
(* (services/network.ts): control messages about whole files, and the      *)
(* frames of the files under way. Acknowledgements of single blocks are    *)
(* the subject of BlockTransfer; here the last one, which lets the sender  *)
(* finish, stands for them.                                                *)
(***************************************************************************)
EXTENDS Naturals, FiniteSets, Sequences

CONSTANTS
  NumFiles,   \* the files, numbered as they are given to sendFiles
  BatchOf,    \* the call of sendFiles that each file is part of
  LossKinds,  \* the types of control messages that may be lost
  MaxLost,    \* bound on the messages lost
  Faults      \* what else may go wrong, or be done by a user

Files   == 1 .. NumFiles
Batches == {BatchOf[f] : f \in Files}
InBatch(b) == {f \in Files : BatchOf[f] = b}

ASSUME SessionAssumption ==
  /\ NumFiles \in Nat
  /\ BatchOf \in [Files -> Nat]
  /\ MaxLost \in Nat
  /\ Faults \subseteq {"read", "verify", "quota", "cancel", "expiry"}

VARIABLES
  ctl,     \* control messages in flight; a second copy of one adds nothing
  frames,  \* files of which a data frame is in flight
  lost     \* how many control messages were lost

routeVars == <<ctl, frames, lost>>

FileMsgs == {"request-transfer", "accept-transfer", "decline-transfer", "last-ack",
             "cancel-at-sender", "cancel-at-receiver"}
Msgs == [type : FileMsgs, file : Files] \cup [type : {"prepare-upload"}, batch : Batches]

Msg(type, f) == [type |-> type, file |-> f]
PrepareUpload(b) == [type |-> "prepare-upload", batch |-> b]

RoutesTypeOK ==
  /\ ctl \subseteq Msgs
  /\ frames \subseteq Files
  /\ lost \in 0 .. MaxLost

RoutesInit ==
  /\ ctl = {}
  /\ frames = {}
  /\ lost = 0

\* Neither the signaling server nor the control channel took the message
\* (send() drops what it is given while it is not connected).
LoseCtl(m) ==
  /\ m \in ctl
  /\ m.type \in LossKinds
  /\ lost < MaxLost
  /\ ctl' = ctl \ {m}
  /\ lost' = lost + 1
  /\ UNCHANGED frames
=============================================================================
