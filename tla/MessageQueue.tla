---------------------------- MODULE MessageQueue ----------------------------
(***************************************************************************)
(* What the receive buffer promises its reader: every call of               *)
(* readRadioMessage returns the oldest message not yet read, whole, or      *)
(* nothing when there is none.                                              *)
(***************************************************************************)
EXTENDS Sequences

CONSTANT Message    \* what senders send; the empty sequence is no message

VARIABLES
  queue,    \* messages received and not yet read
  received  \* what the last read returned

Init == queue = <<>> /\ received = <<>>

Put(m) == queue' = Append(queue, m) /\ UNCHANGED received

Get ==
  /\ queue # <<>>
  /\ received' = Head(queue)
  /\ queue' = Tail(queue)

GetNothing == queue = <<>> /\ received' = <<>> /\ UNCHANGED queue

Next == (\E m \in Message : Put(m)) \/ Get \/ GetNothing

Spec == Init /\ [][Next]_<<queue, received>>
=============================================================================
