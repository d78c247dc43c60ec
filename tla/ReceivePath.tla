---------------------------- MODULE ReceivePath ----------------------------
(***************************************************************************)
(* The receive buffer as terminal.c uses it: each round of the main loop    *)
(* calls doRead, which saves at most one payload, and then readRadioMessage *)
(* once, whether or not there is anything to read.                          *)
(***************************************************************************)
EXTENDS RxBuffer

VARIABLE reading   \* TRUE between doRead and readRadioMessage

pathVars == <<rxBuffer, rxWritePointer, rxReadPointer, received, reading>>

PathInit == RxInit /\ reading = FALSE

\* doRead returned without a payload for this node, or saved one.
LoopDoRead ==
  /\ ~ reading /\ reading' = TRUE
  /\ (\E d \in Payloads : SaveReceivedData(d)) \/ UNCHANGED rxVars

LoopReads == reading /\ reading' = FALSE /\ ReadRadioMessage

PathNext == LoopDoRead \/ LoopReads

PathSpec == PathInit /\ [][PathNext]_pathVars

-----------------------------------------------------------------------------
\* The unread bytes cut after every '\r', each piece as its reader will see it.
PieceEnds == {k \in DOMAIN Unread : Unread[k] = CR}

Piece(k) ==
  LET first == Max({j + 1 : j \in {i \in PieceEnds : i < k}} \cup {1})
  IN  Encryption(SubSeq(Unread, first, k - 1))

Pending == [n \in 1 .. Cardinality(PieceEnds) |->
              Piece(CHOOSE k \in PieceEnds :
                      Cardinality({i \in PieceEnds : i <= k}) = n)]

Queue == INSTANCE MessageQueue
           WITH queue <- Pending, Message <- {Encryption(d) : d \in Payloads}

\* What the payloads have to be for that: no encrypted byte is a '\r', and the
\* '\r' that is put behind them fits into one read, and that into the ring.
PlainPayloads ==
  /\ MAX_DATA_LENGTH < RX_BUFFER_DEPTH
  /\ \A d \in Payloads : Len(d) < MAX_DATA_LENGTH /\ \A k \in DOMAIN d : d[k] # CR

\* The loop gets every payload whole, in the order of arrival, decrypted to
\* what its sender encrypted, as long as the payloads are plain
\* (saveReceivedData and readRadioMessage together).
DeliversMessages == Queue!Spec

\* mesh_radio.h:68 "read the first received message in buffer, returns the
\* number of bytes in the message": a read returns a message a sender sent.
ReadsWholeMessage ==
  received # <<>> => received \in {Encryption(d) : d \in Payloads}

\* The loop keeps up: after a read nothing is left, so the ring, which drops
\* the end of what does not fit, is never near its depth.
KeepsUp == ~ reading => Unread = <<>>
=============================================================================
