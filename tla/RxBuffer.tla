------------------------------ MODULE RxBuffer ------------------------------
(***************************************************************************)
(* The ring of received bytes of mesh_radio.c: saveReceivedData writes a    *)
(* payload and a '\r', readRadioMessage reads up to the next '\r' and       *)
(* decrypts.  One slot is always left empty.                                *)
(***************************************************************************)
EXTENDS Integers, SequencesExt

CONSTANTS
  RX_BUFFER_DEPTH,   \* slots of the ring
  MAX_DATA_LENGTH,   \* bytes one read returns at most
  Byte,
  CR,                \* the byte '\r' that ends a message
  Cipher(_, _),      \* a byte at a position of the payload, under the key
  Payloads           \* the payloads that arrive, as encrypted by the sender

ASSUME RingAssumption ==
  /\ RX_BUFFER_DEPTH \in Nat \ {0, 1}
  /\ MAX_DATA_LENGTH \in Nat \ {0}
  /\ CR \in Byte /\ 0 \in Byte

\* XOR with the key: encryption is its own inverse.
ASSUME CipherAssumption ==
  \A i \in 1 .. MAX_DATA_LENGTH, b \in Byte :
    Cipher(i, b) \in Byte /\ Cipher(i, Cipher(i, b)) = b

ASSUME PayloadAssumption ==
  \A d \in Payloads : d \in Seq(Byte) /\ Len(d) <= MAX_DATA_LENGTH

VARIABLES rxBuffer, rxWritePointer, rxReadPointer,
  received   \* the bytes the last readRadioMessage handed to its caller

ring == <<rxBuffer, rxWritePointer, rxReadPointer>>
rxVars == <<rxBuffer, rxWritePointer, rxReadPointer, received>>

RingSlots == 0 .. RX_BUFFER_DEPTH - 1
AfterLate(slot) ==    \* slip: > for >=
  IF slot + 1 > RX_BUFFER_DEPTH THEN 0 ELSE slot + 1
After(slot) == IF slot + 1 >= RX_BUFFER_DEPTH THEN 0 ELSE slot + 1

Encryption(data) == [i \in DOMAIN data |-> Cipher(i, data[i])]

CanReadRadio ==
  IF rxWritePointer >= rxReadPointer
  THEN rxWritePointer - rxReadPointer
  ELSE rxWritePointer - rxReadPointer + RX_BUFFER_DEPTH

Unread ==
  [k \in 1 .. CanReadRadio |->
     rxBuffer[(rxReadPointer + k - 1) % RX_BUFFER_DEPTH]]

RxInit ==
  /\ rxBuffer = [s \in RingSlots |-> 0]
  /\ rxWritePointer = 0 /\ rxReadPointer = 0
  /\ received = <<>>

\* One iteration of saveReceivedData: the byte is written even when the ring
\* is full, but then the write pointer stays.
PutByteAlways(q, b) ==    \* slip: unread bytes are not protected
  [buffer |-> [q.buffer EXCEPT ![q.write] = b], write |-> After(q.write)]

PutByte(q, b) ==
  [buffer |-> [q.buffer EXCEPT ![q.write] = b],
   write  |-> IF After(q.write) # rxReadPointer THEN After(q.write) ELSE q.write]

Saved(q, bytes) == FoldLeft(PutByte, q, bytes)

\* A message as it lies in the ring.
Unframed(data) == data    \* slip: the loop ends one byte early
Framed(data) == Append(data, CR)

SaveReceivedData(data) ==
  LET q == Saved([buffer |-> rxBuffer, write |-> rxWritePointer], Framed(data))
  IN  /\ rxBuffer' = q.buffer
      /\ rxWritePointer' = q.write
      /\ UNCHANGED <<rxReadPointer, received>>

\* How many bytes leave the ring: with the first '\r', or all within reach.
TakenBefore(ends, reach) ==    \* slip: the read pointer stops at the '\r'
  IF ends = {} THEN reach ELSE Min(ends) - 1
Taken(ends, reach) == IF ends = {} THEN reach ELSE Min(ends)

\* The read stops after a '\r', when the ring is empty, or at MAX_DATA_LENGTH
\* bytes, whichever comes first; a '\r' is consumed and not returned.
ReadRadioMessage ==
  LET reach == Min({CanReadRadio, MAX_DATA_LENGTH})
      ends  == {k \in 1 .. reach : Unread[k] = CR}
      size  == IF ends = {} THEN reach ELSE Min(ends) - 1
  IN  /\ received' = Encryption(SubSeq(Unread, 1, size))
      /\ rxReadPointer' = (rxReadPointer + Taken(ends, reach)) % RX_BUFFER_DEPTH
      /\ UNCHANGED <<rxBuffer, rxWritePointer>>

RxNext == (\E d \in Payloads : SaveReceivedData(d)) \/ ReadRadioMessage

RxSpec == RxInit /\ [][RxNext]_rxVars

-----------------------------------------------------------------------------
RxTypeOK ==
  /\ rxBuffer \in [RingSlots -> Byte]
  /\ rxWritePointer \in RingSlots /\ rxReadPointer \in RingSlots
  /\ received \in Seq(Byte) /\ Len(received) <= MAX_DATA_LENGTH

\* Unread bytes are never overwritten, also when the ring overflows: saving
\* only appends to them and reading only removes from their front
\* (saveReceivedData keeps the write pointer off the read pointer).
UnreadKept ==
  [][/\ rxReadPointer' = rxReadPointer => IsPrefix(Unread, Unread')
     /\ rxWritePointer' = rxWritePointer => IsSuffix(Unread', Unread)]_ring
=============================================================================
