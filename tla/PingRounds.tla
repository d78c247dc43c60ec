----------------------------- MODULE PingRounds -----------------------------
(***************************************************************************)
(* How pings carry a neighbor table (mesh_radio.c): createSnapshot cuts it  *)
(* into messages, saveRemoteNeighborTable collects the messages of a sender *)
(* in a buffer and processData reads the buffer up to the first id 0. Bytes *)
(* are counted in (id, hops) pairs.                                         *)
(***************************************************************************)
EXTENDS Packages

CONSTANT PAIRS   \* MAX_DATA_LENGTH / 2

ASSUME PairsAssumption == PAIRS \in Nat \ {0}

\* The pair of zero bytes that ends a message (sendNextPing sends one byte
\* more than the message, the receiver reads one byte further).
Terminator == [id |-> NoAddr, hops |-> 0]

-----------------------------------------------------------------------------
\* Collecting the ping frames of a sender.

FreeSender ==
  [occupied |-> FALSE, address |-> NoAddr, number |-> 0, total |-> 0, data |-> <<>>]

ResetNumbers(s) == [s EXCEPT !.number = 0, !.total = 0]    \* slip: data stays
ResetSenderState(s) == [s EXCEPT !.number = 0, !.total = 0, !.data = <<>>]

Holding(ss, a) == {i \in Slots : ss[i].occupied /\ ss[i].address = a}
Vacant(ss) == {i \in Slots : ~ ss[i].occupied}

DropSenders(ss, gone) ==
  [i \in Slots |->
    IF \E a \in gone : Holding(ss, a) # {} /\ i = Min(Holding(ss, a))
    THEN [ResetSenderState(ss[i]) EXCEPT !.occupied = FALSE] ELSE ss[i]]

\* The slot of a sender, or the first vacant one for a new sender.
SenderSlots(ss, a) == IF Holding(ss, a) # {} THEN Holding(ss, a) ELSE Vacant(ss)

Claimed(ss, a, i) ==
  IF Holding(ss, a) # {} THEN ss[i]
  ELSE [ResetSenderState(ss[i]) EXCEPT !.occupied = TRUE, !.address = a]

\* Message number 0 stands for "nothing received yet".
Started(s, f) ==
  IF s.number = 0 THEN [s EXCEPT !.number = f.number, !.total = f.total] ELSE s

Expects(s, f) == s.number = f.number /\ s.total = f.total

Collected(s, f) ==
  LET all == s.data \o Append(f.entries, Terminator)
  IN  [s EXCEPT !.data = SubSeq(all, 1, Min({PAIRS, Len(all)}))]

Complete(s) == Len(s.data) >= PAIRS

\* processData stops at the first id 0.
ReportToTheEnd(data) == data    \* slip: the id 0 is not looked for
Report(data) ==
  LET ends == {k \in DOMAIN data : data[k] = Terminator}
  IN  IF ends = {} THEN data ELSE SubSeq(data, 1, Min(ends) - 1)

-----------------------------------------------------------------------------
\* The pings this node sends.

\* The loop over packages: the pairs of the trusted entries, in slot order.
Advertised(t) ==
  LET upTo[n \in 0 .. MAX_SENDERS] ==
        IF n = 0 THEN <<>>
        ELSE IF t[n - 1].inUse /\ t[n - 1].trusted
        THEN Append(upTo[n - 1], [id |-> t[n - 1].id, hops |-> t[n - 1].hops])
        ELSE upTo[n - 1]
  IN  upTo[MAX_SENDERS]

CreateSnapshotGrowing(t) ==    \* slip: the buffer is not emptied after a message
  LET all == Advertised(t)
  IN  [messages |->
         [m \in 1 .. (Len(all) + PAIRS - 1) \div PAIRS |->
            SubSeq(all, 1, Min({m * PAIRS, Len(all)}))],
       current |-> 0]

CreateSnapshotTail(t) ==    \* slip: what is left is stored even if it is nothing
  LET all == Advertised(t)
  IN  [messages |->
         [m \in 1 .. Len(all) \div PAIRS + 1 |->
            SubSeq(all, (m - 1) * PAIRS + 1, Min({m * PAIRS, Len(all)}))],
       current |-> 0]

CreateSnapshot(t) ==
  LET all == Advertised(t)
  IN  [messages |->
         [m \in 1 .. (Len(all) + PAIRS - 1) \div PAIRS |->
            SubSeq(all, (m - 1) * PAIRS + 1, Min({m * PAIRS, Len(all)}))],
       current |-> 0]
=============================================================================
