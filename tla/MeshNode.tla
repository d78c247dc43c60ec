------------------------------ MODULE MeshNode ------------------------------
(***************************************************************************)
(* One node of the mesh (mesh_radio.c): the neighbor table, the buffers in  *)
(* which saveRemoteNeighborTable collects ping frames, the snapshot that    *)
(* the timer sends out one message at a time, and the receive buffer.       *)
(* Every handler runs to its end. Bytes are counted in (id, hops) pairs.    *)
(***************************************************************************)
EXTENDS PingRounds, RxBuffer

CONSTANTS
  Self,    \* `address`: the address of this node
  InRange, \* the nodes whose frames reach this one
  Pings,   \* ping frames that arrive
  Datas    \* data frames that arrive

\* A sender fills every message but the last of a round (createSnapshot); with
\* nothing to report it sends one empty message. It has no entry for itself.
PingRules(f, sender) ==
  /\ f.entries \in Seq(Entry) /\ Len(f.entries) <= PAIRS
  /\ f.total \in 1 .. 15 /\ f.number \in 0 .. f.total - 1
  /\ f.number < f.total - 1 => Len(f.entries) = PAIRS
  /\ f.entries = <<>> => f.total = 1
  /\ \A k \in DOMAIN f.entries : f.entries[k].id # sender

\* Self is not among the senders: a radio does not hear itself.
ASSUME FrameAssumption ==
  /\ Self \in Addr /\ InRange \subseteq Peers(Self)
  /\ \A f \in Pings : f.from \in InRange /\ PingRules(f, f.from)
  /\ \A f \in Datas :
       f.from \in InRange /\ f.via \in Addr /\ f.target \in Addr /\ f.payload \in Payloads

VARIABLES
  packages,  \* the neighbor table
  senders,   \* senders, slotOccupied and addressMapping
  snapshot,  \* the messages of the round of pings being sent
  tx         \* the last frame given to nrfWrite

nodeVars == <<packages, senders, snapshot, tx>>
vars == <<packages, senders, snapshot, tx, rxBuffer, rxWritePointer,
          rxReadPointer, received>>

Ping == [kind : {"ping"}, number : Nat, total : Nat, entries : Seq(Entry), end : BOOLEAN]
Data == [kind : {"data"}, via : Addr, target : Addr, payload : Seq(Byte)]

-----------------------------------------------------------------------------
\* sendNextPing after a change of the table to t.
SendNextPing(t) ==
  LET s == IF snapshot.current >= Len(snapshot.messages)
           THEN CreateSnapshot(t) ELSE snapshot
      total == Len(s.messages)
  IN  IF total > 0
      THEN /\ tx' = [kind |-> "ping", number |-> s.current, total |-> total,
                     entries |-> s.messages[s.current + 1],
                     end |-> s.current + 1 = total]
           /\ snapshot' = [s EXCEPT !.current = @ + 1]
      ELSE /\ tx' = [kind |-> "ping", number |-> 0, total |-> 1,
                     entries |-> <<>>, end |-> TRUE]
           /\ snapshot' = s

\* sendRadioData: without a route nothing is sent.
SendRadioData(t, target, payload) ==
  IF NextHop(t, target) = NoAddr THEN UNCHANGED tx
  ELSE tx' = [kind |-> "data", via |-> NextHop(t, target), target |-> target,
              payload |-> payload]

-----------------------------------------------------------------------------
Init ==
  /\ packages = EmptyTable
  /\ senders = [i \in Slots |-> FreeSender]
  /\ snapshot = [messages |-> <<>>, current |-> 0]
  /\ tx = [kind |-> "none"]
  /\ RxInit

\* doRead of a frame whose sender is not trusted, or of an unknown command.
RxOther(a) ==
  /\ packages' = UpdateWeight(packages, a)
  /\ UNCHANGED <<senders, snapshot, tx, rxVars>>

RxPing(f) ==
  LET t == UpdateWeight(packages, f.from)
      i == Min(SenderSlots(senders, f.from))
      s == Started(Claimed(senders, f.from, i), f)
      c == Collected(s, f)
  IN  /\ CheckTrusted(t, f.from)
      /\ \/ /\ SenderSlots(senders, f.from) = {}
            /\ packages' = t
            /\ UNCHANGED senders
         \/ /\ SenderSlots(senders, f.from) # {} /\ ~ Expects(s, f)
            /\ packages' = t
            /\ senders' = [senders EXCEPT ![i] = s]
         \/ /\ SenderSlots(senders, f.from) # {} /\ Expects(s, f) /\ ~ Complete(c)
            /\ packages' = t
            /\ senders' = [senders EXCEPT ![i] = c]
         \/ /\ SenderSlots(senders, f.from) # {} /\ Expects(s, f) /\ Complete(c)
            /\ packages' = ProcessData(Self, t, Report(c.data), f.from)
            /\ senders' = [senders EXCEPT ![i] = ResetSenderState(c)]
      /\ UNCHANGED <<snapshot, tx, rxVars>>

\* A data frame is forwarded as it is, kept, or not for this node at all.
RxData(f) ==
  LET t == UpdateWeight(packages, f.from)
  IN  /\ CheckTrusted(t, f.from)
      /\ packages' = t
      /\ \/ f.via # Self /\ UNCHANGED <<tx, rxVars>>
         \/ f.via = Self /\ f.target # Self
            /\ SendRadioData(t, f.target, f.payload) /\ UNCHANGED rxVars
         \/ f.via = Self /\ f.target = Self
            /\ SaveReceivedData(f.payload) /\ UNCHANGED tx
      /\ UNCHANGED <<senders, snapshot>>

\* terminal.c sends to an address it got from getOwnIds, maybe some time ago.
SendData(a, payload) ==
  /\ SendRadioData(packages, a, Encryption(payload))
  /\ UNCHANGED <<packages, senders, snapshot, rxVars>>

ReadMessage == ReadRadioMessage /\ UNCHANGED nodeVars

\* timer_handler: lower the weights, drop the senders that expired, ping.
TimerHandler ==
  /\ packages' = LowerWeights(packages)
  /\ senders' = DropSenders(senders, {packages[i].id : i \in Expired(packages)})
  /\ SendNextPing(packages')
  /\ UNCHANGED rxVars

Next ==
  \/ \E a \in InRange : RxOther(a)
  \/ \E f \in Pings : RxPing(f)
  \/ \E f \in Datas : RxData(f)
  \/ \E a \in Peers(Self), d \in Payloads : SendData(a, d)
  \/ ReadMessage
  \/ TimerHandler

Spec == Init /\ [][Next]_vars

-----------------------------------------------------------------------------
TypeOK ==
  /\ packages \in Table
  /\ \A i \in Slots :
       /\ senders[i].occupied \in BOOLEAN
       /\ senders[i].address \in InRange \cup {NoAddr}
       /\ senders[i].number \in 0 .. 14 /\ senders[i].total \in 0 .. 15
       /\ senders[i].data \in Seq(Entry \cup {Terminator})
  /\ snapshot.current \in 0 .. Len(snapshot.messages)
  /\ tx \in {[kind |-> "none"]} \cup Ping \cup Data
  /\ Len(snapshot.messages) <= (MAX_SENDERS + PAIRS - 1) \div PAIRS
  /\ RxTypeOK

\* A sender has one buffer, and what waits in it ends within one message: the
\* report handed to processData is always a single message of the sender, never
\* the end of one round joined to the start of another.
BuffersApart ==
  \A i \in Slots : senders[i].occupied =>
    /\ Holding(senders, senders[i].address) = {i}
    /\ senders[i].data # <<>> =>
         /\ Len(senders[i].data) < PAIRS
         /\ \E f \in Pings : /\ f.from = senders[i].address
                            /\ Report(senders[i].data) = f.entries

\* A round of pings lists an address once, and never this node: another node
\* can take every entry of it for a route (updateWeight and processData keep
\* one slot for an address, createSnapshot walks the slots once).
RoundListsOnce ==
  LET m == snapshot.messages
  IN  \A c, d \in DOMAIN m : \A j \in DOMAIN m[c], k \in DOMAIN m[d] :
        /\ m[c][j].id \in Peers(Self) /\ m[c][j].hops >= 1
        /\ m[c][j].id = m[d][k].id => c = d /\ j = k

\* The pings this node sends keep to the rules it relies on in those of others:
\* a round is cut into full messages and a last one that is not empty, numbered
\* from 0 (createSnapshot, sendNextPing).
PingsKeepRules == tx.kind = "ping" => PingRules(tx, Self)

\* Data leaves this node only towards a direct neighbor that is in the table
\* at that moment (RxData and SendData through sendRadioData).
DataToNeighbors ==
  [][tx' # tx /\ tx'.kind = "data" =>
       \E i \in Direct(packages') : packages'[i].id = tx'.via]_vars

\* Ping by ping, the table changes as NeighborTable says.
Neighbors == INSTANCE NeighborTable WITH Reports <- {f.entries : f \in Pings}
TableImplemented == Neighbors!Spec
=============================================================================
