----------------------------- MODULE MeshNetwork -----------------------------
(***************************************************************************)
(* Nodes that run mesh_radio.c and hear each other: a tick of timer_handler *)
(* at one node is a ping that any of its neighbors may miss, and a data     *)
(* frame goes from node to node without a hop limit. Nodes fail and start  *)
(* again with empty tables. A table that does not fit into one ping is sent *)
(* as a round of several, one at a tick, while it changes.                  *)
(***************************************************************************)
EXTENDS PingRounds

CONSTANTS
  Links,             \* who hears whom
  Talks,             \* who sends data to whom
  First, After(_),   \* the order in which the timers fire
  MAX_MISHAPS        \* bound: receptions missed, failures and restarts

ASSUME NetworkAssumption ==
  /\ \A l \in Links : \E m, n \in Addr : m # n /\ l = {m, n}
  /\ Talks \subseteq Addr \X Addr
  /\ First \in Addr /\ \A n \in Addr : After(n) \in Addr
  /\ MAX_MISHAPS \in Nat

VARIABLES
  alive,
  table,    \* packages of every node
  buffers,  \* the sender states of every node
  rounds,   \* what every node has still to send of its snapshot
  turn,     \* the node whose timer fires next
  frame,    \* the data frame in the air
  mishaps   \* how much has gone wrong so far

vars == <<alive, table, buffers, rounds, turn, frame, mishaps>>

NoFrame == [from |-> NoAddr, via |-> NoAddr, target |-> NoAddr]

Near(n) == {m \in alive : {m, n} \in Links}

Mishaps(k) == mishaps' = mishaps + k /\ mishaps' <= MAX_MISHAPS

\* A frame of n reaches some of its neighbors.
Reaches(n, heard) == Mishaps(Cardinality(Near(n) \ heard))

\* What radioInit of a node leaves of the sender states.
FreeBuffers == [i \in Slots |-> FreeSender]

\* The snapshot: how many messages it has, and those that are still to be sent.
NoRound == [total |-> 0, unsent |-> <<>>]

\* sendNextPing of node n with table t: a new snapshot when the last is sent.
NextRound(n, t) ==
  LET m == CreateSnapshot(t).messages
  IN  IF rounds[n].unsent = <<>> THEN [total |-> Len(m), unsent |-> m] ELSE rounds[n]

\* The number and the total of a message have four bits each in the frame.
Ping(n, r) ==
  IF r.unsent = <<>> THEN [from |-> n, number |-> 0, total |-> 1, entries |-> <<>>]
  ELSE [from |-> n, number |-> (r.total - Len(r.unsent)) % 16, total |-> r.total % 16,
        entries |-> Head(r.unsent)]

Sent(r) == IF r.unsent = <<>> THEN r ELSE [r EXCEPT !.unsent = Tail(@)]

-----------------------------------------------------------------------------
Init ==
  /\ alive = Addr
  /\ table = [n \in Addr |-> EmptyTable]
  /\ buffers = [n \in Addr |-> FreeBuffers]
  /\ rounds = [n \in Addr |-> NoRound]
  /\ turn = First
  /\ frame = NoFrame
  /\ mishaps = 0

\* doRead of a ping at node m, as in MeshNode: the table and the buffers after.
RxPing(m, f) ==
  LET t == UpdateWeight(table[m], f.from)
      i == Min(SenderSlots(buffers[m], f.from))
      s == Started(Claimed(buffers[m], f.from, i), f)
      c == Collected(s, f)
      kept(b) == [buffers[m] EXCEPT ![i] = b]
  IN  CASE ~ CheckTrusted(t, f.from) \/ SenderSlots(buffers[m], f.from) = {} ->
             [table |-> t, buffers |-> buffers[m]]
        [] OTHER ->
             IF ~ Expects(s, f) THEN [table |-> t, buffers |-> kept(s)]
             ELSE IF ~ Complete(c) THEN [table |-> t, buffers |-> kept(c)]
             ELSE [table |-> ProcessData(m, t, Report(c.data), f.from),
                   buffers |-> kept(ResetSenderState(c))]

\* timer_handler of node n, and doRead at the nodes that get the ping.
Tick(n, heard) ==
  LET t == LowerWeights(table[n])
      gone == {table[n][i].id : i \in Expired(table[n])}
      r == NextRound(n, t)
      f == Ping(n, r)
      after == [m \in heard |-> RxPing(m, f)]
  IN  /\ n = turn /\ n \in alive /\ Reaches(n, heard)
      /\ table' = [m \in Addr |->
                     IF m = n THEN t
                     ELSE IF m \in heard THEN after[m].table ELSE table[m]]
      /\ buffers' = [m \in Addr |->
                     IF m = n THEN DropSenders(buffers[n], gone)
                     ELSE IF m \in heard THEN after[m].buffers ELSE buffers[m]]
      /\ rounds' = [rounds EXCEPT ![n] = Sent(r)]
      /\ turn' = After(n)
      /\ UNCHANGED <<alive, frame>>

\* The time at which the timer of a node that is down would fire.
NoTick(n) ==
  /\ n = turn /\ n \notin alive /\ turn' = After(n)
  /\ UNCHANGED <<alive, table, buffers, rounds, frame, mishaps>>

Frame(n, t, a) ==
  IF NextHop(t, a) = NoAddr THEN NoFrame
  ELSE [from |-> n, via |-> NextHop(t, a), target |-> a]

\* sendRadioData on behalf of the program of node n.
SendData(n, a) ==
  /\ <<n, a>> \in Talks /\ n \in alive /\ frame = NoFrame
  /\ frame' = Frame(n, table[n], a) /\ frame' # NoFrame
  /\ UNCHANGED <<alive, table, buffers, rounds, turn, mishaps>>

\* doRead of the data frame at the nodes that get it: the next hop forwards it
\* when it trusts the sender and is not the target.
Deliver(heard) ==
  LET t(m) == UpdateWeight(table[m], frame.from)
      v == frame.via
  IN  /\ frame # NoFrame /\ Reaches(frame.from, heard)
      /\ table' = [m \in Addr |-> IF m \in heard THEN t(m) ELSE table[m]]
      /\ frame' = IF /\ v \in heard /\ v # frame.target
                     /\ CheckTrusted(t(v), frame.from)
                  THEN Frame(v, t(v), frame.target) ELSE NoFrame
      /\ UNCHANGED <<alive, buffers, rounds, turn>>

Fail(n) ==
  /\ n \in alive /\ alive' = alive \ {n} /\ Mishaps(1)
  /\ table' = [table EXCEPT ![n] = EmptyTable]
  /\ buffers' = [buffers EXCEPT ![n] = FreeBuffers]
  /\ rounds' = [rounds EXCEPT ![n] = NoRound]
  /\ UNCHANGED turn
  /\ frame' = IF frame.from = n THEN NoFrame ELSE frame

Restart(n) ==
  /\ n \notin alive /\ alive' = alive \cup {n} /\ Mishaps(1)
  /\ UNCHANGED <<table, buffers, rounds, turn, frame>>

Next ==
  \/ \E n \in Addr : \E heard \in SUBSET Near(n) : Tick(n, heard)
  \/ \E n, a \in Addr : SendData(n, a)
  \/ \E heard \in SUBSET Near(frame.from) : Deliver(heard)
  \/ \E n \in Addr : NoTick(n) \/ Fail(n) \/ Restart(n)

Spec == Init /\ [][Next]_vars

\* The timers are periodic (setitimer) and of the same period, so they keep
\* firing in turn; a frame in the air arrives or is lost.
FairSpec ==
  /\ Spec
  /\ WF_turn(turn' = After(turn))
  /\ WF_frame(\E heard \in SUBSET Near(frame.from) : Deliver(heard))

-----------------------------------------------------------------------------
TypeOK ==
  /\ alive \subseteq Addr /\ turn \in Addr
  /\ \A n \in Addr : table[n] \in Table /\ Named(n, table[n])
  /\ frame = NoFrame \/ frame \in [from : alive, via : Addr, target : Addr]

\* h links, one after the other, lead from m to n.
Walk(m, n, h) ==
  \E p \in [0 .. h -> Addr] :
    p[0] = m /\ p[h] = n /\ \A k \in 1 .. h : {p[k - 1], p[k]} \in Links

\* What entry p of node n says of the way to p.id.
Leads(n, p) ==
  IF p.owner = NoAddr THEN p.hops = 1 /\ {n, p.id} \in Links
  ELSE {n, p.owner} \in Links /\ Walk(p.owner, p.id, p.hops - 1)

\* However old the reports a node learned from and whatever was lost in between,
\* an entry names a next hop that hears the node, and as many links as its hop
\* count says lead through it to the target (updateWeight, processData, the
\* buffers of saveRemoteNeighborTable); a data frame only goes over a link.
RoutesFollowLinks ==
  /\ \A n \in Addr, i \in Slots : table[n][i].inUse => Leads(n, table[n][i])
  /\ frame # NoFrame => {frame.from, frame.via} \in Links

Knows(n, a) == Matching(table[n], a) # {}

\* A buffer of n waits for a later message of a round: it ignores all others.
Waiting(n) == \E i \in Slots : buffers[n][i].occupied /\ buffers[n][i].number # 0

\* a fails and never starts again; in the end no node that is up has an entry
\* for it.
StaysAway(a) == <>[](a \notin alive)
Forgotten(a) == <>[](\A n \in alive : ~ Knows(n, a))

\* "Maximium amount of hops before sensor gets dropped (to prevent ghost nodes)"
\* (mesh_radio.h:33): a node that stays away is dropped from every table,
\* whatever the nodes still report to each other of it.
GhostsDropped == \A a \in Addr : StaysAway(a) => Forgotten(a)

\* It is, when no buffer of a node that collects the rounds of its neighbors
\* stays in the middle of a round for good: the others count the hops of the
\* ghost up to MAX_HOPS at worst, however old the messages they collected, and
\* whatever else is lost (processData, createSnapshot, timer_handler,
\* saveRemoteNeighborTable).
GhostsDieOut ==
  (\A n \in Addr : []<>(~ Waiting(n))) =>
    \A a \in Addr : StaysAway(a) => Forgotten(a)

\* Once all nodes stay up and hear each other again, a node keeps an entry for
\* every neighbor, and time and again it is a direct one, whatever the mishaps
\* left in its table and whatever detours others report for that neighbor
\* (updateWeight, processData, timer_handler).
NeighborsReturn ==
  <>[](alive = Addr) =>
    \A n, m \in Addr : {m, n} \in Links =>
      /\ <>[]Knows(n, m)
      /\ []<>(\E i \in Direct(table[n]) : table[n][i].id = m)

=============================================================================
