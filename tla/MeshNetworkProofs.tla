------------------------- MODULE MeshNetworkProofs -------------------------
(***************************************************************************)
(* Nodes that exchange pings, for any set of nodes and links and any order  *)
(* of the timers: every table stays sound, and what it says of the way to a *)
(* node is a way over the links, although it was learned from old reports   *)
(* of nodes that may have failed since. The links do not change, so a way   *)
(* that was once reported remains one: that is what the inductive invariant *)
(* says of the tables, of the pairs that still wait in the buffers, and of  *)
(* those that a node has still to send of its last snapshot.                *)
(***************************************************************************)
EXTENDS MeshNetwork, PackagesProofs

\* What was collected of a node: ways from it to others.
Told(a, d) ==
  \A k \in DOMAIN d : d[k] # Terminator => d[k].id # a /\ Walk(a, d[k].id, d[k].hops)

Routed(n, t) == \A i \in Slots : t[i].inUse => Leads(n, t[i])

\* The number and the total of a message have four bits each.
SenderState ==
  [occupied : BOOLEAN, address : Addr \cup {NoAddr}, number : 0 .. 15,
   total : 0 .. 15, data : Seq(Pair)]

BufferOK(s) == s \in SenderState /\ (s.occupied => Told(s.address, s.data))

BuffersOK(ss) == ss \in [Slots -> SenderState] /\ \A i \in Slots : BufferOK(ss[i])

\* What a node has still to send of the ways it knew at its last snapshot.
Round == [total : Nat, unsent : Seq(Seq(Entry))]

RoundOK(n, r) == r \in Round /\ \A k \in DOMAIN r.unsent : Told(n, r.unsent[k])

TableOK(n, t) == Sound(n, t) /\ Hopped(t) /\ Routed(n, t)

FrameOK(f, up) ==
  f # NoFrame => f \in [from : up, via : Addr, target : Addr] /\ {f.from, f.via} \in Links

NetworkInv ==
  /\ alive \subseteq Addr /\ turn \in Addr
  /\ table \in [Addr -> Table] /\ \A n \in Addr : TableOK(n, table[n])
  /\ buffers \in [Addr -> [Slots -> SenderState]] /\ \A n \in Addr : BuffersOK(buffers[n])
  /\ rounds = [n \in Addr |-> rounds[n]] /\ \A n \in Addr : RoundOK(n, rounds[n])
  /\ FrameOK(frame, alive)

-----------------------------------------------------------------------------
\* Ways over the links.

LEMMA LinkJoins ==
  ASSUME NEW m, NEW n, {m, n} \in Links
  PROVE  m \in Addr /\ n \in Addr /\ m # n /\ {n, m} \in Links
<1>1. PICK x \in Addr, y \in Addr : x # y /\ {m, n} = {x, y}
  BY NetworkAssumption
<1>2. m \in {x, y} /\ n \in {x, y} /\ m # n
  BY <1>1
<1>3. {n, m} = {m, n}
  OBVIOUS
<1> QED BY <1>1, <1>2, <1>3

LEMMA WalkOne ==
  ASSUME NEW m, NEW n, {m, n} \in Links
  PROVE  Walk(m, n, 1)
<1> DEFINE p == [k \in 0 .. 1 |-> IF k = 0 THEN m ELSE n]
<1>1. p \in [0 .. 1 -> Addr] /\ p[0] = m /\ p[1] = n
  BY LinkJoins
<1>2. \A k \in 1 .. 1 : {p[k - 1], p[k]} \in Links
  BY <1>1
<1> QED BY <1>1, <1>2 DEF Walk

LEMMA WalkLonger ==
  ASSUME NEW m, NEW o, NEW n, NEW h \in Nat, {m, o} \in Links, Walk(o, n, h)
  PROVE  Walk(m, n, h + 1)
<1>1. PICK p \in [0 .. h -> Addr] :
        p[0] = o /\ p[h] = n /\ \A k \in 1 .. h : {p[k - 1], p[k]} \in Links
  BY DEF Walk
<1> DEFINE q == [k \in 0 .. h + 1 |-> IF k = 0 THEN m ELSE p[k - 1]]
<1>2. \A k \in 1 .. h + 1 : k \in 0 .. h + 1 /\ q[k] = p[k - 1] /\ k - 1 \in 0 .. h
  OBVIOUS
<1>3. q[0] = m
  BY 0 \in 0 .. h + 1
<1>4. q \in [0 .. h + 1 -> Addr]
  <2>1. ASSUME NEW k \in 0 .. h + 1  PROVE (IF k = 0 THEN m ELSE p[k - 1]) \in Addr
    <3>1. CASE k = 0
      BY <3>1, LinkJoins
    <3>2. CASE k # 0
      <4>1. k - 1 \in 0 .. h
        BY <3>2
      <4> QED BY <3>2, <4>1
    <3> QED BY <3>1, <3>2
  <2> QED BY <2>1
<1> HIDE DEF q
<1>5. ASSUME NEW k \in 1 .. h + 1  PROVE {q[k - 1], q[k]} \in Links
  <2>1. CASE k = 1
    <3>1. k - 1 = 0 /\ q[k] = p[0]
      BY <1>2, <2>1
    <3> QED BY <1>1, <1>3, <3>1
  <2>2. CASE k # 1
    <3>1. k - 1 \in 1 .. h /\ k - 1 \in 1 .. h + 1
      BY <2>2
    <3>2. q[k] = p[k - 1] /\ q[k - 1] = p[(k - 1) - 1]
      BY <1>2, <3>1
    <3> QED BY <1>1, <3>1, <3>2
  <2> QED BY <2>1, <2>2
<1>6. q[h + 1] = n
  BY <1>1, <1>2
<1> QED BY <1>3, <1>4, <1>5, <1>6 DEF Walk

\* The way an entry stands for.
LEMMA LeadsWalk ==
  ASSUME NEW n, NEW p \in Package, p.hops >= 1, Leads(n, p)
  PROVE  Walk(n, p.id, p.hops)
<1>1. CASE p.owner = NoAddr
  BY <1>1, WalkOne DEF Leads
<1>2. CASE p.owner # NoAddr
  <2>1. p.hops \in Nat
    BY DEF Package
  <2>2. p.hops - 1 \in Nat /\ (p.hops - 1) + 1 = p.hops
    BY <2>1
  <2>3. {n, p.owner} \in Links /\ Walk(p.owner, p.id, p.hops - 1)
    BY <1>2 DEF Leads
  <2>4. Walk(n, p.id, (p.hops - 1) + 1)
    BY <2>2, <2>3, WalkLonger
  <2> QED BY <2>2, <2>4
<1> QED BY <1>1, <1>2

-----------------------------------------------------------------------------
\* The operators of the table keep its ways.

LEMMA EmptyRouted == \A n : Routed(n, EmptyTable)
BY DEF Routed, EmptyTable

LEMMA HeardRouted ==
  ASSUME NEW n, NEW t \in Table, Routed(n, t), NEW a \in Addr, {n, a} \in Links
  PROVE  Routed(n, UpdateWeight(t, a))
<1> DEFINE u == UpdateWeight(t, a)
<1>1. ASSUME NEW m \in Slots, u[m].owner = NoAddr, u[m].hops = 1, u[m].id = a,
             \A i \in Slots : i # m => u[i] = t[i]
      PROVE  Routed(n, u)
  <2> HIDE DEF u
  <2> QED BY <1>1 DEF Routed, Leads
<1>2. ASSUME NEW m \in Slots, t[m].inUse, t[m].id = a, u = [t EXCEPT ![m] = Heard(@)]
      PROVE  Routed(n, u)
  <2>1. u[m] = Heard(t[m]) /\ t[m] \in Package /\ \A i \in Slots : i # m => u[i] = t[i]
    BY <1>2 DEF Table
  <2> HIDE DEF u
  <2> QED BY <1>1, <1>2, <2>1, HeardPackage
<1>3. ASSUME NEW m \in Slots, u = [t EXCEPT ![m] = Newcomer(@, a)]
      PROVE  Routed(n, u)
  <2>1. u[m] = Newcomer(t[m], a) /\ t[m] \in Package
        /\ \A i \in Slots : i # m => u[i] = t[i]
    BY <1>3 DEF Table
  <2> HIDE DEF u
  <2> QED BY <1>1, <2>1, NewcomerPackage
<1>4. CASE u = t
  BY <1>4
<1> QED BY <1>2, <1>3, <1>4, UpdateWeightCases

LEMMA ReportRouted ==
  ASSUME NEW n, NEW t \in Table, Routed(n, t), NEW o \in Addr, {n, o} \in Links,
         NEW r \in Seq(Entry), \A k \in DOMAIN r : Walk(o, r[k].id, r[k].hops)
  PROVE  Routed(n, ProcessData(n, t, r, o))
<1> DEFINE d == Disown(t, o)
           w == ProcessData(n, t, r, o)
<1>1. d \in Table /\ Routed(n, d)
  <2>1. ASSUME NEW i \in Slots, Leads(n, t[i])  PROVE Leads(n, d[i])
    <3>1. d[i].owner = t[i].owner /\ d[i].hops = t[i].hops /\ d[i].id = t[i].id
      BY DisownSlots
    <3> QED BY <2>1, <3>1, Zenon DEF Leads
  <2> QED BY <2>1, DisownSlots DEF Routed
<1>2. Parsed(w, n, d, r, o)
  BY ProcessDataCases
<1>3. o # NoAddr
  BY AddressAssumption
<1> HIDE DEF d, w
<1>4. ASSUME NEW e \in Entry, Walk(o, e.id, e.hops), OneSlotLearned(d, e, o, w)
      PROVE  Routed(n, w)
  <2>1. ASSUME NEW m \in Slots, w[m].owner = o, w[m].hops = e.hops + 1, w[m].id = e.id,
               \A i \in Slots : i # m => w[i] = d[i]
        PROVE  Routed(n, w)
    <3>1. w[m].hops - 1 = e.hops
      BY <2>1 DEF Entry
    <3>2. Leads(n, w[m])
      BY <1>3, <1>4, <2>1, <3>1 DEF Leads
    <3> QED BY <1>1, <2>1, <3>2 DEF Routed
  <2>2. ASSUME NEW m \in Slots, d[m].id = e.id, w = [d EXCEPT ![m] = Redirected(@, e, o)]
        PROVE  Routed(n, w)
    <3>1. /\ w[m].owner = o /\ w[m].hops = e.hops + 1 /\ w[m].id = e.id
          /\ \A i \in Slots : i # m => w[i] = d[i]
      BY <1>1, <2>2 DEF Table, Redirected, Package
    <3> QED BY <2>1, <3>1
  <2>3. ASSUME NEW m \in Slots, w = [d EXCEPT ![m] = Stored(@, e, o)]
        PROVE  Routed(n, w)
    <3>1. /\ w[m].owner = o /\ w[m].hops = e.hops + 1 /\ w[m].id = e.id
          /\ \A i \in Slots : i # m => w[i] = d[i]
      BY <1>1, <2>3 DEF Table, Stored, Package
    <3> QED BY <2>1, <3>1
  <2> QED BY <1>1, <1>4, <2>2, <2>3 DEF OneSlotLearned
<1>5. CASE w = d
  BY <1>1, <1>5 DEF w
<1>6. CASE w # d
  <2>1. PICK k \in DOMAIN r :
          /\ r[k] \in Entry /\ (Matching(d, r[k].id) # {} \/ Free(d) # {})
          /\ w = Learn(d, r[k], o)
    BY <1>2, <1>6, Zenon DEF Parsed
  <2>2. OneSlotLearned(d, r[k], o, w)
    BY <1>1, <2>1, LearnSlot
  <2>3. Routed(n, w)
    BY <1>4, <2>1, <2>2
  <2> QED BY <2>3 DEF w
<1> QED BY <1>5, <1>6

LEMMA TickRouted ==
  ASSUME NEW n, NEW t \in Table, Routed(n, t)
  PROVE  Routed(n, LowerWeights(t))
<1>1. \A i \in Slots : Leads(n, t[i]) => Leads(n, LowerWeights(t)[i])
  BY LowerWeightsSlots DEF Leads
<1> QED BY <1>1, LowerWeightsSlots DEF Routed

LEMMA HeardOK ==
  ASSUME NEW n, NEW t, TableOK(n, t), NEW a, {n, a} \in Links
  PROVE  TableOK(n, UpdateWeight(t, a)) /\ UpdateWeight(t, a) \in Table
<1>1. t \in Table /\ a \in Addr /\ a \in Peers(n)
  BY LinkJoins DEF TableOK, Sound, Peers
<1>2. Sound(n, UpdateWeight(t, a))
  BY <1>1, HeardSound DEF TableOK
<1>3. Hopped(UpdateWeight(t, a)) /\ Routed(n, UpdateWeight(t, a))
  BY <1>1, HeardHopped, HeardRouted DEF TableOK
<1> QED BY <1>2, <1>3 DEF TableOK, Sound

LEMMA ReportOK ==
  ASSUME NEW n, NEW t, TableOK(n, t), NEW a, {n, a} \in Links,
         NEW r \in Seq(Entry), Told(a, r), CheckTrusted(UpdateWeight(t, a), a)
  PROVE  TableOK(n, ProcessData(n, UpdateWeight(t, a), r, a))
<1> DEFINE u == UpdateWeight(t, a)
<1>1. a \in Addr /\ a \in Peers(n)
  BY LinkJoins DEF Peers
<1>2. TableOK(n, u) /\ u \in Table
  BY HeardOK
<1>3. \A k \in DOMAIN r : r[k].id # a /\ Walk(a, r[k].id, r[k].hops)
  BY TerminatorApart DEF Told
<1>4. Sound(n, ProcessData(n, u, r, a))
  BY <1>1, <1>3, ReportSound DEF TableOK
<1> HIDE DEF u
<1>5. Hopped(ProcessData(n, u, r, a))
  BY <1>1, <1>2, ReportHopped DEF TableOK
<1>6. Routed(n, ProcessData(n, u, r, a))
  BY <1>1, <1>2, <1>3, ReportRouted DEF TableOK
<1>7. TableOK(n, ProcessData(n, u, r, a))
  BY <1>4, <1>5, <1>6 DEF TableOK
<1> QED BY <1>7 DEF u

LEMMA TickOK ==
  ASSUME NEW n, NEW t, TableOK(n, t)
  PROVE  TableOK(n, LowerWeights(t)) /\ LowerWeights(t) \in Table
BY TickSound, TickHopped, TickRouted DEF TableOK, Sound

LEMMA EmptyOK == \A n : TableOK(n, EmptyTable) /\ EmptyTable \in Table
BY EmptySound, EmptyHopped, EmptyRouted DEF TableOK, Sound

\* What a node reports.
LEMMA AdvertisedOK ==
  ASSUME NEW n, NEW t, TableOK(n, t)
  PROVE  /\ Advertised(t) \in Seq(Entry) /\ Len(Advertised(t)) <= MAX_SENDERS
         /\ Told(n, Advertised(t))
<1> DEFINE a == Advertised(t)
<1>1. Collects(a, t, MAX_SENDERS)
  BY AdvertisedIs DEF TableOK
<1> HIDE DEF a
<1>2. ASSUME NEW k \in DOMAIN a
      PROVE  a[k].id # n /\ Walk(n, a[k].id, a[k].hops)
  <2>1. PICK i \in Slots : t[i].inUse /\ t[i].id = a[k].id /\ t[i].hops = a[k].hops
    BY <1>1 DEF Collects, Slots
  <2>2. t[i] \in Package /\ t[i].id \in Peers(n) /\ t[i].hops >= 1 /\ Leads(n, t[i])
    BY <2>1 DEF TableOK, Sound, Table, Named, Hopped, Routed
  <2> QED BY <2>1, <2>2, LeadsWalk DEF Peers
<1>3. a \in Seq(Entry) /\ Len(a) <= MAX_SENDERS /\ Told(n, a)
  BY <1>1, <1>2 DEF Collects, Told
<1> QED BY <1>3 DEF a

\* Cutting it into messages keeps the ways.
LEMMA SnapshotTold ==
  ASSUME NEW n, NEW t, TableOK(n, t)
  PROVE  LET m == CreateSnapshot(t).messages
         IN  m \in Seq(Seq(Entry)) /\ \A c \in DOMAIN m : Told(n, m[c])
<1> DEFINE a == Advertised(t)
           l == (Len(a) + PAIRS - 1) \div PAIRS
           m == [c \in 1 .. l |->
                   SubSeq(a, (c - 1) * PAIRS + 1, Min({c * PAIRS, Len(a)}))]
<1>1. CreateSnapshot(t).messages = m
  BY DEF CreateSnapshot
<1>2. a \in Seq(Entry) /\ Told(n, a)
  BY AdvertisedOK
<1> HIDE DEF a
<1>3. Len(a) \in Nat /\ PAIRS \in Nat \ {0}
  BY <1>2, PairsAssumption
<1>4. l \in Nat
  <2>1. Len(a) + PAIRS - 1 \in Nat
    BY <1>3
  <2> QED BY <1>3, <2>1, QuotientGrows
<1> HIDE DEF l
<1>5. ASSUME NEW c \in 1 .. l  PROVE m[c] \in Seq(Entry) /\ Told(n, m[c])
  <2>1. c \in Nat \ {0}
    BY <1>4
  <2>2. m[c] = SubSeq(a, (c - 1) * PAIRS + 1, Min({c * PAIRS, Len(a)}))
    OBVIOUS
  <2> HIDE DEF m
  <2>3. /\ m[c] \in Seq(Entry)
        /\ \A j \in DOMAIN m[c] : /\ (c - 1) * PAIRS + j \in DOMAIN a
                                  /\ m[c][j] = a[(c - 1) * PAIRS + j]
    BY <1>2, <2>1, <2>2, MessageIs, Zenon
  <2> QED BY <1>2, <2>3, Zenon DEF Told
<1>6. m = [c \in 1 .. l |-> m[c]]
  OBVIOUS
<1> HIDE DEF m
<1>7. m \in Seq(Seq(Entry)) /\ DOMAIN m = 1 .. l
  <2>1. m \in [1 .. l -> Seq(Entry)]
    BY <1>5, <1>6
  <2> QED BY <1>4, <2>1
<1> QED BY <1>1, <1>5, <1>7

-----------------------------------------------------------------------------
\* The round that a node is sending.

LEMMA NoRoundOK == \A n : RoundOK(n, NoRound)
BY DEF RoundOK, Round, NoRound

LEMMA NextRoundOK ==
  ASSUME NEW n, RoundOK(n, rounds[n]), NEW t, TableOK(n, t)
  PROVE  RoundOK(n, NextRound(n, t))
<1> DEFINE m == CreateSnapshot(t).messages
<1>1. m \in Seq(Seq(Entry)) /\ \A c \in DOMAIN m : Told(n, m[c])
  BY SnapshotTold
<1>2. CASE rounds[n].unsent # << >>
  BY <1>2 DEF NextRound
<1>3. CASE rounds[n].unsent = << >>
  <2>1. NextRound(n, t) = [total |-> Len(m), unsent |-> m]
    BY <1>3 DEF NextRound
  <2> HIDE DEF m
  <2>2. Len(m) \in Nat
    BY <1>1
  <2> QED BY <1>1, <2>1, <2>2 DEF RoundOK, Round
<1> QED BY <1>2, <1>3

\* A message of it, on its way.
PingOK(f) ==
  /\ f.number \in 0 .. 15 /\ f.total \in 0 .. 15
  /\ f.entries \in Seq(Entry) /\ Told(f.from, f.entries)

LEMMA FourBits == \A k \in Int : k % 16 \in 0 .. 15
OBVIOUS

LEMMA PingIsOK ==
  ASSUME NEW n, NEW r, RoundOK(n, r)
  PROVE  PingOK(Ping(n, r)) /\ Ping(n, r).from = n
<1>1. r.total \in Nat /\ r.unsent \in Seq(Seq(Entry))
      /\ \A k \in DOMAIN r.unsent : Told(n, r.unsent[k])
  BY DEF RoundOK, Round
<1>2. CASE r.unsent = << >>
  <2>1. Ping(n, r) = [from |-> n, number |-> 0, total |-> 1, entries |-> << >>]
    BY <1>2 DEF Ping
  <2>2. Told(n, << >>)
    BY DEF Told
  <2> QED BY <2>1, <2>2 DEF PingOK
<1>3. CASE r.unsent # << >>
  <2> DEFINE x == (r.total - Len(r.unsent)) % 16
             y == r.total % 16
             e == Head(r.unsent)
  <2>1. Ping(n, r) = [from |-> n, number |-> x, total |-> y, entries |-> e]
    BY <1>3 DEF Ping
  <2>2. x \in 0 .. 15 /\ y \in 0 .. 15
    <3>1. r.total \in Int /\ r.total - Len(r.unsent) \in Int
      BY <1>1
    <3> QED BY <3>1, FourBits, Zenon
  <2>3. e \in Seq(Entry) /\ Told(n, e)
    <3>1. 1 \in DOMAIN r.unsent /\ e = r.unsent[1]
      BY <1>1, <1>3
    <3> QED BY <1>1, <3>1
  <2> HIDE DEF x, y, e
  <2> QED BY <2>1, <2>2, <2>3 DEF PingOK
<1> QED BY <1>2, <1>3

LEMMA SentOK ==
  ASSUME NEW n, NEW r, RoundOK(n, r)
  PROVE  RoundOK(n, Sent(r))
<1>1. CASE r.unsent = << >>
  BY <1>1 DEF Sent
<1>2. CASE r.unsent # << >>
  <2> DEFINE u == Tail(r.unsent)
  <2>1. r.unsent \in Seq(Seq(Entry)) /\ \A k \in DOMAIN r.unsent : Told(n, r.unsent[k])
    BY DEF RoundOK, Round
  <2>2. u \in Seq(Seq(Entry)) /\ \A k \in DOMAIN u : k + 1 \in DOMAIN r.unsent
                                                  /\ u[k] = r.unsent[k + 1]
    BY <1>2, <2>1
  <2>3. Sent(r) = [r EXCEPT !.unsent = u]
    BY <1>2 DEF Sent
  <2>4. \A k \in DOMAIN u : Told(n, u[k])
    BY <2>1, <2>2
  <2> HIDE DEF u
  <2>5. Sent(r) \in Round /\ Sent(r).unsent = u
    BY <2>2, <2>3 DEF RoundOK, Round
  <2> QED BY <2>4, <2>5 DEF RoundOK
<1> QED BY <1>1, <1>2

-----------------------------------------------------------------------------
\* The buffers keep what they were told.

LEMMA AddedTold ==
  ASSUME NEW a, NEW d \in Seq(Pair), Told(a, d),
         NEW f, f.entries \in Seq(Entry), Told(a, f.entries)
  PROVE  Added(d, f) \in Seq(Pair) /\ Told(a, Added(d, f))
<1> DEFINE e == f.entries
           w == Added(d, f)
<1>1. /\ w \in Seq(Pair)
      /\ \A k \in 1 .. Len(w) :
           w[k] = IF k <= Len(d) THEN d[k]
                  ELSE IF k <= Len(d) + Len(e) THEN e[k - Len(d)] ELSE Terminator
  BY AddedIs
<1>2. e \in Seq(Entry) /\ Told(a, e)
  OBVIOUS
<1> HIDE DEF e, w
<1>3. ASSUME NEW k \in DOMAIN w, w[k] # Terminator
      PROVE  w[k].id # a /\ Walk(a, w[k].id, w[k].hops)
  <2>1. k \in 1 .. Len(w) /\ Len(d) \in Nat /\ Len(e) \in Nat
    BY <1>1, <1>2
  <2>2. CASE k <= Len(d)
    <3>1. k \in DOMAIN d /\ w[k] = d[k]
      BY <1>1, <2>1, <2>2
    <3> QED BY <1>3, <3>1 DEF Told
  <2>3. CASE ~ (k <= Len(d))
    <3>1. k - Len(d) \in DOMAIN e /\ w[k] = e[k - Len(d)]
      BY <1>1, <1>2, <1>3, <2>1, <2>3
    <3> QED BY <1>2, <1>3, <3>1 DEF Told
  <2> QED BY <2>2, <2>3
<1>4. Told(a, w)
  BY <1>3 DEF Told
<1> QED BY <1>1, <1>4 DEF w

LEMMA ReportTold ==
  ASSUME NEW a, NEW d \in Seq(Pair), Told(a, d)
  PROVE  Report(d) \in Seq(Entry) /\ Told(a, Report(d))
<1>1. /\ Report(d) \in Seq(Entry)
      /\ \A k \in DOMAIN Report(d) : k \in DOMAIN d /\ Report(d)[k] = d[k]
  BY ReportWithin
<1> QED BY <1>1 DEF Told

LEMMA ResetOK ==
  ASSUME NEW s \in SenderState
  PROVE  /\ ResetSenderState(s) \in SenderState /\ ResetSenderState(s).data = << >>
         /\ ResetSenderState(s).occupied = s.occupied
         /\ ResetSenderState(s).address = s.address
<1>1. << >> \in Seq(Pair) /\ 0 \in 0 .. 15
  OBVIOUS
<1> DEFINE none == << >>
<1> HIDE DEF none
<1>2. ASSUME NEW r, r = [s EXCEPT !.number = 0, !.total = 0, !.data = none]
      PROVE  /\ none \in Seq(Pair) => r \in SenderState
             /\ r.data = none /\ r.occupied = s.occupied /\ r.address = s.address
  BY <1>1, <1>2 DEF SenderState
<1> QED BY <1>1, <1>2 DEF ResetSenderState, none

LEMMA EmptyTold == \A a : Told(a, << >>)
BY DEF Told

LEMMA FreeOK == BuffersOK(FreeBuffers)
<1>1. FreeSender \in SenderState /\ ~ FreeSender.occupied
  BY 0 \in 0 .. 15 DEF FreeSender, SenderState
<1> QED BY <1>1 DEF BuffersOK, BufferOK, FreeBuffers

LEMMA KeptOK ==
  ASSUME NEW ss, BuffersOK(ss), NEW i \in Slots, NEW b, BufferOK(b)
  PROVE  BuffersOK([ss EXCEPT ![i] = b])
BY DEF BuffersOK, BufferOK

LEMMA DropOK ==
  ASSUME NEW ss, BuffersOK(ss), NEW gone
  PROVE  BuffersOK(DropSenders(ss, gone))
<1>1. ASSUME NEW i \in Slots
      PROVE  LET r == [ResetSenderState(ss[i]) EXCEPT !.occupied = FALSE]
             IN  BufferOK(ss[i]) /\ BufferOK(r)
  <2> DEFINE q == ResetSenderState(ss[i])
             r == [q EXCEPT !.occupied = FALSE]
  <2>1. ss[i] \in SenderState /\ BufferOK(ss[i])
    BY DEF BuffersOK
  <2>2. q \in SenderState
    BY <2>1, ResetOK
  <2> HIDE DEF q
  <2>3. r \in SenderState /\ r.occupied = FALSE
    BY <2>2 DEF SenderState
  <2>4. BufferOK(r)
    BY <2>3 DEF BufferOK
  <2> QED BY <2>1, <2>4 DEF q
<1>2. \A i \in Slots : BufferOK(DropSenders(ss, gone)[i])
  BY <1>1 DEF DropSenders
<1>3. \A i \in Slots : DropSenders(ss, gone)[i] \in SenderState
  BY <1>2 DEF BufferOK
<1>4. DropSenders(ss, gone) \in [Slots -> SenderState]
  BY <1>3 DEF DropSenders
<1> QED BY <1>2, <1>4 DEF BuffersOK

\* The slot of a sender holds what this sender told, or nothing.
LEMMA ClaimedOK ==
  ASSUME NEW ss, BuffersOK(ss), NEW a \in Addr, SenderSlots(ss, a) # {}
  PROVE  LET i == Min(SenderSlots(ss, a))
             s == Claimed(ss, a, i)
         IN  /\ i \in Slots /\ s \in SenderState /\ s.occupied /\ s.address = a
             /\ Told(a, s.data)
<1> DEFINE i == Min(SenderSlots(ss, a))
           s == Claimed(ss, a, i)
<1>1. SenderSlots(ss, a) \subseteq Slots
  BY DEF SenderSlots, Holding, Vacant
<1>2. i \in SenderSlots(ss, a) /\ i \in Slots
  BY <1>1, FirstSlot
<1> HIDE DEF i
<1>3. ss[i] \in SenderState /\ BufferOK(ss[i])
  BY <1>2 DEF BuffersOK
<1>4. CASE Holding(ss, a) # {}
  <2>1. s = ss[i] /\ ss[i].occupied /\ ss[i].address = a
    BY <1>2, <1>4 DEF Claimed, SenderSlots, Holding
  <2> QED BY <1>2, <1>3, <2>1 DEF BufferOK, i
<1>5. CASE Holding(ss, a) = {}
  <2> DEFINE q == ResetSenderState(ss[i])
  <2>1. q \in SenderState /\ q.data = << >>
    BY <1>3, ResetOK
  <2>2. s = [q EXCEPT !.occupied = TRUE, !.address = a]
    BY <1>5 DEF Claimed
  <2> HIDE DEF q, s
  <2>3. s \in SenderState /\ s.occupied /\ s.address = a /\ s.data = << >>
    BY <2>1, <2>2 DEF SenderState
  <2>4. Told(a, s.data)
    BY <2>3, EmptyTold
  <2> QED BY <1>2, <2>3, <2>4 DEF s, i
<1> QED BY <1>4, <1>5

\* A message that starts a round or belongs to one, and what it adds.
LEMMA StartedOK ==
  ASSUME NEW s \in SenderState, s.occupied, NEW f, s.address = f.from,
         Told(f.from, s.data), PingOK(f)
  PROVE  /\ Started(s, f) \in SenderState /\ Started(s, f).occupied
         /\ Started(s, f).address = f.from /\ Told(f.from, Started(s, f).data)
<1> DEFINE q == Started(s, f)
<1>1. CASE s.number # 0
  BY <1>1 DEF Started
<1>2. CASE s.number = 0
  <2>1. q = [s EXCEPT !.number = f.number, !.total = f.total]
    BY <1>2 DEF Started
  <2>2. f.number \in 0 .. 15 /\ f.total \in 0 .. 15
    BY DEF PingOK
  <2> HIDE DEF q
  <2>3. q \in SenderState
    BY <2>1, <2>2 DEF SenderState
  <2>4. q.data = s.data /\ q.occupied = s.occupied /\ q.address = s.address
    BY <2>1 DEF SenderState
  <2> QED BY <2>3, <2>4 DEF q
<1> QED BY <1>1, <1>2

LEMMA CollectedOK ==
  ASSUME NEW q \in SenderState, q.occupied, NEW f, q.address = f.from,
         Told(f.from, q.data), PingOK(f)
  PROVE  LET c == Collected(q, f)
         IN  /\ c \in SenderState /\ c.occupied /\ c.address = f.from
             /\ Told(f.from, c.data)
<1> DEFINE c == Collected(q, f)
<1>1. c = [q EXCEPT !.data = Added(q.data, f)]
  BY DEF Collected, Added
<1>2. q.data \in Seq(Pair)
  BY DEF SenderState
<1>3. Added(q.data, f) \in Seq(Pair) /\ Told(f.from, Added(q.data, f))
  BY <1>2, AddedTold DEF PingOK
<1> DEFINE w == Added(q.data, f)
<1> HIDE DEF c, w
<1>4. c = [q EXCEPT !.data = w] /\ w \in Seq(Pair) /\ Told(f.from, w)
  BY <1>1, <1>3 DEF w
<1>5. /\ c \in SenderState /\ c.occupied = q.occupied /\ c.address = q.address
      /\ c.data = w
  BY <1>4 DEF SenderState
<1> QED BY <1>4, <1>5 DEF c

LEMMA RxPingOK ==
  ASSUME NEW m \in Addr, TableOK(m, table[m]), BuffersOK(buffers[m]),
         NEW f, {m, f.from} \in Links, PingOK(f)
  PROVE  TableOK(m, RxPing(m, f).table) /\ BuffersOK(RxPing(m, f).buffers)
<1> DEFINE a == f.from
           t == UpdateWeight(table[m], a)
           i == Min(SenderSlots(buffers[m], a))
           z == Claimed(buffers[m], a, i)
           s == Started(z, f)
           c == Collected(s, f)
           d == ResetSenderState(c)
           r == Report(c.data)
           x == RxPing(m, f)
<1>1. a \in Addr /\ TableOK(m, t)
  BY LinkJoins, HeardOK
<1>2. CASE ~ CheckTrusted(t, a) \/ SenderSlots(buffers[m], a) = {}
  <2>1. x = [table |-> t, buffers |-> buffers[m]]
    BY <1>2, Zenon DEF RxPing
  <2> QED BY <1>1, <2>1
<1>3. CASE ~ (~ CheckTrusted(t, a) \/ SenderSlots(buffers[m], a) = {})
  <2>1. i \in Slots /\ z \in SenderState /\ z.occupied /\ z.address = a /\ Told(a, z.data)
    BY <1>1, <1>3, ClaimedOK
  <2>2. s \in SenderState /\ s.occupied /\ s.address = a /\ Told(a, s.data)
    BY <2>1, StartedOK
  <2>3. c \in SenderState /\ c.occupied /\ c.address = a /\ Told(a, c.data)
    <3> HIDE DEF s
    <3> QED BY <2>2, CollectedOK
  <2>4. CASE ~ Expects(s, f)
    <3>1. x = [table |-> t, buffers |-> [buffers[m] EXCEPT ![i] = s]]
      BY <1>3, <2>4, Zenon DEF RxPing
    <3>2. BufferOK(s)
      BY <2>2 DEF BufferOK
    <3>3. BuffersOK([buffers[m] EXCEPT ![i] = s])
      BY <2>1, <3>2, KeptOK
    <3> QED BY <1>1, <3>1, <3>3
  <2>5. CASE Expects(s, f) /\ ~ Complete(c)
    <3>1. x = [table |-> t, buffers |-> [buffers[m] EXCEPT ![i] = c]]
      BY <1>3, <2>5, Zenon DEF RxPing
    <3>2. BufferOK(c)
      BY <2>3 DEF BufferOK
    <3>3. BuffersOK([buffers[m] EXCEPT ![i] = c])
      BY <2>1, <3>2, KeptOK
    <3> QED BY <1>1, <3>1, <3>3
  <2>6. CASE Expects(s, f) /\ Complete(c)
    <3>1. x = [table |-> ProcessData(m, t, r, a), buffers |-> [buffers[m] EXCEPT ![i] = d]]
      BY <1>3, <2>6, Zenon DEF RxPing
    <3>2. BuffersOK([buffers[m] EXCEPT ![i] = d])
      <4>1. d \in SenderState /\ d.data = << >> /\ d.address = a
        BY <2>3, ResetOK
      <4>2. BufferOK(d)
        BY <4>1, EmptyTold DEF BufferOK
      <4> QED BY <2>1, <4>2, KeptOK
    <3>3. c.data \in Seq(Pair)
      BY <2>3 DEF SenderState
    <3>4. r \in Seq(Entry) /\ Told(a, r)
      BY <2>3, <3>3, ReportTold
    <3>5. TableOK(m, ProcessData(m, t, r, a))
      BY <1>3, <3>4, ReportOK
    <3> QED BY <3>1, <3>2, <3>5
  <2> QED BY <2>4, <2>5, <2>6
<1> QED BY <1>2, <1>3
\* A frame goes to a node that hears the sender.
LEMMA FrameGoes ==
  ASSUME NEW up, NEW n \in up, NEW t, TableOK(n, t), NEW a \in Addr
  PROVE  FrameOK(Frame(n, t, a), up)
<1> DEFINE h == NextHop(t, a)
<1>1. CASE h = NoAddr
  BY <1>1 DEF Frame, FrameOK
<1>2. CASE h # NoAddr
  <2>1. PICK i \in Direct(t) : t[i].id = h
    BY <1>2, RouteDirect DEF TableOK
  <2>2. i \in Slots /\ t[i].inUse /\ t[i].owner = NoAddr
    BY <2>1 DEF Direct
  <2>3. {n, h} \in Links
    BY <2>1, <2>2 DEF TableOK, Routed, Leads
  <2>4. h \in Addr
    BY <2>3, LinkJoins
  <2>5. Frame(n, t, a) = [from |-> n, via |-> h, target |-> a]
    BY <1>2 DEF Frame
  <2> HIDE DEF h
  <2> QED BY <2>3, <2>4, <2>5 DEF FrameOK
<1> QED BY <1>1, <1>2

-----------------------------------------------------------------------------
\* The invariant, one step per action.

LEMMA NetworkInit == Init => NetworkInv
<1> SUFFICES ASSUME Init PROVE NetworkInv
  OBVIOUS
<1>1. alive \subseteq Addr /\ turn \in Addr
  BY NetworkAssumption DEF Init
<1>2. table \in [Addr -> Table] /\ \A n \in Addr : TableOK(n, table[n])
  BY EmptyOK DEF Init
<1>3. buffers \in [Addr -> [Slots -> SenderState]] /\ \A n \in Addr : BuffersOK(buffers[n])
  BY FreeOK DEF Init, BuffersOK
<1>4. rounds = [n \in Addr |-> rounds[n]] /\ \A n \in Addr : RoundOK(n, rounds[n])
  BY NoRoundOK DEF Init
<1>5. FrameOK(frame, alive)
  BY DEF Init, FrameOK
<1> QED BY <1>1, <1>2, <1>3, <1>4, <1>5 DEF NetworkInv

\* Every node that has a sound table and buffers of its own: the two functions.
LEMMA Everywhere ==
  ASSUME NEW t, t = [m \in Addr |-> t[m]], NEW b, b = [m \in Addr |-> b[m]],
         \A m \in Addr : TableOK(m, t[m]) /\ BuffersOK(b[m])
  PROVE  t \in [Addr -> Table] /\ b \in [Addr -> [Slots -> SenderState]]
<1>1. \A m \in Addr : t[m] \in Table /\ b[m] \in [Slots -> SenderState]
  BY DEF TableOK, Sound, BuffersOK
<1> QED BY <1>1

LEMMA TickStep ==
  ASSUME NetworkInv, NEW n \in Addr, NEW heard \in SUBSET Near(n), Tick(n, heard)
  PROVE  NetworkInv'
<1> DEFINE t == LowerWeights(table[n])
           gone == {table[n][i].id : i \in Expired(table[n])}
           r == NextRound(n, t)
           f == Ping(n, r)
           after == [m \in heard |-> RxPing(m, f)]
<1>1. TableOK(n, t)
  BY TickOK DEF NetworkInv
<1>2. RoundOK(n, r)
  BY <1>1, NextRoundOK DEF NetworkInv
<1>3. PingOK(f) /\ f.from = n
  BY <1>2, PingIsOK
<1>4. \A m \in heard : {m, n} \in Links
  BY DEF Near
<1>5. /\ table' = [m \in Addr |->
                     IF m = n THEN t
                     ELSE IF m \in heard THEN after[m].table ELSE table[m]]
      /\ buffers' = [m \in Addr |->
                     IF m = n THEN DropSenders(buffers[n], gone)
                     ELSE IF m \in heard THEN after[m].buffers ELSE buffers[m]]
      /\ rounds' = [rounds EXCEPT ![n] = Sent(r)]
      /\ turn' = After(n) /\ alive' = alive /\ frame' = frame
  BY DEF Tick
<1>6. \A m \in heard : after[m] = RxPing(m, f)
  OBVIOUS
<1> HIDE DEF t, r, f, after, gone
<1>7. ASSUME NEW m \in Addr
      PROVE  TableOK(m, table'[m]) /\ BuffersOK(buffers'[m])
  <2>1. TableOK(m, table[m]) /\ BuffersOK(buffers[m])
    BY DEF NetworkInv
  <2>2. CASE m = n
    <3>1. table'[m] = t /\ buffers'[m] = DropSenders(buffers[m], gone)
      BY <1>5, <2>2
    <3> QED BY <1>1, <2>1, <2>2, <3>1, DropOK
  <2>3. CASE m # n /\ m \in heard
    <3>1. table'[m] = RxPing(m, f).table /\ buffers'[m] = RxPing(m, f).buffers
      BY <1>5, <1>6, <2>3
    <3>2. {m, f.from} \in Links
      BY <1>3, <1>4, <2>3
    <3> QED BY <1>3, <2>1, <3>1, <3>2, RxPingOK
  <2>4. CASE m # n /\ m \notin heard
    <3>1. table'[m] = table[m] /\ buffers'[m] = buffers[m]
      BY <1>5, <2>4
    <3> QED BY <2>1, <3>1
  <2> QED BY <2>2, <2>3, <2>4
<1>8. table' = [m \in Addr |-> table'[m]] /\ buffers' = [m \in Addr |-> buffers'[m]]
  BY <1>5
<1>9. table' \in [Addr -> Table] /\ buffers' \in [Addr -> [Slots -> SenderState]]
  BY <1>7, <1>8, Everywhere
<1>10. alive' \subseteq Addr /\ turn' \in Addr /\ FrameOK(frame', alive')
  BY <1>5, NetworkAssumption DEF NetworkInv
<1>11. rounds' = [m \in Addr |-> rounds'[m]] /\ \A m \in Addr : RoundOK(m, rounds'[m])
  <2>1. RoundOK(n, Sent(r))
    BY <1>2, SentOK
  <2> QED BY <1>5, <2>1 DEF NetworkInv
<1> QED BY <1>7, <1>9, <1>10, <1>11 DEF NetworkInv

LEMMA DeliverStep ==
  ASSUME NetworkInv, NEW heard \in SUBSET Near(frame.from), Deliver(heard)
  PROVE  NetworkInv'
<1> DEFINE a == frame.from
           v == frame.via
           g == frame.target
           u(m) == UpdateWeight(table[m], a)
<1>1. frame # NoFrame /\ frame \in [from : alive, via : Addr, target : Addr]
      /\ g \in Addr
  BY DEF Deliver, NetworkInv, FrameOK
<1>2. \A m \in heard : m \in alive /\ {m, a} \in Links
  BY DEF Near
<1>3. /\ table' = [m \in Addr |-> IF m \in heard THEN u(m) ELSE table[m]]
      /\ alive' = alive /\ buffers' = buffers /\ rounds' = rounds /\ turn' = turn
      /\ \/ v \in heard /\ frame' = Frame(v, u(v), g)
         \/ frame' = NoFrame
  BY DEF Deliver
<1>4. ASSUME NEW m \in heard
      PROVE  TableOK(m, u(m))
  <2>1. m \in Addr /\ TableOK(m, table[m])
    BY <1>2 DEF NetworkInv
  <2> QED BY <1>2, <2>1, HeardOK
<1> HIDE DEF u, a, v, g
<1>5. ASSUME NEW m \in Addr
      PROVE  TableOK(m, table'[m]) /\ BuffersOK(buffers'[m])
  <2>1. TableOK(m, table[m]) /\ BuffersOK(buffers[m])
    BY DEF NetworkInv
  <2>2. (table'[m] = u(m) /\ m \in heard) \/ table'[m] = table[m]
    BY <1>3
  <2> QED BY <1>3, <1>4, <2>1, <2>2
<1>6. table' = [m \in Addr |-> table'[m]] /\ buffers' = [m \in Addr |-> buffers'[m]]
  BY <1>3 DEF NetworkInv
<1>7. table' \in [Addr -> Table] /\ buffers' \in [Addr -> [Slots -> SenderState]]
  BY <1>5, <1>6, Everywhere
<1>8. FrameOK(frame', alive')
  <2>1. CASE frame' = NoFrame
    BY <2>1 DEF FrameOK
  <2>2. CASE v \in heard /\ frame' = Frame(v, u(v), g)
    <3>1. v \in alive /\ TableOK(v, u(v))
      BY <1>2, <1>4, <2>2
    <3>2. FrameOK(Frame(v, u(v), g), alive)
      BY <1>1, <3>1, FrameGoes
    <3> QED BY <1>3, <2>2, <3>2
  <2> QED BY <1>3, <2>1, <2>2
<1>9. /\ alive' \subseteq Addr /\ turn' \in Addr
      /\ rounds' = [m \in Addr |-> rounds'[m]] /\ \A m \in Addr : RoundOK(m, rounds'[m])
  BY <1>3 DEF NetworkInv
<1> QED BY <1>5, <1>7, <1>8, <1>9 DEF NetworkInv

LEMMA FailStep ==
  ASSUME NetworkInv, NEW n \in Addr, Fail(n)
  PROVE  NetworkInv'
<1>1. /\ alive' = alive \ {n} /\ turn' = turn
      /\ table' = [table EXCEPT ![n] = EmptyTable]
      /\ buffers' = [buffers EXCEPT ![n] = FreeBuffers]
      /\ rounds' = [rounds EXCEPT ![n] = NoRound]
      /\ frame' = IF frame.from = n THEN NoFrame ELSE frame
  BY DEF Fail
<1>2. ASSUME NEW m \in Addr
      PROVE  TableOK(m, table'[m]) /\ BuffersOK(buffers'[m])
  <2>1. /\ TableOK(m, table[m]) /\ BuffersOK(buffers[m])
        /\ table'[m] = IF m = n THEN EmptyTable ELSE table[m]
        /\ buffers'[m] = IF m = n THEN FreeBuffers ELSE buffers[m]
    BY <1>1 DEF NetworkInv
  <2> QED BY <2>1, EmptyOK, FreeOK
<1>3. table' = [m \in Addr |-> table'[m]] /\ buffers' = [m \in Addr |-> buffers'[m]]
  BY <1>1 DEF NetworkInv
<1>4. table' \in [Addr -> Table] /\ buffers' \in [Addr -> [Slots -> SenderState]]
  BY <1>2, <1>3, Everywhere
<1>5. FrameOK(frame', alive')
  <2>1. CASE frame' = NoFrame
    BY <2>1 DEF FrameOK
  <2>2. CASE frame' = frame /\ frame.from # n /\ frame # NoFrame
    <3>1. /\ frame \in [from : alive, via : Addr, target : Addr]
          /\ {frame.from, frame.via} \in Links
      BY <2>2 DEF NetworkInv, FrameOK
    <3>2. frame \in [from : alive \ {n}, via : Addr, target : Addr]
      BY <2>2, <3>1
    <3> QED BY <1>1, <2>2, <3>1, <3>2 DEF FrameOK
  <2> QED BY <1>1, <2>1, <2>2
<1>6. rounds' = [m \in Addr |-> rounds'[m]] /\ \A m \in Addr : RoundOK(m, rounds'[m])
  BY <1>1, NoRoundOK DEF NetworkInv
<1> QED BY <1>1, <1>2, <1>4, <1>5, <1>6 DEF NetworkInv

LEMMA NetworkStep == NetworkInv /\ [Next]_vars => NetworkInv'
<1> SUFFICES ASSUME NetworkInv, [Next]_vars PROVE NetworkInv'
  OBVIOUS
<1>1. ASSUME NEW n \in Addr, NEW heard \in SUBSET Near(n), Tick(n, heard)
      PROVE  NetworkInv'
  BY <1>1, TickStep
<1>2. ASSUME NEW n \in Addr, NEW a \in Addr, SendData(n, a)
      PROVE  NetworkInv'
  <2>1. /\ n \in alive /\ frame' = Frame(n, table[n], a)
        /\ alive' = alive /\ table' = table /\ buffers' = buffers
        /\ rounds' = rounds /\ turn' = turn
    BY <1>2 DEF SendData
  <2>2. FrameOK(Frame(n, table[n], a), alive)
    BY <2>1, FrameGoes DEF NetworkInv
  <2>3. FrameOK(frame', alive')
    BY <2>1, <2>2
  <2> QED BY <2>1, <2>3 DEF NetworkInv
<1>3. ASSUME NEW heard \in SUBSET Near(frame.from), Deliver(heard)
      PROVE  NetworkInv'
  BY <1>3, DeliverStep
<1>4. ASSUME NEW n \in Addr, NoTick(n)
      PROVE  NetworkInv'
  BY <1>4, NetworkAssumption DEF NoTick, NetworkInv, FrameOK
<1>5. ASSUME NEW n \in Addr, Fail(n)
      PROVE  NetworkInv'
  BY <1>5, FailStep
<1>6. ASSUME NEW n \in Addr, Restart(n)
      PROVE  NetworkInv'
  <2>1. /\ alive' = alive \cup {n} /\ frame' = frame
        /\ table' = table /\ buffers' = buffers /\ rounds' = rounds /\ turn' = turn
    BY <1>6 DEF Restart
  <2>2. FrameOK(frame', alive')
    BY <2>1 DEF NetworkInv, FrameOK
  <2>3. alive' \subseteq Addr
    BY <2>1 DEF NetworkInv
  <2> QED BY <2>1, <2>2, <2>3 DEF NetworkInv
<1>7. CASE UNCHANGED vars
  BY <1>7 DEF vars, NetworkInv, FrameOK
<1> QED BY <1>1, <1>2, <1>3, <1>4, <1>5, <1>6, <1>7 DEF Next

-----------------------------------------------------------------------------
\* The inductive invariant: tables, buffers and the frame in the air only say
\* what is a way over the links (mesh_radio.c, at all nodes).
THEOREM NetworkInvariant == Spec => []NetworkInv
<1> QED BY NetworkInit, NetworkStep, PTL DEF Spec

\* Every table holds packages of other nodes, every frame in the air comes from
\* a node that is up and names two nodes, for any number of nodes.
THEOREM NetworkTypes == Spec => []TypeOK
<1>1. NetworkInv => TypeOK
  <2> SUFFICES ASSUME NetworkInv PROVE TypeOK
    OBVIOUS
  <2>1. \A n \in Addr : table[n] \in Table /\ Named(n, table[n])
    BY DEF NetworkInv, TableOK, Sound
  <2> QED BY <2>1 DEF NetworkInv, FrameOK, TypeOK
<1> QED BY <1>1, NetworkInvariant, PTL

\* However old the reports, an entry names a next hop that hears the node, and
\* as many links as its hop count says lead through it to the target
\* (updateWeight, processData, saveRemoteNeighborTable).
THEOREM WaysExist == Spec => []RoutesFollowLinks
<1>1. NetworkInv => RoutesFollowLinks
  BY DEF NetworkInv, TableOK, Routed, FrameOK, RoutesFollowLinks
<1> QED BY <1>1, NetworkInvariant, PTL
\* At every node the first slot with an id is the entry in use for it, and every
\* learned entry has a trusted owner of weight above 1, when the reports are
\* those that other nodes make of such tables (createSnapshot, processData).
THEOREM NodesSound ==
  Spec => [](\A n \in Addr : Unambiguous(table[n]) /\ Owned(table[n]))
<1>1. NetworkInv => \A n \in Addr : Unambiguous(table[n]) /\ Owned(table[n])
  BY DEF NetworkInv, TableOK, Sound
<1> QED BY <1>1, NetworkInvariant, PTL
=============================================================================
