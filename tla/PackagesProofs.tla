--------------------------- MODULE PackagesProofs ---------------------------
(***************************************************************************)
(* What updateWeight, processData and timer_handler do to a table, for any  *)
(* number of slots, set of peers and weight limits that Packages assumes:   *)
(* a table that is Sound stays so, and its routes lead to direct neighbors. *)
(* What pings carry of a table (PingRounds): the loop over the slots lists  *)
(* an address once, and a report holds nothing but what was collected.      *)
(***************************************************************************)
EXTENDS PingRounds, WellFoundedInduction, TLAPS

\* The order of the slots, as the set of pairs the library's facts speak of.
LT == {ss \in Nat \X Nat : ss[1] < ss[2]}

LEMMA LTWF == IsWellFoundedOn(LT, Nat)
  BY NatLessThanWellFounded, Zenon DEF OpToRel, LT

\* A loop that stops at the first slot with some property: that slot exists.
LEMMA MinIsLeast ==
  ASSUME NEW S, S \subseteq Nat, S # {}
  PROVE  Min(S) \in S /\ \A j \in S : Min(S) <= j
<1>1. PICK x \in S : \A y \in S : <<y, x>> \notin LT
  BY LTWF, WFMin, Zenon
<1>2. \A y \in S : y < x => <<y, x>> \in LT
  BY DEF LT
<1>3. \A y \in S : ~ (y < x)
  BY <1>1, <1>2, Zenon
<1>4. \A y \in S : x <= y
  BY <1>3
<1> QED BY <1>4 DEF Min

LEMMA MinOfTwo ==
  ASSUME NEW a \in Nat, NEW b \in Nat
  PROVE  Min({a, b}) = IF a <= b THEN a ELSE b
<1>1. Min({a, b}) \in {a, b} /\ \A j \in {a, b} : Min({a, b}) <= j
  BY MinIsLeast
<1> QED BY <1>1

\* Induction, as a fact about the set of the numbers for which something holds.
LEMMA SetInduction ==
  ASSUME NEW S, 0 \in S, \A n \in Nat : n \in S => n + 1 \in S
  PROVE  Nat \subseteq S
<1>1. SUFFICES ASSUME Nat \ S # {} PROVE FALSE
  OBVIOUS
<1>2. PICK m \in Nat \ S : \A j \in Nat \ S : m <= j
  BY <1>1, MinIsLeast
<1>3. m - 1 \in Nat /\ m - 1 \notin Nat \ S
  BY <1>2
<1> QED BY <1>2, <1>3

LEMMA SlotsAreNat == Slots \subseteq Nat
  BY TableAssumption DEF Slots

\* The first slot of a non-empty set of slots, with what the loop skipped.
LEMMA FirstSlot ==
  ASSUME NEW S, S \subseteq Slots, S # {}
  PROVE  /\ Min(S) \in S /\ Min(S) \in Slots
         /\ \A k \in 0 .. Min(S) - 1 : k \in Slots /\ k \notin S
<1>1. PICK m \in S : m = Min(S) /\ \A j \in S : m <= j
  BY MinIsLeast, SlotsAreNat
<1>2. m \in Slots
  BY <1>1
<1>3. \A k \in 0 .. m - 1 : k \in Slots /\ k < m
  BY <1>2, TableAssumption DEF Slots
<1>4. \A k \in 0 .. m - 1 : k \notin S
  BY <1>1, <1>2, <1>3 DEF Slots
<1> QED BY <1>1, <1>2, <1>3, <1>4

\* The fields of one slot, each with its range.
LEMMA Fields ==
  ASSUME NEW t \in Table, NEW i \in Slots
  PROVE  /\ t[i].id \in Addr \cup {NoAddr}
         /\ t[i].weight \in 0 .. WEIGHT_MAX
         /\ t[i].inUse \in BOOLEAN
         /\ t[i].trusted \in BOOLEAN
         /\ t[i].owner \in Addr \cup {NoAddr}
         /\ t[i].hops \in 0 .. MAX_HOPS
  BY DEF Table, Package

-----------------------------------------------------------------------------
\* What updateWeight does to one slot.

LEMMA HeardPackage ==
  ASSUME NEW p \in Package
  PROVE  /\ Heard(p) \in Package
         /\ Heard(p).id = p.id /\ Heard(p).inUse = p.inUse
         /\ Heard(p).trusted = p.trusted
         /\ Heard(p).owner = NoAddr /\ Heard(p).hops = 1
         /\ Heard(p).weight > 1 /\ Heard(p).weight >= p.weight
<1> DEFINE w == IF p.weight + WEIGHT_STEP > WEIGHT_MAX THEN WEIGHT_MAX
                ELSE p.weight + WEIGHT_STEP
<1>1. p.weight \in 0 .. WEIGHT_MAX
  BY DEF Package
<1>2. w \in 0 .. WEIGHT_MAX /\ w > 1 /\ w >= p.weight
  BY <1>1, TableAssumption
<1>3. Heard(p) = [p EXCEPT !.weight = w, !.owner = NoAddr, !.hops = 1]
  BY DEF Heard
<1>4. 1 \in 0 .. MAX_HOPS
  BY TableAssumption
<1> HIDE DEF w
<1> QED BY <1>2, <1>3, <1>4 DEF Package

LEMMA NewcomerPackage ==
  ASSUME NEW p \in Package, NEW a \in Addr
  PROVE  /\ Newcomer(p, a) \in Package
         /\ Newcomer(p, a).id = a /\ Newcomer(p, a).inUse
         /\ Newcomer(p, a).owner = NoAddr /\ Newcomer(p, a).hops = 1
         /\ Newcomer(p, a).trusted = p.trusted
         /\ Newcomer(p, a).weight > 1
<1>1. WEIGHT_STEP \in 0 .. WEIGHT_MAX /\ WEIGHT_STEP > 1 /\ 1 \in 0 .. MAX_HOPS
  BY TableAssumption
<1> QED BY <1>1 DEF Newcomer, Package

\* updateWeight changes the first slot that has the sender, or else the first
\* free one, or nothing.
LEMMA UpdateWeightCases ==
  ASSUME NEW t \in Table, NEW a \in Addr
  PROVE  \/ \E i \in Slots :
              /\ t[i].inUse /\ t[i].id = a
              /\ UpdateWeight(t, a) = [t EXCEPT ![i] = Heard(@)]
         \/ \E i \in Slots :
              /\ Matching(t, a) = {}
              /\ ~ t[i].inUse
              /\ \A k \in 0 .. i - 1 : k \in Slots /\ t[k].inUse
              /\ UpdateWeight(t, a) = [t EXCEPT ![i] = Newcomer(@, a)]
         \/ Matching(t, a) = {} /\ Free(t) = {} /\ UpdateWeight(t, a) = t
<1>1. CASE Matching(t, a) # {}
  <2>1. Min(Matching(t, a)) \in Matching(t, a)
    BY <1>1, FirstSlot DEF Matching
  <2>2. UpdateWeight(t, a) = [t EXCEPT ![Min(Matching(t, a))] = Heard(@)]
    BY <1>1 DEF UpdateWeight
  <2> QED BY <2>1, <2>2 DEF Matching
<1>2. CASE Matching(t, a) = {} /\ Free(t) # {}
  <2>1. /\ Min(Free(t)) \in Free(t)
        /\ \A k \in 0 .. Min(Free(t)) - 1 : k \in Slots /\ k \notin Free(t)
    BY <1>2, FirstSlot DEF Free
  <2>2. UpdateWeight(t, a) = [t EXCEPT ![Min(Free(t))] = Newcomer(@, a)]
    BY <1>2 DEF UpdateWeight
  <2> QED BY <1>2, <2>1, <2>2 DEF Free
<1>3. CASE Matching(t, a) = {} /\ Free(t) = {}
  BY <1>3 DEF UpdateWeight
<1> QED BY <1>1, <1>2, <1>3

LEMMA UpdateWeightType ==
  ASSUME NEW t \in Table, NEW a \in Addr
  PROVE  UpdateWeight(t, a) \in Table
<1>1. CASE \E i \in Slots : UpdateWeight(t, a) = [t EXCEPT ![i] = Heard(@)]
  BY <1>1, HeardPackage DEF Table
<1>2. CASE \E i \in Slots : UpdateWeight(t, a) = [t EXCEPT ![i] = Newcomer(@, a)]
  BY <1>2, NewcomerPackage DEF Table
<1>3. CASE UpdateWeight(t, a) = t
  BY <1>3
<1> QED BY <1>1, <1>2, <1>3, UpdateWeightCases

LEMMA UpdateWeightNamed ==
  ASSUME NEW me, NEW t \in Table, NEW a \in Peers(me), Named(me, t)
  PROVE  Named(me, UpdateWeight(t, a))
<1> DEFINE u == UpdateWeight(t, a)
<1>1. a \in Addr
  BY DEF Peers
<1>2. CASE \E i \in Slots : t[i].inUse /\ u = [t EXCEPT ![i] = Heard(@)]
  BY <1>2, HeardPackage DEF Table, Named
<1>3. CASE \E i \in Slots : u = [t EXCEPT ![i] = Newcomer(@, a)]
  BY <1>1, <1>3, NewcomerPackage DEF Table, Named
<1>4. CASE u = t
  BY <1>4
<1> QED BY <1>1, <1>2, <1>3, <1>4, UpdateWeightCases

\* A newcomer is stored only when no entry in use has its id, after slots
\* that are all in use: it is the first slot with that id.
LEMMA UpdateWeightUnambiguous ==
  ASSUME NEW t \in Table, NEW a \in Addr, Unambiguous(t)
  PROVE  Unambiguous(UpdateWeight(t, a))
<1> DEFINE u == UpdateWeight(t, a)
<1> SUFFICES ASSUME NEW i \in Slots, u[i].inUse, NEW k \in 0 .. i - 1
             PROVE  u[k].id # u[i].id
  BY DEF Unambiguous
<1>0. k \in Slots /\ k # i
  BY TableAssumption DEF Slots
<1>1. ASSUME NEW m \in Slots, u = [t EXCEPT ![m] = Heard(@)]
      PROVE  u[k].id # u[i].id
  <2>1. \A n \in Slots : u[n].id = t[n].id /\ u[n].inUse = t[n].inUse
    BY <1>1, HeardPackage DEF Table
  <2> QED BY <1>0, <2>1 DEF Unambiguous
<1>2. ASSUME NEW m \in Slots, Matching(t, a) = {}, ~ t[m].inUse,
             \A n \in 0 .. m - 1 : n \in Slots /\ t[n].inUse,
             u = [t EXCEPT ![m] = Newcomer(@, a)]
      PROVE  u[k].id # u[i].id
  <2>1. u[m].id = a /\ \A n \in Slots : n # m => u[n] = t[n]
    BY <1>2, NewcomerPackage DEF Table
  <2>2. \A n \in Slots : t[n].inUse => t[n].id # a
    BY <1>2 DEF Matching
  <2>3. CASE i = m
    BY <1>0, <1>2, <2>1, <2>2, <2>3
  <2>4. CASE i # m /\ k = m
    BY <1>0, <2>1, <2>2, <2>4
  <2>5. CASE i # m /\ k # m
    BY <1>0, <2>1, <2>5 DEF Unambiguous
  <2> QED BY <2>3, <2>4, <2>5
<1>3. CASE u = t
  BY <1>3 DEF Unambiguous
<1> QED BY <1>1, <1>2, <1>3, UpdateWeightCases

\* An entry that vouches for others keeps doing so when a frame is heard.
LEMMA UpdateWeightVouching ==
  ASSUME NEW t \in Table, NEW a \in Addr, NEW j \in Slots, Vouching(t, j)
  PROVE  Vouching(UpdateWeight(t, a), j) /\ UpdateWeight(t, a)[j].id = t[j].id
<1> DEFINE u == UpdateWeight(t, a)
<1>0. t[j] \in Package /\ t[j].weight \in Nat
  BY DEF Table, Package
<1>1. ASSUME NEW m \in Slots, u = [t EXCEPT ![m] = Heard(@)]
      PROVE  Vouching(u, j) /\ u[j].id = t[j].id
  <2>1. CASE j = m
    <3>1. u[j] = Heard(t[j])
      BY <1>1, <2>1 DEF Table
    <3> QED BY <1>0, <3>1, HeardPackage DEF Vouching
  <2>2. CASE j # m
    BY <1>1, <2>2 DEF Vouching, Table
  <2> QED BY <2>1, <2>2
<1>2. ASSUME NEW m \in Slots, ~ t[m].inUse,
             u = [t EXCEPT ![m] = Newcomer(@, a)]
      PROVE  Vouching(u, j) /\ u[j].id = t[j].id
  <2>1. j # m
    BY <1>2 DEF Vouching
  <2> QED BY <1>2, <2>1 DEF Vouching, Table
<1>3. CASE u = t
  BY <1>3
<1> QED BY <1>1, <1>2, <1>3, UpdateWeightCases

LEMMA UpdateWeightOwned ==
  ASSUME NEW t \in Table, NEW a \in Addr, Owned(t)
  PROVE  Owned(UpdateWeight(t, a))
<1> DEFINE u == UpdateWeight(t, a)
<1> SUFFICES ASSUME NEW i \in Slots, u[i].inUse
             PROVE  IF u[i].owner = NoAddr THEN u[i].hops = 1
                    ELSE \E j \in Slots : Vouching(u, j) /\ u[j].id = u[i].owner
  BY DEF Owned
<1>1. CASE u[i] = t[i]
  BY <1>1, UpdateWeightVouching DEF Owned
<1>2. CASE u[i] = Heard(t[i])
  BY <1>2, HeardPackage DEF Table
<1>3. CASE u[i] = Newcomer(t[i], a)
  BY <1>3, NewcomerPackage DEF Table
<1>4. u[i] = t[i] \/ u[i] = Heard(t[i]) \/ u[i] = Newcomer(t[i], a)
  BY UpdateWeightCases DEF Table
<1> QED BY <1>1, <1>2, <1>3, <1>4

\* A sender that checkTrusted accepts right after updateWeight is an entry
\* that may own children.
LEMMA TrustedSenderVouches ==
  ASSUME NEW t \in Table, NEW a \in Addr, Unambiguous(t), Owned(t),
         CheckTrusted(UpdateWeight(t, a), a)
  PROVE  \E j \in Slots : /\ Vouching(UpdateWeight(t, a), j)
                          /\ UpdateWeight(t, a)[j].id = a
<1> DEFINE u == UpdateWeight(t, a)
           named == {i \in Slots : u[i].id = a}
<1>1. named # {} /\ u[Min(named)].trusted
  BY DEF CheckTrusted
<1>2. PICK f \in named : /\ f = Min(named) /\ f \in Slots
                         /\ \A k \in 0 .. f - 1 : k \in Slots /\ k \notin named
  BY <1>1, FirstSlot
<1>3. ASSUME NEW m \in Slots, u[m].inUse, u[m].id = a, u[m].owner = NoAddr,
             u[m].weight > 1
      PROVE  \E j \in Slots : Vouching(u, j) /\ u[j].id = a
  <2>1. \A k \in 0 .. m - 1 : u[k].id # a
    BY <1>3, UpdateWeightUnambiguous DEF Unambiguous
  <2>2. f = m
    BY <1>2, <1>3, <2>1 DEF Slots
  <2> QED BY <1>1, <1>2, <1>3, <2>2 DEF Vouching
<1>4. CASE \E i \in Slots : /\ t[i].inUse /\ t[i].id = a
                           /\ u = [t EXCEPT ![i] = Heard(@)]
  <2>1. PICK i \in Slots : /\ t[i].inUse /\ t[i].id = a
                          /\ u = [t EXCEPT ![i] = Heard(@)]
    BY <1>4
  <2>2. u[i] = Heard(t[i]) /\ t[i] \in Package
    BY <2>1 DEF Table
  <2>3. /\ i \in Slots
        /\ u[i].inUse /\ u[i].id = a /\ u[i].owner = NoAddr /\ u[i].weight > 1
    BY <2>1, <2>2, HeardPackage
  <2>4. \E j \in Slots : Vouching(u, j) /\ u[j].id = a
    <3> HIDE DEF u
    <3> QED BY <1>3, <2>3
  <2> QED BY <2>4
<1>5. CASE \E i \in Slots : u = [t EXCEPT ![i] = Newcomer(@, a)]
  <2>1. PICK i \in Slots : u = [t EXCEPT ![i] = Newcomer(@, a)]
    BY <1>5
  <2>2. u[i] = Newcomer(t[i], a) /\ t[i] \in Package
    BY <2>1 DEF Table
  <2> QED BY <1>3, <2>2, NewcomerPackage
<1>6. CASE Matching(t, a) = {} /\ Free(t) = {} /\ u = t
  <2>1. t[f].inUse /\ t[f].id = a
    BY <1>2, <1>6 DEF Free
  <2> QED BY <1>2, <1>6, <2>1 DEF Matching
<1> QED BY <1>4, <1>5, <1>6, UpdateWeightCases

-----------------------------------------------------------------------------
\* What processData does: it disowns, then stores at most one entry.

Redirected(p, e, o) == [p EXCEPT !.owner = o, !.hops = e.hops + 1]

Stored(p, e, o) ==
  [p EXCEPT !.id = e.id, !.inUse = TRUE, !.trusted = TRUE,
            !.owner = o, !.hops = e.hops + 1]

LEMMA LearntPackage ==
  ASSUME NEW p \in Package, NEW e \in Entry, e.hops < MAX_HOPS, NEW o \in Addr
  PROVE  Redirected(p, e, o) \in Package /\ Stored(p, e, o) \in Package
<1>1. e.hops + 1 \in 0 .. MAX_HOPS
  BY TableAssumption DEF Entry
<1>2. e.id \in Addr
  BY DEF Entry
<1> QED BY <1>1, <1>2 DEF Redirected, Stored, Package

LEMMA LearnCases ==
  ASSUME NEW t \in Table, NEW e \in Entry, NEW o \in Addr,
         Matching(t, e.id) # {} \/ Free(t) # {}
  PROVE  \/ \E i \in Slots :
              /\ t[i].inUse /\ t[i].id = e.id
              /\ (t[i].hops > e.hops + 1 \/ ~ t[i].trusted)
              /\ Learn(t, e, o) = [t EXCEPT ![i] = Redirected(@, e, o)]
         \/ \E i \in Slots :
              /\ Matching(t, e.id) = {}
              /\ ~ t[i].inUse
              /\ \A k \in 0 .. i - 1 : k \in Slots /\ t[k].inUse
              /\ Learn(t, e, o) = [t EXCEPT ![i] = Stored(@, e, o)]
         \/ Learn(t, e, o) = t
<1>1. CASE Matching(t, e.id) # {}
  <2>1. PICK i \in Matching(t, e.id) : i = Min(Matching(t, e.id))
    BY <1>1, FirstSlot DEF Matching
  <2>2. CASE t[i].hops > e.hops + 1 \/ ~ t[i].trusted
    <3>1. Learn(t, e, o) = [t EXCEPT ![i] = Redirected(@, e, o)]
      BY <1>1, <2>1, <2>2 DEF Learn, Redirected
    <3> QED BY <2>1, <2>2, <3>1 DEF Matching
  <2>3. CASE ~ (t[i].hops > e.hops + 1 \/ ~ t[i].trusted)
    BY <1>1, <2>1, <2>3 DEF Learn
  <2> QED BY <2>2, <2>3
<1>2. CASE Matching(t, e.id) = {}
  <2>1. Free(t) # {}
    BY <1>2
  <2>2. PICK i \in Free(t) : /\ i = Min(Free(t))
                            /\ \A k \in 0 .. i - 1 : k \in Slots /\ k \notin Free(t)
    BY <2>1, FirstSlot DEF Free
  <2>3. Learn(t, e, o) = [t EXCEPT ![i] = Stored(@, e, o)]
    BY <1>2, <2>2 DEF Learn, Stored
  <2> QED BY <1>2, <2>2, <2>3 DEF Free
<1> QED BY <1>1, <1>2

\* The same as a relation between two tables, without what is only needed to
\* tell the free slot from others.
OneSlotLearned(t, e, o, u) ==
  \/ \E m \in Slots : /\ t[m].inUse /\ t[m].id = e.id
                     /\ (t[m].hops > e.hops + 1 \/ ~ t[m].trusted)
                     /\ u = [t EXCEPT ![m] = Redirected(@, e, o)]
  \/ \E m \in Slots : ~ t[m].inUse /\ u = [t EXCEPT ![m] = Stored(@, e, o)]
  \/ u = t

LEMMA LearnSlot ==
  ASSUME NEW t \in Table, NEW e \in Entry, NEW o \in Addr,
         Matching(t, e.id) # {} \/ Free(t) # {}
  PROVE  OneSlotLearned(t, e, o, Learn(t, e, o))
  BY LearnCases, Zenon DEF OneSlotLearned

\* processData ends with the disowned table or with one usable entry learned.
Parsed(u, me, d, r, o) ==
  \/ u = d
  \/ \E k \in DOMAIN r :
       /\ r[k] \in Entry /\ r[k].id # me /\ r[k].hops < MAX_HOPS
       /\ (Matching(d, r[k].id) # {} \/ Free(d) # {})
       /\ u = Learn(d, r[k], o)

LEMMA ProcessDataCases ==
  ASSUME NEW me, NEW t, NEW r \in Seq(Entry), NEW o
  PROVE  Parsed(ProcessData(me, t, r, o), me, Disown(t, o), r, o)
<1> DEFINE d == Disown(t, o)
           S == Settling(me, d, r)
<1>1. CASE S = {}
  BY <1>1 DEF ProcessData, Parsed
<1>2. CASE S # {}
  <2>1. S \subseteq DOMAIN r /\ DOMAIN r \subseteq Nat
    BY DEF Settling, Usable
  <2>2. S \subseteq Nat
    BY <2>1
  <2>3. Min(S) \in S
    BY <1>2, <2>2, MinIsLeast
  <2>4. ProcessData(me, t, r, o) = Learn(d, r[Min(S)], o)
    BY <1>2 DEF ProcessData
  <2>5. r[Min(S)] \in Entry
    BY <2>1, <2>3
  <2> QED BY <2>3, <2>4, <2>5 DEF Settling, Usable, Parsed
<1> QED BY <1>1, <1>2 DEF Parsed

LEMMA DisownSlots ==
  ASSUME NEW t \in Table, NEW o
  PROVE  /\ Disown(t, o) \in Table
         /\ \A i \in Slots :
              /\ Disown(t, o)[i].inUse <=> t[i].inUse /\ t[i].owner # o
              /\ Disown(t, o)[i].id = t[i].id
              /\ Disown(t, o)[i].trusted = t[i].trusted
              /\ Disown(t, o)[i].owner = t[i].owner
              /\ Disown(t, o)[i].hops = t[i].hops
              /\ Disown(t, o)[i].weight = t[i].weight
  BY DEF Disown, Table, Package

LEMMA ProcessDataType ==
  ASSUME NEW me, NEW t \in Table, NEW r \in Seq(Entry), NEW o \in Addr
  PROVE  ProcessData(me, t, r, o) \in Table
<1>1. Disown(t, o) \in Table
  BY DisownSlots
<1>2. ASSUME NEW d \in Table, NEW e \in Entry, e.hops < MAX_HOPS,
             Matching(d, e.id) # {} \/ Free(d) # {}
      PROVE  Learn(d, e, o) \in Table
  <2>1. CASE \E i \in Slots : Learn(d, e, o) = [d EXCEPT ![i] = Redirected(@, e, o)]
    BY <1>2, <2>1, LearntPackage DEF Table
  <2>2. CASE \E i \in Slots : Learn(d, e, o) = [d EXCEPT ![i] = Stored(@, e, o)]
    BY <1>2, <2>2, LearntPackage DEF Table
  <2>3. CASE Learn(d, e, o) = d
    BY <2>3
  <2> QED BY <1>2, <2>1, <2>2, <2>3, LearnCases
<1> DEFINE d == Disown(t, o)
           u == ProcessData(me, t, r, o)
<1>3. Parsed(u, me, d, r, o)
  BY ProcessDataCases
<1> HIDE DEF d, u
<1>4. CASE u = d
  BY <1>1, <1>4 DEF d, u
<1>5. CASE u # d
  <2>1. PICK k \in DOMAIN r :
          /\ r[k] \in Entry /\ r[k].id # me /\ r[k].hops < MAX_HOPS
          /\ (Matching(d, r[k].id) # {} \/ Free(d) # {})
          /\ u = Learn(d, r[k], o)
    BY <1>3, <1>5, Zenon DEF Parsed
  <2> QED BY <1>1, <1>2, <2>1 DEF d, u
<1> QED BY <1>4, <1>5

LEMMA ProcessDataUnambiguous ==
  ASSUME NEW me, NEW t \in Table, NEW r \in Seq(Entry), NEW o \in Addr, Unambiguous(t)
  PROVE  Unambiguous(ProcessData(me, t, r, o))
<1>1. Disown(t, o) \in Table /\ Unambiguous(Disown(t, o))
  <2>1. \A i \in Slots : \A k \in 0 .. i - 1 : k \in Slots
    BY TableAssumption DEF Slots
  <2> QED BY <2>1, DisownSlots DEF Unambiguous
<1>2. ASSUME NEW d \in Table, Unambiguous(d), NEW e \in Entry,
             Matching(d, e.id) # {} \/ Free(d) # {}
      PROVE  Unambiguous(Learn(d, e, o))
  <2> DEFINE u == Learn(d, e, o)
  <2> SUFFICES ASSUME NEW i \in Slots, u[i].inUse, NEW k \in 0 .. i - 1
               PROVE  u[k].id # u[i].id
    BY DEF Unambiguous
  <2>0. k \in Slots /\ k # i
    BY TableAssumption DEF Slots
  <2>1. ASSUME NEW m \in Slots, u = [d EXCEPT ![m] = Redirected(@, e, o)]
        PROVE  u[k].id # u[i].id
    <3>1. \A n \in Slots : u[n].id = d[n].id /\ u[n].inUse = d[n].inUse
      BY <2>1 DEF Table, Redirected, Package
    <3> QED BY <1>2, <2>0, <3>1 DEF Unambiguous
  <2>2. ASSUME NEW m \in Slots, Matching(d, e.id) = {}, ~ d[m].inUse,
               \A n \in 0 .. m - 1 : n \in Slots /\ d[n].inUse,
               u = [d EXCEPT ![m] = Stored(@, e, o)]
        PROVE  u[k].id # u[i].id
    <3>1. u[m].id = e.id /\ \A n \in Slots : n # m => u[n] = d[n]
      BY <2>2 DEF Table, Stored, Package
    <3>2. \A n \in Slots : d[n].inUse => d[n].id # e.id
      BY <2>2 DEF Matching
    <3>3. CASE i = m
      BY <2>0, <2>2, <3>1, <3>2, <3>3
    <3>4. CASE i # m /\ k = m
      BY <2>0, <3>1, <3>2, <3>4
    <3>5. CASE i # m /\ k # m
      BY <1>2, <2>0, <3>1, <3>5 DEF Unambiguous
    <3> QED BY <3>3, <3>4, <3>5
  <2>3. CASE u = d
    BY <1>2, <2>3 DEF Unambiguous
  <2> QED BY <1>2, <2>1, <2>2, <2>3, LearnCases
<1> DEFINE d == Disown(t, o)
           u == ProcessData(me, t, r, o)
<1>3. Parsed(u, me, d, r, o)
  BY ProcessDataCases
<1> HIDE DEF d, u
<1>4. CASE u = d
  BY <1>1, <1>4 DEF d, u
<1>5. CASE u # d
  <2>1. PICK k \in DOMAIN r :
          /\ r[k] \in Entry /\ r[k].id # me /\ r[k].hops < MAX_HOPS
          /\ (Matching(d, r[k].id) # {} \/ Free(d) # {})
          /\ u = Learn(d, r[k], o)
    BY <1>3, <1>5, Zenon DEF Parsed
  <2> QED BY <1>1, <1>2, <2>1 DEF d, u
<1> QED BY <1>4, <1>5

LEMMA ProcessDataNamed ==
  ASSUME NEW me, NEW t \in Table, NEW r \in Seq(Entry), NEW o \in Addr, Named(me, t)
  PROVE  Named(me, ProcessData(me, t, r, o))
<1>1. Disown(t, o) \in Table /\ Named(me, Disown(t, o))
  BY DisownSlots DEF Named
<1>2. ASSUME NEW d \in Table, Named(me, d), NEW e \in Entry, e.id # me,
             Matching(d, e.id) # {} \/ Free(d) # {}
      PROVE  Named(me, Learn(d, e, o))
  <2>1. e.id \in Peers(me)
    BY <1>2 DEF Entry, Peers
  <2>2. CASE \E i \in Slots : /\ d[i].inUse
                             /\ Learn(d, e, o) = [d EXCEPT ![i] = Redirected(@, e, o)]
    BY <1>2, <2>2 DEF Table, Redirected, Package, Named
  <2>3. CASE \E i \in Slots : Learn(d, e, o) = [d EXCEPT ![i] = Stored(@, e, o)]
    BY <1>2, <2>1, <2>3 DEF Table, Stored, Package, Named
  <2>4. CASE Learn(d, e, o) = d
    BY <1>2, <2>4
  <2> QED BY <1>2, <2>2, <2>3, <2>4, LearnCases
<1> DEFINE d == Disown(t, o)
           u == ProcessData(me, t, r, o)
<1>3. Parsed(u, me, d, r, o)
  BY ProcessDataCases
<1> HIDE DEF d, u
<1>4. CASE u = d
  BY <1>1, <1>4 DEF d, u
<1>5. CASE u # d
  <2>1. PICK k \in DOMAIN r :
          /\ r[k] \in Entry /\ r[k].id # me /\ r[k].hops < MAX_HOPS
          /\ (Matching(d, r[k].id) # {} \/ Free(d) # {})
          /\ u = Learn(d, r[k], o)
    BY <1>3, <1>5, Zenon DEF Parsed
  <2> QED BY <1>1, <1>2, <2>1 DEF d, u
<1> QED BY <1>4, <1>5

\* processData makes children of an owner that vouches for them, and turns no
\* entry that vouches for others into a child: a trusted direct entry is one
\* hop away, which no reported route improves on.
LEMMA ProcessDataOwned ==
  ASSUME NEW me, NEW t \in Table, NEW r \in Seq(Entry), NEW o \in Peers(me), Owned(t),
         \A k \in DOMAIN r : r[k].id # o,
         NEW v \in Slots, Vouching(t, v), t[v].id = o
  PROVE  Owned(ProcessData(me, t, r, o))
<1> DEFINE d == Disown(t, o)
<1>1. d \in Table /\ o \in Addr /\ o # NoAddr
  BY DisownSlots, AddressAssumption DEF Peers
<1>2. \A j \in Slots : Vouching(t, j) => Vouching(d, j) /\ d[j].id = t[j].id
  BY <1>1, DisownSlots DEF Vouching
<1>3. Owned(d)
  BY <1>2, DisownSlots DEF Owned
<1>4. ASSUME NEW e \in Entry, e.id # o, Matching(d, e.id) # {} \/ Free(d) # {}
      PROVE  Owned(Learn(d, e, o))
  <2> DEFINE u == Learn(d, e, o)
  <2> SUFFICES ASSUME NEW i \in Slots, u[i].inUse
               PROVE  IF u[i].owner = NoAddr THEN u[i].hops = 1
                      ELSE \E j \in Slots : Vouching(u, j) /\ u[j].id = u[i].owner
    BY DEF Owned
  <2>0. OneSlotLearned(d, e, o, u)
    <3> HIDE DEF d
    <3> QED BY <1>1, <1>4, LearnSlot
  <2> HIDE DEF d, u
  <2>1. ASSUME NEW m \in Slots, m # v, ~ Vouching(d, m),
               u[m].owner = o, \A n \in Slots : n # m => u[n] = d[n]
        PROVE  IF u[i].owner = NoAddr THEN u[i].hops = 1
               ELSE \E j \in Slots : Vouching(u, j) /\ u[j].id = u[i].owner
    <3>1. \A j \in Slots : Vouching(d, j) => Vouching(u, j) /\ u[j].id = d[j].id
      BY <2>1 DEF Vouching
    <3>2. CASE i = m
      BY <1>1, <1>2, <2>1, <3>1, <3>2
    <3>3. CASE i # m
      BY <1>3, <2>1, <3>1, <3>3 DEF Owned
    <3> QED BY <3>2, <3>3
  <2>2. CASE \E m \in Slots : /\ d[m].inUse /\ d[m].id = e.id
                             /\ (d[m].hops > e.hops + 1 \/ ~ d[m].trusted)
                             /\ u = [d EXCEPT ![m] = Redirected(@, e, o)]
    <3>1. PICK m \in Slots : /\ d[m].inUse /\ d[m].id = e.id
                            /\ (d[m].hops > e.hops + 1 \/ ~ d[m].trusted)
                            /\ u = [d EXCEPT ![m] = Redirected(@, e, o)]
      BY <2>2
    <3>2. d[m].owner = NoAddr => ~ (d[m].hops > e.hops + 1)
      BY <1>3, <3>1 DEF Owned, Entry
    <3>3. ~ Vouching(d, m)
      BY <3>1, <3>2 DEF Vouching
    <3>4. m # v
      BY <1>2, <1>4, <3>1
    <3>5. u[m].owner = o /\ \A n \in Slots : n # m => u[n] = d[n]
      BY <1>1, <3>1 DEF Table, Redirected, Package
    <3> QED BY <2>1, <3>3, <3>4, <3>5
  <2>3. CASE \E m \in Slots : ~ d[m].inUse /\ u = [d EXCEPT ![m] = Stored(@, e, o)]
    <3>1. PICK m \in Slots : ~ d[m].inUse /\ u = [d EXCEPT ![m] = Stored(@, e, o)]
      BY <2>3
    <3>2. m # v /\ ~ Vouching(d, m)
      BY <1>2, <3>1 DEF Vouching
    <3>3. u[m].owner = o /\ \A n \in Slots : n # m => u[n] = d[n]
      BY <1>1, <3>1 DEF Table, Stored, Package
    <3> QED BY <2>1, <3>2, <3>3
  <2>4. CASE u = d
    BY <1>3, <2>4 DEF Owned
  <2> QED BY <2>0, <2>2, <2>3, <2>4 DEF OneSlotLearned
<1> DEFINE w == ProcessData(me, t, r, o)
<1>5. Parsed(w, me, d, r, o)
  BY ProcessDataCases
<1> HIDE DEF d, w
<1>6. CASE w = d
  BY <1>3, <1>6 DEF w
<1>7. CASE w # d
  <2>1. PICK k \in DOMAIN r :
          /\ r[k] \in Entry /\ (Matching(d, r[k].id) # {} \/ Free(d) # {})
          /\ w = Learn(d, r[k], o)
    BY <1>5, <1>7, Zenon DEF Parsed
  <2> QED BY <1>4, <2>1 DEF w
<1> QED BY <1>6, <1>7

-----------------------------------------------------------------------------
\* What the timer does.

LEMMA LowerWeightsSlots ==
  ASSUME NEW t \in Table
  PROVE  /\ LowerWeights(t) \in Table
         /\ \A i \in Slots :
              /\ LowerWeights(t)[i].id = t[i].id
              /\ LowerWeights(t)[i].owner = t[i].owner
              /\ LowerWeights(t)[i].hops = t[i].hops
              /\ LowerWeights(t)[i].weight = Aged(t, i)
              /\ LowerWeights(t)[i].inUse <=>
                   t[i].inUse /\ i \notin Expired(t) \cup Orphaned(t)
              /\ LowerWeights(t)[i].trusted <=>
                   (t[i].trusted \/ i \in Promoted(t)) /\ i \notin Demoted(t)
<1>1. ASSUME NEW i \in Slots
      PROVE  /\ LowerWeights(t)[i] \in Package
             /\ LowerWeights(t)[i].id = t[i].id
             /\ LowerWeights(t)[i].owner = t[i].owner
             /\ LowerWeights(t)[i].hops = t[i].hops
             /\ LowerWeights(t)[i].weight = Aged(t, i)
             /\ LowerWeights(t)[i].inUse <=>
                  t[i].inUse /\ i \notin Expired(t) \cup Orphaned(t)
             /\ LowerWeights(t)[i].trusted <=>
                  (t[i].trusted \/ i \in Promoted(t)) /\ i \notin Demoted(t)
  <2> DEFINE used == t[i].inUse /\ i \notin Expired(t) \cup Orphaned(t)
             trust == (t[i].trusted \/ i \in Promoted(t)) /\ i \notin Demoted(t)
  <2>1. t[i] \in Package
    BY DEF Table
  <2>2. Aged(t, i) \in 0 .. WEIGHT_MAX
    BY <2>1, TableAssumption DEF Aged, Package
  <2>3. LowerWeights(t)[i] = [t[i] EXCEPT !.weight = Aged(t, i), !.inUse = used,
                                          !.trusted = trust]
    BY DEF LowerWeights
  <2>4. used \in BOOLEAN /\ trust \in BOOLEAN
    OBVIOUS
  <2>5. /\ used <=> (t[i].inUse /\ i \notin Expired(t) \cup Orphaned(t))
        /\ trust <=> ((t[i].trusted \/ i \in Promoted(t)) /\ i \notin Demoted(t))
    OBVIOUS
  <2> HIDE DEF used, trust
  <2>6. /\ LowerWeights(t)[i] \in Package
        /\ LowerWeights(t)[i].id = t[i].id
        /\ LowerWeights(t)[i].owner = t[i].owner
        /\ LowerWeights(t)[i].hops = t[i].hops
        /\ LowerWeights(t)[i].weight = Aged(t, i)
        /\ LowerWeights(t)[i].inUse = used
        /\ LowerWeights(t)[i].trusted = trust
    BY <2>1, <2>2, <2>3, <2>4 DEF Package
  <2> QED BY <2>5, <2>6, Zenon
<1>2. LowerWeights(t) \in Table
  BY <1>1, Zenon DEF LowerWeights, Table
<1> QED BY <1>1, <1>2

\* An owner of a child outlives the tick, or its children do not.
LEMMA LowerWeightsOwned ==
  ASSUME NEW me, NEW t \in Table, Owned(t), Named(me, t)
  PROVE  Owned(LowerWeights(t))
<1> DEFINE u == LowerWeights(t)
<1> SUFFICES ASSUME NEW i \in Slots, u[i].inUse
             PROVE  IF u[i].owner = NoAddr THEN u[i].hops = 1
                    ELSE \E j \in Slots : Vouching(u, j) /\ u[j].id = u[i].owner
  BY DEF Owned
<1>1. t[i].inUse /\ i \notin Orphaned(t)
  BY LowerWeightsSlots
<1>2. CASE t[i].owner = NoAddr
  BY <1>1, <1>2, LowerWeightsSlots DEF Owned
<1>3. CASE t[i].owner # NoAddr
  <2>1. PICK j \in Slots : Vouching(t, j) /\ t[j].id = t[i].owner
    BY <1>1, <1>3 DEF Owned
  <2>2. j \in Direct(t) /\ Aged(t, j) \in Nat /\ Aged(t, j) # 0
    BY <2>1, Fields DEF Vouching, Direct, Aged
  <2>3. j \notin Demoted(t)
    BY <1>1, <2>1 DEF Orphaned, Children
  <2>4. j \in Promoted(t) /\ j \notin Expired(t)
    BY <2>2, <2>3 DEF Demoted, Expired
  <2>5. u[j].weight > 1
    BY <2>2, <2>4, LowerWeightsSlots, TableAssumption DEF Promoted
  <2>6. j \notin Orphaned(t)
    BY <2>1, AddressAssumption DEF Orphaned, Children, Demoted, Direct, Named,
                                   Vouching, Peers
  <2>7. Vouching(u, j) /\ u[j].id = u[i].owner
    BY <2>1, <2>3, <2>4, <2>5, <2>6, LowerWeightsSlots DEF Vouching
  <2> QED BY <1>3, <2>7, LowerWeightsSlots
<1> QED BY <1>2, <1>3

-----------------------------------------------------------------------------
\* The four facts that carry each other: Owned needs Unambiguous (the sender
\* that checkTrusted accepts is the entry updateWeight just raised) and both
\* need the types.
Sound(me, t) == t \in Table /\ Named(me, t) /\ Unambiguous(t) /\ Owned(t)

LEMMA EmptySound == \A me : Sound(me, EmptyTable)
<1>1. EmptyTable \in Table
  BY TableAssumption DEF EmptyTable, Table, Package
<1>2. \A i \in Slots : ~ EmptyTable[i].inUse
  BY DEF EmptyTable
<1> QED BY <1>1, <1>2 DEF Sound, Named, Unambiguous, Owned

LEMMA HeardSound ==
  ASSUME NEW me, NEW t, Sound(me, t), NEW a \in Peers(me)
  PROVE  Sound(me, UpdateWeight(t, a))
<1>1. a \in Addr
  BY DEF Peers
<1> QED BY <1>1, UpdateWeightType, UpdateWeightNamed, UpdateWeightUnambiguous,
           UpdateWeightOwned DEF Sound

\* A trusted sender's report, which never lists the sender itself.
LEMMA ReportSound ==
  ASSUME NEW me, NEW t, Sound(me, t), NEW a \in Peers(me), NEW r \in Seq(Entry),
         \A k \in DOMAIN r : r[k].id # a, CheckTrusted(UpdateWeight(t, a), a)
  PROVE  Sound(me, ProcessData(me, UpdateWeight(t, a), r, a))
<1> DEFINE u == UpdateWeight(t, a)
<1>1. a \in Addr
  BY DEF Peers
<1>2. Sound(me, u)
  BY HeardSound
<1>3. PICK v \in Slots : Vouching(u, v) /\ u[v].id = a
  BY <1>1, TrustedSenderVouches DEF Sound
<1> HIDE DEF u
<1>4. u \in Table /\ Named(me, u) /\ Unambiguous(u) /\ Owned(u)
  BY <1>2 DEF Sound
<1>5. ProcessData(me, u, r, a) \in Table
  BY <1>1, <1>4, ProcessDataType
<1>6. Named(me, ProcessData(me, u, r, a))
  BY <1>1, <1>4, ProcessDataNamed
<1>7. Unambiguous(ProcessData(me, u, r, a))
  BY <1>1, <1>4, ProcessDataUnambiguous
<1>8. Owned(ProcessData(me, u, r, a))
  BY <1>1, <1>3, <1>4, ProcessDataOwned
<1>9. Sound(me, ProcessData(me, u, r, a))
  BY <1>5, <1>6, <1>7, <1>8 DEF Sound
<1> QED BY <1>9 DEF u

LEMMA TickSound ==
  ASSUME NEW me, NEW t, Sound(me, t)
  PROVE  Sound(me, LowerWeights(t))
<1>1. LowerWeights(t) \in Table
  BY LowerWeightsSlots DEF Sound
<1>2. Named(me, LowerWeights(t)) /\ Unambiguous(LowerWeights(t))
  <2>1. \A i \in Slots : \A k \in 0 .. i - 1 : k \in Slots
    BY TableAssumption DEF Slots
  <2> QED BY <2>1, LowerWeightsSlots DEF Sound, Named, Unambiguous
<1>3. Owned(LowerWeights(t))
  BY LowerWeightsOwned DEF Sound
<1> QED BY <1>1, <1>2, <1>3 DEF Sound

LEMMA RouteDirect ==
  ASSUME NEW me, NEW t, Sound(me, t), NEW a \in Addr, NextHop(t, a) # NoAddr
  PROVE  \E i \in Direct(t) : t[i].id = NextHop(t, a)
<1>1. Matching(t, a) # {}
  BY DEF NextHop
<1>2. PICK i \in Matching(t, a) :
        NextHop(t, a) = IF t[i].owner = NoAddr THEN a ELSE t[i].owner
  BY <1>1, FirstSlot DEF NextHop, Matching
<1>3. i \in Slots /\ t[i].inUse /\ t[i].id = a
  BY <1>2 DEF Matching
<1>4. CASE t[i].owner = NoAddr
  BY <1>2, <1>3, <1>4 DEF Direct
<1>5. CASE t[i].owner # NoAddr
  BY <1>2, <1>3, <1>5 DEF Sound, Owned, Vouching, Direct
<1> QED BY <1>4, <1>5
-----------------------------------------------------------------------------
\* Messages of pairs, as they are collected and read.

Pair == Entry \cup {Terminator}

LEMMA TerminatorApart == Terminator \notin Entry /\ Terminator \in Pair
BY AddressAssumption DEF Terminator, Entry, Pair

\* The report in a buffer: its entries stand at the same places in the buffer.
LEMMA ReportWithin ==
  ASSUME NEW d \in Seq(Pair)
  PROVE  /\ Report(d) \in Seq(Entry)
         /\ \A k \in DOMAIN Report(d) : k \in DOMAIN d /\ Report(d)[k] = d[k]
<1> DEFINE ends == {k \in DOMAIN d : d[k] = Terminator}
<1>1. CASE ends = {}
  <2>1. Report(d) = d
    BY <1>1 DEF Report
  <2>2. \A k \in 1 .. Len(d) : d[k] \in Entry
    BY <1>1 DEF Pair
  <2> QED BY <2>1, <2>2
<1>2. CASE ends # {}
  <2>1. ends \subseteq Nat
    OBVIOUS
  <2>2. /\ Min(ends) \in 1 .. Len(d)
        /\ \A k \in 1 .. Min(ends) - 1 : k \in 1 .. Len(d) /\ k \notin ends
    <3>1. Min(ends) \in ends /\ \A j \in ends : Min(ends) <= j
      BY <1>2, <2>1, MinIsLeast
    <3> DEFINE m == Min(ends)
    <3>2. m \in 1 .. Len(d) /\ \A j \in ends : m <= j
      BY <3>1
    <3> HIDE DEF m
    <3>3. \A k \in 1 .. m - 1 : k \in 1 .. Len(d) /\ ~ (m <= k)
      BY <3>2
    <3> HIDE DEF ends
    <3>4. m \in 1 .. Len(d) /\ \A k \in 1 .. m - 1 : k \in 1 .. Len(d) /\ k \notin ends
      BY <3>2, <3>3
    <3> QED BY <3>4 DEF m
  <2>3. Report(d) = SubSeq(d, 1, Min(ends) - 1)
    BY <1>2 DEF Report
  <2> DEFINE n == Min(ends) - 1
  <2>4. n \in 0 .. Len(d) /\ Report(d) = SubSeq(d, 1, n)
        /\ \A k \in 1 .. n : k \in 1 .. Len(d) /\ k \notin ends
    BY <2>2, <2>3
  <2> HIDE DEF n
  <2>5. \A k \in 1 .. n : d[k] \in Entry
    BY <2>4 DEF Pair
  <2>6. Report(d) = [k \in 1 .. n |-> d[k]]
    BY <2>4
  <2> QED BY <2>4, <2>5, <2>6
<1> QED BY <1>1, <1>2

\* The message f as it is added to the pairs d of a buffer.
Added(d, f) ==
  LET all == d \o Append(f.entries, Terminator)
  IN  SubSeq(all, 1, Min({PAIRS, Len(all)}))

LEMMA AddedIs ==
  ASSUME NEW d \in Seq(Pair), NEW f, f.entries \in Seq(Entry)
  PROVE  /\ Added(d, f) \in Seq(Pair)
         /\ Len(Added(d, f)) = IF PAIRS <= Len(d) + Len(f.entries) + 1 THEN PAIRS
                               ELSE Len(d) + Len(f.entries) + 1
         /\ \A k \in 1 .. Len(Added(d, f)) :
              Added(d, f)[k] = IF k <= Len(d) THEN d[k]
                               ELSE IF k <= Len(d) + Len(f.entries)
                               THEN f.entries[k - Len(d)] ELSE Terminator
<1> DEFINE e == f.entries
           x == Append(e, Terminator)
           all == d \o x
           n == Min({PAIRS, Len(all)})
<1>1. e \in Seq(Pair) /\ Terminator \in Pair
  BY TerminatorApart DEF Pair
<1> HIDE DEF e
<1>2. x \in Seq(Pair) /\ Len(x) = Len(e) + 1 /\ Len(e) \in Nat /\ Len(d) \in Nat
      /\ \A k \in 1 .. Len(e) + 1 : x[k] = IF k <= Len(e) THEN e[k] ELSE Terminator
  BY <1>1
<1> HIDE DEF x
<1>3. all \in Seq(Pair) /\ Len(all) = Len(d) + Len(e) + 1
      /\ \A k \in 1 .. Len(all) : all[k] = IF k <= Len(d) THEN d[k] ELSE x[k - Len(d)]
  <2>1. all \in Seq(Pair) /\ Len(all) = Len(d) + Len(x)
    BY <1>2
  <2>2. \A k \in 1 .. Len(d) + Len(x) : all[k] = IF k <= Len(d) THEN d[k] ELSE x[k - Len(d)]
    BY <1>2
  <2> QED BY <1>2, <2>1, <2>2
<1>4. n = (IF PAIRS <= Len(all) THEN PAIRS ELSE Len(all)) /\ n \in 0 .. Len(all)
  BY <1>2, <1>3, MinOfTwo, PairsAssumption
<1> HIDE DEF all, n
<1>5. Added(d, f) = SubSeq(all, 1, n)
  BY DEF Added, all, n, x, e
<1>6. SubSeq(all, 1, n) \in Seq(Pair) /\ Len(SubSeq(all, 1, n)) = n
      /\ \A k \in 1 .. n : SubSeq(all, 1, n)[k] = all[k]
  BY <1>3, <1>4
<1>7. \A k \in 1 .. n : all[k] = IF k <= Len(d) THEN d[k]
                                 ELSE IF k <= Len(d) + Len(e) THEN e[k - Len(d)]
                                 ELSE Terminator
  <2> SUFFICES ASSUME NEW k \in 1 .. n
               PROVE  all[k] = IF k <= Len(d) THEN d[k]
                               ELSE IF k <= Len(d) + Len(e) THEN e[k - Len(d)]
                               ELSE Terminator
    OBVIOUS
  <2>1. k \in 1 .. Len(all)
    BY <1>4
  <2>2. CASE k <= Len(d)
    BY <1>3, <2>1, <2>2
  <2>3. CASE ~ k <= Len(d)
    <3>1. k - Len(d) \in 1 .. Len(e) + 1 /\ all[k] = x[k - Len(d)]
      BY <1>2, <1>3, <2>1, <2>3
    <3> QED BY <1>2, <2>3, <3>1
  <2> QED BY <2>2, <2>3
<1> QED BY <1>2, <1>3, <1>4, <1>5, <1>6, <1>7 DEF e

-----------------------------------------------------------------------------
\* What a node reports. Every entry of it is at least one hop away.

Hopped(t) == \A i \in Slots : t[i].inUse => t[i].hops >= 1

LEMMA EmptyHopped == Hopped(EmptyTable)
BY DEF Hopped, EmptyTable

LEMMA HeardHopped ==
  ASSUME NEW t \in Table, Hopped(t), NEW a \in Addr
  PROVE  Hopped(UpdateWeight(t, a))
<1> DEFINE u == UpdateWeight(t, a)
<1>1. CASE \E i \in Slots : u = [t EXCEPT ![i] = Heard(@)]
  BY <1>1, HeardPackage DEF Table, Hopped
<1>2. CASE \E i \in Slots : u = [t EXCEPT ![i] = Newcomer(@, a)]
  BY <1>2, NewcomerPackage DEF Table, Hopped
<1>3. CASE u = t
  BY <1>3
<1> QED BY <1>1, <1>2, <1>3, UpdateWeightCases

LEMMA ReportHopped ==
  ASSUME NEW me, NEW t \in Table, Hopped(t), NEW r \in Seq(Entry), NEW o \in Addr
  PROVE  Hopped(ProcessData(me, t, r, o))
<1> DEFINE d == Disown(t, o)
<1>1. d \in Table /\ Hopped(d)
  BY DisownSlots DEF Hopped
<1> HIDE DEF d
<1>2. ASSUME NEW e \in Entry, Matching(d, e.id) # {} \/ Free(d) # {}
      PROVE  Hopped(Learn(d, e, o))
  <2> DEFINE u == Learn(d, e, o)
  <2>1. ASSUME NEW m \in Slots,
               u = [d EXCEPT ![m] = Redirected(@, e, o)]
               \/ u = [d EXCEPT ![m] = Stored(@, e, o)]
        PROVE  Hopped(u)
    <3>1. u[m].hops = e.hops + 1 /\ \A n \in Slots : n # m => u[n] = d[n]
      <4>1. CASE u = [d EXCEPT ![m] = Redirected(@, e, o)]
        BY <1>1, <4>1 DEF Table, Redirected, Package
      <4>2. CASE u = [d EXCEPT ![m] = Stored(@, e, o)]
        BY <1>1, <4>2 DEF Table, Stored, Package
      <4> QED BY <2>1, <4>1, <4>2
    <3>2. u[m].hops >= 1
      BY <3>1 DEF Entry
    <3> HIDE DEF u
    <3> QED BY <1>1, <3>1, <3>2 DEF Hopped
  <2>2. OneSlotLearned(d, e, o, u)
    BY <1>1, <1>2, LearnSlot
  <2> HIDE DEF u
  <2>3. Hopped(u)
    BY <1>1, <2>1, <2>2 DEF OneSlotLearned
  <2> QED BY <2>3 DEF u
<1>3. Parsed(ProcessData(me, t, r, o), me, d, r, o)
  BY ProcessDataCases DEF d
<1> QED BY <1>1, <1>2, <1>3 DEF Parsed

LEMMA TickHopped ==
  ASSUME NEW t \in Table, Hopped(t)
  PROVE  Hopped(LowerWeights(t))
BY LowerWeightsSlots DEF Hopped

\* The loop of createSnapshot over the first m slots.
UpTo(f, t, m) ==
  f = [n \in 0 .. m |->
         IF n = 0 THEN <<>>
         ELSE IF t[n - 1].inUse /\ t[n - 1].trusted
         THEN Append(f[n - 1], [id |-> t[n - 1].id, hops |-> t[n - 1].hops])
         ELSE f[n - 1]]

LEMMA UpToExists ==
  ASSUME NEW t, NEW n \in Nat
  PROVE  \E f : UpTo(f, t, n)
<1> DEFINE S == {m \in Nat : \E f : UpTo(f, t, m)}
           Next1(f, m) ==
             IF t[m].inUse /\ t[m].trusted
             THEN Append(f[m], [id |-> t[m].id, hops |-> t[m].hops]) ELSE f[m]
<1>1. 0 \in S
  <2>1. UpTo([k \in 0 .. 0 |-> <<>>], t, 0)
    BY DEF UpTo
  <2> QED BY <2>1
<1>2. ASSUME NEW m \in Nat, m \in S  PROVE m + 1 \in S
  <2>1. PICK f : UpTo(f, t, m)
    BY <1>2
  <2> DEFINE g == [k \in 0 .. m + 1 |-> IF k = m + 1 THEN Next1(f, m) ELSE f[k]]
  <2>2. ASSUME NEW k \in 0 .. m + 1
        PROVE  g[k] = IF k = 0 THEN <<>>
                      ELSE IF t[k - 1].inUse /\ t[k - 1].trusted
                      THEN Append(g[k - 1], [id |-> t[k - 1].id, hops |-> t[k - 1].hops])
                      ELSE g[k - 1]
    <3>1. CASE k = m + 1
      <4>1. g[k] = Next1(f, m) /\ g[k - 1] = f[m] /\ k - 1 = m /\ k # 0
        BY <3>1
      <4> HIDE DEF g
      <4> QED BY <4>1
    <3>2. CASE k \in 0 .. m
      <4>1. g[k] = f[k] /\ (k # 0 => g[k - 1] = f[k - 1])
        BY <3>2
      <4>2. f[k] = IF k = 0 THEN <<>>
                   ELSE IF t[k - 1].inUse /\ t[k - 1].trusted
                   THEN Append(f[k - 1], [id |-> t[k - 1].id, hops |-> t[k - 1].hops])
                   ELSE f[k - 1]
        BY <2>1, <3>2, Zenon DEF UpTo
      <4> HIDE DEF g
      <4> QED BY <4>1, <4>2
    <3> QED BY <3>1, <3>2
  <2>3. g = [k \in 0 .. m + 1 |-> g[k]]
    OBVIOUS
  <2> HIDE DEF g
  <2>4. UpTo(g, t, m + 1)
    BY <2>2, <2>3 DEF UpTo
  <2> QED BY <2>4
<1> HIDE DEF S
<1>3. Nat \subseteq S
  BY <1>1, <1>2, SetInduction
<1> QED BY <1>3 DEF S

\* The pairs from the first n slots: each of an entry in use, no two of one node.
Collects(a, t, n) ==
  /\ a \in Seq(Entry) /\ Len(a) <= n
  /\ \A k \in DOMAIN a : \E i \in 0 .. n - 1 :
       t[i].inUse /\ t[i].id = a[k].id /\ t[i].hops = a[k].hops
  /\ \A j, k \in DOMAIN a : a[j].id = a[k].id => j = k

LEMMA CollectsMore ==
  ASSUME NEW me, NEW t, Sound(me, t), Hopped(t), NEW n \in Slots, NEW a, Collects(a, t, n),
         t[n].inUse
  PROVE  Collects(Append(a, [id |-> t[n].id, hops |-> t[n].hops]), t, n + 1)
<1> DEFINE e == [id |-> t[n].id, hops |-> t[n].hops]
           b == Append(a, e)
<1>1. n \in Nat /\ n < MAX_SENDERS
  BY TableAssumption DEF Slots
<1>2. e \in Entry
  <2>1. t[n].id \in Addr
    BY DEF Sound, Named, Peers
  <2>2. t[n].hops \in 1 .. MAX_HOPS
    BY Fields, TableAssumption DEF Sound, Hopped
  <2> QED BY <2>1, <2>2 DEF Entry
<1>3. a \in Seq(Entry) /\ Len(a) <= n /\ Len(a) \in Nat
  BY DEF Collects
<1>4. ASSUME NEW k \in DOMAIN a  PROVE a[k].id # t[n].id
  <2>1. PICK i \in 0 .. n - 1 : t[i].inUse /\ t[i].id = a[k].id
    BY DEF Collects
  <2> QED BY <2>1 DEF Sound, Unambiguous
<1> HIDE DEF e
<1>5. /\ b \in Seq(Entry) /\ Len(b) = Len(a) + 1
      /\ b[Len(a) + 1] = e /\ \A k \in DOMAIN a : b[k] = a[k]
      /\ \A k \in DOMAIN b : k \in DOMAIN a \/ k = Len(a) + 1
  BY <1>2, <1>3
<1>6. e.id = t[n].id /\ e.hops = t[n].hops
  BY DEF e
<1> HIDE DEF b
<1>7. ASSUME NEW k \in DOMAIN b
      PROVE  \E i \in 0 .. (n + 1) - 1 :
               t[i].inUse /\ t[i].id = b[k].id /\ t[i].hops = b[k].hops
  <2>1. CASE k \in DOMAIN a
    <3>1. PICK i \in 0 .. n - 1 :
            t[i].inUse /\ t[i].id = a[k].id /\ t[i].hops = a[k].hops
      BY <2>1 DEF Collects
    <3>2. i \in 0 .. (n + 1) - 1
      BY <1>1
    <3> QED BY <1>5, <2>1, <3>1, <3>2
  <2>2. CASE k = Len(a) + 1
    <3>1. n \in 0 .. (n + 1) - 1
      BY <1>1
    <3> QED BY <1>5, <1>6, <2>2, <3>1
  <2> QED BY <1>5, <2>1, <2>2
<1>8. ASSUME NEW j \in DOMAIN b, NEW k \in DOMAIN b, b[j].id = b[k].id  PROVE j = k
  <2>1. CASE j \in DOMAIN a /\ k \in DOMAIN a
    BY <1>5, <1>8, <2>1 DEF Collects
  <2>2. CASE j = Len(a) + 1 \/ k = Len(a) + 1
    BY <1>4, <1>5, <1>6, <1>8, <2>2
  <2> QED BY <1>5, <2>1, <2>2
<1>9. Len(b) <= n + 1
  BY <1>1, <1>3, <1>5
<1>10. Collects(b, t, n + 1)
  BY <1>5, <1>7, <1>8, <1>9 DEF Collects
<1> QED BY <1>10 DEF b, e

LEMMA AdvertisedIs ==
  ASSUME NEW me, NEW t, Sound(me, t), Hopped(t)
  PROVE  Collects(Advertised(t), t, MAX_SENDERS)
<1> DEFINE f == CHOOSE g : UpTo(g, t, MAX_SENDERS)
<1>1. MAX_SENDERS \in Nat
  BY TableAssumption
<1>2. UpTo(f, t, MAX_SENDERS)
  BY <1>1, UpToExists, Zenon
<1>3. Advertised(t) = f[MAX_SENDERS]
  BY Zenon DEF Advertised, UpTo
<1> HIDE DEF f
<1> DEFINE S == {n \in Nat : n <= MAX_SENDERS => Collects(f[n], t, n)}
<1>4. 0 \in S
  <2>1. f[0] = <<>>
    BY <1>1, <1>2 DEF UpTo
  <2>2. Collects(<<>>, t, 0)
    BY DEF Collects
  <2> QED BY <2>1, <2>2
<1>5. ASSUME NEW n \in Nat, n \in S  PROVE n + 1 \in S
  <2> SUFFICES ASSUME n + 1 <= MAX_SENDERS PROVE Collects(f[n + 1], t, n + 1)
    OBVIOUS
  <2>1. Collects(f[n], t, n) /\ n \in Slots
    BY <1>1, <1>5 DEF Slots
  <2>2. f[n + 1] = IF t[n].inUse /\ t[n].trusted
                   THEN Append(f[n], [id |-> t[n].id, hops |-> t[n].hops])
                   ELSE f[n]
    <3>1. n + 1 \in 0 .. MAX_SENDERS /\ n + 1 # 0 /\ (n + 1) - 1 = n
      BY <1>1
    <3>2. \A k \in 0 .. MAX_SENDERS : k # 0 =>
            f[k] = IF t[k - 1].inUse /\ t[k - 1].trusted
                   THEN Append(f[k - 1], [id |-> t[k - 1].id, hops |-> t[k - 1].hops])
                   ELSE f[k - 1]
      BY <1>2 DEF UpTo
    <3> QED BY <3>1, <3>2
  <2>3. CASE t[n].inUse /\ t[n].trusted
    BY <2>1, <2>2, <2>3, CollectsMore
  <2>4. CASE ~ (t[n].inUse /\ t[n].trusted)
    <3>1. f[n + 1] = f[n]
      BY <2>2, <2>4
    <3>2. \A i \in 0 .. n - 1 : i \in 0 .. (n + 1) - 1
      OBVIOUS
    <3>3. Len(f[n]) <= n + 1
      BY <2>1 DEF Collects
    <3> QED BY <2>1, <3>1, <3>2, <3>3 DEF Collects
  <2> QED BY <2>3, <2>4
<1> HIDE DEF S
<1>6. Nat \subseteq S
  BY <1>4, <1>5, SetInduction
<1>7. MAX_SENDERS \in S
  BY <1>1, <1>6
<1> QED BY <1>1, <1>3, <1>7 DEF S

\* Rounds up: one more pair is at most one more message.
LEMMA QuotientGrows ==
  ASSUME NEW p \in Nat \ {0}, NEW a \in Nat, NEW b \in Nat, a <= b
  PROVE  a \div p \in Nat /\ a \div p <= b \div p
<1> DEFINE q == a \div p
           r == b \div p
<1>1. q \in Nat /\ r \in Nat
  OBVIOUS
<1>2. q * p <= a /\ b < (r + 1) * p
  OBVIOUS
<1> HIDE DEF q, r
<1>3. ASSUME q > r  PROVE FALSE
  <2>1. (q - (r + 1)) * p >= 0
    BY <1>1, <1>3
  <2>2. q * p = (r + 1) * p + (q - (r + 1)) * p
    BY <1>1
  <2> QED BY <1>1, <1>2, <2>1, <2>2
<1>4. q <= r
  BY <1>1, <1>3
<1> QED BY <1>1, <1>4 DEF q, r

\* One message of the round: PAIRS pairs, or what is left of them.
LEMMA MessageIs ==
  ASSUME NEW a \in Seq(Entry), NEW c \in Nat \ {0}
  PROVE  LET m == SubSeq(a, (c - 1) * PAIRS + 1, Min({c * PAIRS, Len(a)}))
         IN  /\ m \in Seq(Entry)
             /\ \A j \in DOMAIN m : /\ j \in 1 .. PAIRS
                                    /\ (c - 1) * PAIRS + j \in DOMAIN a
                                    /\ m[j] = a[(c - 1) * PAIRS + j]
             /\ (c - 1) * PAIRS < Len(a) =>
                  /\ Len(m) \in 1 .. PAIRS
                  /\ c * PAIRS <= Len(a) => Len(m) = PAIRS
<1> DEFINE x == (c - 1) * PAIRS
           y == Min({c * PAIRS, Len(a)})
           m == SubSeq(a, x + 1, y)
<1>1. PAIRS \in Nat \ {0} /\ Len(a) \in Nat /\ c * PAIRS \in Nat /\ x \in Nat
  BY PairsAssumption
<1>2. c * PAIRS = x + PAIRS
  BY <1>1
<1>3. y = IF c * PAIRS <= Len(a) THEN c * PAIRS ELSE Len(a)
  BY <1>1, MinOfTwo
<1>4. y \in Nat /\ y <= Len(a) /\ y <= x + PAIRS
  BY <1>1, <1>2, <1>3
<1> HIDE DEF x, y
<1>5. /\ m \in Seq(Entry) /\ DOMAIN m = 1 .. Len(m)
      /\ Len(m) = IF x + 1 <= y THEN y - x ELSE 0
      /\ \A j \in 1 .. Len(m) : m[j] = a[x + j]
  <2>1. CASE x + 1 <= y
    BY <1>1, <1>4, <2>1
  <2>2. CASE ~ (x + 1 <= y)
    <3>1. m = <<>>
      BY <1>1, <1>4, <2>2
    <3> HIDE DEF m
    <3> QED BY <1>1, <1>4, <2>2, <3>1
  <2> QED BY <2>1, <2>2
<1> HIDE DEF m
<1>6. ASSUME NEW j \in DOMAIN m  PROVE j \in 1 .. PAIRS /\ x + j \in DOMAIN a
  BY <1>1, <1>4, <1>5
<1>7. ASSUME x < Len(a)
      PROVE  Len(m) \in 1 .. PAIRS /\ (c * PAIRS <= Len(a) => Len(m) = PAIRS)
  BY <1>1, <1>2, <1>3, <1>4, <1>5, <1>7
<1> QED BY <1>5, <1>6, <1>7 DEF m, x, y
=============================================================================
