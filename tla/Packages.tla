------------------------------ MODULE Packages ------------------------------
(***************************************************************************)
(* The neighbor table `packages[MAX_SENDERS]` of mesh_radio.c and the       *)
(* functions that read and write it, as operators from tables to tables.    *)
(* A slot that is not inUse keeps the bytes of its last occupant, because   *)
(* no function of the source clears them.                                   *)
(***************************************************************************)
EXTENDS Integers, Sequences, FiniteSetsExt

CONSTANTS
  MAX_SENDERS,       \* number of slots of the table
  MAX_HOPS,          \* reported hop counts from this one on are not stored
  WEIGHT_THRESHOLD,  \* weight above which a direct neighbor is trusted
  WEIGHT_MAX,        \* weight is capped here
  WEIGHT_STEP,       \* weight gained per frame heard, and the initial weight
  Addr,              \* the addresses of the nodes (each used only once)
  NoAddr             \* the byte 0: `owner == 0` marks a direct neighbor

\* The nodes other than the one whose `address` is self.
Peers(self) == Addr \ {self}

ASSUME TableAssumption ==
  /\ MAX_SENDERS \in Nat \ {0}
  /\ MAX_HOPS \in Nat \ {0}
  /\ WEIGHT_THRESHOLD \in Nat \ {0}
  /\ WEIGHT_MAX \in Nat /\ WEIGHT_STEP \in Nat
  /\ 1 < WEIGHT_STEP /\ WEIGHT_STEP <= WEIGHT_MAX

ASSUME AddressAssumption == NoAddr \notin Addr

Slots == 0 .. MAX_SENDERS - 1

Package ==
  [id : Addr \cup {NoAddr}, weight : 0 .. WEIGHT_MAX, inUse : BOOLEAN,
   trusted : BOOLEAN, owner : Addr \cup {NoAddr}, hops : 0 .. MAX_HOPS]

Table == [Slots -> Package]

\* One (id, hops) pair of a ping; a report is a sequence of them.
Entry == [id : Addr, hops : 1 .. MAX_HOPS]

\* Zero-initialised globals, then radioInit's loop over inUse.
EmptyTable ==
  [i \in Slots |-> [id |-> NoAddr, weight |-> 0, inUse |-> FALSE,
                    trusted |-> FALSE, owner |-> NoAddr, hops |-> 0]]

Matching(t, a) == {i \in Slots : t[i].inUse /\ t[i].id = a}
Free(t) == {i \in Slots : ~ t[i].inUse}
Direct(t) == {i \in Slots : t[i].inUse /\ t[i].owner = NoAddr}
Children(t, a) == {i \in Slots : t[i].inUse /\ t[i].owner = a}

\* An entry in use names another node: never the node itself, never byte 0.
Named(self, t) == \A i \in Slots : t[i].inUse => t[i].id \in Peers(self)

\* checkTrusted takes the first slot that carries an id and does not look at
\* inUse; every entry in use is that slot for its id.
Unambiguous(t) ==
  \A i \in Slots : t[i].inUse => \A k \in 0 .. i - 1 : t[k].id # t[i].id

\* Slot j is an entry that may own children.
Vouching(t, j) ==
  t[j].inUse /\ t[j].owner = NoAddr /\ t[j].trusted /\ t[j].weight > 1

\* A direct entry is one hop away, and any other was learned from one that
\* may still own children.
Owned(t) ==
  \A i \in Slots : t[i].inUse =>
    IF t[i].owner = NoAddr THEN t[i].hops = 1
    ELSE \E j \in Slots : Vouching(t, j) /\ t[j].id = t[i].owner

-----------------------------------------------------------------------------
\* A frame from `a` was heard: raise its weight, or take the first free slot.
\* A new occupant does not reset `trusted`; a full table ignores the sender.
HeardUncapped(p) ==    \* slip: the cap is forgotten
  [p EXCEPT !.weight = @ + WEIGHT_STEP, !.owner = NoAddr, !.hops = 1]

HeardKept(p) ==    \* slip: a route through another node stays one
  [p EXCEPT !.weight = IF @ + WEIGHT_STEP > WEIGHT_MAX THEN WEIGHT_MAX
                                                       ELSE @ + WEIGHT_STEP]

Heard(p) ==
  [p EXCEPT !.weight = IF @ + WEIGHT_STEP > WEIGHT_MAX THEN WEIGHT_MAX
                                                       ELSE @ + WEIGHT_STEP,
            !.owner = NoAddr, !.hops = 1]

Newcomer(p, a) ==
  [p EXCEPT !.id = a, !.weight = WEIGHT_STEP, !.inUse = TRUE,
            !.owner = NoAddr, !.hops = 1]

UpdateWeightOnePass(t, a) ==    \* slip: one loop takes the first slot that fits
  IF Matching(t, a) \cup Free(t) = {} THEN t
  ELSE LET i == Min(Matching(t, a) \cup Free(t))
       IN  [t EXCEPT ![i] = IF i \in Free(t) THEN Newcomer(@, a) ELSE Heard(@)]

UpdateWeight(t, a) ==
  CASE Matching(t, a) # {} -> [t EXCEPT ![Min(Matching(t, a))] = Heard(@)]
    [] Matching(t, a) = {} /\ Free(t) # {} ->
         [t EXCEPT ![Min(Free(t))] = Newcomer(@, a)]
    [] OTHER -> t

\* The first slot that carries the id decides, whether or not it is inUse.
CheckTrusted(t, a) ==
  LET named == {i \in Slots : t[i].id = a}
  IN  named # {} /\ t[Min(named)].trusted

-----------------------------------------------------------------------------
\* processData: forget every entry learned from the owner, then store the
\* first usable entry of the report that finds a slot and return.
Disown(t, o) == [i \in Slots |-> [t[i] EXCEPT !.inUse = @ /\ t[i].owner # o]]

LearnAsReported(t, e, o) ==    \* slip: the hop to the owner is not counted
  IF Matching(t, e.id) # {}
  THEN LET i == Min(Matching(t, e.id))
       IN  IF t[i].hops > e.hops \/ ~ t[i].trusted
           THEN [t EXCEPT ![i] = [@ EXCEPT !.owner = o, !.hops = e.hops]]
           ELSE t
  ELSE [t EXCEPT ![Min(Free(t))] =
         [@ EXCEPT !.id = e.id, !.inUse = TRUE, !.trusted = TRUE,
                   !.owner = o, !.hops = e.hops]]

Learn(t, e, o) ==
  IF Matching(t, e.id) # {}
  THEN LET i == Min(Matching(t, e.id))
       IN  IF t[i].hops > e.hops + 1 \/ ~ t[i].trusted
           THEN [t EXCEPT ![i] = [@ EXCEPT !.owner = o, !.hops = e.hops + 1]]
           ELSE t
  ELSE [t EXCEPT ![Min(Free(t))] =
         [@ EXCEPT !.id = e.id, !.inUse = TRUE, !.trusted = TRUE,
                   !.owner = o, !.hops = e.hops + 1]]

Usable(self, r) == {k \in DOMAIN r : r[k].id # self /\ r[k].hops < MAX_HOPS}

Settling(self, t, r) ==
  {k \in Usable(self, r) : Matching(t, r[k].id) # {} \/ Free(t) # {}}

ProcessData(self, t, r, o) ==
  LET d == Disown(t, o)
  IN  IF Settling(self, d, r) = {} THEN d
      ELSE Learn(d, r[Min(Settling(self, d, r))], o)

-----------------------------------------------------------------------------
\* The loop of timer_handler. Direct entries are never children, so what one
\* iteration removes does not change what another iteration sees.
Aged(t, i) == IF t[i].weight > 0 THEN t[i].weight - 1 ELSE 0
ExpiredBelowZero(t) == {i \in Direct(t) : Aged(t, i) < 0}    \* slip: < for =
Expired(t) == {i \in Direct(t) : Aged(t, i) = 0}
Promoted(t) == {i \in Direct(t) : Aged(t, i) > WEIGHT_THRESHOLD}
Demoted(t) == Direct(t) \ (Expired(t) \cup Promoted(t))
NotOrphaned(t) == {}    \* slip: the inner loop is forgotten
OrphanedLate(t) ==      \* slip: it runs when the neighbor is removed
  UNION {Children(t, t[i].id) : i \in Expired(t)}
Orphaned(t) == UNION {Children(t, t[i].id) : i \in Demoted(t)}

LowerWeights(t) ==
  [i \in Slots |->
    [t[i] EXCEPT !.weight = Aged(t, i),
                 !.inUse = @ /\ i \notin Expired(t) \cup Orphaned(t),
                 !.trusted = (@ \/ i \in Promoted(t)) /\ i \notin Demoted(t)]]

\* The next hop sendRadioData writes into the frame; NoAddr: nothing is sent.
NextHopUnchecked(t, target) ==    \* slip: inUse is not looked at
  LET named == {i \in Slots : t[i].id = target}
      p == t[Min(named)]
  IN  IF named = {} THEN NoAddr
      ELSE IF p.owner = NoAddr THEN target ELSE p.owner

NextHop(t, target) ==
  CASE Matching(t, target) = {} -> NoAddr
    [] OTHER -> LET p == t[Min(Matching(t, target))]
                IN  IF p.owner = NoAddr THEN target ELSE p.owner
=============================================================================
