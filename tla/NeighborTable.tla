---------------------------- MODULE NeighborTable ----------------------------
(***************************************************************************)
(* The neighbor table over time: what the main loop (doRead) and the timer  *)
(* (timer_handler) do to `packages`, each handler running to its end. How a *)
(* report is assembled from ping frames is left to MeshNode, which          *)
(* implements this specification.                                           *)
(***************************************************************************)
EXTENDS Packages

CONSTANTS
  Self,      \* `address`: the address of this node
  Reports    \* the reports a peer may send

ASSUME ReportsAssumption == Self \in Addr /\ Reports \subseteq Seq(Entry)

VARIABLE packages

Init == packages = EmptyTable

\* doRead of a frame from `a` that hands no report to processData.
Hear(a) == packages' = UpdateWeight(packages, a)

\* doRead of the ping from `a` that completes report `r`. A peer never lists
\* its own address (processData skips it, and a radio does not hear itself).
HearReport(a, r) ==
  LET t == UpdateWeight(packages, a)
  IN  /\ \A k \in DOMAIN r : r[k].id # a
      /\ CheckTrusted(t, a)
      /\ packages' = ProcessData(Self, t, r, a)

\* timer_handler, every WEIGHT_LOWER_TIME milliseconds.
Tick == packages' = LowerWeights(packages)

Next ==
  \/ \E a \in Peers(Self) : Hear(a) \/ (\E r \in Reports : HearReport(a, r))
  \/ Tick

Spec == Init /\ [][Next]_packages

\* The timer is periodic (setitimer), so it keeps firing.
FairSpec == Spec /\ WF_packages(Tick)

-----------------------------------------------------------------------------
TypeOK == packages \in Table /\ Named(Self, packages)

\* checkTrusted takes the first slot that carries an id and does not look at
\* inUse: for every entry in use that slot is the entry itself, so neither a
\* second entry nor the remains of an old one is ever consulted instead
\* (mesh_radio.c checkTrusted, updateWeight, processData).
LookupAgrees == Unambiguous(packages)

\* Data is only ever handed to a direct neighbor that is in the table: the
\* next hop sendRadioData picks for any target is one (owner bookkeeping of
\* processData, updateWeight and timer_handler).
RouteSound ==
  \A a \in Addr : NextHop(packages, a) # NoAddr =>
    \E i \in Direct(packages) : packages[i].id = NextHop(packages, a)

\* The entry a child was learned from is a trusted direct neighbor that will
\* not expire at the next tick, and a direct entry is one hop away: the timer
\* removes the children of a neighbor before it removes the neighbor, so no
\* ghost entry is left (mesh_radio.c:578, timer_handler and processData).
ChildOwned == Owned(packages)

Silent(a) == [][~ (Hear(a) \/ \E r \in Reports : HearReport(a, r))]_packages

\* A peer that is no longer heard stops being a direct neighbor, and no route
\* through it survives (timer_handler lowers its weight to zero).
SilenceForgets ==
  \A a \in Peers(Self) : <>Silent(a) =>
    <>[](Children(packages, a) = {} /\ \A i \in Direct(packages) : packages[i].id # a)

\* When the air goes quiet the table empties: no ghost entry is left behind
\* that only a report could remove.
QuietEmpties ==
  (\A a \in Peers(Self) : <>Silent(a)) => <>[](Free(packages) = Slots)
=============================================================================
