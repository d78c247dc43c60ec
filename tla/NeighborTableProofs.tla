------------------------ MODULE NeighborTableProofs ------------------------
(***************************************************************************)
(* The invariants of NeighborTable hold for every number of slots, set of   *)
(* peers and weight limits that Packages assumes.  The inductive invariant  *)
(* is TypeOK /\ LookupAgrees /\ ChildOwned; RouteSound follows from it.     *)
(***************************************************************************)
EXTENDS NeighborTable, PackagesProofs

\* What Sound says, in the names of NeighborTable.
IInv == TypeOK /\ LookupAgrees /\ ChildOwned

LEMMA IInvIsSound == IInv <=> Sound(Self, packages)
BY DEF IInv, TypeOK, LookupAgrees, ChildOwned, Sound

LEMMA InitIInv == Init => IInv
BY EmptySound, IInvIsSound DEF Init

LEMMA NextIInv == IInv /\ [Next]_packages => IInv'
<1> SUFFICES ASSUME Sound(Self, packages), [Next]_packages PROVE Sound(Self, packages)'
  BY DEF IInv, TypeOK, LookupAgrees, ChildOwned, Sound, Named, Unambiguous, Owned, Vouching
<1>1. ASSUME NEW a \in Peers(Self), Hear(a) PROVE Sound(Self, packages')
  BY <1>1, HeardSound DEF Hear
<1>2. ASSUME NEW a \in Peers(Self), NEW r \in Reports, HearReport(a, r) PROVE Sound(Self, packages')
  <2>1. r \in Seq(Entry)
    BY ReportsAssumption
  <2> QED BY <1>2, <2>1, ReportSound DEF HearReport
<1>3. CASE Tick
  BY <1>3, TickSound DEF Tick
<1>4. CASE UNCHANGED packages
  BY <1>4
<1> QED BY <1>1, <1>2, <1>3, <1>4 DEF Next

THEOREM Invariance == Spec => []IInv
<1> QED BY InitIInv, NextIInv, PTL DEF Spec

\* Slots keep their ranges and an entry in use names another node.
THEOREM TypeCorrect == Spec => []TypeOK
<1>1. IInv => TypeOK
  BY DEF IInv
<1> QED BY <1>1, Invariance, PTL

\* checkTrusted, updateWeight, processData and sendRadioData agree on the
\* slot of every address in use.
THEOREM LookupSafe == Spec => []LookupAgrees
<1>1. IInv => LookupAgrees
  BY DEF IInv
<1> QED BY <1>1, Invariance, PTL

\* No reported entry outlives the neighbor it was learned from.
THEOREM OwnerSafe == Spec => []ChildOwned
<1>1. IInv => ChildOwned
  BY DEF IInv
<1> QED BY <1>1, Invariance, PTL

LEMMA RouteFollows == IInv => RouteSound
BY RouteDirect, IInvIsSound DEF RouteSound

\* sendRadioData hands data only to a direct neighbor that is in the table.
THEOREM RouteSafe == Spec => []RouteSound
<1> QED BY RouteFollows, Invariance, PTL
=============================================================================
