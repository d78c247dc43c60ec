-------------------------- MODULE MCPreemptedTable --------------------------
\* PreemptedTable with two nodes in range and one behind them.
EXTENDS PreemptedTable

CONSTANTS p1, p2, p3

At(a, h) == [id |-> a, hops |-> h]

\* One entry at a low hop count or at one that is not stored over a shorter
\* route, and two entries when the first is skipped.
MCReports ==
  {<<>>, <<At(p1, 1)>>, <<At(p2, 1)>>, <<At(p2, 2)>>, <<At(p3, 1)>>,
   <<At(Self, 1), At(p2, 1)>>}
=============================================================================
