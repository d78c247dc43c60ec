--------------------------- MODULE MCNeighborTable ---------------------------
\* NeighborTable on a small instance.
EXTENDS NeighborTable

MCEntries == [id : Addr, hops : 1 .. MAX_HOPS]

\* Every report of at most one entry, and those of two entries in which
\* processData may skip the first: its hop count is the lowest or too high.
MCReports ==
  {<<>>} \cup {<<e>> : e \in MCEntries}
         \cup {s \in [1 .. 2 -> MCEntries] :
                 s[1].id # s[2].id /\ s[1].hops \in {1, MAX_HOPS} /\ s[2].hops = 2}
=============================================================================
