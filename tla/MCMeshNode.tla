----------------------------- MODULE MCMeshNode -----------------------------
\* MeshNode with two neighbors in range and more nodes behind them.
EXTENDS MeshNode, MCBytes

CONSTANTS p1, p2, p3, p4

Frame(a, n, t, es) == [from |-> a, number |-> n, total |-> t, entries |-> es]
At(a, h) == [id |-> a, hops |-> h]

\* p1 knows four nodes and needs two messages for them, or one node, or none;
\* p2 knows p1 or nobody; p3 finds no buffer when the other two keep theirs.
MCPings ==
  { Frame(p1, 0, 2, <<At(p2, 1), At(Self, 1), At(p3, 1)>>),
    Frame(p1, 1, 2, <<At(p4, 2)>>),
    Frame(p1, 0, 1, <<At(p2, 1)>>),
    Frame(p1, 0, 1, <<>>),
    Frame(p2, 0, 1, <<At(p1, 1)>>), Frame(p2, 0, 1, <<>>),
    Frame(p3, 0, 1, <<>>) }

\* One neighbor whose single message fills the buffer.
MCOnePing == { Frame(p1, 0, 1, <<At(p3, 1), At(p2, 1)>>) }

MCPayload == {<<0>>}
MCNone == {}

\* Overheard, to be forwarded, and for this node.
MCDatas ==
  {[from |-> p1, via |-> v, target |-> a, payload |-> <<0>>] :
     v \in {Self, p2}, a \in {Self, p2}}
=============================================================================
