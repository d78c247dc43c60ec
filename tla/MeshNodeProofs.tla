--------------------------- MODULE MeshNodeProofs ---------------------------
(***************************************************************************)
(* The receive buffer and the loop that reads it: what the ring holds after *)
(* a message is saved or read, for any depth, and that the loop gets every  *)
(* message whole. Saving puts one byte after the other: what it does to a   *)
(* message of any length is proved by induction over the bytes, with the    *)
(* least natural number that is not in a set.                               *)
(*                                                                          *)
(* A node parses single messages of its neighbors only, its table changes   *)
(* as NeighborTable says, its pings keep to the rules it expects of others, *)
(* its data goes to direct neighbors and what it received waits unchanged:  *)
(* for any number of slots, any length of a message and whatever arrives.   *)
(***************************************************************************)
EXTENDS MeshNode, ReceivePath, PackagesProofs, FiniteSetTheorems

LEMMA ModOnce ==
  ASSUME NEW n \in Nat \ {0}, NEW i \in Nat, NEW j \in Nat, i + j \in 0 .. 2 * n - 1
  PROVE  (i + j) % n = IF i + j < n THEN i + j ELSE i + j - n
OBVIOUS

LEMMA GreatestIs ==
  ASSUME NEW S, S \subseteq Nat, NEW m \in S, \A j \in S : j <= m
  PROVE  Max(S) = m
<1>1. \E x \in S : \A y \in S : x >= y
  OBVIOUS
<1>2. Max(S) \in S /\ \A y \in S : Max(S) >= y
  BY <1>1, Zenon DEF Max
<1>3. Max(S) <= m /\ m <= Max(S) /\ Max(S) \in Nat /\ m \in Nat
  BY <1>2
<1> QED BY <1>3

\* One byte after the other, as a function of the positions that were put.
Loop(f, base, s, n) ==
  f = [t \in SUBSET (1 .. n) |->
         IF t = {} THEN base ELSE PutByte(f[t \ {Max(t)}], s[Max(t)])]

LEMMA GreatestOfSome ==
  ASSUME NEW n \in Nat, NEW t \in SUBSET (1 .. n), t # {}
  PROVE  Max(t) \in t /\ t \ {Max(t)} \in SUBSET (1 .. Max(t) - 1)
<1> DEFINE L == {n - j : j \in t}
<1>1. L \subseteq Nat /\ L # {}
  <2>1. \A j \in t : j \in 1 .. n /\ n - j \in Nat
    OBVIOUS
  <2>2. PICK j \in t : TRUE
    OBVIOUS
  <2> QED BY <2>1, <2>2
<1>2. PICK l \in L : \A j \in L : l <= j
  BY <1>1, MinIsLeast
<1>3. PICK m \in t : l = n - m
  OBVIOUS
<1>4. \A j \in t : n - j \in L
  OBVIOUS
<1>5. ASSUME NEW j \in t  PROVE j <= m
  <2>1. l <= n - j /\ j \in 1 .. n /\ m \in 1 .. n
    BY <1>2, <1>4
  <2> QED BY <1>3, <2>1
<1>6. Max(t) = m
  <2>1. t \subseteq Nat
    OBVIOUS
  <2> QED BY <1>5, <2>1, GreatestIs
<1> QED BY <1>5, <1>6

LEMMA LoopExists ==
  ASSUME NEW s, NEW base, NEW n \in Nat
  PROVE  \E f : Loop(f, base, s, n)
<1> DEFINE S == {m \in Nat : \E f : Loop(f, base, s, m)}
<1>1. 0 \in S
  <2>1. SUBSET (1 .. 0) = {{}}
    OBVIOUS
  <2>2. Loop([t \in SUBSET (1 .. 0) |-> base], base, s, 0)
    BY <2>1 DEF Loop
  <2> QED BY <2>2
<1>2. ASSUME NEW m \in Nat, m \in S  PROVE m + 1 \in S
  <2>1. PICK f : Loop(f, base, s, m)
    BY <1>2
  <2> DEFINE g == [t \in SUBSET (1 .. m + 1) |->
                     IF t \in SUBSET (1 .. m) THEN f[t]
                     ELSE PutByte(f[t \ {Max(t)}], s[Max(t)])]
  <2>2. ASSUME NEW t \in SUBSET (1 .. m + 1)
        PROVE  g[t] = IF t = {} THEN base ELSE PutByte(g[t \ {Max(t)}], s[Max(t)])
    <3>1. CASE t \in SUBSET (1 .. m)
      <4>1. g[t] = f[t]
        BY <3>1
      <4>2. f[t] = IF t = {} THEN base ELSE PutByte(f[t \ {Max(t)}], s[Max(t)])
        BY <2>1, <3>1, Zenon DEF Loop
      <4>3. t \ {Max(t)} \in SUBSET (1 .. m) /\ t \ {Max(t)} \in SUBSET (1 .. m + 1)
        BY <3>1
      <4>4. g[t \ {Max(t)}] = f[t \ {Max(t)}]
        BY <4>3
      <4> HIDE DEF g
      <4> QED BY <4>1, <4>2, <4>4
    <3>2. CASE t \notin SUBSET (1 .. m)
      <4>1. t # {} /\ Max(t) \in t /\ t \ {Max(t)} \in SUBSET (1 .. Max(t) - 1)
        <5>1. m + 1 \in Nat /\ t # {}
          BY <3>2
        <5> QED BY <5>1, GreatestOfSome
      <4>2. Max(t) \in 1 .. m + 1
        BY <4>1
      <4>3. t \ {Max(t)} \in SUBSET (1 .. m) /\ t \ {Max(t)} \in SUBSET (1 .. m + 1)
        BY <4>1, <4>2
      <4>4. g[t \ {Max(t)}] = f[t \ {Max(t)}]
        BY <4>3
      <4>5. g[t] = PutByte(f[t \ {Max(t)}], s[Max(t)])
        BY <3>2
      <4> HIDE DEF g
      <4> QED BY <4>1, <4>4, <4>5
    <3> QED BY <3>1, <3>2
  <2>3. g = [t \in SUBSET (1 .. m + 1) |-> g[t]]
    OBVIOUS
  <2> HIDE DEF g
  <2>4. Loop(g, base, s, m + 1)
    BY <2>2, <2>3 DEF Loop
  <2> QED BY <2>4
<1> HIDE DEF S
<1>3. Nat \subseteq S
  BY <1>1, <1>2, SetInduction
<1> QED BY <1>3 DEF S

\* f gives the ring after each beginning of the bytes s.
Puts(f, base, s, n) ==
  /\ f[{}] = base
  /\ \A k \in 1 .. n : f[1 .. k] = PutByte(f[1 .. k - 1], s[k])
  /\ Saved(base, s) = f[1 .. n]

LEMMA FoldIs ==
  ASSUME NEW s, NEW base, NEW n \in Nat, DOMAIN s = 1 .. n
  PROVE  \E f : Puts(f, base, s, n)
<1> DEFINE f == CHOOSE g : Loop(g, base, s, n)
<1>1. Loop(f, base, s, n)
  BY LoopExists, Zenon
<1>2. Saved(base, s) = f[1 .. n]
  <2>1. Saved(base, s) =
        (CHOOSE g : g = [t \in SUBSET (1 .. n) |->
           IF t = {} THEN base ELSE PutByte(g[t \ {Max(t)}], s[Max(t)])])[1 .. n]
    BY Zenon DEF Saved, FoldLeft, MapThenFoldSet
  <2> QED BY <2>1, Zenon DEF Loop
<1> HIDE DEF f
<1>3. f[{}] = base
  BY <1>1 DEF Loop
<1>4. ASSUME NEW k \in 1 .. n
      PROVE  f[1 .. k] = PutByte(f[1 .. k - 1], s[k])
  <2>1. 1 .. k \in SUBSET (1 .. n) /\ 1 .. k # {} /\ 1 .. k \subseteq Nat
    OBVIOUS
  <2>2. Max(1 .. k) = k
    <3>1. k \in 1 .. k /\ \A j \in 1 .. k : j <= k
      OBVIOUS
    <3> HIDE DEF f
    <3> QED BY <2>1, <3>1, GreatestIs
  <2>3. (1 .. k) \ {k} = 1 .. k - 1
    OBVIOUS
  <2> QED BY <1>1, <2>1, <2>2, <2>3 DEF Loop
<1>5. Puts(f, base, s, n)
  BY <1>2, <1>3, <1>4 DEF Puts
<1> QED BY <1>5

-----------------------------------------------------------------------------
\* The ring, as a function of its buffer b, its write pointer w and its read
\* pointer r.

RingOK(b, w, r) == b \in [RingSlots -> Byte] /\ w \in RingSlots /\ r \in RingSlots
Count(w, r) == IF w >= r THEN w - r ELSE w - r + RX_BUFFER_DEPTH
Place(r, k) == IF r + k < RX_BUFFER_DEPTH THEN r + k ELSE r + k - RX_BUFFER_DEPTH
Content(b, w, r) == [k \in 1 .. Count(w, r) |-> b[(r + k - 1) % RX_BUFFER_DEPTH]]

LEMMA UnreadIs ==
  /\ CanReadRadio = Count(rxWritePointer, rxReadPointer)
  /\ Unread = Content(rxBuffer, rxWritePointer, rxReadPointer)
  /\ Unread' = Content(rxBuffer', rxWritePointer', rxReadPointer')
BY DEF CanReadRadio, Unread, Count, Content

LEMMA RingFacts ==
  ASSUME NEW w \in RingSlots, NEW r \in RingSlots
  PROVE  /\ RX_BUFFER_DEPTH \in Nat /\ RX_BUFFER_DEPTH > 1
         /\ w \in 0 .. RX_BUFFER_DEPTH - 1 /\ r \in 0 .. RX_BUFFER_DEPTH - 1
         /\ Count(w, r) \in 0 .. RX_BUFFER_DEPTH - 1
         /\ Place(r, Count(w, r)) = w
         /\ After(w) \in RingSlots
         /\ After(w) # r <=> Count(w, r) < RX_BUFFER_DEPTH - 1
         /\ After(w) # r => Count(After(w), r) = Count(w, r) + 1
BY RingAssumption DEF RingSlots, Count, Place, After

LEMMA PlacesApart ==
  ASSUME NEW r \in RingSlots, NEW i \in 0 .. RX_BUFFER_DEPTH - 1,
         NEW j \in 0 .. RX_BUFFER_DEPTH - 1
  PROVE  /\ Place(r, i) \in RingSlots
         /\ Place(r, i) = Place(r, j) => i = j
         /\ (r + i) % RX_BUFFER_DEPTH = Place(r, i)
<1>1. RX_BUFFER_DEPTH \in Nat \ {0} /\ r \in 0 .. RX_BUFFER_DEPTH - 1
  BY RingAssumption DEF RingSlots
<1>2. r + i \in 0 .. 2 * RX_BUFFER_DEPTH - 1
  BY <1>1
<1>3. (r + i) % RX_BUFFER_DEPTH = Place(r, i)
  <2>1. r \in Nat /\ i \in Nat
    BY <1>1
  <2>2. (r + i) % RX_BUFFER_DEPTH =
          IF r + i < RX_BUFFER_DEPTH THEN r + i ELSE r + i - RX_BUFFER_DEPTH
    BY <1>1, <1>2, <2>1, ModOnce
  <2> QED BY <2>2, Zenon DEF Place
<1>4. Place(r, i) \in RingSlots /\ (Place(r, i) = Place(r, j) => i = j)
  BY <1>1 DEF Place, RingSlots
<1> QED BY <1>3, <1>4

LEMMA ContentIs ==
  ASSUME NEW b, NEW w, NEW r, RingOK(b, w, r)
  PROVE  /\ Content(b, w, r) \in Seq(Byte)
         /\ Len(Content(b, w, r)) = Count(w, r)
         /\ \A k \in 1 .. Count(w, r) : Content(b, w, r)[k] = b[Place(r, k - 1)]
<1>1. w \in RingSlots /\ r \in RingSlots /\ b \in [RingSlots -> Byte]
  BY DEF RingOK
<1>2. Count(w, r) \in 0 .. RX_BUFFER_DEPTH - 1 /\ RX_BUFFER_DEPTH \in Nat
  BY <1>1, RingFacts
<1>3. ASSUME NEW k \in 1 .. Count(w, r)
      PROVE  Content(b, w, r)[k] = b[Place(r, k - 1)] /\ Content(b, w, r)[k] \in Byte
  <2>1. k - 1 \in 0 .. RX_BUFFER_DEPTH - 1 /\ r + k - 1 = r + (k - 1)
    BY <1>1, <1>2, RingAssumption DEF RingSlots
  <2>2. (r + k - 1) % RX_BUFFER_DEPTH = Place(r, k - 1) /\ Place(r, k - 1) \in RingSlots
    BY <1>1, <2>1, PlacesApart
  <2> QED BY <1>1, <2>2 DEF Content
<1>4. Content(b, w, r) = [k \in 1 .. Count(w, r) |-> Content(b, w, r)[k]]
  BY DEF Content
<1>5. Count(w, r) \in Nat
  BY <1>2
<1>6. Content(b, w, r) \in [1 .. Count(w, r) -> Byte]
  BY <1>3, <1>4
<1>7. Content(b, w, r) \in Seq(Byte) /\ Len(Content(b, w, r)) = Count(w, r)
  BY <1>5, <1>6
<1> QED BY <1>3, <1>7

-----------------------------------------------------------------------------
\* Saving.

LEMMA PutByteIs ==
  ASSUME NEW q, NEW b \in Byte, RingOK(q.buffer, q.write, rxReadPointer)
  PROVE  LET c == Count(q.write, rxReadPointer)
             p == PutByte(q, b)
         IN  /\ RingOK(p.buffer, p.write, rxReadPointer)
             /\ Count(p.write, rxReadPointer) =
                  IF c < RX_BUFFER_DEPTH - 1 THEN c + 1 ELSE c
             /\ p.buffer[Place(rxReadPointer, c)] = b
             /\ \A j \in 0 .. c - 1 :
                  p.buffer[Place(rxReadPointer, j)] = q.buffer[Place(rxReadPointer, j)]
<1> DEFINE r == rxReadPointer
           c == Count(q.write, r)
           p == PutByte(q, b)
<1>1. q.write \in RingSlots /\ r \in RingSlots /\ q.buffer \in [RingSlots -> Byte]
  BY DEF RingOK
<1> HIDE DEF r
<1>2. /\ RX_BUFFER_DEPTH \in Nat /\ c \in 0 .. RX_BUFFER_DEPTH - 1
      /\ Place(r, c) = q.write
      /\ After(q.write) \in RingSlots
      /\ After(q.write) # r <=> c < RX_BUFFER_DEPTH - 1
      /\ After(q.write) # r => Count(After(q.write), r) = c + 1
  BY <1>1, RingFacts
<1>3. /\ p.buffer = [q.buffer EXCEPT ![q.write] = b]
      /\ p.write = IF After(q.write) # r THEN After(q.write) ELSE q.write
  BY DEF PutByte, r
<1> HIDE DEF p, c
<1>4. RingOK(p.buffer, p.write, r)
  BY <1>1, <1>2, <1>3 DEF RingOK
<1>5. Count(p.write, r) = IF c < RX_BUFFER_DEPTH - 1 THEN c + 1 ELSE c
  BY <1>2, <1>3 DEF c
<1>6. p.buffer[Place(r, c)] = b
  BY <1>1, <1>2, <1>3
<1>7. ASSUME NEW j \in 0 .. c - 1  PROVE p.buffer[Place(r, j)] = q.buffer[Place(r, j)]
  <2>1. j \in 0 .. RX_BUFFER_DEPTH - 1 /\ j # c
    BY <1>2
  <2>2. Place(r, j) # Place(r, c) /\ Place(r, j) \in RingSlots
    BY <1>1, <1>2, <2>1, PlacesApart
  <2> QED BY <1>1, <1>2, <1>3, <2>2
<1> QED BY <1>4, <1>5, <1>6, <1>7 DEF p, c, r

\* A whole message: what is unread stays, and as much of the message follows it
\* as there is room for.
LEMMA SavedIs ==
  ASSUME NEW s \in Seq(Byte), RingOK(rxBuffer, rxWritePointer, rxReadPointer)
  PROVE  LET c == Count(rxWritePointer, rxReadPointer)
             q == Saved([buffer |-> rxBuffer, write |-> rxWritePointer], s)
         IN  /\ RingOK(q.buffer, q.write, rxReadPointer)
             /\ Count(q.write, rxReadPointer) =
                  IF c + Len(s) < RX_BUFFER_DEPTH THEN c + Len(s) ELSE RX_BUFFER_DEPTH - 1
             /\ \A j \in 0 .. c - 1 :
                  q.buffer[Place(rxReadPointer, j)] = rxBuffer[Place(rxReadPointer, j)]
             /\ \A j \in 1 .. Len(s) : c + j < RX_BUFFER_DEPTH =>
                  q.buffer[Place(rxReadPointer, c + j - 1)] = s[j]
<1> DEFINE r == rxReadPointer
           c == Count(rxWritePointer, r)
           base == [buffer |-> rxBuffer, write |-> rxWritePointer]
           n == Len(s)
           Put(q, k) ==
             /\ RingOK(q.buffer, q.write, r)
             /\ Count(q.write, r) = IF c + k < RX_BUFFER_DEPTH THEN c + k
                                    ELSE RX_BUFFER_DEPTH - 1
             /\ \A j \in 0 .. c - 1 : q.buffer[Place(r, j)] = rxBuffer[Place(r, j)]
             /\ \A j \in 1 .. k : c + j < RX_BUFFER_DEPTH =>
                  q.buffer[Place(r, c + j - 1)] = s[j]
<1>0. PICK f : Puts(f, base, s, n)
  <2>1. n \in Nat /\ DOMAIN s = 1 .. n
    OBVIOUS
  <2> HIDE DEF n, base
  <2> QED BY <2>1, FoldIs
<1>1. /\ f[{}] = base
      /\ \A k \in 1 .. n : f[1 .. k] = PutByte(f[1 .. k - 1], s[k])
      /\ Saved(base, s) = f[1 .. n]
  BY <1>0 DEF Puts
<1>2. n \in Nat /\ \A k \in 1 .. n : s[k] \in Byte
  OBVIOUS
<1>3. c \in 0 .. RX_BUFFER_DEPTH - 1 /\ RX_BUFFER_DEPTH \in Nat
  BY RingFacts DEF RingOK
<1> DEFINE S == {k \in Nat : k <= n => Put(f[1 .. k], k)}
<1>4. 0 \in S
  <2>1. 1 .. 0 = {}
    OBVIOUS
  <2>2. f[1 .. 0].buffer = rxBuffer /\ f[1 .. 0].write = rxWritePointer
    BY <1>1, <2>1
  <2>3. Put(f[1 .. 0], 0)
    BY <1>3, <2>2
  <2> QED BY <2>3
<1>5. ASSUME NEW k \in Nat, k \in S  PROVE k + 1 \in S
  <2> SUFFICES ASSUME k + 1 <= n PROVE Put(f[1 .. k + 1], k + 1)
    OBVIOUS
  <2> DEFINE q == f[1 .. k]
             p == f[1 .. k + 1]
             b == s[k + 1]
  <2>1. Put(q, k) /\ k + 1 \in 1 .. n /\ b \in Byte
    BY <1>2, <1>5
  <2>2. p = PutByte(q, b)
    <3>1. (k + 1) - 1 = k
      OBVIOUS
    <3> QED BY <1>1, <2>1, <3>1
  <2> HIDE DEF q, p, b
  <2> DEFINE d == Count(q.write, r)
  <2>3. /\ RingOK(p.buffer, p.write, r)
        /\ Count(p.write, r) = IF d < RX_BUFFER_DEPTH - 1 THEN d + 1 ELSE d
        /\ p.buffer[Place(r, d)] = b
        /\ \A j \in 0 .. d - 1 : p.buffer[Place(r, j)] = q.buffer[Place(r, j)]
    BY <2>1, <2>2, PutByteIs
  <2>4. d = IF c + k < RX_BUFFER_DEPTH THEN c + k ELSE RX_BUFFER_DEPTH - 1
    BY <2>1
  <2>5. /\ \A j \in 0 .. c - 1 : q.buffer[Place(r, j)] = rxBuffer[Place(r, j)]
        /\ \A j \in 1 .. k : c + j < RX_BUFFER_DEPTH => q.buffer[Place(r, c + j - 1)] = s[j]
    BY <2>1
  <2> HIDE DEF d, r, c
  <2>6. Count(p.write, r) = IF c + (k + 1) < RX_BUFFER_DEPTH THEN c + (k + 1)
                            ELSE RX_BUFFER_DEPTH - 1
    BY <1>3, <2>3, <2>4
  <2>7. ASSUME NEW j \in 0 .. c - 1  PROVE p.buffer[Place(r, j)] = rxBuffer[Place(r, j)]
    <3>1. j \in 0 .. d - 1
      BY <1>3, <2>4
    <3> QED BY <2>3, <2>5, <3>1
  <2>8. ASSUME NEW j \in 1 .. k + 1, c + j < RX_BUFFER_DEPTH
        PROVE  p.buffer[Place(r, c + j - 1)] = s[j]
    <3>1. CASE j = k + 1
      <4>1. d = c + j - 1
        BY <1>3, <2>4, <2>8, <3>1
      <4> QED BY <2>3, <3>1, <4>1 DEF b
    <3>2. CASE j # k + 1
      <4>1. j \in 1 .. k /\ c + j - 1 \in 0 .. d - 1
        BY <1>3, <2>4, <2>8, <3>2
      <4> QED BY <2>3, <2>5, <2>8, <4>1
    <3> QED BY <3>1, <3>2
  <2>9. Put(p, k + 1)
    BY <2>3, <2>6, <2>7, <2>8
  <2> QED BY <2>9 DEF p
<1> HIDE DEF S
<1>6. Nat \subseteq S
  BY <1>4, <1>5, SetInduction
<1>7. Put(f[1 .. n], n)
  BY <1>2, <1>6 DEF S
<1> QED BY <1>1, <1>7

-----------------------------------------------------------------------------
\* What saveReceivedData and readRadioMessage do to the unread bytes.

LEMMA RingIsOK ==
  ASSUME RxTypeOK
  PROVE  /\ RingOK(rxBuffer, rxWritePointer, rxReadPointer)
         /\ Unread \in Seq(Byte) /\ Len(Unread) = CanReadRadio
         /\ Len(Unread) \in 0 .. RX_BUFFER_DEPTH - 1 /\ RX_BUFFER_DEPTH \in Nat
<1>1. RingOK(rxBuffer, rxWritePointer, rxReadPointer)
  BY DEF RxTypeOK, RingOK
<1>2. Count(rxWritePointer, rxReadPointer) \in 0 .. RX_BUFFER_DEPTH - 1
      /\ RX_BUFFER_DEPTH \in Nat
  BY <1>1, RingFacts DEF RingOK
<1> QED BY <1>1, <1>2, ContentIs, UnreadIs

LEMMA RingIsOKNext ==
  ASSUME RxTypeOK'
  PROVE  Len(Unread') = CanReadRadio'
<1>1. RingOK(rxBuffer', rxWritePointer', rxReadPointer')
  BY DEF RxTypeOK, RingOK
<1>2. CanReadRadio' = Count(rxWritePointer', rxReadPointer')
  BY DEF CanReadRadio, Count
<1> QED BY <1>1, <1>2, ContentIs, UnreadIs

LEMMA FramedIs ==
  ASSUME NEW d \in Seq(Byte)
  PROVE  /\ Framed(d) \in Seq(Byte) /\ Len(Framed(d)) = Len(d) + 1
         /\ \A k \in 1 .. Len(d) : Framed(d)[k] = d[k]
         /\ Framed(d)[Len(d) + 1] = CR
BY RingAssumption DEF Framed

LEMMA SaveIs ==
  ASSUME RxTypeOK, NEW d \in Seq(Byte), SaveReceivedData(d)
  PROVE  /\ RxTypeOK'
         /\ Unread' \in Seq(Byte)
         /\ Len(Unread') = IF Len(Unread) + Len(d) + 1 < RX_BUFFER_DEPTH
                           THEN Len(Unread) + Len(d) + 1 ELSE RX_BUFFER_DEPTH - 1
         /\ \A k \in 1 .. Len(Unread) : Unread'[k] = Unread[k]
         /\ \A j \in 1 .. Len(d) + 1 : Len(Unread) + j < RX_BUFFER_DEPTH =>
              Unread'[Len(Unread) + j] = Framed(d)[j]
         /\ received' = received
<1> DEFINE r == rxReadPointer
           c == Count(rxWritePointer, r)
           s == Framed(d)
           q == Saved([buffer |-> rxBuffer, write |-> rxWritePointer], s)
<1>1. /\ RingOK(rxBuffer, rxWritePointer, r)
      /\ s \in Seq(Byte) /\ Len(s) = Len(d) + 1
  BY RingIsOK, FramedIs
<1>2. /\ rxBuffer' = q.buffer /\ rxWritePointer' = q.write
      /\ rxReadPointer' = r /\ received' = received
  BY DEF SaveReceivedData
<1> HIDE DEF s
<1>3. /\ RingOK(q.buffer, q.write, r)
      /\ Count(q.write, r) = IF c + Len(s) < RX_BUFFER_DEPTH THEN c + Len(s)
                             ELSE RX_BUFFER_DEPTH - 1
      /\ \A j \in 0 .. c - 1 : q.buffer[Place(r, j)] = rxBuffer[Place(r, j)]
      /\ \A j \in 1 .. Len(s) : c + j < RX_BUFFER_DEPTH =>
           q.buffer[Place(r, c + j - 1)] = s[j]
  BY <1>1, SavedIs
<1> HIDE DEF q, c, r
<1>4. c \in 0 .. RX_BUFFER_DEPTH - 1 /\ RX_BUFFER_DEPTH \in Nat /\ Len(d) \in Nat
  <2>1. rxWritePointer \in RingSlots /\ r \in RingSlots
    BY <1>1 DEF RingOK
  <2>2. Len(d) \in Nat
    OBVIOUS
  <2> QED BY <2>1, <2>2, RingFacts DEF c
<1>5. /\ Unread \in Seq(Byte) /\ Len(Unread) = c
      /\ \A k \in 1 .. c : Unread[k] = rxBuffer[Place(r, k - 1)]
  BY <1>1, ContentIs, UnreadIs DEF c, r
<1>6. Unread' = Content(q.buffer, q.write, r)
  BY <1>2, UnreadIs
<1>7. /\ Unread' \in Seq(Byte) /\ Len(Unread') = Count(q.write, r)
      /\ \A k \in 1 .. Count(q.write, r) : Unread'[k] = q.buffer[Place(r, k - 1)]
  BY <1>3, <1>6, ContentIs
<1>8. ASSUME NEW k \in 1 .. c  PROVE Unread'[k] = Unread[k]
  <2>1. k \in 1 .. Count(q.write, r) /\ k - 1 \in 0 .. c - 1
    BY <1>1, <1>3, <1>4
  <2> QED BY <1>3, <1>5, <1>7, <2>1
<1>9. ASSUME NEW j \in 1 .. Len(d) + 1, c + j < RX_BUFFER_DEPTH
      PROVE  Unread'[c + j] = s[j]
  <2>1. c + j \in 1 .. Count(q.write, r) /\ j \in 1 .. Len(s)
    BY <1>1, <1>3, <1>4, <1>9
  <2>2. Unread'[c + j] = q.buffer[Place(r, c + j - 1)]
    BY <1>4, <1>7, <2>1
  <2>3. q.buffer[Place(r, c + j - 1)] = s[j]
    BY <1>3, <1>9, <2>1
  <2> QED BY <2>2, <2>3
<1>10. RxTypeOK'
  BY <1>2, <1>3 DEF RxTypeOK, RingOK, r
<1> QED BY <1>1, <1>2, <1>3, <1>4, <1>5, <1>7, <1>8, <1>9, <1>10 DEF s

\* The read pointer moves on by t bytes.
LEMMA PlaceMoves ==
  ASSUME NEW w \in RingSlots, NEW r \in RingSlots, NEW t \in 0 .. Count(w, r)
  PROVE  /\ Place(r, t) \in RingSlots /\ (r + t) % RX_BUFFER_DEPTH = Place(r, t)
         /\ Count(w, Place(r, t)) = Count(w, r) - t
         /\ \A k \in 0 .. Count(w, r) - t - 1 : Place(Place(r, t), k) = Place(r, t + k)
         /\ Place(r, t) = r => t = 0
<1>1. /\ RX_BUFFER_DEPTH \in Nat /\ w \in 0 .. RX_BUFFER_DEPTH - 1
      /\ r \in 0 .. RX_BUFFER_DEPTH - 1
      /\ Count(w, r) \in 0 .. RX_BUFFER_DEPTH - 1
      /\ t \in 0 .. RX_BUFFER_DEPTH - 1
  BY RingFacts
<1>2. Place(r, t) \in RingSlots /\ (r + t) % RX_BUFFER_DEPTH = Place(r, t)
  BY <1>1, PlacesApart
<1>3. Count(w, Place(r, t)) = Count(w, r) - t
  BY <1>1 DEF Count, Place
<1>4. \A k \in 0 .. Count(w, r) - t - 1 : Place(Place(r, t), k) = Place(r, t + k)
  BY <1>1 DEF Place
<1>5. Place(r, t) = r => t = 0
  BY <1>1 DEF Place
<1> QED BY <1>2, <1>3, <1>4, <1>5

\* How far a read of the unread bytes u goes: the bytes returned, and those taken.
Reach(u) == IF Len(u) <= MAX_DATA_LENGTH THEN Len(u) ELSE MAX_DATA_LENGTH
Ends(u) == {k \in 1 .. Reach(u) : u[k] = CR}
Size(u) == IF Ends(u) = {} THEN Reach(u) ELSE Min(Ends(u)) - 1

LEMMA SizeIs ==
  ASSUME NEW u \in Seq(Byte)
  PROVE  /\ Reach(u) \in 0 .. Len(u) /\ Reach(u) \in 0 .. MAX_DATA_LENGTH
         /\ Size(u) \in 0 .. Reach(u)
         /\ Taken(Ends(u), Reach(u)) \in 0 .. Reach(u)
         /\ \A k \in 1 .. Size(u) : u[k] # CR
<1>1. MAX_DATA_LENGTH \in Nat /\ Len(u) \in Nat
  BY RingAssumption
<1>2. Reach(u) \in 0 .. Len(u) /\ Reach(u) \in 0 .. MAX_DATA_LENGTH
  BY <1>1 DEF Reach
<1>3. CASE Ends(u) = {}
  BY <1>1, <1>2, <1>3 DEF Size, Taken, Ends
<1>4. CASE Ends(u) # {}
  <2>1. Ends(u) \subseteq Nat /\ Ends(u) \subseteq 1 .. Reach(u)
    BY <1>2 DEF Ends
  <2>2. Min(Ends(u)) \in Ends(u) /\ \A j \in Ends(u) : Min(Ends(u)) <= j
    BY <1>4, <2>1, MinIsLeast
  <2>3. Min(Ends(u)) \in 1 .. Reach(u)
    BY <2>1, <2>2
  <2>4. Size(u) = Min(Ends(u)) - 1 /\ Taken(Ends(u), Reach(u)) = Min(Ends(u))
    BY <1>4 DEF Size, Taken
  <2>5. ASSUME NEW k \in 1 .. Size(u)  PROVE u[k] # CR
    <3>1. k \in 1 .. Reach(u) /\ k < Min(Ends(u))
      BY <1>2, <2>3, <2>4
    <3>2. k \notin Ends(u)
      BY <1>2, <2>2, <2>3, <3>1
    <3> QED BY <3>1, <3>2 DEF Ends
  <2> QED BY <1>2, <2>3, <2>4, <2>5
<1> QED BY <1>2, <1>3, <1>4

LEMMA EncryptionIs ==
  ASSUME NEW d \in Seq(Byte), Len(d) <= MAX_DATA_LENGTH
  PROVE  /\ Encryption(d) \in Seq(Byte) /\ Len(Encryption(d)) = Len(d)
         /\ \A k \in 1 .. Len(d) : Encryption(d)[k] = Cipher(k, d[k])
<1>1. Len(d) \in Nat /\ DOMAIN d = 1 .. Len(d) /\ MAX_DATA_LENGTH \in Nat
  BY RingAssumption
<1>2. ASSUME NEW k \in 1 .. Len(d)  PROVE Cipher(k, d[k]) \in Byte
  BY <1>1, CipherAssumption
<1>3. Encryption(d) = [k \in 1 .. Len(d) |-> Cipher(k, d[k])]
  BY <1>1 DEF Encryption
<1> HIDE DEF Encryption
<1>4. Encryption(d) \in [1 .. Len(d) -> Byte]
  BY <1>2, <1>3
<1> QED BY <1>1, <1>3, <1>4

LEMMA ReadIs ==
  ASSUME RxTypeOK, ReadRadioMessage
  PROVE  LET t == Taken(Ends(Unread), Reach(Unread))
         IN  /\ RxTypeOK'
             /\ received' = Encryption(SubSeq(Unread, 1, Size(Unread)))
             /\ t \in 0 .. Len(Unread)
             /\ Unread' \in Seq(Byte) /\ Len(Unread') = Len(Unread) - t
             /\ \A k \in 1 .. Len(Unread) - t : Unread'[k] = Unread[t + k]
             /\ rxWritePointer' = rxWritePointer
             /\ rxReadPointer' = rxReadPointer => t = 0
<1> DEFINE u == Unread
           r == rxReadPointer
           w == rxWritePointer
           c == Count(w, r)
           t == Taken(Ends(u), Reach(u))
<1>1. /\ RingOK(rxBuffer, w, r) /\ w \in RingSlots /\ r \in RingSlots
      /\ u \in Seq(Byte) /\ Len(u) = c /\ c \in Nat /\ CanReadRadio = c
      /\ \A k \in 1 .. c : u[k] = rxBuffer[Place(r, k - 1)]
  BY RingIsOK, UnreadIs, ContentIs DEF RingOK
<1>2. /\ Size(u) \in 0 .. Reach(u) /\ t \in 0 .. Reach(u)
      /\ Reach(u) \in 0 .. c /\ Reach(u) \in 0 .. MAX_DATA_LENGTH
  BY <1>1, SizeIs
<1>3. Min({CanReadRadio, MAX_DATA_LENGTH}) = Reach(u)
  BY <1>1, MinOfTwo, RingAssumption DEF Reach
<1>4. /\ received' = Encryption(SubSeq(u, 1, Size(u)))
      /\ rxReadPointer' = (r + t) % RX_BUFFER_DEPTH
      /\ rxBuffer' = rxBuffer /\ rxWritePointer' = w
  BY <1>3, Zenon DEF ReadRadioMessage, Size, Ends
<1> HIDE DEF u, t, r, w
<1>5. t \in 0 .. c
  BY <1>1, <1>2
<1>6. /\ rxReadPointer' = Place(r, t) /\ Place(r, t) \in RingSlots
      /\ Count(w, Place(r, t)) = c - t
      /\ \A k \in 0 .. c - t - 1 : Place(Place(r, t), k) = Place(r, t + k)
      /\ Place(r, t) = r => t = 0
  BY <1>1, <1>4, <1>5, PlaceMoves
<1> HIDE DEF c
<1>7. RingOK(rxBuffer, w, Place(r, t))
  BY <1>1, <1>6 DEF RingOK
<1>8. Unread' = Content(rxBuffer, w, Place(r, t))
  BY <1>4, <1>6, UnreadIs
<1>9. /\ Unread' \in Seq(Byte) /\ Len(Unread') = c - t
      /\ \A k \in 1 .. c - t : Unread'[k] = rxBuffer[Place(Place(r, t), k - 1)]
  BY <1>6, <1>7, <1>8, ContentIs
<1>10. ASSUME NEW k \in 1 .. c - t  PROVE Unread'[k] = u[t + k]
  <2>1. k - 1 \in 0 .. c - t - 1 /\ t + k \in 1 .. c /\ t + (k - 1) = (t + k) - 1
    BY <1>1, <1>5
  <2> QED BY <1>1, <1>6, <1>9, <2>1
<1>11. SubSeq(u, 1, Size(u)) \in Seq(Byte) /\ Len(SubSeq(u, 1, Size(u))) <= MAX_DATA_LENGTH
  BY <1>1, <1>2, RingAssumption
<1>12. received' \in Seq(Byte) /\ Len(received') <= MAX_DATA_LENGTH
  BY <1>4, <1>11, EncryptionIs
<1>13. RxTypeOK'
  BY <1>4, <1>6, <1>7, <1>12 DEF RxTypeOK, RingOK
<1> QED BY <1>1, <1>4, <1>5, <1>6, <1>9, <1>10, <1>13 DEF u, t, w, r

-----------------------------------------------------------------------------
\* Any step of the receive buffer, alone or in a node.

UnreadGrowsOrShrinks ==
  /\ rxReadPointer' = rxReadPointer => IsPrefix(Unread, Unread')
  /\ rxWritePointer' = rxWritePointer => IsSuffix(Unread', Unread)

LEMMA PrefixIs ==
  ASSUME NEW s \in Seq(Byte), NEW t \in Seq(Byte), Len(s) <= Len(t),
         \A k \in 1 .. Len(s) : s[k] = t[k]
  PROVE  IsPrefix(s, t)
<1>1. /\ SubSeq(s, 1, Len(s)) = [k \in 1 .. Len(s) |-> s[k]]
      /\ SubSeq(t, 1, Len(s)) = [k \in 1 .. Len(s) |-> t[k]]
  OBVIOUS
<1>2. SubSeq(s, 1, Len(s)) = SubSeq(t, 1, Len(s))
  BY <1>1
<1> QED BY <1>2 DEF IsPrefix

LEMMA SuffixIs ==
  ASSUME NEW s \in Seq(Byte), NEW t \in Seq(Byte), NEW n \in Nat, Len(t) = n + Len(s),
         \A k \in 1 .. Len(s) : s[k] = t[n + k]
  PROVE  IsSuffix(s, t)
<1> DEFINE a == Reverse(s)
           b == Reverse(t)
<1>1. Len(s) \in Nat /\ Len(t) \in Nat /\ Len(s) <= Len(t)
  OBVIOUS
<1>2. /\ a \in Seq(Byte) /\ Len(a) = Len(s)
      /\ \A k \in 1 .. Len(s) : a[k] = s[Len(s) - k + 1]
  BY <1>1 DEF Reverse
<1>3. /\ b \in Seq(Byte) /\ Len(b) = Len(t)
      /\ \A k \in 1 .. Len(t) : b[k] = t[Len(t) - k + 1]
  BY <1>1 DEF Reverse
<1> HIDE DEF a, b
<1>4. ASSUME NEW k \in 1 .. Len(s)  PROVE a[k] = b[k]
  <2>1. Len(s) - k + 1 \in 1 .. Len(s) /\ k \in 1 .. Len(t)
        /\ n + (Len(s) - k + 1) = Len(t) - k + 1
    BY <1>1
  <2>2. s[Len(s) - k + 1] = t[n + (Len(s) - k + 1)]
    BY <2>1
  <2> QED BY <1>2, <1>3, <2>1, <2>2
<1>5. IsPrefix(a, b)
  BY <1>1, <1>2, <1>3, <1>4, PrefixIs
<1> QED BY <1>5 DEF IsSuffix, a, b

LEMMA RxStep ==
  ASSUME RxTypeOK,
         (\E d \in Payloads : SaveReceivedData(d)) \/ ReadRadioMessage \/ UNCHANGED rxVars
  PROVE  RxTypeOK' /\ [UnreadGrowsOrShrinks]_ring
<1>1. Unread \in Seq(Byte) /\ Len(Unread) \in 0 .. RX_BUFFER_DEPTH - 1
      /\ RX_BUFFER_DEPTH \in Nat
  BY RingIsOK
<1>2. ASSUME NEW d \in Payloads, SaveReceivedData(d)
      PROVE  RxTypeOK' /\ UnreadGrowsOrShrinks
  <2>1. d \in Seq(Byte) /\ Len(d) \in Nat
    BY PayloadAssumption
  <2>2. /\ RxTypeOK' /\ Unread' \in Seq(Byte)
        /\ Len(Unread') = IF Len(Unread) + Len(d) + 1 < RX_BUFFER_DEPTH
                          THEN Len(Unread) + Len(d) + 1 ELSE RX_BUFFER_DEPTH - 1
        /\ \A k \in 1 .. Len(Unread) : Unread'[k] = Unread[k]
    BY <1>2, <2>1, SaveIs
  <2>3. IsPrefix(Unread, Unread')
    BY <1>1, <2>1, <2>2, PrefixIs
  <2>4. ASSUME rxWritePointer' = rxWritePointer  PROVE IsSuffix(Unread', Unread)
    <3>1. CanReadRadio' = CanReadRadio
      BY <1>2, <2>4 DEF SaveReceivedData, CanReadRadio
    <3>2. Len(Unread) = CanReadRadio /\ Len(Unread') = CanReadRadio'
      BY <2>2, RingIsOK, RingIsOKNext
    <3>3. \A k \in 1 .. Len(Unread') : Unread'[k] = Unread[0 + k]
      BY <1>1, <2>2, <3>1, <3>2
    <3>4. Len(Unread) = 0 + Len(Unread') /\ 0 \in Nat
      BY <1>1, <3>1, <3>2
    <3> QED BY <1>1, <2>2, <3>3, <3>4, SuffixIs
  <2> QED BY <2>2, <2>3, <2>4 DEF UnreadGrowsOrShrinks
<1>3. ASSUME ReadRadioMessage
      PROVE  RxTypeOK' /\ UnreadGrowsOrShrinks
  <2> DEFINE t == Taken(Ends(Unread), Reach(Unread))
  <2>1. /\ RxTypeOK' /\ t \in 0 .. Len(Unread)
        /\ Unread' \in Seq(Byte) /\ Len(Unread') = Len(Unread) - t
        /\ \A k \in 1 .. Len(Unread) - t : Unread'[k] = Unread[t + k]
        /\ rxReadPointer' = rxReadPointer => t = 0
    BY <1>3, ReadIs
  <2> HIDE DEF t
  <2>2. t \in Nat /\ Len(Unread) = t + Len(Unread')
        /\ \A k \in 1 .. Len(Unread') : Unread'[k] = Unread[t + k]
    BY <1>1, <2>1
  <2>3. IsSuffix(Unread', Unread)
    BY <1>1, <2>1, <2>2, SuffixIs
  <2>4. ASSUME rxReadPointer' = rxReadPointer  PROVE IsPrefix(Unread, Unread')
    <3>1. t = 0
      BY <2>1, <2>4
    <3>2. Len(Unread) = Len(Unread') /\ \A k \in 1 .. Len(Unread) : Unread[k] = Unread'[k]
      BY <1>1, <2>2, <3>1
    <3> QED BY <1>1, <2>1, <3>2, PrefixIs
  <2> QED BY <2>1, <2>3, <2>4 DEF UnreadGrowsOrShrinks
<1>4. CASE UNCHANGED rxVars
  BY <1>4 DEF rxVars, ring, RxTypeOK
<1> QED BY <1>2, <1>3, <1>4

LEMMA RxStarts == RxInit => RxTypeOK
<1>1. 0 \in RingSlots /\ 0 \in Byte /\ <<>> \in Seq(Byte) /\ Len(<<>>) <= MAX_DATA_LENGTH
  BY RingAssumption DEF RingSlots
<1> QED BY <1>1 DEF RxInit, RxTypeOK

-----------------------------------------------------------------------------
\* The loop of terminal.c.

\* The inductive invariant: between doRead and the read there is at most one
\* message in the ring, at other times none.
PathInv ==
  /\ RxTypeOK /\ reading \in BOOLEAN
  /\ Unread = <<>> \/ (reading /\ \E d \in Payloads : Unread = Framed(d))

\* The messages in the bytes u.
CutEnds(u) == {k \in DOMAIN u : u[k] = CR}
CutPiece(u, k) ==
  LET first == Max({j + 1 : j \in {i \in CutEnds(u) : i < k}} \cup {1})
  IN  Encryption(SubSeq(u, first, k - 1))
Cut(u) ==
  [n \in 1 .. Cardinality(CutEnds(u)) |->
     CutPiece(u, CHOOSE k \in CutEnds(u) :
                   Cardinality({i \in CutEnds(u) : i <= k}) = n)]

LEMMA PendingIs == Pending = Cut(Unread) /\ Pending' = Cut(Unread')
BY DEF Pending, PieceEnds, Piece, Cut, CutEnds, CutPiece

LEMMA CutNothing == Cut(<<>>) = <<>>
<1>1. CutEnds(<<>>) = {}
  BY DEF CutEnds
<1>2. Cardinality(CutEnds(<<>>)) = 0
  BY <1>1, FS_EmptySet
<1> QED BY <1>2 DEF Cut

LEMMA PlainIs ==
  ASSUME PlainPayloads, NEW d \in Payloads
  PROVE  /\ d \in Seq(Byte) /\ Len(d) \in Nat /\ Len(d) < MAX_DATA_LENGTH
         /\ Len(d) + 1 < RX_BUFFER_DEPTH
         /\ CutEnds(Framed(d)) = {Len(d) + 1}
         /\ SubSeq(Framed(d), 1, Len(d)) = d
<1>1. d \in Seq(Byte) /\ Len(d) \in Nat /\ Len(d) < MAX_DATA_LENGTH
      /\ Len(d) + 1 < RX_BUFFER_DEPTH
  BY PayloadAssumption, RingAssumption DEF PlainPayloads
<1>2. \A k \in 1 .. Len(d) : d[k] # CR
  BY <1>1 DEF PlainPayloads
<1> DEFINE s == Framed(d)
<1>3. /\ s \in Seq(Byte) /\ Len(s) = Len(d) + 1
      /\ \A k \in 1 .. Len(d) : s[k] = d[k]
      /\ s[Len(d) + 1] = CR
  BY <1>1, FramedIs
<1> HIDE DEF s
<1>4. CutEnds(s) = {Len(d) + 1}
  BY <1>1, <1>2, <1>3 DEF CutEnds
<1>5. SubSeq(s, 1, Len(d)) = d
  BY <1>1, <1>3
<1> QED BY <1>1, <1>4, <1>5 DEF s

LEMMA CutMessage ==
  ASSUME PlainPayloads, NEW d \in Payloads
  PROVE  Cut(Framed(d)) = <<Encryption(d)>>
<1> DEFINE u == Framed(d)
           l == Len(d) + 1
<1>1. CutEnds(u) = {l} /\ SubSeq(u, 1, Len(d)) = d /\ Len(d) \in Nat
  BY PlainIs
<1> HIDE DEF u, l
<1>2. Cardinality(CutEnds(u)) = 1
  BY <1>1, FS_Singleton
<1>3. {i \in CutEnds(u) : i < l} = {} /\ {i \in CutEnds(u) : i <= l} = {l}
  BY <1>1 DEF l
<1>4. Cardinality({i \in CutEnds(u) : i <= l}) = 1
  BY <1>3, FS_Singleton
<1>5. (CHOOSE k \in CutEnds(u) : Cardinality({i \in CutEnds(u) : i <= k}) = 1) = l
  BY <1>1, <1>4
<1>6. CutPiece(u, l) = Encryption(d)
  <2>1. {j + 1 : j \in {i \in CutEnds(u) : i < l}} \cup {1} = {1}
    BY <1>3
  <2>2. Max({1}) = 1
    BY GreatestIs
  <2>3. l - 1 = Len(d)
    BY <1>1 DEF l
  <2> QED BY <1>1, <2>1, <2>2, <2>3 DEF CutPiece
<1>7. ASSUME NEW n \in 1 .. 1
      PROVE  CutPiece(u, CHOOSE k \in CutEnds(u) :
                           Cardinality({i \in CutEnds(u) : i <= k}) = n) = Encryption(d)
  <2>1. n = 1
    OBVIOUS
  <2> QED BY <1>5, <1>6, <2>1
<1>8. Cut(u) = [n \in 1 .. 1 |-> Encryption(d)]
  BY <1>2, <1>7, Zenon DEF Cut
<1> QED BY <1>8 DEF u

LEMMA PathStep ==
  ASSUME PlainPayloads, PathInv, [PathNext]_pathVars
  PROVE  PathInv' /\ [Queue!Next]_<<Pending, received>>
<1> USE DEF PathInv
<1>1. Unread \in Seq(Byte) /\ Pending = Cut(Unread) /\ Pending' = Cut(Unread')
  BY RingIsOK, PendingIs
<1>2. ASSUME ~ reading, reading' = TRUE, NEW d \in Payloads, SaveReceivedData(d)
      PROVE  PathInv' /\ Queue!Put(Encryption(d))
  <2>1. d \in Seq(Byte) /\ Len(d) \in Nat /\ Len(d) + 1 < RX_BUFFER_DEPTH
    BY PlainIs
  <2>2. Unread = <<>> /\ Len(Unread) = 0
    BY <1>2
  <2>3. /\ RxTypeOK' /\ Unread' \in Seq(Byte) /\ Len(Unread') = Len(d) + 1
        /\ \A j \in 1 .. Len(d) + 1 : Unread'[j] = Framed(d)[j]
        /\ received' = received
    <3>1. /\ RxTypeOK' /\ Unread' \in Seq(Byte)
          /\ Len(Unread') = IF 0 + Len(d) + 1 < RX_BUFFER_DEPTH
                            THEN 0 + Len(d) + 1 ELSE RX_BUFFER_DEPTH - 1
          /\ \A j \in 1 .. Len(d) + 1 : 0 + j < RX_BUFFER_DEPTH =>
               Unread'[0 + j] = Framed(d)[j]
          /\ received' = received
      BY <1>2, <2>1, <2>2, SaveIs
    <3>2. RX_BUFFER_DEPTH \in Nat
      BY RingAssumption
    <3> QED BY <2>1, <3>1, <3>2
  <2>4. Unread' = Framed(d)
    BY <2>1, <2>3, FramedIs
  <2>5. Pending = <<>> /\ Pending' = <<Encryption(d)>>
    BY <1>1, <2>2, <2>4, CutNothing, CutMessage
  <2>6. Pending' = Append(Pending, Encryption(d))
    BY <2>5
  <2> QED BY <1>2, <2>3, <2>4, <2>6 DEF Queue!Put
<1>3. ASSUME ~ reading, reading' = TRUE, UNCHANGED rxVars
      PROVE  PathInv' /\ UNCHANGED <<Pending, received>>
  <2>1. Unread' = Unread /\ RxTypeOK' /\ received' = received
    BY <1>3 DEF rxVars, Unread, CanReadRadio, RxTypeOK
  <2> QED BY <1>1, <1>3, <2>1
<1>4. ASSUME reading, reading' = FALSE, ReadRadioMessage
      PROVE  PathInv' /\ (Queue!Get \/ Queue!GetNothing)
  <2> DEFINE t == Taken(Ends(Unread), Reach(Unread))
  <2>1. /\ RxTypeOK'
        /\ received' = Encryption(SubSeq(Unread, 1, Size(Unread)))
        /\ Unread' \in Seq(Byte) /\ Len(Unread') = Len(Unread) - t
    BY <1>4, ReadIs
  <2>2. CASE Unread = <<>>
    <3>0. Len(Unread) = 0
      BY <2>2
    <3>1. Size(Unread) = 0 /\ t = 0 /\ Len(Unread) = 0
      <4>1. Reach(Unread) = 0
        BY <3>0, RingAssumption DEF Reach
      <4>2. Size(Unread) \in 0 .. Reach(Unread) /\ t \in 0 .. Reach(Unread)
        BY <1>1, SizeIs
      <4> HIDE DEF t
      <4> QED BY <3>0, <4>1, <4>2
    <3>2. SubSeq(Unread, 1, 0) = <<>>
      BY <2>2
    <3>3. received' = <<>>
      <4>1. Encryption(<<>>) = <<>>
        BY DEF Encryption
      <4> QED BY <2>1, <3>1, <3>2, <4>1
    <3>4. Unread' = <<>>
      BY <2>1, <3>1
    <3>5. Pending = <<>> /\ Pending' = <<>>
      BY <1>1, <2>2, <3>4, CutNothing
    <3> QED BY <1>4, <2>1, <3>3, <3>4, <3>5 DEF Queue!GetNothing
  <2>3. ASSUME NEW d \in Payloads, Unread = Framed(d)
        PROVE  PathInv' /\ Queue!Get
    <3>1. /\ d \in Seq(Byte) /\ Len(d) \in Nat /\ Len(d) < MAX_DATA_LENGTH
          /\ CutEnds(Unread) = {Len(d) + 1} /\ SubSeq(Unread, 1, Len(d)) = d
          /\ Len(Unread) = Len(d) + 1
      BY <2>3, PlainIs, FramedIs
    <3>2. Reach(Unread) = Len(d) + 1
      BY <3>1, RingAssumption DEF Reach
    <3>3. Ends(Unread) = {Len(d) + 1}
      BY <1>1, <3>1, <3>2 DEF Ends, CutEnds
    <3>4. Min(Ends(Unread)) = Len(d) + 1
      BY <3>1, <3>3, MinIsLeast
    <3>5. Size(Unread) = Len(d) /\ t = Len(d) + 1
      BY <3>1, <3>3, <3>4 DEF Size, Taken
    <3>6. received' = Encryption(d) /\ Unread' = <<>>
      <4>1. Len(Unread') = 0
        <5> HIDE DEF t
        <5> QED BY <2>1, <3>1, <3>5
      <4>2. Unread' = <<>>
        BY <2>1, <4>1
      <4>3. received' = Encryption(d)
        BY <2>1, <3>1, <3>5, Zenon
      <4> QED BY <4>2, <4>3
    <3>7. Pending = <<Encryption(d)>> /\ Pending' = <<>>
      BY <1>1, <2>3, <3>6, CutMessage, CutNothing
    <3>8. Pending # <<>> /\ Head(Pending) = Encryption(d) /\ Tail(Pending) = <<>>
      BY <3>7
    <3> QED BY <1>4, <2>1, <3>6, <3>7, <3>8 DEF Queue!Get
  <2> QED BY <2>2, <2>3
<1>5. ASSUME UNCHANGED pathVars
      PROVE  PathInv' /\ UNCHANGED <<Pending, received>>
  <2>1. Unread' = Unread /\ RxTypeOK' /\ received' = received /\ reading' = reading
    BY <1>5 DEF pathVars, Unread, CanReadRadio, RxTypeOK
  <2> QED BY <1>1, <2>1
<1>6. CASE LoopDoRead
  BY <1>2, <1>3, <1>6 DEF LoopDoRead, Queue!Next
<1>7. CASE LoopReads
  BY <1>4, <1>7 DEF LoopReads, Queue!Next
<1>8. CASE UNCHANGED pathVars
  BY <1>5, <1>8
<1> QED BY <1>6, <1>7, <1>8 DEF PathNext

LEMMA PathStarts == PathInit => PathInv /\ Queue!Init
<1> SUFFICES ASSUME PathInit PROVE PathInv /\ Queue!Init
  OBVIOUS
<1>1. RxTypeOK /\ reading = FALSE /\ received = <<>>
  BY RxStarts DEF PathInit, RxInit
<1>2. CanReadRadio = 0
  BY DEF PathInit, RxInit, CanReadRadio
<1>3. Unread = <<>>
  BY <1>1, <1>2, RingIsOK
<1>4. Pending = <<>>
  BY <1>3, PendingIs, CutNothing
<1> QED BY <1>1, <1>3, <1>4 DEF PathInv, Queue!Init

\* For a ring of any depth and any payloads that keep to PlainPayloads, nothing is
\* left in the ring after a read, so that a message never meets a full ring (the
\* loop of terminal.c: one doRead, one readRadioMessage).
THEOREM LoopKeepsUp ==
  ASSUME PlainPayloads
  PROVE  PathSpec => []KeepsUp
<1>1. PathInv /\ [PathNext]_pathVars => PathInv'
  BY PathStep
<1>2. PathInv => KeepsUp
  BY DEF PathInv, KeepsUp
<1> QED BY PathStarts, <1>1, <1>2, PTL DEF PathSpec

\* Under the same conditions the ring of bytes implements the queue of messages:
\* saveReceivedData puts a message at its end, readRadioMessage takes the first one,
\* whole and decrypted, or nothing when there is none.
THEOREM RingImplementsQueue ==
  ASSUME PlainPayloads
  PROVE  PathSpec => DeliversMessages
<1>1. PathInv /\ [PathNext]_pathVars => PathInv' /\ [Queue!Next]_<<Pending, received>>
  BY PathStep
<1> QED BY PathStarts, <1>1, PTL DEF PathSpec, DeliversMessages, Queue!Spec

-----------------------------------------------------------------------------
\* The buffers in which a node collects the pings of its neighbors.

SenderState ==
  [occupied : BOOLEAN, address : InRange \cup {NoAddr}, number : 0 .. 14,
   total : 0 .. 15, data : Seq(Pair)]

\* What was collected begins with the message e and the zeros that end it.
Starts(d, e) ==
  /\ Len(e) < Len(d)
  /\ \A k \in 1 .. Len(e) : d[k] = e[k]
  /\ d[Len(e) + 1] = Terminator

BufferOK(s) ==
  s.data = <<>> \/ (/\ Len(s.data) < PAIRS
                    /\ \E g \in Pings : g.from = s.address /\ Starts(s.data, g.entries))

SendersOK(ss) ==
  /\ ss \in [Slots -> SenderState]
  /\ \A i \in Slots : ss[i].occupied => BufferOK(ss[i])
  /\ \A i, j \in Slots :
       ss[i].occupied /\ ss[j].occupied /\ ss[i].address = ss[j].address => i = j

NodeInv == Sound(Self, packages) /\ SendersOK(senders)

-----------------------------------------------------------------------------
\* Sequences of pairs.

LEMMA PingIs ==
  ASSUME NEW f \in Pings
  PROVE  /\ f.from \in InRange /\ f.from \in Peers(Self) /\ f.from # NoAddr
         /\ f.entries \in Seq(Entry) /\ Len(f.entries) <= PAIRS
         /\ f.number \in 0 .. 14 /\ f.total \in 0 .. 15
         /\ \A k \in DOMAIN f.entries : f.entries[k].id # f.from
<1>1. f.number \in 0 .. f.total - 1 /\ f.total \in 1 .. 15
  BY FrameAssumption DEF PingRules
<1>2. f.from \in InRange /\ f.entries \in Seq(Entry) /\ Len(f.entries) <= PAIRS
  BY FrameAssumption DEF PingRules
<1>3. \A k \in DOMAIN f.entries : f.entries[k].id # f.from
  BY FrameAssumption DEF PingRules
<1>4. f.from \in Peers(Self) /\ f.from # NoAddr
  BY <1>2, FrameAssumption, AddressAssumption DEF Peers
<1>5. f.total \in 0 .. 15 /\ f.number \in 0 .. 14
  <2>1. \A n \in 1 .. 15 : \A m \in 0 .. n - 1 : n \in 0 .. 15 /\ m \in 0 .. 14
    OBVIOUS
  <2> QED BY <1>1, <2>1, Zenon
<1> QED BY <1>2, <1>3, <1>4, <1>5, Zenon

\* processData finds the message that the buffer begins with.
LEMMA ReportOfStart ==
  ASSUME NEW d \in Seq(Pair), NEW e \in Seq(Entry), Starts(d, e)
  PROVE  Report(d) = e
<1> DEFINE ends == {k \in DOMAIN d : d[k] = Terminator}
           n == Len(e) + 1
<1>1. n \in ends /\ n \in Nat /\ Len(e) \in Nat /\ ends \subseteq Nat
  BY DEF Starts
<1>2. \A k \in 1 .. Len(e) : d[k] # Terminator
  BY TerminatorApart DEF Starts
<1>3. Min(ends) = n
  <2>1. Min(ends) \in ends /\ Min(ends) <= n
    BY <1>1, MinIsLeast
  <2>2. \A k \in ends : k >= n
    BY <1>1, <1>2
  <2>3. Min(ends) >= n /\ Min(ends) \in Nat
    BY <1>1, <2>1, <2>2
  <2> HIDE DEF ends
  <2> QED BY <1>1, <2>1, <2>3
<1>4. Report(d) = SubSeq(d, 1, Len(e))
  <2>1. ends # {} /\ Min(ends) - 1 = Len(e)
    BY <1>1, <1>3
  <2> QED BY <2>1, Zenon DEF Report
<1>5. SubSeq(d, 1, Len(e)) = e
  BY <1>1 DEF Starts
<1> QED BY <1>4, <1>5

LEMMA ReportOfFull ==
  ASSUME NEW e \in Seq(Entry)
  PROVE  Report(e) = e
<1>1. {k \in DOMAIN e : e[k] = Terminator} = {}
  BY TerminatorApart
<1> QED BY <1>1 DEF Report

\* Whatever is added, the buffer begins with one whole message of the sender.
LEMMA AddedStarts ==
  ASSUME NEW s \in SenderState, BufferOK(s), NEW f \in Pings, s.address = f.from
  PROVE  \E g \in Pings : /\ g.from = f.from
                          /\ \/ Starts(Added(s.data, f), g.entries)
                             \/ Added(s.data, f) = g.entries /\ Len(g.entries) = PAIRS
<1> DEFINE d == s.data
           c == Added(d, f)
<1>1. d \in Seq(Pair) /\ Len(d) \in Nat /\ PAIRS \in Nat \ {0}
  BY PairsAssumption DEF SenderState
<1>2. f.entries \in Seq(Entry) /\ Len(f.entries) \in Nat /\ Len(f.entries) <= PAIRS
  BY PingIs
<1> HIDE DEF d
<1>3. /\ c \in Seq(Pair)
      /\ Len(c) = IF PAIRS <= Len(d) + Len(f.entries) + 1 THEN PAIRS
                  ELSE Len(d) + Len(f.entries) + 1
      /\ \A k \in 1 .. Len(c) :
           c[k] = IF k <= Len(d) THEN d[k]
                  ELSE IF k <= Len(d) + Len(f.entries)
                  THEN f.entries[k - Len(d)] ELSE Terminator
  BY <1>1, <1>2, AddedIs
<1> HIDE DEF c
<1>4. CASE d = <<>>
  <2>1. Len(d) = 0
    BY <1>4
  <2>2. CASE Len(f.entries) = PAIRS
    <3>1. Len(c) = Len(f.entries)
      BY <1>1, <1>2, <1>3, <2>1, <2>2
    <3>2. \A k \in 1 .. Len(f.entries) : c[k] = f.entries[k]
      BY <1>1, <1>2, <1>3, <2>1, <3>1
    <3>3. c = f.entries
      BY <1>2, <1>3, <3>1, <3>2
    <3> QED BY <2>2, <3>3 DEF c, d
  <2>3. CASE Len(f.entries) # PAIRS
    <3>1. Len(c) = Len(f.entries) + 1
      BY <1>1, <1>2, <1>3, <2>1, <2>3
    <3>2. Starts(c, f.entries)
      BY <1>1, <1>2, <1>3, <2>1, <3>1 DEF Starts
    <3> QED BY <3>2 DEF c, d
  <2> QED BY <2>2, <2>3
<1>5. CASE d # <<>>
  <2>1. PICK g \in Pings : g.from = f.from /\ Starts(d, g.entries) /\ Len(d) < PAIRS
    BY <1>5 DEF BufferOK, d
  <2>2. Len(g.entries) \in Nat
    BY PingIs
  <2>3. Len(c) >= Len(d)
    BY <1>1, <1>2, <1>3, <2>1
  <2>4. \A k \in 1 .. Len(d) : c[k] = d[k]
    BY <1>1, <1>2, <1>3, <2>3
  <2>5. Starts(c, g.entries)
    BY <1>1, <2>1, <2>2, <2>3, <2>4 DEF Starts
  <2> QED BY <2>1, <2>5 DEF c, d
<1> QED BY <1>4, <1>5

-----------------------------------------------------------------------------
\* The buffers.

LEMMA ResetIs ==
  ASSUME NEW s \in SenderState
  PROVE  /\ ResetSenderState(s) \in SenderState /\ ResetSenderState(s).data = <<>>
         /\ ResetSenderState(s).address = s.address
         /\ ResetSenderState(s).occupied = s.occupied
<1>1. <<>> \in Seq(Pair) /\ 0 \in 0 .. 14 /\ 0 \in 0 .. 15
  OBVIOUS
<1> QED BY <1>1 DEF ResetSenderState, SenderState

LEMMA OwnSlot ==
  ASSUME SendersOK(senders), NEW f \in Pings, SenderSlots(senders, f.from) # {}
  PROVE  LET i == Min(SenderSlots(senders, f.from))
             s == Started(Claimed(senders, f.from, i), f)
         IN  /\ i \in Slots /\ s \in SenderState /\ BufferOK(s)
             /\ s.occupied /\ s.address = f.from
             /\ \A j \in Slots :
                  senders[j].occupied /\ senders[j].address = f.from => j = i
<1> DEFINE i == Min(SenderSlots(senders, f.from))
           w == Claimed(senders, f.from, i)
<1>1. SenderSlots(senders, f.from) \subseteq Slots
  BY DEF SenderSlots, Holding, Vacant
<1>2. i \in SenderSlots(senders, f.from) /\ i \in Slots
  BY <1>1, FirstSlot
<1> HIDE DEF i
<1>3. senders[i] \in SenderState
  BY <1>2 DEF SendersOK
<1>4. /\ w \in SenderState /\ BufferOK(w) /\ w.occupied /\ w.address = f.from
      /\ \A j \in Slots : senders[j].occupied /\ senders[j].address = f.from => j = i
  <2>1. CASE Holding(senders, f.from) # {}
    <3>1. w = senders[i] /\ i \in Holding(senders, f.from)
      BY <1>2, <2>1 DEF SenderSlots, Claimed
    <3> QED BY <1>2, <1>3, <3>1 DEF SendersOK, Holding
  <2>2. CASE Holding(senders, f.from) = {}
    <3>1. w = [ResetSenderState(senders[i]) EXCEPT !.occupied = TRUE, !.address = f.from]
      BY <2>2 DEF Claimed
    <3>2. w \in SenderState /\ w.occupied /\ w.address = f.from /\ w.data = <<>>
      BY <1>3, <3>1, ResetIs, PingIs DEF SenderState
    <3> QED BY <2>2, <3>2 DEF BufferOK, Holding
  <2> QED BY <2>1, <2>2
<1> HIDE DEF w
<1> DEFINE s == Started(w, f)
<1>5. /\ s \in SenderState /\ s.data = w.data /\ s.occupied = w.occupied
      /\ s.address = w.address
  BY <1>4, PingIs DEF Started, SenderState
<1>6. BufferOK(s)
  BY <1>4, <1>5 DEF BufferOK
<1> QED BY <1>2, <1>4, <1>5, <1>6 DEF i, w, s

LEMMA CollectedIs ==
  ASSUME NEW s \in SenderState, BufferOK(s), NEW f \in Pings, s.address = f.from
  PROVE  /\ Collected(s, f) \in SenderState
         /\ Collected(s, f).occupied = s.occupied
         /\ Collected(s, f).address = f.from
         /\ ~ Complete(Collected(s, f)) => BufferOK(Collected(s, f))
         /\ \E g \in Pings : g.from = f.from /\ Report(Collected(s, f).data) = g.entries
<1> DEFINE c == Collected(s, f)
<1>1. c = [s EXCEPT !.data = Added(s.data, f)]
  BY DEF Collected, Added
<1>2. Added(s.data, f) \in Seq(Pair) /\ Len(Added(s.data, f)) \in Nat
  BY AddedIs, PingIs DEF SenderState
<1>3. /\ c \in SenderState /\ c.occupied = s.occupied /\ c.address = f.from
      /\ c.data = Added(s.data, f)
  BY <1>1, <1>2 DEF SenderState
<1>4. PICK g \in Pings : /\ g.from = f.from
                         /\ \/ Starts(c.data, g.entries)
                            \/ c.data = g.entries /\ Len(g.entries) = PAIRS
  BY <1>3, AddedStarts
<1> HIDE DEF c
<1>5. Report(c.data) = g.entries
  BY <1>2, <1>3, <1>4, ReportOfStart, ReportOfFull, PingIs
<1>6. ASSUME ~ Complete(c)  PROVE BufferOK(c)
  <2>1. Len(c.data) < PAIRS
    BY <1>2, <1>3, <1>6, PairsAssumption DEF Complete
  <2> QED BY <1>3, <1>4, <2>1 DEF BufferOK
<1> QED BY <1>3, <1>4, <1>5, <1>6 DEF c

\* One buffer of a sender changes.
LEMMA OneBuffer ==
  ASSUME SendersOK(senders), NEW i \in Slots, NEW x \in SenderState,
         BufferOK(x), NEW a, x.address = a,
         \A j \in Slots : senders[j].occupied /\ senders[j].address = a => j = i
  PROVE  SendersOK([senders EXCEPT ![i] = x])
<1> DEFINE n == [senders EXCEPT ![i] = x]
<1>1. senders \in [Slots -> SenderState]
  BY DEF SendersOK
<1>2. /\ n \in [Slots -> SenderState] /\ n[i] = x
      /\ \A j \in Slots : j # i => n[j] = senders[j]
  BY <1>1
<1> HIDE DEF n
<1>3. ASSUME NEW j \in Slots, n[j].occupied  PROVE BufferOK(n[j])
  BY <1>2, <1>3 DEF SendersOK
<1>4. ASSUME NEW j \in Slots, NEW k \in Slots, n[j].occupied, n[k].occupied,
             n[j].address = n[k].address
      PROVE  j = k
  <2>1. CASE j = i \/ k = i
    BY <1>2, <1>4, <2>1
  <2>2. CASE j # i /\ k # i
    BY <1>2, <1>4, <2>2 DEF SendersOK
  <2> QED BY <2>1, <2>2
<1>5. \A j \in Slots : n[j].occupied => BufferOK(n[j])
  BY <1>3
<1>6. \A j, k \in Slots : n[j].occupied /\ n[k].occupied
                           /\ n[j].address = n[k].address => j = k
  BY <1>4
<1>7. SendersOK(n)
  BY <1>2, <1>5, <1>6 DEF SendersOK
<1> QED BY <1>7 DEF n

LEMMA DropKeeps ==
  ASSUME SendersOK(senders), NEW gone
  PROVE  SendersOK(DropSenders(senders, gone))
<1> DEFINE n == DropSenders(senders, gone)
<1>1. ASSUME NEW i \in Slots
      PROVE  n[i] \in SenderState /\ (n[i] = senders[i] \/ ~ n[i].occupied)
  <2>1. senders[i] \in SenderState
    BY DEF SendersOK
  <2>2. [ResetSenderState(senders[i]) EXCEPT !.occupied = FALSE] \in SenderState
    BY <2>1, ResetIs DEF SenderState
  <2>3. ~ [ResetSenderState(senders[i]) EXCEPT !.occupied = FALSE].occupied
    BY <2>1, ResetIs DEF SenderState
  <2> QED BY <2>1, <2>2, <2>3 DEF DropSenders
<1>2. n = [i \in Slots |-> n[i]]
  BY DEF DropSenders
<1> HIDE DEF n
<1>3. n \in [Slots -> SenderState]
  BY <1>1, <1>2
<1>4. ASSUME NEW j \in Slots, n[j].occupied  PROVE n[j] = senders[j] /\ BufferOK(n[j])
  BY <1>1, <1>4 DEF SendersOK
<1>5. ASSUME NEW j \in Slots, NEW k \in Slots, n[j].occupied, n[k].occupied,
             n[j].address = n[k].address
      PROVE  j = k
  BY <1>4, <1>5 DEF SendersOK
<1>6. \A j \in Slots : n[j].occupied => BufferOK(n[j])
  BY <1>4
<1>7. \A j, k \in Slots : n[j].occupied /\ n[k].occupied
                           /\ n[j].address = n[k].address => j = k
  BY <1>5
<1>8. SendersOK(n)
  BY <1>3, <1>6, <1>7 DEF SendersOK
<1> QED BY <1>8 DEF n

-----------------------------------------------------------------------------
\* A node's handlers.

\* What a ping does to the table, by what became of it in the buffers.
LEMMA PingToTable ==
  ASSUME NodeInv, NEW f \in Pings, RxPing(f)
  PROVE  /\ \/ packages' = UpdateWeight(packages, f.from)
            \/ /\ CheckTrusted(UpdateWeight(packages, f.from), f.from)
               /\ \E g \in Pings :
                    /\ g.from = f.from
                    /\ packages' = ProcessData(Self, UpdateWeight(packages, f.from),
                                               g.entries, f.from)
         /\ SendersOK(senders')
<1> DEFINE t == UpdateWeight(packages, f.from)
           i == Min(SenderSlots(senders, f.from))
           s == Started(Claimed(senders, f.from, i), f)
           c == Collected(s, f)
<1>1. CheckTrusted(t, f.from)
  BY DEF RxPing
<1>2. CASE SenderSlots(senders, f.from) = {} /\ packages' = t /\ UNCHANGED senders
  BY <1>2 DEF NodeInv
<1>3. ASSUME SenderSlots(senders, f.from) # {}
      PROVE  /\ i \in Slots /\ s \in SenderState /\ BufferOK(s)
             /\ s.occupied /\ s.address = f.from
             /\ \A j \in Slots :
                  senders[j].occupied /\ senders[j].address = f.from => j = i
  BY <1>3, OwnSlot DEF NodeInv
<1>4. CASE /\ SenderSlots(senders, f.from) # {}
           /\ packages' = t /\ senders' = [senders EXCEPT ![i] = s]
  <2> HIDE DEF i, s, t
  <2>1. SendersOK([senders EXCEPT ![i] = s])
    BY <1>3, <1>4, OneBuffer DEF NodeInv
  <2> QED BY <1>4, <2>1 DEF t
<1>5. ASSUME SenderSlots(senders, f.from) # {}
      PROVE  /\ c \in SenderState /\ c.address = f.from
             /\ ~ Complete(c) => BufferOK(c)
             /\ \E g \in Pings : g.from = f.from /\ Report(c.data) = g.entries
  <2> HIDE DEF i, s
  <2> QED BY <1>3, <1>5, CollectedIs
<1>6. CASE /\ SenderSlots(senders, f.from) # {} /\ ~ Complete(c)
           /\ packages' = t /\ senders' = [senders EXCEPT ![i] = c]
  <2> HIDE DEF i, s, c, t
  <2>1. SendersOK([senders EXCEPT ![i] = c])
    BY <1>3, <1>5, <1>6, OneBuffer DEF NodeInv
  <2> QED BY <1>6, <2>1 DEF t
<1>7. CASE /\ SenderSlots(senders, f.from) # {}
           /\ packages' = ProcessData(Self, t, Report(c.data), f.from)
           /\ senders' = [senders EXCEPT ![i] = ResetSenderState(c)]
  <2> HIDE DEF i, s, c, t
  <2>1. /\ ResetSenderState(c) \in SenderState /\ ResetSenderState(c).address = f.from
        /\ BufferOK(ResetSenderState(c))
    BY <1>5, <1>7, ResetIs DEF BufferOK
  <2>2. SendersOK([senders EXCEPT ![i] = ResetSenderState(c)])
    BY <1>3, <1>7, <2>1, OneBuffer DEF NodeInv
  <2>3. PICK g \in Pings : g.from = f.from /\ Report(c.data) = g.entries
    BY <1>5, <1>7
  <2> QED BY <1>1, <1>7, <2>2, <2>3 DEF t
<1> QED BY <1>2, <1>4, <1>6, <1>7 DEF RxPing

\* Every step changes the table and the buffers in one of these ways.
LEMMA StepIs ==
  ASSUME NodeInv, [Next]_vars
  PROVE  /\ \/ \E a \in InRange : packages' = UpdateWeight(packages, a)
            \/ \E g \in Pings :
                 /\ CheckTrusted(UpdateWeight(packages, g.from), g.from)
                 /\ packages' = ProcessData(Self, UpdateWeight(packages, g.from),
                                            g.entries, g.from)
            \/ packages' = LowerWeights(packages)
            \/ UNCHANGED packages
         /\ SendersOK(senders')
<1>1. ASSUME NEW a \in InRange, RxOther(a)
      PROVE  packages' = UpdateWeight(packages, a) /\ senders' = senders
  BY <1>1 DEF RxOther
<1>2. ASSUME NEW f \in Pings, RxPing(f)
      PROVE  /\ \/ packages' = UpdateWeight(packages, f.from)
                \/ \E g \in Pings :
                     /\ CheckTrusted(UpdateWeight(packages, g.from), g.from)
                     /\ packages' = ProcessData(Self, UpdateWeight(packages, g.from),
                                                g.entries, g.from)
             /\ SendersOK(senders') /\ f.from \in InRange
  BY <1>2, PingToTable, PingIs
<1>3. ASSUME NEW f \in Datas, RxData(f)
      PROVE  packages' = UpdateWeight(packages, f.from) /\ senders' = senders
             /\ f.from \in InRange
  BY <1>3, FrameAssumption DEF RxData
<1>4. ASSUME NEW a \in Peers(Self), NEW d \in Payloads, SendData(a, d)
      PROVE  UNCHANGED <<packages, senders>>
  BY <1>4 DEF SendData
<1>5. ASSUME ReadMessage  PROVE UNCHANGED <<packages, senders>>
  BY <1>5 DEF ReadMessage, nodeVars
<1>6. ASSUME TimerHandler
      PROVE  packages' = LowerWeights(packages) /\ SendersOK(senders')
  BY <1>6, DropKeeps DEF TimerHandler, NodeInv
<1>7. ASSUME UNCHANGED vars  PROVE UNCHANGED <<packages, senders>>
  BY <1>7 DEF vars
<1>8. SendersOK(senders)
  BY DEF NodeInv
<1> QED BY <1>1, <1>2, <1>3, <1>4, <1>5, <1>6, <1>7, <1>8 DEF Next

LEMMA NodeInit == Init => NodeInv
<1> SUFFICES ASSUME Init PROVE NodeInv
  OBVIOUS
<1>1. FreeSender \in SenderState /\ ~ FreeSender.occupied
  BY DEF FreeSender, SenderState
<1>2. SendersOK(senders)
  BY <1>1 DEF Init, SendersOK
<1> QED BY <1>2, EmptySound DEF Init, NodeInv

LEMMA NodeStep == NodeInv /\ [Next]_vars => NodeInv'
<1> SUFFICES ASSUME NodeInv, [Next]_vars PROVE NodeInv'
  OBVIOUS
<1>1. ASSUME NEW a \in InRange, packages' = UpdateWeight(packages, a)
      PROVE  Sound(Self, packages')
  BY <1>1, HeardSound, FrameAssumption DEF NodeInv
<1>2. ASSUME NEW g \in Pings,
             CheckTrusted(UpdateWeight(packages, g.from), g.from),
             packages' = ProcessData(Self, UpdateWeight(packages, g.from), g.entries, g.from)
      PROVE  Sound(Self, packages')
  BY <1>2, ReportSound, PingIs DEF NodeInv
<1>3. ASSUME packages' = LowerWeights(packages)  PROVE Sound(Self, packages')
  BY <1>3, TickSound DEF NodeInv
<1>4. ASSUME UNCHANGED packages  PROVE Sound(Self, packages')
  BY <1>4 DEF NodeInv
<1>5. Sound(Self, packages') /\ SendersOK(senders')
  BY <1>1, <1>2, <1>3, <1>4, StepIs
<1> QED BY <1>5 DEF NodeInv, Sound, Named, Unambiguous, Owned, Vouching, SendersOK, BufferOK

\* The table stays sound and every buffer holds whole messages of one sender.
THEOREM NodeInvariant == Spec => []NodeInv
BY NodeInit, NodeStep, PTL DEF Spec

\* The buffers of the senders never mix, and the report handed to processData is
\* a single message of the sender (saveRemoteNeighborTable, dropSender).
THEOREM BuffersStayApart == Spec => []BuffersApart
<1>1. NodeInv => BuffersApart
  <2> SUFFICES ASSUME NodeInv, NEW i \in Slots, senders[i].occupied
               PROVE  /\ Holding(senders, senders[i].address) = {i}
                      /\ senders[i].data # <<>> =>
                           /\ Len(senders[i].data) < PAIRS
                           /\ \E f \in Pings : /\ f.from = senders[i].address
                                              /\ Report(senders[i].data) = f.entries
    BY DEF BuffersApart
  <2>1. Holding(senders, senders[i].address) = {i}
    BY DEF NodeInv, SendersOK, Holding
  <2>2. BufferOK(senders[i]) /\ senders[i].data \in Seq(Pair)
    BY DEF NodeInv, SendersOK, SenderState
  <2>3. ASSUME senders[i].data # <<>>
        PROVE  \E f \in Pings : /\ f.from = senders[i].address
                               /\ Report(senders[i].data) = f.entries
    BY <2>2, <2>3, ReportOfStart, PingIs DEF BufferOK
  <2> QED BY <2>1, <2>2, <2>3 DEF BufferOK
<1> QED BY <1>1, NodeInvariant, PTL

-----------------------------------------------------------------------------
\* Data goes to a neighbor that hears this node (doRead, sendRadioData).
THEOREM DataGoesToNeighbors == Spec => DataToNeighbors
<1> DEFINE To == tx' # tx /\ tx'.kind = "data" =>
                   \E i \in Direct(packages') : packages'[i].id = tx'.via
<1>1. ASSUME NodeInv, NodeInv', [Next]_vars  PROVE To
  <2>1. ASSUME NEW t, NEW a \in Addr, NEW d, Sound(Self, t), packages' = t,
               SendRadioData(t, a, d), tx' # tx
        PROVE  \E i \in Direct(packages') : packages'[i].id = tx'.via
    <3>1. NextHop(t, a) # NoAddr /\ tx'.via = NextHop(t, a)
      BY <2>1 DEF SendRadioData
    <3> QED BY <2>1, <3>1, RouteDirect
  <2>2. Sound(Self, packages') /\ Sound(Self, packages)
    BY <1>1 DEF NodeInv
  <2>3. ASSUME NEW f \in Datas, RxData(f)  PROVE To
    <3>1. f.target \in Addr
      BY FrameAssumption
    <3>2. CASE tx' = tx
      BY <3>2
    <3>3. CASE SendRadioData(UpdateWeight(packages, f.from), f.target, f.payload)
      BY <2>1, <2>2, <2>3, <3>1, <3>3 DEF RxData
    <3> QED BY <2>3, <3>2, <3>3 DEF RxData
  <2>4. ASSUME NEW a \in Peers(Self), NEW d \in Payloads, SendData(a, d)  PROVE To
    BY <2>1, <2>2, <2>4 DEF SendData, Peers
  <2>5. ASSUME TimerHandler  PROVE tx'.kind = "ping"
    BY <2>5 DEF TimerHandler, SendNextPing
  <2>6. ASSUME \/ \E a \in InRange : RxOther(a)
               \/ \E f \in Pings : RxPing(f)
               \/ ReadMessage \/ UNCHANGED vars
        PROVE  tx' = tx
    BY <2>6 DEF RxOther, RxPing, ReadMessage, nodeVars, vars
  <2> QED BY <1>1, <2>3, <2>4, <2>5, <2>6 DEF Next
<1> QED BY <1>1, NodeInvariant, PTL DEF Spec, DataToNeighbors

-----------------------------------------------------------------------------
\* The pings this node sends. 

LEMMA BlocksApart ==
  ASSUME NEW p \in Nat \ {0}, NEW c \in Nat, NEW d \in Nat, NEW j \in 1 .. p,
         NEW k \in 1 .. p, c * p + j = d * p + k
  PROVE  c = d /\ j = k
<1>1. ASSUME NEW x \in Nat, NEW y \in Nat, x < y  PROVE x * p + p <= y * p
  <2>1. (y - (x + 1)) * p >= 0
    BY <1>1
  <2>2. y * p = x * p + p + (y - (x + 1)) * p
    OBVIOUS
  <2> QED BY <2>1, <2>2
<1>2. c * p \in Nat /\ d * p \in Nat
  OBVIOUS
<1>3. ~ (c < d)
  BY <1>1, <1>2
<1>4. ~ (d < c)
  BY <1>1, <1>2
<1> QED BY <1>2, <1>3, <1>4

\* A round of pings lists an address once.
ListsOnce(m) ==
  \A c, d \in DOMAIN m : \A j \in DOMAIN m[c], k \in DOMAIN m[d] :
    /\ m[c][j].id \in Peers(Self) /\ m[c][j].hops >= 1
    /\ m[c][j].id = m[d][k].id => c = d /\ j = k

\* It is cut into full messages and a last one that is not empty.
Filled(m) ==
  \A c \in DOMAIN m :
    Len(m[c]) \in 1 .. PAIRS /\ (c < Len(m) => Len(m[c]) = PAIRS)

\* How many messages a full table takes.
LongestRound == (MAX_SENDERS + PAIRS - 1) \div PAIRS

RoundOK(s) ==
  /\ s \in [messages : Seq(Seq(Entry)), current : Nat]
  /\ s.current <= Len(s.messages) /\ Len(s.messages) <= LongestRound
  /\ ListsOnce(s.messages) /\ Filled(s.messages)

\* What PingRules asks for, with the length of a round as the constants give it.
ProperPing(x) ==
  /\ x.total \in Nat \ {0} /\ x.total <= LongestRound /\ x.number \in 0 .. x.total - 1
  /\ x.entries \in Seq(Entry) /\ Len(x.entries) <= PAIRS
  /\ x.number < x.total - 1 => Len(x.entries) = PAIRS
  /\ x.entries = <<>> => x.total = 1
  /\ \A k \in DOMAIN x.entries : x.entries[k].id # Self

LEMMA LongestRoundIs == LongestRound \in Nat \ {0}
<1>1. PAIRS \in Nat \ {0} /\ MAX_SENDERS + PAIRS - 1 \in Nat
      /\ PAIRS <= MAX_SENDERS + PAIRS - 1
  BY PairsAssumption, TableAssumption
<1>2. PAIRS \div PAIRS = 1
  BY <1>1
<1>3. LongestRound \in Nat
  BY <1>1 DEF LongestRound
<1>4. PAIRS \div PAIRS <= LongestRound
  BY <1>1, QuotientGrows DEF LongestRound
<1> QED BY <1>2, <1>3, <1>4

\* Every message of a round has something to report.
LEMMA Reported ==
  ASSUME NEW p \in Nat \ {0}, NEW l \in Nat, NEW c \in Nat \ {0}, c <= (l + p - 1) \div p
  PROVE  (c - 1) * p < l
<1> DEFINE q == (l + p - 1) \div p
<1>1. q \in Nat /\ q * p <= l + p - 1
  OBVIOUS
<1> HIDE DEF q
<1>2. c <= q
  BY DEF q
<1>3. (q - c) * p >= 0
  BY <1>1, <1>2
<1>4. (c - 1) * p + p + (q - c) * p = q * p
  BY <1>1
<1> QED BY <1>1, <1>3, <1>4

LEMMA CreateSnapshotIs ==
  ASSUME NEW t, Sound(Self, t), Hopped(t)
  PROVE  RoundOK(CreateSnapshot(t)) /\ CreateSnapshot(t).current = 0
<1> DEFINE a == Advertised(t)
           n == (Len(a) + PAIRS - 1) \div PAIRS
           m == [c \in 1 .. n |->
                   SubSeq(a, (c - 1) * PAIRS + 1, Min({c * PAIRS, Len(a)}))]
<1>1. Collects(a, t, MAX_SENDERS)
  BY AdvertisedIs
<1> HIDE DEF a
<1>2. /\ a \in Seq(Entry) /\ Len(a) \in Nat /\ Len(a) <= MAX_SENDERS
      /\ PAIRS \in Nat \ {0} /\ MAX_SENDERS \in Nat
  BY <1>1, PairsAssumption, TableAssumption DEF Collects
<1>3. n \in Nat /\ n <= LongestRound
  <2>1. Len(a) + PAIRS - 1 \in Nat /\ MAX_SENDERS + PAIRS - 1 \in Nat
        /\ Len(a) + PAIRS - 1 <= MAX_SENDERS + PAIRS - 1
    BY <1>2
  <2> QED BY <1>2, <2>1, QuotientGrows DEF LongestRound
<1>11. ASSUME NEW c \in 1 .. n
       PROVE  (c - 1) * PAIRS < Len(a) /\ (c < n => c * PAIRS <= Len(a))
  <2>1. c \in Nat \ {0} /\ c <= n
    BY <1>3
  <2>2. (c - 1) * PAIRS < Len(a)
    BY <1>2, <2>1, Reported
  <2>3. ASSUME c < n  PROVE c * PAIRS <= Len(a)
    <3>1. c + 1 \in Nat \ {0} /\ c + 1 <= n
      BY <1>3, <2>1, <2>3
    <3>2. ((c + 1) - 1) * PAIRS < Len(a)
      <4> HIDE DEF n
      <4> DEFINE d == c + 1
      <4>1. d \in Nat \ {0} /\ d <= n
        BY <3>1
      <4> HIDE DEF d
      <4>2. (d - 1) * PAIRS < Len(a)
        BY <1>2, <4>1, Reported DEF n
      <4> QED BY <4>2 DEF d
    <3>3. (c + 1) - 1 = c /\ c * PAIRS \in Nat
      BY <1>2, <2>1
    <3> QED BY <1>2, <3>2, <3>3
  <2> QED BY <2>2, <2>3
<1> HIDE DEF n
<1>4. ASSUME NEW c \in 1 .. n
      PROVE  /\ m[c] \in Seq(Entry)
             /\ \A j \in DOMAIN m[c] : /\ j \in 1 .. PAIRS
                                       /\ (c - 1) * PAIRS + j \in DOMAIN a
                                       /\ m[c][j] = a[(c - 1) * PAIRS + j]
             /\ Len(m[c]) \in 1 .. PAIRS /\ (c < n => Len(m[c]) = PAIRS)
  <2>1. c \in Nat \ {0}
    BY <1>3
  <2>2. m[c] = SubSeq(a, (c - 1) * PAIRS + 1, Min({c * PAIRS, Len(a)}))
    OBVIOUS
  <2> HIDE DEF m
  <2>3. a \in Seq(Entry)
    BY <1>2
  <2>4. /\ m[c] \in Seq(Entry)
        /\ \A j \in DOMAIN m[c] : /\ j \in 1 .. PAIRS
                                  /\ (c - 1) * PAIRS + j \in DOMAIN a
                                  /\ m[c][j] = a[(c - 1) * PAIRS + j]
        /\ (c - 1) * PAIRS < Len(a) =>
             /\ Len(m[c]) \in 1 .. PAIRS
             /\ c * PAIRS <= Len(a) => Len(m[c]) = PAIRS
    BY <2>1, <2>2, <2>3, MessageIs, Zenon
  <2> QED BY <1>11, <2>4, Zenon
<1>5. m = [c \in 1 .. n |-> m[c]]
  OBVIOUS
<1>6. CreateSnapshot(t) = [messages |-> m, current |-> 0]
  BY DEF CreateSnapshot, m, n, a
<1> HIDE DEF m
<1>7. m \in Seq(Seq(Entry)) /\ Len(m) = n /\ DOMAIN m = 1 .. n
  <2>1. m \in [1 .. n -> Seq(Entry)]
    BY <1>4, <1>5
  <2> QED BY <1>3, <2>1
<1>8. ASSUME NEW c \in DOMAIN m, NEW j \in DOMAIN m[c]
      PROVE  m[c][j].id \in Peers(Self) /\ m[c][j].hops >= 1
  <2>1. (c - 1) * PAIRS + j \in DOMAIN a /\ m[c][j] = a[(c - 1) * PAIRS + j]
    BY <1>4, <1>7
  <2>2. \A k \in DOMAIN a : a[k].hops >= 1 /\ a[k].id \in Peers(Self)
    <3> SUFFICES ASSUME NEW k \in DOMAIN a PROVE a[k].hops >= 1 /\ a[k].id \in Peers(Self)
      OBVIOUS
    <3>1. a[k] \in Entry
      BY <1>2
    <3>2. PICK i \in 0 .. MAX_SENDERS - 1 : t[i].inUse /\ t[i].id = a[k].id
      BY <1>1 DEF Collects
    <3> QED BY <3>1, <3>2 DEF Entry, Sound, Named, Slots
  <2> QED BY <2>1, <2>2
<1>9. ASSUME NEW c \in DOMAIN m, NEW d \in DOMAIN m, NEW j \in DOMAIN m[c],
             NEW k \in DOMAIN m[d], m[c][j].id = m[d][k].id
      PROVE  c = d /\ j = k
  <2>1. /\ c \in 1 .. n /\ d \in 1 .. n
        /\ j \in 1 .. PAIRS /\ k \in 1 .. PAIRS
        /\ (c - 1) * PAIRS + j \in DOMAIN a /\ m[c][j] = a[(c - 1) * PAIRS + j]
        /\ (d - 1) * PAIRS + k \in DOMAIN a /\ m[d][k] = a[(d - 1) * PAIRS + k]
    BY <1>4, <1>7
  <2>2. (c - 1) * PAIRS + j = (d - 1) * PAIRS + k
    BY <1>1, <1>9, <2>1 DEF Collects
  <2>3. c - 1 \in Nat /\ d - 1 \in Nat
    BY <1>3, <2>1
  <2>4. c - 1 = d - 1 /\ j = k
    <3> DEFINE x == c - 1
               y == d - 1
    <3>1. x * PAIRS + j = y * PAIRS + k /\ x \in Nat /\ y \in Nat
      BY <2>2, <2>3
    <3>2. PAIRS \in Nat \ {0} /\ j \in 1 .. PAIRS /\ k \in 1 .. PAIRS
      BY <1>2, <2>1
    <3> HIDE DEF x, y
    <3>3. x = y /\ j = k
      BY <3>1, <3>2, BlocksApart, Zenon
    <3> QED BY <3>3 DEF x, y
  <2> QED BY <1>3, <2>1, <2>4
<1>10. ListsOnce(m)
  BY <1>8, <1>9 DEF ListsOnce
<1>12. Filled(m)
  BY <1>4, <1>7 DEF Filled
<1> QED BY <1>3, <1>6, <1>7, <1>10, <1>12 DEF RoundOK

Sent == {[kind |-> "none"]} \cup Ping \cup Data

LEMMA SendPing ==
  ASSUME RoundOK(snapshot), NEW t, Sound(Self, t), Hopped(t), SendNextPing(t)
  PROVE  RoundOK(snapshot') /\ tx' \in Sent /\ ProperPing(tx')
<1> DEFINE s == IF snapshot.current >= Len(snapshot.messages)
                THEN CreateSnapshot(t) ELSE snapshot
           total == Len(s.messages)
<1>1. RoundOK(s) /\ (total > 0 => s.current < total)
  <2>1. CASE snapshot.current >= Len(snapshot.messages)
    BY <2>1, CreateSnapshotIs
  <2>2. CASE ~ (snapshot.current >= Len(snapshot.messages))
    BY <2>2 DEF RoundOK
  <2> QED BY <2>1, <2>2
<1>2. \/ /\ total > 0
         /\ tx' = [kind |-> "ping", number |-> s.current, total |-> total,
                   entries |-> s.messages[s.current + 1],
                   end |-> s.current + 1 = total]
         /\ snapshot' = [s EXCEPT !.current = @ + 1]
      \/ /\ tx' = [kind |-> "ping", number |-> 0, total |-> 1,
                   entries |-> <<>>, end |-> TRUE]
         /\ snapshot' = s
  BY DEF SendNextPing
<1> HIDE DEF s
<1>3. /\ s \in [messages : Seq(Seq(Entry)), current : Nat] /\ total \in Nat
      /\ total <= LongestRound /\ ListsOnce(s.messages) /\ Filled(s.messages)
  BY <1>1 DEF RoundOK
<1>4. CASE /\ total > 0
           /\ tx' = [kind |-> "ping", number |-> s.current, total |-> total,
                     entries |-> s.messages[s.current + 1],
                     end |-> s.current + 1 = total]
           /\ snapshot' = [s EXCEPT !.current = @ + 1]
  <2>1. s.current \in Nat /\ s.current + 1 \in 1 .. total
    BY <1>1, <1>3, <1>4
  <2>2. s.messages[s.current + 1] \in Seq(Entry)
    BY <1>3, <2>1
  <2>3. tx' \in Ping
    BY <1>3, <1>4, <2>1, <2>2 DEF Ping
  <2>4. /\ snapshot' \in [messages : Seq(Seq(Entry)), current : Nat]
        /\ snapshot'.messages = s.messages /\ snapshot'.current = s.current + 1
    <3>1. s.current + 1 \in Nat
      BY <2>1
    <3> HIDE DEF total
    <3> QED BY <1>3, <1>4, <3>1
  <2>5. RoundOK(snapshot')
    BY <1>3, <2>1, <2>4 DEF RoundOK
  <2>6. /\ tx'.total = total /\ tx'.number = s.current
        /\ tx'.entries = s.messages[s.current + 1]
    BY <1>4
  <2>7. Len(tx'.entries) \in 1 .. PAIRS
        /\ (s.current + 1 < total => Len(tx'.entries) = PAIRS)
    BY <1>3, <2>1, <2>6 DEF Filled
  <2>8. ASSUME NEW k \in DOMAIN tx'.entries  PROVE tx'.entries[k].id # Self
    <3>1. s.current + 1 \in DOMAIN s.messages
      BY <1>3, <2>1
    <3> QED BY <1>3, <2>6, <2>8, <3>1 DEF ListsOnce, Peers
  <2>9. ProperPing(tx')
    <3> HIDE DEF total
    <3>1. total \in Nat \ {0} /\ s.current \in 0 .. total - 1
      BY <1>3, <2>1
    <3>2. tx'.entries # <<>> /\ Len(tx'.entries) <= PAIRS
          /\ (s.current < total - 1 => Len(tx'.entries) = PAIRS)
      BY <2>7, <3>1, PairsAssumption
    <3> QED BY <1>3, <2>2, <2>6, <2>8, <3>1, <3>2 DEF ProperPing
  <2> QED BY <2>3, <2>5, <2>9 DEF Sent
<1>5. CASE /\ tx' = [kind |-> "ping", number |-> 0, total |-> 1,
                     entries |-> <<>>, end |-> TRUE]
           /\ snapshot' = s
  <2>1. tx' \in Ping
    BY <1>5 DEF Ping
  <2>2. ProperPing(tx')
    BY <1>5, LongestRoundIs, PairsAssumption DEF ProperPing
  <2> QED BY <1>1, <1>5, <2>1, <2>2 DEF Sent
<1> QED BY <1>2, <1>4, <1>5

LEMMA SendFrame ==
  ASSUME tx \in Sent, NEW t, Sound(Self, t), NEW a \in Addr, NEW d \in Seq(Byte),
         SendRadioData(t, a, d)
  PROVE  tx' \in Sent /\ (tx' = tx \/ tx'.kind = "data")
<1>1. CASE NextHop(t, a) = NoAddr
  BY <1>1 DEF SendRadioData
<1>2. CASE NextHop(t, a) # NoAddr
  <2>1. PICK i \in Direct(t) : t[i].id = NextHop(t, a)
    BY <1>2, RouteDirect
  <2>2. NextHop(t, a) \in Addr
    BY <2>1 DEF Direct, Sound, Named, Peers
  <2>3. tx' = [kind |-> "data", via |-> NextHop(t, a), target |-> a, payload |-> d]
    BY <1>2 DEF SendRadioData
  <2>4. tx' \in Data
    BY <2>2, <2>3 DEF Data
  <2> QED BY <2>3, <2>4 DEF Sent
<1> QED BY <1>1, <1>2

-----------------------------------------------------------------------------
\* The whole state of a node.

WholeInv ==
  /\ NodeInv /\ Hopped(packages) /\ RoundOK(snapshot)
  /\ tx \in Sent /\ (tx.kind = "ping" => ProperPing(tx))
  /\ RxTypeOK

LEMMA WholeStart == Init => WholeInv
<1> SUFFICES ASSUME Init PROVE WholeInv
  OBVIOUS
<1>1. NodeInv
  BY NodeInit
<1>2. Hopped(packages)
  BY EmptyHopped DEF Init
<1>3. RoundOK(snapshot)
  <2>1. 0 <= LongestRound
    BY LongestRoundIs
  <2>2. ListsOnce(<<>>) /\ Filled(<<>>)
    BY DEF ListsOnce, Filled
  <2> QED BY <2>1, <2>2 DEF Init, RoundOK
<1>4. tx \in Sent /\ tx.kind # "ping"
  BY DEF Init, Sent
<1>5. RxTypeOK
  BY RxStarts DEF Init
<1> QED BY <1>1, <1>2, <1>3, <1>4, <1>5 DEF WholeInv

\* What becomes of the ring, whichever handler runs.
LEMMA RingSteps ==
  ASSUME [Next]_vars
  PROVE  \/ \E d \in Payloads : SaveReceivedData(d)
         \/ ReadRadioMessage
         \/ UNCHANGED rxVars
<1>1. ASSUME NEW a \in InRange, RxOther(a)  PROVE UNCHANGED rxVars
  BY <1>1 DEF RxOther
<1>2. ASSUME NEW f \in Pings, RxPing(f)  PROVE UNCHANGED rxVars
  BY <1>2 DEF RxPing
<1>3. ASSUME NEW f \in Datas, RxData(f)
      PROVE  UNCHANGED rxVars \/ \E d \in Payloads : SaveReceivedData(d)
  <2>1. f.payload \in Payloads
    BY FrameAssumption
  <2> QED BY <1>3, <2>1 DEF RxData
<1>4. ASSUME NEW a \in Peers(Self), NEW d \in Payloads, SendData(a, d)
      PROVE  UNCHANGED rxVars
  BY <1>4 DEF SendData
<1>5. ASSUME ReadMessage  PROVE ReadRadioMessage
  BY <1>5 DEF ReadMessage
<1>6. ASSUME TimerHandler  PROVE UNCHANGED rxVars
  BY <1>6 DEF TimerHandler
<1>7. ASSUME UNCHANGED vars  PROVE UNCHANGED rxVars
  BY <1>7 DEF vars, rxVars
<1> QED BY <1>1, <1>2, <1>3, <1>4, <1>5, <1>6, <1>7 DEF Next

LEMMA TableSteps ==
  ASSUME WholeInv, [Next]_vars
  PROVE  Hopped(packages')
<1>1. packages \in Table /\ Hopped(packages) /\ NodeInv
  BY DEF WholeInv, NodeInv, Sound
<1>2. ASSUME NEW a \in InRange
      PROVE  /\ a \in Addr /\ UpdateWeight(packages, a) \in Table
             /\ Hopped(UpdateWeight(packages, a))
  <2>1. a \in Addr
    BY FrameAssumption DEF Peers
  <2> QED BY <1>1, <2>1, HeardHopped, UpdateWeightType
<1>3. ASSUME NEW g \in Pings
      PROVE  Hopped(ProcessData(Self, UpdateWeight(packages, g.from), g.entries, g.from))
  BY <1>2, PingIs, ReportHopped
<1>4. Hopped(LowerWeights(packages))
  BY <1>1, TickHopped
<1> QED BY <1>1, <1>2, <1>3, <1>4, StepIs

LEMMA WholeStep == WholeInv /\ [Next]_vars => WholeInv' /\ [UnreadGrowsOrShrinks]_ring
<1> SUFFICES ASSUME WholeInv, [Next]_vars
             PROVE  WholeInv' /\ [UnreadGrowsOrShrinks]_ring
  OBVIOUS
<1>1. NodeInv'
  BY NodeStep DEF WholeInv
<1>2. Hopped(packages')
  BY TableSteps
<1>3. RxTypeOK' /\ [UnreadGrowsOrShrinks]_ring
  BY RingSteps, RxStep DEF WholeInv
<1>4. RoundOK(snapshot') /\ tx' \in Sent /\ (tx'.kind = "ping" => ProperPing(tx'))
  <2>0. /\ RoundOK(snapshot) /\ tx \in Sent /\ (tx.kind = "ping" => ProperPing(tx))
        /\ Sound(Self, packages) /\ Sound(Self, packages')
    BY <1>1 DEF WholeInv, NodeInv
  <2>1. ASSUME TimerHandler
        PROVE  RoundOK(snapshot') /\ tx' \in Sent /\ ProperPing(tx')
    BY <1>2, <2>0, <2>1, SendPing DEF TimerHandler
  <2>2. ASSUME NEW f \in Datas, RxData(f)
        PROVE  snapshot' = snapshot /\ tx' \in Sent /\ (tx' = tx \/ tx'.kind = "data")
    <3>1. f.target \in Addr /\ f.payload \in Seq(Byte)
      BY FrameAssumption, PayloadAssumption
    <3>2. CASE SendRadioData(packages', f.target, f.payload)
      BY <2>0, <2>2, <3>1, <3>2, SendFrame DEF RxData
    <3>3. CASE tx' = tx
      BY <2>0, <2>2, <3>3 DEF RxData
    <3> QED BY <2>2, <3>2, <3>3 DEF RxData
  <2>3. ASSUME NEW a \in Peers(Self), NEW d \in Payloads, SendData(a, d)
        PROVE  snapshot' = snapshot /\ tx' \in Sent /\ (tx' = tx \/ tx'.kind = "data")
    <3>1. a \in Addr /\ Encryption(d) \in Seq(Byte)
      BY PayloadAssumption, EncryptionIs DEF Peers
    <3> QED BY <2>0, <2>3, <3>1, SendFrame DEF SendData
  <2>4. ASSUME \/ \E a \in InRange : RxOther(a)
               \/ \E f \in Pings : RxPing(f)
               \/ ReadMessage \/ UNCHANGED vars
        PROVE  snapshot' = snapshot /\ tx' = tx
    BY <2>4 DEF RxOther, RxPing, ReadMessage, nodeVars, vars
  <2> QED BY <2>0, <2>1, <2>2, <2>3, <2>4 DEF Next
<1> QED BY <1>1, <1>2, <1>3, <1>4
        DEF WholeInv, NodeInv, Hopped, RoundOK, ListsOnce, Filled, ProperPing, Sent,
            Ping, Data

THEOREM WholeInvariant == Spec => []WholeInv
<1>1. WholeInv /\ [Next]_vars => WholeInv'
  BY WholeStep
<1> QED BY WholeStart, <1>1, PTL DEF Spec

\* The state of a node stays within its types: message numbers fit their four bits,
\* the round of pings is never longer than a full table needs, and sendNextPing
\* never reads a message behind the last one of the round.
THEOREM NodeTypeCorrect == Spec => []TypeOK
<1>1. WholeInv => TypeOK
  <2> SUFFICES ASSUME WholeInv PROVE TypeOK
    OBVIOUS
  <2>1. ASSUME NEW i \in Slots
        PROVE  /\ senders[i].occupied \in BOOLEAN
               /\ senders[i].address \in InRange \cup {NoAddr}
               /\ senders[i].number \in 0 .. 14 /\ senders[i].total \in 0 .. 15
               /\ senders[i].data \in Seq(Entry \cup {Terminator})
    BY DEF WholeInv, NodeInv, SendersOK, SenderState, Pair
  <2>2. snapshot.current \in 0 .. Len(snapshot.messages)
        /\ Len(snapshot.messages) <= (MAX_SENDERS + PAIRS - 1) \div PAIRS
    BY DEF WholeInv, RoundOK, LongestRound
  <2>3. packages \in Table /\ tx \in Sent /\ RxTypeOK
    BY DEF WholeInv, NodeInv, Sound
  <2> QED BY <2>1, <2>2, <2>3 DEF TypeOK, Sent
<1> QED BY <1>1, WholeInvariant, PTL

\* The pointers of the receive buffer stay on the ring and a read never returns more
\* than MAX_DATA_LENGTH bytes, whatever arrives (saveReceivedData, readRadioMessage).
THEOREM RingTypeCorrect == Spec => []RxTypeOK
<1>1. WholeInv => RxTypeOK
  BY DEF WholeInv
<1> QED BY <1>1, WholeInvariant, PTL

\* A round of pings lists an address once and never this node: updateWeight and
\* processData keep one slot for an address, and createSnapshot cuts the list of
\* the slots into messages that neither skip nor repeat an entry.
THEOREM RoundsListOnce == Spec => []RoundListsOnce
<1>1. WholeInv => RoundListsOnce
  BY DEF WholeInv, RoundOK, ListsOnce, RoundListsOnce
<1> QED BY <1>1, WholeInvariant, PTL

\* A node keeps to the rules it relies on in the pings of others, if a full table
\* fits into as many messages as four bits can count (createSnapshot, sendNextPing;
\* 50 slots and 14 pairs make 4): nodes that run this program can be composed.
THEOREM PingsFollowRules ==
  ASSUME (MAX_SENDERS + PAIRS - 1) \div PAIRS <= 15
  PROVE  Spec => []PingsKeepRules
<1>1. WholeInv => PingsKeepRules
  <2> SUFFICES ASSUME WholeInv, tx.kind = "ping" PROVE PingRules(tx, Self)
    BY DEF PingsKeepRules
  <2>1. ProperPing(tx)
    BY DEF WholeInv
  <2>2. LongestRound \in Nat /\ LongestRound <= 15
    BY LongestRoundIs DEF LongestRound
  <2>3. tx.total \in 1 .. 15
    <3>1. tx.total \in Nat \ {0} /\ tx.total <= LongestRound
      BY <2>1 DEF ProperPing
    <3> QED BY <2>2, <3>1
  <2> QED BY <2>1, <2>3 DEF ProperPing, PingRules
<1> QED BY <1>1, WholeInvariant, PTL

\* No unread byte of the receive buffer is overwritten, also when it overflows: a
\* save appends, a read removes from the front, and nothing else touches it.
THEOREM UnreadBytesKept == Spec => UnreadKept
<1>1. WholeInv /\ [Next]_vars => [UnreadGrowsOrShrinks]_ring
  BY WholeStep
<1>2. UnreadGrowsOrShrinks <=>
        /\ rxReadPointer' = rxReadPointer => IsPrefix(Unread, Unread')
        /\ rxWritePointer' = rxWritePointer => IsSuffix(Unread', Unread)
  BY DEF UnreadGrowsOrShrinks
<1> QED BY <1>1, <1>2, WholeInvariant, PTL DEF Spec, UnreadKept

-----------------------------------------------------------------------------
\* The operators of NeighborTable are those of Packages.
LEMMA SameTable ==
  /\ Neighbors!EmptyTable = EmptyTable
  /\ \A t, a : Neighbors!UpdateWeight(t, a) = UpdateWeight(t, a)
  /\ \A t, a : Neighbors!CheckTrusted(t, a) = CheckTrusted(t, a)
  /\ \A t, r, a : Neighbors!ProcessData(Self, t, r, a) = ProcessData(Self, t, r, a)
  /\ \A t : Neighbors!LowerWeights(t) = LowerWeights(t)
  /\ Neighbors!Peers(Self) = Peers(Self)
<1>1. Neighbors!EmptyTable = EmptyTable
  BY DEF Neighbors!EmptyTable, EmptyTable, Neighbors!Slots, Slots
<1>2. \A t, a : Neighbors!Matching(t, a) = Matching(t, a) /\ Neighbors!Free(t) = Free(t)
  BY DEF Neighbors!Matching, Matching, Neighbors!Free, Free, Neighbors!Slots, Slots
<1>3. \A S : Neighbors!Min(S) = Min(S)
  BY DEF Neighbors!Min, Min
<1>4. \A p, a : Neighbors!Heard(p) = Heard(p) /\ Neighbors!Newcomer(p, a) = Newcomer(p, a)
  BY DEF Neighbors!Heard, Heard, Neighbors!Newcomer, Newcomer
<1>5. \A t, a : Neighbors!UpdateWeight(t, a) = UpdateWeight(t, a)
  BY <1>2, <1>3, <1>4 DEF Neighbors!UpdateWeight, UpdateWeight
<1>6. \A t, a : Neighbors!CheckTrusted(t, a) = CheckTrusted(t, a)
  BY <1>3 DEF Neighbors!CheckTrusted, CheckTrusted, Neighbors!Slots, Slots
<1>7. \A t, e, a : Neighbors!Learn(t, e, a) = Learn(t, e, a)
  BY DEF Neighbors!Learn, Learn, Neighbors!Matching, Matching, Neighbors!Free, Free,
     Neighbors!Slots, Slots, Neighbors!Min, Min
<1>8. \A t, a : Neighbors!Disown(t, a) = Disown(t, a)
  BY DEF Neighbors!Disown, Disown, Neighbors!Slots, Slots
<1>9. \A r : Neighbors!Usable(Self, r) = Usable(Self, r)
  BY DEF Neighbors!Usable, Usable
<1>10. \A t, r : Neighbors!Settling(Self, t, r) = Settling(Self, t, r)
  BY <1>2, <1>9 DEF Neighbors!Settling, Settling
<1>11. \A t, r, a : Neighbors!ProcessData(Self, t, r, a) = ProcessData(Self, t, r, a)
  BY <1>3, <1>7, <1>8, <1>10 DEF Neighbors!ProcessData, ProcessData
<1>12. \A t : Neighbors!LowerWeights(t) = LowerWeights(t)
  BY DEF Neighbors!LowerWeights, LowerWeights, Neighbors!Slots, Slots, Neighbors!Expired,
     Expired, Neighbors!Orphaned, Orphaned, Neighbors!Promoted, Promoted,
     Neighbors!Demoted, Demoted, Neighbors!Direct, Direct, Neighbors!Children, Children,
     Neighbors!Aged, Aged
<1>13. Neighbors!Peers(Self) = Peers(Self)
  BY DEF Neighbors!Peers, Peers
<1> QED BY <1>1, <1>5, <1>6, <1>11, <1>12, <1>13

\* Message by message and tick by tick, the table of a node takes the steps of
\* NeighborTable: what is proved of that module is true of the node.
THEOREM TableRefined == Spec => TableImplemented
<1>1. Init => Neighbors!Init
  BY SameTable DEF Init, Neighbors!Init
<1>2. ASSUME NodeInv, [Next]_vars  PROVE [Neighbors!Next]_packages
  <2>1. ASSUME NEW a \in InRange, packages' = UpdateWeight(packages, a)
        PROVE  Neighbors!Next
    <3>1. a \in Peers(Self) /\ Neighbors!Hear(a)
      BY <2>1, SameTable, FrameAssumption DEF Neighbors!Hear
    <3> QED BY <3>1, SameTable DEF Neighbors!Next
  <2>2. ASSUME NEW g \in Pings,
               CheckTrusted(UpdateWeight(packages, g.from), g.from),
               packages' = ProcessData(Self, UpdateWeight(packages, g.from), g.entries, g.from)
        PROVE  Neighbors!Next
    <3>1. g.from \in Peers(Self) /\ g.entries \in {f.entries : f \in Pings}
      BY PingIs
    <3>2. Neighbors!HearReport(g.from, g.entries)
      BY <2>2, SameTable, PingIs DEF Neighbors!HearReport
    <3> QED BY <3>1, <3>2, SameTable DEF Neighbors!Next
  <2>3. ASSUME packages' = LowerWeights(packages)  PROVE Neighbors!Next
    BY <2>3, SameTable DEF Neighbors!Next, Neighbors!Tick
  <2> QED BY <1>2, <2>1, <2>2, <2>3, StepIs
<1> QED BY <1>1, <1>2, NodeInvariant, PTL DEF Spec, TableImplemented, Neighbors!Spec
=============================================================================
