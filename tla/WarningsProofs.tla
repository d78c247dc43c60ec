--------------------------- MODULE WarningsProofs ---------------------------
(***************************************************************************)
(* That the main window only says of a room what is true of the plants in   *)
(* it, for any limits of the plants and any readings, and that flags and    *)
(* the advised room never take a value the display does not know.           *)
(***************************************************************************)
EXTENDS Warnings, FiniteSetTheorems, TLAPS

\* A room without company has nothing left from an earlier pair, unless a plant
\* moved out of it since the last display.
Forgotten ==
  \A r \in Rooms \ left : ~ Paired(r) => solution[r] = {} /\ conditionwarnings[r] = {}

WarnInv ==
  /\ DOMAIN solution = Rooms /\ DOMAIN conditionwarnings = Rooms
  /\ roomNumber \in [Plants -> Rooms] /\ left \subseteq Rooms
  /\ Forgotten

-----------------------------------------------------------------------------
\* The last pair of a room.

LEMMA GreatestPlant ==
  ASSUME NEW S, S \subseteq Plants, S # {}
  PROVE  Max(S) \in S
<1>1. S \subseteq 0 .. 2
  BY PlantAssumption
<1>2. \E x \in S : \A y \in S : x >= y
  <2>1. CASE 2 \in S
    BY <1>1, <2>1
  <2>2. CASE 2 \notin S /\ 1 \in S
    BY <1>1, <2>2
  <2>3. CASE 2 \notin S /\ 1 \notin S
    <3>1. PICK x \in S : TRUE
      OBVIOUS
    <3>2. \A y \in S : y = 0
      BY <1>1, <2>3
    <3> QED BY <3>1, <3>2
  <2> QED BY <2>1, <2>2, <2>3
<1> QED BY <1>2 DEF Max

LEMMA IndicesFinite == IsFiniteSet(0 .. 2)
<1>1. 0 \in Int /\ 2 \in Int
  OBVIOUS
<1> QED BY <1>1, FS_Interval

LEMMA InhabitantsFinite ==
  ASSUME NEW r
  PROVE  /\ Inhabitants(r) \subseteq Plants /\ IsFiniteSet(Inhabitants(r))
         /\ Cardinality(Inhabitants(r)) \in Nat
<1>1. Inhabitants(r) \subseteq 0 .. 2
  BY PlantAssumption DEF Inhabitants
<1> QED BY <1>1, IndicesFinite, FS_Subset, FS_CardinalityType DEF Inhabitants

\* Of the plants in a room with company the last two are two.
LEMMA LastPair ==
  ASSUME NEW r, Paired(r)
  PROVE  /\ Last(r) \in Inhabitants(r) /\ LastButOne(r) \in Inhabitants(r)
         /\ Last(r) # LastButOne(r)
<1> DEFINE S == Inhabitants(r)
<1>1. /\ S \subseteq Plants /\ IsFiniteSet(S) /\ Cardinality(S) > 1
  BY InhabitantsFinite DEF Paired
<1>2. S # {}
  BY <1>1, FS_EmptySet
<1>3. Last(r) \in S
  BY <1>1, <1>2, GreatestPlant DEF Last
<1>4. S \ {Last(r)} # {}
  <2>1. Cardinality(S \ {Last(r)}) = Cardinality(S) - 1
    BY <1>1, <1>3, FS_RemoveElement
  <2>2. Cardinality(S) \in Nat
    BY InhabitantsFinite
  <2>3. Cardinality(S \ {Last(r)}) # 0
    BY <1>1, <2>1, <2>2
  <2> QED BY <2>3, FS_EmptySet
<1>5. LastButOne(r) \in S \ {Last(r)}
  BY <1>1, <1>4, GreatestPlant DEF LastButOne
<1> QED BY <1>3, <1>5

\* A room with two plants has just that pair.
LEMMA OnlyPair ==
  ASSUME NEW r, Cardinality(Inhabitants(r)) = 2
  PROVE  Paired(r) /\ Inhabitants(r) = {Last(r), LastButOne(r)}
<1> DEFINE S == Inhabitants(r)
<1>1. Paired(r)
  BY DEF Paired
<1>2. /\ Last(r) \in S /\ LastButOne(r) \in S \ {Last(r)} /\ IsFiniteSet(S)
  BY <1>1, LastPair, InhabitantsFinite
<1>3. Cardinality(S \ {Last(r)}) = 1 /\ IsFiniteSet(S \ {Last(r)})
  BY <1>2, FS_RemoveElement
<1>4. Cardinality((S \ {Last(r)}) \ {LastButOne(r)}) = 0
      /\ IsFiniteSet((S \ {Last(r)}) \ {LastButOne(r)})
  BY <1>2, <1>3, FS_RemoveElement
<1>5. (S \ {Last(r)}) \ {LastButOne(r)} = {}
  BY <1>4, FS_EmptySet
<1> QED BY <1>1, <1>2, <1>5

-----------------------------------------------------------------------------
\* What a pair of plants leaves is true of both of them.

LEMMA SolutionIs ==
  ASSUME NEW p, NEW q
  PROVE  Solution(p, q) =
           {w \in [measure : Indoor, level : 1 .. 2] :
              Warning(p, w.measure) = w.level /\ Warning(q, w.measure) = w.level}
<1> DEFINE W == [measure : Indoor, level : 1 .. 2]
           T == {w \in W : Warning(p, w.measure) = w.level /\ Warning(q, w.measure) = w.level}
<1>1. \A m : Warning(p, m) \in {0, 1, 2}
  BY DEF Warning
<1>2. ASSUME NEW w \in Solution(p, q)  PROVE w \in T
  <2>1. PICK l \in {l \in Indoor : Warning(p, l) = Warning(q, l) /\ Warning(p, l) # 0} :
          w = [measure |-> l, level |-> Warning(p, l)]
    BY <1>2 DEF Solution
  <2>2. Warning(p, l) \in 1 .. 2
    <3>1. Warning(p, l) \in {0, 1, 2} /\ Warning(p, l) # 0
      BY <1>1, <2>1
    <3> QED BY <3>1
  <2>3. w.measure = l /\ w.level = Warning(p, l) /\ w \in W
    BY <2>1, <2>2
  <2> QED BY <2>1, <2>3
<1>3. ASSUME NEW w \in T  PROVE w \in Solution(p, q)
  <2>1. w.measure \in Indoor /\ w.level \in 1 .. 2
        /\ w = [measure |-> w.measure, level |-> w.level]
    BY <1>3
  <2>2. Warning(p, w.measure) = w.level /\ Warning(q, w.measure) = w.level
    BY <1>3
  <2>3. w.level # 0
    BY <2>1
  <2> QED BY <2>1, <2>2, <2>3 DEF Solution
<1> QED BY <1>2, <1>3

-----------------------------------------------------------------------------
\* What the display says of a room that no plant left.
LEMMA DisplayTrue ==
  ASSUME WarnInv  PROVE RoomWarnings
<1> SUFFICES ASSUME NEW r \in Rooms \ left
             PROVE  /\ Display(r).solution \subseteq Shared(r)
                    /\ Cardinality(Inhabitants(r)) = 2 => Display(r).solution = Shared(r)
                    /\ \A c \in Display(r).conditions :
                         \E p, q \in Inhabitants(r) : p # q /\ Condition(p, q, c)
  BY DEF RoomWarnings
<1>1. CASE ~ Paired(r)
  <2>1. SolutionNow(r) = {} /\ ConditionsNow(r) = {}
    BY <1>1 DEF WarnInv, Forgotten, SolutionNow, ConditionsNow
  <2>2. Display(r).solution = {} /\ Display(r).conditions = {}
    BY <2>1 DEF Display
  <2>3. Cardinality(Inhabitants(r)) # 2
    BY <1>1, OnlyPair
  <2> QED BY <2>2, <2>3
<1>2. CASE Paired(r)
  <2> DEFINE p == Last(r)
             q == LastButOne(r)
  <2>1. p \in Inhabitants(r) /\ q \in Inhabitants(r) /\ p # q
    BY <1>2, LastPair
  <2>2. Display(r).solution = Solution(p, q)
    BY <1>2 DEF Display, SolutionNow, FlagNow, Flag
  <2>3. Display(r).conditions \subseteq Conditions(p, q)
    BY <1>2 DEF Display, ConditionsNow
  <2>4. Solution(p, q) \subseteq Shared(r)
    BY <2>1, SolutionIs DEF Shared
  <2>5. ASSUME Cardinality(Inhabitants(r)) = 2  PROVE Shared(r) \subseteq Solution(p, q)
    <3>1. Inhabitants(r) = {p, q}
      BY <2>5, OnlyPair
    <3> HIDE DEF p, q
    <3> QED BY <3>1, SolutionIs DEF Shared
  <2>6. \A c \in Conditions(p, q) : Condition(p, q, c)
    BY DEF Conditions
  <2> QED BY <2>1, <2>2, <2>3, <2>4, <2>5, <2>6
<1> QED BY <1>1, <1>2

-----------------------------------------------------------------------------
LEMMA WarnInit == Init => WarnInv
BY PlantAssumption DEF Init, WarnInv, Forgotten

LEMMA UnmovedKeeps ==
  ASSUME WarnInv, UNCHANGED <<solution, conditionwarnings, roomNumber, left>>
  PROVE  WarnInv'
BY DEF WarnInv, Forgotten, Paired, Inhabitants

\* A room that has lost its company has lost a plant.
LEMMA MoveKeeps ==
  ASSUME WarnInv, NEW p \in Plants, NEW room \in Rooms, Move(p, room)
  PROVE  WarnInv'
<1>1. UNCHANGED <<solution, conditionwarnings>> /\ left \subseteq left'
  BY DEF Move, rooms
<1>2. roomNumber' \in [Plants -> Rooms] /\ left' \subseteq Rooms
  BY DEF Move, WarnInv
<1>3. ASSUME NEW r \in Rooms \ left'  PROVE Inhabitants(r) \subseteq Inhabitants(r)'
  BY <1>3 DEF Move, Inhabitants, WarnInv
<1>4. ASSUME NEW r \in Rooms \ left', ~ Paired(r)'  PROVE ~ Paired(r)
  <2>1. IsFiniteSet(Inhabitants(r)') /\ Cardinality(Inhabitants(r)') \in Nat
    <3>1. Inhabitants(r)' \subseteq 0 .. 2
      BY PlantAssumption DEF Inhabitants
    <3> QED BY <3>1, IndicesFinite, FS_Subset, FS_CardinalityType
  <2>2. Cardinality(Inhabitants(r)) <= Cardinality(Inhabitants(r)')
    BY <1>3, <1>4, <2>1, FS_Subset
  <2>3. Cardinality(Inhabitants(r)) \in Nat
    BY InhabitantsFinite
  <2> QED BY <1>4, <2>1, <2>2, <2>3 DEF Paired
<1>5. Forgotten'
  BY <1>1, <1>4 DEF Forgotten, WarnInv
<1> QED BY <1>1, <1>2, <1>5 DEF WarnInv

LEMMA RoundKeeps == ASSUME WarnInv, NEW d \in BOOLEAN, Round(d)  PROVE WarnInv'
<1>1. /\ roomNumber' = roomNumber /\ left' = IF d THEN {} ELSE left
      /\ solution' = [r \in Rooms |-> ResetRoom(SolutionNow(r), d)]
      /\ conditionwarnings' = [r \in Rooms |-> ResetRoom(ConditionsNow(r), d)]
  BY DEF Round, inputs
<1>2. ASSUME NEW r \in Rooms \ left', ~ Paired(r)'
      PROVE  solution'[r] = {} /\ conditionwarnings'[r] = {}
  <2>1. ~ Paired(r)
    BY <1>1, <1>2 DEF Paired, Inhabitants
  <2>2. CASE d
    BY <1>1, <2>2 DEF ResetRoom
  <2>3. CASE ~ d
    BY <1>1, <2>1, <2>3 DEF ResetRoom, SolutionNow, ConditionsNow, WarnInv, Forgotten
  <2> QED BY <2>2, <2>3
<1>3. Forgotten'
  BY <1>2 DEF Forgotten
<1> QED BY <1>1, <1>3 DEF WarnInv

LEMMA WarnStep == WarnInv /\ [Next]_vars => WarnInv'
<1> SUFFICES ASSUME WarnInv, [Next]_vars PROVE WarnInv'
  OBVIOUS
<1>1. CASE Measure
  BY <1>1, UnmovedKeeps DEF Measure, rooms
<1>2. CASE Round(TRUE) \/ Round(FALSE)
  BY <1>2, RoundKeeps
<1>3. ASSUME NEW p \in Plants, NEW r \in Rooms, Move(p, r)  PROVE WarnInv'
  BY <1>3, MoveKeeps
<1>4. ASSUME NEW p \in Plants, NEW k \in TypesOf[p], Retype(p, k)  PROVE WarnInv'
  BY <1>4, UnmovedKeeps DEF Retype, rooms
<1>5. CASE UNCHANGED vars
  BY <1>5, UnmovedKeeps DEF vars
<1> QED BY <1>1, <1>2, <1>3, <1>4, <1>5 DEF Next

\* Whatever the plants need, the sensors say and the user moves, what is printed
\* of a room is true of two plants in it (warningloop, returnWarnings).
THEOREM WarningsTrue == Spec => []RoomWarnings
BY WarnInit, WarnStep, DisplayTrue, PTL DEF Spec

-----------------------------------------------------------------------------
\* The types. TypeOK needs the rooms the plants are in, and readings and limits
\* that the scores can be computed from.

InputType ==
  /\ climate \in [Rooms -> [Indoor -> Int]] /\ water \in [Plants -> Int]
  /\ roomNumber \in [Plants -> Rooms] /\ typePlant \in [Plants -> Types]
  /\ left \subseteq Rooms

TypeInv ==
  /\ TypeOK /\ InputType
  /\ DOMAIN solution = Rooms /\ DOMAIN conditionwarnings = Rooms
  /\ DOMAIN conditionFlag = Rooms

LEMMA LeastRoom ==
  ASSUME NEW S, S \subseteq Rooms, S # {}
  PROVE  Min(S) \in S
<1>1. S \subseteq 0 .. 2
  BY PlantAssumption
<1>2. \E x \in S : \A y \in S : x <= y
  <2>1. CASE 0 \in S
    BY <1>1, <2>1
  <2>2. CASE 0 \notin S /\ 1 \in S
    BY <1>1, <2>2
  <2>3. CASE 0 \notin S /\ 1 \notin S
    <3>1. PICK x \in S : TRUE
      OBVIOUS
    <3>2. \A y \in S : y = 2
      BY <1>1, <2>3
    <3> QED BY <3>1, <3>2
  <2> QED BY <2>1, <2>2, <2>3
<1> QED BY <1>2 DEF Min

LEMMA LowestScore ==
  ASSUME NEW f \in [Rooms -> Int]
  PROVE  \E r \in Rooms : \A s \in Rooms : f[r] <= f[s]
<1>1. Rooms \subseteq 0 .. 2 /\ 0 \in Rooms
  BY PlantAssumption
<1>2. CASE 1 \in Rooms /\ 2 \in Rooms
  <2>1. PICK r \in {0, 1, 2} : f[r] <= f[0] /\ f[r] <= f[1] /\ f[r] <= f[2]
    <3>1. f[0] \in Int /\ f[1] \in Int /\ f[2] \in Int
      BY <1>1, <1>2
    <3> QED BY <3>1
  <2>2. \A s \in Rooms : s = 0 \/ s = 1 \/ s = 2
    BY <1>1
  <2> QED BY <1>1, <1>2, <2>1, <2>2
<1>3. CASE 1 \in Rooms /\ 2 \notin Rooms
  BY <1>1, <1>3
<1>4. CASE 1 \notin Rooms /\ 2 \in Rooms
  <2>1. f[0] \in Int /\ f[2] \in Int /\ \A s \in Rooms : s = 0 \/ s = 2
    BY <1>1, <1>4
  <2> QED BY <1>1, <1>4, <2>1
<1>5. CASE 1 \notin Rooms /\ 2 \notin Rooms
  <2>1. f[0] \in Int /\ \A s \in Rooms : s = 0
    BY <1>1, <1>5
  <2> QED BY <1>1, <2>1
<1> QED BY <1>2, <1>3, <1>4, <1>5

LEMMA BestRoomType ==
  ASSUME TypeInv, NEW p \in Plants
  PROVE  BestRoom(p) \in Rooms
<1>1. ASSUME NEW r \in Rooms  PROVE Score(p, r) \in Int
  <2>1. \A m \in Indoor : Limit(p, m).best \in Int /\ climate[r][m] \in Int
    <3>1. typePlant[p] \in Types /\ climate[r] \in [Indoor -> Int]
      BY DEF TypeInv, InputType
    <3>2. Limits[typePlant[p]] \in [Measures -> [low : Int, high : Int, best : Int]]
      BY <3>1, PlantAssumption
    <3>3. \A m \in Indoor : Limits[typePlant[p]][m] \in [low : Int, high : Int, best : Int]
      BY <3>2 DEF Measures
    <3> QED BY <3>1, <3>3 DEF Limit
  <2> DEFINE Part(m) == IF m \in plantWarning[p] /\ climate[r][m] # 0
                        THEN Distance(Limit(p, m).best, climate[r][m]) ELSE 0
  <2>2. \A m \in Indoor : Part(m) \in Int
    BY <2>1 DEF Distance
  <2>3. Part("TEMP") \in Int /\ Part("HUM") \in Int /\ Part("LIGHT") \in Int
    BY <2>2 DEF Indoor
  <2>4. Score(p, r) = Part("TEMP") + Part("HUM") + Part("LIGHT")
    BY DEF Score
  <2> HIDE DEF Part
  <2> QED BY <2>3, <2>4
<1> DEFINE f == [r \in Rooms |-> Score(p, r)]
           S == {r \in Rooms : \A s \in Rooms : Score(p, r) <= Score(p, s)}
<1>2. f \in [Rooms -> Int] /\ \A r \in Rooms : f[r] = Score(p, r)
  BY <1>1
<1> HIDE DEF f
<1>3. S # {}
  <2>1. PICK r \in Rooms : \A s \in Rooms : f[r] <= f[s]
    BY <1>2, LowestScore
  <2> QED BY <1>2, <2>1
<1>4. Min(S) \in S
  BY <1>3, LeastRoom
<1> QED BY <1>4 DEF BestRoom

\* Of a pair: what it shares, and the flag that says whether there is anything.
LEMMA PairType ==
  ASSUME NEW p, NEW q
  PROVE  /\ Solution(p, q) \subseteq [measure : Indoor, level : 1 .. 2]
         /\ Flag(p, q) \subseteq {"SAMETYPE", "DIFFTYPE"}
         /\ Flag(p, q) = {} <=> Solution(p, q) = {} /\ Conditions(p, q) = {}
BY SolutionIs DEF Flag

LEMMA NowType ==
  ASSUME TypeInv, NEW r \in Rooms
  PROVE  /\ SolutionNow(r) \subseteq [measure : Indoor, level : 1 .. 2]
         /\ FlagNow(r) \subseteq {"SAMETYPE", "DIFFTYPE"}
         /\ r # 2 => (FlagNow(r) = {} <=> SolutionNow(r) = {} /\ ConditionsNow(r) = {})
<1>1. CASE Paired(r)
  BY <1>1, PairType DEF SolutionNow, FlagNow, ConditionsNow
<1>2. CASE ~ Paired(r)
  BY <1>2 DEF SolutionNow, FlagNow, ConditionsNow, TypeInv, TypeOK
<1> QED BY <1>1, <1>2

LEMMA TypeInit == Init => TypeInv
<1> SUFFICES ASSUME Init PROVE TypeInv
  OBVIOUS
<1>1. PICK f \in SUBSET {"SAMETYPE", "DIFFTYPE"} :
        conditionFlag = [r \in Rooms |-> IF r = 2 THEN f ELSE {}]
  BY DEF Init
<1>2. 0 \in Rooms /\ Plants \subseteq Types
  BY PlantAssumption
<1>3. InputType
  BY <1>2 DEF Init, InputType, Indoor
<1>4. TypeOK
  BY <1>1, <1>2 DEF Init, TypeOK
<1> QED BY <1>1, <1>3, <1>4 DEF Init, TypeInv

\* The buttons and the messages change what the warnings are computed from.
LEMMA InputsType ==
  ASSUME TypeInv, InputType',
         UNCHANGED <<solution, conditionwarnings, conditionFlag, plantWarning, newroom>>
  PROVE  TypeInv'
BY DEF TypeInv, InputType, TypeOK

LEMMA MeasureType == ASSUME TypeInv, Measure  PROVE TypeInv'
<1> USE DEF InputType
<1>1. ASSUME NEW r \in Rooms, NEW c \in Climates[r],
             climate' = [climate EXCEPT ![r] = c],
             UNCHANGED <<water, roomNumber, typePlant, left>>
      PROVE  InputType'
  <2>1. c \in [Indoor -> Int]
    BY PlantAssumption
  <2> QED BY <1>1, <2>1 DEF TypeInv
<1>2. ASSUME NEW p \in Plants, NEW w \in Waters[p],
             water' = [water EXCEPT ![p] = w],
             UNCHANGED <<climate, roomNumber, typePlant, left>>
      PROVE  InputType'
  <2>1. w \in Int
    BY PlantAssumption
  <2> QED BY <1>2, <2>1 DEF TypeInv
<1>3. InputType'
  BY <1>1, <1>2 DEF Measure
<1> QED BY <1>3, InputsType DEF Measure, rooms

LEMMA MoveType ==
  ASSUME TypeInv, NEW p \in Plants, NEW r \in Rooms, Move(p, r)  PROVE TypeInv'
<1>1. InputType'
  BY DEF Move, TypeInv, InputType
<1> QED BY <1>1, InputsType DEF Move, rooms

LEMMA RetypeType ==
  ASSUME TypeInv, NEW p \in Plants, NEW k \in TypesOf[p], Retype(p, k)  PROVE TypeInv'
<1>1. k \in Types
  BY PlantAssumption
<1>2. InputType'
  BY <1>1 DEF Retype, TypeInv, InputType
<1> QED BY <1>2, InputsType DEF Retype, rooms

LEMMA RoundType == ASSUME TypeInv, NEW d \in BOOLEAN, Round(d)  PROVE TypeInv'
<1>1. /\ UNCHANGED <<climate, water, roomNumber, typePlant>>
      /\ left' = IF d THEN {} ELSE left
      /\ newroom' = [p \in Plants |-> BestRoom(p)]
      /\ plantWarning' = [p \in Plants |-> OwnWarnings(p)]
      /\ solution' = [r \in Rooms |-> ResetRoom(SolutionNow(r), d)]
      /\ conditionwarnings' = [r \in Rooms |-> ResetRoom(ConditionsNow(r), d)]
      /\ conditionFlag' = [r \in Rooms |-> ResetRoom(FlagNow(r), d)]
  BY DEF Round, inputs
<1>2. newroom' \in [Plants -> Rooms]
  BY <1>1, BestRoomType
<1>3. plantWarning' \in [Plants -> SUBSET Indoor]
  BY <1>1 DEF OwnWarnings
<1>4. ASSUME NEW r \in Rooms
      PROVE  /\ solution'[r] \subseteq [measure : Indoor, level : 1 .. 2]
             /\ conditionFlag'[r] \subseteq {"SAMETYPE", "DIFFTYPE"}
             /\ r # 2 => (conditionFlag'[r] = {} <=>
                            solution'[r] = {} /\ conditionwarnings'[r] = {})
  <2>1. CASE d
    BY <1>1, <2>1 DEF ResetRoom
  <2>2. CASE ~ d
    BY <1>1, <2>2, NowType DEF ResetRoom
  <2> QED BY <2>1, <2>2
<1>5. left' \subseteq Rooms
  BY <1>1 DEF TypeInv, TypeOK
<1> QED BY <1>1, <1>2, <1>3, <1>4, <1>5 DEF TypeInv, InputType, TypeOK

LEMMA TypeStep == TypeInv /\ [Next]_vars => TypeInv'
<1> SUFFICES ASSUME TypeInv, [Next]_vars PROVE TypeInv'
  OBVIOUS
<1>1. CASE Measure
  BY <1>1, MeasureType
<1>2. CASE Round(TRUE) \/ Round(FALSE)
  BY <1>2, RoundType
<1>3. ASSUME NEW p \in Plants, NEW r \in Rooms, Move(p, r)  PROVE TypeInv'
  BY <1>3, MoveType
<1>4. ASSUME NEW p \in Plants, NEW k \in TypesOf[p], Retype(p, k)  PROVE TypeInv'
  BY <1>4, RetypeType
<1>5. CASE UNCHANGED vars
  BY <1>5 DEF vars, TypeInv, InputType, TypeOK
<1> QED BY <1>1, <1>2, <1>3, <1>4, <1>5 DEF Next

\* For all plants, limits and readings the fields of rooms and plants keep their
\* types: the flag of a room says whether it has anything to print, but for the one
\* that is never initialised, and a plant is advised a room that exists.
THEOREM WarningsTypeCorrect == Spec => []TypeOK
<1>1. TypeInv => TypeOK
  BY DEF TypeInv
<1> QED BY TypeInit, TypeStep, <1>1, PTL DEF Spec
=============================================================================
