------------------------------ MODULE Warnings ------------------------------
(***************************************************************************)
(* The warnings of warnings.c, computed in every iteration of the loop of   *)
(* terminal.c: the warnings of each plant (plantBasedWarnings), those that  *)
(* plants of one room share and the room a plant is advised to move to      *)
(* (roomBasedWarnings), and their display (returnWarnings), after which the *)
(* main window resets the rooms.                                            *)
(***************************************************************************)
EXTENDS Integers, FiniteSetsExt

CONSTANTS
  Plants, Rooms,   \* indices, 0 .. 2
  Climates,        \* what the sensors of each room may say, 0 for no reading
  Waters,          \* what the ground sensor of each plant may say
  Types,           \* of plants, TYPE_A .. TYPE_D
  TypesOf,         \* the types the user may choose for a plant
  Limits           \* of a type and a measure: lowest, highest and best value

Indoor == {"TEMP", "HUM", "LIGHT"}
Measures == Indoor \cup {"WATER"}

ASSUME PlantAssumption ==
  /\ Plants \subseteq 0 .. 2 /\ Rooms \subseteq 0 .. 2 /\ 0 \in Rooms
  /\ \A r \in Rooms : Climates[r] \subseteq [Indoor -> Int]
  /\ \A p \in Plants : Waters[p] \subseteq Int
  /\ Plants \subseteq Types /\ \A p \in Plants : TypesOf[p] \subseteq Types
  /\ Limits \in [Types -> [Measures -> [low : Int, high : Int, best : Int]]]

VARIABLES
  \* what the rest of terminal.c stores
  climate, water, roomNumber, typePlant,
  \* the fields of rooms
  solution, conditionwarnings, conditionFlag,
  \* the fields of plants that outlive an iteration
  plantWarning, newroom,
  left     \* history: rooms that a plant left since the last display

inputs == <<climate, water, roomNumber, typePlant>>
rooms == <<solution, conditionwarnings, conditionFlag>>
vars == <<climate, water, roomNumber, typePlant, solution, conditionwarnings,
          conditionFlag, plantWarning, newroom, left>>

-----------------------------------------------------------------------------
\* plantBasedWarnings.

Limit(p, m) == Limits[typePlant[p]][m]

Measured(p, m) == IF m = "WATER" THEN water[p] ELSE climate[roomNumber[p]][m]

\* 1 for too low, 2 for too high; without a reading there is no warning.
Warning(p, m) ==
  CASE Measured(p, m) # 0 /\ Measured(p, m) < Limit(p, m).low -> 1
    [] Measured(p, m) # 0 /\ Measured(p, m) > Limit(p, m).high -> 2
    [] OTHER -> 0

-----------------------------------------------------------------------------
\* warningloop: every pair of plants in a room overwrites what the pair before
\* it found, so that of a plant's companions only the last one counts.

\* TOCOLD, TOHOT, TODRY, TOWET, TODARK and TOLIGHT.
Solution(p, q) ==
  {[measure |-> m, level |-> Warning(p, m)] :
     m \in {l \in Indoor : Warning(p, l) = Warning(q, l) /\ Warning(p, l) # 0}}

Condition(p, q, c) ==
  CASE c = "DRYING" -> Warning(p, "TEMP") = 1 /\ Warning(q, "WATER") = 1
    [] c = "OVERWATERING" -> Warning(q, "WATER") = 2 /\ Warning(p, "HUM") = 2
    [] c = "FREEZING" -> Warning(q, "TEMP") = 1 /\ Warning(p, "WATER") = 2
    [] c = "WARMING" -> \/ Warning(q, "TEMP") = 2 /\ Warning(p, "LIGHT") = 2
                        \/ Warning(p, "TEMP") = 2 /\ Warning(q, "LIGHT") = 2
    [] c = "ROOM_WINDOW" -> Warning(q, "HUM") = 2 /\ Warning(p, "LIGHT") = 2

Conditions(p, q) ==
  {c \in {"DRYING", "OVERWATERING", "FREEZING", "WARMING", "ROOM_WINDOW"} :
     Condition(p, q, c)}

FlagSameType(p, q) ==    \* slip: no condition sets a flag
  IF Solution(p, q) # {} THEN {"SAMETYPE"} ELSE {}

Flag(p, q) ==
  (IF Solution(p, q) # {} THEN {"SAMETYPE"} ELSE {})
    \cup (IF Conditions(p, q) # {} THEN {"DIFFTYPE"} ELSE {})

Inhabitants(r) == {p \in Plants : roomNumber[p] = r}
Companions(p) == Inhabitants(roomNumber[p]) \ {p}

\* A room with company gets what the last pair leaves; any other room keeps
\* what it has.
Paired(r) == Cardinality(Inhabitants(r)) > 1
Last(r) == Max(Inhabitants(r))
LastButOne(r) == Max(Inhabitants(r) \ {Last(r)})

SolutionNow(r) == IF Paired(r) THEN Solution(Last(r), LastButOne(r)) ELSE solution[r]
ConditionsNow(r) ==
  IF Paired(r) THEN Conditions(Last(r), LastButOne(r)) ELSE conditionwarnings[r]
FlagNow(r) == IF Paired(r) THEN Flag(Last(r), LastButOne(r)) ELSE conditionFlag[r]

-----------------------------------------------------------------------------
\* roomBasedWarnings and returnWarnings.

\* The conditionFlag after warningloop(p).
FlagSeen(p) ==
  IF Companions(p) = {} THEN conditionFlag[roomNumber[p]]
  ELSE Flag(p, Max(Companions(p)))

OwnWarnings(p) ==
  IF FlagSeen(p) = {} THEN {m \in Indoor : Warning(p, m) > 0} ELSE {}

\* What a display in this iteration prints of a room.
Display(r) ==
  [solution |-> IF "SAMETYPE" \in FlagNow(r) THEN SolutionNow(r) ELSE {},
   conditions |-> IF "DIFFTYPE" \in FlagNow(r) THEN ConditionsNow(r) ELSE {}]

Distance(a, b) == IF a > b THEN a - b ELSE b - a

\* compareRoomSuitability: it reads the Plantwarning of the iteration before.
Score(p, r) ==
  LET Part(m) == IF m \in plantWarning[p] /\ climate[r][m] # 0
                 THEN Distance(Limit(p, m).best, climate[r][m]) ELSE 0
  IN  Part("TEMP") + Part("HUM") + Part("LIGHT")

\* findLowestValueIndex.
HighestScore(p) == Min({r \in Rooms : \A s \in Rooms : Score(p, r) >= Score(p, s)})  \* slip: >
BestRoom(p) == Min({r \in Rooms : \A s \in Rooms : Score(p, r) <= Score(p, s)})

-----------------------------------------------------------------------------
\* rooms[2].conditionFlag is not initialised. Neither is Plantwarning, but what is
\* in memory for it only reaches the advice of the first iteration.
Init ==
  /\ climate = [r \in Rooms |-> [m \in Indoor |-> 0]]
  /\ water = [p \in Plants |-> 0]
  /\ roomNumber = [p \in Plants |-> 0]
  /\ typePlant = [p \in Plants |-> p]    \* TYPE_A, TYPE_B and TYPE_C
  /\ solution = [r \in Rooms |-> {}] /\ conditionwarnings = [r \in Rooms |-> {}]
  /\ \E f \in SUBSET {"SAMETYPE", "DIFFTYPE"} :
       conditionFlag = [r \in Rooms |-> IF r = 2 THEN f ELSE {}]
  /\ plantWarning = [p \in Plants |-> {}]
  /\ newroom = [p \in Plants |-> 0]
  /\ left = {}

\* A message, or a reading that grew old.
Measure ==
  /\ \/ \E r \in Rooms : \E c \in Climates[r] :
          climate' = [climate EXCEPT ![r] = c] /\ UNCHANGED water
     \/ \E p \in Plants : \E w \in Waters[p] :
          water' = [water EXCEPT ![p] = w] /\ UNCHANGED climate
  /\ UNCHANGED <<roomNumber, typePlant, left, rooms, plantWarning, newroom>>

\* The buttons that move a plant to the room before or after its own.
Move(p, r) ==
  /\ r \in {roomNumber[p] - 1, roomNumber[p] + 1}
  /\ roomNumber' = [roomNumber EXCEPT ![p] = r]
  /\ left' = left \cup {roomNumber[p]}
  /\ UNCHANGED <<climate, water, typePlant, rooms, plantWarning, newroom>>

\* The buttons that choose the type of a plant.
Retype(p, k) ==
  /\ typePlant' = [typePlant EXCEPT ![p] = k]
  /\ UNCHANGED <<climate, water, roomNumber, left, rooms, plantWarning, newroom>>

ResetNothing(f, display) == f    \* slip: the display leaves the rooms as they are
ResetRoom(f, display) == IF display THEN {} ELSE f

\* One iteration of the loop; display: it is the main window's turn to print.
Round(display) ==
  /\ UNCHANGED inputs
  /\ left' = IF display THEN {} ELSE left
  /\ newroom' = [p \in Plants |-> BestRoom(p)]
  /\ plantWarning' = [p \in Plants |-> OwnWarnings(p)]
  /\ solution' = [r \in Rooms |-> ResetRoom(SolutionNow(r), display)]
  /\ conditionwarnings' = [r \in Rooms |-> ResetRoom(ConditionsNow(r), display)]
  /\ conditionFlag' = [r \in Rooms |-> ResetRoom(FlagNow(r), display)]

Next ==
  \/ Measure \/ Round(TRUE) \/ Round(FALSE)
  \/ \E p \in Plants : \/ \E r \in Rooms : Move(p, r)
                       \/ \E k \in TypesOf[p] : Retype(p, k)

Spec == Init /\ [][Next]_vars

\* The loop goes on; whether the main window is shown is up to the user.
FairSpec == Spec /\ WF_vars(Round(TRUE) \/ Round(FALSE))

-----------------------------------------------------------------------------
TypeOK ==
  /\ \A r \in Rooms :
       /\ solution[r] \subseteq [measure : Indoor, level : 1 .. 2]
       /\ conditionFlag[r] \subseteq {"SAMETYPE", "DIFFTYPE"}
       /\ r # 2 => (conditionFlag[r] = {} <=> solution[r] = {} /\ conditionwarnings[r] = {})
  /\ plantWarning \in [Plants -> SUBSET Indoor] /\ newroom \in [Plants -> Rooms]
  /\ left \subseteq Rooms

Shared(r) ==
  {w \in [measure : Indoor, level : 1 .. 2] :
     \E p, q \in Inhabitants(r) :
       p # q /\ Warning(p, w.measure) = w.level /\ Warning(q, w.measure) = w.level}

\* What the main window says of a room is true of two plants that are in it now,
\* unless a plant has left it since the last display; of a room with two plants
\* it says all that they share (warningloop, returnWarnings, terminal.c:402).
RoomWarnings ==
  \A r \in Rooms \ left :
    /\ Display(r).solution \subseteq Shared(r)
    /\ Cardinality(Inhabitants(r)) = 2 => Display(r).solution = Shared(r)
    /\ \A c \in Display(r).conditions :
         \E p, q \in Inhabitants(r) : p # q /\ Condition(p, q, c)

\* The advice is computed from the warnings of the iteration before, and from a
\* flag that the display resets: once nothing changes any more it becomes, and
\* stays, the room that suits the plant's own warnings best.
AdviceSettles ==
  <>[][UNCHANGED inputs]_vars =>
    <>[](\A p \in Plants, r \in Rooms : Score(p, newroom[p]) <= Score(p, r))
=============================================================================
