------------------------------ MODULE Terminal ------------------------------
(***************************************************************************)
(* The loop of terminal.c: it stores the reading of a message, clears the   *)
(* readings that grew old, and acts on the buttons of the window shown. All *)
(* buttons are there all the time: only the position of the touch and the   *)
(* window shown decide which one is meant. Identification messages are in   *)
(* MeshNode, the warnings in Warnings.                                      *)
(***************************************************************************)
EXTENDS Integers

CONSTANTS
  Items,        \* indices of rooms and plants, 0 .. 2
  Kinds,        \* what is measured
  Sensors,      \* the addresses that each kind of sensor may have
  Values,       \* readings, by their sign; what is not a number acts as negative
  Types,        \* plant types
  ROWS, COLS,   \* the screen in characters
  Touches,      \* positions as rpitouch.c reports them
  MAX_AGE,      \* seconds after which a reading is old
  SETTING_CYCLES, \* iterations between two actions of a setting button
  DISPLAY_CYCLES  \* iterations between two displays in the other windows

ASSUME ScreenAssumption ==
  /\ Items \subseteq 0 .. 2 /\ 0 \in Items
  /\ Kinds \subseteq {"TEMP", "HUMID", "LIGHT", "GROUND"}
  /\ \A k \in Kinds :
       /\ Sensors[k] \subseteq Nat
       /\ \E s \in Sensors[k] :
            /\ \A t \in Sensors[k] : s <= t
            /\ \A i \in Items : s + i \in Sensors[k]
  /\ 0 \in Values /\ Values \subseteq Int /\ Items \subseteq Types /\ Types \subseteq 0 .. 3
  /\ ROWS \in Nat /\ COLS \in Nat /\ MAX_AGE \in Nat
  /\ SETTING_CYCLES \in Nat /\ DISPLAY_CYCLES \in Nat
  /\ Touches \subseteq [row : Int, col : Int]

NoTouch == [row |-> ROWS + 1, col |-> COLS + 1]    \* real position -1, -1
NoMessage == [from |-> -1, kind |-> "none", value |-> 0]

VARIABLES
  sensor,       \* of a room or plant and a kind, the sensor set for it
  value,        \* and its last reading, 0 when there is none
  age,          \* seconds since a positive reading came
  roomNumber, typePlant,
  windowShown,
  shown,        \* roomShown and plantShown
  cycles,
  source,       \* history: the sensor that a reading came from
  held          \* history: the touch that changed the window and still lasts

readings == <<sensor, value, age, source>>
vars == <<sensor, value, age, source, roomNumber, typePlant, windowShown, shown,
          cycles, held>>

Windows == {"main", "identification", "debug", "plantSettings", "roomSettings", "off"}

-----------------------------------------------------------------------------
\* The layout: rows, columns, top and left of each ncurses window.
Box(rows, cols, top, left) == [rows |-> rows, cols |-> cols, top |-> top, left |-> left]

MainRow == <<3, 7, 11, 15, 20, 25>>
Shutdown == Box(3, 16, 0, COLS - 16)
Back == Box(3, 7, 0, 0)
Ident == Box(3, 16, 0, COLS - 33)
Debug == Box(3, 16, 0, COLS - 50)
PlantInfo(i) == Box((ROWS - 4) \div 6, 20, MainRow[i + 1], 0)
RoomInfo(i) == Box((ROWS - 4) \div 6 + 1, 20, MainRow[i + 4], 0)
SettingLeft(line, up) ==    \* slip: the lower buttons start too far to the left
  Box(3, 7, ROWS - 13 + 5 * line, IF up THEN COLS - 27 ELSE 10)
Setting(line, up) ==
  Box(3, 7, ROWS - 13 + 5 * line, IF up THEN COLS - 27 ELSE 20)
PlantSelect(type) == Box(3, COLS \div 4, 5, (COLS \div 4) * type)

\* isWithinWindow of the real position: the screen is mounted upside down.
Within(touch, box) ==
  /\ ROWS - touch.row \in box.top .. box.top + box.rows - 1
  /\ COLS - touch.col \in box.left .. box.left + box.cols - 1

\* The line of setting buttons of a kind, in the window that shows it.
SettingLine == [TEMP |-> 0, HUMID |-> 1, LIGHT |-> 2, GROUND |-> 2]
SettingWindow(k) == IF k = "GROUND" THEN "plantSettings" ELSE "roomSettings"

-----------------------------------------------------------------------------
\* The parts of one iteration.

\* A message that is shorter than a reading leaves old bytes in radioData, so
\* any sender, kind and value may come together.
Stores(m, i, k) == m.kind = k /\ m.from = sensor[i][k]

OldFirst(i, k) == age[0][k] > MAX_AGE    \* slip: 0 for i
Old(i, k) == age[i][k] > MAX_AGE

\* A setting button acts when it is touched in its window, once in a while.
Pressed(touch, w, line, up) ==
  /\ windowShown = w /\ cycles > SETTING_CYCLES
  /\ Within(touch, Setting(line, up))

Adjusts(touch, i, k, up) ==
  shown = i /\ Pressed(touch, SettingWindow(k), SettingLine[k], up)

\* The next number up or down, unless it would leave the range.
MovedOn(n, up, range) == IF up THEN n + 1 ELSE n - 1    \* slip: no bounds
Moved(n, up, range) ==
  LET next == IF up THEN n + 1 ELSE n - 1
  IN  IF next \in range THEN next ELSE n

NewSensor(touch, i, k) ==
  IF \E up \in BOOLEAN : Adjusts(touch, i, k, up)
  THEN Moved(sensor[i][k], Adjusts(touch, i, k, TRUE), Sensors[k])
  ELSE sensor[i][k]

\* After the message, the clearing of old readings and the setting buttons: a
\* sensor that changes takes its reading with it.
NewValueKept(m, touch, i, k) ==    \* slip: a new sensor shows the old reading
  CASE Stores(m, i, k) -> m.value
    [] ~ Stores(m, i, k) /\ value[i][k] > 0 /\ Old(i, k) -> 0
    [] OTHER -> value[i][k]

NewValue(m, touch, i, k) ==
  CASE NewSensor(touch, i, k) # sensor[i][k] -> 0
    [] NewSensor(touch, i, k) = sensor[i][k] /\ Stores(m, i, k) -> m.value
    [] value[i][k] > 0 /\ Old(i, k) /\ ~ Stores(m, i, k) -> 0
    [] OTHER -> value[i][k]

\* The window a touch leads to, and the room or plant it is about.
Opens(touch, w, i) ==
  \/ /\ windowShown = "main" /\ i = shown
     /\ \/ w = "identification" /\ Within(touch, Ident)
        \/ w = "debug" /\ Within(touch, Debug)
  \/ /\ windowShown = "main"
     /\ \/ w = "plantSettings" /\ Within(touch, PlantInfo(i))
        \/ w = "roomSettings" /\ Within(touch, RoomInfo(i))
  \/ windowShown # "main" /\ w = "main" /\ i = shown /\ Within(touch, Back)

Show(touch) ==
  \/ /\ Within(touch, Shutdown)
     /\ windowShown' = "off" /\ UNCHANGED shown
  \/ /\ ~ Within(touch, Shutdown)
     /\ \E w \in Windows, i \in Items :
          Opens(touch, w, i) /\ windowShown' = w /\ shown' = i
  \/ /\ ~ Within(touch, Shutdown)
     /\ ~ \E w \in Windows, i \in Items : Opens(touch, w, i)
     /\ UNCHANGED <<windowShown, shown>>

Limit == IF windowShown \in {"roomSettings", "plantSettings"}
         THEN SETTING_CYCLES ELSE DISPLAY_CYCLES

Counts ==
  /\ windowShown # "off"
  /\ cycles' = 1 + (IF cycles > Limit THEN 0 ELSE cycles)

-----------------------------------------------------------------------------
FirstSensor(k) == CHOOSE s \in Sensors[k] : \A t \in Sensors[k] : s <= t

Init ==
  /\ sensor = [i \in Items |-> [k \in Kinds |-> FirstSensor(k) + i]]
  /\ value = [i \in Items |-> [k \in Kinds |-> 0]]
  /\ age = [i \in Items |-> [k \in Kinds |-> 0]]
  /\ source = sensor
  /\ roomNumber = [i \in Items |-> 0] /\ typePlant = [i \in Items |-> i]
  /\ windowShown = "main" /\ shown = 0 /\ cycles = 0
  /\ held = NoTouch

\* One iteration, with the message that was read and the touch seen.
Loop(m, touch) ==
  /\ Counts
  /\ sensor' = [i \in Items |-> [k \in Kinds |-> NewSensor(touch, i, k)]]
  /\ value' = [i \in Items |-> [k \in Kinds |-> NewValue(m, touch, i, k)]]
  /\ source' = [i \in Items |-> [k \in Kinds |->
                  IF Stores(m, i, k) THEN m.from
                  ELSE IF value'[i][k] = 0 THEN sensor'[i][k] ELSE source[i][k]]]
  /\ age' = [i \in Items |-> [k \in Kinds |->
               IF Stores(m, i, k) \/ value'[i][k] <= 0 THEN 0 ELSE age[i][k]]]
  /\ roomNumber' = [i \in Items |->
       IF shown = i /\ \E up \in BOOLEAN : Pressed(touch, "plantSettings", 1, up)
       THEN Moved(roomNumber[i], Pressed(touch, "plantSettings", 1, TRUE), Items)
       ELSE roomNumber[i]]
  /\ typePlant' = [i \in Items |->
       IF \E y \in Types : shown = i /\ windowShown = "plantSettings"
                            /\ Within(touch, PlantSelect(y))
       THEN CHOOSE y \in Types : Within(touch, PlantSelect(y)) ELSE typePlant[i]]
  /\ Show(touch)
  /\ held' = IF touch # NoTouch /\ (windowShown' # windowShown \/ touch = held)
             THEN touch ELSE NoTouch

Second ==
  /\ \E i \in Items, k \in Kinds : value[i][k] > 0 /\ age[i][k] <= MAX_AGE
  /\ age' = [i \in Items |-> [k \in Kinds |->
               IF value[i][k] > 0 /\ age[i][k] <= MAX_AGE
               THEN age[i][k] + 1 ELSE age[i][k]]]
  /\ UNCHANGED <<sensor, value, source, roomNumber, typePlant, windowShown, shown,
                 cycles, held>>

Messages ==
  [from : UNION {Sensors[k] : k \in Kinds}, kind : Kinds, value : Values]
    \cup {NoMessage}

Iteration == \E m \in Messages, touch \in Touches \cup {NoTouch} : Loop(m, touch)

Next == Iteration \/ Second

Spec == Init /\ [][Next]_vars

\* Time passes and the loop goes on, whatever messages and touches it finds.
FairSpec == Spec /\ WF_age(Second) /\ WF_cycles(Counts)

-----------------------------------------------------------------------------
TypeOK ==
  /\ sensor \in [Items -> [Kinds -> Int]]
  /\ \A i \in Items, k \in Kinds : sensor[i][k] \in Sensors[k]
  /\ value \in [Items -> [Kinds -> Values]]
  /\ age \in [Items -> [Kinds -> 0 .. MAX_AGE + 1]]
  /\ roomNumber \in [Items -> Items] /\ typePlant \in [Items -> Types]
  /\ windowShown \in Windows /\ shown \in Items
  /\ cycles \in 0 .. SETTING_CYCLES + DISPLAY_CYCLES + 2
  /\ held \in Touches \cup {NoTouch}

\* A reading that is shown, and that the warnings are computed from, is of the
\* sensor that the settings name: changing a sensor forgets the reading, and no
\* message of the old one comes in afterwards (terminal.c roomSettings,
\* plantSettings and the message switch).
Attributed ==
  \A i \in Items, k \in Kinds : value[i][k] # 0 => source[i][k] = sensor[i][k]

\* A positive reading that stays is refreshed by its sensor again and again: the
\* readings of a sensor that fell silent are cleared, whatever window is shown
\* and whatever the other sensors send (terminal.c lines 366 to 372). A negative
\* one is not.
Refreshed ==
  \A i \in Items, k \in Kinds :
    <>[](value[i][k] > 0) => []<>(age[i][k] = 0) \/ <>(windowShown = "off")

\* The touch that opened or closed a window does not act on the buttons of the
\* next one while it lasts: no sensor, no room number and no window changes
\* before the finger is lifted or moved. The plant type does (terminal.c:781).
HeldTouchIdle ==
  [][held # NoTouch /\ held' = held =>
       UNCHANGED <<sensor, roomNumber, windowShown, shown>>]_vars
=============================================================================
