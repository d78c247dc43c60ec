--------------------------- MODULE TerminalProofs ---------------------------
(***************************************************************************)
(* The terminal and its touch screen, whatever the sensors, the screen, the *)
(* messages and the touches: a reading that is shown belongs to the sensor  *)
(* that is set, a touch that opened a window presses nothing in it, and a   *)
(* restart or a shutdown follows its whole swipe.                           *)
(***************************************************************************)
EXTENDS Terminal, TouchSwipe, TLAPS

\* Attributed is inductive with the types.
Inv == TypeOK /\ Attributed

LEMMA FirstSensorFacts ==
  ASSUME NEW k \in Kinds, NEW i \in Items
  PROVE  FirstSensor(k) + i \in Sensors[k] /\ FirstSensor(k) + i \in Int
<1>1. PICK s \in Sensors[k] :
        (\A t \in Sensors[k] : s <= t) /\ (\A j \in Items : s + j \in Sensors[k])
  BY ScreenAssumption
<1>2. FirstSensor(k) \in Sensors[k] /\ \A t \in Sensors[k] : FirstSensor(k) <= t
  BY <1>1 DEF FirstSensor
<1>3. FirstSensor(k) = s
  BY <1>1, <1>2, ScreenAssumption
<1>. QED  BY <1>1, <1>3, ScreenAssumption

LEMMA InvInit == Init => Inv
<1>. SUFFICES ASSUME Init PROVE Inv
  OBVIOUS
<1>. USE DEF Init
<1>1. sensor \in [Items -> [Kinds -> Int]]
      /\ \A i \in Items, k \in Kinds : sensor[i][k] \in Sensors[k]
  BY FirstSensorFacts
<1>2. value \in [Items -> [Kinds -> Values]] /\ age \in [Items -> [Kinds -> 0 .. MAX_AGE + 1]]
  BY ScreenAssumption
<1>3. roomNumber \in [Items -> Items] /\ typePlant \in [Items -> Types]
  BY ScreenAssumption
<1>4. /\ windowShown \in Windows /\ shown \in Items
      /\ cycles \in 0 .. SETTING_CYCLES + DISPLAY_CYCLES + 2
      /\ held \in Touches \cup {NoTouch}
  BY ScreenAssumption DEF Windows
<1>5. Attributed
  BY DEF Attributed
<1>. QED  BY <1>1, <1>2, <1>3, <1>4, <1>5 DEF Inv, TypeOK

LEMMA NewSensorType ==
  ASSUME TypeOK, NEW touch, NEW i \in Items, NEW k \in Kinds
  PROVE  NewSensor(touch, i, k) \in Sensors[k] /\ NewSensor(touch, i, k) \in Int
<1>1. sensor[i][k] \in Sensors[k]
  BY DEF TypeOK
<1>2. \A up : Moved(sensor[i][k], up, Sensors[k]) \in Sensors[k]
  BY <1>1 DEF Moved
<1>3. NewSensor(touch, i, k) \in Sensors[k]
  BY <1>1, <1>2 DEF NewSensor
<1>. QED  BY <1>3, ScreenAssumption

LEMMA MessageValue ==
  ASSUME NEW m \in Messages
  PROVE  m.value \in Values
BY ScreenAssumption DEF Messages, NoMessage

LEMMA NewValueType ==
  ASSUME TypeOK, NEW m \in Messages, NEW touch, NEW i \in Items, NEW k \in Kinds
  PROVE  NewValue(m, touch, i, k) \in Values
BY MessageValue, ScreenAssumption DEF TypeOK, NewValue

\* Every iteration keeps the types, component by component.
LEMMA LoopType ==
  ASSUME TypeOK, NEW m \in Messages, NEW touch \in Touches \cup {NoTouch}, Loop(m, touch)
  PROVE  TypeOK'
<1>1. /\ sensor' = [i \in Items |-> [k \in Kinds |-> NewSensor(touch, i, k)]]
      /\ value' = [i \in Items |-> [k \in Kinds |-> NewValue(m, touch, i, k)]]
  BY DEF Loop
<1>2. /\ sensor' \in [Items -> [Kinds -> Int]]
      /\ \A i \in Items, k \in Kinds : sensor'[i][k] \in Sensors[k]
  BY <1>1, NewSensorType
<1>3. value' \in [Items -> [Kinds -> Values]]
  BY <1>1, NewValueType
<1>4. age' \in [Items -> [Kinds -> 0 .. MAX_AGE + 1]]
  <2>1. ASSUME NEW i \in Items, NEW k \in Kinds
        PROVE (IF Stores(m, i, k) \/ value'[i][k] <= 0 THEN 0 ELSE age[i][k]) \in 0 .. MAX_AGE + 1
    <3>1. age[i][k] \in 0 .. MAX_AGE + 1
      BY DEF TypeOK
    <3>2. 0 \in 0 .. MAX_AGE + 1
      BY ScreenAssumption
    <3>. QED  BY <3>1, <3>2
  <2>2. age' = [i \in Items |-> [k \in Kinds |->
                 IF Stores(m, i, k) \/ value'[i][k] <= 0 THEN 0 ELSE age[i][k]]]
    BY DEF Loop
  <2>. QED  BY <2>1, <2>2
<1>5. roomNumber' \in [Items -> Items]
  BY DEF Loop, TypeOK, Moved
<1>6. typePlant' \in [Items -> Types]
  BY DEF Loop, TypeOK
<1>7. windowShown' \in Windows /\ shown' \in Items
  BY DEF Loop, Show, TypeOK, Windows
<1>8. cycles' \in 0 .. SETTING_CYCLES + DISPLAY_CYCLES + 2
  <2>1. /\ cycles \in 0 .. SETTING_CYCLES + DISPLAY_CYCLES + 2
        /\ cycles' = 1 + (IF cycles > Limit THEN 0 ELSE cycles)
    BY DEF Loop, Counts, TypeOK
  <2>2. Limit \in {SETTING_CYCLES, DISPLAY_CYCLES}
    BY DEF Limit
  <2>. QED  BY <2>1, <2>2, ScreenAssumption
<1>9. held' \in Touches \cup {NoTouch}
  BY DEF Loop
<1>. QED  BY <1>2, <1>3, <1>4, <1>5, <1>6, <1>7, <1>8, <1>9 DEF TypeOK

\* A reading that is kept is of the sensor that stays, one that is stored of the
\* sender of the message.
LEMMA LoopAttributed ==
  ASSUME Inv, NEW m \in Messages, NEW touch, Loop(m, touch)
  PROVE  Attributed'
<1>. SUFFICES ASSUME NEW i \in Items, NEW k \in Kinds, value'[i][k] # 0
              PROVE  source'[i][k] = sensor'[i][k]
  BY DEF Attributed
<1>1. /\ sensor'[i][k] = NewSensor(touch, i, k)
      /\ value'[i][k] = NewValue(m, touch, i, k)
      /\ source'[i][k] = IF Stores(m, i, k) THEN m.from
                         ELSE IF value'[i][k] = 0 THEN sensor'[i][k] ELSE source[i][k]
  BY DEF Loop
<1>2. sensor'[i][k] = sensor[i][k]
  BY <1>1 DEF NewValue
<1>3. CASE Stores(m, i, k)
  BY <1>1, <1>2, <1>3 DEF Stores
<1>4. CASE ~ Stores(m, i, k)
  <2>1. value'[i][k] = value[i][k]
    BY <1>1, <1>2, <1>4 DEF NewValue
  <2>. QED  BY <1>1, <1>2, <1>4, <2>1 DEF Inv, Attributed
<1>. QED  BY <1>3, <1>4

LEMMA SecondType == ASSUME TypeOK, Second PROVE TypeOK'
<1>1. age' \in [Items -> [Kinds -> 0 .. MAX_AGE + 1]]
  <2>1. ASSUME NEW i \in Items, NEW k \in Kinds
        PROVE (IF value[i][k] > 0 /\ age[i][k] <= MAX_AGE
               THEN age[i][k] + 1 ELSE age[i][k]) \in 0 .. MAX_AGE + 1
    BY ScreenAssumption DEF TypeOK
  <2>2. age' = [i \in Items |-> [k \in Kinds |->
                 IF value[i][k] > 0 /\ age[i][k] <= MAX_AGE
                 THEN age[i][k] + 1 ELSE age[i][k]]]
    BY DEF Second
  <2>. QED  BY <2>1, <2>2
<1>2. UNCHANGED <<sensor, value, source, roomNumber, typePlant, windowShown, shown,
                  cycles, held>>
  BY DEF Second
<1>. QED  BY <1>1, <1>2 DEF TypeOK

LEMMA SecondKeeps == ASSUME Inv, Second PROVE Inv'
<1>1. UNCHANGED <<sensor, value, source>>
  BY DEF Second
<1>. QED  BY <1>1, SecondType DEF Inv, Attributed

LEMMA InvNext == Inv /\ [Next]_vars => Inv'
<1>1. ASSUME Inv, Iteration PROVE Inv'
  <2>1. PICK m \in Messages, touch \in Touches \cup {NoTouch} : Loop(m, touch)
    BY <1>1 DEF Iteration
  <2>2. TypeOK
    BY <1>1 DEF Inv
  <2>. QED  BY <1>1, <2>1, <2>2, LoopType, LoopAttributed DEF Inv
<1>2. ASSUME Inv, UNCHANGED vars PROVE Inv'
  BY <1>2 DEF Inv, TypeOK, Attributed, vars
<1>. QED  BY <1>1, <1>2, SecondKeeps DEF Next

\* For all sensors, settings and screens, the terminal's data keep their types:
\* no button takes a sensor, a room or a plant out of its range.
THEOREM TerminalTypeCorrect == Spec => []TypeOK
<1>1. Inv => TypeOK
  BY DEF Inv
<1>. QED  BY InvInit, InvNext, <1>1, PTL DEF Spec

\* For all sensors, settings and screens, the reading that is shown of a room or
\* plant is of the sensor set for it (terminal.c lines 334 to 366, 635 to 670).
THEOREM ReadingsAttributed == Spec => []Attributed
<1>1. Inv => Attributed
  BY DEF Inv
<1>. QED  BY InvInit, InvNext, <1>1, PTL DEF Spec

-----------------------------------------------------------------------------
\* The touch that changed the window.

\* A touch that is held since it changed the window is on the button that led to
\* the window shown: HeldTouchIdle needs to know which button that was.
HeldButton ==
  \/ held = NoTouch
  \/ windowShown = "off"
  \/ windowShown = "main" /\ Within(held, Back)
  \/ windowShown = "identification" /\ Within(held, Ident)
  \/ windowShown = "debug" /\ Within(held, Debug)
  \/ windowShown = "plantSettings" /\ \E i \in Items : Within(held, PlantInfo(i))
  \/ windowShown = "roomSettings" /\ \E i \in Items : Within(held, RoomInfo(i))

HeldInv == TypeOK /\ HeldButton

\* On a screen of 57 columns the buttons at the top do not reach Back, and on no
\* screen do rooms and plants reach them.
LEMMA ButtonsApart ==
  ASSUME COLS >= 57, NEW touch \in [row : Int, col : Int]
  PROVE  /\ Within(touch, Back) =>
              /\ ~ Within(touch, Shutdown) /\ ~ Within(touch, Ident)
              /\ ~ Within(touch, Debug)
              /\ \A i \in Items : ~ Within(touch, PlantInfo(i)) /\ ~ Within(touch, RoomInfo(i))
         /\ Within(touch, Ident) \/ Within(touch, Debug) => ~ Within(touch, Shutdown)
         /\ \A i \in Items :
              Within(touch, PlantInfo(i)) \/ Within(touch, RoomInfo(i)) =>
                /\ ~ Within(touch, Shutdown)
                /\ \A line \in 0 .. 2, up \in BOOLEAN : ~ Within(touch, Setting(line, up))
<1>. DEFINE row == ROWS - touch.row
            col == COLS - touch.col
<1>1. COLS \in Nat /\ ROWS \in Nat /\ row \in Int /\ col \in Int
  BY ScreenAssumption
<1>2. /\ Within(touch, Back) => row \in 0 .. 2 /\ col \in 0 .. 6
      /\ Within(touch, Shutdown) => row \in 0 .. 2 /\ col \in COLS - 16 .. COLS - 1
      /\ Within(touch, Ident) => row \in 0 .. 2 /\ col \in COLS - 33 .. COLS - 18
      /\ Within(touch, Debug) => row \in 0 .. 2 /\ col \in COLS - 50 .. COLS - 35
  BY <1>1 DEF Within, Box, Back, Shutdown, Ident, Debug
<1>3. ASSUME NEW i \in Items, Within(touch, PlantInfo(i)) \/ Within(touch, RoomInfo(i))
      PROVE  row >= 3 /\ col \in 0 .. 19
  <2>1. i \in 0 .. 2
    BY ScreenAssumption
  <2>2. /\ MainRow[i + 1] \in Int /\ MainRow[i + 1] >= 3
        /\ MainRow[i + 4] \in Int /\ MainRow[i + 4] >= 3
    BY <2>1 DEF MainRow
  <2>3. (ROWS - 4) \div 6 \in Int
    BY <1>1
  <2>. HIDE DEF row, col
  <2>4. CASE Within(touch, PlantInfo(i))
    <3>1. row \in MainRow[i + 1] .. MainRow[i + 1] + (ROWS - 4) \div 6 - 1 /\ col \in 0 .. 0 + 20 - 1
      BY <2>4 DEF Within, Box, PlantInfo, row, col
    <3>. QED  BY <1>1, <2>2, <2>3, <3>1
  <2>5. CASE Within(touch, RoomInfo(i))
    <3>1. row \in MainRow[i + 4] .. MainRow[i + 4] + ((ROWS - 4) \div 6 + 1) - 1 /\ col \in 0 .. 0 + 20 - 1
      BY <2>5 DEF Within, Box, RoomInfo, row, col
    <3>. QED  BY <1>1, <2>2, <2>3, <3>1
  <2>. QED  BY <1>3, <2>4, <2>5
<1>4. ASSUME NEW line \in 0 .. 2, NEW up \in BOOLEAN, Within(touch, Setting(line, up))
      PROVE  col >= 20
  <2>1. col >= IF up THEN COLS - 27 ELSE 20
    BY <1>1, <1>4 DEF Within, Box, Setting
  <2>. QED  BY <1>1, <2>1
<1>. HIDE DEF row, col
<1>5. Within(touch, Back) =>
        /\ ~ Within(touch, Shutdown) /\ ~ Within(touch, Ident) /\ ~ Within(touch, Debug)
        /\ \A i \in Items : ~ Within(touch, PlantInfo(i)) /\ ~ Within(touch, RoomInfo(i))
  BY <1>1, <1>2, <1>3
<1>6. Within(touch, Ident) \/ Within(touch, Debug) => ~ Within(touch, Shutdown)
  BY <1>1, <1>2
<1>7. ASSUME NEW i \in Items, Within(touch, PlantInfo(i)) \/ Within(touch, RoomInfo(i))
      PROVE  /\ ~ Within(touch, Shutdown)
             /\ \A line \in 0 .. 2, up \in BOOLEAN : ~ Within(touch, Setting(line, up))
  BY <1>1, <1>2, <1>3, <1>4, <1>7
<1>. QED  BY <1>5, <1>6, <1>7

\* A touch on the button that led to the window shown does nothing there.
LEMMA ButtonIdle ==
  ASSUME COLS >= 57, TypeOK, HeldButton, held # NoTouch, NEW m, Loop(m, held)
  PROVE  UNCHANGED <<sensor, roomNumber, windowShown, shown>>
<1>. USE DEF TypeOK
<1>0. windowShown # "off"
  BY DEF Loop, Counts
<1>1. held \in [row : Int, col : Int]
  BY ScreenAssumption
<1>2. \A line \in 0 .. 2, up \in BOOLEAN :
        windowShown \in {"plantSettings", "roomSettings"} => ~ Within(held, Setting(line, up))
  BY <1>0, <1>1, ButtonsApart DEF HeldButton
<1>3. ~ Within(held, Shutdown)
  BY <1>0, <1>1, ButtonsApart DEF HeldButton
<1>4. /\ windowShown = "main" =>
           /\ ~ Within(held, Ident) /\ ~ Within(held, Debug)
           /\ \A i \in Items : ~ Within(held, PlantInfo(i)) /\ ~ Within(held, RoomInfo(i))
      /\ windowShown # "main" => ~ Within(held, Back)
  BY <1>0, <1>1, ButtonsApart DEF HeldButton
<1>5. ASSUME NEW w \in {"plantSettings", "roomSettings"}, NEW line \in 0 .. 2, NEW up \in BOOLEAN
      PROVE  ~ Pressed(held, w, line, up)
  BY <1>2 DEF Pressed
<1>6. sensor' = sensor
  <2>1. ASSUME NEW i \in Items, NEW k \in Kinds  PROVE NewSensor(held, i, k) = sensor[i][k]
    <3>1. SettingLine[k] \in 0 .. 2
      BY ScreenAssumption DEF SettingLine
    <3>2. SettingWindow(k) \in {"plantSettings", "roomSettings"}
      BY DEF SettingWindow
    <3>3. \A up \in BOOLEAN : ~ Adjusts(held, i, k, up)
      BY <1>5, <3>1, <3>2 DEF Adjusts
    <3>. QED  BY <3>3, Zenon DEF NewSensor
  <2>2. sensor' = [i \in Items |-> [k \in Kinds |-> NewSensor(held, i, k)]]
    BY DEF Loop
  <2>3. sensor' = [i \in Items |-> [k \in Kinds |-> sensor[i][k]]]
    BY <2>1, <2>2
  <2>. QED  BY <2>3
<1>7. roomNumber' = roomNumber
  <2>1. \A up \in BOOLEAN : ~ Pressed(held, "plantSettings", 1, up)
    BY <1>5
  <2>2. roomNumber' = [i \in Items |-> roomNumber[i]]
    BY <2>1 DEF Loop
  <2>. QED  BY <2>2
<1>8. UNCHANGED <<windowShown, shown>>
  <2>1. \A w \in Windows, i \in Items : ~ Opens(held, w, i)
    BY <1>4 DEF Opens
  <2>2. Show(held)
    BY DEF Loop
  <2>. QED  BY <1>3, <2>1, <2>2 DEF Show
<1>. QED  BY <1>6, <1>7, <1>8

\* A touch that changes the window is on the button that leads to the new one.
LEMMA LoopHeld ==
  ASSUME HeldInv, NEW m, NEW touch, Loop(m, touch)
  PROVE  HeldButton'
<1>. SUFFICES ASSUME held' # NoTouch PROVE HeldButton'
  BY DEF HeldButton
<1>1. held' = touch /\ (windowShown' # windowShown \/ touch = held) /\ Show(touch)
  BY DEF Loop
<1>2. CASE windowShown' = windowShown
  BY <1>1, <1>2 DEF HeldInv, HeldButton
<1>3. CASE windowShown' # windowShown
  <2>1. \/ windowShown' = "off"
        \/ \E w \in Windows, i \in Items : Opens(touch, w, i) /\ windowShown' = w
    BY <1>1, <1>3 DEF Show
  <2>. QED  BY <1>1, <2>1 DEF HeldButton, Opens
<1>. QED  BY <1>2, <1>3

LEMMA HeldNext ==
  ASSUME COLS >= 57
  PROVE  HeldInv /\ [Next]_vars =>
           /\ HeldInv'
           /\ held # NoTouch /\ held' = held =>
                UNCHANGED <<sensor, roomNumber, windowShown, shown>>
<1>. SUFFICES ASSUME HeldInv, [Next]_vars
              PROVE  /\ HeldInv'
                     /\ held # NoTouch /\ held' = held =>
                          UNCHANGED <<sensor, roomNumber, windowShown, shown>>
  OBVIOUS
<1>1. ASSUME NEW m \in Messages, NEW touch \in Touches \cup {NoTouch}, Loop(m, touch)
      PROVE  /\ HeldInv'
             /\ held # NoTouch /\ held' = held =>
                  UNCHANGED <<sensor, roomNumber, windowShown, shown>>
  <2>1. TypeOK' /\ HeldButton'
    BY <1>1, LoopType, LoopHeld DEF HeldInv
  <2>2. held' # NoTouch => held' = touch
    BY <1>1 DEF Loop
  <2>3. ASSUME held # NoTouch, held' = held
        PROVE  UNCHANGED <<sensor, roomNumber, windowShown, shown>>
    <3>1. Loop(m, held)
      BY <1>1, <2>2, <2>3
    <3>. QED  BY <2>3, <3>1, ButtonIdle DEF HeldInv
  <2>. QED  BY <2>1, <2>3 DEF HeldInv
<1>2. ASSUME Second
      PROVE  HeldInv' /\ UNCHANGED <<sensor, roomNumber, windowShown, shown>>
  <2>1. UNCHANGED <<sensor, roomNumber, windowShown, shown, held>>
    BY <1>2 DEF Second
  <2>2. TypeOK'
    BY <1>2, SecondType DEF HeldInv
  <2>. QED  BY <2>1, <2>2 DEF HeldInv, HeldButton
<1>3. CASE UNCHANGED vars
  BY <1>3 DEF HeldInv, HeldButton, TypeOK, vars
<1>. QED  BY <1>1, <1>2, <1>3 DEF Next, Iteration

\* On every screen of at least 57 columns, which is what the three buttons at the
\* top and the one back to the main window take, whatever its height, the touch
\* that changed the window acts on no button of the next one while it is held
\* (isWithinWindow and the windows of terminal.c).
THEOREM HeldTouchSafe ==
  ASSUME COLS >= 57
  PROVE  Spec => HeldTouchIdle
<1>1. Init => HeldInv
  BY InvInit DEF Inv, HeldInv, HeldButton, Init
<1>2. HeldInv /\ [Next]_vars => HeldInv'
  BY HeldNext
<1>3. HeldInv /\ [Next]_vars =>
        [held # NoTouch /\ held' = held =>
           UNCHANGED <<sensor, roomNumber, windowShown, shown>>]_vars
  BY HeldNext
<1>. QED  BY <1>1, <1>2, <1>3, PTL DEF Spec, HeldTouchIdle

-----------------------------------------------------------------------------
\* The swipes of rpitouch.c.

\* What slot 1 has visited when a swipe is in state n of its route.
Visits == [restart |-> << <<1>>, <<1, 2>>, <<1, 2, 5>>, <<1, 2, 5, 8>> >>,
           shutdown |-> << <<3>>, <<3, 6>>, <<3, 6, 7>>, <<3, 6, 7, 8>> >>]

OnRoute(w) == state[w] # 0 => route[w] = Visits[w][state[w]]

\* The inductive invariant: SwipeComplete needs to know of a swipe in progress
\* what route led there, OneSwipe that the routes share no zone but the ends.
SwipeInv == TouchTypeOK /\ OneSwipe /\ \A w \in Swipes : OnRoute(w)

LEMMA RouteFacts ==
  ASSUME NEW w \in Swipes
  PROVE  /\ Len(Swipe[w]) = 5 /\ Swipe[w][1] = 0 /\ Swipe[w][5] = 8
         /\ w = "restart" => /\ Swipe[w][2] = 1 /\ Swipe[w][3] = 2 /\ Swipe[w][4] = 5
         /\ w = "shutdown" => /\ Swipe[w][2] = 3 /\ Swipe[w][3] = 6 /\ Swipe[w][4] = 7
BY DEF Swipe, Swipes

LEMMA Apart ==
  /\ Swipe["restart"][2] = 1 /\ Swipe["restart"][3] = 2 /\ Swipe["restart"][4] = 5
  /\ Swipe["shutdown"][2] = 3 /\ Swipe["shutdown"][3] = 6 /\ Swipe["shutdown"][4] = 7
BY DEF Swipe

LEMMA NextZone ==
  ASSUME NEW w \in Swipes, NEW n \in 0 .. 3
  PROVE  Swipe[w][n + 1] # Swipe[w][n + 2]
<1>1. n = 0 \/ n = 1 \/ n = 2 \/ n = 3
  OBVIOUS
<1>. QED  BY <1>1, RouteFacts DEF Swipes

LEMMA Listed ==
  /\ Visits["restart"][1] = <<1>> /\ Visits["restart"][2] = <<1, 2>>
  /\ Visits["restart"][3] = <<1, 2, 5>> /\ Visits["restart"][4] = <<1, 2, 5, 8>>
  /\ Visits["shutdown"][1] = <<3>> /\ Visits["shutdown"][2] = <<3, 6>>
  /\ Visits["shutdown"][3] = <<3, 6, 7>> /\ Visits["shutdown"][4] = <<3, 6, 7, 8>>
BY DEF Visits

\* What was visited ends with the zone of the state, and grows by the next one.
LEMMA VisitsLast ==
  ASSUME NEW w \in Swipes, NEW n \in 1 .. 4
  PROVE  /\ Visits[w][n] \in Seq(Nat)
         /\ Len(Visits[w][n]) = n
         /\ Visits[w][n][n] = Swipe[w][n + 1]
<1>1. n = 1 \/ n = 2 \/ n = 3 \/ n = 4
  OBVIOUS
<1>2. CASE w = "restart"
  <2>1. CASE n = 1  BY <1>2, <2>1, Listed, RouteFacts
  <2>2. CASE n = 2  BY <1>2, <2>2, Listed, RouteFacts
  <2>3. CASE n = 3  BY <1>2, <2>3, Listed, RouteFacts
  <2>4. CASE n = 4  BY <1>2, <2>4, Listed, RouteFacts
  <2>. QED  BY <1>1, <2>1, <2>2, <2>3, <2>4
<1>3. CASE w = "shutdown"
  <2>1. CASE n = 1  BY <1>3, <2>1, Listed, RouteFacts
  <2>2. CASE n = 2  BY <1>3, <2>2, Listed, RouteFacts
  <2>3. CASE n = 3  BY <1>3, <2>3, Listed, RouteFacts
  <2>4. CASE n = 4  BY <1>3, <2>4, Listed, RouteFacts
  <2>. QED  BY <1>1, <2>1, <2>2, <2>3, <2>4
<1>. QED  BY <1>2, <1>3 DEF Swipes

LEMMA VisitsGrow ==
  ASSUME NEW w \in Swipes, NEW n \in 1 .. 3
  PROVE  /\ Visits[w][1] = <<Swipe[w][2]>>
         /\ Append(Visits[w][n], Swipe[w][n + 2]) = Visits[w][n + 1]
<1>1. n = 1 \/ n = 2 \/ n = 3
  OBVIOUS
<1>2. CASE w = "restart"
  <2>1. CASE n = 1  BY <1>2, <2>1, Listed, RouteFacts
  <2>2. CASE n = 2  BY <1>2, <2>2, Listed, RouteFacts
  <2>3. CASE n = 3  BY <1>2, <2>3, Listed, RouteFacts
  <2>. QED  BY <1>1, <2>1, <2>2, <2>3
<1>3. CASE w = "shutdown"
  <2>1. CASE n = 1  BY <1>3, <2>1, Listed, RouteFacts
  <2>2. CASE n = 2  BY <1>3, <2>2, Listed, RouteFacts
  <2>3. CASE n = 3  BY <1>3, <2>3, Listed, RouteFacts
  <2>. QED  BY <1>1, <2>1, <2>2, <2>3
<1>. QED  BY <1>2, <1>3 DEF Swipes

\* One position of slot 1: the swipe goes back to its start, or it has visited
\* the route as far as its new state.
LEMMA StepOnRoute ==
  ASSUME NEW w \in Swipes, NEW zone, state[w] \in 0 .. 3, OnRoute(w)
  PROVE  /\ Reached(w, zone) \in 0 .. 4
         /\ Reached(w, zone) = 0 => Visited(w, zone, Reached(w, zone)) = <<>>
         /\ Reached(w, zone) # 0 =>
              Visited(w, zone, Reached(w, zone)) = Visits[w][Reached(w, zone)]
         /\ Reached(w, zone) # 0 => zone = Swipe[w][Reached(w, zone) + 1]
         /\ state[w] = 0 => Reached(w, zone) \in {0, 1}
<1>. DEFINE n == state[w]
<1>0. n \in 0 .. 3 /\ (n # 0 => n \in 1 .. 3 /\ n \in 1 .. 4 /\ route[w] = Visits[w][n])
  BY DEF OnRoute
<1>. HIDE DEF n
<1>1. CASE zone = Swipe[w][n + 1] /\ n # 0
  <2>1. Reached(w, zone) = n
    BY <1>0, <1>1, NextZone DEF Reached, n
  <2>2. Visited(w, zone, n) = route[w]
    <3>1. route[w] = Visits[w][n] /\ Len(route[w]) = n /\ route[w][n] = zone
      BY <1>0, <1>1, VisitsLast
    <3>. QED  BY <1>1, <3>1 DEF Visited, n
  <2>. QED  BY <1>0, <1>1, <2>1, <2>2 DEF n
<1>2. CASE zone = Swipe[w][n + 2]
  <2>1. Reached(w, zone) = n + 1
    BY <1>0, <1>2, NextZone DEF Reached, n
  <2>2. CASE n = 0
    BY <1>2, <2>1, <2>2, VisitsGrow DEF Visited, n
  <2>3. CASE n # 0
    <3>1. route[w] = Visits[w][n] /\ Len(route[w]) = n /\ route[w][n] = Swipe[w][n + 1]
      BY <1>0, <2>3, VisitsLast
    <3>2. route[w][Len(route[w])] # zone
      BY <1>0, <1>2, <3>1, NextZone
    <3>3. Visited(w, zone, n + 1) = Append(route[w], zone)
      BY <1>0, <2>3, <3>2 DEF Visited, n
    <3>4. Append(route[w], zone) = Visits[w][n + 1]
      BY <1>0, <1>2, <2>3, <3>1, VisitsGrow
    <3>. QED  BY <1>0, <1>2, <2>1, <2>3, <3>3, <3>4 DEF n
  <2>. QED  BY <2>2, <2>3
<1>3. CASE (zone # Swipe[w][n + 1] \/ n = 0) /\ zone # Swipe[w][n + 2]
  <2>1. Reached(w, zone) = 0
    BY <1>3 DEF Reached, n
  <2>. QED  BY <2>1 DEF Visited
<1>. QED  BY <1>1, <1>2, <1>3

LEMMA CompleteIsLast ==
  ASSUME NEW w \in Swipes, NEW n \in 0 .. 4
  PROVE  Complete(w, n) <=> n = 4
<1>. Len(Swipe[w]) = 5
  BY RouteFacts
<1>. QED  BY DEF Complete

\* UpdateSwipe with any slots keeps what the invariant says of the swipes, and
\* ends one only on its whole route.
LEMMA UpdateSwipeKeeps ==
  ASSUME SwipeInv, ~ off, NEW s, UpdateSwipe(s)
  PROVE  /\ state' \in [Swipes -> 0 .. 3] /\ route' \in [Swipes -> Seq(Nat)]
         /\ detected' \in BOOLEAN /\ off' \in BOOLEAN
         /\ OneSwipe' /\ \A w \in Swipes : OnRoute(w)'
         /\ off' # off => route'["shutdown"] = <<3, 6, 7, 8>> /\ Holding(s[0])
         /\ detected' # detected => route'["restart"] = <<1, 2, 5, 8>> /\ Holding(s[0])
<1>. USE DEF SwipeInv, TouchTypeOK
<1>1. CASE ~ Holding(s[0])
  <2>. UNCHANGED <<state, detected, off, route>>
    BY <1>1 DEF UpdateSwipe
  <2>. QED  BY DEF OneSwipe, OnRoute
<1>2. CASE Holding(s[0]) /\ ~ s[1].used
  <2>. /\ state' = [w \in Swipes |-> 0]
       /\ route' = [w \in Swipes |-> <<>>]
       /\ UNCHANGED <<detected, off>>
    BY <1>2 DEF UpdateSwipe
  <2>. QED  BY DEF OneSwipe, OnRoute, Swipes
<1>3. CASE Holding(s[0]) /\ s[1].used
  <2>. DEFINE zone == Zone(s[1])
              n(w) == Reached(w, zone)
  <2>1. /\ state' = [w \in Swipes |-> IF Complete(w, n(w)) THEN 0 ELSE n(w)]
        /\ route' = [w \in Swipes |-> Visited(w, zone, n(w))]
        /\ detected' = (detected \/ Complete("restart", n("restart")))
        /\ off' = Complete("shutdown", n("shutdown"))
    BY <1>3 DEF UpdateSwipe, Swipes
  <2>. HIDE DEF zone
  <2>2. ASSUME NEW w \in Swipes
        PROVE  /\ n(w) \in 0 .. 4
               /\ n(w) = 0 => route'[w] = <<>>
               /\ n(w) # 0 => route'[w] = Visits[w][n(w)] /\ zone = Swipe[w][n(w) + 1]
               /\ state[w] = 0 => n(w) \in {0, 1}
               /\ state'[w] = IF n(w) = 4 THEN 0 ELSE n(w)
    BY <2>1, StepOnRoute, CompleteIsLast
  <2>. HIDE DEF n
  <2>3. /\ state' \in [Swipes -> 0 .. 3]
        /\ \A w \in Swipes : OnRoute(w)'
    BY <2>1, <2>2 DEF OnRoute
  <2>4. ASSUME NEW w \in Swipes PROVE route'[w] \in Seq(Nat)
    <3>1. n(w) = 0 \/ n(w) \in 1 .. 4
      BY <2>2
    <3>2. CASE n(w) = 0
      <4>1. route'[w] = <<>>
        BY <2>2, <3>2
      <4>. QED  BY <4>1
    <3>3. CASE n(w) \in 1 .. 4
      <4>1. route'[w] = Visits[w][n(w)]
        BY <2>2, <3>3
      <4>. QED  BY <3>3, <4>1, VisitsLast
    <3>. QED  BY <3>1, <3>2, <3>3
  <2>5. route' \in [Swipes -> Seq(Nat)]
    BY <2>1, <2>4
  <2>6. OneSwipe'
    <3>1. "restart" \in Swipes /\ "shutdown" \in Swipes
      BY DEF Swipes
    <3>0. /\ n("restart") # 0 => zone = Swipe["restart"][n("restart") + 1]
          /\ n("shutdown") # 0 => zone = Swipe["shutdown"][n("shutdown") + 1]
      BY <2>2, <3>1, Zenon
    <3>2. /\ n("restart") = 1 => zone = 1
          /\ n("restart") = 2 => zone = 2
          /\ n("restart") = 3 => zone = 5
      BY <3>0, Apart
    <3>3. /\ n("shutdown") = 1 => zone = 3
          /\ n("shutdown") = 2 => zone = 6
          /\ n("shutdown") = 3 => zone = 7
      BY <3>0, Apart
    <3>4. n("restart") \in {0, 4} \/ n("shutdown") \in {0, 4}
      BY <2>2, <3>1, <3>2, <3>3
    <3>. QED  BY <2>2, <3>1, <3>4 DEF OneSwipe
  <2>7. /\ Complete("shutdown", n("shutdown")) =>
             n("shutdown") = 4 /\ route'["shutdown"] = <<3, 6, 7, 8>>
        /\ Complete("restart", n("restart")) =>
             n("restart") = 4 /\ route'["restart"] = <<1, 2, 5, 8>>
    <3>1. "restart" \in Swipes /\ "shutdown" \in Swipes
      BY DEF Swipes
    <3>2. /\ Complete("shutdown", n("shutdown")) => n("shutdown") = 4
          /\ Complete("restart", n("restart")) => n("restart") = 4
      BY <2>2, <3>1, CompleteIsLast
    <3>3. /\ n("shutdown") = 4 => route'["shutdown"] = Visits["shutdown"][4]
          /\ n("restart") = 4 => route'["restart"] = Visits["restart"][4]
      <4>1. /\ n("shutdown") # 0 => route'["shutdown"] = Visits["shutdown"][n("shutdown")]
            /\ n("restart") # 0 => route'["restart"] = Visits["restart"][n("restart")]
        BY <2>2, <3>1, Zenon
      <4>. QED  BY <4>1
    <3>. QED  BY <3>2, <3>3, Listed
  <2>8. detected' \in BOOLEAN /\ off' \in BOOLEAN
    BY <2>1 DEF Complete
  <2>9. off' # off => Complete("shutdown", n("shutdown"))
    <3>1. off' \in BOOLEAN /\ off = FALSE
      BY <2>8
    <3>. QED  BY <2>1, <3>1 DEF Complete
  <2>10. detected' # detected => Complete("restart", n("restart"))
    BY <2>1 DEF Complete
  <2>. QED  BY <1>3, <2>3, <2>5, <2>6, <2>7, <2>8, <2>9, <2>10
<1>. QED  BY <1>1, <1>2, <1>3

LEMMA SwipeInvInit == TouchInit => SwipeInv
<1>. SUFFICES ASSUME TouchInit PROVE SwipeInv
  OBVIOUS
<1>. USE DEF TouchInit
<1>1. slot \in [Slots -> Slot] /\ curSlot \in Slots
  BY TouchAssumption DEF Slot, Slots
<1>2. state \in [Swipes -> 0 .. 3]
  OBVIOUS
<1>3. detected \in BOOLEAN /\ off \in BOOLEAN
  OBVIOUS
<1>4. route \in [Swipes -> Seq(Nat)]
  OBVIOUS
<1>5. OneSwipe
  BY DEF OneSwipe, Swipes
<1>6. ASSUME NEW w \in Swipes PROVE OnRoute(w)
  BY DEF OnRoute
<1>. QED  BY <1>1, <1>2, <1>3, <1>4, <1>5, <1>6 DEF SwipeInv, TouchTypeOK

LEMMA SwipeInvNext ==
  ASSUME SwipeInv, [TouchNext]_touchVars
  PROVE  /\ SwipeInv'
         /\ off' # off => route'["shutdown"] = <<3, 6, 7, 8>> /\ Holding(slot'[0])
         /\ detected' # detected => route'["restart"] = <<1, 2, 5, 8>> /\ Holding(slot'[0])
<1>. USE DEF SwipeInv
<1>1. ASSUME NEW i \in Slots, SlotEvent(i)
      PROVE  SwipeInv' /\ UNCHANGED <<off, detected>>
  BY <1>1 DEF SlotEvent, TouchTypeOK, OneSwipe, OnRoute
<1>2. ASSUME NEW touched \in BOOLEAN, TrackingEvent(touched)
      PROVE  SwipeInv' /\ UNCHANGED <<off, detected>>
  BY <1>2 DEF TrackingEvent, TouchTypeOK, OneSwipe, OnRoute, Slot
<1>3. ASSUME NEW x \in Xs, XEvent(x)
      PROVE  SwipeInv' /\ ~ off /\ UpdateSwipe(slot')
  <2>1. slot' \in [Slots -> Slot] /\ curSlot' \in Slots
    BY <1>3 DEF XEvent, TouchTypeOK, Slot
  <2>. QED  BY <1>3, <2>1, UpdateSwipeKeeps DEF XEvent, TouchTypeOK
<1>4. ASSUME NEW y \in Ys, YEvent(y)
      PROVE  SwipeInv' /\ ~ off /\ UpdateSwipe(slot')
  <2>1. slot' \in [Slots -> Slot] /\ curSlot' \in Slots
    BY <1>4 DEF YEvent, TouchTypeOK, Slot
  <2>. QED  BY <1>4, <2>1, UpdateSwipeKeeps DEF YEvent, TouchTypeOK
<1>5. CASE UNCHANGED touchVars
  BY <1>5 DEF touchVars, TouchTypeOK, OneSwipe, OnRoute
<1>6. ~ off /\ UpdateSwipe(slot') =>
        /\ off' # off => route'["shutdown"] = <<3, 6, 7, 8>> /\ Holding(slot'[0])
        /\ detected' # detected => route'["restart"] = <<1, 2, 5, 8>> /\ Holding(slot'[0])
  BY UpdateSwipeKeeps
<1>. QED  BY <1>1, <1>2, <1>3, <1>4, <1>5, <1>6 DEF TouchNext, touchVars

\* For every screen, number of slots and order of events, the slots and the states
\* of the swipes keep their types: no state is read beyond its route.
THEOREM SwipeTypeCorrect == TouchSpec => []TouchTypeOK
<1>1. SwipeInv /\ [TouchNext]_touchVars => SwipeInv'
  BY SwipeInvNext
<1>2. SwipeInv => TouchTypeOK
  BY DEF SwipeInv
<1>. QED  BY SwipeInvInit, <1>1, <1>2, PTL DEF TouchSpec

\* For every screen and every number of slots, no movement of slot 1 is on its
\* way to both a restart and a shutdown (RPiTouch_UpdateSwipe).
THEOREM SwipesApart == TouchSpec => []OneSwipe
<1>1. SwipeInv /\ [TouchNext]_touchVars => SwipeInv'
  BY SwipeInvNext
<1>2. SwipeInv => OneSwipe
  BY DEF SwipeInv
<1>. QED  BY SwipeInvInit, <1>1, <1>2, PTL DEF TouchSpec

\* For every screen and every number of slots, the machine is shut down, or a
\* restart marked, only after the whole route (RPiTouch_UpdateSwipe).
THEOREM SwipeSafe == TouchSpec => SwipeComplete
<1>1. SwipeInv /\ [TouchNext]_touchVars => SwipeInv'
  BY SwipeInvNext
<1>2. SwipeInv /\ [TouchNext]_touchVars =>
        [/\ off' # off => route'["shutdown"] = <<3, 6, 7, 8>> /\ Holding(slot'[0])
         /\ detected' # detected => route'["restart"] = <<1, 2, 5, 8>> /\ Holding(slot'[0])]_touchVars
  BY SwipeInvNext
<1>. QED  BY SwipeInvInit, <1>1, <1>2, PTL DEF TouchSpec, SwipeComplete
=============================================================================
