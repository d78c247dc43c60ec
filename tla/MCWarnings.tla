----------------------------- MODULE MCWarnings -----------------------------
\* The types of plants of terminal.c's setupPlantData; line 60 gives the best
\* humidity of TYPE_C to TYPE_B, so TYPE_C has whatever was in memory.
EXTENDS Warnings

CONSTANT Leftover

Bounds(l, h, b) == [low |-> l, high |-> h, best |-> b]

MCLimits ==
  [k \in Types |->
     CASE k = 0 -> [TEMP |-> Bounds(-4, 38, 13), HUM |-> Bounds(30, 70, 50),
                    LIGHT |-> Bounds(300, 900, 700), WATER |-> Bounds(30, 80, 0)]
       [] k = 1 -> [TEMP |-> Bounds(10, 30, 20), HUM |-> Bounds(30, 50, 55),
                    LIGHT |-> Bounds(200, 700, 500), WATER |-> Bounds(5, 90, 0)]
       [] k = 2 -> [TEMP |-> Bounds(10, 30, 20), HUM |-> Bounds(30, 70, Leftover),
                    LIGHT |-> Bounds(100, 500, 350), WATER |-> Bounds(20, 80, 0)]
       [] k = 3 -> [TEMP |-> Bounds(10, 26, 22), HUM |-> Bounds(30, 80, 55),
                    LIGHT |-> Bounds(300, 700, 500), WATER |-> Bounds(30, 70, 0)]]

\* The second plant may become a TYPE_D, which is not too wet where a TYPE_B is,
\* and a TYPE_B again.
MCTypesOf == [p \in Plants |-> IF p = 1 THEN {1, 3} ELSE {}]

\* Of one plant the pot is too wet once its sensor is heard.
MCWaters == [p \in Plants |-> IF p = 0 THEN {95} ELSE {}]

Climate(t, h, l) == [TEMP |-> t, HUM |-> h, LIGHT |-> l]

\* No reading; too cold for TYPE_B to TYPE_D and too wet for TYPE_B; too hot and
\* too light for all and too wet for all but TYPE_D.
Unknown == Climate(0, 0, 0)
ColdRoom == Climate(5, 60, 0)
HotRoom == Climate(40, 80, 950)

\* Room 0, in which the plants begin, may be any of them, or lose its readings
\* again; room 1 is hot once its sensors are heard.
MCClimates ==
  [r \in Rooms |-> IF r = 0 THEN {Unknown, ColdRoom, HotRoom} ELSE {HotRoom}]
=============================================================================
