----------------------------- MODULE TouchSwipe -----------------------------
(***************************************************************************)
(* The multi-touch side of rpitouch.c: the slots that RPiTouch_UpdateTouch  *)
(* fills from the events of the touch screen, and RPiTouch_UpdateSwipe,     *)
(* which restarts or shuts down after a swipe of slot 1 over a route of     *)
(* zones while slot 0 is held in zone 0. Events come in any order: when the *)
(* main loop is late the kernel drops some.                                 *)
(***************************************************************************)
EXTENDS Integers, Sequences

CONSTANTS
  WIDTH, HEIGHT,   \* the screen in pixels
  Xs, Ys,          \* the positions reported
  SLOTS            \* RPITOUCH_DEVICE_SLOT_COUNT

ASSUME TouchAssumption ==
  /\ WIDTH \in Nat /\ HEIGHT \in Nat /\ WIDTH >= 3 /\ HEIGHT >= 3
  /\ Xs \subseteq 0 .. WIDTH - 1 /\ Ys \subseteq 0 .. HEIGHT - 1
  /\ 0 \in Xs /\ 0 \in Ys
  /\ SLOTS \in Nat /\ SLOTS >= 2

VARIABLES
  slot,      \* _aRPiTouch_Slot
  curSlot,   \* _nRPiTouch_EventStream_CurSlot
  state,     \* nRestartSwipeState and nShutdownSwipeState
  detected,  \* bRestartDetected
  off,       \* RPiTouch_ApplyShutdown has run
  route      \* history: zones of slot 1 since each swipe was last at its start

touchVars == <<slot, curSlot, state, detected, off, route>>

Slots == 0 .. SLOTS - 1
Slot == [used : BOOLEAN, x : Xs, y : Ys]

Swipes == {"restart", "shutdown"}

\* The routes, from the zone that slot 0 holds.
Swipe == [restart |-> <<0, 1, 2, 5, 8>>, shutdown |-> <<0, 3, 6, 7, 8>>]

ZoneWidth == WIDTH \div 3
ZoneHeight == HEIGHT \div 3

\* The pixels that the division by three leaves over count as a fourth column
\* and row.
Zone(p) == (p.y \div ZoneHeight) * 3 + p.x \div ZoneWidth

Holding(p) == p.used /\ p.x <= ZoneWidth /\ p.y <= ZoneHeight

\* The state of a swipe once slot 1 is seen in a zone: it stays in the same
\* zone, goes on in the next one, and is reset in any other.
ReachedAnyway(w, zone) ==    \* slip: a wrong zone is ignored
  IF zone = Swipe[w][state[w] + 2] THEN state[w] + 1 ELSE state[w]
Reached(w, zone) ==
  CASE zone = Swipe[w][state[w] + 1] -> state[w]
    [] zone = Swipe[w][state[w] + 2] -> state[w] + 1
    [] OTHER -> 0

\* The last state, in which the route is complete and the swipe starts over.
CompleteLate(w, n) == n = Len(Swipe[w])    \* slip: one zone more is waited for
Complete(w, n) == n + 1 = Len(Swipe[w])

Visited(w, zone, n) ==
  IF n = 0 THEN <<>>
  ELSE IF state[w] = 0 THEN <<zone>>
  ELSE IF route[w][Len(route[w])] = zone THEN route[w]
  ELSE Append(route[w], zone)

\* RPiTouch_UpdateSwipe with the slots s. Restart is only marked, as
\* RPiTouch_InitTouch says; shutdown ends the program.
UpdateSwipe(s) ==
  LET zone == Zone(s[1])
      n == [w \in Swipes |-> Reached(w, zone)]
  IN  \/ /\ ~ Holding(s[0])
         /\ UNCHANGED <<state, detected, off, route>>
      \/ /\ Holding(s[0]) /\ ~ s[1].used
         /\ state' = [w \in Swipes |-> 0]
         /\ route' = [w \in Swipes |-> <<>>]
         /\ UNCHANGED <<detected, off>>
      \/ /\ Holding(s[0]) /\ s[1].used
         /\ state' = [w \in Swipes |-> IF Complete(w, n[w]) THEN 0 ELSE n[w]]
         /\ route' = [w \in Swipes |-> Visited(w, zone, n[w])]
         /\ detected' = (detected \/ Complete("restart", n["restart"]))
         /\ off' = Complete("shutdown", n["shutdown"])

-----------------------------------------------------------------------------
\* The events that RPiTouch_UpdateTouch reads.

TouchInit ==
  /\ slot = [i \in Slots |-> [used |-> FALSE, x |-> 0, y |-> 0]]
  /\ curSlot = 0
  /\ state = [w \in Swipes |-> 0]
  /\ detected = FALSE /\ off = FALSE
  /\ route = [w \in Swipes |-> <<>>]

SlotEvent(i) ==
  /\ ~ off
  /\ curSlot' = i
  /\ UNCHANGED <<slot, state, detected, off, route>>

\* ABS_MT_TRACKING_ID, and BTN_TOUCH with 0: its loop over all slots clears the
\* current one each time.
TrackingEvent(touched) ==
  /\ ~ off
  /\ slot' = [slot EXCEPT ![curSlot].used = touched]
  /\ UNCHANGED <<curSlot, state, detected, off, route>>

XEvent(x) ==
  /\ ~ off
  /\ slot' = [slot EXCEPT ![curSlot].used = TRUE, ![curSlot].x = x]
  /\ UpdateSwipe(slot')
  /\ UNCHANGED curSlot

YEvent(y) ==
  /\ ~ off
  /\ slot' = [slot EXCEPT ![curSlot].used = TRUE, ![curSlot].y = y]
  /\ UpdateSwipe(slot')
  /\ UNCHANGED curSlot

TouchNext ==
  \/ \E i \in Slots : SlotEvent(i)
  \/ \E touched \in BOOLEAN : TrackingEvent(touched)
  \/ \E x \in Xs : XEvent(x)
  \/ \E y \in Ys : YEvent(y)

TouchSpec == TouchInit /\ [][TouchNext]_touchVars

-----------------------------------------------------------------------------
\* The state stays below the last one, so the entry after it is in the route.
TouchTypeOK ==
  /\ slot \in [Slots -> Slot] /\ curSlot \in Slots
  /\ state \in [Swipes -> 0 .. 3]
  /\ detected \in BOOLEAN /\ off \in BOOLEAN
  /\ route \in [Swipes -> Seq(Nat)]

\* The program shuts the machine down, or marks a restart, only when slot 0 is in
\* zone 0 and slot 1 was seen in the zones of the route one after the other: of
\* all the positions that came while slot 0 was in zone 0, one coordinate at a
\* time, none was in another zone (RPiTouch_UpdateSwipe).
SwipeComplete ==
  [][/\ off' # off => route'["shutdown"] = <<3, 6, 7, 8>> /\ Holding(slot'[0])
     /\ detected' # detected => route'["restart"] = <<1, 2, 5, 8>> /\ Holding(slot'[0])]_touchVars

\* The two swipes are kept apart: no movement is on its way to both.
OneSwipe == state["restart"] = 0 \/ state["shutdown"] = 0
=============================================================================
