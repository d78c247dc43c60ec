----------------------------- MODULE MCTerminal -----------------------------
\* Two rooms and two plants on a screen of 30 rows and 100 columns.
EXTENDS Terminal

MCValues == -1 .. 1

MCSensors == [TEMP |-> {65, 66}, GROUND |-> {96, 97}]

Touch(row, col) == [row |-> ROWS - row, col |-> COLS - col]

\* The buttons that lead to another window, at places that lie under or near
\* others, and the buttons of the settings.
MCTouches ==
  {Touch(6, 12), Touch(7, 3), Touch(17, 15), Touch(22, 3), Touch(1, 3), Touch(1, 60),
   Touch(1, 70), Touch(1, 90)}
  \cup {Touch(r, c) : r \in {18, 23, 28}, c \in {22, 75}}
=============================================================================
