------------------------------ MODULE MenuStack ------------------------------
(***************************************************************************)
(* What the client's menus promise, without saying how: which panels are   *)
(* on the screen, and which of them the keyboard belongs to.               *)
(*                                                                         *)
(* A panel opens on an empty screen and gets the keyboard.  Only the       *)
(* overlays may also appear on top of what is shown; they leave the        *)
(* keyboard to the panel that has it.  Closing any panel clears the        *)
(* screen, perhaps for a successor.                                        *)
(***************************************************************************)
CONSTANTS
  Panels,     \* the panels of the viewport
  Overlays,   \* those that may appear over another panel
  Nobody      \* no panel, not in Panels

VARIABLES
  shown,      \* panels on the screen
  focus       \* the panel that is given the keyboard

stackVars == <<shown, focus>>

StackInit == shown = {} /\ focus = Nobody

Open(p) ==
  /\ shown \subseteq {p}
  /\ shown' = {p}
  /\ focus' = p

Overlay(p) ==
  /\ p \in Overlays
  /\ shown' = shown \cup {p}
  /\ \/ UNCHANGED focus
     \/ focus = Nobody /\ focus' = p

CloseAll ==
  /\ shown' = {}
  /\ focus' = Nobody

\* A closed panel opens its successor.
Replace(p) ==
  /\ shown # {}
  /\ shown' = {p}
  /\ focus' = p

StackNext ==
  \/ CloseAll
  \/ \E p \in Panels : Open(p) \/ Overlay(p) \/ Replace(p)

StackSpec == StackInit /\ [][StackNext]_stackVars

\* The keyboard belongs to a panel one can see.
FocusIsShown == focus # Nobody => focus \in shown

\* A panel that is no overlay has the keyboard: the player can always answer
\* it, and two such panels are never on the screen together.
OrdinaryHasFocus == \A p \in shown \ Overlays : p = focus

StackInv ==
  /\ shown \subseteq Panels
  /\ FocusIsShown
  /\ OrdinaryHasFocus
=============================================================================
