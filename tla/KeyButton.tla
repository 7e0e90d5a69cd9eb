------------------------------ MODULE KeyButton ------------------------------
(***************************************************************************)
(* A button of the client (kbutton_t, cl_dll/input.cpp): an action that    *)
(* several keys may be bound to.  It remembers the two keys that hold it   *)
(* down, whether it is down, and what has happened to it since it was last *)
(* sampled.                                                                *)
(***************************************************************************)
EXTENDS Integers

CONSTANTS
  Keys,           \* key numbers
  Console,        \* the command was typed: no key number
  NoKey           \* an empty place in down

ASSUME KeysAssumption == Console \notin Keys /\ NoKey \notin Keys \cup {Console}

Holders == Keys \cup {Console}

\* state: bit 1 is "down", bits 2 and 4 the impulses "pressed" and "released".
Buttons ==
  [down : [{1, 2} -> Holders \cup {NoKey}],
   state : SUBSET {"down", "pressed", "released"}]

Nobody == [i \in {1, 2} |-> NoKey]
Up == [down |-> Nobody, state |-> {}]

HeldBy(b) == {b.down[1], b.down[2]} \ {NoKey}

\* "state & 3": the button counts for the next sample.
Sampled(b) == b.state \cap {"down", "pressed"} # {}

\* Forgets to look for the key among those that hold the button already.
KeyDown_NoRepeatCheck(b, k) ==
  IF NoKey \notin {b.down[1], b.down[2]} THEN b
  ELSE [down |-> IF b.down[1] = NoKey THEN [b.down EXCEPT ![1] = k]
                                      ELSE [b.down EXCEPT ![2] = k],
        state |-> IF "down" \in b.state THEN b.state
                  ELSE b.state \cup {"down", "pressed"}]

\* A repeat, and a third key, change nothing.
KeyDown(b, k) ==
  IF k \in HeldBy(b) \/ NoKey \notin {b.down[1], b.down[2]} THEN b
  ELSE [down |-> IF b.down[1] = NoKey THEN [b.down EXCEPT ![1] = k]
                                      ELSE [b.down EXCEPT ![2] = k],
        state |-> IF "down" \in b.state THEN b.state
                  ELSE b.state \cup {"down", "pressed"}]

\* Releases the button with the first of its keys.
KeyUp_FirstKey(b, k) ==
  IF k \in HeldBy(b)
  THEN [down |-> [i \in {1, 2} |-> IF b.down[i] = k THEN NoKey ELSE b.down[i]],
        state |-> (b.state \ {"down"}) \cup {"released"}]
  ELSE b

\* The release of the last key forgets the press.
KeyUp_ForgetsPress(b, k) ==
  IF k \notin HeldBy(b) THEN b
  ELSE LET rest == [i \in {1, 2} |-> IF b.down[i] = k THEN NoKey ELSE b.down[i]]
       IN [down |-> rest,
           state |-> IF rest # Nobody THEN b.state ELSE {"released"}]

\* Typed, it unsticks the button.  The release of a key that does not hold it
\* changes nothing, and neither does a release while it is up.
KeyUp(b, k) ==
  IF k = Console THEN [down |-> Nobody, state |-> {"released"}]
  ELSE IF k \notin HeldBy(b) THEN b
  ELSE LET rest == [i \in {1, 2} |-> IF b.down[i] = k THEN NoKey ELSE b.down[i]]
       IN [down |-> rest,
           state |-> IF rest # Nobody \/ "down" \notin b.state THEN b.state
                     ELSE (b.state \ {"down"}) \cup {"released"}]

\* CL_KeyState: for how much of the frame, in quarters, the button was down.
KeyState(b) ==
  CASE {"pressed", "released"} \subseteq b.state ->
         IF "down" \in b.state THEN 3 ELSE 1
    [] "pressed" \in b.state /\ "released" \notin b.state ->
         IF "down" \in b.state THEN 2 ELSE 0
    [] "released" \in b.state /\ "pressed" \notin b.state -> 0
    [] b.state \cap {"pressed", "released"} = {} ->
         IF "down" \in b.state THEN 4 ELSE 0

\* Keeps the release for the next frame.
AfterKeyState_KeepsRelease(b) == [b EXCEPT !.state = @ \ {"pressed"}]

\* "clear impulses".
AfterKeyState(b) == [b EXCEPT !.state = @ \cap {"down"}]

\* What CL_ButtonBits(1) leaves of a button.
AfterButtonBits(b) == [b EXCEPT !.state = @ \ {"pressed"}]

\* CL_ResetButtonBits: "totally clear state", but not the keys that hold it.
Stripped(b) == [b EXCEPT !.state = {}]
=============================================================================
