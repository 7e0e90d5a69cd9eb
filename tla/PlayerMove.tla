------------------------------ MODULE PlayerMove ------------------------------
(***************************************************************************)
(* Player movement (pm_shared/pm_shared.cpp), which the client runs to     *)
(* predict where the player will be: crouching, jumping, climbing and      *)
(* swimming as one command after another changes them.                     *)
(*                                                                         *)
(* A player is a box around its origin.  It has two sizes, and which one   *)
(* it has (usehull) is told by two more pieces of state: FL_DUCKING, which *)
(* is all a server's snapshot says of the size, and bInDuck, while a duck  *)
(* that was begun on the ground is not finished.                           *)
(*                                                                         *)
(* Only the vertical axis is kept: the map is a set of columns with a      *)
(* floor, a ceiling and a water surface.  How far a command moves the      *)
(* player is left open, as are speeds: a move ends anywhere the player's   *)
(* box fits, which is what PM_PlayerTrace promises.  Observers, noclip and *)
(* trains are left out.                                                    *)
(***************************************************************************)
EXTENDS Integers

CONSTANTS
  Columns,        \* places of the map
  Exits,          \* column -> columns that one command can reach
  Floor,          \* column -> height
  Ceiling,        \* column -> height
  Surface,        \* column -> height of the water
  Ladders,        \* columns with a ladder
  Mins, Maxs,     \* player_mins, player_maxs: of each box, from the origin
  Msec,           \* what one command takes from every timer
  DuckTime,       \* PM_Duck: flDuckTime when a duck begins
  DuckDone,       \* PM_Duck: flDuckTime when it is finished
  WaterJumpTime   \* PM_CheckWaterJump

Standing == 0
Ducked == 1
Hulls == {Standing, Ducked}

\* A ducked player fits wherever a standing one does, whether the origin or
\* the feet stay in place.
ASSUME HullAssumption ==
  /\ Mins \in [Hulls -> Int] /\ Maxs \in [Hulls -> Int]
  /\ Mins[Standing] <= Mins[Ducked] /\ Maxs[Ducked] <= Maxs[Standing]
  /\ \A h \in Hulls : Mins[h] <= 0 /\ 0 <= Maxs[h]
ASSUME WorldAssumption ==
  /\ Floor \in [Columns -> Int] /\ Ceiling \in [Columns -> Int]
  /\ Surface \in [Columns -> Int] /\ Exits \in [Columns -> SUBSET Columns]
  /\ \E c \in Columns : Ceiling[c] - Floor[c] >= Maxs[Standing] - Mins[Standing]
ASSUME TimeAssumption ==
  /\ Msec \in Nat \ {0}
  /\ DuckTime \in Nat /\ DuckDone \in Nat /\ WaterJumpTime \in Nat

\* How far PM_Duck lowers the origin, and PM_UnDuck raises it.
Lift == Mins[Ducked] - Mins[Standing]

VARIABLES
  pm,             \* what playermove_t carries from one command to the next
  spent           \* history: JUMP has been held ever since the last jump

vars == <<pm, spent>>

Buttons == {"duck", "jump"}
Views == {"stand", "part", "duck", "dead"}

PlayerMoves ==
  [col : Columns, z : Int,
   rising : BOOLEAN,      \* velocity[2] > 180
   ground : BOOLEAN,      \* onground # -1
   hull : Hulls,          \* usehull
   ducking : BOOLEAN,     \* FL_DUCKING
   inDuck : BOOLEAN, duckTime : Nat, view : Views,
   water : 0 .. 2,        \* waterlevel; 2 and 3 are one
   jumpTime : Nat,        \* waterjumptime
   waterJump : BOOLEAN,   \* FL_WATERJUMP
   oldDuck : BOOLEAN, oldJump : BOOLEAN,    \* oldbuttons
   dead : BOOLEAN,
   prevent : BOOLEAN,     \* PLAYER_PREVENT_DUCK in iuser3
   jumped : BOOLEAN]      \* history: the last command made the player jump

Fits(h, c, z) == Floor[c] <= z + Mins[h] /\ z + Maxs[h] <= Ceiling[c]
Clear(p) == Fits(p.hull, p.col, p.z)

-----------------------------------------------------------------------------
\* PM_CheckWater, which does nothing for the dead: a body keeps the level it
\* died with.
WaterLevel(p) ==
  IF p.z + Mins[p.hull] >= Surface[p.col] THEN 0
  ELSE IF 2 * p.z + Mins[p.hull] + Maxs[p.hull] >= 2 * Surface[p.col] THEN 1
  ELSE 2
CheckWater(p) == IF p.dead THEN p ELSE [p EXCEPT !.water = WaterLevel(p)]

\* PM_CategorizePosition
Categorized(p) ==
  LET ground == ~p.rising /\ p.z + Mins[p.hull] = Floor[p.col] IN
  [CheckWater(p) EXCEPT !.ground = ground,
                        !.jumpTime = IF ground THEN 0 ELSE @]

\* Variants with a plausible bug: each names what it forgets.
UnDucked_SmallBox(p) ==
  LET z == IF p.ground THEN p.z + Lift ELSE p.z IN
  IF ~Fits(p.hull, p.col, z) THEN p
  ELSE Categorized(
         [p EXCEPT !.z = z, !.hull = Standing, !.ducking = FALSE,
                   !.inDuck = FALSE, !.view = "stand", !.duckTime = 0])

\* PM_UnDuck: the place is tried with the box the player has, then with the
\* standing one.  A player who has only begun to duck is raised all the same.
UnDucked(p) ==
  LET z == IF p.ground THEN p.z + Lift ELSE p.z IN
  IF ~Fits(p.hull, p.col, z) THEN p
  ELSE IF ~Fits(Standing, p.col, z) THEN [p EXCEPT !.hull = Ducked]
  ELSE Categorized(
         [p EXCEPT !.z = z, !.hull = Standing, !.ducking = FALSE,
                   !.inDuck = FALSE, !.view = "stand", !.duckTime = 0])

\* PM_FixPlayerCrouchStuck: the first free height above, if there is one.
CrouchStuckFixed(p) ==
  LET free == {k \in 0 .. Maxs[Standing] : Fits(p.hull, p.col, p.z + k)} IN
  IF free = {} THEN p
  ELSE [p EXCEPT !.z = @ + CHOOSE k \in free : \A j \in free : k <= j]

\* The end of a duck: in the air the feet come up, on the ground the origin
\* goes down.
FinishDuck(p) ==
  LET q == [p EXCEPT !.hull = Ducked, !.view = "duck", !.ducking = TRUE,
                     !.inDuck = FALSE]
  IN IF ~p.ground THEN q
     ELSE Categorized(CrouchStuckFixed([q EXCEPT !.z = @ - Lift]))

DuckHeld_Again(p, pressed) ==
  LET q == IF pressed THEN [p EXCEPT !.duckTime = DuckTime, !.inDuck = TRUE]
           ELSE p
  IN IF ~q.inDuck THEN q
     ELSE IF q.duckTime <= DuckDone \/ ~q.ground THEN FinishDuck(q)
     ELSE [q EXCEPT !.view = "part"]

\* The DUCK button is down: begin, go on with or finish a duck.
DuckHeld(p, pressed) ==
  LET q == IF pressed /\ ~p.ducking
           THEN [p EXCEPT !.duckTime = DuckTime, !.inDuck = TRUE] ELSE p
  IN IF ~q.inDuck THEN q
     ELSE IF q.duckTime <= DuckDone \/ ~q.ground THEN FinishDuck(q)
     ELSE [q EXCEPT !.view = "part"]

\* PM_Duck
Duck(p, buttons) ==
  LET held == "duck" \in buttons
      q == [p EXCEPT !.oldDuck = held]
  IN IF p.prevent THEN (IF p.ducking THEN UnDucked(q) ELSE q)
     ELSE IF p.dead THEN q
     ELSE IF held THEN DuckHeld(q, ~p.oldDuck)
     ELSE IF p.inDuck \/ p.ducking THEN UnDucked(q) ELSE q

\* PM_CheckParameters
CheckParameters(p) ==
  IF ~p.dead THEN p
  ELSE IF p.inDuck THEN [UnDucked(p) EXCEPT !.inDuck = FALSE, !.view = "dead"]
  ELSE [p EXCEPT !.view = "dead"]

ReduceTimers_NoClamp(p) ==
  [p EXCEPT !.duckTime = IF @ > 0 THEN @ - Msec ELSE @]

\* PM_ReduceTimers; the timers of sounds and of stamina are left out.
Reduced(t) == IF t > Msec THEN t - Msec ELSE 0
ReduceTimers(p) == [p EXCEPT !.duckTime = Reduced(@)]

-----------------------------------------------------------------------------
\* PM_FlyMove, PM_WalkMove, PM_AirMove, PM_WaterMove and PM_Physics_Toss: the
\* box is traced to where the command moves it, or stays where it is.
Heights(c) == Floor[c] .. Ceiling[c]
Reached(p, c, r) ==
  {[p EXCEPT !.col = c, !.z = z, !.rising = r] : z \in Heights(c)}
Travels(p) ==
  {q \in UNION {Reached(p, c, r) : c \in Exits[p.col], r \in BOOLEAN} :
     Clear(q)}
    \cup {[p EXCEPT !.rising = FALSE]}

JumpFrom_Pogo(p) == [p EXCEPT !.ground = FALSE, !.jumped = TRUE]

\* PM_Jump, from the ground.
JumpFrom(p) == [p EXCEPT !.ground = FALSE, !.oldJump = TRUE, !.jumped = TRUE]

\* PM_Jump of a living player.
Jump(p) ==
  IF p.jumpTime # 0 THEN [p EXCEPT !.jumpTime = Reduced(@)]
  ELSE IF p.water = 2 THEN [p EXCEPT !.ground = FALSE]
  ELSE IF ~p.ground THEN [p EXCEPT !.oldJump = TRUE]
  ELSE IF p.oldJump \/ (p.inDuck /\ p.ducking) THEN p
  ELSE JumpFrom(p)

\* The JUMP button, which is only forgotten where it is read; a ladder out of
\* the water reads its release alone.
ReadJump(p, buttons, ladder) ==
  IF "jump" \notin buttons THEN [p EXCEPT !.oldJump = FALSE]
  ELSE IF ladder THEN p ELSE Jump(p)

\* PM_CheckWaterJump: ledge says that the player, with its eyes above the
\* water and not plunging into it, faces an edge to climb out on.
CheckWaterJump(p, ledge) ==
  IF ~ledge \/ p.jumpTime # 0 THEN p
  ELSE [p EXCEPT !.jumpTime = WaterJumpTime, !.waterJump = TRUE,
                 !.oldJump = TRUE]

\* PM_WaterJump.  The flag is cleared only by a timer that runs out, not by
\* one that ends at zero or that reaching the ground resets.
WaterJumped(p) ==
  IF p.jumpTime < Msec \/ p.water = 0
  THEN [p EXCEPT !.jumpTime = 0, !.waterJump = FALSE]
  ELSE [p EXCEPT !.jumpTime = @ - Msec]

\* PM_PlayerMove from PM_Duck on, in three parts.  A body, a climber, and
\* MOVETYPE_WALK, which leaps out of the water, swims, or walks and falls,
\* read the JUMP button,
Climbs(p, buttons) == ~p.dead /\ p.col \in Ladders /\ "jump" \notin buttons
Aimed(p, buttons) ==
  IF p.dead THEN {p}
  ELSE IF Climbs(p, buttons) THEN {ReadJump(CheckWater(p), buttons, TRUE)}
  ELSE IF p.jumpTime # 0 THEN {WaterJumped(p)}
  ELSE IF p.water = 2
  THEN {ReadJump(CheckWaterJump(p, ledge), buttons, FALSE) : ledge \in BOOLEAN}
  ELSE {ReadJump(p, buttons, p.col \in Ladders)}

\* travel, and see where they are.
Arrived(p, buttons, q) ==
  IF p.dead \/ Climbs(p, buttons) THEN q
  ELSE IF p.jumpTime # 0 THEN CheckWater(q) ELSE Categorized(q)

\* PM_PlayerMove up to PM_CheckStuck.
Begun(p) == ReduceTimers(CheckParameters([p EXCEPT !.jumped = FALSE]))

-----------------------------------------------------------------------------
Spawned(p, c, z) ==
  [p EXCEPT !.col = c, !.z = z, !.rising = FALSE, !.ground = FALSE,
            !.hull = Standing, !.ducking = FALSE, !.view = "stand",
            !.waterJump = FALSE, !.dead = FALSE, !.prevent = FALSE,
            !.jumped = FALSE]

Init ==
  /\ \E c \in Columns :
       /\ Fits(Standing, c, Floor[c] - Mins[Standing])
       /\ pm = [col |-> c, z |-> Floor[c] - Mins[Standing], rising |-> FALSE,
                ground |-> FALSE, hull |-> Standing, ducking |-> FALSE,
                inDuck |-> FALSE, duckTime |-> 0, view |-> "stand",
                water |-> 0, jumpTime |-> 0, waterJump |-> FALSE,
                oldDuck |-> FALSE, oldJump |-> FALSE, dead |-> FALSE,
                prevent |-> FALSE, jumped |-> FALSE]
  /\ spent = FALSE

\* PM_PlayerMove, for one command; a player who is stuck stays as it is.
Command(buttons) ==
  /\ \E p \in {Begun(pm)} :
       IF ~Clear(p) THEN pm' = p
       ELSE \E q \in {Duck(Categorized(p), buttons)} :
            \E r \in Aimed(q, buttons) : \E s \in Travels(r) :
              pm' = Arrived(q, buttons, s)
  /\ spent' = ("jump" \in buttons /\ (pm'.jumped \/ spent))

\* The server kills the player,
Die ==
  /\ ~pm.dead
  /\ pm' = [pm EXCEPT !.dead = TRUE, !.ground = FALSE, !.view = "dead",
                      !.jumped = FALSE]
  /\ UNCHANGED spent

\* spawns it, at the beginning of a round a living one too,
Spawn ==
  /\ \E c \in Columns :
       /\ Fits(Standing, c, Floor[c] - Mins[Standing])
       /\ pm' = Spawned(pm, c, Floor[c] - Mins[Standing])
  /\ UNCHANGED spent

\* or forbids it to duck, or no longer does.
PreventDuck ==
  /\ pm' = [pm EXCEPT !.prevent = ~@, !.jumped = FALSE]
  /\ UNCHANGED spent

Next ==
  \/ \E buttons \in SUBSET Buttons : Command(buttons)
  \/ Die
  \/ Spawn
  \/ PreventDuck

Spec == Init /\ [][Next]_vars

-----------------------------------------------------------------------------
TypeOK == pm \in PlayerMoves /\ spent \in BOOLEAN

\* The player's box is never in a wall, floor or ceiling: each of the ways to
\* change its size or to raise or lower its origin leaves it where it fits.
\* PM_CheckStuck has nothing to do in a map that does not move, nor has
\* PM_FixPlayerCrouchStuck.
NeverStuck == Clear(pm)

\* The three records of a duck agree: the box is the small one exactly when
\* FL_DUCKING is set, from which a snapshot is made (usehull), a player who
\* ducks is not in the middle of it, and one who lives and does neither sees
\* from the standing height.
DuckStateAgrees ==
  /\ pm.hull = Ducked <=> pm.ducking
  /\ ~(pm.inDuck /\ pm.ducking)
  /\ ~pm.dead => /\ pm.ducking => pm.view = "duck"
                 /\ ~pm.ducking /\ ~pm.inDuck => pm.view = "stand"

\* Holding the JUMP button makes one jump, whatever water, ladders, deaths and
\* ducks come between (oldbuttons is kept by hand, at seven places).
OneJumpPerPress == [][spent => ~pm'.jumped]_vars

\* PM_UnDuck: "stay ducked with the duck hull until we have a clear spot".  A
\* player who lives, may duck and has let the button go stands or is ducked.
DuckedOrStanding ==
  ~pm.dead /\ ~pm.prevent /\ ~pm.oldDuck => ~pm.inDuck
=============================================================================
