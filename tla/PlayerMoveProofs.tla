--------------------------- MODULE PlayerMoveProofs ---------------------------
(***************************************************************************)
(* The properties of PlayerMove, for any map, any two boxes of which the   *)
(* small one fits where the big one does, and any times.                   *)
(*                                                                         *)
(* Good says of one playermove_t what the three state invariants say of    *)
(* pm.  Every function of pm_shared.cpp takes a good state to a good one   *)
(* and none but PM_Jump makes the player jump, so there is a lemma for     *)
(* each, and PmInv follows for the specification.                          *)
(***************************************************************************)
EXTENDS PlayerMove, TLAPS

DuckAgrees(p) ==
  /\ p.hull = Ducked <=> p.ducking
  /\ ~(p.inDuck /\ p.ducking)
  /\ ~p.dead => /\ p.ducking => p.view = "duck"
                /\ ~p.ducking /\ ~p.inDuck => p.view = "stand"

Good(p) == p \in PlayerMoves /\ Clear(p) /\ DuckAgrees(p)

\* What the functions before PM_Jump leave as it is.
SameJump(p, q) ==
  q.oldJump = p.oldJump /\ q.jumped = p.jumped /\ q.dead = p.dead

PmInv == Good(pm) /\ spent \in BOOLEAN /\ (spent => pm.oldJump)

-----------------------------------------------------------------------------
LEMMA Boxes ==
  /\ Standing = 0 /\ Ducked = 1 /\ Hulls = {0, 1}
  /\ \A h \in Hulls : Mins[h] \in Int /\ Maxs[h] \in Int
  /\ Lift \in Int
  /\ \A c \in Columns : /\ Floor[c] \in Int /\ Ceiling[c] \in Int
                        /\ Surface[c] \in Int
BY HullAssumption, WorldAssumption DEF Standing, Ducked, Hulls, Lift

\* The small box fits where the big one does, with its origin or its feet in
\* the same place.
LEMMA SmallBoxFits ==
  ASSUME NEW c \in Columns, NEW z \in Int, Fits(Standing, c, z)
  PROVE  Fits(Ducked, c, z) /\ Fits(Ducked, c, z - Lift)
<1>1. /\ Mins[Standing] \in Int /\ Mins[Ducked] \in Int
      /\ Maxs[Standing] \in Int /\ Maxs[Ducked] \in Int
      /\ Floor[c] \in Int /\ Ceiling[c] \in Int
  BY Boxes
<1>2. Mins[Standing] <= Mins[Ducked] /\ Maxs[Ducked] <= Maxs[Standing]
  BY HullAssumption
<1> QED
  BY <1>1, <1>2 DEF Fits, Lift

LEMMA WaterLevelType ==
  ASSUME NEW p \in PlayerMoves
  PROVE  WaterLevel(p) \in 0 .. 2
BY DEF WaterLevel

\* PM_CheckWater and PM_CategorizePosition see where the player is and leave
\* it there.
LEMMA CheckWaterGood ==
  ASSUME NEW p, Good(p)
  PROVE  Good(CheckWater(p)) /\ SameJump(p, CheckWater(p))
<1>1. p \in PlayerMoves /\ WaterLevel(p) \in 0 .. 2
  BY WaterLevelType DEF Good
<1> HIDE DEF WaterLevel
<1>2. PICK w \in 0 .. 2 : w = WaterLevel(p)
  BY <1>1
<1>3. CheckWater(p) \in {p, [p EXCEPT !.water = w]}
  BY <1>2 DEF CheckWater
<1>4. [p EXCEPT !.water = w] \in PlayerMoves
  BY <1>1, <1>2 DEF PlayerMoves
<1> QED
  BY <1>1, <1>3, <1>4 DEF Good, Clear, DuckAgrees, SameJump, PlayerMoves

LEMMA CategorizedGood ==
  ASSUME NEW p, Good(p)
  PROVE  Good(Categorized(p)) /\ SameJump(p, Categorized(p))
<1>1. PICK q : q = CheckWater(p)
  OBVIOUS
<1>2. Good(q) /\ SameJump(p, q)
  BY <1>1, CheckWaterGood
<1>3. PICK g \in BOOLEAN :
        g = (~p.rising /\ p.z + Mins[p.hull] = Floor[p.col])
  OBVIOUS
<1>4. Categorized(p)
        = [q EXCEPT !.ground = g, !.jumpTime = IF g THEN 0 ELSE @]
  BY <1>1, <1>3 DEF Categorized
<1>5. PICK t \in Nat : t = IF g THEN 0 ELSE q.jumpTime
  BY <1>2 DEF Good, PlayerMoves
<1>6. Categorized(p) = [q EXCEPT !.ground = g, !.jumpTime = t]
  BY <1>4, <1>5
<1>7. [q EXCEPT !.ground = g, !.jumpTime = t] \in PlayerMoves
  BY <1>2, <1>3, <1>5 DEF Good, PlayerMoves
<1> QED
  BY <1>2, <1>6, <1>7 DEF Good, Clear, DuckAgrees, SameJump, PlayerMoves

-----------------------------------------------------------------------------
\* PM_UnDuck, whichever box it starts with.
LEMMA UnDuckedGood ==
  ASSUME NEW p, Good(p)
  PROVE  /\ Good(UnDucked(p)) /\ SameJump(p, UnDucked(p))
         /\ UnDucked(p).inDuck => UnDucked(p).hull = p.hull
<1> DEFINE z == IF p.ground THEN p.z + Lift ELSE p.z
           q == [p EXCEPT !.z = z, !.hull = Standing, !.ducking = FALSE,
                          !.inDuck = FALSE, !.view = "stand", !.duckTime = 0]
<1>1. p \in PlayerMoves /\ p.col \in Columns /\ p.hull \in Hulls /\ z \in Int
  BY Boxes DEF Good, PlayerMoves
<1>2. CASE ~Fits(p.hull, p.col, z)
  BY <1>2 DEF UnDucked, SameJump
<1>3. CASE Fits(p.hull, p.col, z) /\ ~Fits(Standing, p.col, z)
  <2>1. p.hull = Ducked
    BY <1>1, <1>3 DEF Hulls
  <2>2. UnDucked(p) = [p EXCEPT !.hull = Ducked]
    BY <1>3 DEF UnDucked
  <2>3. [p EXCEPT !.hull = Ducked] = p
    BY <1>1, <2>1 DEF PlayerMoves
  <2> QED
    BY <2>2, <2>3 DEF SameJump
<1>4. CASE Fits(Standing, p.col, z) /\ Fits(p.hull, p.col, z)
  <2>1. UnDucked(p) = Categorized(q)
    BY <1>4 DEF UnDucked
  <2>2. PICK y \in Int : y = z
    BY <1>1
  <2>3. q = [p EXCEPT !.z = y, !.hull = Standing, !.ducking = FALSE,
                      !.inDuck = FALSE, !.view = "stand", !.duckTime = 0]
    BY <2>2
  <2> HIDE DEF q
  <2>4. q \in PlayerMoves
    BY <1>1, <2>3, Boxes DEF PlayerMoves, Views
  <2>5. q.hull = Standing /\ q.col = p.col /\ q.z = z
    BY <1>1, <2>2, <2>3 DEF PlayerMoves
  <2>6. Clear(q)
    BY <1>4, <2>5 DEF Clear
  <2>7. DuckAgrees(q) /\ ~q.inDuck /\ SameJump(p, q)
    BY <1>1, <2>3, Boxes DEF DuckAgrees, PlayerMoves, SameJump
  <2>8. Good(q)
    BY <2>4, <2>6, <2>7 DEF Good
  <2>9. Good(Categorized(q)) /\ SameJump(q, Categorized(q))
    BY <2>8, CategorizedGood
  <2>10. Categorized(q).inDuck = q.inDuck
    <3>1. CheckWater(q) \in PlayerMoves /\ CheckWater(q).inDuck = q.inDuck
      BY <2>8, <2>4, CheckWaterGood DEF CheckWater, PlayerMoves, Good
    <3> QED
      BY <3>1 DEF Categorized, PlayerMoves
  <2> QED
    BY <2>1, <2>7, <2>9, <2>10 DEF SameJump
<1> QED
  BY <1>2, <1>3, <1>4

\* PM_FixPlayerCrouchStuck finds nothing to fix.
LEMMA NothingToFix ==
  ASSUME NEW p \in PlayerMoves, Clear(p)
  PROVE  CrouchStuckFixed(p) = p
<1> DEFINE free == {k \in 0 .. Maxs[Standing] : Fits(p.hull, p.col, p.z + k)}
<1>1. p.z \in Int /\ p.z + 0 = p.z
  BY DEF PlayerMoves
<1>2. 0 \in free
  BY <1>1, HullAssumption, Boxes DEF Clear
<1>3. \A j \in free : j \in Nat /\ 0 <= j
  BY Boxes
<1>4. PICK k : k = CHOOSE i \in free : \A j \in free : i <= j
  OBVIOUS
<1>5. k \in free /\ \A j \in free : k <= j
  BY <1>2, <1>3, <1>4
<1>6. k = 0
  BY <1>2, <1>3, <1>5
<1>7. CrouchStuckFixed(p) = [p EXCEPT !.z = @ + k]
  BY <1>2, <1>4 DEF CrouchStuckFixed
<1> QED
  BY <1>1, <1>6, <1>7 DEF PlayerMoves

\* The end of a duck, which starts with the standing box.
LEMMA FinishDuckGood ==
  ASSUME NEW p, p \in PlayerMoves, Clear(p), p.hull = Standing
  PROVE  Good(FinishDuck(p)) /\ SameJump(p, FinishDuck(p))
<1> DEFINE q == [p EXCEPT !.hull = Ducked, !.view = "duck", !.ducking = TRUE,
                          !.inDuck = FALSE]
           r == [q EXCEPT !.z = @ - Lift]
<1>1. q \in PlayerMoves /\ q.col \in Columns /\ p.z \in Int /\ q.z = p.z
  BY Boxes DEF PlayerMoves, Views
<1>2. q.hull = Ducked /\ q.col = p.col /\ DuckAgrees(q) /\ SameJump(p, q)
  BY Boxes DEF PlayerMoves, DuckAgrees, SameJump
<1>3. Fits(Ducked, p.col, p.z) /\ Fits(Ducked, p.col, p.z - Lift)
  BY <1>1, <1>2, SmallBoxFits DEF Clear
<1>4. CASE ~p.ground
  BY <1>1, <1>2, <1>3, <1>4 DEF FinishDuck, Good, Clear
<1>5. CASE p.ground
  <2>1. PICK z \in Int : z = p.z - Lift
    BY <1>1, Boxes
  <2>2. r = [q EXCEPT !.z = z]
    BY <1>1, <2>1
  <2> HIDE DEF r, q
  <2>3. r \in PlayerMoves /\ r.hull = q.hull /\ r.col = q.col /\ r.z = z
    BY <1>1, <2>2 DEF PlayerMoves
  <2>4. Clear(r)
    BY <1>2, <1>3, <2>1, <2>3 DEF Clear
  <2>5. DuckAgrees(r) /\ SameJump(p, r)
    BY <1>1, <1>2, <2>2 DEF DuckAgrees, SameJump, PlayerMoves
  <2>6. FinishDuck(p) = Categorized(CrouchStuckFixed(r))
    BY <1>5 DEF FinishDuck, q, r
  <2>7. FinishDuck(p) = Categorized(r)
    BY <2>3, <2>4, <2>6, NothingToFix
  <2>8. Good(Categorized(r)) /\ SameJump(r, Categorized(r))
    BY <2>3, <2>4, <2>5, CategorizedGood DEF Good
  <2> QED
    BY <2>5, <2>7, <2>8 DEF SameJump
<1> QED
  BY <1>4, <1>5

\* PM_Duck, with the DUCK button down,
LEMMA DuckHeldGood ==
  ASSUME NEW p, Good(p), NEW pressed \in BOOLEAN
  PROVE  Good(DuckHeld(p, pressed)) /\ SameJump(p, DuckHeld(p, pressed))
<1> DEFINE q == IF pressed /\ ~p.ducking
                THEN [p EXCEPT !.duckTime = DuckTime, !.inDuck = TRUE] ELSE p
<1>1. q \in PlayerMoves /\ SameJump(p, q)
  BY TimeAssumption DEF Good, PlayerMoves, SameJump
<1>2. Clear(q)
  BY DEF Good, Clear, PlayerMoves
<1>3. DuckAgrees(q)
  BY DEF Good, DuckAgrees, PlayerMoves
<1>4. q.inDuck => q.hull = Standing
  BY <1>1, <1>3, Boxes DEF DuckAgrees, PlayerMoves
<1> HIDE DEF q
<1>5. CASE ~q.inDuck
  <2>1. DuckHeld(p, pressed) = q
    BY <1>5 DEF DuckHeld, q
  <2> QED
    BY <2>1, <1>1, <1>2, <1>3 DEF Good
<1>6. CASE q.inDuck /\ (q.duckTime <= DuckDone \/ ~q.ground)
  <2>1. DuckHeld(p, pressed) = FinishDuck(q)
    BY <1>6 DEF DuckHeld, q
  <2>2. Good(FinishDuck(q)) /\ SameJump(q, FinishDuck(q))
    BY <1>1, <1>2, <1>4, <1>6, FinishDuckGood
  <2> QED
    BY <2>1, <2>2, <1>1 DEF SameJump
<1>7. CASE q.inDuck /\ ~(q.duckTime <= DuckDone \/ ~q.ground)
  <2>1. DuckHeld(p, pressed) = [q EXCEPT !.view = "part"]
    BY <1>7 DEF DuckHeld, q
  <2>2. [q EXCEPT !.view = "part"] \in PlayerMoves
    BY <1>1 DEF PlayerMoves, Views
  <2>3. Clear([q EXCEPT !.view = "part"])
    BY <1>1, <1>2 DEF Clear, PlayerMoves
  <2>4. DuckAgrees([q EXCEPT !.view = "part"])
    BY <1>1, <1>3, <1>7 DEF DuckAgrees, PlayerMoves
  <2> QED
    BY <1>1, <2>1, <2>2, <2>3, <2>4 DEF Good, SameJump, PlayerMoves
<1> QED
  BY <1>5, <1>6, <1>7

\* and whatever is down.
LEMMA DuckGood ==
  ASSUME NEW p, Good(p), NEW buttons
  PROVE  Good(Duck(p, buttons)) /\ SameJump(p, Duck(p, buttons))
<1>0. PICK h \in BOOLEAN : h = ("duck" \in buttons)
  <2>1. ("duck" \in buttons) \in BOOLEAN
    OBVIOUS
  <2> QED
    BY <2>1, Zenon
<1> DEFINE q == [p EXCEPT !.oldDuck = "duck" \in buttons]
<1>1. q \in PlayerMoves /\ SameJump(p, q)
  <2>1. q = [p EXCEPT !.oldDuck = h]
    BY <1>0
  <2> HIDE DEF q
  <2> QED
    BY <2>1 DEF Good, PlayerMoves, SameJump
<1>2. Clear(q) /\ DuckAgrees(q)
  BY DEF Good, Clear, DuckAgrees, PlayerMoves
<1>3. Good(q)
  BY <1>1, <1>2 DEF Good
<1> HIDE DEF q
<1>4. Good(UnDucked(q)) /\ SameJump(q, UnDucked(q))
  BY <1>3, UnDuckedGood
<1>5. PICK pressed \in BOOLEAN : pressed = ~p.oldDuck
  OBVIOUS
<1>6. Good(DuckHeld(q, pressed)) /\ SameJump(q, DuckHeld(q, pressed))
  BY <1>3, DuckHeldGood
<1>7. Duck(p, buttons) \in {q, UnDucked(q), DuckHeld(q, pressed)}
  BY <1>5 DEF Duck, q
<1> QED
  BY <1>1, <1>3, <1>4, <1>6, <1>7 DEF SameJump

LEMMA CheckParametersGood ==
  ASSUME NEW p, Good(p)
  PROVE  Good(CheckParameters(p)) /\ SameJump(p, CheckParameters(p))
<1>1. CASE ~p.dead
  BY <1>1 DEF CheckParameters, SameJump
<1>2. CASE p.dead /\ p.inDuck
  <2>1. PICK u : u = UnDucked(p)
    OBVIOUS
  <2>2. Good(u) /\ SameJump(p, u)
    BY <2>1, UnDuckedGood
  <2>3. CheckParameters(p) = [u EXCEPT !.inDuck = FALSE, !.view = "dead"]
    BY <1>2, <2>1 DEF CheckParameters
  <2>4. [u EXCEPT !.inDuck = FALSE, !.view = "dead"] \in PlayerMoves
    BY <2>2 DEF Good, PlayerMoves, Views
  <2> QED
    BY <1>2, <2>2, <2>3, <2>4 DEF Good, Clear, DuckAgrees, SameJump, PlayerMoves
<1>3. CASE p.dead /\ ~p.inDuck
  <2>1. CheckParameters(p) = [p EXCEPT !.view = "dead"]
    BY <1>3 DEF CheckParameters
  <2>2. [p EXCEPT !.view = "dead"] \in PlayerMoves
    BY DEF Good, PlayerMoves, Views
  <2> QED
    BY <1>3, <2>1, <2>2 DEF Good, Clear, DuckAgrees, SameJump, PlayerMoves
<1> QED
  BY <1>1, <1>2, <1>3

LEMMA ReducedType ==
  ASSUME NEW t \in Nat
  PROVE  Reduced(t) \in Nat
BY TimeAssumption DEF Reduced

\* A change of nothing that Good speaks of.
SameBody(p, q) ==
  /\ q.col = p.col /\ q.z = p.z /\ q.hull = p.hull /\ q.dead = p.dead
  /\ q.ducking = p.ducking /\ q.inDuck = p.inDuck /\ q.view = p.view

LEMMA SameBodyGood ==
  ASSUME NEW p, NEW q \in PlayerMoves, Good(p), SameBody(p, q)
  PROVE  Good(q)
BY DEF Good, Clear, DuckAgrees, SameBody

LEMMA BegunGood ==
  ASSUME NEW p, Good(p)
  PROVE  /\ Good(Begun(p)) /\ ~Begun(p).jumped
         /\ Begun(p).oldJump = p.oldJump
<1> DEFINE q == [p EXCEPT !.jumped = FALSE]
<1>1. q \in PlayerMoves /\ SameBody(p, q) /\ ~q.jumped /\ q.oldJump = p.oldJump
  BY DEF Good, PlayerMoves, SameBody
<1>2. Good(q)
  BY <1>1, SameBodyGood
<1> HIDE DEF q
<1>3. PICK r : r = CheckParameters(q)
  OBVIOUS
<1>4. Good(r) /\ SameJump(q, r)
  BY <1>2, <1>3, CheckParametersGood
<1>5. PICK t \in Nat : t = Reduced(r.duckTime)
  BY <1>4, ReducedType DEF Good, PlayerMoves
<1>6. Begun(p) = [r EXCEPT !.duckTime = t]
  BY <1>3, <1>5 DEF Begun, ReduceTimers, q
<1>7. [r EXCEPT !.duckTime = t] \in PlayerMoves
  BY <1>4 DEF Good, PlayerMoves
<1>8. SameBody(r, Begun(p)) /\ SameJump(r, Begun(p))
  BY <1>4, <1>6 DEF Good, PlayerMoves, SameBody, SameJump
<1> QED
  BY <1>1, <1>4, <1>6, <1>7, <1>8, SameBodyGood DEF SameJump

-----------------------------------------------------------------------------
\* A move ends where the box fits.
LEMMA TravelsGood ==
  ASSUME NEW p, Good(p), NEW q \in Travels(p)
  PROVE  Good(q) /\ SameJump(p, q)
<1>1. p \in PlayerMoves /\ p.col \in Columns
  BY DEF Good, PlayerMoves
<1>2. CASE q = [p EXCEPT !.rising = FALSE]
  BY <1>1, <1>2 DEF Good, Clear, DuckAgrees, SameJump, PlayerMoves
<1>3. CASE /\ q \in UNION {Reached(p, c, r) : c \in Exits[p.col], r \in BOOLEAN}
          /\ Clear(q)
  <2>1. PICK c \in Exits[p.col], z \in Int, r \in BOOLEAN :
          q = [p EXCEPT !.col = c, !.z = z, !.rising = r]
    <3>1. PICK c \in Exits[p.col], r \in BOOLEAN : q \in Reached(p, c, r)
      BY <1>3
    <3>2. c \in Columns
      BY <1>1, WorldAssumption
    <3>3. Heights(c) \subseteq Int
      BY <3>2, Boxes DEF Heights
    <3>4. PICK z \in Heights(c) :
            q = [p EXCEPT !.col = c, !.z = z, !.rising = r]
      BY <3>1 DEF Reached
    <3> QED
      BY <3>3, <3>4
  <2>2. c \in Columns
    BY <1>1, WorldAssumption
  <2>3. q \in PlayerMoves
    BY <1>1, <2>1, <2>2 DEF PlayerMoves
  <2>4. DuckAgrees(q) /\ SameJump(p, q)
    BY <1>1, <2>1 DEF Good, DuckAgrees, SameJump, PlayerMoves
  <2> QED
    BY <1>3, <2>3, <2>4 DEF Good
<1> QED
  BY <1>2, <1>3 DEF Travels

\* What reading the JUMP button while it is held may do to a player who has
\* not jumped.
OneJump(p, q) ==
  /\ q.dead = p.dead
  /\ p.oldJump => q.oldJump /\ ~q.jumped
  /\ q.jumped => q.oldJump

LEMMA JumpGood ==
  ASSUME NEW p, Good(p), ~p.jumped
  PROVE  Good(Jump(p)) /\ OneJump(p, Jump(p))
<1>1. p \in PlayerMoves
  BY DEF Good
<1>2. PICK t \in Nat : t = Reduced(p.jumpTime)
  BY <1>1, ReducedType DEF PlayerMoves
<1>3. CASE p.jumpTime # 0
  <2>1. Jump(p) = [p EXCEPT !.jumpTime = t]
    BY <1>2, <1>3 DEF Jump
  <2>2. Jump(p) \in PlayerMoves /\ SameBody(p, Jump(p)) /\ OneJump(p, Jump(p))
    BY <1>1, <2>1 DEF PlayerMoves, SameBody, OneJump
  <2> QED
    BY <2>2, SameBodyGood
<1>4. CASE p.jumpTime = 0 /\ ~(~p.oldJump /\ Jump(p) = JumpFrom(p))
  <2>1. Jump(p) \in {p, [p EXCEPT !.ground = FALSE], [p EXCEPT !.oldJump = TRUE]}
    BY <1>4 DEF Jump
  <2>2. Jump(p) \in PlayerMoves /\ SameBody(p, Jump(p)) /\ OneJump(p, Jump(p))
    BY <1>1, <2>1 DEF PlayerMoves, SameBody, OneJump
  <2> QED
    BY <2>2, SameBodyGood
<1>5. CASE ~p.oldJump /\ Jump(p) = JumpFrom(p)
  <2>1. Jump(p) \in PlayerMoves /\ SameBody(p, Jump(p)) /\ OneJump(p, Jump(p))
    BY <1>1, <1>5 DEF PlayerMoves, SameBody, OneJump, JumpFrom
  <2> QED
    BY <2>1, SameBodyGood
<1> QED
  BY <1>3, <1>4, <1>5

\* The same of every way a command reads the button, for a button that may
\* be up.
LEMMA ReadJumpGood ==
  ASSUME NEW p, Good(p), ~p.jumped, NEW buttons, NEW ladder
  PROVE  /\ Good(ReadJump(p, buttons, ladder))
         /\ "jump" \in buttons => OneJump(p, ReadJump(p, buttons, ladder))
<1>1. CASE "jump" \notin buttons
  <2>1. ReadJump(p, buttons, ladder) = [p EXCEPT !.oldJump = FALSE]
    BY <1>1 DEF ReadJump
  <2>2. [p EXCEPT !.oldJump = FALSE] \in PlayerMoves
    BY DEF Good, PlayerMoves
  <2>3. SameBody(p, [p EXCEPT !.oldJump = FALSE])
    BY DEF Good, PlayerMoves, SameBody
  <2> QED
    BY <1>1, <2>1, <2>2, <2>3, SameBodyGood
<1>2. CASE "jump" \in buttons
  <2>1. ReadJump(p, buttons, ladder) \in {p, Jump(p)}
    BY <1>2 DEF ReadJump
  <2> QED
    BY <2>1, JumpGood DEF OneJump
<1> QED
  BY <1>1, <1>2

LEMMA CheckWaterJumpGood ==
  ASSUME NEW p, Good(p), ~p.jumped, NEW ledge
  PROVE  LET q == CheckWaterJump(p, ledge) IN
         Good(q) /\ ~q.jumped /\ q.dead = p.dead /\ (p.oldJump => q.oldJump)
<1> DEFINE q == [p EXCEPT !.jumpTime = WaterJumpTime, !.waterJump = TRUE,
                          !.oldJump = TRUE]
<1>1. q \in PlayerMoves /\ SameBody(p, q) /\ ~q.jumped /\ q.oldJump
  BY TimeAssumption DEF Good, PlayerMoves, SameBody
<1>2. Good(q)
  BY <1>1, SameBodyGood
<1>3. CheckWaterJump(p, ledge) \in {p, q}
  BY DEF CheckWaterJump
<1> HIDE DEF q
<1> QED
  BY <1>1, <1>2, <1>3 DEF SameBody

LEMMA WaterJumpedGood ==
  ASSUME NEW p, Good(p)
  PROVE  Good(WaterJumped(p)) /\ SameJump(p, WaterJumped(p))
<1>1. p \in PlayerMoves
  BY DEF Good
<1>2. CASE p.jumpTime < Msec \/ p.water = 0
  <2>1. WaterJumped(p) = [p EXCEPT !.jumpTime = 0, !.waterJump = FALSE]
    BY <1>2 DEF WaterJumped
  <2>2. [p EXCEPT !.jumpTime = 0, !.waterJump = FALSE] \in PlayerMoves
    BY <1>1 DEF PlayerMoves
  <2>3. /\ SameBody(p, [p EXCEPT !.jumpTime = 0, !.waterJump = FALSE])
        /\ SameJump(p, [p EXCEPT !.jumpTime = 0, !.waterJump = FALSE])
    BY <1>1 DEF PlayerMoves, SameBody, SameJump
  <2> QED
    BY <2>1, <2>2, <2>3, SameBodyGood
<1>3. CASE ~(p.jumpTime < Msec \/ p.water = 0)
  <2>1. PICK t \in Nat : t = p.jumpTime - Msec
    BY <1>1, <1>3, TimeAssumption DEF PlayerMoves
  <2>2. WaterJumped(p) = [p EXCEPT !.jumpTime = t]
    BY <1>3, <2>1 DEF WaterJumped
  <2>3. [p EXCEPT !.jumpTime = t] \in PlayerMoves
    BY <1>1 DEF PlayerMoves
  <2>4. /\ SameBody(p, [p EXCEPT !.jumpTime = t])
        /\ SameJump(p, [p EXCEPT !.jumpTime = t])
    BY <1>1 DEF PlayerMoves, SameBody, SameJump
  <2> QED
    BY <2>2, <2>3, <2>4, SameBodyGood
<1> QED
  BY <1>2, <1>3

\* A turn of the command that has a player jump at most once, and not at all
\* while the button stays down.
Turned(p, buttons, q) ==
  /\ Good(q)
  /\ q.jumped => q.oldJump /\ "jump" \in buttons /\ ~p.oldJump
  /\ "jump" \in buttons /\ p.oldJump => q.oldJump

LEMMA ReadJumpTurned ==
  ASSUME NEW p, Good(p), ~p.jumped, NEW buttons, NEW ladder
  PROVE  Turned(p, buttons, ReadJump(p, buttons, ladder))
<1>1. "jump" \notin buttons => ~ReadJump(p, buttons, ladder).jumped
  BY DEF ReadJump, Good, PlayerMoves
<1> QED
  BY <1>1, ReadJumpGood DEF Turned, OneJump

LEMMA AimedTurned ==
  ASSUME NEW p, Good(p), ~p.jumped, NEW buttons, NEW q \in Aimed(p, buttons)
  PROVE  Turned(p, buttons, q)
<1>1. CASE q = p
  BY <1>1 DEF Turned
<1>2. CASE q = ReadJump(CheckWater(p), buttons, TRUE)
  <2>1. PICK w : w = CheckWater(p)
    OBVIOUS
  <2>2. Good(w) /\ SameJump(p, w)
    BY <2>1, CheckWaterGood
  <2>3. Turned(w, buttons, ReadJump(w, buttons, TRUE))
    BY <2>2, ReadJumpTurned DEF SameJump
  <2> QED
    BY <1>2, <2>1, <2>2, <2>3 DEF Turned, SameJump
<1>3. CASE q = WaterJumped(p)
  BY <1>3, WaterJumpedGood DEF Turned, SameJump
<1>4. ASSUME NEW ledge \in BOOLEAN,
             q = ReadJump(CheckWaterJump(p, ledge), buttons, FALSE)
      PROVE  Turned(p, buttons, q)
  <2>1. PICK w : w = CheckWaterJump(p, ledge)
    OBVIOUS
  <2>2. Good(w) /\ ~w.jumped /\ w.dead = p.dead /\ (p.oldJump => w.oldJump)
    BY <2>1, CheckWaterJumpGood
  <2>3. Turned(w, buttons, ReadJump(w, buttons, FALSE))
    BY <2>2, ReadJumpTurned
  <2> QED
    BY <1>4, <2>1, <2>2, <2>3 DEF Turned
<1>5. CASE q = ReadJump(p, buttons, p.col \in Ladders)
  BY <1>5, ReadJumpTurned
<1>6. \/ q = p
      \/ q = ReadJump(CheckWater(p), buttons, TRUE)
      \/ q = WaterJumped(p)
      \/ \E ledge \in BOOLEAN :
           q = ReadJump(CheckWaterJump(p, ledge), buttons, FALSE)
      \/ q = ReadJump(p, buttons, p.col \in Ladders)
  BY DEF Aimed
<1> QED
  BY <1>1, <1>2, <1>3, <1>4, <1>5, <1>6

LEMMA ArrivedGood ==
  ASSUME NEW p, NEW buttons, NEW q, Good(q)
  PROVE  Good(Arrived(p, buttons, q)) /\ SameJump(q, Arrived(p, buttons, q))
<1>1. Arrived(p, buttons, q) \in {q, CheckWater(q), Categorized(q)}
  BY DEF Arrived
<1> QED
  BY <1>1, CheckWaterGood, CategorizedGood DEF SameJump

-----------------------------------------------------------------------------
LEMMA InitPmInv ==
  Init => PmInv
<1> SUFFICES ASSUME Init
             PROVE  PmInv
  OBVIOUS
<1>1. PICK c \in Columns :
        /\ Fits(Standing, c, Floor[c] - Mins[Standing])
        /\ pm = [col |-> c, z |-> Floor[c] - Mins[Standing], rising |-> FALSE,
                 ground |-> FALSE, hull |-> Standing, ducking |-> FALSE,
                 inDuck |-> FALSE, duckTime |-> 0, view |-> "stand",
                 water |-> 0, jumpTime |-> 0, waterJump |-> FALSE,
                 oldDuck |-> FALSE, oldJump |-> FALSE, dead |-> FALSE,
                 prevent |-> FALSE, jumped |-> FALSE]
  BY DEF Init
<1>2. PICK z \in Int : z = Floor[c] - Mins[Standing]
  BY Boxes
<1>3. pm \in PlayerMoves
  BY <1>1, <1>2, Boxes DEF PlayerMoves, Views
<1>4. Clear(pm) /\ DuckAgrees(pm)
  BY <1>1, Boxes DEF Clear, DuckAgrees
<1> QED
  BY <1>3, <1>4 DEF Init, PmInv, Good

LEMMA CommandPmInv ==
  ASSUME PmInv, NEW buttons \in SUBSET Buttons, Command(buttons)
  PROVE  PmInv' /\ (spent => ~pm'.jumped)
<1>1. PICK p : p = Begun(pm)
  OBVIOUS
<1>2. Good(p) /\ ~p.jumped /\ p.oldJump = pm.oldJump
  BY <1>1, BegunGood DEF PmInv
<1>3. PICK q : q = Duck(Categorized(p), buttons)
  OBVIOUS
<1>4. Good(q) /\ SameJump(p, q)
  <2>1. PICK r : r = Categorized(p)
    OBVIOUS
  <2>2. Good(r) /\ SameJump(p, r)
    BY <1>2, <2>1, CategorizedGood
  <2> QED
    BY <1>3, <2>1, <2>2, DuckGood DEF SameJump
<1>5. PICK r \in Aimed(q, buttons) :
        \E s \in Travels(r) : pm' = Arrived(q, buttons, s)
  BY <1>1, <1>2, <1>3 DEF Command, Good
<1>6. Turned(q, buttons, r)
  BY <1>2, <1>4, AimedTurned DEF SameJump
<1>7. PICK s \in Travels(r) : pm' = Arrived(q, buttons, s)
  BY <1>5
<1>8. Good(s) /\ SameJump(r, s)
  BY <1>6, TravelsGood DEF Turned
<1>9. Good(pm') /\ SameJump(s, pm')
  BY <1>7, <1>8, ArrivedGood
<1>10. /\ pm'.jumped => pm'.oldJump /\ "jump" \in buttons /\ ~pm.oldJump
       /\ "jump" \in buttons /\ pm.oldJump => pm'.oldJump
  BY <1>2, <1>4, <1>6, <1>8, <1>9 DEF SameJump, Turned
<1>11. spent' = ("jump" \in buttons /\ (pm'.jumped \/ spent))
  BY DEF Command
<1>12. spent' \in BOOLEAN
  BY <1>11
<1>13. spent' => pm'.oldJump
  <2>1. spent' => "jump" \in buttons /\ (pm'.jumped \/ spent)
    BY <1>11, Zenon
  <2>2. spent => pm.oldJump
    BY Zenon DEF PmInv
  <2> QED
    BY <1>10, <2>1, <2>2, Zenon
<1>14. spent => ~pm'.jumped
  <2>1. spent => pm.oldJump
    BY Zenon DEF PmInv
  <2> QED
    BY <1>10, <2>1, Zenon
<1>15. PmInv'
  BY <1>9, <1>12, <1>13 DEF PmInv, Good, Clear, DuckAgrees
<1> QED
  BY <1>14, <1>15

LEMMA DiePmInv ==
  ASSUME PmInv, Die
  PROVE  PmInv' /\ ~pm'.jumped
<1>1. pm \in PlayerMoves /\ Clear(pm) /\ DuckAgrees(pm)
  BY DEF PmInv, Good
<1>2. pm' = [pm EXCEPT !.dead = TRUE, !.ground = FALSE, !.view = "dead",
                       !.jumped = FALSE]
  BY DEF Die
<1>3. pm' \in PlayerMoves
  BY <1>1, <1>2 DEF PlayerMoves, Views
<1>4. Clear(pm') /\ DuckAgrees(pm') /\ ~pm'.jumped /\ pm'.oldJump = pm.oldJump
  BY <1>1, <1>2 DEF Clear, DuckAgrees, PlayerMoves
<1> QED
  BY <1>3, <1>4 DEF Die, PmInv, Good, Clear, DuckAgrees

LEMMA SpawnPmInv ==
  ASSUME PmInv, Spawn
  PROVE  PmInv' /\ ~pm'.jumped
<1>1. pm \in PlayerMoves
  BY DEF PmInv, Good
<1>2. PICK c \in Columns :
        /\ Fits(Standing, c, Floor[c] - Mins[Standing])
        /\ pm' = Spawned(pm, c, Floor[c] - Mins[Standing])
  BY DEF Spawn
<1>3. PICK z \in Int : z = Floor[c] - Mins[Standing]
  BY Boxes
<1>4. pm' = Spawned(pm, c, z)
  BY <1>2, <1>3
<1>5. pm' \in PlayerMoves
  <2>1. [pm EXCEPT !.col = c, !.z = z, !.rising = FALSE, !.ground = FALSE]
          \in PlayerMoves
    BY <1>1 DEF PlayerMoves
  <2>2. PICK q \in PlayerMoves :
          q = [pm EXCEPT !.col = c, !.z = z, !.rising = FALSE, !.ground = FALSE]
    BY <2>1
  <2>3. PICK h \in Hulls, v \in Views : h = Standing /\ v = "stand"
    BY Boxes DEF Views
  <2>4. [q EXCEPT !.hull = h, !.ducking = FALSE, !.view = v] \in PlayerMoves
    BY DEF PlayerMoves
  <2>5. PICK r \in PlayerMoves :
          r = [q EXCEPT !.hull = h, !.ducking = FALSE, !.view = v]
    BY <2>4
  <2>6. [r EXCEPT !.waterJump = FALSE, !.dead = FALSE, !.prevent = FALSE,
                  !.jumped = FALSE] \in PlayerMoves
    BY DEF PlayerMoves
  <2>7. pm' = [r EXCEPT !.waterJump = FALSE, !.dead = FALSE, !.prevent = FALSE,
                        !.jumped = FALSE]
    BY <1>4, <2>2, <2>3, <2>5 DEF Spawned
  <2> QED
    BY <2>6, <2>7
<1>6. pm'.hull = Standing /\ pm'.col = c /\ pm'.z = z
  BY <1>1, <1>4 DEF Spawned, PlayerMoves
<1>7. Clear(pm')
  BY <1>2, <1>3, <1>6 DEF Clear
<1>8. DuckAgrees(pm') /\ ~pm'.jumped /\ pm'.oldJump = pm.oldJump
  BY <1>1, <1>4, Boxes DEF DuckAgrees, Spawned, PlayerMoves
<1> QED
  BY <1>5, <1>7, <1>8 DEF Spawn, PmInv, Good, Clear, DuckAgrees

LEMMA PreventDuckPmInv ==
  ASSUME PmInv, PreventDuck
  PROVE  PmInv' /\ ~pm'.jumped
<1>1. pm \in PlayerMoves /\ Clear(pm) /\ DuckAgrees(pm)
  BY DEF PmInv, Good
<1>2. PICK b \in BOOLEAN : b = ~pm.prevent
  OBVIOUS
<1>3. pm' = [pm EXCEPT !.prevent = b, !.jumped = FALSE]
  BY <1>2 DEF PreventDuck
<1>4. pm' \in PlayerMoves
  BY <1>1, <1>3 DEF PlayerMoves
<1>5. Clear(pm') /\ DuckAgrees(pm') /\ ~pm'.jumped /\ pm'.oldJump = pm.oldJump
  BY <1>1, <1>3 DEF Clear, DuckAgrees, PlayerMoves
<1> QED
  BY <1>4, <1>5 DEF PreventDuck, PmInv, Good, Clear, DuckAgrees

LEMMA NextPmInv ==
  ASSUME PmInv, [Next]_vars
  PROVE  PmInv'
<1>1. CASE UNCHANGED vars
  BY <1>1 DEF vars, PmInv, Good, Clear, DuckAgrees
<1>2. CASE Next
  BY <1>2, CommandPmInv, DiePmInv, SpawnPmInv, PreventDuckPmInv DEF Next
<1> QED
  BY <1>1, <1>2

-----------------------------------------------------------------------------
\* The inductive invariant: a good playermove_t, in which a JUMP button that
\* is still held since the last jump is held in oldbuttons too.
THEOREM PmInvHolds == Spec => []PmInv
<1>1. PmInv /\ [Next]_vars => PmInv'
  BY NextPmInv
<1> QED
  BY <1>1, InitPmInv, PTL DEF Spec

\* The state of playermove_t is in its domain, its timers never below zero.
THEOREM TypeCorrect == Spec => []TypeOK
<1>1. PmInv => TypeOK
  BY DEF PmInv, Good, TypeOK
<1> QED
  BY <1>1, PmInvHolds, PTL

\* PM_UnDuck, PM_Duck and a spawn leave the player's box in free space, in
\* any map and for any two boxes of which the small one fits where the big
\* one does.
THEOREM NeverStuckCorrect == Spec => []NeverStuck
<1>1. PmInv => NeverStuck
  BY DEF PmInv, Good, NeverStuck
<1> QED
  BY <1>1, PmInvHolds, PTL

\* usehull, FL_DUCKING, bInDuck and the height of the eyes agree after every
\* command, death, spawn and ban of ducking.
THEOREM DuckStateCorrect == Spec => []DuckStateAgrees
<1>1. PmInv => DuckStateAgrees
  BY DEF PmInv, Good, DuckAgrees, DuckStateAgrees
<1> QED
  BY <1>1, PmInvHolds, PTL

\* The JUMP button, held, makes one jump: oldbuttons forgets it nowhere
\* before it is released.
THEOREM OneJumpCorrect == Spec => OneJumpPerPress
<1>1. PmInv /\ [Next]_vars => [spent => ~pm'.jumped]_vars
  <2> SUFFICES ASSUME PmInv, [Next]_vars, vars' # vars
               PROVE  spent => ~pm'.jumped
    BY DEF vars
  <2>1. Next
    BY DEF vars
  <2> QED
    BY <2>1, CommandPmInv, DiePmInv, SpawnPmInv, PreventDuckPmInv DEF Next
<1> QED
  BY <1>1, PmInvHolds, PTL DEF Spec, OneJumpPerPress
=============================================================================
