----------------------------- MODULE MCPlayerMove -----------------------------
(***************************************************************************)
(* Heights in units of 9 inches: a standing player is 8 high, a ducked one *)
(* 5.  A hall, a room in which a player can stand and not be raised, a     *)
(* tunnel for the ducked, and a pool with a ladder.                        *)
(***************************************************************************)
EXTENDS PlayerMove

MCColumns == {"hall", "room", "tunnel", "pool"}
MCExits == [c \in MCColumns |->
              IF c = "hall" THEN MCColumns ELSE {c, "hall"}]
MCFloor == [c \in MCColumns |-> IF c = "pool" THEN -3 ELSE 0]
MCCeiling == [c \in MCColumns |->
                IF c = "room" THEN 9 ELSE IF c = "tunnel" THEN 6 ELSE 11]
MCSurface == [c \in MCColumns |-> IF c = "pool" THEN 2 ELSE 0]
MCMins == [h \in Hulls |-> IF h = Standing THEN -4 ELSE -2]
MCMaxs == [h \in Hulls |-> IF h = Standing THEN 4 ELSE 3]
=============================================================================
