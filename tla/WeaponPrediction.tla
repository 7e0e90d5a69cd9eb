--------------------------- MODULE WeaponPrediction ---------------------------
(***************************************************************************)
(* Client-side weapon prediction (cl_dll/cs_wpn/cs_weapons.cpp): the       *)
(* client runs every command itself before the server has, and whenever    *)
(* the server's state arrives it runs all the commands the server has not  *)
(* executed again, from that state.                                        *)
(*                                                                         *)
(* A weapon is known in three copies: the server's, the last snapshot of   *)
(* it the client has received (base), and the one predicted for each       *)
(* command since.  The burst of a FAMAS is in none of the structures that  *)
(* are copied: it stays in the client's one object of that class, through  *)
(* every replay.  A weapon is chosen twice: by weaponselect in a command,  *)
(* for the prediction, and by a reliable "weapon_..." string, for the      *)
(* server.                                                                 *)
(*                                                                         *)
(* A snapshot is sent and received in one step.  One that travels for a    *)
(* while is received as if the server ran later commands after it arrived: *)
(* neither side sees the difference.                                       *)
(***************************************************************************)
EXTENDS WeaponFrame, Sequences

CONSTANTS
  Commands,       \* what a frame may put into a command: buttons, select
  StartClip,      \* weapon -> rounds in the clip
  StartAmmo,      \* ammo type -> rounds in reserve
  Window,         \* bound: commands the server has not acknowledged
  MaxPending      \* bound: weapon strings in flight

NoSelect == "none"

ASSUME InputAssumption ==
  /\ Commands \subseteq [buttons : SUBSET {"attack", "attack2", "reload"},
                        select : Weapons \cup {NoSelect}]
  /\ StartClip \in [Weapons -> Nat] /\ \A w \in Weapons : StartClip[w] <= MaxClip[w]
  /\ StartAmmo \in [AmmoTypes -> Nat]
  /\ Window \in Nat \ {0} /\ MaxPending \in Nat \ {0}

VARIABLES
  server,         \* the player and its weapons in the game library
  pending,        \* "weapon_..." strings the server has not executed
  cmds,           \* commands that are not acknowledged
  ran,            \* how many of them the server has executed
  base,           \* the last state received from the server
  path,           \* the state predicted after each of the commands
  object,         \* the client's CFamas object: its burst
  \* history
  truth,          \* the server when it sent base
  expected,       \* the server after each command of path, if it only ran them
  carried         \* a burst was going on when the replay began

clientVars == <<cmds, base, path, object>>
replayVars == <<truth, expected, carried>>
vars == <<server, pending, ran, clientVars, replayVars>>

NewGun(w) ==
  [clip |-> StartClip[w], inReload |-> FALSE, special |-> 0, nextPrimary |-> -1,
   nextSecondary |-> -1, idle |-> -1, burst |-> FALSE]

Bursts == [shoot : Nat \cup {NoShot}, shots : Nat]
Servers ==
  [id : Weapons, nextAttack : Timers, rg : [AmmoTypes -> Nat],
   tab : [AmmoTypes -> Int], wpn : [Weapons -> WeaponData],
   shoot : Nat \cup {NoShot}, shots : Nat]
States ==
  [id : Weapons, nextAttack : Timers, type : AmmoTypes, count : Nat,
   tab : [AmmoTypes -> Int], wpn : [Weapons -> WeaponData]]

TypeOK ==
  /\ server \in Servers
  /\ pending \in Seq(Weapons) /\ Len(pending) <= MaxPending
  /\ cmds \in Seq(Commands) /\ Len(cmds) <= Window
  /\ ran \in 0 .. Len(cmds)
  /\ base \in States
  /\ path \in Seq(States) /\ Len(path) <= Len(cmds)
  /\ object \in Bursts
  /\ truth \in Servers
  /\ expected \in Seq(Servers) /\ Len(expected) = Len(path)
  /\ carried \in BOOLEAN

-----------------------------------------------------------------------------
(***************************************************************************)
(* The server's game library.                                              *)
(***************************************************************************)

\* What the weapon code reads while the server's player runs it.
Loaded(s) ==
  [id |-> s.id, nextAttack |-> s.nextAttack, type |-> AmmoOf[s.id],
   count |-> s.rg[AmmoOf[s.id]], tab |-> s.tab, wpn |-> s.wpn,
   shoot |-> s.shoot, shots |-> s.shots]
Stored(s, f) ==
  [id |-> f.id, nextAttack |-> f.nextAttack,
   rg |-> [s.rg EXCEPT ![f.type] = f.count], tab |-> f.tab, wpn |-> f.wpn,
   shoot |-> f.shoot, shots |-> f.shots]

\* CBasePlayer::ItemPostFrame and the end of PostThink, in command k.
ServerCommand(s, cmd, k) ==
  Stored(s, Decay(RunWeapon(FALSE, Loaded(s), cmd.buttons, k)))

\* UpdateClientData and GetWeaponData: the reserve of the active weapon only,
\* and nothing of a burst.
Sent(f) ==
  [id |-> f.id, nextAttack |-> f.nextAttack, type |-> f.type,
   count |-> f.count, tab |-> f.tab, wpn |-> f.wpn]
Snapshot(s) == Sent(Loaded(s))

-----------------------------------------------------------------------------
(***************************************************************************)
(* The client.                                                             *)
(***************************************************************************)

\* HUD_WeaponsPostThink: load the objects from the state before the command
\* (the reserve goes to the active weapon, whatever type vuser4 names), run
\* the weapon, switch, and write the result, whose vuser4 still holds the
\* reserve of the weapon that was active.
PostThink(from, burst, cmd, k) ==
  LET f0 == [id |-> from.id, nextAttack |-> from.nextAttack,
             type |-> from.type, count |-> from.count, tab |-> from.tab,
             wpn |-> from.wpn, shoot |-> burst.shoot, shots |-> burst.shots]
      f1 == RunWeapon(TRUE, f0, cmd.buttons, k)
      f2 == IF cmd.select \in Weapons \ {f1.id}
            THEN Switch(TRUE, f1, cmd.select) ELSE f1
  IN Decay(f2)

BurstOf(f) == [shoot |-> f.shoot, shots |-> f.shots]

\* The last state of a sequence that starts after s.
LastOf(s, seq) == IF seq = <<>> THEN s ELSE seq[Len(seq)]

-----------------------------------------------------------------------------
Init ==
  /\ server = [id |-> Famas, nextAttack |-> -1, rg |-> StartAmmo,
               tab |-> StartAmmo, wpn |-> [w \in Weapons |-> NewGun(w)],
               shoot |-> NoShot, shots |-> 0]
  /\ pending = <<>> /\ cmds = <<>> /\ ran = 0
  /\ base = Snapshot(server) /\ path = <<>>
  /\ object = [shoot |-> NoShot, shots |-> 0]
  /\ truth = server /\ expected = <<>> /\ carried = FALSE

\* The engine predicts every command that is not acknowledged again, from the
\* last state received, in each frame and whenever a new state arrives.
Predicting == Len(path) < Len(cmds)
StartReplay(burst) ==
  /\ path' = <<>> /\ expected' = <<>>
  /\ object' = burst
  /\ carried' = (burst.shoot # NoShot)

\* HUD_PostRunCmd: the next command of the replay.
PostRunCmd ==
  LET k == Len(path) + 1
      f == PostThink(LastOf(base, path), object, cmds[k], k)
  IN
  /\ Predicting
  /\ path' = Append(path, Sent(f))
  /\ object' = BurstOf(f)
  /\ expected' =
       Append(expected, ServerCommand(LastOf(truth, expected), cmds[k], k))
  /\ UNCHANGED <<server, pending, cmds, ran, base, truth, carried>>

\* A frame: CL_CreateMove makes a command, and the engine predicts.  A weapon
\* chosen from the HUD goes into the command and to the server as a string.
CreateMove(cmd) ==
  /\ ~Predicting /\ Len(cmds) < Window
  /\ cmd.select # NoSelect => Len(pending) < MaxPending
  /\ pending' = IF cmd.select = NoSelect THEN pending
                ELSE Append(pending, cmd.select)
  /\ cmds' = Append(cmds, cmd)
  /\ StartReplay(object)
  /\ UNCHANGED <<server, ran, base, truth>>

\* The server executes the next command.  It shares nothing with a replay,
\* which its steps need not interrupt.
RunCommand ==
  /\ ~Predicting /\ ran < Len(cmds)
  /\ server' = ServerCommand(server, cmds[ran + 1], ran + 1)
  /\ ran' = ran + 1
  /\ UNCHANGED <<pending, clientVars, replayVars>>

\* CBasePlayer::SelectItem, for the next string; it may come before or after
\* the command made in the same frame.
SelectItem ==
  /\ ~Predicting /\ pending # <<>>
  /\ server' = IF Head(pending) = server.id THEN server
               ELSE Stored(server, Switch(FALSE, Loaded(server), Head(pending)))
  /\ pending' = Tail(pending)
  /\ UNCHANGED <<ran, clientVars, replayVars>>

\* Commands are numbered from the one after the last acknowledged.
Shifted(burst, n) ==
  IF burst.shoot = NoShot THEN NoShot
  ELSE IF burst.shoot > n THEN burst.shoot - n ELSE 0

\* The server's state arrives; the engine predicts again from it.
ReceiveSnapshot ==
  /\ ~Predicting
  /\ ran > 0 \/ base # Snapshot(server)
  /\ base' = Snapshot(server)
  /\ cmds' = SubSeq(cmds, ran + 1, Len(cmds))
  /\ ran' = 0
  /\ server' = [server EXCEPT !.shoot = Shifted(server, ran)]
  /\ truth' = server'
  /\ StartReplay([object EXCEPT !.shoot = Shifted(object, ran)])
  /\ UNCHANGED pending

Next ==
  \/ \E cmd \in Commands : CreateMove(cmd)
  \/ PostRunCmd
  \/ RunCommand
  \/ SelectItem
  \/ ReceiveSnapshot

Spec == Init /\ [][Next]_vars

-----------------------------------------------------------------------------
\* What the player can tell of a state: an idle timer is read only while an
\* M3 is being loaded, and the tabulated reserves only to refuse a reload.
Visible(f) ==
  [id |-> f.id, nextAttack |-> f.nextAttack, count |-> f.count,
   wpn |-> [w \in Weapons |->
     IF f.wpn[w].special # 0 THEN f.wpn[w]
     ELSE [f.wpn[w] EXCEPT !.idle = -1]]]

\* The exceptions to exact prediction: the client's object still has a burst,
\* or the mode that starts one is on; a switch of weapons is predicted; or the
\* reload key is held on a busy M3 that is being loaded (the server may end
\* the reload, the client waits).
Plain(n) ==
  /\ ~carried
  /\ \A i \in 1 .. n :
       LET before == LastOf(base, SubSeq(path, 1, i - 1)) IN
       /\ cmds[i].select = NoSelect /\ ~before.wpn[Famas].burst
       /\ "reload" \in cmds[i].buttons =>
            before.wpn[M3].special = 0 \/ before.wpn[M3].nextPrimary < 0

\* Prediction is exact: whatever commands are in flight, the client shows for
\* each the clip, the reserve, the reload and the delays the server will have
\* after it, although the two programs run different copies of ItemPostFrame.
\* Plain names the exceptions.
PredictionExact ==
  \A n \in 1 .. Len(path) :
    Plain(n) => Visible(path[n]) = Visible(Snapshot(expected[n]))

\* A reload belongs to the weapon in hand, on the server, in what was
\* received and in every predicted state: switching cancels it, so coming
\* back to the weapon never finishes it early.
ReloadBelongsToActive ==
  \A f \in {server, base} \cup {path[i] : i \in 1 .. Len(path)} :
    \A w \in Weapons : f.wpn[w].inReload => w = f.id

\* Clips stay between empty and full in all three copies, though a predicted
\* burst takes two rounds per shot and the replay may repeat it.
ClipsInRange ==
  \A f \in {server, base} \cup {path[i] : i \in 1 .. Len(path)} :
    \A w \in Weapons : f.wpn[w].clip \in 0 .. MaxClip[w]

Rounds(s, w) == s.wpn[w].clip + s.rg[AmmoOf[w]]

\* One command fires at most one round, out of the weapon in hand; reloading,
\* switching and everything the network does neither makes nor loses any.
OneRoundPerCommand ==
  [][\A w \in Weapons :
       \/ Rounds(server', w) = Rounds(server, w)
       \/ /\ RunCommand /\ w = server.id
          /\ Rounds(server', w) = Rounds(server, w) - 1]_vars

\* A prediction without a switch never shows more rounds than the server's
\* state it starts from.
PredictionInventsNoRounds ==
  \A n \in 1 .. Len(path) :
    (\A i \in 1 .. n : cmds[i].select = NoSelect)
      => path[n].wpn[base.id].clip + path[n].count
           <= base.wpn[base.id].clip + base.count
=============================================================================
