----------------------------- MODULE WeaponFrame -----------------------------
(***************************************************************************)
(* What one player command does to the weapon in the player's hands.  The  *)
(* weapon classes are compiled twice, into the server's game library and   *)
(* into the client, which predicts them (dlls/wpn_shared); the function    *)
(* that calls them, CBasePlayerWeapon::ItemPostFrame, is written twice     *)
(* (cl_dll/cs_wpn/cs_weapons.cpp and the game library's weapons.cpp), and  *)
(* the two copies differ.  An operator whose first parameter is "client"   *)
(* has both bodies.                                                        *)
(*                                                                         *)
(* Two weapons stand for the families that keep state of their own: the    *)
(* FAMAS, whose burst goes on over several commands, and the M3, which is  *)
(* loaded shell by shell.                                                  *)
(***************************************************************************)
EXTENDS Integers

CONSTANTS
  MaxClip,        \* weapon -> iMaxClip()
  Msec,           \* what one command takes from every timer
  CycleTime,      \* FamasFire: between two single shots
  BurstTime,      \* FamasFire: between two bursts
  BurstGap,       \* FireRemaining: commands between two shots of a burst
  EmptyTime,      \* FamasFire with an empty clip
  ModeTime,       \* CFamas::SecondaryAttack
  ReloadTime,     \* FAMAS_RELOAD_TIME
  DeployTime,     \* DefaultDeploy
  IdleTime,       \* the delays after which CM3::WeaponIdle runs
  ShotTime,       \* CM3::PrimaryAttack
  DryTime,        \* CM3::PrimaryAttack with an empty clip
  StartTime,      \* CM3::Reload: before the first shell
  ShellTime       \* CM3::Reload: before each further shell

Famas == "famas"
M3 == "m3"
Weapons == {Famas, M3}
AmmoTypes == {"556nato", "buckshot"}
AmmoOf == [w \in Weapons |-> IF w = Famas THEN "556nato" ELSE "buckshot"]

Delays == {CycleTime, BurstTime, EmptyTime, ModeTime, ReloadTime, DeployTime,
           IdleTime, ShotTime, DryTime, StartTime, ShellTime}

ASSUME ClipAssumption == MaxClip \in [Weapons -> Nat \ {0}]
ASSUME TimeAssumption ==
  /\ Msec \in Nat \ {0}
  /\ BurstGap \in Nat
  /\ \A d \in Delays : d \in Nat \ {0}
\* The three shots of a burst are over before the weapon may fire again:
\* 0.05 and 0.1 seconds against 0.55, with commands of at most 0.255.
ASSUME BurstAssumption == BurstTime > (BurstGap + 2) * Msec
\* The M3 may fire or be loaded again before its idle timer runs out: 0.55,
\* 0.875 and 1 second against 1.5 and more.
ASSUME IdleAssumption == \A d \in {ShotTime, DryTime, StartTime} : d <= IdleTime

\* A timer holds the time left.  It is decremented by every command and
\* clamped just below zero: the code's floors of -0.001 and of -1.0 are one
\* value here, since the code only compares a timer with zero.
Timers == Nat \cup {-1}
Decayed(t) == IF t - Msec < -1 THEN -1 ELSE t - Msec

\* No shot of a burst is due: m_flFamasShoot == 0.
NoShot == -1

WeaponData == [clip : Int, inReload : BOOLEAN, special : 0 .. 2,
               nextPrimary : Timers, nextSecondary : Timers, idle : Timers,
               burst : BOOLEAN]

\* The M3 never reads nextSecondary, burst and inReload, nor the FAMAS
\* special; idle is kept for the M3 alone, for which it paces the reload.

\* f, the player and its weapons while a command runs: the active weapon id,
\* the type and count of its reserve, the copies of the reserves that
\* TabulateAmmo keeps (tab), every weapon, and the FAMAS object's burst: the
\* time its next shot is due after, and the shots it has fired.

MinOf(a, b) == IF a < b THEN a ELSE b
Gun(f) == f.wpn[f.id]
SetGun(f, g) == [f EXCEPT !.wpn[f.id] = g]

\* A shot is due.  m_flFamasShoot is a member of the FAMAS: a burst left
\* behind says nothing about the M3.
Bursting(f) == f.id = Famas /\ f.shoot # NoShot

\* m_iFamasShotsFired is read only while a shot is due: it counts nothing
\* after the last one.
EndBurst(f) == [f EXCEPT !.shots = 0, !.shoot = NoShot]

-----------------------------------------------------------------------------
\* CFamas::SecondaryAttack
ToggleBurst(f) ==
  SetGun(f, [Gun(f) EXCEPT !.burst = ~@, !.nextSecondary = ModeTime])

\* CFamas::PrimaryAttack and FamasFire, in command number k.
FamasFire(f, k) ==
  LET g == Gun(f)
      delay == IF g.burst THEN BurstTime ELSE CycleTime
      fired == SetGun(f,
                 [g EXCEPT !.clip = @ - 1, !.nextPrimary = delay,
                           !.nextSecondary = delay])
  IN IF g.clip <= 0
     THEN SetGun(IF g.burst THEN [f EXCEPT !.shots = 0] ELSE f,
                 [g EXCEPT !.nextPrimary = EmptyTime])
     ELSE IF g.burst THEN [fired EXCEPT !.shots = 1, !.shoot = k] ELSE fired

FireRemaining_NoClamp(client, f, k) ==
  LET fired == SetGun(f, [Gun(f) EXCEPT !.clip = @ - 1]) IN
  IF f.shots + 1 # 3
  THEN [fired EXCEPT !.shots = @ + 1, !.shoot = k + BurstGap]
  ELSE EndBurst(fired)

\* CBasePlayerWeapon::FireRemaining, of which each program has its own: the
\* client's also takes the round from the tabulated reserve.
FireRemaining(client, f, k) ==
  LET g == Gun(f) IN
  IF g.clip - 1 < 0
  THEN EndBurst(SetGun(f, [g EXCEPT !.clip = 0]))
  ELSE LET fired == [SetGun(f, [g EXCEPT !.clip = @ - 1])
             EXCEPT !.tab["556nato"] = IF client THEN @ - 1 ELSE @]
       IN IF f.shots + 1 # 3
          THEN [fired EXCEPT !.shots = @ + 1, !.shoot = k + BurstGap]
          ELSE EndBurst(fired)

\* Variants with a plausible bug: each names what it forgets.
ContinueBurst_Twice(client, f, k) ==
  IF ~(Bursting(f) /\ k > f.shoot) THEN f
  ELSE FireRemaining(client,
         SetGun(f, [Gun(f) EXCEPT !.clip = IF @ = 0 THEN 0 ELSE @ - 1]), k)

\* The head of ItemPostFrame: the shot of a burst that is due.  The client
\* takes a round from the clip before FireRemaining takes one.
ContinueBurst(client, f, k) ==
  IF ~(Bursting(f) /\ k > f.shoot) THEN f
  ELSE IF ~client THEN FireRemaining(FALSE, f, k)
  ELSE LET c == Gun(f).clip - 1
           taken == SetGun(f, [Gun(f) EXCEPT !.clip = IF c < 0 THEN 0 ELSE c])
       IN FireRemaining(TRUE, taken, k)

\* CBasePlayerWeapon::DefaultReload
DefaultReload(f) ==
  IF f.count <= 0 \/ MaxClip[f.id] - Gun(f).clip = 0 THEN f
  ELSE [SetGun(f, [Gun(f) EXCEPT !.inReload = TRUE])
          EXCEPT !.nextAttack = ReloadTime]

ShotgunReload_NoReserve(f) ==
  IF Gun(f).special = 2
  THEN [SetGun(f, [Gun(f) EXCEPT !.clip = @ + 1, !.special = 1])
          EXCEPT !.count = @ - 1, !.tab["buckshot"] = @ - 1]
  ELSE SetGun(f, [Gun(f) EXCEPT !.special = @ + 1])

\* CM3::Reload, and the server's DefaultShotgunReload: start, move the gun to
\* the side, push one shell in, and back to the side.
ShotgunReload(f) ==
  LET g == Gun(f) IN
  IF f.count <= 0 \/ g.clip = MaxClip[f.id] \/ g.nextPrimary > 0 THEN f
  ELSE IF g.special = 0
  THEN [SetGun(f, [g EXCEPT !.special = 1, !.idle = StartTime,
                            !.nextPrimary = StartTime])
          EXCEPT !.nextAttack = StartTime]
  ELSE IF g.special = 1
  THEN IF g.idle > 0 THEN f
       ELSE SetGun(f, [g EXCEPT !.special = 2, !.idle = ShellTime])
  ELSE [SetGun(f, [g EXCEPT !.clip = @ + 1, !.special = 1])
          EXCEPT !.count = @ - 1, !.tab["buckshot"] = @ - 1]

Reload(f) ==
  IF f.id = M3 THEN ShotgunReload(f)
  ELSE IF f.tab["556nato"] <= 0 THEN f ELSE DefaultReload(f)

\* CM3::PrimaryAttack
ShotgunFire(f) ==
  LET g == Gun(f)
      r == ShotgunReload(f)
  IN IF g.clip <= 0
     THEN SetGun(r, [Gun(r) EXCEPT !.nextPrimary = DryTime])
     ELSE SetGun(f, [g EXCEPT !.clip = @ - 1, !.nextPrimary = ShotTime,
                       !.special = 0,
                       !.idle = IF g.clip - 1 # 0 THEN IdleTime ELSE ShotTime])

PrimaryAttack(f, k) == IF f.id = M3 THEN ShotgunFire(f) ELSE FamasFire(f, k)

\* CM3::WeaponIdle: an M3 that is not being loaded sets its timer again on
\* the server only.  CFamas::WeaponIdle only animates.
WeaponIdle(client, f) ==
  LET g == Gun(f) IN
     IF f.id = Famas \/ g.idle >= 0 THEN f
     ELSE IF \/ g.clip = 0 /\ g.special = 0 /\ f.count # 0
             \/ g.special # 0 /\ g.clip # MaxClip[M3] /\ f.count # 0
     THEN ShotgunReload(f)
     ELSE IF g.special # 0
     THEN SetGun(f, [g EXCEPT !.special = 0, !.idle = IdleTime])
     ELSE IF client THEN f ELSE SetGun(f, [g EXCEPT !.idle = IdleTime])

-----------------------------------------------------------------------------
\* TabulateAmmo, of which only the active weapon's entry can change: nothing
\* else has been taken from the other reserve.
Tabulated(client, f) ==
  IF client THEN f ELSE [f EXCEPT !.tab[f.type] = f.count]

CompleteReload_Free(client, f) ==
  IF ~Gun(f).inReload THEN f
  ELSE SetGun(f, [Gun(f) EXCEPT !.clip = MaxClip[f.id], !.inReload = FALSE])

\* ItemPostFrame: the reload that m_flNextAttack was waiting for.
CompleteReload(client, f) ==
  LET j == MinOf(MaxClip[f.id] - Gun(f).clip, f.count) IN
  IF ~Gun(f).inReload THEN f
  ELSE Tabulated(client,
         [SetGun(f, [Gun(f) EXCEPT !.clip = @ + j, !.inReload = FALSE])
            EXCEPT !.count = @ - j])

\* The condition the client nests below the test of the RELOAD button and the
\* server joins to it: a client whose weapon is busy does nothing at all.
MayReload(f) == Gun(f).nextPrimary < 0 /\ ~Bursting(f)
ReloadBranch(client, f) == client \/ Gun(f).nextPrimary < 0

\* The buttons of ItemPostFrame, in the order it tests them.  The M3 has no
\* secondary attack: HasSecondaryAttack removes the button for it.  With no
\* button an empty weapon reloads by itself; the server first asks IsUseable.
Act(client, f, buttons, k) ==
  LET attack2 == "attack2" \in buttons /\ f.id = Famas IN
  IF attack2 /\ Gun(f).nextSecondary <= 0 THEN ToggleBurst(f)
  ELSE IF "attack" \in buttons /\ Gun(f).nextPrimary <= 0
  THEN PrimaryAttack(Tabulated(client, f), k)
  ELSE IF "reload" \in buttons /\ ~Gun(f).inReload /\ ReloadBranch(client, f)
  THEN IF MayReload(f) THEN Reload(f) ELSE f
  ELSE IF "attack" \in buttons \/ attack2 THEN f
  ELSE IF Gun(f).clip = 0 /\ MayReload(f) /\ (client \/ f.count > 0)
  THEN Reload(f)
  ELSE WeaponIdle(client, f)

ItemPostFrame(client, f, buttons, k) ==
  Act(client, CompleteReload(client, ContinueBurst(client, f, k)), buttons, k)

Holster_KeepsReload(client, f) ==
  SetGun(f, [Gun(f) EXCEPT !.special = IF client THEN @ ELSE 0])

\* CBasePlayerWeapon::Holster: a shell-by-shell reload ends with it on the
\* server only.
Holster(client, f) ==
  SetGun(f, [Gun(f) EXCEPT !.inReload = FALSE,
                           !.special = IF client THEN @ ELSE 0])

\* Put the weapon away and draw w.  Only the FAMAS's Deploy resets anything
\* of its own: the burst.
Switch(client, f, w) ==
  LET h == [Holster(client, f) EXCEPT !.id = w, !.nextAttack = DeployTime,
                     !.wpn[M3].idle = IF w = M3 THEN IdleTime ELSE @]
  IN IF w = Famas THEN EndBurst(h) ELSE h

RunWeapon_ClientHurries(client, f, buttons, k) ==
  IF client \/ f.nextAttack <= 0
  THEN ItemPostFrame(client, f, buttons, k) ELSE f

\* No weapon logic while m_flNextAttack runs.
RunWeapon(client, f, buttons, k) ==
  IF f.nextAttack <= 0 THEN ItemPostFrame(client, f, buttons, k) ELSE f

\* A weapon's own timers, decremented by every command.
Aged(g) ==
  [g EXCEPT !.nextPrimary = Decayed(@), !.nextSecondary = Decayed(@),
            !.idle = Decayed(@)]

\* The end of the command on both sides: every timer of every weapon decays.
Decay(f) ==
  [f EXCEPT !.nextAttack = Decayed(@),
            !.wpn = [w \in Weapons |-> Aged(@[w])]]
=============================================================================
