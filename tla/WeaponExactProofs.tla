--------------------------- MODULE WeaponExactProofs ---------------------------
(***************************************************************************)
(* The proof that prediction is exact: the client's copy of the weapon     *)
(* code and the server's end every plain command in states the player      *)
(* cannot tell apart.  The two programs do not agree on everything - one   *)
(* sets the M3's idle timer again, the other lets it run out - so the      *)
(* states are related by Match, which is preserved, and not by equality,   *)
(* which is not.                                                           *)
(***************************************************************************)
EXTENDS WeaponPredictionProofs

\* Two M3s with the same fields but for the idle timer.
AlikeGun(g, h) == h = [g EXCEPT !.idle = h.idle]

\* The M3's timer has run out on a client, which does not set it again: until
\* a shot or a reload sets it, nothing that reads it can do anything.
TimerIgnored(c) ==
  /\ c.id = M3 /\ c.wpn[M3].idle < 0 /\ c.wpn[M3].special = 0
  /\ c.wpn[M3].clip # 0 \/ c.count = 0

\* The client's state or frame c is that of the server's frame s.
Match(c, s) ==
  /\ c.id = s.id /\ c.type = s.type
  /\ c.nextAttack = s.nextAttack /\ c.count = s.count
  /\ c.wpn[Famas] = s.wpn[Famas]
  /\ AlikeGun(c.wpn[M3], s.wpn[M3])
  /\ c.wpn[M3].idle = s.wpn[M3].idle \/ TimerIgnored(c)
  /\ c.id = Famas => c.tab["556nato"] >= c.count

\* What the server's code keeps of the FAMAS in hand: the reserve is tabulated,
\* and a burst that goes on leaves both attacks busy for as long, so its mode
\* cannot be changed under it.
FamasFit(f) ==
  /\ f.tab["556nato"] >= f.count
  /\ f.shoot # NoShot =>
       f.wpn[Famas].burst /\ f.wpn[Famas].nextSecondary = f.wpn[Famas].nextPrimary

\* And of the M3 in hand, of n shells in reserve: it is never left to load
\* itself while it may not fire, and a reload always has a shell to push.
ShotgunFit(g, n) ==
  /\ g.special = 0 /\ g.clip = 0 /\ n # 0 => g.idle >= g.nextPrimary
  /\ g.special # 0 => g.clip # 0 \/ n # 0

Ready(f) ==
  /\ f.type = AmmoOf[f.id]
  /\ ~f.wpn[M3].inReload /\ f.wpn[M3].nextPrimary <= IdleTime
  /\ f.id = Famas => f.wpn[M3].special = 0 /\ FamasFit(f)
  /\ f.id = M3 => ShotgunFit(f.wpn[M3], f.count)

Fit(s) == Ready(Loaded(s)) /\ s.tab["556nato"] >= s.rg["556nato"]

LEMMA WeaponNames ==
  /\ Famas \in Weapons /\ M3 \in Weapons /\ Famas # M3
  /\ \A w \in Weapons : w = Famas \/ w = M3
  /\ AmmoOf[Famas] = "556nato" /\ AmmoOf[M3] = "buckshot"
  /\ "556nato" \in AmmoTypes /\ "buckshot" \in AmmoTypes
BY DEF Weapons, Famas, M3, AmmoOf, AmmoTypes

-----------------------------------------------------------------------------
(***************************************************************************)
(* The FAMAS.  While no burst is on, the two programs do the same to it.   *)
(***************************************************************************)

\* Frames of the two programs with the same FAMAS in hand and no burst; m and
\* n are their M3s.
Held(c, s, m, n) ==
  /\ c \in Frames /\ s \in Frames
  /\ c.id = Famas /\ s.id = Famas
  /\ c.type = "556nato" /\ s.type = "556nato"
  /\ c.nextAttack = s.nextAttack /\ c.count = s.count
  /\ c.wpn[Famas] = s.wpn[Famas]
  /\ c.wpn[M3] = m /\ s.wpn[M3] = n
  /\ c.shoot = NoShot /\ s.shoot = NoShot
  /\ c.tab["556nato"] >= c.count /\ s.tab["556nato"] >= s.count

LEMMA HeldGun ==
  ASSUME NEW c, NEW s, NEW m, NEW n, Held(c, s, m, n), NEW g \in WeaponData
  PROVE  Held(SetGun(c, g), SetGun(s, g), m, n)
<1>1. M3 \in Weapons \ {Famas}
  BY WeaponNames
<1> DEFINE rc == SetGun(c, g)
           rs == SetGun(s, g)
<1>2. /\ rc \in Frames /\ rc.id = c.id /\ rc.type = c.type /\ rc.count = c.count
      /\ rc.tab = c.tab /\ rc.shoot = c.shoot /\ rc.nextAttack = c.nextAttack
      /\ rc.wpn[Famas] = g /\ rc.wpn[M3] = c.wpn[M3]
  BY <1>1, SetGunFields DEF Held
<1>3. /\ rs \in Frames /\ rs.id = s.id /\ rs.type = s.type /\ rs.count = s.count
      /\ rs.tab = s.tab /\ rs.shoot = s.shoot /\ rs.nextAttack = s.nextAttack
      /\ rs.wpn[Famas] = g /\ rs.wpn[M3] = s.wpn[M3]
  BY <1>1, SetGunFields DEF Held
<1> HIDE DEF rc, rs
<1>4. Held(rc, rs, m, n)
  BY <1>2, <1>3 DEF Held
<1> QED
  BY <1>4 DEF rc, rs

LEMMA HeldToggle ==
  ASSUME NEW c, NEW s, NEW m, NEW n, Held(c, s, m, n)
  PROVE  Held(ToggleBurst(c), ToggleBurst(s), m, n)
<1> DEFINE g == [c.wpn[Famas] EXCEPT !.burst = ~@, !.nextSecondary = ModeTime]
<1>1. c.wpn[Famas] \in WeaponData
  BY WeaponNames DEF Held, Frames
<1>2. g \in WeaponData
  BY <1>1, Times DEF WeaponData
<1>3. ToggleBurst(c) = SetGun(c, g) /\ ToggleBurst(s) = SetGun(s, g)
  BY DEF ToggleBurst, Gun, Held
<1> HIDE DEF g
<1> QED
  BY <1>2, <1>3, HeldGun

LEMMA HeldFire ==
  ASSUME NEW c, NEW s, NEW m, NEW n, Held(c, s, m, n),
         ~c.wpn[Famas].burst, NEW k
  PROVE  Held(FamasFire(c, k), FamasFire(s, k), m, n)
<1> DEFINE g == c.wpn[Famas]
           shot == [g EXCEPT !.clip = @ - 1, !.nextPrimary = CycleTime,
                             !.nextSecondary = CycleTime]
           dry == [g EXCEPT !.nextPrimary = EmptyTime]
<1>1. g \in WeaponData /\ Gun(c) = g /\ Gun(s) = g /\ ~g.burst
  BY WeaponNames DEF Held, Frames, Gun
<1>2. /\ FamasFire(c, k) = IF g.clip <= 0 THEN SetGun(c, dry) ELSE SetGun(c, shot)
      /\ FamasFire(s, k) = IF g.clip <= 0 THEN SetGun(s, dry) ELSE SetGun(s, shot)
  BY <1>1 DEF FamasFire
<1> HIDE DEF g
<1>3. dry \in WeaponData /\ shot \in WeaponData
  <2>1. PICK x \in Int : x = g.clip - 1
    BY <1>1 DEF WeaponData
  <2>2. shot = [g EXCEPT !.clip = x, !.nextPrimary = CycleTime,
                         !.nextSecondary = CycleTime]
    BY <2>1
  <2> HIDE DEF shot
  <2> QED
    BY <1>1, <2>2, Times DEF WeaponData
<1> HIDE DEF dry, shot
<1> QED
  BY <1>2, <1>3, HeldGun

LEMMA HeldLoad ==
  ASSUME NEW c, NEW s, NEW m, NEW n, Held(c, s, m, n)
  PROVE  Held(DefaultReload(c), DefaultReload(s), m, n)
<1> DEFINE g == [c.wpn[Famas] EXCEPT !.inReload = TRUE]
           hc == SetGun(c, g)
           hs == SetGun(s, g)
           rc == [hc EXCEPT !.nextAttack = ReloadTime]
           rs == [hs EXCEPT !.nextAttack = ReloadTime]
           full == c.count <= 0 \/ MaxClip[Famas] - c.wpn[Famas].clip = 0
<1>1. g \in WeaponData
  <2>1. c.wpn[Famas] \in WeaponData
    BY WeaponNames DEF Held, Frames
  <2> QED
    BY <2>1 DEF WeaponData
<1>2. /\ DefaultReload(c) = IF full THEN c ELSE rc
      /\ DefaultReload(s) = IF full THEN s ELSE rs
  BY DEF DefaultReload, Gun, Held
<1> HIDE DEF g
<1>3. Held(hc, hs, m, n)
  BY <1>1, HeldGun
<1> HIDE DEF hc, hs
<1>4. /\ rc \in Frames /\ rc.id = hc.id /\ rc.type = hc.type
      /\ rc.count = hc.count /\ rc.tab = hc.tab /\ rc.shoot = hc.shoot
      /\ rc.wpn = hc.wpn /\ rc.nextAttack = ReloadTime
  BY <1>3, Times DEF Held, Frames
<1>5. /\ rs \in Frames /\ rs.id = hs.id /\ rs.type = hs.type
      /\ rs.count = hs.count /\ rs.tab = hs.tab /\ rs.shoot = hs.shoot
      /\ rs.wpn = hs.wpn /\ rs.nextAttack = ReloadTime
  BY <1>3, Times DEF Held, Frames
<1> HIDE DEF rc, rs, full
<1>6. Held(rc, rs, m, n)
  BY <1>3, <1>4, <1>5 DEF Held
<1> QED
  BY <1>2, <1>6

LEMMA HeldTabulated ==
  ASSUME NEW c, NEW s, NEW m, NEW n, Held(c, s, m, n)
  PROVE  Held(Tabulated(TRUE, c), Tabulated(FALSE, s), m, n)
<1> DEFINE r == [s EXCEPT !.tab[s.type] = s.count]
<1>1. /\ r \in Frames /\ r.id = s.id /\ r.type = s.type /\ r.count = s.count
      /\ r.wpn = s.wpn /\ r.shoot = s.shoot /\ r.nextAttack = s.nextAttack
      /\ r.tab["556nato"] = s.count
  BY WeaponNames DEF Held, Frames
<1>2. Tabulated(TRUE, c) = c /\ Tabulated(FALSE, s) = r
  BY DEF Tabulated
<1>3. s.count \in Int
  BY DEF Held, Frames
<1> HIDE DEF r
<1>4. Held(c, r, m, n)
  BY <1>1, <1>3 DEF Held
<1> QED
  BY <1>2, <1>4

LEMMA HeldComplete ==
  ASSUME NEW c, NEW s, NEW m, NEW n, Held(c, s, m, n), Good(c), Good(s)
  PROVE  /\ Held(CompleteReload(TRUE, c), CompleteReload(FALSE, s), m, n)
         /\ CompleteReload(TRUE, c).wpn[Famas].burst = c.wpn[Famas].burst
<1> DEFINE g == c.wpn[Famas]
           j == MinOf(MaxClip[Famas] - g.clip, c.count)
           full == [g EXCEPT !.clip = @ + j, !.inReload = FALSE]
           hc == SetGun(c, full)
           hs == SetGun(s, full)
           rc == [hc EXCEPT !.count = @ - j]
           rs == [hs EXCEPT !.count = @ - j]
<1>1. /\ g \in WeaponData /\ g.clip \in 0 .. MaxClip[Famas]
      /\ MaxClip[Famas] \in Nat /\ c.count \in Nat
      /\ Gun(c) = g /\ Gun(s) = g /\ c.count = s.count
      /\ c.id = Famas /\ s.id = Famas
  BY GoodGun DEF Held, Gun
<1>2. j \in Nat /\ j <= c.count
  BY <1>1 DEF MinOf
<1>3. /\ CompleteReload(TRUE, c) = IF ~g.inReload THEN c ELSE Tabulated(TRUE, rc)
      /\ CompleteReload(FALSE, s) = IF ~g.inReload THEN s ELSE Tabulated(FALSE, rs)
  BY <1>1 DEF CompleteReload
<1> HIDE DEF j, g
<1>4. full \in WeaponData /\ full.burst = g.burst
  <2>1. PICK x \in Int : x = g.clip + j
    BY <1>1, <1>2
  <2>2. full = [g EXCEPT !.clip = x, !.inReload = FALSE]
    BY <2>1
  <2> HIDE DEF full
  <2> QED
    BY <1>1, <2>2 DEF WeaponData
<1> HIDE DEF full
<1>5. Held(hc, hs, m, n) /\ hc.wpn[Famas] = full /\ hc.count = c.count
  <2> HIDE DEF hc, hs
  <2>1. Held(hc, hs, m, n)
    BY <1>4, HeldGun DEF hc, hs
  <2>2. c \in Frames
    BY DEF Held
  <2>3. hc.wpn[c.id] = full /\ hc.count = c.count
    BY <1>4, <2>2, SetGunFields DEF hc
  <2> QED
    BY <1>1, <2>1, <2>3
<1> HIDE DEF hc, hs
<1>6. PICK x \in Nat : x = c.count - j
  BY <1>1, <1>2
<1>7. rc = [hc EXCEPT !.count = x] /\ rs = [hs EXCEPT !.count = x]
  BY <1>5, <1>6 DEF Held
<1> HIDE DEF rc, rs
<1>8. /\ rc \in Frames /\ rc.id = hc.id /\ rc.type = hc.type /\ rc.count = x
      /\ rc.tab = hc.tab /\ rc.shoot = hc.shoot /\ rc.wpn = hc.wpn
      /\ rc.nextAttack = hc.nextAttack
  BY <1>5, <1>7 DEF Held, Frames
<1>9. /\ rs \in Frames /\ rs.id = hs.id /\ rs.type = hs.type /\ rs.count = x
      /\ rs.tab = hs.tab /\ rs.shoot = hs.shoot /\ rs.wpn = hs.wpn
      /\ rs.nextAttack = hs.nextAttack
  BY <1>5, <1>7 DEF Held, Frames
<1>10. Held(rc, rs, m, n)
  <2>1. hc.tab["556nato"] \in Int /\ hs.tab["556nato"] \in Int
    BY <1>5, WeaponNames DEF Held, Frames
  <2>2. x <= c.count /\ c.count \in Int /\ hs.count = c.count
    BY <1>1, <1>2, <1>5, <1>6 DEF Held
  <2>3. hc.tab["556nato"] >= x /\ hs.tab["556nato"] >= x
    BY <1>5, <1>6, <2>1, <2>2 DEF Held
  <2> QED
    BY <1>5, <1>8, <1>9, <2>3 DEF Held
<1>11. Held(Tabulated(TRUE, rc), Tabulated(FALSE, rs), m, n)
  BY <1>10, HeldTabulated
<1>12. Tabulated(TRUE, rc).wpn = rc.wpn
  BY DEF Tabulated
<1>13. CASE ~g.inReload
  BY <1>3, <1>13
<1>14. CASE g.inReload
  <2>1. CompleteReload(TRUE, c) = Tabulated(TRUE, rc)
        /\ CompleteReload(FALSE, s) = Tabulated(FALSE, rs)
    BY <1>3, <1>14
  <2>2. Tabulated(TRUE, rc).wpn[Famas].burst = g.burst
    BY <1>4, <1>5, <1>8, <1>12
  <2> QED
    BY <1>11, <2>1, <2>2 DEF g
<1> QED
  BY <1>13, <1>14

\* Asking to load a FAMAS whose reserve is tabulated in full is asking to load it.
LEMMA ReloadIsDefault ==
  ASSUME NEW f \in Frames, f.id = Famas, f.tab["556nato"] >= f.count
  PROVE  Reload(f) = DefaultReload(f)
<1>1. f.tab["556nato"] \in Int /\ f.count \in Int
  BY WeaponNames DEF Frames
<1>2. f.tab["556nato"] <= 0 => f.count <= 0
  BY <1>1
<1>3. f.count <= 0 => DefaultReload(f) = f
  BY DEF DefaultReload
<1> QED
  BY <1>2, <1>3, WeaponNames DEF Reload

\* What Act does to a FAMAS with no burst, in either program: the client's extra
\* tries to reload are refused, and the server's idle code only animates.
LEMMA FamasAct ==
  ASSUME NEW f, Good(f), f.id = Famas, f.shoot = NoShot,
         f.tab["556nato"] >= f.count,
         NEW client \in BOOLEAN, NEW buttons, NEW k
  PROVE  Act(client, f, buttons, k) =
           LET g == Gun(f) IN
           IF "attack2" \in buttons /\ g.nextSecondary <= 0 THEN ToggleBurst(f)
           ELSE IF "attack" \in buttons /\ g.nextPrimary <= 0
           THEN FamasFire(Tabulated(client, f), k)
           ELSE IF g.nextPrimary < 0
           THEN IF \/ "reload" \in buttons /\ ~g.inReload
                   \/ "attack2" \notin buttons /\ g.clip = 0
                THEN DefaultReload(f) ELSE f
           ELSE f
<1> DEFINE g == Gun(f)
           t == Tabulated(client, f)
<1>1. f \in Frames /\ g \in WeaponData /\ f.count \in Nat
  BY GoodGun DEF Good
<1>2. g.nextPrimary \in Int /\ g.nextSecondary \in Int
  BY <1>1, Times DEF WeaponData
<1>3. Reload(f) = DefaultReload(f)
  BY <1>1, ReloadIsDefault
<1>4. PrimaryAttack(t, k) = FamasFire(t, k)
  BY <1>1, WeaponNames DEF PrimaryAttack, Tabulated
<1>5. WeaponIdle(client, f) = f
  BY DEF WeaponIdle
<1>6. MayReload(f) <=> g.nextPrimary < 0
  BY DEF MayReload, Bursting
<1>7. ReloadBranch(client, f) <=> (client \/ g.nextPrimary < 0)
  BY DEF ReloadBranch
<1>8. ~(client \/ f.count > 0) => DefaultReload(f) = f
  BY <1>1 DEF DefaultReload
<1>9. Act(client, f, buttons, k) =
        IF "attack2" \in buttons /\ g.nextSecondary <= 0 THEN ToggleBurst(f)
        ELSE IF "attack" \in buttons /\ g.nextPrimary <= 0 THEN FamasFire(t, k)
        ELSE IF "reload" \in buttons /\ ~g.inReload /\ (client \/ g.nextPrimary < 0)
        THEN IF g.nextPrimary < 0 THEN DefaultReload(f) ELSE f
        ELSE IF "attack" \in buttons \/ "attack2" \in buttons THEN f
        ELSE IF g.clip = 0 /\ g.nextPrimary < 0 /\ (client \/ f.count > 0)
        THEN DefaultReload(f) ELSE f
  BY <1>3, <1>4, <1>5, <1>6, <1>7 DEF Act
<1> HIDE DEF g, t
<1>10. "attack" \in buttons /\ ~(g.nextPrimary <= 0) => ~(g.nextPrimary < 0)
  BY <1>2
<1> DEFINE r == Act(client, f, buttons, k)
<1> HIDE DEF r
<1>11. r = IF "attack2" \in buttons /\ g.nextSecondary <= 0 THEN ToggleBurst(f)
           ELSE IF "attack" \in buttons /\ g.nextPrimary <= 0
           THEN FamasFire(t, k)
           ELSE IF g.nextPrimary < 0
           THEN IF \/ "reload" \in buttons /\ ~g.inReload
                   \/ "attack2" \notin buttons /\ g.clip = 0
                THEN DefaultReload(f) ELSE f
           ELSE f
  BY <1>8, <1>9, <1>10 DEF r
<1> QED
  BY <1>11 DEF r, g, t

LEMMA HeldAct ==
  ASSUME NEW c, NEW s, NEW m, NEW n, Held(c, s, m, n), Good(c), Good(s),
         ~c.wpn[Famas].burst, NEW buttons, NEW k
  PROVE  Held(Act(TRUE, c, buttons, k), Act(FALSE, s, buttons, k), m, n)
<1> DEFINE tc == Tabulated(TRUE, c)
           ts == Tabulated(FALSE, s)
           rc == Act(TRUE, c, buttons, k)
           rs == Act(FALSE, s, buttons, k)
<1>1. Gun(c) = Gun(s)
  BY DEF Held, Gun
<1>2. /\ Held(ToggleBurst(c), ToggleBurst(s), m, n)
      /\ Held(DefaultReload(c), DefaultReload(s), m, n)
  BY HeldToggle, HeldLoad
<1>3. Held(FamasFire(tc, k), FamasFire(ts, k), m, n)
  <2>1. Held(tc, ts, m, n)
    BY HeldTabulated
  <2>2. tc = c
    BY DEF Tabulated
  <2> QED
    BY <2>1, <2>2, HeldFire
<1>4. /\ c.id = Famas /\ c.shoot = NoShot /\ c.tab["556nato"] >= c.count
      /\ s.id = Famas /\ s.shoot = NoShot /\ s.tab["556nato"] >= s.count
  BY DEF Held
<1> DEFINE toggle(f) == "attack2" \in buttons /\ Gun(f).nextSecondary <= 0
           fire(f) == "attack" \in buttons /\ Gun(f).nextPrimary <= 0
           load(f) == \/ "reload" \in buttons /\ ~Gun(f).inReload
                      \/ "attack2" \notin buttons /\ Gun(f).clip = 0
           does(client, f) ==
             IF toggle(f) THEN ToggleBurst(f)
             ELSE IF fire(f) THEN FamasFire(Tabulated(client, f), k)
             ELSE IF Gun(f).nextPrimary < 0
             THEN IF load(f) THEN DefaultReload(f) ELSE f
             ELSE f
<1>5. /\ toggle(c) <=> toggle(s)
      /\ fire(c) <=> fire(s)
      /\ load(c) <=> load(s)
  BY <1>1
<1>6. \A client \in BOOLEAN :
        /\ Act(client, c, buttons, k) = does(client, c)
        /\ Act(client, s, buttons, k) = does(client, s)
  BY <1>4, FamasAct
<1>7. rc = does(TRUE, c) /\ rs = does(FALSE, s)
  BY <1>6
<1> HIDE DEF rc, rs, toggle, fire, load
<1>8. Held(rc, rs, m, n)
  BY <1>1, <1>2, <1>3, <1>5, <1>7
<1> QED
  BY <1>8 DEF rc, rs

\* A command on the FAMAS that starts without the mode of bursts.
LEMMA HeldRun ==
  ASSUME NEW c, NEW s, NEW m, NEW n, Held(c, s, m, n), Good(c), Good(s),
         ~c.wpn[Famas].burst, NEW buttons, NEW k
  PROVE  Held(RunWeapon(TRUE, c, buttons, k), RunWeapon(FALSE, s, buttons, k),
              m, n)
<1> DEFINE lc == CompleteReload(TRUE, c)
           ls == CompleteReload(FALSE, s)
<1>1. ContinueBurst(TRUE, c, k) = c /\ ContinueBurst(FALSE, s, k) = s
  BY DEF ContinueBurst, Bursting, Held
<1>2. /\ RunWeapon(TRUE, c, buttons, k) =
           IF c.nextAttack <= 0 THEN Act(TRUE, lc, buttons, k) ELSE c
      /\ RunWeapon(FALSE, s, buttons, k) =
           IF s.nextAttack <= 0 THEN Act(FALSE, ls, buttons, k) ELSE s
  BY <1>1 DEF RunWeapon, ItemPostFrame
<1>3. Held(lc, ls, m, n) /\ lc.wpn[Famas].burst = c.wpn[Famas].burst
  BY HeldComplete
<1>4. Good(lc) /\ Good(ls)
  BY CompleteReloadStep DEF Step
<1> HIDE DEF lc, ls
<1>5. ~lc.wpn[Famas].burst
  BY <1>3
<1>6. Held(Act(TRUE, lc, buttons, k), Act(FALSE, ls, buttons, k), m, n)
  BY <1>3, <1>4, <1>5, HeldAct
<1>7. c.nextAttack = s.nextAttack
  BY DEF Held
<1> QED
  BY <1>2, <1>6, <1>7

-----------------------------------------------------------------------------
(***************************************************************************)
(* What the server's code keeps of the FAMAS, bursts included.             *)
(***************************************************************************)

\* A frame of the server with a fit FAMAS in hand; m is its M3.
Trained(f, m) ==
  /\ f \in Frames /\ f.id = Famas /\ f.type = "556nato"
  /\ f.wpn[M3] = m /\ FamasFit(f)

SameTimers(f, r) ==
  /\ r.wpn[Famas].nextPrimary = f.wpn[Famas].nextPrimary
  /\ r.wpn[Famas].nextSecondary = f.wpn[Famas].nextSecondary

LEMMA TrainedGun ==
  ASSUME NEW f, NEW m, Trained(f, m), NEW g \in WeaponData,
         f.shoot = NoShot \/ (g.burst /\ g.nextSecondary = g.nextPrimary)
  PROVE  /\ Trained(SetGun(f, g), m)
         /\ SetGun(f, g).wpn[Famas] = g /\ SetGun(f, g).shoot = f.shoot
         /\ SetGun(f, g).shots = f.shots /\ SetGun(f, g).count = f.count
<1> DEFINE r == SetGun(f, g)
<1>1. M3 \in Weapons \ {Famas}
  BY WeaponNames
<1>2. /\ r \in Frames /\ r.id = f.id /\ r.type = f.type /\ r.count = f.count
      /\ r.tab = f.tab /\ r.shoot = f.shoot /\ r.shots = f.shots
      /\ r.wpn[Famas] = g /\ r.wpn[M3] = f.wpn[M3]
  BY <1>1, SetGunFields DEF Trained
<1> HIDE DEF r
<1>3. Trained(r, m)
  BY <1>2 DEF Trained, FamasFit
<1> QED
  BY <1>2, <1>3 DEF r

\* Fields of a frame that no fit depends on, and a burst that ends.
LEMMA TrainedFields ==
  ASSUME NEW f, NEW m, Trained(f, m), NEW r \in Frames, r.id = f.id,
         r.type = f.type, r.wpn = f.wpn, r.tab["556nato"] >= r.count,
         r.shoot = NoShot \/ f.shoot # NoShot
  PROVE  Trained(r, m) /\ SameTimers(f, r)
BY DEF Trained, FamasFit, SameTimers

LEMMA ContinueBurstFit ==
  ASSUME NEW f, NEW m, Trained(f, m), NEW k \in Nat
  PROVE  LET r == ContinueBurst(FALSE, f, k) IN Trained(r, m) /\ SameTimers(f, r)
<1> DEFINE g == f.wpn[Famas]
           dry == [g EXCEPT !.clip = 0]
           shot == [g EXCEPT !.clip = @ - 1]
           d == SetGun(f, dry)
           h == SetGun(f, shot)
           fired == [h EXCEPT !.tab["556nato"] = IF FALSE THEN @ - 1 ELSE @]
           more == [fired EXCEPT !.shots = @ + 1, !.shoot = k + BurstGap]
<1>1. g \in WeaponData /\ Gun(f) = g /\ f.id = Famas /\ f \in Frames
  BY WeaponNames DEF Trained, Frames, Gun
<1>2. CASE f.shoot = NoShot
  BY <1>2 DEF ContinueBurst, Bursting, SameTimers
<1>3. CASE f.shoot # NoShot
  <2>1. g.burst /\ g.nextSecondary = g.nextPrimary
    BY <1>3 DEF Trained, FamasFit
  <2>2. ContinueBurst(FALSE, f, k) \in
          {f, EndBurst(d), more, EndBurst(fired)}
    <3>1. ContinueBurst(FALSE, f, k) \in {f, FireRemaining(FALSE, f, k)}
      BY DEF ContinueBurst
    <3>2. FireRemaining(FALSE, f, k) \in {EndBurst(d), more, EndBurst(fired)}
      <4>1. FireRemaining(FALSE, f, k) =
              IF g.clip - 1 < 0 THEN EndBurst(d)
              ELSE IF f.shots + 1 # 3
              THEN [fired EXCEPT !.shots = @ + 1, !.shoot = k + BurstGap]
              ELSE EndBurst(fired)
        BY <1>1 DEF FireRemaining
      <4> QED
        BY <4>1
    <3> QED
      BY <3>1, <3>2
  <2> HIDE DEF g
  <2>3. /\ dry \in WeaponData /\ dry.burst = g.burst
        /\ dry.nextPrimary = g.nextPrimary /\ dry.nextSecondary = g.nextSecondary
        /\ shot \in WeaponData /\ shot.burst = g.burst
        /\ shot.nextPrimary = g.nextPrimary /\ shot.nextSecondary = g.nextSecondary
    <3>1. PICK x \in Int : x = g.clip - 1
      BY <1>1 DEF WeaponData
    <3>2. shot = [g EXCEPT !.clip = x]
      BY <3>1
    <3> HIDE DEF shot
    <3> QED
      BY <1>1, <3>2 DEF WeaponData
  <2> HIDE DEF dry, shot
  <2>4. /\ Trained(d, m) /\ d.wpn[Famas] = dry /\ d.shoot = f.shoot
        /\ Trained(h, m) /\ h.wpn[Famas] = shot /\ h.shoot = f.shoot
    <3>1. dry.burst /\ dry.nextSecondary = dry.nextPrimary
          /\ shot.burst /\ shot.nextSecondary = shot.nextPrimary
      BY <2>1, <2>3
    <3> QED
      BY <2>3, <3>1, TrainedGun
  <2> HIDE DEF d, h
  <2>5. /\ fired \in Frames /\ fired.id = h.id /\ fired.type = h.type
        /\ fired.wpn = h.wpn /\ fired.tab["556nato"] = h.tab["556nato"]
        /\ fired.count = h.count /\ fired.shoot = h.shoot
    BY <2>4, WeaponNames DEF Trained, Frames
  <2> HIDE DEF fired
  <2>6. Trained(fired, m)
    BY <1>3, <2>4, <2>5, TrainedFields DEF Trained, FamasFit
  <2>7. \A e \in {d, fired} :
          /\ EndBurst(e) \in Frames /\ EndBurst(e).id = e.id
          /\ EndBurst(e).type = e.type /\ EndBurst(e).wpn = e.wpn
          /\ EndBurst(e).tab = e.tab /\ EndBurst(e).count = e.count
          /\ EndBurst(e).shoot = NoShot
    BY <2>4, <2>5 DEF EndBurst, Trained, Frames
  <2>8. \A e \in {d, fired} : Trained(EndBurst(e), m) /\ SameTimers(e, EndBurst(e))
    <3> SUFFICES ASSUME NEW e \in {d, fired}
                 PROVE  Trained(EndBurst(e), m) /\ SameTimers(e, EndBurst(e))
      OBVIOUS
    <3>1. Trained(e, m) /\ e.tab["556nato"] >= e.count
      BY <2>4, <2>6 DEF Trained, FamasFit
    <3> QED
      BY <2>7, <3>1, TrainedFields
  <2>9. /\ more \in Frames /\ more.id = fired.id /\ more.type = fired.type
        /\ more.wpn = fired.wpn /\ more.tab = fired.tab
        /\ more.count = fired.count
    <3>1. k + BurstGap \in Nat
      BY TimeAssumption
    <3>2. PICK x \in Nat : x = fired.shots + 1
      BY <2>5 DEF Frames
    <3>3. more = [fired EXCEPT !.shots = x, !.shoot = k + BurstGap]
      BY <3>2
    <3> HIDE DEF more
    <3> QED
      BY <2>5, <3>1, <3>3 DEF Frames
  <2> HIDE DEF more
  <2>10. Trained(more, m) /\ SameTimers(fired, more)
    <3>1. fired.tab["556nato"] >= fired.count /\ fired.shoot # NoShot
      BY <1>3, <2>4, <2>5, <2>6 DEF Trained, FamasFit
    <3> QED
      BY <2>6, <2>9, <3>1, TrainedFields
  <2>11. SameTimers(f, d) /\ SameTimers(f, fired)
    BY <2>3, <2>4, <2>5 DEF SameTimers, g
  <2> DEFINE r == ContinueBurst(FALSE, f, k)
  <2>12. r = f \/ r = EndBurst(d) \/ r = more \/ r = EndBurst(fired)
    BY <2>2
  <2> HIDE DEF r
  <2>13. Trained(r, m) /\ SameTimers(f, r)
    BY <2>8, <2>10, <2>11, <2>12 DEF SameTimers
  <2> QED
    BY <2>13 DEF r
<1> QED
  BY <1>2, <1>3

LEMMA TabulatedFit ==
  ASSUME NEW f, NEW m, f \in Frames, f.id = Famas, f.type = "556nato",
         f.wpn[M3] = m,
         f.shoot # NoShot => /\ f.wpn[Famas].burst
                             /\ f.wpn[Famas].nextSecondary = f.wpn[Famas].nextPrimary
  PROVE  LET r == Tabulated(FALSE, f) IN
         /\ Trained(r, m) /\ r.wpn = f.wpn /\ r.shoot = f.shoot
<1> DEFINE r == [f EXCEPT !.tab[f.type] = f.count]
<1>1. /\ r \in Frames /\ r.id = f.id /\ r.type = f.type /\ r.count = f.count
      /\ r.wpn = f.wpn /\ r.shoot = f.shoot /\ r.tab["556nato"] = f.count
      /\ f.count \in Int
  BY WeaponNames DEF Frames
<1>2. Tabulated(FALSE, f) = r
  BY DEF Tabulated
<1> HIDE DEF r
<1>3. r.tab["556nato"] >= r.count
  BY <1>1
<1>4. Trained(r, m)
  BY <1>1, <1>3 DEF Trained, FamasFit
<1> QED
  BY <1>1, <1>2, <1>4

LEMMA CompleteReloadFit ==
  ASSUME NEW f, NEW m, Trained(f, m), Good(f)
  PROVE  LET r == CompleteReload(FALSE, f) IN Trained(r, m) /\ SameTimers(f, r)
<1> DEFINE g == f.wpn[Famas]
           j == MinOf(MaxClip[Famas] - g.clip, f.count)
           full == [g EXCEPT !.clip = @ + j, !.inReload = FALSE]
           h == SetGun(f, full)
           l == [h EXCEPT !.count = @ - j]
<1>1. /\ g \in WeaponData /\ g.clip \in 0 .. MaxClip[Famas]
      /\ MaxClip[Famas] \in Nat /\ f.count \in Nat
      /\ Gun(f) = g /\ f.id = Famas /\ f \in Frames
      /\ f.shoot # NoShot => g.burst /\ g.nextSecondary = g.nextPrimary
  BY GoodGun DEF Trained, FamasFit, Gun, Good
<1>2. j \in Nat /\ j <= f.count
  BY <1>1 DEF MinOf
<1>3. CompleteReload(FALSE, f) = IF ~g.inReload THEN f ELSE Tabulated(FALSE, l)
  BY <1>1 DEF CompleteReload
<1> HIDE DEF j, g
<1>4. /\ full \in WeaponData /\ full.burst = g.burst
      /\ full.nextPrimary = g.nextPrimary /\ full.nextSecondary = g.nextSecondary
  <2>1. PICK x \in Int : x = g.clip + j
    BY <1>1, <1>2
  <2>2. full = [g EXCEPT !.clip = x, !.inReload = FALSE]
    BY <2>1
  <2> HIDE DEF full
  <2> QED
    BY <1>1, <2>2 DEF WeaponData
<1> HIDE DEF full
<1>5. Trained(h, m) /\ h.wpn[Famas] = full /\ h.shoot = f.shoot /\ h.count = f.count
  BY <1>1, <1>4, TrainedGun
<1> HIDE DEF h
<1>6. PICK x \in Nat : x = f.count - j
  BY <1>1, <1>2
<1>7. l = [h EXCEPT !.count = x]
  BY <1>5, <1>6
<1> HIDE DEF l
<1>8. /\ l \in Frames /\ l.id = Famas /\ l.type = "556nato" /\ l.wpn = h.wpn
      /\ l.wpn[M3] = m /\ l.shoot = f.shoot
  BY <1>5, <1>7 DEF Trained, Frames
<1>9. LET r == Tabulated(FALSE, l) IN
      Trained(r, m) /\ r.wpn = l.wpn /\ r.shoot = l.shoot
  <2>1. l.shoot # NoShot => /\ l.wpn[Famas].burst
                            /\ l.wpn[Famas].nextSecondary = l.wpn[Famas].nextPrimary
    BY <1>1, <1>4, <1>5, <1>8
  <2> QED
    BY <1>8, <2>1, TabulatedFit
<1>10. SameTimers(f, Tabulated(FALSE, l))
  BY <1>4, <1>5, <1>8, <1>9 DEF SameTimers, g
<1>11. SameTimers(f, f)
  BY DEF SameTimers
<1> QED
  BY <1>3, <1>9, <1>10, <1>11

\* A FAMAS that is busy with both attacks does nothing on the server.
LEMMA ActWaits ==
  ASSUME NEW f, f \in Frames, f.id = Famas, Gun(f).nextPrimary > 0,
         Gun(f).nextSecondary > 0, NEW buttons, NEW k
  PROVE  Act(FALSE, f, buttons, k) = f
<1>1. Gun(f).nextPrimary \in Int /\ Gun(f).nextSecondary \in Int
  BY Times DEF Frames, WeaponData, Gun
<1>2. /\ ~(Gun(f).nextPrimary <= 0) /\ ~(Gun(f).nextPrimary < 0)
      /\ ~(Gun(f).nextSecondary <= 0)
  BY <1>1
<1>3. WeaponIdle(FALSE, f) = f
  BY DEF WeaponIdle
<1> QED
  BY <1>2, <1>3 DEF Act, ReloadBranch, MayReload

\* Without a burst the server's command keeps the FAMAS fit, and may begin one.
LEMMA ActFit ==
  ASSUME NEW f, NEW m, Trained(f, m), Good(f), f.shoot = NoShot,
         NEW buttons, NEW k \in Nat
  PROVE  Trained(Act(FALSE, f, buttons, k), m)
<1> DEFINE g == f.wpn[Famas]
           t == Tabulated(FALSE, f)
           mode == [g EXCEPT !.burst = ~@, !.nextSecondary = ModeTime]
           delay == IF g.burst THEN BurstTime ELSE CycleTime
           shot == [g EXCEPT !.clip = @ - 1, !.nextPrimary = delay,
                             !.nextSecondary = delay]
           dry == [g EXCEPT !.nextPrimary = EmptyTime]
           load == [g EXCEPT !.inReload = TRUE]
           t0 == IF g.burst THEN [t EXCEPT !.shots = 0] ELSE t
           s0 == SetGun(t0, dry)
           fired == SetGun(t, shot)
           burst == [fired EXCEPT !.shots = 1, !.shoot = k]
           h == SetGun(f, load)
           l == [h EXCEPT !.nextAttack = ReloadTime]
<1>1. g \in WeaponData /\ Gun(f) = g /\ f.id = Famas /\ f \in Frames
      /\ f.tab["556nato"] >= f.count
  BY WeaponNames DEF Trained, FamasFit, Frames, Gun
<1>2. Trained(t, m) /\ t.wpn = f.wpn /\ t.shoot = NoShot /\ Gun(t) = g
  <2>1. Trained(t, m) /\ t.wpn = f.wpn /\ t.shoot = f.shoot
    BY <1>1, TabulatedFit DEF Trained
  <2> QED
    BY <2>1 DEF Trained, Gun
<1>3. Act(FALSE, f, buttons, k) \in
        {f, ToggleBurst(f), FamasFire(t, k), DefaultReload(f)}
  BY <1>1, FamasAct
<1>4. ToggleBurst(f) = SetGun(f, mode) /\ DefaultReload(f) \in {f, l}
  BY <1>1 DEF ToggleBurst, DefaultReload
<1>5. FamasFire(t, k) = IF g.clip <= 0 THEN s0
                        ELSE IF g.burst THEN burst ELSE fired
  BY <1>2 DEF FamasFire
<1> HIDE DEF g, t
<1>6. mode \in WeaponData /\ dry \in WeaponData /\ load \in WeaponData
  BY <1>1, Times DEF WeaponData
<1>7. /\ shot \in WeaponData /\ shot.burst = g.burst
      /\ shot.nextSecondary = shot.nextPrimary
  <2> delay \in Timers
    BY Times
  <2>1. PICK x \in Int : x = g.clip - 1
    BY <1>1 DEF WeaponData
  <2>2. shot = [g EXCEPT !.clip = x, !.nextPrimary = delay,
                         !.nextSecondary = delay]
    BY <2>1
  <2> HIDE DEF shot, delay
  <2> QED
    BY <1>1, <2>2 DEF WeaponData
<1> HIDE DEF mode, dry, load, shot
<1>8. Trained(SetGun(f, mode), m) /\ Trained(h, m) /\ h.shoot = NoShot
  BY <1>6, TrainedGun
<1>9. Trained(t0, m) /\ t0.shoot = NoShot
  <2>1. /\ t0 \in Frames /\ t0.id = t.id /\ t0.type = t.type /\ t0.wpn = t.wpn
        /\ t0.tab = t.tab /\ t0.count = t.count /\ t0.shoot = t.shoot
    BY <1>2 DEF Trained, Frames
  <2> HIDE DEF t0
  <2> QED
    BY <1>2, <2>1, TrainedFields DEF Trained, FamasFit
<1> HIDE DEF t0
<1>10. Trained(s0, m)
  BY <1>6, <1>9, TrainedGun
<1>11. Trained(fired, m) /\ fired.wpn[Famas] = shot
  BY <1>2, <1>7, TrainedGun
<1> HIDE DEF s0, fired, h
<1>12. g.burst => Trained(burst, m)
  <2>1. /\ burst \in Frames /\ burst.id = fired.id /\ burst.type = fired.type
        /\ burst.wpn = fired.wpn /\ burst.tab = fired.tab
        /\ burst.count = fired.count
    BY <1>11 DEF Trained, Frames
  <2> HIDE DEF burst
  <2> QED
    BY <1>7, <1>11, <2>1 DEF Trained, FamasFit
<1>13. Trained(l, m)
  <2>1. /\ l \in Frames /\ l.id = h.id /\ l.type = h.type /\ l.wpn = h.wpn
        /\ l.tab = h.tab /\ l.count = h.count /\ l.shoot = h.shoot
    BY <1>8, Times DEF Trained, Frames
  <2> HIDE DEF l
  <2> QED
    BY <1>8, <2>1, TrainedFields DEF Trained, FamasFit
<1> HIDE DEF burst, l
<1>14. Trained(FamasFire(t, k), m) /\ Trained(DefaultReload(f), m)
       /\ Trained(ToggleBurst(f), m)
  BY <1>4, <1>5, <1>8, <1>10, <1>11, <1>12, <1>13
<1> QED
  BY <1>3, <1>14

LEMMA FamasRunFit ==
  ASSUME NEW f, NEW m, Trained(f, m), Good(f), NEW buttons,
         NEW k \in Nat \ {0}, BurstTimed(f, k - 1, 0)
  PROVE  Trained(RunWeapon(FALSE, f, buttons, k), m)
<1> DEFINE b == ContinueBurst(FALSE, f, k)
           c == CompleteReload(FALSE, b)
<1>1. RunWeapon(FALSE, f, buttons, k) \in {f, Act(FALSE, c, buttons, k)}
  BY DEF RunWeapon, ItemPostFrame
<1>2. Trained(b, m) /\ SameTimers(f, b) /\ Good(b)
  BY ContinueBurstFit, ContinueBurstStep DEF Step
<1>3. f.shoot = NoShot => b = f
  BY DEF ContinueBurst, Bursting
<1> HIDE DEF b
<1>4. Trained(c, m) /\ SameTimers(b, c) /\ Good(c)
  BY <1>2, CompleteReloadFit, CompleteReloadStep DEF Step
<1>5. c.shoot = b.shoot
  BY <1>2, CompleteReloadBurst DEF SameBurst
<1> HIDE DEF c
<1>6. CASE f.shoot = NoShot
  BY <1>1, <1>3, <1>4, <1>5, <1>6, ActFit
<1>7. CASE f.shoot # NoShot
  <2>1. f.wpn[Famas].nextPrimary - 0 > 0 /\ f.wpn[Famas].nextPrimary \in Int
        /\ f.wpn[Famas].nextSecondary = f.wpn[Famas].nextPrimary
    BY <1>7, WeaponNames, Times
       DEF BurstTimed, Trained, FamasFit, Frames, WeaponData
  <2>2. /\ c.id = Famas /\ c \in Frames
        /\ Gun(c).nextPrimary > 0 /\ Gun(c).nextSecondary > 0
    BY <1>2, <1>4, <2>1 DEF SameTimers, Gun, Trained
  <2>3. Act(FALSE, c, buttons, k) = c
    BY <2>2, ActWaits
  <2> QED
    BY <1>1, <1>4, <2>3
<1> QED
  BY <1>6, <1>7

-----------------------------------------------------------------------------
(***************************************************************************)
(* The M3: what one piece of its code leaves, field by field.              *)
(***************************************************************************)

\* Code that runs with the M3 in hand touches nothing of the FAMAS.
InHand(f, r) ==
  /\ r \in Frames /\ r.id = M3 /\ r.type = f.type /\ r.shoot = f.shoot
  /\ r.wpn[Famas] = f.wpn[Famas]
  /\ r.tab["556nato"] = f.tab["556nato"]

CanLoad(f) ==
  ~(f.count <= 0 \/ f.wpn[M3].clip = MaxClip[M3] \/ f.wpn[M3].nextPrimary > 0)

LEMMA ShotgunTyped ==
  ASSUME NEW f, Good(f), f.id = M3
  PROVE  /\ f \in Frames /\ Gun(f) = f.wpn[M3] /\ f.wpn[M3] \in WeaponData
         /\ f.wpn[M3].clip \in Nat /\ f.count \in Nat /\ MaxClip[M3] \in Nat \ {0}
         /\ f.wpn[M3].clip <= MaxClip[M3]
         /\ f.wpn[M3].special \in 0 .. 2
         /\ f.wpn[M3].idle \in Int /\ f.wpn[M3].idle >= -1
         /\ f.wpn[M3].nextPrimary \in Int /\ f.wpn[M3].nextPrimary >= -1
         /\ f.nextAttack \in Int
<1>1. f \in Frames /\ Gun(f) = f.wpn[M3] /\ f.wpn[M3] \in WeaponData
      /\ Gun(f).clip \in 0 .. MaxClip[M3] /\ MaxClip[M3] \in Nat \ {0}
      /\ f.count \in Nat
  BY GoodGun DEF Good, Gun
<1>2. f.wpn[M3].special \in 0 .. 2 /\ f.wpn[M3].idle \in Timers
      /\ f.wpn[M3].nextPrimary \in Timers /\ f.nextAttack \in Timers
  BY <1>1 DEF WeaponData, Frames
<1>3. \A t \in Timers : t \in Int /\ t >= -1
  BY DEF Timers
<1> QED
  BY <1>1, <1>2, <1>3

LEMMA ShotgunSet ==
  ASSUME NEW f \in Frames, f.id = M3, NEW g \in WeaponData
  PROVE  LET r == SetGun(f, g) IN
         /\ InHand(f, r) /\ r.wpn[M3] = g /\ r.count = f.count
         /\ r.nextAttack = f.nextAttack /\ r.tab = f.tab
<1>1. Famas \in Weapons \ {M3}
  BY WeaponNames
<1> QED
  BY <1>1, SetGunFields DEF InHand

LEMMA ShotgunReloadResult ==
  ASSUME NEW f, Good(f), f.id = M3
  PROVE  LET r == ShotgunReload(f)
             g == f.wpn[M3]
             h == r.wpn[M3] IN
         /\ InHand(f, r) /\ Good(r)
         /\ ~CanLoad(f) => r = f
         /\ CanLoad(f) /\ g.special = 0 =>
              /\ h = [g EXCEPT !.special = 1, !.idle = StartTime,
                               !.nextPrimary = StartTime]
              /\ r.nextAttack = StartTime /\ r.count = f.count
         /\ CanLoad(f) /\ g.special = 1 /\ g.idle > 0 => r = f
         /\ CanLoad(f) /\ g.special = 1 /\ ~(g.idle > 0) =>
              /\ h = [g EXCEPT !.special = 2, !.idle = ShellTime]
              /\ r.nextAttack = f.nextAttack /\ r.count = f.count
         /\ CanLoad(f) /\ g.special = 2 =>
              /\ h = [g EXCEPT !.clip = @ + 1, !.special = 1]
              /\ r.nextAttack = f.nextAttack /\ r.count = f.count - 1
<1> DEFINE g == f.wpn[M3]
           r == ShotgunReload(f)
           g0 == [g EXCEPT !.special = 1, !.idle = StartTime,
                           !.nextPrimary = StartTime]
           g1 == [g EXCEPT !.special = 2, !.idle = ShellTime]
           g2 == [g EXCEPT !.clip = @ + 1, !.special = 1]
           h0 == SetGun(f, g0)
           h2 == SetGun(f, g2)
           r0 == [h0 EXCEPT !.nextAttack = StartTime]
           r1 == SetGun(f, g1)
           r2 == [h2 EXCEPT !.count = @ - 1, !.tab["buckshot"] = @ - 1]
<1>1. /\ f \in Frames /\ g \in WeaponData /\ g.clip \in Nat /\ f.count \in Nat
      /\ g.special \in 0 .. 2 /\ Gun(f) = g
  BY ShotgunTyped
<1>2. r = IF ~CanLoad(f) THEN f
          ELSE IF g.special = 0 THEN r0
          ELSE IF g.special = 1 THEN IF g.idle > 0 THEN f ELSE r1
          ELSE r2
  BY <1>1 DEF ShotgunReload, CanLoad
<1>3. Good(r)
  BY ShotgunReloadStep DEF Step
<1> HIDE DEF r, g
<1>4. g0 \in WeaponData /\ g1 \in WeaponData /\ g2 \in WeaponData
  <2>1. 1 \in 0 .. 2 /\ 2 \in 0 .. 2
    OBVIOUS
  <2>2. PICK x \in Int : x = g.clip + 1
    BY <1>1
  <2>3. g2 = [g EXCEPT !.clip = x, !.special = 1]
    BY <2>2
  <2> HIDE DEF g2
  <2> QED
    BY <1>1, <2>1, <2>3, Times, ShotgunTypes
<1> HIDE DEF g0, g1, g2
<1>5. /\ InHand(f, h0) /\ h0.wpn[M3] = g0 /\ h0.count = f.count
      /\ h0.nextAttack = f.nextAttack
      /\ InHand(f, r1) /\ r1.wpn[M3] = g1 /\ r1.count = f.count
      /\ r1.nextAttack = f.nextAttack
      /\ InHand(f, h2) /\ h2.wpn[M3] = g2 /\ h2.count = f.count
      /\ h2.nextAttack = f.nextAttack
  BY <1>1, <1>4, ShotgunSet
<1> HIDE DEF h0, r1, h2
<1>6. InHand(f, r0) /\ r0.wpn[M3] = g0 /\ r0.nextAttack = StartTime
      /\ r0.count = f.count
  BY <1>5, Times DEF InHand, Frames
<1>7. CanLoad(f) =>
        InHand(f, r2) /\ r2.wpn[M3] = g2 /\ r2.nextAttack = f.nextAttack
        /\ r2.count = f.count - 1
  <2> SUFFICES ASSUME CanLoad(f)
               PROVE  InHand(f, r2) /\ r2.wpn[M3] = g2
                      /\ r2.nextAttack = f.nextAttack /\ r2.count = f.count - 1
    OBVIOUS
  <2>1. PICK x \in Nat : x = f.count - 1
    BY <1>1 DEF CanLoad
  <2>2. PICK y \in Int : y = h2.tab["buckshot"] - 1
    BY <1>5, WeaponNames DEF InHand, Frames
  <2>3. r2 = [h2 EXCEPT !.count = x, !.tab["buckshot"] = y]
    BY <1>5, <2>1, <2>2
  <2> HIDE DEF r2
  <2> QED
    BY <1>5, <2>1, <2>3, WeaponNames DEF InHand, Frames
<1>8. InHand(f, f)
  BY <1>1 DEF InHand
<1> HIDE DEF r0, r2
<1>9. /\ InHand(f, r) /\ Good(r)
      /\ ~CanLoad(f) => r = f
      /\ CanLoad(f) /\ g.special = 0 =>
           r.wpn[M3] = g0 /\ r.nextAttack = StartTime /\ r.count = f.count
      /\ CanLoad(f) /\ g.special = 1 /\ g.idle > 0 => r = f
      /\ CanLoad(f) /\ g.special = 1 /\ ~(g.idle > 0) =>
           r.wpn[M3] = g1 /\ r.nextAttack = f.nextAttack /\ r.count = f.count
      /\ CanLoad(f) /\ g.special = 2 =>
           r.wpn[M3] = g2 /\ r.nextAttack = f.nextAttack /\ r.count = f.count - 1
  BY <1>1, <1>2, <1>3, <1>5, <1>6, <1>7, <1>8
<1> QED
  BY <1>9 DEF r, g, g0, g1, g2

-----------------------------------------------------------------------------
(***************************************************************************)
(* The M3 in both programs.                                                *)
(***************************************************************************)

\* Frames of the two programs with the same M3 in hand but for its idle timer.
Paired(c, s) ==
  /\ c \in Frames /\ s \in Frames
  /\ c.id = M3 /\ s.id = M3 /\ c.type = "buckshot" /\ s.type = "buckshot"
  /\ c.nextAttack = s.nextAttack /\ c.count = s.count
  /\ c.wpn[Famas] = s.wpn[Famas] /\ c.shoot = NoShot
  /\ AlikeGun(c.wpn[M3], s.wpn[M3])

SameIdle(c, s) == c.wpn[M3].idle = s.wpn[M3].idle

LEMMA AlikeFields ==
  ASSUME NEW g \in WeaponData, NEW h \in WeaponData, AlikeGun(g, h)
  PROVE  /\ h.clip = g.clip /\ h.special = g.special
         /\ h.nextPrimary = g.nextPrimary /\ h.inReload = g.inReload
         /\ g.idle = h.idle => g = h
<1>1. h = [g EXCEPT !.idle = h.idle]
  BY DEF AlikeGun
<1>2. PICK j \in Timers : j = h.idle
  BY DEF WeaponData
<1>3. h = [g EXCEPT !.idle = j] /\ g = [g EXCEPT !.idle = g.idle]
  BY <1>1, <1>2 DEF WeaponData
<1> QED
  BY <1>2, <1>3 DEF WeaponData

LEMMA AlikeSelf ==
  ASSUME NEW g \in WeaponData
  PROVE  AlikeGun(g, g)
BY DEF AlikeGun, WeaponData

\* Whatever sets the idle timer makes the two guns the same.
LEMMA AlikeStart ==
  ASSUME NEW g \in WeaponData, NEW h \in WeaponData, AlikeGun(g, h)
  PROVE  [g EXCEPT !.special = 1, !.idle = StartTime, !.nextPrimary = StartTime]
           = [h EXCEPT !.special = 1, !.idle = StartTime, !.nextPrimary = StartTime]
<1>1. PICK j \in Timers : j = h.idle
  BY DEF WeaponData
<1>2. h = [g EXCEPT !.idle = j]
  BY <1>1 DEF AlikeGun
<1> QED
  BY <1>1, <1>2 DEF WeaponData

LEMMA AlikeStop ==
  ASSUME NEW g \in WeaponData, NEW h \in WeaponData, AlikeGun(g, h)
  PROVE  [g EXCEPT !.special = 0, !.idle = IdleTime]
           = [h EXCEPT !.special = 0, !.idle = IdleTime]
<1>1. PICK j \in Timers : j = h.idle
  BY DEF WeaponData
<1>2. h = [g EXCEPT !.idle = j]
  BY <1>1 DEF AlikeGun
<1> QED
  BY <1>1, <1>2 DEF WeaponData

\* The gun after a shot that leaves x shells.
AfterShot(g, x, i) ==
  [g EXCEPT !.clip = x, !.nextPrimary = ShotTime, !.special = 0, !.idle = i]

LEMMA AlikeShot ==
  ASSUME NEW g \in WeaponData, NEW h \in WeaponData, AlikeGun(g, h),
         NEW x \in Int, NEW i \in Timers
  PROVE  AfterShot(g, x, i) = AfterShot(h, x, i)
<1>1. PICK j \in Timers : j = h.idle
  BY DEF WeaponData
<1>2. h = [g EXCEPT !.idle = j]
  BY <1>1 DEF AlikeGun
<1> QED
  BY <1>1, <1>2 DEF WeaponData, AfterShot

LEMMA AlikeDry ==
  ASSUME NEW g \in WeaponData, NEW h \in WeaponData, AlikeGun(g, h)
  PROVE  AlikeGun([g EXCEPT !.nextPrimary = DryTime],
                  [h EXCEPT !.nextPrimary = DryTime])
<1>1. PICK j \in Timers : j = h.idle
  BY DEF WeaponData
<1>2. h = [g EXCEPT !.idle = j]
  BY <1>1 DEF AlikeGun
<1> QED
  BY <1>1, <1>2 DEF WeaponData, AlikeGun

LEMMA AlikeReset ==
  ASSUME NEW g \in WeaponData, NEW h \in WeaponData, AlikeGun(g, h)
  PROVE  AlikeGun(g, [h EXCEPT !.idle = IdleTime])
<1>1. PICK j \in Timers : j = h.idle
  BY DEF WeaponData
<1>2. h = [g EXCEPT !.idle = j]
  BY <1>1 DEF AlikeGun
<1> QED
  BY <1>1, <1>2 DEF WeaponData, AlikeGun

LEMMA PairedResult ==
  ASSUME NEW c, NEW s, Paired(c, s), NEW rc, NEW rs,
         InHand(c, rc), InHand(s, rs), AlikeGun(rc.wpn[M3], rs.wpn[M3]),
         rc.count = rs.count, rc.nextAttack = rs.nextAttack
  PROVE  Paired(rc, rs)
BY DEF Paired, InHand

LEMMA PairedTyped ==
  ASSUME NEW c, NEW s, Paired(c, s), Good(c), Good(s)
  PROVE  LET g == c.wpn[M3]
             h == s.wpn[M3] IN
         /\ g \in WeaponData /\ h \in WeaponData /\ AlikeGun(g, h)
         /\ Gun(c) = g /\ Gun(s) = h
         /\ h.clip = g.clip /\ h.special = g.special
         /\ h.nextPrimary = g.nextPrimary /\ h.inReload = g.inReload
         /\ SameIdle(c, s) => g = h
<1>1. c.wpn[M3] \in WeaponData /\ s.wpn[M3] \in WeaponData
      /\ Gun(c) = c.wpn[M3] /\ Gun(s) = s.wpn[M3]
  BY ShotgunTyped DEF Paired
<1>2. AlikeGun(c.wpn[M3], s.wpn[M3])
  BY DEF Paired
<1> QED
  BY <1>1, <1>2, AlikeFields DEF SameIdle

\* Both programs load alike, unless they wait for different times to do it.
LEMMA PairedReload ==
  ASSUME NEW c, NEW s, Paired(c, s), Good(c), Good(s),
         SameIdle(c, s) \/ c.wpn[M3].special = 0
  PROVE  LET rc == ShotgunReload(c)
             rs == ShotgunReload(s) IN
         /\ Paired(rc, rs)
         /\ SameIdle(c, s) \/ CanLoad(c) => SameIdle(rc, rs)
         /\ ~CanLoad(c) => rc = c /\ rs = s
         /\ InHand(c, rc) /\ InHand(s, rs) /\ Good(rc) /\ Good(rs)
<1> DEFINE g == c.wpn[M3]
           h == s.wpn[M3]
           rc == ShotgunReload(c)
           rs == ShotgunReload(s)
<1>1. c.id = M3 /\ s.id = M3 /\ c.count = s.count /\ c.nextAttack = s.nextAttack
  BY DEF Paired
<1>2. /\ g \in WeaponData /\ h \in WeaponData /\ AlikeGun(g, h)
      /\ h.clip = g.clip /\ h.special = g.special
      /\ h.nextPrimary = g.nextPrimary /\ (SameIdle(c, s) => g = h)
      /\ g.special \in 0 .. 2 /\ g.clip \in Nat
  BY <1>1, PairedTyped, ShotgunTyped
<1>3. CanLoad(c) <=> CanLoad(s)
  BY <1>1, <1>2 DEF CanLoad
<1>4. /\ InHand(c, rc) /\ Good(rc) /\ InHand(s, rs) /\ Good(rs)
      /\ ~CanLoad(c) => rc = c /\ rs = s
  BY <1>1, <1>3, ShotgunReloadResult
<1>5. CASE ~CanLoad(c)
  BY <1>4, <1>5
<1>6. CASE CanLoad(c) /\ g.special = 0
  <2> DEFINE g0 == [g EXCEPT !.special = 1, !.idle = StartTime,
                             !.nextPrimary = StartTime]
  <2>1. rc.wpn[M3] = g0 /\ rc.nextAttack = StartTime /\ rc.count = c.count
    BY <1>1, <1>6, ShotgunReloadResult
  <2>2. rs.wpn[M3] = [h EXCEPT !.special = 1, !.idle = StartTime,
                               !.nextPrimary = StartTime]
        /\ rs.nextAttack = StartTime /\ rs.count = s.count
    BY <1>1, <1>2, <1>3, <1>6, ShotgunReloadResult
  <2>3. g0 = [h EXCEPT !.special = 1, !.idle = StartTime,
                       !.nextPrimary = StartTime]
    BY <1>2, AlikeStart
  <2>4. rs.wpn[M3] = g0
    BY <2>2, <2>3
  <2>5. rc.wpn[M3] \in WeaponData
    BY <1>4, WeaponNames DEF Good, Frames
  <2> HIDE DEF rc, rs, g0
  <2>6. AlikeGun(rc.wpn[M3], rs.wpn[M3]) /\ SameIdle(rc, rs)
    BY <2>1, <2>4, <2>5, AlikeSelf DEF SameIdle
  <2>7. Paired(rc, rs)
    BY <1>1, <1>4, <2>1, <2>2, <2>6, PairedResult
  <2> QED
    BY <1>4, <1>6, <2>6, <2>7 DEF rc, rs
<1>7. CASE CanLoad(c) /\ g.special # 0
  <2>1. g = h /\ SameIdle(c, s)
    BY <1>2, <1>7
  <2>2. rc.wpn[M3] = rs.wpn[M3] /\ rc.count = rs.count
        /\ rc.nextAttack = rs.nextAttack
    <3>1. CASE g.special = 1 /\ g.idle > 0
      <4>1. rc = c /\ rs = s
        BY <1>1, <1>3, <1>7, <2>1, <3>1, ShotgunReloadResult
      <4> QED
        BY <1>1, <2>1, <4>1
    <3>2. CASE g.special = 1 /\ ~(g.idle > 0)
      <4>1. /\ rc.wpn[M3] = [g EXCEPT !.special = 2, !.idle = ShellTime]
            /\ rc.nextAttack = c.nextAttack /\ rc.count = c.count
        BY <1>1, <1>7, <3>2, ShotgunReloadResult
      <4>2. /\ rs.wpn[M3] = [h EXCEPT !.special = 2, !.idle = ShellTime]
            /\ rs.nextAttack = s.nextAttack /\ rs.count = s.count
        BY <1>1, <1>3, <1>7, <2>1, <3>2, ShotgunReloadResult
      <4> QED
        BY <1>1, <2>1, <4>1, <4>2
    <3>3. CASE g.special = 2
      <4>1. /\ rc.wpn[M3] = [g EXCEPT !.clip = @ + 1, !.special = 1]
            /\ rc.nextAttack = c.nextAttack /\ rc.count = c.count - 1
        BY <1>1, <1>7, <3>3, ShotgunReloadResult
      <4>2. /\ rs.wpn[M3] = [h EXCEPT !.clip = @ + 1, !.special = 1]
            /\ rs.nextAttack = s.nextAttack /\ rs.count = s.count - 1
        BY <1>1, <1>3, <1>7, <2>1, <3>3, ShotgunReloadResult
      <4> QED
        BY <1>1, <2>1, <4>1, <4>2
    <3> QED
      BY <1>2, <1>7, <3>1, <3>2, <3>3
  <2>3. rc.wpn[M3] \in WeaponData
    BY <1>4, WeaponNames DEF Good, Frames
  <2> HIDE DEF rc, rs
  <2>5. AlikeGun(rc.wpn[M3], rs.wpn[M3]) /\ SameIdle(rc, rs)
    BY <2>2, <2>3, AlikeSelf DEF SameIdle
  <2>6. Paired(rc, rs)
    BY <1>1, <1>4, <2>2, <2>5, PairedResult
  <2> QED
    BY <1>4, <1>7, <2>5, <2>6 DEF rc, rs
<1> QED
  BY <1>5, <1>6, <1>7

\* The code WeaponIdle runs when a reload has started or should.
NeedsLoad(f) ==
  LET g == f.wpn[M3] IN
  \/ g.clip = 0 /\ g.special = 0 /\ f.count # 0
  \/ g.special # 0 /\ g.clip # MaxClip[M3] /\ f.count # 0

Stopped(f) == SetGun(f, [f.wpn[M3] EXCEPT !.special = 0, !.idle = IdleTime])
Reset(f) == SetGun(f, [f.wpn[M3] EXCEPT !.idle = IdleTime])
Dry(f) == SetGun(f, [f.wpn[M3] EXCEPT !.nextPrimary = DryTime])
Shot(f) ==
  LET g == f.wpn[M3] IN
  SetGun(f, [g EXCEPT !.clip = @ - 1, !.nextPrimary = ShotTime, !.special = 0,
                      !.idle = IF g.clip - 1 # 0 THEN IdleTime ELSE ShotTime])

LEMMA ShotgunIdle ==
  ASSUME NEW f, Good(f), f.id = M3, NEW client \in BOOLEAN
  PROVE  WeaponIdle(client, f) =
           IF f.wpn[M3].idle >= 0 THEN f
           ELSE IF NeedsLoad(f) THEN ShotgunReload(f)
           ELSE IF f.wpn[M3].special # 0 THEN Stopped(f)
           ELSE IF client THEN f ELSE Reset(f)
<1>1. Gun(f) = f.wpn[M3] /\ f.id # Famas
  BY WeaponNames DEF Gun
<1> QED
  BY <1>1 DEF WeaponIdle, NeedsLoad, Stopped, Reset

LEMMA ShotgunFired ==
  ASSUME NEW f, Good(f), f.id = M3
  PROVE  ShotgunFire(f) =
           IF f.wpn[M3].clip <= 0 THEN Dry(ShotgunReload(f)) ELSE Shot(f)
<1>1. Gun(f) = f.wpn[M3] /\ Good(ShotgunReload(f)) /\ ShotgunReload(f).id = M3
  BY ShotgunReloadStep DEF Gun, Step
<1>2. Gun(ShotgunReload(f)) = ShotgunReload(f).wpn[M3]
  BY <1>1 DEF Gun
<1> QED
  BY <1>1, <1>2 DEF ShotgunFire, Dry, Shot

LEMMA StoppedFields ==
  ASSUME NEW f, Good(f), f.id = M3
  PROVE  /\ InHand(f, Stopped(f)) /\ Stopped(f).count = f.count
         /\ Stopped(f).nextAttack = f.nextAttack
         /\ Stopped(f).wpn[M3] \in WeaponData
         /\ Stopped(f).wpn[M3] = [f.wpn[M3] EXCEPT !.special = 0, !.idle = IdleTime]
<1> DEFINE g == [f.wpn[M3] EXCEPT !.special = 0, !.idle = IdleTime]
<1>1. f \in Frames /\ f.wpn[M3] \in WeaponData
  BY ShotgunTyped
<1>2. g \in WeaponData
  <2>1. 0 \in 0 .. 2
    OBVIOUS
  <2> QED
    BY <1>1, <2>1, ShotgunTypes, Times
<1> HIDE DEF g
<1> QED
  BY <1>1, <1>2, ShotgunSet DEF Stopped, g

LEMMA ResetFields ==
  ASSUME NEW f, Good(f), f.id = M3
  PROVE  /\ InHand(f, Reset(f)) /\ Reset(f).count = f.count
         /\ Reset(f).nextAttack = f.nextAttack
         /\ Reset(f).wpn[M3] \in WeaponData
         /\ Reset(f).wpn[M3] = [f.wpn[M3] EXCEPT !.idle = IdleTime]
<1> DEFINE g == [f.wpn[M3] EXCEPT !.idle = IdleTime]
<1>1. f \in Frames /\ f.wpn[M3] \in WeaponData
  BY ShotgunTyped
<1>2. g \in WeaponData
  BY <1>1, Times DEF WeaponData
<1> HIDE DEF g
<1> QED
  BY <1>1, <1>2, ShotgunSet DEF Reset, g

LEMMA DryFields ==
  ASSUME NEW f, Good(f), f.id = M3
  PROVE  /\ InHand(f, Dry(f)) /\ Dry(f).count = f.count
         /\ Dry(f).nextAttack = f.nextAttack
         /\ Dry(f).wpn[M3] \in WeaponData
         /\ Dry(f).wpn[M3] = [f.wpn[M3] EXCEPT !.nextPrimary = DryTime]
<1> DEFINE g == [f.wpn[M3] EXCEPT !.nextPrimary = DryTime]
<1>1. f \in Frames /\ f.wpn[M3] \in WeaponData
  BY ShotgunTyped
<1>2. g \in WeaponData
  BY <1>1, Times DEF WeaponData
<1> HIDE DEF g
<1> QED
  BY <1>1, <1>2, ShotgunSet DEF Dry, g

\* The clip and the idle timer a shot leaves.
LEMMA ShotFields ==
  ASSUME NEW f, Good(f), f.id = M3,
         NEW x \in Int, x = f.wpn[M3].clip - 1,
         NEW i \in Timers, i = IF x # 0 THEN IdleTime ELSE ShotTime
  PROVE  /\ InHand(f, Shot(f)) /\ Shot(f).count = f.count
         /\ Shot(f).nextAttack = f.nextAttack
         /\ Shot(f).wpn[M3] \in WeaponData
         /\ Shot(f).wpn[M3] = AfterShot(f.wpn[M3], x, i)
<1> DEFINE g == AfterShot(f.wpn[M3], x, i)
<1>1. f \in Frames /\ f.wpn[M3] \in WeaponData
  BY ShotgunTyped
<1>2. g \in WeaponData
  <2>1. 0 \in 0 .. 2
    OBVIOUS
  <2> QED
    BY <1>1, <2>1, ShotgunTypes, Times DEF AfterShot
<1>3. Shot(f) = SetGun(f, g)
  BY DEF Shot, AfterShot
<1> HIDE DEF g
<1> QED
  BY <1>1, <1>2, <1>3, ShotgunSet DEF g

LEMMA InHandTransitive ==
  ASSUME NEW f, NEW g, NEW h, InHand(f, g), InHand(g, h)
  PROVE  InHand(f, h)
BY DEF InHand

LEMMA GoodStays ==
  ASSUME NEW f, Good(f), f.id = M3
  PROVE  Good(WeaponIdle(FALSE, f)) /\ Good(WeaponIdle(TRUE, f))
         /\ Good(ShotgunFire(f)) /\ Good(ShotgunReload(f))
         /\ Good(Tabulated(FALSE, f)) /\ Good(Tabulated(TRUE, f))
BY WeaponIdleStep, ShotgunFireStep, ShotgunReloadStep, TabulatedStep DEF Step

\* The same M3, or one whose timer the client ignores.
Related(c, s) == Paired(c, s) /\ (SameIdle(c, s) \/ TimerIgnored(c))

LEMMA RelatedReload ==
  ASSUME NEW c, NEW s, Related(c, s), Good(c), Good(s)
  PROVE  Related(ShotgunReload(c), ShotgunReload(s))
<1>1. Paired(c, s) /\ (SameIdle(c, s) \/ c.wpn[M3].special = 0)
  BY DEF Related, TimerIgnored
<1>2. LET rc == ShotgunReload(c)
          rs == ShotgunReload(s) IN
      /\ Paired(rc, rs)
      /\ SameIdle(c, s) \/ CanLoad(c) => SameIdle(rc, rs)
      /\ ~CanLoad(c) => rc = c /\ rs = s
  BY <1>1, PairedReload
<1> QED
  BY <1>2 DEF Related

\* A server that sets the timer of an M3 that is not being loaded.
LEMMA RelatedReset ==
  ASSUME NEW c, NEW s, Related(c, s), Good(c), Good(s),
         c.wpn[M3].special = 0,
         s.wpn[M3].idle >= 0 \/ c.wpn[M3].clip # 0 \/ c.count = 0
  PROVE  Related(c, WeaponIdle(FALSE, s))
<1>1. /\ c.id = M3 /\ s.id = M3 /\ c.count = s.count
      /\ c.nextAttack = s.nextAttack /\ Paired(c, s) /\ c \in Frames
  BY DEF Related, Paired
<1>2. /\ c.wpn[M3] \in WeaponData /\ s.wpn[M3] \in WeaponData
      /\ AlikeGun(c.wpn[M3], s.wpn[M3])
      /\ s.wpn[M3].clip = c.wpn[M3].clip /\ s.wpn[M3].special = 0
      /\ s.wpn[M3].idle \in Int
  BY <1>1, PairedTyped, ShotgunTyped
<1>3. CASE s.wpn[M3].idle >= 0
  BY <1>1, <1>3, ShotgunIdle
<1>4. CASE ~(s.wpn[M3].idle >= 0)
  <2>1. c.wpn[M3].clip # 0 \/ c.count = 0
    BY <1>4
  <2>2. ~NeedsLoad(s)
    BY <1>1, <1>2, <2>1 DEF NeedsLoad
  <2>3. WeaponIdle(FALSE, s) = Reset(s)
    BY <1>1, <1>2, <1>4, <2>2, ShotgunIdle
  <2>4. /\ InHand(s, Reset(s)) /\ Reset(s).count = s.count
        /\ Reset(s).nextAttack = s.nextAttack
        /\ Reset(s).wpn[M3] = [s.wpn[M3] EXCEPT !.idle = IdleTime]
    BY <1>1, ResetFields
  <2>5. AlikeGun(c.wpn[M3], Reset(s).wpn[M3])
    BY <1>2, <2>4, AlikeReset
  <2>6. InHand(c, c)
    BY <1>1 DEF InHand
  <2>7. Paired(c, Reset(s))
    BY <1>1, <2>4, <2>5, <2>6, PairedResult
  <2>8. TimerIgnored(c)
    <3>1. SameIdle(c, s) => c.wpn[M3].idle < 0
      BY <1>2, <1>4 DEF SameIdle
    <3> QED
      BY <1>1, <2>1, <3>1 DEF Related, TimerIgnored
  <2> QED
    BY <2>3, <2>7, <2>8 DEF Related
<1> QED
  BY <1>3, <1>4

LEMMA RelatedIdle ==
  ASSUME NEW c, NEW s, Related(c, s), Good(c), Good(s)
  PROVE  Related(WeaponIdle(TRUE, c), WeaponIdle(FALSE, s))
<1>1. /\ c.id = M3 /\ s.id = M3 /\ c.count = s.count
      /\ c.nextAttack = s.nextAttack /\ Paired(c, s)
  BY DEF Related, Paired
<1>2. /\ c.wpn[M3] \in WeaponData /\ s.wpn[M3] \in WeaponData
      /\ AlikeGun(c.wpn[M3], s.wpn[M3])
      /\ s.wpn[M3].clip = c.wpn[M3].clip
      /\ s.wpn[M3].special = c.wpn[M3].special
      /\ c.wpn[M3].idle \in Int /\ s.wpn[M3].idle \in Int
  BY <1>1, PairedTyped, ShotgunTyped
<1>3. NeedsLoad(c) <=> NeedsLoad(s)
  BY <1>1, <1>2 DEF NeedsLoad
<1>4. CASE SameIdle(c, s) /\ c.wpn[M3].idle >= 0
  <2>1. s.wpn[M3].idle >= 0
    BY <1>4 DEF SameIdle
  <2>2. WeaponIdle(TRUE, c) = c /\ WeaponIdle(FALSE, s) = s
    BY <1>1, <1>4, <2>1, ShotgunIdle
  <2> QED
    BY <2>2
<1>5. CASE SameIdle(c, s) /\ ~(c.wpn[M3].idle >= 0) /\ NeedsLoad(c)
  <2>1. ~(s.wpn[M3].idle >= 0)
    BY <1>5 DEF SameIdle
  <2>2. WeaponIdle(TRUE, c) = ShotgunReload(c)
        /\ WeaponIdle(FALSE, s) = ShotgunReload(s)
    BY <1>1, <1>3, <1>5, <2>1, ShotgunIdle
  <2> QED
    BY <2>2, RelatedReload
<1>6. CASE SameIdle(c, s) /\ ~(c.wpn[M3].idle >= 0) /\ ~NeedsLoad(c)
           /\ c.wpn[M3].special # 0
  <2>1. ~(s.wpn[M3].idle >= 0)
    BY <1>6 DEF SameIdle
  <2>2. WeaponIdle(TRUE, c) = Stopped(c) /\ WeaponIdle(FALSE, s) = Stopped(s)
    BY <1>1, <1>2, <1>3, <1>6, <2>1, ShotgunIdle
  <2>3. /\ InHand(c, Stopped(c)) /\ Stopped(c).count = c.count
        /\ Stopped(c).nextAttack = c.nextAttack
        /\ Stopped(c).wpn[M3] = [c.wpn[M3] EXCEPT !.special = 0, !.idle = IdleTime]
        /\ Stopped(c).wpn[M3] \in WeaponData
    BY <1>1, StoppedFields
  <2>4. /\ InHand(s, Stopped(s)) /\ Stopped(s).count = s.count
        /\ Stopped(s).nextAttack = s.nextAttack
        /\ Stopped(s).wpn[M3] = [s.wpn[M3] EXCEPT !.special = 0, !.idle = IdleTime]
    BY <1>1, StoppedFields
  <2>5. Stopped(s).wpn[M3] = Stopped(c).wpn[M3]
    BY <1>2, <2>3, <2>4, AlikeStop
  <2>6. Paired(Stopped(c), Stopped(s))
    BY <1>1, <2>3, <2>4, <2>5, AlikeSelf, PairedResult
  <2> QED
    BY <2>2, <2>5, <2>6 DEF Related, SameIdle
<1>7. CASE ~(c.wpn[M3].idle >= 0) /\ ~NeedsLoad(c) /\ c.wpn[M3].special = 0
  <2>1. WeaponIdle(TRUE, c) = c
    BY <1>1, <1>7, ShotgunIdle
  <2>2. c.wpn[M3].clip # 0 \/ c.count = 0
    BY <1>7 DEF NeedsLoad
  <2> QED
    BY <1>7, <2>1, <2>2, RelatedReset
<1>8. ~SameIdle(c, s) =>
        ~(c.wpn[M3].idle >= 0) /\ ~NeedsLoad(c) /\ c.wpn[M3].special = 0
  BY <1>2 DEF Related, TimerIgnored, NeedsLoad
<1> QED
  BY <1>4, <1>5, <1>6, <1>7, <1>8

LEMMA RelatedFire ==
  ASSUME NEW c, NEW s, Related(c, s), Good(c), Good(s),
         c.wpn[M3].nextPrimary <= 0
  PROVE  Related(ShotgunFire(c), ShotgunFire(s))
<1> DEFINE rc == ShotgunReload(c)
           rs == ShotgunReload(s)
<1>1. /\ c.id = M3 /\ s.id = M3 /\ c.count = s.count
      /\ c.nextAttack = s.nextAttack /\ Paired(c, s)
  BY DEF Related, Paired
<1>2. /\ c.wpn[M3] \in WeaponData /\ s.wpn[M3] \in WeaponData
      /\ AlikeGun(c.wpn[M3], s.wpn[M3])
      /\ s.wpn[M3].clip = c.wpn[M3].clip /\ c.wpn[M3].clip \in Nat
      /\ c.count \in Nat
  BY <1>1, PairedTyped, ShotgunTyped
<1>3. CASE c.wpn[M3].clip <= 0
  <2>1. ShotgunFire(c) = Dry(rc) /\ ShotgunFire(s) = Dry(rs)
    BY <1>1, <1>2, <1>3, ShotgunFired
  <2>2. Related(rc, rs)
    BY RelatedReload
  <2>3. Good(rc) /\ Good(rs) /\ rc.id = M3 /\ rs.id = M3
    BY <1>1, <2>2, GoodStays DEF Related, Paired
  <2> HIDE DEF rc, rs
  <2>4. /\ rc.wpn[M3] \in WeaponData /\ rs.wpn[M3] \in WeaponData
        /\ AlikeGun(rc.wpn[M3], rs.wpn[M3])
        /\ rc.count = rs.count /\ rc.nextAttack = rs.nextAttack
    BY <2>2, <2>3, PairedTyped DEF Related, Paired
  <2>5. /\ InHand(rc, Dry(rc)) /\ Dry(rc).count = rc.count
        /\ Dry(rc).nextAttack = rc.nextAttack
        /\ Dry(rc).wpn[M3] = [rc.wpn[M3] EXCEPT !.nextPrimary = DryTime]
    BY <2>3, DryFields
  <2>6. /\ InHand(rs, Dry(rs)) /\ Dry(rs).count = rs.count
        /\ Dry(rs).nextAttack = rs.nextAttack
        /\ Dry(rs).wpn[M3] = [rs.wpn[M3] EXCEPT !.nextPrimary = DryTime]
    BY <2>3, DryFields
  <2>7. AlikeGun(Dry(rc).wpn[M3], Dry(rs).wpn[M3])
    BY <2>4, <2>5, <2>6, AlikeDry
  <2>8. Paired(Dry(rc), Dry(rs))
    BY <2>2, <2>4, <2>5, <2>6, <2>7, PairedResult DEF Related
  <2>9. /\ Dry(rc).wpn[M3].idle = rc.wpn[M3].idle
        /\ Dry(rs).wpn[M3].idle = rs.wpn[M3].idle
        /\ Dry(rc).wpn[M3].special = rc.wpn[M3].special
        /\ Dry(rc).wpn[M3].clip = rc.wpn[M3].clip
        /\ Dry(rc).id = M3
    BY <2>4, <2>5, <2>6 DEF WeaponData, InHand
  <2> QED
    BY <2>1, <2>2, <2>5, <2>8, <2>9 DEF Related, SameIdle, TimerIgnored
<1>4. CASE ~(c.wpn[M3].clip <= 0)
  <2>1. ShotgunFire(c) = Shot(c) /\ ShotgunFire(s) = Shot(s)
    BY <1>1, <1>2, <1>4, ShotgunFired
  <2>2. PICK x \in Int : x = c.wpn[M3].clip - 1
    BY <1>2
  <2>3. PICK i \in Timers : i = IF x # 0 THEN IdleTime ELSE ShotTime
    BY Times
  <2>4. /\ InHand(c, Shot(c)) /\ Shot(c).count = c.count
        /\ Shot(c).nextAttack = c.nextAttack
        /\ Shot(c).wpn[M3] \in WeaponData
        /\ Shot(c).wpn[M3] = AfterShot(c.wpn[M3], x, i)
    BY <1>1, <2>2, <2>3, ShotFields
  <2>5. /\ InHand(s, Shot(s)) /\ Shot(s).count = s.count
        /\ Shot(s).nextAttack = s.nextAttack
        /\ Shot(s).wpn[M3] = AfterShot(s.wpn[M3], x, i)
    BY <1>1, <1>2, <2>2, <2>3, ShotFields
  <2>6. Shot(s).wpn[M3] = Shot(c).wpn[M3]
    BY <1>2, <2>4, <2>5, AlikeShot
  <2>7. Paired(Shot(c), Shot(s))
    BY <1>1, <2>4, <2>5, <2>6, AlikeSelf, PairedResult
  <2> QED
    BY <2>1, <2>6, <2>7 DEF Related, SameIdle
<1> QED
  BY <1>3, <1>4

LEMMA TabulatedInHand ==
  ASSUME NEW f, Good(f), f.id = M3, f.type = "buckshot"
  PROVE  LET r == Tabulated(FALSE, f) IN
         /\ InHand(f, r) /\ r.wpn = f.wpn /\ r.count = f.count
         /\ r.nextAttack = f.nextAttack
BY WeaponNames DEF Tabulated, InHand, Good, Frames

LEMMA RelatedTabulated ==
  ASSUME NEW c, NEW s, Related(c, s), Good(c), Good(s)
  PROVE  Related(Tabulated(TRUE, c), Tabulated(FALSE, s))
<1> DEFINE t == Tabulated(FALSE, s)
<1>1. s.id = M3 /\ s.type = "buckshot" /\ Paired(c, s)
  BY DEF Related, Paired
<1>2. InHand(s, t) /\ t.wpn = s.wpn /\ t.count = s.count
      /\ t.nextAttack = s.nextAttack
  BY <1>1, TabulatedInHand
<1>3. Tabulated(TRUE, c) = c
  BY DEF Tabulated
<1> HIDE DEF t
<1>4. Related(c, t)
  BY <1>1, <1>2 DEF Related, Paired, InHand, SameIdle
<1> QED
  BY <1>3, <1>4 DEF t

\* Act with the M3 in hand, in either program.
LEMMA ShotgunAct ==
  ASSUME NEW f, Good(f), f.id = M3, ~f.wpn[M3].inReload,
         NEW client \in BOOLEAN, NEW buttons, NEW k
  PROVE  Act(client, f, buttons, k) =
           LET g == f.wpn[M3] IN
           IF "attack" \in buttons /\ g.nextPrimary <= 0
           THEN ShotgunFire(Tabulated(client, f))
           ELSE IF "reload" \in buttons /\ (client \/ g.nextPrimary < 0)
           THEN IF g.nextPrimary < 0 THEN ShotgunReload(f) ELSE f
           ELSE IF "attack" \in buttons THEN f
           ELSE IF g.clip = 0 /\ g.nextPrimary < 0 /\ (client \/ f.count > 0)
           THEN ShotgunReload(f)
           ELSE WeaponIdle(client, f)
<1> DEFINE t == Tabulated(client, f)
<1>1. Gun(f) = f.wpn[M3] /\ f.id # Famas /\ t.id = M3
  BY WeaponNames DEF Gun, Tabulated
<1>2. PrimaryAttack(t, k) = ShotgunFire(t) /\ Reload(f) = ShotgunReload(f)
  BY <1>1 DEF PrimaryAttack, Reload
<1>3. MayReload(f) <=> f.wpn[M3].nextPrimary < 0
  BY <1>1 DEF MayReload, Bursting
<1>4. ReloadBranch(client, f) <=> (client \/ f.wpn[M3].nextPrimary < 0)
  BY <1>1 DEF ReloadBranch
<1> HIDE DEF t
<1> QED
  BY <1>1, <1>2, <1>3, <1>4 DEF Act, t

\* The server's M3 is fit for the next command.
ShotgunReady(f) ==
  /\ ~f.wpn[M3].inReload /\ f.wpn[M3].nextPrimary <= IdleTime
  /\ ShotgunFit(f.wpn[M3], f.count)

\* One command with the M3 in hand, unless the reload key is held while the gun
\* is busy and being loaded.
LEMMA RelatedAct ==
  ASSUME NEW c, NEW s, Related(c, s), Good(c), Good(s), ShotgunReady(s),
         NEW buttons, NEW k,
         "reload" \in buttons =>
           c.wpn[M3].special = 0 \/ c.wpn[M3].nextPrimary < 0
  PROVE  Related(Act(TRUE, c, buttons, k), Act(FALSE, s, buttons, k))
<1> DEFINE g == c.wpn[M3]
           h == s.wpn[M3]
           rc == Act(TRUE, c, buttons, k)
           rs == Act(FALSE, s, buttons, k)
           tc == Tabulated(TRUE, c)
           ts == Tabulated(FALSE, s)
           fire == "attack" \in buttons /\ g.nextPrimary <= 0
           load == "reload" \in buttons /\ g.nextPrimary < 0
           wait == "reload" \in buttons /\ ~(g.nextPrimary < 0)
           empty == g.clip = 0 /\ g.nextPrimary < 0
<1>1. /\ c.id = M3 /\ s.id = M3 /\ c.count = s.count /\ Paired(c, s)
      /\ c.count \in Nat
  BY ShotgunTyped DEF Related, Paired
<1>2. /\ g \in WeaponData /\ h \in WeaponData
      /\ h.clip = g.clip /\ h.special = g.special
      /\ h.nextPrimary = g.nextPrimary /\ h.inReload = g.inReload
      /\ g.nextPrimary \in Int /\ h.idle \in Int
  BY <1>1, PairedTyped, ShotgunTyped
<1>3. ~h.inReload /\ ~g.inReload
  BY <1>2 DEF ShotgunReady
<1>4. rc = IF fire THEN ShotgunFire(tc)
           ELSE IF "reload" \in buttons
           THEN IF g.nextPrimary < 0 THEN ShotgunReload(c) ELSE c
           ELSE IF "attack" \in buttons THEN c
           ELSE IF empty THEN ShotgunReload(c) ELSE WeaponIdle(TRUE, c)
  BY <1>1, <1>3, ShotgunAct
<1>5. rs = IF fire THEN ShotgunFire(ts)
           ELSE IF load THEN ShotgunReload(s)
           ELSE IF "attack" \in buttons THEN s
           ELSE IF empty /\ s.count > 0 THEN ShotgunReload(s)
           ELSE WeaponIdle(FALSE, s)
  <2>1. \A client \in BOOLEAN :
          Act(client, s, buttons, k) =
             IF "attack" \in buttons /\ h.nextPrimary <= 0
             THEN ShotgunFire(Tabulated(client, s))
             ELSE IF "reload" \in buttons /\ (client \/ h.nextPrimary < 0)
             THEN IF h.nextPrimary < 0 THEN ShotgunReload(s) ELSE s
             ELSE IF "attack" \in buttons THEN s
             ELSE IF h.clip = 0 /\ h.nextPrimary < 0 /\ (client \/ s.count > 0)
             THEN ShotgunReload(s)
             ELSE WeaponIdle(client, s)
    BY <1>1, <1>3, ShotgunAct
  <2> HIDE DEF h, g
  <2> QED
    BY <1>2, <2>1
<1>6. CASE fire
  <2>1. Related(tc, ts) /\ Good(tc) /\ Good(ts) /\ tc = c
    BY <1>1, RelatedTabulated, GoodStays DEF Tabulated
  <2>2. rc = ShotgunFire(tc) /\ rs = ShotgunFire(ts)
    BY <1>4, <1>5, <1>6
  <2> HIDE DEF rc, rs, ts, tc
  <2>3. Related(ShotgunFire(tc), ShotgunFire(ts))
    BY <1>6, <2>1, RelatedFire
  <2> QED
    BY <2>2, <2>3 DEF rc, rs
<1>7. CASE ~fire /\ load
  <2>1. rc = ShotgunReload(c) /\ rs = ShotgunReload(s)
    BY <1>4, <1>5, <1>7
  <2> HIDE DEF rc, rs
  <2> QED
    BY <2>1, RelatedReload DEF rc, rs
<1>8. CASE ~fire /\ "attack" \in buttons /\ ~load
  <2>1. rc = c /\ rs = s
    BY <1>4, <1>5, <1>8
  <2> HIDE DEF rc, rs
  <2> QED
    BY <2>1 DEF rc, rs
<1>9. CASE wait /\ "attack" \notin buttons
  <2>1. rc = c /\ rs = WeaponIdle(FALSE, s)
    BY <1>4, <1>5, <1>9
  <2>2. g.special = 0
    BY <1>9
  <2>3. h.idle >= 0 \/ g.clip # 0 \/ c.count = 0
    <3>1. g.clip = 0 /\ c.count # 0 => h.idle >= h.nextPrimary
      BY <1>1, <1>2, <2>2 DEF ShotgunReady, ShotgunFit
    <3>2. h.nextPrimary >= 0
      BY <1>2, <1>9
    <3> QED
      BY <1>2, <3>1, <3>2
  <2> HIDE DEF rc, rs
  <2>4. Related(c, WeaponIdle(FALSE, s))
    BY <2>2, <2>3, RelatedReset
  <2> QED
    BY <2>1, <2>4 DEF rc, rs
<1>10. CASE "reload" \notin buttons /\ "attack" \notin buttons /\ empty
            /\ c.count > 0
  <2>1. rc = ShotgunReload(c) /\ rs = ShotgunReload(s)
    BY <1>1, <1>4, <1>5, <1>10
  <2> HIDE DEF rc, rs
  <2> QED
    BY <2>1, RelatedReload DEF rc, rs
<1>11. CASE "reload" \notin buttons /\ "attack" \notin buttons /\ empty
            /\ ~(c.count > 0)
  <2>1. rc = ShotgunReload(c) /\ rs = WeaponIdle(FALSE, s)
    BY <1>1, <1>4, <1>5, <1>11
  <2>2. ShotgunReload(c) = c /\ c.count = 0
    <3>1. ~CanLoad(c) /\ c.count = 0
      BY <1>1, <1>11 DEF CanLoad
    <3> QED
      BY <1>1, <3>1, ShotgunReloadResult
  <2>3. g.special = 0
    BY <1>1, <1>2, <1>11, <2>2 DEF ShotgunReady, ShotgunFit
  <2> HIDE DEF rc, rs
  <2>4. Related(c, WeaponIdle(FALSE, s))
    BY <2>2, <2>3, RelatedReset
  <2> QED
    BY <2>1, <2>2, <2>4 DEF rc, rs
<1>12. CASE "reload" \notin buttons /\ "attack" \notin buttons /\ ~empty
  <2>1. rc = WeaponIdle(TRUE, c) /\ rs = WeaponIdle(FALSE, s)
    BY <1>4, <1>5, <1>12
  <2> HIDE DEF rc, rs
  <2> QED
    BY <2>1, RelatedIdle DEF rc, rs
<1> QED
  BY <1>6, <1>7, <1>8, <1>9, <1>10, <1>11, <1>12

-----------------------------------------------------------------------------
(***************************************************************************)
(* What the server's code keeps of the M3.                                 *)
(***************************************************************************)

LEMMA IdleTimes ==
  /\ IdleTime \in Int /\ StartTime \in Int /\ ShotTime \in Int /\ DryTime \in Int
  /\ StartTime <= IdleTime /\ ShotTime <= IdleTime /\ DryTime <= IdleTime
BY Times, IdleAssumption

LEMMA ReadyReload ==
  ASSUME NEW f, Good(f), f.id = M3, ShotgunReady(f)
  PROVE  LET r == ShotgunReload(f) IN
         /\ ShotgunReady(r) /\ InHand(f, r) /\ Good(r)
         /\ CanLoad(f) => r.wpn[M3].special # 0
         /\ ~CanLoad(f) => r = f
<1> DEFINE g == f.wpn[M3]
           r == ShotgunReload(f)
           h == r.wpn[M3]
<1>1. /\ g \in WeaponData /\ g.clip \in Nat /\ f.count \in Nat
      /\ g.special \in 0 .. 2 /\ g.idle \in Int
  BY ShotgunTyped
<1>2. InHand(f, r) /\ Good(r) /\ (~CanLoad(f) => r = f)
  BY ShotgunReloadResult
<1>3. ~g.inReload /\ g.nextPrimary <= IdleTime /\ ShotgunFit(g, f.count)
  BY DEF ShotgunReady
<1>4. CASE ~CanLoad(f)
  BY <1>2, <1>4
<1>5. CASE CanLoad(f) /\ g.special = 0
  <2>1. h = [g EXCEPT !.special = 1, !.idle = StartTime, !.nextPrimary = StartTime]
        /\ r.count = f.count
    BY <1>5, ShotgunReloadResult
  <2> HIDE DEF g, h, r
  <2>2. /\ h.special = 1 /\ h.nextPrimary = StartTime
        /\ h.inReload = g.inReload /\ h.clip = g.clip
    BY <1>1, <2>1 DEF WeaponData
  <2>3. f.count # 0
    BY <1>5 DEF CanLoad
  <2>4. ShotgunReady(r)
    BY <1>3, <2>1, <2>2, <2>3, IdleTimes DEF ShotgunReady, ShotgunFit, h
  <2> QED
    BY <1>2, <1>5, <2>2, <2>4 DEF r, h
<1>6. CASE CanLoad(f) /\ g.special = 1 /\ g.idle > 0
  <2>1. r = f
    BY <1>6, ShotgunReloadResult
  <2> QED
    BY <1>2, <1>6, <2>1
<1>7. CASE CanLoad(f) /\ g.special = 1 /\ ~(g.idle > 0)
  <2>1. h = [g EXCEPT !.special = 2, !.idle = ShellTime] /\ r.count = f.count
    BY <1>7, ShotgunReloadResult
  <2> HIDE DEF g, h, r
  <2>2. /\ h.special = 2 /\ h.nextPrimary = g.nextPrimary
        /\ h.inReload = g.inReload /\ h.clip = g.clip
    BY <1>1, <2>1 DEF WeaponData
  <2>3. ShotgunReady(r)
    BY <1>3, <1>7, <2>1, <2>2 DEF ShotgunReady, ShotgunFit, h
  <2> QED
    BY <1>2, <1>7, <2>2, <2>3 DEF r, h
<1>8. CASE CanLoad(f) /\ g.special = 2
  <2>1. h = [g EXCEPT !.clip = @ + 1, !.special = 1]
    BY <1>8, ShotgunReloadResult
  <2> HIDE DEF g, h, r
  <2>2. /\ h.special = 1 /\ h.nextPrimary = g.nextPrimary
        /\ h.inReload = g.inReload /\ h.clip = g.clip + 1
    BY <1>1, <2>1 DEF WeaponData
  <2>3. h.clip # 0
    BY <1>1, <2>2
  <2>4. ShotgunReady(r)
    BY <1>3, <2>2, <2>3 DEF ShotgunReady, ShotgunFit, h
  <2> QED
    BY <1>2, <1>8, <2>2, <2>4 DEF r, h
<1> QED
  BY <1>1, <1>4, <1>5, <1>6, <1>7, <1>8

LEMMA ReadyIdle ==
  ASSUME NEW f, Good(f), f.id = M3, ShotgunReady(f)
  PROVE  LET r == WeaponIdle(FALSE, f) IN ShotgunReady(r) /\ InHand(f, r)
<1> DEFINE g == f.wpn[M3]
<1>1. g \in WeaponData /\ f \in Frames /\ g.nextPrimary \in Int
  BY ShotgunTyped
<1>2. ~g.inReload /\ g.nextPrimary <= IdleTime /\ ShotgunFit(g, f.count)
  BY DEF ShotgunReady
<1>3. ShotgunReady(ShotgunReload(f)) /\ InHand(f, ShotgunReload(f))
  BY ReadyReload
<1>4. ShotgunReady(Stopped(f)) /\ InHand(f, Stopped(f))
  <2> DEFINE h == Stopped(f).wpn[M3]
  <2>1. InHand(f, Stopped(f)) /\ Stopped(f).count = f.count
        /\ h = [g EXCEPT !.special = 0, !.idle = IdleTime]
    BY StoppedFields
  <2> HIDE DEF g, h
  <2>2. /\ h.special = 0 /\ h.idle = IdleTime /\ h.nextPrimary = g.nextPrimary
        /\ h.inReload = g.inReload
    BY <1>1, <2>1 DEF WeaponData
  <2>3. ShotgunReady(Stopped(f))
    BY <1>1, <1>2, <2>2, IdleTimes DEF ShotgunReady, ShotgunFit, h
  <2> QED
    BY <2>1, <2>3
<1>5. ~NeedsLoad(f) /\ g.special = 0 =>
        ShotgunReady(Reset(f)) /\ InHand(f, Reset(f))
  <2> DEFINE h == Reset(f).wpn[M3]
  <2>1. InHand(f, Reset(f)) /\ Reset(f).count = f.count
        /\ h = [g EXCEPT !.idle = IdleTime]
    BY ResetFields
  <2> HIDE DEF g, h
  <2>2. /\ h.special = g.special /\ h.idle = IdleTime
        /\ h.nextPrimary = g.nextPrimary /\ h.inReload = g.inReload
    BY <1>1, <2>1 DEF WeaponData
  <2>3. g.special = 0 => ShotgunReady(Reset(f))
    BY <1>1, <1>2, <2>2, IdleTimes DEF ShotgunReady, ShotgunFit, h
  <2> QED
    BY <2>1, <2>3
<1>6. InHand(f, f)
  BY <1>1 DEF InHand
<1>7. WeaponIdle(FALSE, f) =
        IF g.idle >= 0 THEN f
        ELSE IF NeedsLoad(f) THEN ShotgunReload(f)
        ELSE IF g.special # 0 THEN Stopped(f) ELSE Reset(f)
  <2>1. \A client \in BOOLEAN :
          WeaponIdle(client, f) =
            IF g.idle >= 0 THEN f
            ELSE IF NeedsLoad(f) THEN ShotgunReload(f)
            ELSE IF g.special # 0 THEN Stopped(f)
            ELSE IF client THEN f ELSE Reset(f)
    BY ShotgunIdle
  <2> QED
    BY <2>1
<1> HIDE DEF g
<1> QED
  BY <1>3, <1>4, <1>5, <1>6, <1>7

LEMMA ReadyFire ==
  ASSUME NEW f, Good(f), f.id = M3, ShotgunReady(f), f.wpn[M3].nextPrimary <= 0
  PROVE  LET r == ShotgunFire(f) IN ShotgunReady(r) /\ InHand(f, r)
<1> DEFINE g == f.wpn[M3]
           l == ShotgunReload(f)
<1>1. /\ g \in WeaponData /\ g.clip \in Nat /\ f.count \in Nat
      /\ g.nextPrimary \in Int /\ MaxClip[M3] \in Nat \ {0}
  BY ShotgunTyped
<1>2. ~g.inReload /\ ShotgunFit(g, f.count)
  BY DEF ShotgunReady
<1>3. CASE g.clip <= 0
  <2>1. ShotgunFire(f) = Dry(l)
    BY <1>3, ShotgunFired
  <2>2. /\ ShotgunReady(l) /\ InHand(f, l) /\ Good(l)
        /\ CanLoad(f) => l.wpn[M3].special # 0
        /\ ~CanLoad(f) => l = f
    BY ReadyReload
  <2>3. l.id = M3
    BY <2>2 DEF InHand
  <2>4. CanLoad(f) \/ f.count = 0
    BY <1>1, <1>3 DEF CanLoad
  <2>5. l.wpn[M3].special # 0 \/ l.count = 0
    BY <2>2, <2>4
  <2> HIDE DEF l
  <2> DEFINE h == Dry(l).wpn[M3]
  <2>6. InHand(l, Dry(l)) /\ Dry(l).count = l.count
        /\ h = [l.wpn[M3] EXCEPT !.nextPrimary = DryTime]
        /\ l.wpn[M3] \in WeaponData
    BY <2>2, <2>3, DryFields, ShotgunTyped
  <2> HIDE DEF h
  <2>7. /\ h.special = l.wpn[M3].special /\ h.clip = l.wpn[M3].clip
        /\ h.nextPrimary = DryTime /\ h.inReload = l.wpn[M3].inReload
    BY <2>6 DEF WeaponData
  <2>8. ShotgunReady(Dry(l))
    BY <2>2, <2>5, <2>6, <2>7, IdleTimes DEF ShotgunReady, ShotgunFit, h
  <2>9. InHand(f, Dry(l))
    BY <2>2, <2>6, InHandTransitive
  <2> QED
    BY <2>1, <2>8, <2>9
<1>4. CASE ~(g.clip <= 0)
  <2>1. ShotgunFire(f) = Shot(f)
    BY <1>4, ShotgunFired
  <2>2. PICK x \in Int : x = g.clip - 1
    BY <1>1
  <2>3. PICK i \in Timers : i = IF x # 0 THEN IdleTime ELSE ShotTime
    BY Times
  <2> DEFINE h == Shot(f).wpn[M3]
  <2>4. InHand(f, Shot(f)) /\ h = AfterShot(g, x, i)
    BY <2>2, <2>3, ShotFields
  <2> HIDE DEF g, h
  <2>5. /\ h.special = 0 /\ h.clip = x /\ h.idle = i
        /\ h.nextPrimary = ShotTime /\ h.inReload = g.inReload
    BY <1>1, <2>4 DEF WeaponData, AfterShot
  <2>6. ShotgunReady(Shot(f))
    BY <1>2, <2>3, <2>5, IdleTimes DEF ShotgunReady, ShotgunFit, h
  <2> QED
    BY <2>1, <2>4, <2>6
<1> QED
  BY <1>3, <1>4

LEMMA ReadyAct ==
  ASSUME NEW f, Good(f), f.id = M3, f.type = "buckshot", ShotgunReady(f),
         NEW buttons, NEW k
  PROVE  LET r == Act(FALSE, f, buttons, k) IN ShotgunReady(r) /\ InHand(f, r)
<1> DEFINE g == f.wpn[M3]
           t == Tabulated(FALSE, f)
<1>1. ~g.inReload /\ f \in Frames
  BY ShotgunTyped DEF ShotgunReady
<1>2. Act(FALSE, f, buttons, k) \in {f, ShotgunReload(f), WeaponIdle(FALSE, f)}
      \/ (g.nextPrimary <= 0 /\ Act(FALSE, f, buttons, k) = ShotgunFire(t))
  <2>1. \A client \in BOOLEAN :
          \/ Act(client, f, buttons, k)
               \in {f, ShotgunReload(f), WeaponIdle(client, f)}
          \/ /\ g.nextPrimary <= 0
             /\ Act(client, f, buttons, k) = ShotgunFire(Tabulated(client, f))
    <3> TAKE client \in BOOLEAN
    <3> DEFINE a == Act(client, f, buttons, k)
               idle == WeaponIdle(client, f)
               load == ShotgunReload(f)
               shot == ShotgunFire(Tabulated(client, f))
    <3>1. a = IF "attack" \in buttons /\ g.nextPrimary <= 0 THEN shot
              ELSE IF "reload" \in buttons /\ (client \/ g.nextPrimary < 0)
              THEN IF g.nextPrimary < 0 THEN load ELSE f
              ELSE IF "attack" \in buttons THEN f
              ELSE IF g.clip = 0 /\ g.nextPrimary < 0 /\ (client \/ f.count > 0)
              THEN load ELSE idle
      <4>1. ~f.wpn[M3].inReload
        BY <1>1
      <4> QED
        BY <4>1, ShotgunAct
    <3> HIDE DEF a, idle, load, shot, g
    <3>2. a \in {f, load, idle} \/ (g.nextPrimary <= 0 /\ a = shot)
      BY <3>1
    <3> QED
      BY <3>2 DEF a, idle, load, shot
  <2> QED
    BY <2>1
<1>3. InHand(f, t) /\ t.wpn = f.wpn /\ t.count = f.count /\ Good(t)
  BY TabulatedInHand, GoodStays
<1>4. t.id = M3 /\ ShotgunReady(t)
  BY <1>3 DEF InHand, ShotgunReady
<1> HIDE DEF t
<1>5. g.nextPrimary <= 0 =>
        ShotgunReady(ShotgunFire(t)) /\ InHand(f, ShotgunFire(t))
  BY <1>3, <1>4, ReadyFire, InHandTransitive
<1>6. InHand(f, f)
  BY <1>1 DEF InHand
<1>7. ShotgunReady(ShotgunReload(f)) /\ InHand(f, ShotgunReload(f))
      /\ ShotgunReady(WeaponIdle(FALSE, f)) /\ InHand(f, WeaponIdle(FALSE, f))
  BY ReadyReload, ReadyIdle
<1> QED
  BY <1>2, <1>5, <1>6, <1>7

\* Whole commands: the M3 is never in a reload of its own, and no burst is its.
LEMMA ShotgunRun ==
  ASSUME NEW f, Good(f), f.id = M3, ~f.wpn[M3].inReload,
         NEW client \in BOOLEAN, NEW buttons, NEW k
  PROVE  RunWeapon(client, f, buttons, k) =
           IF f.nextAttack <= 0 THEN Act(client, f, buttons, k) ELSE f
<1>1. ContinueBurst(client, f, k) = f
  BY WeaponNames DEF ContinueBurst, Bursting
<1>2. CompleteReload(client, f) = f
  BY DEF CompleteReload, Gun
<1> QED
  BY <1>1, <1>2 DEF RunWeapon, ItemPostFrame

LEMMA ReadyRun ==
  ASSUME NEW f, Good(f), f.id = M3, f.type = "buckshot", ShotgunReady(f),
         NEW buttons, NEW k
  PROVE  LET r == RunWeapon(FALSE, f, buttons, k) IN
         ShotgunReady(r) /\ InHand(f, r)
<1>1. InHand(f, f)
  BY DEF InHand, Good
<1>2. RunWeapon(FALSE, f, buttons, k) \in {f, Act(FALSE, f, buttons, k)}
  <2>1. ~f.wpn[M3].inReload
    BY DEF ShotgunReady
  <2> QED
    BY <2>1, ShotgunRun
<1> QED
  BY <1>1, <1>2, ReadyAct

LEMMA RelatedRun ==
  ASSUME NEW c, NEW s, Related(c, s), Good(c), Good(s), ShotgunReady(s),
         NEW buttons, NEW k,
         "reload" \in buttons =>
           c.wpn[M3].special = 0 \/ c.wpn[M3].nextPrimary < 0
  PROVE  Related(RunWeapon(TRUE, c, buttons, k), RunWeapon(FALSE, s, buttons, k))
<1>1. c.id = M3 /\ s.id = M3 /\ c.nextAttack = s.nextAttack /\ Paired(c, s)
  BY DEF Related, Paired
<1>2. ~s.wpn[M3].inReload /\ ~c.wpn[M3].inReload
  <2>1. s.wpn[M3].inReload = c.wpn[M3].inReload
    BY <1>1, PairedTyped
  <2> QED
    BY <2>1 DEF ShotgunReady
<1>3. /\ RunWeapon(TRUE, c, buttons, k) =
           IF c.nextAttack <= 0 THEN Act(TRUE, c, buttons, k) ELSE c
      /\ RunWeapon(FALSE, s, buttons, k) =
           IF s.nextAttack <= 0 THEN Act(FALSE, s, buttons, k) ELSE s
  BY <1>1, <1>2, ShotgunRun
<1>4. Related(Act(TRUE, c, buttons, k), Act(FALSE, s, buttons, k))
  BY RelatedAct
<1> QED
  BY <1>1, <1>3, <1>4

-----------------------------------------------------------------------------
(***************************************************************************)
(* What the server keeps, whatever weapon is in hand.                      *)
(***************************************************************************)

LEMMA DecayedOrder ==
  ASSUME NEW t \in Timers, NEW u \in Timers, t <= u
  PROVE  Decayed(t) <= Decayed(u) /\ Decayed(t) <= u
BY TimeAssumption DEF Decayed, Timers

LEMMA ReadyDecay ==
  ASSUME NEW f \in Frames, Ready(f)
  PROVE  Ready(Decay(f))
<1> DEFINE r == Decay(f)
           g == f.wpn[M3]
           h == r.wpn[M3]
           a == f.wpn[Famas]
           b == r.wpn[Famas]
<1>1. /\ r.id = f.id /\ r.type = f.type /\ r.count = f.count /\ r.tab = f.tab
      /\ r.shoot = f.shoot /\ h = Aged(g) /\ b = Aged(a)
      /\ g \in WeaponData /\ a \in WeaponData
  BY WeaponNames, DecayFields DEF Frames
<1> HIDE DEF r, g, h, a, b
<1>2. /\ h.clip = g.clip /\ h.inReload = g.inReload /\ h.special = g.special
      /\ h.nextPrimary = Decayed(g.nextPrimary) /\ h.idle = Decayed(g.idle)
      /\ g.nextPrimary \in Timers /\ g.idle \in Timers
      /\ b.burst = a.burst
      /\ a.nextSecondary = a.nextPrimary => b.nextSecondary = b.nextPrimary
  BY <1>1, AgedGun DEF WeaponData
<1>3. h.nextPrimary <= IdleTime /\ ~h.inReload
  BY <1>2, DecayedOrder, Times DEF Ready, g
<1>4. g.idle >= g.nextPrimary => h.idle >= h.nextPrimary
  BY <1>2, DecayedOrder, DecayedTimer, Times
<1>5. f.id = Famas => FamasFit(r)
  BY <1>1, <1>2 DEF Ready, FamasFit, a, b
<1>6. f.id = M3 => ShotgunFit(h, r.count)
  BY <1>1, <1>2, <1>4 DEF Ready, ShotgunFit, g
<1>7. f.id = Famas => h.special = 0
  BY <1>2 DEF Ready, g
<1>8. Ready(r)
  BY <1>1, <1>3, <1>5, <1>6, <1>7 DEF Ready, h
<1> QED
  BY <1>8 DEF r

\* The two programs' copies of the code, on a frame.
ServerRun(f, buttons, k) == RunWeapon(FALSE, f, buttons, k)
ClientRun(f, buttons, k) == RunWeapon(TRUE, f, buttons, k)
ServerDraw(f, w) == Switch(FALSE, f, w)

LEMMA ReadyWeapon ==
  ASSUME NEW f, Good(f), Ready(f), NEW buttons, NEW k \in Nat \ {0},
         BurstTimed(f, k - 1, 0)
  PROVE  LET r == ServerRun(f, buttons, k) IN
         /\ Ready(r) /\ r.id = f.id /\ r.type = f.type
         /\ f.id = M3 => r.tab["556nato"] = f.tab["556nato"]
<1> DEFINE r == ServerRun(f, buttons, k)
           m == f.wpn[M3]
<1>1. f \in Frames /\ f.id \in Weapons
  BY DEF Good, Frames
<1>2. CASE f.id = Famas
  <2>1. Trained(f, m)
    BY <1>1, <1>2, WeaponNames DEF Trained, Ready
  <2>2. Trained(r, m)
    BY <2>1, FamasRunFit DEF ServerRun
  <2> HIDE DEF r
  <2>3. Ready(r) /\ r.id = f.id /\ r.type = f.type
    BY <1>2, <2>1, <2>2, WeaponNames DEF Trained, Ready
  <2> QED
    BY <1>2, <2>3, WeaponNames DEF r
<1>3. CASE f.id = M3
  <2>1. f.type = "buckshot" /\ ShotgunReady(f)
    BY <1>3, WeaponNames DEF Ready, ShotgunReady
  <2>2. ShotgunReady(r) /\ InHand(f, r)
    BY <1>3, <2>1, ReadyRun DEF ServerRun
  <2> HIDE DEF r
  <2>3. Ready(r) /\ r.id = f.id /\ r.type = f.type
        /\ r.tab["556nato"] = f.tab["556nato"]
    BY <1>3, <2>1, <2>2, WeaponNames DEF InHand, Ready, ShotgunReady
  <2> QED
    BY <2>3 DEF r
<1> QED
  BY <1>1, <1>2, <1>3, WeaponNames

\* What the server stores is what it loads for the next command.
LEMMA LoadedStored ==
  ASSUME NEW s \in Servers, NEW f \in Frames, f.type = AmmoOf[f.id]
  PROVE  /\ Loaded(Stored(s, f)) = f
         /\ Stored(s, f).tab = f.tab
         /\ Stored(s, f).rg = [s.rg EXCEPT ![f.type] = f.count]
<1>1. s.rg \in [AmmoTypes -> Nat] /\ f.type \in AmmoTypes
  BY DEF Servers, Frames
<1>2. [s.rg EXCEPT ![f.type] = f.count][f.type] = f.count
  BY <1>1
<1> QED
  BY <1>2 DEF Loaded, Stored, Frames

LEMMA LoadedCommand ==
  ASSUME NEW s \in Servers, Sound(s), NEW cmd, NEW k \in Nat
  PROVE  LET f == Loaded(s)
             r == ServerRun(f, cmd.buttons, k)
             t == ServerCommand(s, cmd, k) IN
         /\ Good(f) /\ f.id = s.id /\ f.type = AmmoOf[s.id]
         /\ Good(r) /\ r.id = f.id /\ r.type = f.type
         /\ Loaded(t) = Decay(r)
         /\ t.tab = r.tab /\ t.rg = [s.rg EXCEPT ![AmmoOf[s.id]] = r.count]
<1> DEFINE f == Loaded(s)
           r == ServerRun(f, cmd.buttons, k)
           d == Decay(r)
<1>1. Good(f) /\ f.id = s.id /\ f.type = AmmoOf[s.id]
  BY LoadedGood
<1>2. ServerCommand(s, cmd, k) = Stored(s, d)
  BY DEF ServerCommand, ServerRun
<1> HIDE DEF f
<1>3. Good(r) /\ r.id = f.id /\ r.type = f.type
  BY <1>1, RunWeaponStep DEF Step, ServerRun
<1> HIDE DEF r
<1>4. /\ d \in Frames /\ d.id = r.id /\ d.type = r.type /\ d.tab = r.tab
      /\ d.count = r.count
  BY <1>3, DecayFields DEF Good
<1> HIDE DEF d
<1>5. /\ Loaded(Stored(s, d)) = d /\ Stored(s, d).tab = d.tab
      /\ Stored(s, d).rg = [s.rg EXCEPT ![d.type] = d.count]
  BY <1>1, <1>3, <1>4, LoadedStored
<1> QED
  BY <1>1, <1>2, <1>3, <1>4, <1>5 DEF d, r, f

LEMMA FitCommand ==
  ASSUME NEW s \in Servers, Sound(s), Fit(s), NEW cmd, NEW k \in Nat \ {0},
         BurstTimed(s, k - 1, 0)
  PROVE  Fit(ServerCommand(s, cmd, k))
<1> DEFINE f == Loaded(s)
           r == ServerRun(f, cmd.buttons, k)
           t == ServerCommand(s, cmd, k)
<1>1. /\ Good(f) /\ f.id = s.id /\ f.type = AmmoOf[s.id]
      /\ Good(r) /\ r.id = f.id /\ r.type = f.type
      /\ Loaded(t) = Decay(r)
      /\ t.tab = r.tab /\ t.rg = [s.rg EXCEPT ![AmmoOf[s.id]] = r.count]
  BY LoadedCommand
<1>2. /\ f.wpn = s.wpn /\ f.tab = s.tab /\ f.shoot = s.shoot
      /\ f.shots = s.shots /\ f.nextAttack = s.nextAttack
  BY DEF Loaded
<1>3. Ready(f) /\ BurstTimed(f, k - 1, 0)
  BY <1>1, <1>2 DEF Fit, BurstTimed
<1> HIDE DEF f
<1>4. Ready(r) /\ (f.id = M3 => r.tab["556nato"] = f.tab["556nato"])
  BY <1>1, <1>3, ReadyWeapon
<1> HIDE DEF r
<1>5. r \in Frames /\ s.rg \in [AmmoTypes -> Nat] /\ s.id \in Weapons
  BY <1>1 DEF Good, Servers
<1>6. Ready(Decay(r))
  BY <1>4, <1>5, ReadyDecay
<1>7. t.tab["556nato"] >= t.rg["556nato"]
  <2>1. CASE s.id = Famas
    BY <1>1, <1>4, <1>5, <2>1, WeaponNames DEF Ready, FamasFit
  <2>2. CASE s.id = M3
    BY <1>1, <1>2, <1>4, <1>5, <2>2, WeaponNames DEF Fit
  <2> QED
    BY <1>5, <2>1, <2>2, WeaponNames
<1> HIDE DEF t
<1>8. Fit(t)
  BY <1>1, <1>6, <1>7 DEF Fit
<1> QED
  BY <1>8 DEF t

\* Drawing w on the server: the other weapon is put away out of its reload, and
\* what is drawn gets the deploy delay.
LEMMA SwitchResult ==
  ASSUME NEW f, Good(f), NEW w \in Weapons
  PROVE  LET r == ServerDraw(f, w) IN
         /\ r \in Frames /\ r.id = w /\ r.count = f.count /\ r.tab = f.tab
         /\ r.type = f.type
         /\ ~r.wpn[M3].inReload
         /\ r.wpn[M3].nextPrimary = f.wpn[M3].nextPrimary
         /\ f.id = M3 \/ f.wpn[M3].special = 0 => r.wpn[M3].special = 0
         /\ w = M3 => r.wpn[M3].idle = IdleTime
         /\ w = Famas => r.shoot = NoShot
<1> DEFINE g == Gun(f)
           away == [g EXCEPT !.inReload = FALSE, !.special = 0]
           h == SetGun(f, away)
           m == h.wpn[M3]
           idle == IF w = M3 THEN IdleTime ELSE m.idle
           gun == [m EXCEPT !.idle = idle]
           wpn == [h.wpn EXCEPT ![M3] = gun]
           r == [h EXCEPT !.id = w, !.nextAttack = DeployTime, !.wpn = wpn]
           d == ServerDraw(f, w)
<1>1. f \in Frames /\ g \in WeaponData /\ f.id \in Weapons /\ M3 \in Weapons
      /\ f.wpn[M3] \in WeaponData /\ g = f.wpn[f.id]
      /\ \A v \in Weapons \ {f.id} : ~f.wpn[v].inReload
  BY GoodGun, WeaponNames DEF Good, Sound, Frames, Gun
<1> HIDE DEF g
<1>2. /\ away \in WeaponData /\ away.inReload = FALSE /\ away.special = 0
      /\ away.nextPrimary = g.nextPrimary
  <2>1. 0 \in 0 .. 2
    OBVIOUS
  <2> QED
    BY <1>1, <2>1 DEF WeaponData
<1> HIDE DEF away
<1>3. /\ h \in Frames /\ h.count = f.count /\ h.tab = f.tab /\ h.type = f.type
      /\ h.wpn[f.id] = away /\ \A v \in Weapons \ {f.id} : h.wpn[v] = f.wpn[v]
  BY <1>1, <1>2, SetGunFields
<1>4. Holster(FALSE, f) = h
  BY DEF Holster, h, away, g
<1> HIDE DEF h
<1>5. /\ m \in WeaponData /\ ~m.inReload
      /\ m.nextPrimary = f.wpn[M3].nextPrimary
      /\ f.id = M3 \/ f.wpn[M3].special = 0 => m.special = 0
  <2>1. m \in WeaponData
    BY <1>1, <1>3 DEF Frames
  <2>2. CASE f.id = M3
    <3>1. m = away /\ g = f.wpn[M3]
      BY <1>1, <1>3, <2>2
    <3> QED
      BY <1>2, <2>1, <3>1
  <2>3. CASE f.id # M3
    <3>1. m = f.wpn[M3] /\ ~f.wpn[M3].inReload
      BY <1>1, <1>3, <2>3
    <3> QED
      BY <2>1, <2>3, <3>1
  <2> QED
    BY <2>2, <2>3
<1> HIDE DEF m
<1>6. idle \in Timers /\ (w = M3 => idle = IdleTime)
  BY <1>5, Times DEF WeaponData
<1>7. d = IF w = Famas THEN EndBurst(r) ELSE r
  <2> DEFINE e == [h EXCEPT !.id = w, !.nextAttack = DeployTime,
                     !.wpn[M3].idle = IF w = M3 THEN IdleTime ELSE @]
  <2>1. d = IF w = Famas THEN EndBurst(e) ELSE e
    BY DEF Switch, ServerDraw, Holster, h, away, g
  <2>2. e = r
    BY DEF wpn, gun, idle, m
  <2> QED
    BY <2>1, <2>2
<1> HIDE DEF idle
<1>8. /\ gun \in WeaponData /\ ~gun.inReload /\ gun.nextPrimary = m.nextPrimary
      /\ gun.special = m.special /\ gun.idle = idle
  BY <1>5, <1>6 DEF WeaponData
<1> HIDE DEF gun, d
<1>9. /\ r \in Frames /\ r.id = w /\ r.count = f.count /\ r.tab = f.tab
      /\ r.type = f.type /\ r.wpn[M3] = gun
  BY <1>1, <1>3, <1>8, Times DEF Frames
<1> HIDE DEF r
<1>10. /\ EndBurst(r) \in Frames /\ EndBurst(r).id = r.id
       /\ EndBurst(r).count = r.count /\ EndBurst(r).tab = r.tab
       /\ EndBurst(r).type = r.type
       /\ EndBurst(r).wpn = r.wpn /\ EndBurst(r).shoot = NoShot
  BY <1>9 DEF EndBurst, Frames
<1>11. /\ d \in Frames /\ d.id = w /\ d.count = f.count /\ d.tab = f.tab
       /\ d.type = f.type
       /\ d.wpn[M3] = gun /\ (w = Famas => d.shoot = NoShot)
  BY <1>7, <1>9, <1>10
<1> QED
  BY <1>5, <1>6, <1>8, <1>11 DEF d

LEMMA FitSwitch ==
  ASSUME NEW s \in Servers, Sound(s), Fit(s), NEW w \in Weapons, w # s.id
  PROVE  Fit(Stored(s, ServerDraw(Loaded(s), w)))
<1> DEFINE f == Loaded(s)
           r == ServerDraw(f, w)
           t == Stored(s, r)
           l == Loaded(t)
<1>1. /\ Good(f) /\ f.id = s.id /\ f.type = AmmoOf[s.id] /\ f.wpn = s.wpn
      /\ f.tab = s.tab /\ f.count = s.rg[AmmoOf[s.id]] /\ s.id \in Weapons
      /\ Ready(f) /\ s.rg \in [AmmoTypes -> Nat]
      /\ s.tab["556nato"] >= s.rg["556nato"]
  BY LoadedGood DEF Loaded, Servers, Fit
<1> HIDE DEF f
<1>2. /\ r \in Frames /\ r.id = w /\ r.count = f.count /\ r.tab = f.tab
      /\ r.type = f.type
      /\ ~r.wpn[M3].inReload /\ r.wpn[M3].nextPrimary = f.wpn[M3].nextPrimary
      /\ f.id = M3 \/ f.wpn[M3].special = 0 => r.wpn[M3].special = 0
      /\ w = M3 => r.wpn[M3].idle = IdleTime
      /\ w = Famas => r.shoot = NoShot
  BY <1>1, SwitchResult
<1> HIDE DEF r
<1>3. t.rg = s.rg
  BY <1>1, <1>2 DEF Stored
<1>4. /\ t.id = w /\ t.tab = s.tab /\ t.wpn = r.wpn /\ t.shoot = r.shoot
  BY <1>1, <1>2 DEF Stored
<1> HIDE DEF t
<1>5. /\ l.id = w /\ l.type = AmmoOf[w] /\ l.tab = s.tab /\ l.wpn = r.wpn
      /\ l.shoot = r.shoot /\ l.count = s.rg[AmmoOf[w]]
  BY <1>3, <1>4 DEF Loaded
<1> HIDE DEF l
<1>6. r.wpn[M3].special = 0 /\ r.wpn[M3].nextPrimary <= IdleTime
  BY <1>1, <1>2, WeaponNames DEF Ready
<1>7. w = Famas => FamasFit(l)
  BY <1>1, <1>2, <1>5, WeaponNames DEF FamasFit
<1>8. w = M3 => ShotgunFit(l.wpn[M3], l.count)
  BY <1>2, <1>5, <1>6 DEF ShotgunFit
<1>9. Ready(l)
  BY <1>2, <1>5, <1>6, <1>7, <1>8 DEF Ready
<1> QED
  BY <1>1, <1>3, <1>4, <1>9 DEF Fit, l, t, r, f

\* Counting commands from an update neither starts nor ends a burst.
LEMMA FitShifted ==
  ASSUME NEW s \in Servers, Fit(s), NEW n \in Nat
  PROVE  LET t == [s EXCEPT !.shoot = Shifted(s, n)] IN
         Fit(t) /\ Snapshot(t) = Snapshot(s)
<1> DEFINE t == [s EXCEPT !.shoot = Shifted(s, n)]
           f == Loaded(s)
           l == Loaded(t)
<1>1. /\ t.id = s.id /\ t.wpn = s.wpn /\ t.rg = s.rg /\ t.tab = s.tab
      /\ t.nextAttack = s.nextAttack /\ t.shoot = Shifted(s, n)
  BY DEF Servers
<1>2. Shifted(s, n) # NoShot => s.shoot # NoShot
  BY DEF Shifted
<1> HIDE DEF t
<1>3. /\ l.id = f.id /\ l.type = f.type /\ l.count = f.count /\ l.tab = f.tab
      /\ l.wpn = f.wpn /\ l.shoot = Shifted(s, n) /\ f.shoot = s.shoot
      /\ f.type = AmmoOf[f.id]
      /\ l.nextAttack = f.nextAttack
  BY <1>1 DEF Loaded
<1> HIDE DEF f, l
<1>4. Ready(l)
  BY <1>2, <1>3 DEF Fit, f, Ready, FamasFit
<1>5. Fit(t)
  BY <1>1, <1>4 DEF Fit, l
<1>6. Snapshot(t) = Snapshot(s)
  BY <1>3 DEF Snapshot, Sent, l, f
<1> QED
  BY <1>5, <1>6 DEF t

-----------------------------------------------------------------------------
(***************************************************************************)
(* The two programs, command for command.                                  *)
(***************************************************************************)

\* The command c is predicted for is one of those Plain lets through.
PlainRun(c, buttons) ==
  /\ c.shoot = NoShot /\ ~c.wpn[Famas].burst
  /\ "reload" \in buttons =>
       c.wpn[M3].special = 0 \/ c.wpn[M3].nextPrimary < 0

LEMMA MatchRun ==
  ASSUME NEW c, NEW s, Good(c), Good(s), Match(c, s), Ready(s),
         NEW buttons, NEW k, PlainRun(c, buttons)
  PROVE  LET rc == ClientRun(c, buttons, k)
             rs == ServerRun(s, buttons, k) IN
         Match(rc, rs) /\ rc.shoot = NoShot
<1> DEFINE rc == ClientRun(c, buttons, k)
           rs == ServerRun(s, buttons, k)
           m == c.wpn[M3]
           n == s.wpn[M3]
<1>1. c \in Frames /\ s \in Frames /\ s.id \in Weapons /\ c.id = s.id
  BY DEF Good, Frames, Match
<1>2. CASE s.id = Famas
  <2>1. FamasFit(s) /\ s.type = "556nato" /\ c.wpn[Famas] = s.wpn[Famas]
    BY <1>2, WeaponNames DEF Ready, Match
  <2>2. s.shoot = NoShot
    BY <2>1 DEF FamasFit, PlainRun
  <2>3. Held(c, s, m, n)
    BY <1>1, <1>2, <2>1, <2>2 DEF Held, Match, PlainRun, FamasFit
  <2>4. Held(rc, rs, m, n)
    BY <2>3, HeldRun DEF PlainRun, ClientRun, ServerRun
  <2>5. AlikeGun(m, n) /\ m.idle = n.idle
    BY <1>1, <1>2, WeaponNames DEF Match, TimerIgnored
  <2> HIDE DEF rc, rs, m, n
  <2>6. Match(rc, rs) /\ rc.shoot = NoShot
    BY <2>4, <2>5, WeaponNames DEF Held, Match
  <2> QED
    BY <2>6 DEF rc, rs
<1>3. CASE s.id = M3
  <2>1. Paired(c, s) /\ (SameIdle(c, s) \/ TimerIgnored(c))
    BY <1>1, <1>3, WeaponNames DEF Paired, SameIdle, Match, Ready, PlainRun
  <2>2. ShotgunReady(s) /\ Related(c, s)
    BY <1>3, <2>1 DEF Ready, ShotgunReady, Related
  <2>3. Related(rc, rs)
    BY <2>2, RelatedRun DEF PlainRun, ClientRun, ServerRun
  <2> HIDE DEF rc, rs
  <2>4. Match(rc, rs) /\ rc.shoot = NoShot
    BY <2>3, WeaponNames DEF Related, Paired, SameIdle, Match
  <2> QED
    BY <2>4 DEF rc, rs
<1> QED
  BY <1>1, <1>2, <1>3, WeaponNames

LEMMA AlikeAged ==
  ASSUME NEW g \in WeaponData, NEW h \in WeaponData, AlikeGun(g, h)
  PROVE  AlikeGun(Aged(g), Aged(h))
<1>1. PICK j \in Timers : j = h.idle
  BY DEF WeaponData
<1>2. h = [g EXCEPT !.idle = j]
  BY <1>1 DEF AlikeGun
<1>3. Decayed(j) \in Timers
  BY DecayedTimer
<1>4. Aged(h) = [Aged(g) EXCEPT !.idle = Decayed(j)]
  BY <1>2, <1>3 DEF Aged, WeaponData
<1>5. Aged(h).idle = Decayed(j)
  BY <1>1, AgedGun
<1> QED
  BY <1>4, <1>5 DEF AlikeGun

LEMMA MatchDecay ==
  ASSUME NEW c \in Frames, NEW s \in Frames, Match(c, s)
  PROVE  Match(Decay(c), Decay(s))
<1> DEFINE rc == Decay(c)
           rs == Decay(s)
           m == c.wpn[M3]
           n == s.wpn[M3]
<1>1. /\ rc.id = c.id /\ rc.type = c.type /\ rc.count = c.count
      /\ rc.tab = c.tab /\ rc.nextAttack = Decayed(c.nextAttack)
      /\ rc.wpn[Famas] = Aged(c.wpn[Famas]) /\ rc.wpn[M3] = Aged(m)
      /\ m \in WeaponData
  BY WeaponNames, DecayFields DEF Frames
<1>2. /\ rs.id = s.id /\ rs.type = s.type /\ rs.count = s.count
      /\ rs.nextAttack = Decayed(s.nextAttack)
      /\ rs.wpn[Famas] = Aged(s.wpn[Famas]) /\ rs.wpn[M3] = Aged(n)
      /\ n \in WeaponData
  BY WeaponNames, DecayFields DEF Frames
<1> HIDE DEF rc, rs
<1>3. AlikeGun(Aged(m), Aged(n))
  BY <1>1, <1>2, AlikeAged DEF Match
<1>4. /\ Aged(m).clip = m.clip /\ Aged(m).special = m.special
      /\ Aged(m).idle = Decayed(m.idle) /\ Aged(n).idle = Decayed(n.idle)
      /\ m.idle \in Timers
  BY <1>1, <1>2, AgedGun DEF WeaponData
<1>5. m.idle < 0 => Decayed(m.idle) < 0
  BY <1>4, TimeAssumption DEF Decayed, Timers
<1>6. TimerIgnored(c) => TimerIgnored(rc)
  BY <1>1, <1>4, <1>5 DEF TimerIgnored
<1>7. m.idle = n.idle \/ TimerIgnored(c)
  BY DEF Match
<1> HIDE DEF m, n
<1>8. Match(rc, rs)
  BY <1>1, <1>2, <1>3, <1>4, <1>6, <1>7 DEF Match
<1> QED
  BY <1>8 DEF rc, rs

LEMMA CommandFrames ==
  ASSUME NEW s \in Servers, Sound(s), NEW cmd, NEW k \in Nat
  PROVE  /\ Good(Loaded(s)) /\ Good(ServerRun(Loaded(s), cmd.buttons, k))
         /\ Loaded(ServerCommand(s, cmd, k))
              = Decay(ServerRun(Loaded(s), cmd.buttons, k))
BY LoadedCommand

\* A command that is predicted from a match of the server's state, without a
\* burst, leaves a match of the state the server has after it.
LEMMA PostThinkMatch ==
  ASSUME NEW from \in States, Sound(from), NEW burst \in Bursts,
         NEW s \in Servers, Sound(s), Fit(s), Match(from, Loaded(s)),
         burst.shoot = NoShot, NEW cmd, NEW k \in Nat,
         cmd.select = NoSelect, ~from.wpn[Famas].burst,
         "reload" \in cmd.buttons =>
           from.wpn[M3].special = 0 \/ from.wpn[M3].nextPrimary < 0
  PROVE  LET f == PostThink(from, burst, cmd, k) IN
         /\ f.shoot = NoShot
         /\ Match(Sent(f), Loaded(ServerCommand(s, cmd, k)))
<1> DEFINE f0 == [id |-> from.id, nextAttack |-> from.nextAttack,
             type |-> from.type, count |-> from.count, tab |-> from.tab,
             wpn |-> from.wpn, shoot |-> burst.shoot, shots |-> burst.shots]
           f1 == ClientRun(f0, cmd.buttons, k)
           d == Decay(f1)
           s0 == Loaded(s)
           s1 == ServerRun(s0, cmd.buttons, k)
<1>1. PostThink(from, burst, cmd, k) = d
  <2>1. cmd.select \notin Weapons
    BY DEF NoSelect, Weapons, Famas, M3
  <2> QED
    BY <2>1 DEF PostThink, ClientRun
<1>2. /\ f0.id = from.id /\ f0.nextAttack = from.nextAttack
      /\ f0.type = from.type /\ f0.count = from.count /\ f0.tab = from.tab
      /\ f0.wpn = from.wpn /\ f0.shoot = NoShot
  OBVIOUS
<1>3. Good(f0)
  BY DEF States, Bursts, Good, Sound, Frames
<1> HIDE DEF f0
<1>4. Good(s0) /\ Good(s1) /\ Loaded(ServerCommand(s, cmd, k)) = Decay(s1)
  BY CommandFrames
<1>5. Ready(s0)
  BY DEF Fit
<1> HIDE DEF s0
<1>6. Match(f0, s0)
  BY <1>2 DEF Match, TimerIgnored, s0
<1>7. PlainRun(f0, cmd.buttons)
  BY <1>2 DEF PlainRun
<1>8. Match(f1, s1) /\ f1.shoot = NoShot
  BY <1>3, <1>4, <1>5, <1>6, <1>7, MatchRun
<1>9. Good(f1)
  BY <1>3, RunWeaponStep DEF Step, ClientRun
<1> HIDE DEF f1, s1
<1>10. Match(d, Decay(s1)) /\ d.shoot = NoShot
  BY <1>4, <1>8, <1>9, MatchDecay, DecayFields DEF Good
<1> HIDE DEF d
<1>11. Match(Sent(d), Decay(s1))
  BY <1>10 DEF Match, TimerIgnored, Sent
<1> QED
  BY <1>1, <1>4, <1>10, <1>11

\* The player cannot tell a match from the server's state.
LEMMA MatchVisible ==
  ASSUME NEW c, c \in States, NEW s \in Servers, Sound(s), Match(c, Loaded(s))
  PROVE  Visible(c) = Visible(Snapshot(s))
<1> DEFINE r == Snapshot(s)
           g == c.wpn[M3]
           h == s.wpn[M3]
           shown(x) == IF x.special # 0 THEN x ELSE [x EXCEPT !.idle = -1]
<1>1. /\ r.id = s.id /\ r.nextAttack = s.nextAttack /\ r.wpn = s.wpn
      /\ r.count = s.rg[AmmoOf[s.id]]
  BY DEF Snapshot, Sent, Loaded
<1>2. /\ c.id = s.id /\ c.nextAttack = s.nextAttack
      /\ c.count = s.rg[AmmoOf[s.id]]
      /\ c.wpn[Famas] = s.wpn[Famas] /\ AlikeGun(g, h)
      /\ g.idle = h.idle \/ g.special = 0
  BY DEF Match, TimerIgnored, Loaded
<1>3. g \in WeaponData /\ h \in WeaponData
  BY WeaponNames DEF States, Servers
<1> HIDE DEF g, h, r
<1>4. shown(g) = shown(h)
  <2>1. g.special = h.special /\ (g.idle = h.idle => g = h)
    BY <1>2, <1>3, AlikeFields
  <2>2. [g EXCEPT !.idle = -1] = [h EXCEPT !.idle = -1]
    <3>1. PICK j \in Timers : j = h.idle
      BY <1>3 DEF WeaponData
    <3>2. h = [g EXCEPT !.idle = j]
      BY <1>2, <3>1 DEF AlikeGun
    <3> QED
      BY <1>3, <3>2 DEF WeaponData
  <2> QED
    BY <1>2, <2>1, <2>2
<1>5. \A w \in Weapons : shown(c.wpn[w]) = shown(r.wpn[w])
  BY <1>1, <1>2, <1>4, WeaponNames DEF g, h
<1> DEFINE guns(f) == [w \in Weapons |-> shown(f.wpn[w])]
<1>6. guns(c) = guns(r)
  BY <1>5
<1>7. \A f : Visible(f) = [id |-> f.id, nextAttack |-> f.nextAttack,
                           count |-> f.count, wpn |-> guns(f)]
  BY DEF Visible
<1> HIDE DEF guns
<1> QED
  BY <1>1, <1>2, <1>6, <1>7 DEF r

-----------------------------------------------------------------------------
(***************************************************************************)
(* The invariant of the replay.                                            *)
(***************************************************************************)

\* What command n is predicted from, and the state the server runs it in.
Known(n) == IF n = 0 THEN base ELSE path[n]
Truth(n) == IF n = 0 THEN truth ELSE expected[n]

PlainStep(from, cmd) ==
  /\ cmd.select = NoSelect /\ ~from.wpn[Famas].burst
  /\ "reload" \in cmd.buttons =>
       from.wpn[M3].special = 0 \/ from.wpn[M3].nextPrimary < 0

\* After n commands of the replay: the server's state is fit and its burst on
\* time, and what is shown matches it if every command was plain.
Matched(n) ==
  /\ Fit(Truth(n)) /\ BurstTimed(Truth(n), n, 0)
  /\ Plain(n) => Match(Known(n), Loaded(Truth(n)))

ExactInv ==
  /\ BurstInv /\ Fit(server) /\ Match(base, Loaded(truth))
  /\ \A n \in 0 .. Len(path) : Matched(n)
  /\ Plain(Len(path)) => object.shoot = NoShot

LEMMA LastOfPrefix ==
  ASSUME NEW S, NEW b, NEW p \in Seq(S), NEW i \in 1 .. Len(p) + 1
  PROVE  LastOf(b, SubSeq(p, 1, i - 1)) = IF i = 1 THEN b ELSE p[i - 1]
<1> DEFINE q == SubSeq(p, 1, i - 1)
<1>1. Len(p) \in Nat
  BY LenProperties
<1>2. Len(q) = i - 1 /\ q \in Seq(S) /\ \A j \in 1 .. Len(q) : q[j] = p[j]
  <2>1. 1 \in 1 .. Len(p) + 1 /\ i - 1 \in 1 - 1 .. Len(p)
    BY <1>1
  <2> QED
    BY <1>1, <2>1, SubSeqProperties
<1> HIDE DEF q
<1>3. q = <<>> <=> Len(q) = 0
  BY <1>2, EmptySeq
<1>4. LastOf(b, q) = IF i = 1 THEN b ELSE p[i - 1]
  BY <1>1, <1>2, <1>3 DEF LastOf
<1> QED
  BY <1>4 DEF q

\* Plain, command by command; stated of p and b so that it holds of a state and
\* of its successor.
LEMMA Prefixes ==
  ASSUME NEW S, NEW b, NEW p \in Seq(S), NEW n \in 0 .. Len(p) + 1
  PROVE  \A i \in 1 .. n :
           LastOf(b, SubSeq(p, 1, i - 1)) = IF i - 1 = 0 THEN b ELSE p[i - 1]
<1> TAKE i \in 1 .. n
<1>1. Len(p) \in Nat
  BY LenProperties
<1>2. i \in 1 .. Len(p) + 1 /\ (i = 1 <=> i - 1 = 0)
  BY <1>1
<1>3. LastOf(b, SubSeq(p, 1, i - 1)) = IF i = 1 THEN b ELSE p[i - 1]
  BY <1>2, LastOfPrefix
<1> QED
  BY <1>2, <1>3

LEMMA MatchSelf ==
  ASSUME NEW s \in Servers, Fit(s)
  PROVE  Match(Snapshot(s), Loaded(s))
<1> DEFINE f == Loaded(s)
           c == Snapshot(s)
<1>1. /\ c.id = f.id /\ c.type = f.type /\ c.nextAttack = f.nextAttack
      /\ c.count = f.count /\ c.wpn = f.wpn /\ c.tab = f.tab
  BY DEF Snapshot, Sent
<1>2. f.wpn[M3] \in WeaponData
  BY WeaponNames DEF Servers, Loaded
<1>3. Ready(f)
  BY DEF Fit
<1> HIDE DEF f, c
<1>4. AlikeGun(f.wpn[M3], f.wpn[M3])
  BY <1>2, AlikeSelf
<1>5. f.id = Famas => f.tab["556nato"] >= f.count
  BY <1>3 DEF Ready, FamasFit
<1>6. Match(c, f)
  BY <1>1, <1>4, <1>5 DEF Match
<1> QED
  BY <1>6 DEF c, f

LEMMA ExactInit ==
  ASSUME Init
  PROVE  ExactInv
<1>1. BurstInv
  <2>1. server.shoot = NoShot
    BY DEF Init
  <2> QED
    BY <2>1, WeaponInit DEF BurstInv, BurstTimed
<1>2. server \in Servers
  BY <1>1 DEF BurstInv, WeaponInv, TypeOK
<1>3. Fit(server)
  <2> DEFINE f == Loaded(server)
  <2>1. /\ f.id = Famas /\ f.type = "556nato" /\ f.shoot = NoShot
        /\ f.tab["556nato"] = StartAmmo["556nato"]
        /\ f.count = StartAmmo["556nato"]
        /\ f.wpn[M3] = NewGun(M3)
    BY WeaponNames DEF Init, Loaded
  <2>2. server.tab["556nato"] = StartAmmo["556nato"]
        /\ server.rg["556nato"] = StartAmmo["556nato"]
        /\ StartAmmo["556nato"] \in Nat
    BY WeaponNames, InputAssumption DEF Init
  <2> HIDE DEF f
  <2>3. -1 <= IdleTime
    BY Times DEF Timers
  <2>4. Ready(f)
    BY <2>1, <2>2, <2>3, WeaponNames DEF Ready, FamasFit, NewGun
  <2> QED
    BY <2>2, <2>4 DEF Fit, f
<1>4. Match(base, Loaded(truth)) /\ truth = server
  BY <1>2, <1>3, MatchSelf DEF Init
<1>5. Len(path) = 0 /\ object.shoot = NoShot
  BY EmptySeq DEF Init
<1>6. Matched(0)
  BY <1>3, <1>4 DEF Matched, Truth, Known, Init, BurstTimed
<1> QED
  BY <1>1, <1>3, <1>4, <1>5, <1>6 DEF ExactInv

\* A command is predicted, plain or not.
LEMMA ExactPredict ==
  ASSUME ExactInv, PostRunCmd
  PROVE  ExactInv'
<1>0. PICK j \in Nat : j = Len(path)
  BY LenProperties DEF ExactInv, BurstInv, WeaponInv, TypeOK
<1> DEFINE k == j + 1
           cmd == cmds[k]
           from == Known(j)
           s == Truth(j)
           f == PostThink(from, object, cmd, k)
           t == ServerCommand(s, cmd, k)
<1>1. BurstInv'
  BY BurstNext DEF ExactInv, Next
<1>2. /\ TypeOK /\ AllSound /\ j \in Nat /\ k \in Nat \ {0} /\ k - 1 = j
      /\ Len(path) = j
      /\ path \in Seq(States) /\ expected \in Seq(Servers) /\ Len(expected) = j
      /\ base \in States /\ truth \in Servers /\ object \in Bursts
  BY <1>0 DEF ExactInv, BurstInv, WeaponInv, TypeOK
<1>3. from = LastOf(base, path) /\ from \in States /\ Sound(from)
      /\ s = LastOf(truth, expected) /\ s \in Servers /\ Sound(s)
  BY <1>2, LastOfType DEF Known, Truth, AllSound
<1>4. /\ path' = Append(path, Sent(f)) /\ expected' = Append(expected, t)
      /\ object' = BurstOf(f)
      /\ UNCHANGED <<server, cmds, base, truth, carried>>
  BY <1>2, <1>3 DEF PostRunCmd
<1>5. Fit(s) /\ BurstTimed(s, j, 0)
      /\ (Plain(j) => Match(from, Loaded(s)) /\ object.shoot = NoShot)
  BY <1>2 DEF ExactInv, Matched
<1>6. Fit(t) /\ BurstTimed(t, k, 0)
  <2> HIDE DEF k, s, cmd
  <2>1. BurstTimed(s, k - 1, 0)
    BY <1>2, <1>5
  <2> QED
    BY <1>2, <1>3, <1>5, <2>1, FitCommand, ServerCommandRounds
<1>7. f \in Frames /\ t \in Servers
  <2> HIDE DEF k, s, cmd, from
  <2> QED
    BY <1>2, <1>3, PostThinkGood, ServerCommandSound DEF Good
<1>8. Plain(j) /\ PlainStep(from, cmd)
        => f.shoot = NoShot /\ Match(Sent(f), Loaded(t))
  <2> HAVE Plain(j) /\ PlainStep(from, cmd)
  <2> HIDE DEF k, s, cmd, from
  <2> QED
    BY <1>2, <1>3, <1>5, PostThinkMatch DEF PlainStep
<1>9. BurstOf(f).shoot = f.shoot
  BY DEF BurstOf
<1>10. Sent(f) \in States
  BY <1>7 DEF Sent, States, Frames
<1> HIDE DEF f, t
<1>11. /\ Len(path') = k /\ path'[k] = Sent(f) /\ path' \in Seq(States)
       /\ expected'[k] = t
       /\ \A i \in 1 .. j : path'[i] = path[i] /\ expected'[i] = expected[i]
  BY <1>2, <1>4, <1>7, <1>10, AppendProperties
<1>12. /\ \A n \in 0 .. j : Known(n)' = Known(n) /\ Truth(n)' = Truth(n)
       /\ Known(k)' = Sent(f) /\ Truth(k)' = t
  BY <1>2, <1>4, <1>11 DEF Known, Truth
<1>13. /\ \A n \in 0 .. j : Plain(n)' <=> Plain(n)
       /\ Plain(k)' => Plain(j) /\ PlainStep(from, cmd)
  <2>1. \A n \in 0 .. k : Plain(n) <=>
           ~carried /\ \A i \in 1 .. n : PlainStep(Known(i - 1), cmds[i])
    <3> TAKE n \in 0 .. k
    <3>1. \A i \in 1 .. n : LastOf(base, SubSeq(path, 1, i - 1)) = Known(i - 1)
      BY <1>2, Prefixes DEF Known
    <3> QED
      BY <3>1 DEF Plain, PlainStep
  <2>2. \A n \in 0 .. k : Plain(n)' <=>
           ~carried' /\ \A i \in 1 .. n : PlainStep(Known(i - 1)', cmds'[i])
    <3> TAKE n \in 0 .. k
    <3>1. \A i \in 1 .. n :
            LastOf(base', SubSeq(path', 1, i - 1)) = Known(i - 1)'
      <4>1. path' \in Seq(States) /\ n \in 0 .. Len(path') + 1
        BY <1>2, <1>11
      <4>2. \A i \in 1 .. n :
              LastOf(base', SubSeq(path', 1, i - 1))
                = IF i - 1 = 0 THEN base' ELSE path'[i - 1]
        BY <4>1, Prefixes
      <4> QED
        BY <4>2 DEF Known
    <3> QED
      BY <3>1 DEF Plain, PlainStep, Known
  <2>3. \A n \in 0 .. k : Plain(n)' <=> Plain(n)
    <3> TAKE n \in 0 .. k
    <3>1. \A i \in 1 .. n : Known(i - 1)' = Known(i - 1)
      BY <1>2, <1>12
    <3> QED
      BY <1>4, <2>1, <2>2, <3>1
  <2>4. Plain(k) => Plain(j) /\ PlainStep(from, cmd)
    BY <1>2, <2>1
  <2> QED
    BY <1>2, <2>3, <2>4
<1>14. \A n \in 0 .. j : Matched(n)'
  <2> TAKE n \in 0 .. j
  <2>1. Known(n)' = Known(n) /\ Truth(n)' = Truth(n) /\ (Plain(n)' <=> Plain(n))
    BY <1>12, <1>13
  <2>2. Matched(n)
    BY <1>2 DEF ExactInv
  <2> QED
    BY <2>1, <2>2 DEF Matched
<1>15. Matched(k)'
  BY <1>6, <1>8, <1>12, <1>13 DEF Matched
<1>16. \A n \in (0 .. Len(path))' : Matched(n)'
  BY <1>2, <1>11, <1>14, <1>15
<1>17. (Plain(Len(path)) => object.shoot = NoShot)'
  BY <1>4, <1>8, <1>9, <1>11, <1>13
<1> QED
  BY <1>1, <1>4, <1>16, <1>17 DEF ExactInv

\* A replay that begins from a match: nothing has been predicted yet.
LEMMA ExactReplay ==
  ASSUME BurstInv', Fit(server)', Fit(truth)', BurstTimed(truth, 0, 0)',
         Match(base, Loaded(truth))', NEW burst, StartReplay(burst)
  PROVE  ExactInv'
<1>1. Len(path') = 0 /\ path' = <<>>
  BY EmptySeq DEF StartReplay
<1>2. carried' => object'.shoot # NoShot
  BY DEF StartReplay
<1>3. ~carried' => object'.shoot = NoShot
  BY DEF StartReplay
<1>4. \A n \in 0 .. Len(path') : n = 0
  BY <1>1
<1>5. Matched(0)'
  BY DEF Matched, Known, Truth
<1>6. (Plain(Len(path)) => object.shoot = NoShot)'
  BY <1>1, <1>3 DEF Plain
<1>7. (\A n \in 0 .. Len(path) : Matched(n))'
  BY <1>4, <1>5
<1> QED
  BY <1>6, <1>7 DEF ExactInv

LEMMA ExactCreate ==
  ASSUME ExactInv, NEW cmd \in Commands, CreateMove(cmd)
  PROVE  ExactInv'
<1>1. BurstInv'
  BY BurstNext DEF ExactInv, Next
<1>2. UNCHANGED <<server, base, truth>> /\ StartReplay(object)
  BY DEF CreateMove
<1>3. Len(path) \in Nat
  BY LenProperties DEF ExactInv, BurstInv, WeaponInv, TypeOK
<1>4. Fit(truth) /\ BurstTimed(truth, 0, 0)
  <2>1. Matched(0)
    BY <1>3 DEF ExactInv
  <2> QED
    BY <2>1 DEF Matched, Truth
<1>5. Fit(server)' /\ Fit(truth)' /\ BurstTimed(truth, 0, 0)'
      /\ Match(base, Loaded(truth))'
  BY <1>2, <1>4 DEF ExactInv
<1> QED
  BY <1>1, <1>2, <1>5, ExactReplay

LEMMA ExactReceive ==
  ASSUME ExactInv, ReceiveSnapshot
  PROVE  ExactInv'
<1> DEFINE t == [server EXCEPT !.shoot = Shifted(server, ran)]
           burst == [object EXCEPT !.shoot = Shifted(object, ran)]
<1>1. BurstInv'
  BY BurstNext DEF ExactInv, Next
<1>2. server' = t /\ truth' = t /\ base' = Snapshot(server) /\ StartReplay(burst)
  BY DEF ReceiveSnapshot
<1>3. server \in Servers /\ ran \in Nat /\ Fit(server) /\ BurstTimed(server, ran, 0)
  BY DEF ExactInv, BurstInv, WeaponInv, TypeOK
<1>4. Fit(t) /\ Snapshot(t) = Snapshot(server) /\ BurstTimed(t, 0, 0)
  BY <1>3, FitShifted, ShiftedTimed
<1>5. t \in Servers
  BY <1>1, <1>2 DEF BurstInv, WeaponInv, TypeOK
<1> HIDE DEF t, burst
<1>6. Match(Snapshot(t), Loaded(t))
  BY <1>4, <1>5, MatchSelf
<1>7. Fit(server)' /\ Fit(truth)' /\ BurstTimed(truth, 0, 0)'
      /\ Match(base, Loaded(truth))'
  BY <1>2, <1>4, <1>6
<1> QED
  BY <1>1, <1>2, <1>7, ExactReplay

\* What the server does on its own disturbs no replay.
LEMMA ExactServer ==
  ASSUME ExactInv, BurstInv', Fit(server)',
         UNCHANGED <<base, path, object, truth, expected, carried, cmds>>
  PROVE  ExactInv'
<1>1. \A n : /\ Known(n)' = Known(n) /\ Truth(n)' = Truth(n)
             /\ Plain(n)' <=> Plain(n)
  BY DEF Known, Truth, Plain
<1>2. \A n \in 0 .. Len(path) : Matched(n)'
  <2> TAKE n \in 0 .. Len(path)
  <2>1. Matched(n)
    BY DEF ExactInv
  <2> QED
    BY <1>1, <2>1 DEF Matched
<1>3. (Plain(Len(path)) => object.shoot = NoShot)'
  BY <1>1 DEF ExactInv
<1>4. Match(base, Loaded(truth))'
  BY DEF ExactInv
<1> QED
  BY <1>2, <1>3, <1>4 DEF ExactInv

LEMMA ExactNext ==
  ASSUME ExactInv, [Next]_vars
  PROVE  ExactInv'
<1>1. BurstInv'
  BY BurstNext DEF ExactInv
<1>2. server \in Servers /\ Sound(server) /\ ran \in Nat
      /\ Fit(server) /\ BurstTimed(server, ran, 0)
  BY DEF ExactInv, BurstInv, WeaponInv, TypeOK, AllSound
<1>3. CASE UNCHANGED vars
  BY <1>1, <1>2, <1>3, ExactServer DEF vars, clientVars, replayVars
<1>4. CASE \E cmd \in Commands : CreateMove(cmd)
  BY <1>4, ExactCreate
<1>5. CASE PostRunCmd
  BY <1>5, ExactPredict
<1>6. CASE RunCommand
  <2> DEFINE k == ran + 1
             s == ServerCommand(server, cmds[k], k)
  <2>1. server' = s
        /\ UNCHANGED <<base, path, object, truth, expected, carried, cmds>>
    BY <1>6 DEF RunCommand, clientVars, replayVars
  <2>2. k \in Nat \ {0} /\ BurstTimed(server, k - 1, 0)
    BY <1>2
  <2>3. Fit(s)
    <3> HIDE DEF k
    <3> QED
      BY <1>2, <2>2, FitCommand
  <2> QED
    BY <1>1, <2>1, <2>3, ExactServer
<1>7. CASE SelectItem
  <2> DEFINE w == Head(pending)
             s == Stored(server, ServerDraw(Loaded(server), w))
  <2>1. /\ server' = IF w = server.id THEN server ELSE s
        /\ UNCHANGED <<base, path, object, truth, expected, carried, cmds>>
    BY <1>7 DEF SelectItem, clientVars, replayVars, ServerDraw
  <2>2. w \in Weapons
    BY <1>7, HeadTailProperties DEF SelectItem, ExactInv, BurstInv, WeaponInv,
       TypeOK
  <2>3. w # server.id => Fit(s)
    <3> HIDE DEF w
    <3> QED
      BY <1>2, <2>2, FitSwitch
  <2>4. Fit(server)'
    BY <1>2, <2>1, <2>3
  <2> QED
    BY <1>1, <2>1, <2>4, ExactServer
<1>8. CASE ReceiveSnapshot
  BY <1>8, ExactReceive
<1> QED
  BY <1>3, <1>4, <1>5, <1>6, <1>7, <1>8 DEF Next

\* Every plain replay matches the server, command for command.
THEOREM ExactInvHolds == Spec => []ExactInv
<1>1. Init => ExactInv
  BY ExactInit
<1>2. ExactInv /\ [Next]_vars => ExactInv'
  BY ExactNext
<1> QED
  BY <1>1, <1>2, PTL DEF Spec

\* For any clips, any delays in the order the code has them, any reserves and
\* any number of commands in flight: what the client shows after a plain
\* command is what the server will have, although its copy of the code differs.
THEOREM PredictionIsExact == Spec => []PredictionExact
<1>1. ExactInv => PredictionExact
  <2> SUFFICES ASSUME ExactInv, NEW n \in 1 .. Len(path), Plain(n)
               PROVE  Visible(path[n]) = Visible(Snapshot(expected[n]))
    BY DEF PredictionExact
  <2>1. /\ Len(path) \in Nat /\ n \in Nat \ {0}
        /\ path \in Seq(States) /\ expected \in Seq(Servers)
        /\ Len(expected) = Len(path)
    BY LenProperties DEF ExactInv, BurstInv, WeaponInv, TypeOK
  <2>2. path[n] \in States /\ expected[n] \in Servers /\ Sound(expected[n])
    BY <2>1, ElementOfSeq DEF ExactInv, BurstInv, WeaponInv, AllSound
  <2>3. Matched(n)
    BY <2>1 DEF ExactInv
  <2>4. Match(path[n], Loaded(expected[n]))
    BY <2>1, <2>3 DEF Matched, Known, Truth
  <2> QED
    BY <2>2, <2>4, MatchVisible
<1> QED
  BY <1>1, ExactInvHolds, PTL
=============================================================================
