------------------------ MODULE WeaponPredictionProofs ------------------------
(***************************************************************************)
(* Proofs about WeaponPrediction for any clips, delays, reserves and       *)
(* window of commands.                                                     *)
(***************************************************************************)
EXTENDS WeaponPrediction, SequenceTheorems, TLAPS

\* A player with its weapons while a command runs.
Frames ==
  [id : Weapons, nextAttack : Timers, type : AmmoTypes, count : Nat,
   tab : [AmmoTypes -> Int], wpn : [Weapons -> WeaponData],
   shoot : Nat \cup {NoShot}, shots : Nat]

\* No clip is over- or underfull, and only the weapon in hand is reloaded.
Sound(f) ==
  \A w \in Weapons :
    f.wpn[w].clip \in 0 .. MaxClip[w] /\ (f.wpn[w].inReload => w = f.id)

Good(f) == f \in Frames /\ Sound(f)

Loadout(f) == Gun(f).clip + f.count

\* What code that does not switch weapons makes of a frame: the weapon in hand
\* loses at most n rounds and the other none.
Step(f, r, n) ==
  /\ Good(r) /\ r.id = f.id /\ r.type = f.type
  /\ Loadout(f) - n <= Loadout(r) /\ Loadout(r) <= Loadout(f)
  /\ \A w \in Weapons \ {f.id} : r.wpn[w].clip = f.wpn[w].clip

LEMMA Times ==
  /\ CycleTime \in Timers /\ BurstTime \in Timers /\ EmptyTime \in Timers
  /\ ModeTime \in Timers /\ ReloadTime \in Timers /\ DeployTime \in Timers
  /\ IdleTime \in Timers /\ ShotTime \in Timers /\ DryTime \in Timers
  /\ StartTime \in Timers /\ ShellTime \in Timers
  /\ -1 \in Timers
  /\ Timers \subseteq Int
<1>1. \A d \in Delays : d \in Timers
  BY TimeAssumption DEF Timers
<1>2. /\ CycleTime \in Delays /\ BurstTime \in Delays /\ EmptyTime \in Delays
      /\ ModeTime \in Delays /\ ReloadTime \in Delays /\ DeployTime \in Delays
      /\ IdleTime \in Delays /\ ShotTime \in Delays /\ DryTime \in Delays
      /\ StartTime \in Delays /\ ShellTime \in Delays
  BY DEF Delays
<1>3. -1 \in Timers /\ Timers \subseteq Int
  BY DEF Timers
<1> QED
  BY <1>1, <1>2, <1>3

LEMMA DecayedTimer ==
  ASSUME NEW t \in Timers
  PROVE  Decayed(t) \in Timers
BY TimeAssumption DEF Timers, Decayed

LEMMA GoodGun ==
  ASSUME NEW f, Good(f)
  PROVE  /\ Gun(f) \in WeaponData /\ Gun(f).clip \in 0 .. MaxClip[f.id]
         /\ MaxClip[f.id] \in Nat \ {0} /\ f.id \in Weapons
         /\ f.count \in Nat
BY ClipAssumption DEF Good, Frames, Sound, Gun

\* SetGun replaces the weapon in hand and nothing else.
LEMMA SetGunFields ==
  ASSUME NEW f \in Frames, NEW g \in WeaponData
  PROVE  LET r == SetGun(f, g) IN
         /\ r \in Frames
         /\ r.id = f.id /\ r.nextAttack = f.nextAttack /\ r.type = f.type
         /\ r.count = f.count /\ r.tab = f.tab /\ r.shoot = f.shoot
         /\ r.shots = f.shots /\ Gun(r) = g
         /\ r.wpn[f.id] = g
         /\ \A w \in Weapons \ {f.id} : r.wpn[w] = f.wpn[w]
BY DEF SetGun, Gun, Frames

LEMMA LoadoutInt ==
  ASSUME NEW f, Good(f)
  PROVE  /\ Loadout(f) \in Int /\ Gun(f).clip \in Int /\ f.count \in Int
         /\ Loadout(f) = Gun(f).clip + f.count
BY GoodGun DEF WeaponData, Loadout

LEMMA SetGunStep ==
  ASSUME NEW f, Good(f), NEW g \in WeaponData, g.clip \in 0 .. MaxClip[f.id]
  PROVE  /\ Good(SetGun(f, g))
         /\ \A n \in Nat : g.clip <= Gun(f).clip /\ Gun(f).clip - n <= g.clip
              => Step(f, SetGun(f, g), n)
<1> f \in Frames /\ f.id \in Weapons
  BY DEF Good, Frames
<1>1. Good(SetGun(f, g))
  BY SetGunFields DEF Good, Sound
<1>2. Gun(f) \in WeaponData /\ Gun(f).clip \in Int /\ g.clip \in Int /\ f.count \in Int
  BY GoodGun DEF WeaponData
<1>3. Loadout(SetGun(f, g)) = g.clip + f.count /\ Loadout(f) = Gun(f).clip + f.count
  BY SetGunFields DEF Loadout
<1>4. /\ SetGun(f, g).id = f.id /\ SetGun(f, g).type = f.type
      /\ \A w \in Weapons \ {f.id} : SetGun(f, g).wpn[w].clip = f.wpn[w].clip
  BY SetGunFields
<1> QED
  BY <1>1, <1>2, <1>3, <1>4 DEF Step

LEMMA SetGunSame ==
  ASSUME NEW f, Good(f), NEW g \in WeaponData, g.clip = Gun(f).clip
  PROVE  Step(f, SetGun(f, g), 0)
<1>1. g.clip \in 0 .. MaxClip[f.id] /\ g.clip <= Gun(f).clip
      /\ Gun(f).clip - 0 <= g.clip
  BY GoodGun, LoadoutInt
<1> QED
  BY <1>1, SetGunStep

\* A shot takes one round.
LEMMA SetGunShot ==
  ASSUME NEW f, Good(f), NEW g \in WeaponData, g.clip >= 0,
         g.clip <= Gun(f).clip, Gun(f).clip - 1 <= g.clip
  PROVE  Step(f, SetGun(f, g), 1)
<1>1. g.clip \in 0 .. MaxClip[f.id]
  BY GoodGun DEF WeaponData
<1> QED
  BY <1>1, SetGunStep

LEMMA StepTransitive ==
  ASSUME NEW f, NEW g, NEW h, Good(f), NEW m \in Nat, NEW n \in Nat,
         Step(f, g, m), Step(g, h, n), NEW p \in Nat, m + n <= p
  PROVE  Step(f, h, p)
<1>1. Loadout(f) \in Int /\ Loadout(g) \in Int /\ Loadout(h) \in Int
  BY LoadoutInt DEF Step
<1>2. Loadout(f) - p <= Loadout(h) /\ Loadout(h) <= Loadout(f)
  BY <1>1 DEF Step
<1> QED
  BY <1>2 DEF Step

LEMMA StepZero ==
  ASSUME NEW f, NEW g, NEW h, Good(f), NEW n \in Nat
  PROVE  /\ Step(f, g, n) /\ Step(g, h, 0) => Step(f, h, n)
         /\ Step(f, g, 0) /\ Step(g, h, n) => Step(f, h, n)
<1>1. n + 0 <= n /\ 0 + n <= n
  OBVIOUS
<1> QED
  BY <1>1, StepTransitive

LEMMA StepWeaken ==
  ASSUME NEW f, NEW g, Good(f), NEW m \in Nat, Step(f, g, m),
         NEW p \in Nat, m <= p
  PROVE  Step(f, g, p)
<1>1. Loadout(f) \in Int /\ Loadout(g) \in Int
  BY LoadoutInt DEF Step
<1> QED
  BY <1>1 DEF Step

LEMMA StepReflexive ==
  ASSUME NEW f, Good(f), NEW n \in Nat
  PROVE  Step(f, f, n)
BY LoadoutInt DEF Step

\* Fields other than the weapons and the reserve.
LEMMA FieldsStep ==
  ASSUME NEW f, Good(f), NEW r \in Frames, r.id = f.id, r.type = f.type,
         r.wpn = f.wpn, r.count = f.count
  PROVE  Step(f, r, 0)
<1>1. Loadout(r) = Loadout(f) /\ Sound(r)
  BY DEF Good, Sound, Gun, Loadout
<1> QED
  BY <1>1, LoadoutInt DEF Good, Step

-----------------------------------------------------------------------------
(***************************************************************************)
(* The weapon code, operator by operator.                                  *)
(***************************************************************************)

LEMMA EndBurstStep ==
  ASSUME NEW f, Good(f)
  PROVE  Step(f, EndBurst(f), 0)
<1>1. f \in Frames
  BY DEF Good
<1>2. /\ EndBurst(f) \in Frames /\ EndBurst(f).id = f.id
      /\ EndBurst(f).type = f.type /\ EndBurst(f).wpn = f.wpn
      /\ EndBurst(f).count = f.count
  BY <1>1 DEF EndBurst, Frames
<1> QED
  BY <1>1, <1>2, FieldsStep DEF Frames

LEMMA ToggleBurstStep ==
  ASSUME NEW f, Good(f)
  PROVE  Step(f, ToggleBurst(f), 0)
<1> DEFINE g == [Gun(f) EXCEPT !.burst = ~@, !.nextSecondary = ModeTime]
<1>1. g \in WeaponData /\ g.clip = Gun(f).clip
  BY GoodGun, Times DEF WeaponData
<1> QED
  BY <1>1, SetGunSame DEF ToggleBurst

LEMMA FamasFireStep ==
  ASSUME NEW f, Good(f), NEW k \in Nat
  PROVE  Step(f, FamasFire(f, k), 1)
<1> DEFINE g == Gun(f)
           delay == IF g.burst THEN BurstTime ELSE CycleTime
           shot == [g EXCEPT !.clip = @ - 1, !.nextPrimary = delay,
                             !.nextSecondary = delay]
           fired == SetGun(f, shot)
           dry == [g EXCEPT !.nextPrimary = EmptyTime]
<1>1. g \in WeaponData /\ g.clip \in 0 .. MaxClip[f.id] /\ MaxClip[f.id] \in Nat
  BY GoodGun
<1>2. CASE g.clip <= 0
  <2> DEFINE f0 == IF g.burst THEN [f EXCEPT !.shots = 0] ELSE f
  <2>1. Step(f, f0, 0)
    <3>1. f0 \in Frames /\ f0.id = f.id /\ f0.type = f.type /\ f0.wpn = f.wpn
          /\ f0.count = f.count
      BY DEF Good, Frames
    <3> QED
      BY <3>1, FieldsStep, GoodGun
  <2>2. dry \in WeaponData /\ dry.clip = g.clip
    BY <1>1, Times DEF WeaponData
  <2>3. Good(f0) /\ Gun(f0) = g /\ f0.id = f.id
    BY <2>1 DEF Step, Gun, Good, Frames
  <2>4. Step(f0, SetGun(f0, dry), 0)
    BY <2>2, <2>3, SetGunSame
  <2>5. FamasFire(f, k) = SetGun(f0, dry)
    BY <1>2 DEF FamasFire
  <2> QED
    BY <2>1, <2>4, <2>5, StepTransitive
<1>3. CASE ~(g.clip <= 0)
  <2> delay \in Timers
    BY Times
  <2>1. shot \in WeaponData /\ shot.clip = g.clip - 1
    <3> HIDE DEF g, delay
    <3>1. PICK c \in Int : c = g.clip - 1
      BY <1>1 DEF WeaponData
    <3>2. shot = [g EXCEPT !.clip = c, !.nextPrimary = delay,
                           !.nextSecondary = delay]
      BY <3>1
    <3> HIDE DEF shot
    <3> QED
      BY <1>1, <3>1, <3>2 DEF WeaponData
  <2>2. Step(f, fired, 1)
    <3>1. g.clip \in Int /\ shot.clip \in 0 .. MaxClip[f.id] /\ shot.clip <= g.clip
      BY <1>1, <1>3, <2>1
    <3> HIDE DEF shot
    <3> QED
      BY <2>1, <3>1, SetGunStep
  <2>3. FamasFire(f, k) =
          IF g.burst THEN [fired EXCEPT !.shots = 1, !.shoot = k] ELSE fired
    BY <1>3 DEF FamasFire
  <2>4. CASE g.burst
    <3> DEFINE r == [fired EXCEPT !.shots = 1, !.shoot = k]
    <3> HIDE DEF fired
    <3>1. r \in Frames /\ r.id = fired.id /\ r.type = fired.type
          /\ r.wpn = fired.wpn /\ r.count = fired.count
      BY <2>2 DEF Step, Good, Frames
    <3>2. Good(fired)
      BY <2>2 DEF Step
    <3>3. Step(fired, r, 0)
      BY <3>1, <3>2, FieldsStep, GoodGun
    <3> QED
      BY <2>2, <2>3, <2>4, <3>3, StepTransitive
  <2> QED
    BY <2>2, <2>3, <2>4
<1> QED
  BY <1>2, <1>3

\* Rounds that move from the reserve into the clip.
LEMMA LoadStep ==
  ASSUME NEW f, Good(f), NEW g \in WeaponData, NEW j \in Nat,
         g.clip = Gun(f).clip + j, g.clip <= MaxClip[f.id],
         NEW r \in Frames, r.id = f.id, r.type = f.type,
         r.wpn = SetGun(f, g).wpn, r.count = f.count - j
  PROVE  Step(f, r, 0)
<1>1. /\ Gun(f).clip \in Int /\ f.count \in Int /\ g.clip \in Int /\ Gun(f).clip >= 0
      /\ MaxClip[f.id] \in Int
  BY GoodGun DEF WeaponData
<1>2. g.clip \in 0 .. MaxClip[f.id] /\ f \in Frames
  BY <1>1 DEF Good
<1>3. Sound(SetGun(f, g)) /\ SetGun(f, g).id = f.id /\ Gun(SetGun(f, g)) = g
  BY <1>2, SetGunStep, SetGunFields DEF Good
<1>4. Sound(r) /\ Gun(r) = g /\ Loadout(r) = Loadout(f)
  BY <1>1, <1>3 DEF Sound, Gun, Loadout
<1>5. \A w \in Weapons \ {f.id} : r.wpn[w].clip = f.wpn[w].clip
  BY <1>2, SetGunFields
<1> QED
  BY <1>4, <1>5, LoadoutInt DEF Step, Good

LEMMA FireRemainingStep ==
  ASSUME NEW f, Good(f), NEW client \in BOOLEAN, NEW k \in Nat
  PROVE  Step(f, FireRemaining(client, f, k), 1)
<1> DEFINE g == Gun(f)
<1>1. g \in WeaponData /\ g.clip \in 0 .. MaxClip[f.id] /\ MaxClip[f.id] \in Nat
  BY GoodGun
<1>2. CASE g.clip - 1 < 0
  <2> DEFINE h == SetGun(f, [g EXCEPT !.clip = 0])
  <2>1. [g EXCEPT !.clip = 0] \in WeaponData /\ [g EXCEPT !.clip = 0].clip = g.clip
    BY <1>1, <1>2 DEF WeaponData
  <2>2. Step(f, h, 0)
    BY <2>1, SetGunSame
  <2>3. FireRemaining(client, f, k) = EndBurst(h)
    BY <1>2 DEF FireRemaining
  <2> HIDE DEF h
  <2>4. Step(h, EndBurst(h), 0)
    BY <2>2, EndBurstStep DEF Step
  <2> QED
    BY <2>2, <2>3, <2>4, StepTransitive
<1>3. CASE ~(g.clip - 1 < 0)
  <2> DEFINE shot == [g EXCEPT !.clip = @ - 1]
             h == SetGun(f, shot)
             fired == [h EXCEPT !.tab["556nato"] = IF client THEN @ - 1 ELSE @]
             more == [fired EXCEPT !.shots = @ + 1, !.shoot = k + BurstGap]
  <2>1. shot \in WeaponData /\ shot.clip = g.clip - 1
    BY <1>1 DEF WeaponData
  <2>2. shot.clip \in 0 .. MaxClip[f.id] /\ shot.clip <= g.clip
    BY <1>1, <1>3, <2>1
  <2>3. Step(f, h, 1)
    <3> HIDE DEF shot
    <3> QED
      BY <2>1, <2>2, SetGunStep
  <2> HIDE DEF h
  <2>4. Good(h) /\ h \in Frames
    BY <2>3 DEF Step, Good
  <2>5. fired \in Frames /\ fired.id = h.id /\ fired.type = h.type
        /\ fired.wpn = h.wpn /\ fired.count = h.count
    BY <2>4 DEF Frames, AmmoTypes
  <2>6. Step(f, fired, 1)
    BY <2>3, <2>4, <2>5, FieldsStep, StepZero
  <2> HIDE DEF fired
  <2>7. Good(fired)
    BY <2>6 DEF Step
  <2>8. k + BurstGap \in Nat
    BY TimeAssumption
  <2>9. more \in Frames /\ more.id = fired.id /\ more.type = fired.type
        /\ more.wpn = fired.wpn /\ more.count = fired.count
    <3>1. PICK n \in Nat : n = fired.shots + 1
      BY <2>5 DEF Frames
    <3>2. more = [fired EXCEPT !.shots = n, !.shoot = k + BurstGap]
      BY <3>1
    <3> HIDE DEF more
    <3> QED
      BY <2>5, <2>8, <3>2 DEF Frames
  <2>10. Step(fired, more, 0) /\ Step(fired, EndBurst(fired), 0)
    BY <2>7, <2>9, FieldsStep, EndBurstStep
  <2>11. FireRemaining(client, f, k) =
           IF f.shots + 1 # 3 THEN more ELSE EndBurst(fired)
    BY <1>3, <2>5 DEF FireRemaining, fired, h
  <2> HIDE DEF more
  <2> QED
    BY <2>6, <2>10, <2>11, StepTransitive
<1> QED
  BY <1>2, <1>3

LEMMA ContinueBurstStep ==
  ASSUME NEW f, Good(f), NEW client \in BOOLEAN, NEW k \in Nat
  PROVE  /\ Step(f, ContinueBurst(client, f, k), 2)
         /\ ~client => Step(f, ContinueBurst(client, f, k), 1)
<1> DEFINE g == Gun(f)
           c == g.clip - 1
           shot == [g EXCEPT !.clip = IF c < 0 THEN 0 ELSE c]
           taken == SetGun(f, shot)
<1>1. g \in WeaponData /\ g.clip \in 0 .. MaxClip[f.id] /\ MaxClip[f.id] \in Nat
  BY GoodGun
<1>2. PICK d \in Int : d = IF c < 0 THEN 0 ELSE c
  BY <1>1
<1>3. d >= 0 /\ d <= g.clip /\ g.clip - 1 <= d
  BY <1>1, <1>2
<1>4. shot = [g EXCEPT !.clip = d]
  BY <1>2
<1> HIDE DEF c, shot
<1>5. shot \in WeaponData /\ shot.clip = d
  BY <1>1, <1>4 DEF WeaponData
<1>6. Step(f, taken, 1)
  BY <1>1, <1>3, <1>5, SetGunShot DEF g
<1> HIDE DEF taken
<1>7. Good(taken)
  BY <1>6 DEF Step
<1>8. /\ Step(f, FireRemaining(FALSE, f, k), 1)
      /\ Step(f, FireRemaining(TRUE, taken, k), 2)
  <2>1. /\ Step(f, FireRemaining(FALSE, f, k), 1)
        /\ Step(taken, FireRemaining(TRUE, taken, k), 1)
    BY <1>7, FireRemainingStep
  <2>2. 1 + 1 <= 2
    OBVIOUS
  <2> QED
    BY <1>6, <2>1, <2>2, StepTransitive
<1>9. ContinueBurst(client, f, k) \in
        {f, FireRemaining(FALSE, f, k), FireRemaining(TRUE, taken, k)}
  BY DEF ContinueBurst, Bursting, taken, shot, c
<1>10. ~client => ContinueBurst(client, f, k) \in {f, FireRemaining(FALSE, f, k)}
  BY DEF ContinueBurst, Bursting
<1>11. Step(f, FireRemaining(FALSE, f, k), 2)
  <2>1. 1 \in Nat /\ 2 \in Nat /\ 1 <= 2
    OBVIOUS
  <2> QED
    BY <1>8, <2>1, StepWeaken
<1> QED
  BY <1>8, <1>9, <1>10, <1>11, StepReflexive

LEMMA DefaultReloadStep ==
  ASSUME NEW f, Good(f)
  PROVE  Step(f, DefaultReload(f), 0)
<1> DEFINE g == [Gun(f) EXCEPT !.inReload = TRUE]
           h == SetGun(f, g)
           r == [h EXCEPT !.nextAttack = ReloadTime]
<1>1. g \in WeaponData /\ g.clip = Gun(f).clip
  BY GoodGun DEF WeaponData
<1>2. g.clip \in 0 .. MaxClip[f.id]
  BY <1>1, GoodGun
<1> HIDE DEF g
<1>3. Step(f, h, 0)
  BY <1>1, <1>2, SetGunStep
<1> HIDE DEF h
<1>4. Good(h)
  BY <1>3 DEF Step
<1>5. r \in Frames /\ r.id = h.id /\ r.type = h.type /\ r.wpn = h.wpn
      /\ r.count = h.count
  BY <1>4, Times DEF Good, Frames
<1>6. Step(f, r, 0)
  BY <1>3, <1>4, <1>5, FieldsStep, StepZero
<1>7. DefaultReload(f) \in {f, r}
  BY DEF DefaultReload, h, g
<1> QED
  BY <1>6, <1>7, StepReflexive

\* The ways the M3's code changes its weapon.
LEMMA ShotgunTypes ==
  ASSUME NEW g \in WeaponData, NEW c \in Int, NEW n \in 0 .. 2,
         NEW i \in Timers, NEW p \in Timers
  PROVE  /\ [g EXCEPT !.special = n, !.idle = i] \in WeaponData
         /\ [g EXCEPT !.special = n, !.idle = i, !.nextPrimary = p]
              \in WeaponData
         /\ [g EXCEPT !.clip = c, !.special = n] \in WeaponData
         /\ [g EXCEPT !.clip = c, !.nextPrimary = p, !.special = n, !.idle = i]
              \in WeaponData
BY DEF WeaponData

LEMMA ShotgunReloadStep ==
  ASSUME NEW f, Good(f)
  PROVE  Step(f, ShotgunReload(f), 0)
<1> DEFINE g == Gun(f)
           g0 == [g EXCEPT !.special = 1, !.idle = StartTime,
                           !.nextPrimary = StartTime]
           g1 == [g EXCEPT !.special = 2, !.idle = ShellTime]
           g2 == [g EXCEPT !.clip = @ + 1, !.special = 1]
           h0 == SetGun(f, g0)
           h2 == SetGun(f, g2)
           r0 == [h0 EXCEPT !.nextAttack = StartTime]
           r1 == SetGun(f, g1)
           r2 == [h2 EXCEPT !.count = @ - 1, !.tab["buckshot"] = @ - 1]
           idle == f.count <= 0 \/ g.clip = MaxClip[f.id] \/ g.nextPrimary > 0
<1> f \in Frames
  BY DEF Good
<1>1. g \in WeaponData /\ g.clip \in 0 .. MaxClip[f.id] /\ MaxClip[f.id] \in Nat
      /\ f.count \in Nat
  BY GoodGun
<1> HIDE DEF g
<1>2. Step(f, r0, 0)
  <2>1. g0 \in WeaponData /\ g0.clip = g.clip
    <3>1. 1 \in 0 .. 2 /\ 2 \in 0 .. 2
      OBVIOUS
    <3>2. g0 \in WeaponData
      BY <1>1, <3>1, Times, ShotgunTypes
    <3> QED
      BY <1>1, <3>2 DEF WeaponData
  <2> HIDE DEF g0
  <2>2. Step(f, h0, 0)
    BY <2>1, SetGunSame DEF g
  <2> HIDE DEF h0
  <2>3. Good(h0)
    BY <2>2 DEF Step
  <2>4. r0 \in Frames /\ r0.id = h0.id /\ r0.type = h0.type /\ r0.wpn = h0.wpn
        /\ r0.count = h0.count
    BY <2>3, Times DEF Good, Frames
  <2> HIDE DEF r0
  <2> QED
    BY <2>2, <2>3, <2>4, FieldsStep, StepTransitive
<1>3. Step(f, r1, 0)
  <2>1. g1 \in WeaponData /\ g1.clip = g.clip
    <3>1. 1 \in 0 .. 2 /\ 2 \in 0 .. 2
      OBVIOUS
    <3>2. g1 \in WeaponData
      BY <1>1, <3>1, Times, ShotgunTypes
    <3> QED
      BY <1>1, <3>2 DEF WeaponData
  <2> HIDE DEF g1
  <2> QED
    BY <2>1, SetGunSame DEF g
<1>4. ASSUME ~idle
      PROVE  Step(f, r2, 0)
  <2>1. PICK c \in Int : c = g.clip + 1
    BY <1>1
  <2>2. g2 = [g EXCEPT !.clip = c, !.special = 1]
    BY <2>1
  <2> HIDE DEF g2
  <2>3. g2 \in WeaponData /\ g2.clip = g.clip + 1
    <3>1. 1 \in 0 .. 2
      OBVIOUS
    <3>2. g2 \in WeaponData
      BY <1>1, <2>2, <3>1, ShotgunTypes, Times
    <3> QED
      BY <1>1, <2>1, <2>2, <3>2 DEF WeaponData
  <2>4. h2 \in Frames /\ h2.id = f.id /\ h2.type = f.type /\ h2.count = f.count
    BY <2>3, SetGunFields
  <2> HIDE DEF h2
  <2>5. PICK n \in Nat : n = f.count - 1
    BY <1>1, <1>4
  <2>6. PICK m \in Int : m = h2.tab["buckshot"] - 1
    BY <2>4 DEF Frames, AmmoTypes
  <2>7. r2 = [h2 EXCEPT !.count = n, !.tab["buckshot"] = m]
    BY <2>4, <2>5, <2>6
  <2> HIDE DEF r2
  <2>8. r2 \in Frames /\ r2.id = f.id /\ r2.type = f.type /\ r2.count = f.count - 1
        /\ r2.wpn = h2.wpn
    BY <2>4, <2>5, <2>7 DEF Frames, AmmoTypes
  <2>9. g2.clip <= MaxClip[f.id]
    BY <1>1, <1>4, <2>3
  <2> QED
    BY <1>1, <2>3, <2>8, <2>9, LoadStep DEF h2, g
<1>5. \/ ShotgunReload(f) = f
      \/ ShotgunReload(f) = r0
      \/ ShotgunReload(f) = r1
      \/ ~idle /\ ShotgunReload(f) = r2
  BY DEF ShotgunReload, g
<1> QED
  BY <1>2, <1>3, <1>4, <1>5, StepReflexive

LEMMA ReloadStep ==
  ASSUME NEW f, Good(f)
  PROVE  Step(f, Reload(f), 0)
BY StepReflexive, DefaultReloadStep, ShotgunReloadStep DEF Reload

LEMMA ShotgunFireStep ==
  ASSUME NEW f, Good(f)
  PROVE  Step(f, ShotgunFire(f), 1)
<1> DEFINE g == Gun(f)
           h == ShotgunReload(f)
           dry == [Gun(h) EXCEPT !.nextPrimary = DryTime]
           time == IF g.clip - 1 # 0 THEN IdleTime ELSE ShotTime
           shot == [g EXCEPT !.clip = @ - 1, !.nextPrimary = ShotTime,
                       !.special = 0, !.idle = time]
<1>1. g \in WeaponData /\ g.clip \in 0 .. MaxClip[f.id] /\ MaxClip[f.id] \in Nat
  BY GoodGun
<1> HIDE DEF g
<1>2. Step(f, SetGun(h, dry), 0)
  <2>1. Step(f, h, 0)
    BY ShotgunReloadStep
  <2> HIDE DEF h
  <2>2. Good(h)
    BY <2>1 DEF Step
  <2>3. dry \in WeaponData /\ dry.clip = Gun(h).clip
    BY <2>2, GoodGun, Times DEF WeaponData
  <2>4. dry.clip \in 0 .. MaxClip[h.id]
    BY <2>2, <2>3, GoodGun
  <2> HIDE DEF dry
  <2> QED
    BY <2>1, <2>2, <2>3, <2>4, SetGunStep, StepTransitive
<1>3. ASSUME ~(g.clip <= 0)
      PROVE  Step(f, SetGun(f, shot), 1)
  <2>1. PICK c \in Int : c = g.clip - 1
    BY <1>1
  <2>2. shot = [g EXCEPT !.clip = c, !.nextPrimary = ShotTime,
                         !.special = 0, !.idle = time]
    BY <2>1
  <2>3. time \in Timers
    BY Times
  <2> HIDE DEF shot, time
  <2>4. shot \in WeaponData /\ shot.clip = c
    <3>1. 0 \in 0 .. 2
      OBVIOUS
    <3>2. shot \in WeaponData
      BY <1>1, <2>2, <2>3, <3>1, Times, ShotgunTypes
    <3> QED
      BY <1>1, <2>2, <3>2 DEF WeaponData
  <2>5. c >= 0 /\ c <= g.clip /\ g.clip - 1 <= c
    BY <1>1, <1>3, <2>1
  <2> QED
    BY <2>4, <2>5, SetGunShot DEF g
<1>4. \/ ShotgunFire(f) = SetGun(h, dry)
      \/ ~(g.clip <= 0) /\ ShotgunFire(f) = SetGun(f, shot)
  BY DEF ShotgunFire, g
<1>5. Step(f, SetGun(h, dry), 1)
  BY <1>2, StepWeaken
<1> QED
  BY <1>3, <1>4, <1>5

LEMMA WeaponIdleStep ==
  ASSUME NEW f, Good(f), NEW client \in BOOLEAN
  PROVE  Step(f, WeaponIdle(client, f), 0)
<1> DEFINE g == Gun(f)
           done == [g EXCEPT !.special = 0, !.idle = IdleTime]
           reset == [g EXCEPT !.idle = IdleTime]
<1>1. g \in WeaponData
  BY GoodGun
<1> HIDE DEF g
<1>2. done \in WeaponData /\ done.clip = g.clip
  <2>1. 0 \in 0 .. 2
    OBVIOUS
  <2>2. done \in WeaponData
    BY <1>1, <2>1, Times, ShotgunTypes
  <2> QED
    BY <1>1, <2>2 DEF WeaponData
<1>3. reset \in WeaponData /\ reset.clip = g.clip
  BY <1>1, Times DEF WeaponData
<1> HIDE DEF done, reset
<1>4. Step(f, SetGun(f, done), 0) /\ Step(f, SetGun(f, reset), 0)
  BY <1>2, <1>3, SetGunSame DEF g
<1>5. WeaponIdle(client, f) \in
        {f, ShotgunReload(f), SetGun(f, done), SetGun(f, reset)}
  BY DEF WeaponIdle, g, done, reset
<1> QED
  BY <1>4, <1>5, StepReflexive, ShotgunReloadStep

LEMMA TabulatedStep ==
  ASSUME NEW f, Good(f), NEW client \in BOOLEAN
  PROVE  Step(f, Tabulated(client, f), 0)
<1> DEFINE r == [f EXCEPT !.tab[f.type] = f.count]
<1>1. r \in Frames /\ r.id = f.id /\ r.type = f.type /\ r.wpn = f.wpn
      /\ r.count = f.count
  BY DEF Good, Frames
<1>2. Step(f, r, 0)
  BY <1>1, FieldsStep
<1> QED
  BY <1>2, StepReflexive DEF Tabulated

LEMMA CompleteReloadStep ==
  ASSUME NEW f, Good(f), NEW client \in BOOLEAN
  PROVE  Step(f, CompleteReload(client, f), 0)
<1> DEFINE g == Gun(f)
           j == MinOf(MaxClip[f.id] - g.clip, f.count)
           full == [g EXCEPT !.clip = @ + j, !.inReload = FALSE]
           h == SetGun(f, full)
           r == [h EXCEPT !.count = @ - j]
<1>1. g \in WeaponData /\ g.clip \in 0 .. MaxClip[f.id] /\ MaxClip[f.id] \in Nat
      /\ f.count \in Nat /\ f \in Frames
  BY GoodGun DEF Good
<1>2. j \in Nat /\ j <= f.count /\ g.clip + j <= MaxClip[f.id]
  BY <1>1 DEF MinOf
<1> HIDE DEF j, g
<1>3. PICK c \in Int : c = g.clip + j
  BY <1>1, <1>2
<1>4. full = [g EXCEPT !.clip = c, !.inReload = FALSE]
  BY <1>3
<1> HIDE DEF full
<1>5. full \in WeaponData /\ full.clip = g.clip + j
  BY <1>1, <1>3, <1>4 DEF WeaponData
<1>6. h \in Frames /\ h.id = f.id /\ h.type = f.type /\ h.count = f.count
  BY <1>1, <1>5, SetGunFields
<1> HIDE DEF h
<1>7. PICK n \in Nat : n = f.count - j
  BY <1>1, <1>2
<1>8. r = [h EXCEPT !.count = n]
  BY <1>6, <1>7
<1> HIDE DEF r
<1>9. r \in Frames /\ r.id = f.id /\ r.type = f.type /\ r.wpn = h.wpn
      /\ r.count = f.count - j
  BY <1>6, <1>7, <1>8 DEF Frames
<1>10. Step(f, r, 0)
  BY <1>2, <1>3, <1>5, <1>9, LoadStep DEF h, g
<1>11. CompleteReload(client, f) \in {f, Tabulated(client, r)}
  BY DEF CompleteReload, r, h, full, j, g
<1>12. Step(r, Tabulated(client, r), 0)
  BY <1>10, TabulatedStep DEF Step
<1> QED
  BY <1>10, <1>11, <1>12, StepReflexive, StepTransitive

LEMMA ActStep ==
  ASSUME NEW f, Good(f), NEW client \in BOOLEAN, NEW buttons, NEW k \in Nat
  PROVE  Step(f, Act(client, f, buttons, k), 1)
<1> DEFINE t == Tabulated(client, f)
<1>1. Step(f, t, 0)
  BY TabulatedStep
<1>2. Act(client, f, buttons, k) \in
        {f, ToggleBurst(f), PrimaryAttack(t, k), Reload(f), WeaponIdle(client, f)}
  BY DEF Act
<1> HIDE DEF t
<1>3. Good(t)
  BY <1>1 DEF Step
<1>4. Step(t, PrimaryAttack(t, k), 1)
  BY <1>3, FamasFireStep, ShotgunFireStep DEF PrimaryAttack
<1>5. Step(f, PrimaryAttack(t, k), 1)
  BY <1>1, <1>4, StepZero
<1>6. /\ Step(f, ToggleBurst(f), 1) /\ Step(f, Reload(f), 1)
      /\ Step(f, WeaponIdle(client, f), 1)
  BY ToggleBurstStep, ReloadStep, WeaponIdleStep, StepWeaken
<1> QED
  BY <1>2, <1>5, <1>6, StepReflexive

LEMMA RunWeaponStep ==
  ASSUME NEW f, Good(f), NEW client \in BOOLEAN, NEW buttons, NEW k \in Nat
  PROVE  Step(f, RunWeapon(client, f, buttons, k), 3)
<1> DEFINE b == ContinueBurst(client, f, k)
           c == CompleteReload(client, b)
<1>1. Step(f, b, 2)
  BY ContinueBurstStep
<1>2. Step(f, c, 2)
  BY <1>1, CompleteReloadStep, StepTransitive DEF Step
<1>3. Step(f, Act(client, c, buttons, k), 3)
  <2> HIDE DEF c
  <2> QED
    BY <1>2, ActStep, StepTransitive DEF Step
<1> QED
  BY <1>3, StepReflexive DEF RunWeapon, ItemPostFrame

LEMMA AgedGun ==
  ASSUME NEW g \in WeaponData
  PROVE  /\ Aged(g) \in WeaponData
         /\ Aged(g).clip = g.clip /\ Aged(g).inReload = g.inReload
         /\ Aged(g).special = g.special /\ Aged(g).burst = g.burst
         /\ Aged(g).nextPrimary = Decayed(g.nextPrimary)
         /\ Aged(g).nextSecondary = Decayed(g.nextSecondary)
         /\ Aged(g).idle = Decayed(g.idle)
<1>1. /\ Decayed(g.nextPrimary) \in Timers
      /\ Decayed(g.nextSecondary) \in Timers
      /\ Decayed(g.idle) \in Timers
  BY DecayedTimer DEF WeaponData
<1> QED
  BY <1>1 DEF WeaponData, Aged

LEMMA DecayFields ==
  ASSUME NEW f \in Frames
  PROVE  /\ Decay(f) \in Frames
         /\ Decay(f).id = f.id /\ Decay(f).type = f.type
         /\ Decay(f).count = f.count /\ Decay(f).tab = f.tab
         /\ Decay(f).shoot = f.shoot /\ Decay(f).shots = f.shots
         /\ Decay(f).nextAttack = Decayed(f.nextAttack)
         /\ \A w \in Weapons : Decay(f).wpn[w] = Aged(f.wpn[w])
<1> DEFINE aged == [w \in Weapons |-> Aged(f.wpn[w])]
<1>1. aged \in [Weapons -> WeaponData] /\ Decayed(f.nextAttack) \in Timers
  BY AgedGun, DecayedTimer DEF Frames
<1>2. Decay(f) = [f EXCEPT !.nextAttack = Decayed(f.nextAttack), !.wpn = aged]
  BY DEF Decay
<1>3. \A w \in Weapons : aged[w] = Aged(f.wpn[w])
  OBVIOUS
<1> HIDE DEF aged
<1> QED
  BY <1>1, <1>2, <1>3 DEF Frames

LEMMA DecayStep ==
  ASSUME NEW f, Good(f)
  PROVE  Step(f, Decay(f), 0)
<1>1. f \in Frames /\ f.id \in Weapons
      /\ \A w \in Weapons : f.wpn[w] \in WeaponData
  BY DEF Good, Frames
<1>2. Sound(Decay(f)) /\ Gun(Decay(f)).clip = Gun(f).clip
      /\ \A w \in Weapons : Decay(f).wpn[w].clip = f.wpn[w].clip
  BY <1>1, AgedGun, DecayFields DEF Good, Sound, Gun
<1>3. Loadout(Decay(f)) = Loadout(f)
  BY <1>1, <1>2, DecayFields DEF Loadout
<1> QED
  BY <1>1, <1>2, <1>3, LoadoutInt, DecayFields DEF Step, Good

LEMMA SwitchGood ==
  ASSUME NEW f, Good(f), NEW client \in BOOLEAN, NEW w \in Weapons
  PROVE  LET r == Switch(client, f, w) IN
         /\ Good(r) /\ r.id = w /\ r.type = f.type /\ r.count = f.count
         /\ \A v \in Weapons : r.wpn[v].clip = f.wpn[v].clip
<1> DEFINE g == Gun(f)
           special == IF client THEN g.special ELSE 0
           away == [g EXCEPT !.inReload = FALSE, !.special = special]
           h == SetGun(f, away)
           idle == IF w = M3 THEN IdleTime ELSE h.wpn[M3].idle
           shotgun == [h.wpn[M3] EXCEPT !.idle = idle]
           wpn == [h.wpn EXCEPT ![M3] = shotgun]
           r == [h EXCEPT !.id = w, !.nextAttack = DeployTime, !.wpn = wpn]
<1>1. f \in Frames /\ g \in WeaponData /\ f.id \in Weapons /\ M3 \in Weapons
  BY GoodGun DEF Good, Weapons
<1> HIDE DEF g
<1>2. special \in 0 .. 2
  BY <1>1 DEF WeaponData
<1> HIDE DEF special
<1>3. away \in WeaponData /\ away.clip = g.clip /\ away.inReload = FALSE
  BY <1>1, <1>2 DEF WeaponData
<1> HIDE DEF away
<1>4. /\ h \in Frames /\ h.type = f.type /\ h.count = f.count
      /\ \A v \in Weapons : /\ h.wpn[v].clip = f.wpn[v].clip
                            /\ ~h.wpn[v].inReload
  <2>1. /\ h \in Frames /\ h.type = f.type /\ h.count = f.count
        /\ h.wpn[f.id] = away
        /\ \A v \in Weapons \ {f.id} : h.wpn[v] = f.wpn[v]
    BY <1>1, <1>3, SetGunFields
  <2>2. \A v \in Weapons \ {f.id} : ~f.wpn[v].inReload
    BY DEF Good, Sound
  <2> QED
    BY <1>1, <1>3, <2>1, <2>2 DEF Gun, g
<1>5. Holster(client, f) = h
  BY DEF Holster, h, away, g, special
<1> HIDE DEF h
<1>6. idle \in Timers /\ h.wpn[M3] \in WeaponData
  BY <1>1, <1>4, Times DEF Frames, WeaponData
<1> HIDE DEF idle
<1>7. shotgun \in WeaponData /\ shotgun.clip = h.wpn[M3].clip
      /\ shotgun.inReload = h.wpn[M3].inReload
  BY <1>6 DEF WeaponData
<1> HIDE DEF shotgun
<1>8. /\ wpn \in [Weapons -> WeaponData]
      /\ \A v \in Weapons : /\ wpn[v].clip = f.wpn[v].clip
                            /\ ~wpn[v].inReload
  BY <1>1, <1>4, <1>7 DEF Frames
<1>9. [h EXCEPT !.id = w, !.nextAttack = DeployTime,
                !.wpn[M3].idle = IF w = M3 THEN IdleTime ELSE @] = r
  BY DEF wpn, shotgun, idle
<1> HIDE DEF wpn
<1>10. /\ r \in Frames /\ r.id = w /\ r.type = f.type /\ r.count = f.count
       /\ r.wpn = wpn
  BY <1>4, <1>8, Times DEF Frames
<1> HIDE DEF r
<1>11. Good(r)
  BY <1>8, <1>10 DEF Good, Sound
<1>12. Good(EndBurst(r)) /\ EndBurst(r).id = r.id /\ EndBurst(r).type = r.type
       /\ EndBurst(r).count = r.count /\ EndBurst(r).wpn = r.wpn
  BY <1>10, <1>11, EndBurstStep DEF Step, EndBurst, Frames
<1>13. Switch(client, f, w) = IF w = Famas THEN EndBurst(r) ELSE r
  BY <1>5, <1>9 DEF Switch
<1> QED
  BY <1>8, <1>10, <1>11, <1>12, <1>13

-----------------------------------------------------------------------------
(***************************************************************************)
(* The three copies of a weapon: the server's, the one received, and the   *)
(* one predicted.                                                          *)
(***************************************************************************)

LEMMA LoadedGood ==
  ASSUME NEW s \in Servers, Sound(s)
  PROVE  Good(Loaded(s)) /\ Loaded(s).id = s.id /\ Loaded(s).type = AmmoOf[s.id]
         /\ Loaded(s).wpn = s.wpn
<1>1. s.id \in Weapons /\ AmmoOf[s.id] \in AmmoTypes
  BY DEF Servers, AmmoOf, AmmoTypes
<1> QED
  BY <1>1 DEF Servers, Loaded, Good, Sound, Frames

LEMMA StoredSound ==
  ASSUME NEW s \in Servers, NEW f, Good(f)
  PROVE  /\ Stored(s, f) \in Servers /\ Sound(Stored(s, f))
         /\ Stored(s, f).id = f.id /\ Stored(s, f).wpn = f.wpn
BY DEF Servers, Stored, Good, Sound, Frames

LEMMA ServerCommandSound ==
  ASSUME NEW s \in Servers, Sound(s), NEW cmd, NEW k \in Nat
  PROVE  ServerCommand(s, cmd, k) \in Servers /\ Sound(ServerCommand(s, cmd, k))
<1> DEFINE f == RunWeapon(FALSE, Loaded(s), cmd.buttons, k)
<1>1. Good(f)
  BY LoadedGood, RunWeaponStep DEF Step
<1> HIDE DEF f
<1>2. Good(Decay(f))
  BY <1>1, DecayStep DEF Step
<1> QED
  BY <1>2, StoredSound DEF ServerCommand, f

LEMMA SentSound ==
  ASSUME NEW f, Good(f)
  PROVE  /\ Sent(f) \in States /\ Sound(Sent(f))
         /\ Sent(f).id = f.id /\ Sent(f).wpn = f.wpn /\ Sent(f).count = f.count
BY DEF Sent, States, Good, Sound, Frames

LEMMA SnapshotSound ==
  ASSUME NEW s \in Servers, Sound(s)
  PROVE  Snapshot(s) \in States /\ Sound(Snapshot(s))
BY LoadedGood, SentSound DEF Snapshot

\* A predicted command never shows more rounds, unless it switches weapons.
LEMMA PostThinkGood ==
  ASSUME NEW from \in States, Sound(from), NEW burst \in Bursts,
         NEW cmd, NEW k \in Nat
  PROVE  LET f == PostThink(from, burst, cmd, k) IN
         /\ Good(f)
         /\ cmd.select = NoSelect =>
              /\ f.id = from.id
              /\ f.wpn[from.id].clip + f.count
                   <= from.wpn[from.id].clip + from.count
<1> DEFINE f0 == [id |-> from.id, nextAttack |-> from.nextAttack,
             type |-> from.type, count |-> from.count, tab |-> from.tab,
             wpn |-> from.wpn, shoot |-> burst.shoot, shots |-> burst.shots]
           f1 == RunWeapon(TRUE, f0, cmd.buttons, k)
           f2 == IF cmd.select \in Weapons \ {f1.id}
                 THEN Switch(TRUE, f1, cmd.select) ELSE f1
<1>1. Good(f0) /\ f0.id = from.id /\ f0.wpn = from.wpn /\ f0.count = from.count
  BY DEF States, Bursts, Good, Sound, Frames
<1> HIDE DEF f0
<1>2. Step(f0, f1, 3)
  BY <1>1, RunWeaponStep
<1> HIDE DEF f1
<1>3. Good(f1)
  BY <1>2 DEF Step
<1>4. Good(f2) /\ (cmd.select = NoSelect => f2 = f1)
  BY <1>3, SwitchGood DEF NoSelect, Weapons, Famas, M3
<1> HIDE DEF f2
<1>5. PostThink(from, burst, cmd, k) = Decay(f2)
  BY DEF PostThink, f2, f1, f0
<1>6. Step(f2, Decay(f2), 0)
  BY <1>4, DecayStep
<1>7. cmd.select = NoSelect => Step(f0, Decay(f2), 3)
  BY <1>1, <1>2, <1>4, <1>6, StepZero
<1> QED
  BY <1>1, <1>5, <1>6, <1>7 DEF Step, Gun, Loadout

-----------------------------------------------------------------------------
(***************************************************************************)
(* The invariant of clips, reloads and rounds.                             *)
(***************************************************************************)

\* Every copy of a weapon is sound, also the history's.
AllSound ==
  /\ Sound(server) /\ Sound(base) /\ Sound(truth)
  /\ \A i \in 1 .. Len(path) : Sound(path[i]) /\ Sound(expected[i])

\* While no switch is predicted the weapon in hand is that of base, with no
\* more rounds.
RoundsFromBase(b, p, c) ==
  \A n \in 1 .. Len(p) :
    (\A i \in 1 .. n : c[i].select = NoSelect)
      => /\ p[n].id = b.id
         /\ p[n].wpn[b.id].clip + p[n].count <= b.wpn[b.id].clip + b.count

WeaponInv == TypeOK /\ AllSound /\ RoundsFromBase(base, path, cmds)

LEMMA LastOfType ==
  ASSUME NEW S, NEW s \in S, NEW q \in Seq(S)
  PROVE  /\ LastOf(s, q) \in S
         /\ Len(q) = 0 => LastOf(s, q) = s
         /\ Len(q) # 0 => LastOf(s, q) = q[Len(q)] /\ Len(q) \in 1 .. Len(q)
<1>1. Len(q) \in Nat /\ (q = <<>> <=> Len(q) = 0)
  BY LenProperties, EmptySeq
<1> QED
  BY <1>1, LenProperties, ElementOfSeq DEF LastOf

LEMMA ShiftedType ==
  ASSUME NEW b, b.shoot \in Nat \cup {NoShot}, NEW n \in Nat
  PROVE  Shifted(b, n) \in Nat \cup {NoShot}
BY DEF Shifted, NoShot

LEMMA CountsAreInt ==
  ASSUME NEW w \in Weapons
  PROVE  /\ \A f \in Frames : f.wpn[w].clip \in Int /\ f.count \in Int
         /\ \A f \in States : f.wpn[w].clip \in Int /\ f.count \in Int
BY DEF Frames, States, WeaponData

LEMMA WeaponInit ==
  ASSUME Init
  PROVE  WeaponInv
<1>1. \A w \in Weapons : NewGun(w) \in WeaponData /\ NewGun(w).clip = StartClip[w]
                         /\ NewGun(w).inReload = FALSE
  BY InputAssumption, Times DEF NewGun, WeaponData
<1>2. [w \in Weapons |-> NewGun(w)] \in [Weapons -> WeaponData]
  BY <1>1
<1>3. server \in Servers
  <2>1. StartAmmo \in [AmmoTypes -> Nat] /\ StartAmmo \in [AmmoTypes -> Int]
    BY InputAssumption
  <2>2. Famas \in Weapons /\ -1 \in Timers /\ NoShot \in Nat \cup {NoShot}
    BY Times DEF Weapons
  <2> QED
    BY <1>2, <2>1, <2>2 DEF Init, Servers
<1>4. Sound(server)
  <2>1. \A w \in Weapons : server.wpn[w] = NewGun(w)
    BY DEF Init
  <2> QED
    BY <1>1, <2>1, InputAssumption, ClipAssumption DEF Sound
<1>5. base \in States /\ Sound(base)
  BY <1>3, <1>4, SnapshotSound DEF Init
<1>6. object \in Bursts
  BY DEF Init, Bursts
<1>7. /\ pending \in Seq(Weapons) /\ Len(pending) = 0
      /\ cmds \in Seq(Commands) /\ Len(cmds) = 0
      /\ path \in Seq(States) /\ Len(path) = 0
      /\ expected \in Seq(Servers) /\ Len(expected) = 0
  BY EmptySeq DEF Init
<1>8. TypeOK
  <2>1. Len(pending) <= MaxPending /\ Len(cmds) <= Window
    BY <1>7, InputAssumption
  <2>2. ran \in 0 .. Len(cmds) /\ Len(path) <= Len(cmds)
        /\ Len(expected) = Len(path)
    BY <1>7 DEF Init
  <2>3. truth \in Servers /\ carried \in BOOLEAN
    BY <1>3 DEF Init
  <2> QED
    BY <1>3, <1>5, <1>6, <1>7, <2>1, <2>2, <2>3 DEF TypeOK
<1> QED
  BY <1>3, <1>4, <1>5, <1>7, <1>8 DEF Init, WeaponInv, AllSound, RoundsFromBase

\* A command is predicted.
LEMMA PostRunCmdInv ==
  ASSUME WeaponInv, PostRunCmd
  PROVE  WeaponInv'
<1> DEFINE k == Len(path) + 1
           from == LastOf(base, path)
           f == PostThink(from, object, cmds[k], k)
           e == ServerCommand(LastOf(truth, expected), cmds[k], k)
<1>1. /\ Len(path) \in Nat /\ Len(cmds) \in Nat /\ Len(expected) = Len(path)
      /\ k \in Nat /\ k <= Len(cmds) /\ k >= 1
      /\ path \in Seq(States) /\ expected \in Seq(Servers)
      /\ base \in States /\ truth \in Servers
  BY LenProperties DEF WeaponInv, TypeOK, PostRunCmd, Predicting
<1>2. from \in States /\ Sound(from)
  BY <1>1, LastOfType DEF WeaponInv, TypeOK, AllSound
<1>3. LastOf(truth, expected) \in Servers /\ Sound(LastOf(truth, expected))
  BY <1>1, LastOfType DEF WeaponInv, TypeOK, AllSound
<1>4. /\ Good(f)
      /\ cmds[k].select = NoSelect =>
           /\ f.id = from.id
           /\ f.wpn[from.id].clip + f.count <= from.wpn[from.id].clip + from.count
  <2> HIDE DEF k, from
  <2> QED
    BY <1>1, <1>2, PostThinkGood DEF WeaponInv, TypeOK
<1>5. e \in Servers /\ Sound(e)
  <2> HIDE DEF k
  <2> QED
    BY <1>1, <1>3, ServerCommandSound
<1> HIDE DEF f, e
<1>6. /\ Sent(f) \in States /\ Sound(Sent(f)) /\ Sent(f).id = f.id
      /\ Sent(f).wpn = f.wpn /\ Sent(f).count = f.count
  BY <1>4, SentSound
<1>7. BurstOf(f) \in Bursts
  BY <1>4 DEF BurstOf, Bursts, Good, Frames
<1>8. path' = Append(path, Sent(f)) /\ expected' = Append(expected, e)
      /\ object' = BurstOf(f)
      /\ UNCHANGED <<server, pending, cmds, ran, base, truth, carried>>
  BY DEF PostRunCmd, f, e, from, k
<1>9. /\ path' \in Seq(States) /\ Len(path') = k /\ path'[k] = Sent(f)
      /\ expected' \in Seq(Servers) /\ Len(expected') = k /\ expected'[k] = e
      /\ \A i \in 1 .. Len(path) :
           path'[i] = path[i] /\ expected'[i] = expected[i]
  BY <1>1, <1>5, <1>6, <1>8, AppendProperties
<1>10. TypeOK'
  BY <1>1, <1>7, <1>8, <1>9 DEF WeaponInv, TypeOK
<1>11. \A i \in 1 .. k : i = k \/ i \in 1 .. Len(path)
  BY <1>1
<1>12. AllSound'
  BY <1>5, <1>6, <1>8, <1>9, <1>11 DEF WeaponInv, AllSound
<1>13. RoundsFromBase(base, path, cmds)'
  <2> SUFFICES ASSUME NEW n \in 1 .. k,
                      \A i \in 1 .. n : cmds[i].select = NoSelect
               PROVE  /\ path'[n].id = base.id
                      /\ path'[n].wpn[base.id].clip + path'[n].count
                           <= base.wpn[base.id].clip + base.count
    BY <1>8, <1>9 DEF RoundsFromBase
  <2>1. CASE n \in 1 .. Len(path)
    BY <1>9, <2>1 DEF WeaponInv, RoundsFromBase
  <2>2. CASE n = k
    <3>1. cmds[k].select = NoSelect
      BY <1>1, <2>2
    <3>2. /\ from.id = base.id
          /\ from.wpn[base.id].clip + from.count
               <= base.wpn[base.id].clip + base.count
      <4>1. CASE Len(path) = 0
        <5>1. from = base
          BY <1>1, <4>1, LastOfType
        <5>2. base.wpn[base.id].clip \in Int /\ base.count \in Int
          BY DEF WeaponInv, TypeOK, States, WeaponData
        <5> QED
          BY <5>1, <5>2
      <4>2. CASE Len(path) # 0
        <5>1. from = path[Len(path)] /\ Len(path) \in 1 .. Len(path)
          BY <1>1, <4>2, LastOfType
        <5>2. \A i \in 1 .. Len(path) : cmds[i].select = NoSelect
          BY <1>1, <2>2
        <5> QED
          BY <5>1, <5>2 DEF WeaponInv, RoundsFromBase
      <4> QED
        BY <4>1, <4>2
    <3>3. /\ from.wpn[base.id].clip \in Int /\ from.count \in Int
          /\ f.wpn[base.id].clip \in Int /\ f.count \in Int
          /\ base.wpn[base.id].clip \in Int /\ base.count \in Int
      <4> HIDE DEF from
      <4>1. base.id \in Weapons
        BY <1>1 DEF States
      <4> QED
        BY <1>1, <1>2, <1>4, <4>1, CountsAreInt DEF Good
    <3> HIDE DEF from
    <3>4. /\ f.id = base.id
          /\ f.wpn[base.id].clip + f.count
               <= base.wpn[base.id].clip + base.count
      BY <1>4, <3>1, <3>2, <3>3
    <3> QED
      BY <1>6, <1>9, <2>2, <3>4
  <2> QED
    BY <1>11, <2>1, <2>2
<1> QED
  BY <1>10, <1>12, <1>13 DEF WeaponInv

\* A replay begins: nothing has been predicted yet.
LEMMA ReplayTypes ==
  ASSUME NEW burst \in Bursts, StartReplay(burst)
  PROVE  /\ path' \in Seq(States) /\ Len(path') = 0
         /\ expected' \in Seq(Servers) /\ Len(expected') = 0
         /\ object' \in Bursts /\ carried' \in BOOLEAN
<1>1. carried' \in BOOLEAN
  BY DEF StartReplay
<1> QED
  BY <1>1, EmptySeq DEF StartReplay

LEMMA CreateMoveInv ==
  ASSUME WeaponInv, NEW cmd \in Commands, CreateMove(cmd)
  PROVE  WeaponInv'
<1>1. /\ path' \in Seq(States) /\ Len(path') = 0
      /\ expected' \in Seq(Servers) /\ Len(expected') = 0
      /\ object' \in Bursts /\ carried' \in BOOLEAN
  BY ReplayTypes DEF WeaponInv, TypeOK, CreateMove
<1>2. cmds' \in Seq(Commands) /\ Len(cmds') = Len(cmds) + 1 /\ Len(cmds') <= Window
      /\ Len(cmds) \in Nat /\ ran' \in 0 .. Len(cmds')
  <2>1. cmds' = Append(cmds, cmd) /\ cmds \in Seq(Commands) /\ Len(cmds) < Window
        /\ ran' = ran /\ ran \in 0 .. Len(cmds)
    BY DEF WeaponInv, TypeOK, CreateMove
  <2>2. cmds' \in Seq(Commands) /\ Len(cmds') = Len(cmds) + 1 /\ Len(cmds) \in Nat
    BY <2>1, AppendProperties, LenProperties
  <2> QED
    BY <2>1, <2>2, InputAssumption
<1>3. pending' \in Seq(Weapons) /\ Len(pending') <= MaxPending
  <2>1. CASE cmd.select = NoSelect
    BY <2>1 DEF WeaponInv, TypeOK, CreateMove
  <2>2. CASE cmd.select # NoSelect
    <3>1. cmd.select \in Weapons
      BY <2>2, InputAssumption
    <3>2. pending' = Append(pending, cmd.select) /\ pending \in Seq(Weapons)
          /\ Len(pending) < MaxPending
      BY <2>2 DEF WeaponInv, TypeOK, CreateMove
    <3>3. pending' \in Seq(Weapons) /\ Len(pending') = Len(pending) + 1
          /\ Len(pending) \in Nat
      BY <3>1, <3>2, AppendProperties, LenProperties
    <3> QED
      BY <3>2, <3>3, InputAssumption
  <2> QED
    BY <2>1, <2>2
<1>4. UNCHANGED <<server, base, truth>>
  BY DEF CreateMove
<1>5. TypeOK'
  BY <1>1, <1>2, <1>3, <1>4 DEF WeaponInv, TypeOK
<1> QED
  BY <1>1, <1>4, <1>5 DEF WeaponInv, AllSound, RoundsFromBase

LEMMA RunCommandInv ==
  ASSUME WeaponInv, RunCommand
  PROVE  WeaponInv'
<1> DEFINE s == ServerCommand(server, cmds[ran + 1], ran + 1)
<1>1. ran \in 0 .. Len(cmds) /\ Len(cmds) \in Nat /\ ran < Len(cmds)
      /\ server \in Servers /\ Sound(server)
  BY LenProperties DEF WeaponInv, TypeOK, AllSound, RunCommand
<1>2. s \in Servers /\ Sound(s)
  BY <1>1, ServerCommandSound
<1>3. /\ server' = s /\ ran' = ran + 1
      /\ UNCHANGED <<pending, cmds, base, path, object>>
      /\ UNCHANGED <<truth, expected, carried>>
  BY DEF RunCommand, s, clientVars, replayVars
<1> HIDE DEF s
<1>4. TypeOK'
  BY <1>1, <1>2, <1>3 DEF WeaponInv, TypeOK
<1> QED
  BY <1>2, <1>3, <1>4 DEF WeaponInv, AllSound, RoundsFromBase

LEMMA SelectItemInv ==
  ASSUME WeaponInv, SelectItem
  PROVE  WeaponInv'
<1>1. server \in Servers /\ Sound(server) /\ pending \in Seq(Weapons)
      /\ pending # <<>> /\ Len(pending) <= MaxPending
  BY DEF WeaponInv, TypeOK, AllSound, SelectItem
<1>2. Head(pending) \in Weapons /\ Tail(pending) \in Seq(Weapons)
      /\ Len(Tail(pending)) <= MaxPending
  <2>1. Head(pending) \in Weapons /\ Tail(pending) \in Seq(Weapons)
        /\ Len(Tail(pending)) = Len(pending) - 1 /\ Len(pending) \in Nat
    BY <1>1, HeadTailProperties, LenProperties
  <2> QED
    BY <1>1, <2>1, InputAssumption
<1>3. server' \in Servers /\ Sound(server')
  <2> DEFINE f == Switch(FALSE, Loaded(server), Head(pending))
  <2>1. Good(f)
    BY <1>1, <1>2, LoadedGood, SwitchGood
  <2>2. server' \in {server, Stored(server, f)}
    BY DEF SelectItem
  <2> HIDE DEF f
  <2> QED
    BY <1>1, <2>1, <2>2, StoredSound
<1>4. /\ pending' = Tail(pending)
      /\ UNCHANGED <<ran, cmds, base, path, object>>
      /\ UNCHANGED <<truth, expected, carried>>
  BY DEF SelectItem, clientVars, replayVars
<1>5. TypeOK'
  BY <1>2, <1>3, <1>4 DEF WeaponInv, TypeOK
<1> QED
  BY <1>3, <1>4, <1>5 DEF WeaponInv, AllSound, RoundsFromBase

LEMMA ReceiveSnapshotInv ==
  ASSUME WeaponInv, ReceiveSnapshot
  PROVE  WeaponInv'
<1> DEFINE burst == [object EXCEPT !.shoot = Shifted(object, ran)]
<1>1. /\ ran \in 0 .. Len(cmds) /\ Len(cmds) \in Nat /\ Len(cmds) <= Window
      /\ Len(path) \in Nat /\ Len(path) = Len(cmds)
      /\ cmds \in Seq(Commands) /\ path \in Seq(States)
      /\ server \in Servers /\ Sound(server) /\ object \in Bursts
  BY LenProperties DEF WeaponInv, TypeOK, AllSound, ReceiveSnapshot, Predicting
<1>2. server' = [server EXCEPT !.shoot = Shifted(server, ran)]
      /\ truth' = server' /\ base' = Snapshot(server) /\ ran' = 0
      /\ cmds' = SubSeq(cmds, ran + 1, Len(cmds)) /\ pending' = pending
      /\ StartReplay(burst)
  BY DEF ReceiveSnapshot, burst
<1>3. server' \in Servers /\ Sound(server')
  <2>1. Shifted(server, ran) \in Nat \cup {NoShot}
    BY <1>1, ShiftedType DEF Servers
  <2> QED
    BY <1>1, <1>2, <2>1 DEF Servers, Sound
<1>4. base' \in States /\ Sound(base')
  BY <1>1, <1>2, SnapshotSound
<1>5. burst \in Bursts
  <2>1. Shifted(object, ran) \in Nat \cup {NoShot}
    BY <1>1, ShiftedType DEF Bursts
  <2> QED
    BY <1>1, <2>1 DEF Bursts
<1>6. /\ SubSeq(cmds, ran + 1, Len(cmds)) \in Seq(Commands)
      /\ Len(SubSeq(cmds, ran + 1, Len(cmds))) = Len(cmds) - ran
  <2>1. ran + 1 \in 1 .. Len(cmds) + 1 /\ Len(cmds) \in ran .. Len(cmds)
    BY <1>1
  <2>2. IF ran + 1 <= Len(cmds) THEN Len(cmds) - (ran + 1) + 1 = Len(cmds) - ran
        ELSE 0 = Len(cmds) - ran
    BY <1>1
  <2> QED
    BY <1>1, <2>1, <2>2, SubSeqProperties
<1> HIDE DEF burst
<1>7. /\ path' \in Seq(States) /\ Len(path') = 0
      /\ expected' \in Seq(Servers) /\ Len(expected') = 0
      /\ object' \in Bursts /\ carried' \in BOOLEAN
  BY <1>2, <1>5, ReplayTypes
<1>8. cmds' \in Seq(Commands) /\ Len(cmds') \in Nat /\ Len(cmds') <= Window
      /\ ran' \in 0 .. Len(cmds')
  BY <1>1, <1>2, <1>6, InputAssumption
<1>9. TypeOK'
  BY <1>2, <1>3, <1>4, <1>7, <1>8 DEF WeaponInv, TypeOK
<1> QED
  BY <1>2, <1>3, <1>4, <1>7, <1>9 DEF WeaponInv, AllSound, RoundsFromBase

LEMMA WeaponNext ==
  ASSUME WeaponInv, [Next]_vars
  PROVE  WeaponInv'
<1>1. CASE UNCHANGED vars
  BY <1>1 DEF vars, clientVars, replayVars, WeaponInv, TypeOK, AllSound,
              RoundsFromBase
<1>2. CASE Next
  BY <1>2, CreateMoveInv, PostRunCmdInv, RunCommandInv, SelectItemInv,
     ReceiveSnapshotInv DEF Next
<1> QED
  BY <1>1, <1>2

\* Clips, reloads and rounds are right in every copy, whatever the commands,
\* the strings and the updates in flight do.
THEOREM WeaponInvHolds == Spec => []WeaponInv
<1>1. Init => WeaponInv
  BY WeaponInit
<1>2. WeaponInv /\ [Next]_vars => WeaponInv'
  BY WeaponNext
<1> QED
  BY <1>1, <1>2, PTL DEF Spec

\* The counters of the three copies have their types: no reserve becomes
\* negative, no timer runs below its floor.
THEOREM TypeCorrect == Spec => []TypeOK
BY WeaponInvHolds, PTL DEF WeaponInv

\* The copies that are shown: the server's, the received and the predicted.
LEMMA ShownIsSound ==
  ASSUME AllSound, NEW f \in {server, base} \cup {path[i] : i \in 1 .. Len(path)}
  PROVE  Sound(f)
<1>1. f = server \/ f = base \/ \E i \in 1 .. Len(path) : f = path[i]
  OBVIOUS
<1> QED
  BY <1>1 DEF AllSound

\* Clips stay between empty and full in every copy, for any clip sizes, though
\* the client takes two rounds for a shot of a burst and replays it.
THEOREM ClipsCorrect == Spec => []ClipsInRange
<1>1. WeaponInv => ClipsInRange
  BY ShownIsSound DEF WeaponInv, ClipsInRange, Sound
<1> QED
  BY <1>1, WeaponInvHolds, PTL

\* Putting a weapon away cancels its reload, on both sides of the network.
THEOREM ReloadsCorrect == Spec => []ReloadBelongsToActive
<1>1. WeaponInv => ReloadBelongsToActive
  BY ShownIsSound DEF WeaponInv, ReloadBelongsToActive, Sound
<1> QED
  BY <1>1, WeaponInvHolds, PTL

\* No prediction, of however many commands, shows rounds the server's state
\* does not have.
THEOREM PredictedRoundsCorrect == Spec => []PredictionInventsNoRounds
<1>1. WeaponInv => PredictionInventsNoRounds
  BY DEF WeaponInv, RoundsFromBase, PredictionInventsNoRounds
<1> QED
  BY <1>1, WeaponInvHolds, PTL

-----------------------------------------------------------------------------
(***************************************************************************)
(* One round per command.  A command may continue a burst and fire again,  *)
(* so this needs the delays: a shot of a burst that is still due finds the *)
(* weapon busy, whatever has been pressed or put away since.               *)
(***************************************************************************)

\* f, a server or a frame, has executed n commands of a burst; d is the time
\* the current command has yet to take from the timers.
BurstTimed(f, n, d) ==
  f.id = Famas /\ f.shoot # NoShot =>
    LET left == f.wpn[Famas].nextPrimary - d IN
    /\ f.nextAttack <= 0 /\ f.shots \in {1, 2}
    /\ left > 0
    /\ f.shoot > n => left > (f.shoot - n) * Msec
    /\ f.shots = 1 => f.shoot <= n /\ left > (BurstGap + 1) * Msec

LEMMA Products ==
  ASSUME NEW n \in Nat
  PROVE  n * Msec \in Nat /\ (n + 1) * Msec = n * Msec + Msec
         /\ (n + 2) * Msec = (n + 1) * Msec + Msec
BY TimeAssumption

\* What a frame's burst depends on.
SameBurst(f, r) ==
  /\ r.id = f.id /\ r.shoot = f.shoot /\ r.shots = f.shots
  /\ r.nextAttack = f.nextAttack
  /\ Gun(r).nextPrimary = Gun(f).nextPrimary

LEMMA CompleteReloadBurst ==
  ASSUME NEW f, Good(f)
  PROVE  SameBurst(f, CompleteReload(FALSE, f))
<1> DEFINE g == Gun(f)
           j == MinOf(MaxClip[f.id] - g.clip, f.count)
           full == [g EXCEPT !.clip = @ + j, !.inReload = FALSE]
           h == SetGun(f, full)
           r == [h EXCEPT !.count = @ - j]
           t == [r EXCEPT !.tab[r.type] = r.count]
<1>1. g \in WeaponData /\ g.clip \in 0 .. MaxClip[f.id] /\ MaxClip[f.id] \in Nat
      /\ f.count \in Nat /\ f \in Frames
  BY GoodGun DEF Good
<1>2. j \in Nat
  BY <1>1 DEF MinOf
<1> HIDE DEF j, g
<1>3. PICK c \in Int : c = g.clip + j
  BY <1>1, <1>2
<1>4. full = [g EXCEPT !.clip = c, !.inReload = FALSE]
  BY <1>3
<1> HIDE DEF full
<1>5. full \in WeaponData /\ full.nextPrimary = g.nextPrimary
  BY <1>1, <1>4 DEF WeaponData
<1>6. /\ h \in Frames /\ h.id = f.id /\ h.shoot = f.shoot /\ h.shots = f.shots
      /\ h.nextAttack = f.nextAttack /\ Gun(h) = full
  BY <1>1, <1>5, SetGunFields
<1> HIDE DEF h
<1>7. /\ r.id = h.id /\ r.shoot = h.shoot /\ r.shots = h.shots
      /\ r.nextAttack = h.nextAttack /\ r.wpn = h.wpn
      /\ t.id = h.id /\ t.shoot = h.shoot /\ t.shots = h.shots
      /\ t.nextAttack = h.nextAttack /\ t.wpn = h.wpn
  BY <1>6 DEF Frames
<1>8. CompleteReload(FALSE, f) \in {f, t}
  BY DEF CompleteReload, Tabulated, r, h, full, j, g
<1> HIDE DEF t, r
<1> QED
  BY <1>5, <1>6, <1>7, <1>8 DEF SameBurst, Gun, g

\* The server's part of a burst: the shot that is due leaves the timers alone.
LEMMA ContinueBurstShot ==
  ASSUME NEW f, Good(f), f.shots \in {1, 2}, NEW k \in Nat,
         f.id = Famas, f.shoot # NoShot, k > f.shoot
  PROVE  LET r == ContinueBurst(FALSE, f, k) IN
         /\ r.id = f.id /\ r.nextAttack = f.nextAttack
         /\ Gun(r).nextPrimary = Gun(f).nextPrimary
         /\ \/ r.shoot = NoShot
            \/ f.shots = 1 /\ r.shoot = k + BurstGap /\ r.shots = 2
<1> DEFINE g == Gun(f)
           dry == SetGun(f, [g EXCEPT !.clip = 0])
           h == SetGun(f, [g EXCEPT !.clip = @ - 1])
           fired == [h EXCEPT !.tab["556nato"] = IF FALSE THEN @ - 1 ELSE @]
           more == [fired EXCEPT !.shots = @ + 1, !.shoot = k + BurstGap]
<1>1. g \in WeaponData /\ f \in Frames
  BY GoodGun DEF Good
<1> HIDE DEF g
<1>2. \A c \in Int : LET s == [g EXCEPT !.clip = c] IN
        s \in WeaponData /\ s.nextPrimary = g.nextPrimary
  BY <1>1 DEF WeaponData
<1>3. PICK c \in Int : c = g.clip - 1
  BY <1>1 DEF WeaponData
<1>4. /\ dry \in Frames /\ dry.id = f.id /\ dry.nextAttack = f.nextAttack
      /\ Gun(dry).nextPrimary = g.nextPrimary
  <2> DEFINE empty == [g EXCEPT !.clip = 0]
  <2>1. empty \in WeaponData /\ empty.nextPrimary = g.nextPrimary
    BY <1>1 DEF WeaponData
  <2> HIDE DEF empty
  <2>2. SetGun(f, empty) \in Frames /\ SetGun(f, empty).id = f.id
        /\ SetGun(f, empty).nextAttack = f.nextAttack
        /\ Gun(SetGun(f, empty)) = empty
    BY <1>1, <2>1, SetGunFields
  <2> QED
    BY <2>1, <2>2 DEF empty
<1>5. /\ h \in Frames /\ h.id = f.id /\ h.nextAttack = f.nextAttack
      /\ Gun(h).nextPrimary = g.nextPrimary /\ h.shots = f.shots
  <2>1. h = SetGun(f, [g EXCEPT !.clip = c])
    BY <1>3
  <2> HIDE DEF h
  <2> QED
    BY <1>1, <1>2, <2>1, SetGunFields
<1>6. ContinueBurst(FALSE, f, k) \in
        {EndBurst(dry), EndBurst(fired)} \cup
        IF f.shots = 1 THEN {more} ELSE {}
  <2>1. ContinueBurst(FALSE, f, k) = FireRemaining(FALSE, f, k)
    BY DEF ContinueBurst, Bursting
  <2>2. FireRemaining(FALSE, f, k) =
          IF g.clip - 1 < 0 THEN EndBurst(dry)
          ELSE IF f.shots + 1 # 3 THEN more ELSE EndBurst(fired)
    <3> HIDE DEF dry, h
    <3>1. fired.shots = f.shots
      BY <1>5 DEF Frames
    <3> QED
      BY <3>1 DEF FireRemaining, dry, h, g
  <2>3. f.shots + 1 # 3 <=> f.shots = 1
    OBVIOUS
  <2> HIDE DEF dry, fired, more
  <2> QED
    BY <2>1, <2>2, <2>3
<1> HIDE DEF dry, h
<1>7. /\ fired \in Frames /\ fired.id = h.id /\ fired.nextAttack = h.nextAttack
      /\ fired.wpn = h.wpn /\ fired.shots = h.shots
  BY <1>5 DEF Frames, AmmoTypes
<1> HIDE DEF fired
<1>8. \A e \in Frames : /\ EndBurst(e).id = e.id
                        /\ EndBurst(e).nextAttack = e.nextAttack
                        /\ EndBurst(e).wpn = e.wpn /\ EndBurst(e).shoot = NoShot
  BY DEF EndBurst, Frames
<1>9. /\ more.id = fired.id /\ more.nextAttack = fired.nextAttack
      /\ more.wpn = fired.wpn /\ more.shoot = k + BurstGap
      /\ more.shots = fired.shots + 1
  BY <1>7 DEF Frames
<1> HIDE DEF more
<1>10. /\ Gun(EndBurst(dry)).nextPrimary = g.nextPrimary
       /\ Gun(EndBurst(fired)).nextPrimary = g.nextPrimary
       /\ Gun(more).nextPrimary = g.nextPrimary
  BY <1>4, <1>5, <1>7, <1>8, <1>9 DEF Gun
<1>11. f.shots = 1 => more.shots = 2
  BY <1>5, <1>7, <1>9
<1> DEFINE r == ContinueBurst(FALSE, f, k)
<1>12. r = EndBurst(dry) \/ r = EndBurst(fired) \/ (f.shots = 1 /\ r = more)
  BY <1>6
<1> HIDE DEF r
<1>13. /\ r.id = f.id /\ r.nextAttack = f.nextAttack
       /\ Gun(r).nextPrimary = g.nextPrimary
       /\ \/ r.shoot = NoShot
          \/ f.shots = 1 /\ r.shoot = k + BurstGap /\ r.shots = 2
  BY <1>4, <1>5, <1>7, <1>8, <1>9, <1>10, <1>11, <1>12
<1> QED
  BY <1>13 DEF r, g

\* A busy FAMAS does nothing on the server but change its mode.
LEMMA ActBusy ==
  ASSUME NEW f, Good(f), f.id = Famas, Gun(f).nextPrimary > 0,
         NEW buttons, NEW k \in Nat
  PROVE  /\ SameBurst(f, Act(FALSE, f, buttons, k))
         /\ Step(f, Act(FALSE, f, buttons, k), 0)
<1> DEFINE g == [Gun(f) EXCEPT !.burst = ~@, !.nextSecondary = ModeTime]
<1>1. Gun(f).nextPrimary \in Int /\ f \in Frames /\ Gun(f) \in WeaponData
  BY GoodGun, Times DEF WeaponData, Good
<1>2. g \in WeaponData /\ g.nextPrimary = Gun(f).nextPrimary
  BY <1>1, Times DEF WeaponData
<1>3. ToggleBurst(f) = SetGun(f, g)
  BY DEF ToggleBurst
<1> HIDE DEF g
<1>4. SameBurst(f, ToggleBurst(f))
  BY <1>1, <1>2, <1>3, SetGunFields DEF SameBurst
<1>5. ~(Gun(f).nextPrimary <= 0) /\ ~(Gun(f).nextPrimary < 0)
  BY <1>1
<1>6. WeaponIdle(FALSE, f) = f
  BY DEF WeaponIdle
<1>7. Act(FALSE, f, buttons, k) \in {f, ToggleBurst(f)}
  BY <1>5, <1>6 DEF Act, ReloadBranch, MayReload, Bursting
<1> QED
  BY <1>4, <1>7, StepReflexive, ToggleBurstStep DEF SameBurst

\* A burst begins with its first shot, and keeps the weapon busy.
LEMMA FamasFireBurst ==
  ASSUME NEW f, Good(f), NEW k \in Nat, f.shoot = NoShot
  PROVE  LET r == FamasFire(f, k) IN
         \/ r.shoot = NoShot
         \/ /\ r.shoot = k /\ r.shots = 1 /\ r.nextAttack = f.nextAttack
            /\ r.id = f.id /\ Gun(r).nextPrimary = BurstTime
<1> DEFINE g == Gun(f)
           delay == IF g.burst THEN BurstTime ELSE CycleTime
           shot == [g EXCEPT !.clip = @ - 1, !.nextPrimary = delay,
                             !.nextSecondary = delay]
           fired == SetGun(f, shot)
           burst == [fired EXCEPT !.shots = 1, !.shoot = k]
           dry == [g EXCEPT !.nextPrimary = EmptyTime]
           f0 == IF g.burst THEN [f EXCEPT !.shots = 0] ELSE f
<1>1. g \in WeaponData /\ f \in Frames
  BY GoodGun DEF Good
<1>2. FamasFire(f, k) \in {SetGun(f0, dry), fired} \cup
                          IF g.burst THEN {burst} ELSE {}
  BY DEF FamasFire
<1> HIDE DEF g
<1>3. f0 \in Frames /\ f0.shoot = NoShot
  BY <1>1 DEF Frames
<1>4. dry \in WeaponData
  BY <1>1, Times DEF WeaponData
<1> HIDE DEF f0, dry
<1>5. SetGun(f0, dry).shoot = NoShot
  BY <1>3, <1>4, SetGunFields
<1>6. shot \in WeaponData /\ shot.nextPrimary = delay
  <2> delay \in Timers
    BY Times
  <2>1. PICK c \in Int : c = g.clip - 1
    BY <1>1 DEF WeaponData
  <2>2. shot = [g EXCEPT !.clip = c, !.nextPrimary = delay,
                         !.nextSecondary = delay]
    BY <2>1
  <2> HIDE DEF shot, delay
  <2> QED
    BY <1>1, <2>2 DEF WeaponData
<1> HIDE DEF shot
<1>7. /\ fired \in Frames /\ fired.shoot = NoShot /\ fired.id = f.id
      /\ fired.nextAttack = f.nextAttack /\ Gun(fired).nextPrimary = delay
  BY <1>1, <1>6, SetGunFields
<1> HIDE DEF fired
<1>8. /\ burst.shoot = k /\ burst.shots = 1 /\ burst.id = fired.id
      /\ burst.nextAttack = fired.nextAttack /\ burst.wpn = fired.wpn
  BY <1>7 DEF Frames
<1> HIDE DEF burst
<1>9. g.burst => Gun(burst).nextPrimary = BurstTime
  BY <1>7, <1>8 DEF Gun
<1> DEFINE r == FamasFire(f, k)
<1>10. r = SetGun(f0, dry) \/ r = fired \/ (g.burst /\ r = burst)
  BY <1>2
<1> HIDE DEF r, delay
<1>11. \/ r.shoot = NoShot
       \/ /\ r.shoot = k /\ r.shots = 1 /\ r.nextAttack = f.nextAttack
          /\ r.id = f.id /\ Gun(r).nextPrimary = BurstTime
  BY <1>5, <1>7, <1>8, <1>9, <1>10
<1> QED
  BY <1>11 DEF r

\* Without a burst a command on the FAMAS ends without one, or in its first shot.
LEMMA ActFree ==
  ASSUME NEW f, Good(f), f.id = Famas, f.shoot = NoShot, NEW buttons,
         NEW k \in Nat
  PROVE  LET r == Act(FALSE, f, buttons, k) IN
         \/ r.shoot = NoShot
         \/ /\ r.shoot = k /\ r.shots = 1 /\ r.nextAttack = f.nextAttack
            /\ r.id = f.id /\ Gun(r).nextPrimary = BurstTime
<1> DEFINE t == Tabulated(FALSE, f)
           r == Act(FALSE, f, buttons, k)
           g == [Gun(f) EXCEPT !.burst = ~@, !.nextSecondary = ModeTime]
           l == [Gun(f) EXCEPT !.inReload = TRUE]
           h == SetGun(f, l)
           load == [h EXCEPT !.nextAttack = ReloadTime]
<1>1. f \in Frames /\ Gun(f) \in WeaponData
  BY GoodGun DEF Good
<1>2. g \in WeaponData /\ l \in WeaponData
  BY <1>1, Times DEF WeaponData
<1>3. ToggleBurst(f) = SetGun(f, g) /\ DefaultReload(f) \in {f, load}
  BY DEF ToggleBurst, DefaultReload
<1> HIDE DEF g, l
<1>4. SetGun(f, g).shoot = NoShot /\ h \in Frames /\ h.shoot = NoShot
  BY <1>1, <1>2, SetGunFields
<1> HIDE DEF h
<1>5. load.shoot = NoShot
  BY <1>4 DEF Frames
<1> HIDE DEF load
<1>6. Reload(f) \in {f, DefaultReload(f)} /\ WeaponIdle(FALSE, f) = f
  BY DEF Reload, WeaponIdle, Famas, M3
<1>7. Good(t) /\ t.shoot = NoShot /\ t.nextAttack = f.nextAttack /\ t.id = f.id
  BY <1>1, TabulatedStep DEF Step, Tabulated, Frames
<1>8. r \in {f, ToggleBurst(f), PrimaryAttack(t, k), Reload(f),
             WeaponIdle(FALSE, f)}
  BY DEF Act
<1>9. PrimaryAttack(t, k) = FamasFire(t, k)
  BY <1>7 DEF PrimaryAttack, Famas, M3
<1> HIDE DEF t, r
<1>10. \/ FamasFire(t, k).shoot = NoShot
       \/ /\ FamasFire(t, k).shoot = k /\ FamasFire(t, k).shots = 1
          /\ FamasFire(t, k).nextAttack = f.nextAttack
          /\ FamasFire(t, k).id = f.id
          /\ Gun(FamasFire(t, k)).nextPrimary = BurstTime
  BY <1>7, FamasFireBurst
<1>11. \/ r.shoot = NoShot
       \/ /\ r.shoot = k /\ r.shots = 1 /\ r.nextAttack = f.nextAttack
          /\ r.id = f.id /\ Gun(r).nextPrimary = BurstTime
  BY <1>3, <1>4, <1>5, <1>6, <1>8, <1>9, <1>10
<1> QED
  BY <1>11 DEF r

\* The server's command fires at most one round.
LEMMA ServerRunStep ==
  ASSUME NEW f, Good(f), NEW buttons, NEW k \in Nat \ {0},
         BurstTimed(f, k - 1, 0)
  PROVE  LET r == RunWeapon(FALSE, f, buttons, k) IN
         Step(f, r, 1) /\ BurstTimed(r, k, Msec)
<1> DEFINE b == ContinueBurst(FALSE, f, k)
           c == CompleteReload(FALSE, b)
           r == Act(FALSE, c, buttons, k)
<1>1. f.id \in Weapons /\ f.nextAttack \in Int /\ f.shoot \in Nat \cup {NoShot}
      /\ k \in Nat /\ Msec \in Nat \ {0} /\ BurstGap \in Nat
      /\ f.wpn[Famas].nextPrimary \in Int
  <2>1. Famas \in Weapons
    BY DEF Weapons
  <2> QED
    BY <2>1, Times, TimeAssumption DEF Good, Frames, WeaponData
<1>2. CASE ~(f.nextAttack <= 0)
  <2>1. ~(f.id = Famas /\ f.shoot # NoShot)
    BY <1>2 DEF BurstTimed
  <2>2. RunWeapon(FALSE, f, buttons, k) = f
    BY <1>2 DEF RunWeapon
  <2> QED
    BY <2>1, <2>2, StepReflexive DEF BurstTimed
<1>3. CASE f.nextAttack <= 0
  <2>1. RunWeapon(FALSE, f, buttons, k) = r
    BY <1>3 DEF RunWeapon, ItemPostFrame
  <2>2. Step(f, b, 1) /\ Good(b)
    BY <1>1, ContinueBurstStep DEF Step
  <2>3. Step(b, c, 0) /\ Good(c) /\ SameBurst(b, c)
    <3> HIDE DEF b
    <3> QED
      BY <2>2, CompleteReloadStep, CompleteReloadBurst DEF Step
  <2>4. Step(c, r, 1)
    <3> HIDE DEF c
    <3> QED
      BY <1>1, <2>3, ActStep
  <2>5. Step(f, c, 1)
    <3> HIDE DEF c, b
    <3> QED
      BY <2>2, <2>3, StepZero
  <2>6. c.id = f.id /\ r.id = f.id
    BY <2>2, <2>3, <2>4 DEF Step
  <2>7. CASE f.id # Famas
    <3>1. b = f
      BY <2>7 DEF ContinueBurst, Bursting
    <3> HIDE DEF b, c, r
    <3>2. Step(f, c, 0)
      BY <2>3, <3>1
    <3>3. Step(f, r, 1)
      BY <2>4, <3>2, StepZero
    <3> QED
      BY <2>1, <2>6, <2>7, <3>3 DEF BurstTimed
  <2>8. CASE f.id = Famas /\ f.shoot = NoShot
    <3>1. b = f
      BY <2>8 DEF ContinueBurst, Bursting
    <3> HIDE DEF b, c
    <3>2. Step(f, c, 0) /\ c.shoot = NoShot /\ c.nextAttack = f.nextAttack
      BY <2>3, <2>8, <3>1 DEF SameBurst
    <3>3. \/ r.shoot = NoShot
          \/ /\ r.shoot = k /\ r.shots = 1 /\ r.nextAttack = c.nextAttack
             /\ r.id = c.id /\ Gun(r).nextPrimary = BurstTime
      <4>1. Good(c) /\ c.id = Famas /\ c.shoot = NoShot /\ k \in Nat
        BY <1>1, <2>3, <2>6, <2>8, <3>2
      <4>2. LET a == Act(FALSE, c, buttons, k) IN
            \/ a.shoot = NoShot
            \/ /\ a.shoot = k /\ a.shots = 1 /\ a.nextAttack = c.nextAttack
               /\ a.id = c.id /\ Gun(a).nextPrimary = BurstTime
        BY <4>1, ActFree
      <4> QED
        BY <4>2
    <3> HIDE DEF r
    <3>4. Step(f, r, 1)
      BY <2>4, <3>2, StepZero
    <3>5. BurstTimed(r, k, Msec)
      <4>1. BurstTime - Msec > (BurstGap + 1) * Msec /\ BurstTime - Msec > 0
        <5>1. BurstTime \in Int
          BY Times
        <5> QED
          BY <1>1, <5>1, BurstAssumption, Products
      <4>2. CASE r.shoot = NoShot
        BY <4>2 DEF BurstTimed
      <4>3. CASE r.shoot = k /\ r.shots = 1 /\ r.nextAttack = c.nextAttack
                 /\ r.id = c.id /\ Gun(r).nextPrimary = BurstTime
        <5>1. r.wpn[Famas].nextPrimary = BurstTime /\ r.nextAttack <= 0
          BY <1>3, <2>6, <2>8, <3>2, <4>3 DEF Gun
        <5>2. ~(r.shoot > k) /\ r.shoot <= k
          BY <1>1, <4>3
        <5> QED
          BY <4>1, <4>3, <5>1, <5>2 DEF BurstTimed
      <4> QED
        BY <3>3, <4>2, <4>3
    <3> QED
      BY <2>1, <3>4, <3>5
  <2>9. CASE f.id = Famas /\ f.shoot # NoShot
    <3> DEFINE np == f.wpn[Famas].nextPrimary
    <3>1. /\ f.shots \in {1, 2} /\ np > 0 /\ f.shoot \in Nat
          /\ f.shoot > k - 1 => np > (f.shoot - (k - 1)) * Msec
          /\ f.shots = 1 => f.shoot <= k - 1 /\ np > (BurstGap + 1) * Msec
      BY <1>1, <2>9 DEF BurstTimed
    <3>2. /\ b.id = Famas /\ b.nextAttack = f.nextAttack
          /\ Gun(b).nextPrimary = np
          /\ \/ b.shoot = NoShot
             \/ k <= f.shoot /\ b.shoot = f.shoot /\ b.shots = f.shots
             \/ f.shots = 1 /\ b.shoot = k + BurstGap /\ b.shots = 2
      <4>1. CASE k > f.shoot
        BY <1>1, <2>9, <3>1, <4>1, ContinueBurstShot DEF Gun
      <4>2. CASE ~(k > f.shoot)
        <5>1. b = f
          BY <4>2 DEF ContinueBurst, Bursting
        <5>2. k <= f.shoot
          BY <1>1, <3>1, <4>2
        <5> QED
          BY <2>9, <5>1, <5>2 DEF Gun
      <4> QED
        BY <4>1, <4>2
    <3> HIDE DEF b
    <3>3. /\ c.shoot = b.shoot /\ c.shots = b.shots /\ c.nextAttack = f.nextAttack
          /\ Gun(c).nextPrimary = np /\ c.id = Famas
      BY <2>3, <3>2 DEF SameBurst
    <3> HIDE DEF c
    <3>4. SameBurst(c, r) /\ Step(c, r, 0)
      BY <1>1, <2>3, <3>1, <3>3, ActBusy
    <3> HIDE DEF r
    <3>5. Step(f, r, 1)
      BY <2>5, <3>4, StepZero
    <3>6. /\ r.shoot = b.shoot /\ r.shots = b.shots /\ r.nextAttack <= 0
          /\ r.wpn[Famas].nextPrimary = np /\ r.id = Famas
      BY <1>3, <3>3, <3>4 DEF SameBurst, Gun
    <3>7. BurstTimed(r, k, Msec)
      <4>1. CASE b.shoot = NoShot
        BY <3>6, <4>1 DEF BurstTimed
      <4>2. CASE k <= f.shoot /\ b.shoot = f.shoot /\ b.shots = f.shots
        <5>1. f.shoot - k \in Nat /\ f.shoot > k - 1
          BY <1>1, <3>1, <4>2
        <5>2. PICK n \in Nat : n = f.shoot - k
          BY <5>1
        <5>3. np > (n + 1) * Msec
          BY <1>1, <3>1, <5>1, <5>2
        <5>4. np - Msec > n * Msec /\ n * Msec \in Nat /\ np \in Int
          BY <1>1, <5>2, <5>3, Products
        <5>5. r.shots = 2
          BY <1>1, <3>1, <3>6, <4>2
        <5>6. np - Msec > 0 /\ np - Msec > (r.shoot - k) * Msec
          BY <1>1, <3>6, <4>2, <5>2, <5>4
        <5> QED
          BY <3>6, <5>5, <5>6 DEF BurstTimed
      <4>3. CASE f.shots = 1 /\ b.shoot = k + BurstGap /\ b.shots = 2
        <5>1. np - Msec > BurstGap * Msec /\ BurstGap * Msec \in Nat
          BY <1>1, <3>1, <4>3, Products
        <5>2. r.shoot - k = BurstGap
          BY <1>1, <3>6, <4>3
        <5>3. np - Msec > 0 /\ np - Msec > (r.shoot - k) * Msec
          BY <1>1, <5>1, <5>2
        <5> QED
          BY <3>6, <4>3, <5>3 DEF BurstTimed
      <4> QED
        BY <3>2, <4>1, <4>2, <4>3
    <3> QED
      BY <2>1, <3>5, <3>7
  <2> QED
    BY <2>7, <2>8, <2>9
<1> QED
  BY <1>2, <1>3

LEMMA DecayTimed ==
  ASSUME NEW f \in Frames, NEW k \in Nat, BurstTimed(f, k, Msec)
  PROVE  BurstTimed(Decay(f), k, 0)
<1> DEFINE r == Decay(f)
           np == f.wpn[Famas].nextPrimary
<1>1. /\ r.id = f.id /\ r.shoot = f.shoot /\ r.shots = f.shots
      /\ r.nextAttack = Decayed(f.nextAttack)
      /\ r.wpn[Famas].nextPrimary = Decayed(np)
      /\ f.nextAttack \in Int /\ np \in Int /\ Msec \in Nat
  <2>1. Famas \in Weapons /\ f.wpn[Famas] \in WeaponData
    BY DEF Weapons, Frames
  <2> QED
    BY <2>1, DecayFields, AgedGun, Times, TimeAssumption DEF Frames, WeaponData
<1> HIDE DEF r, np
<1>2. f.nextAttack <= 0 => r.nextAttack <= 0
  BY <1>1 DEF Decayed
<1>3. np - Msec > 0 => r.wpn[Famas].nextPrimary - 0 = np - Msec
  BY <1>1 DEF Decayed
<1>4. BurstTimed(r, k, 0)
  BY <1>1, <1>2, <1>3 DEF BurstTimed, np
<1> QED
  BY <1>4 DEF r

\* Storing a frame puts its reserve where the frame's weapon takes it from.
LEMMA StoredRounds ==
  ASSUME NEW s \in Servers, NEW f, Good(f), f.type = AmmoOf[s.id]
  PROVE  /\ Rounds(Stored(s, f), s.id) = f.wpn[s.id].clip + f.count
         /\ \A w \in Weapons \ {s.id} :
              Rounds(Stored(s, f), w) = f.wpn[w].clip + s.rg[AmmoOf[w]]
<1>1. s.id \in Weapons /\ s.rg \in [AmmoTypes -> Nat]
  BY DEF Servers
<1>2. \A w \in Weapons : AmmoOf[w] \in AmmoTypes
  BY DEF AmmoOf, AmmoTypes
<1>3. \A w \in Weapons \ {s.id} : AmmoOf[w] # AmmoOf[s.id]
  BY <1>1 DEF AmmoOf, Weapons, Famas, M3
<1>4. Stored(s, f).rg = [s.rg EXCEPT ![f.type] = f.count]
      /\ Stored(s, f).wpn = f.wpn
  BY DEF Stored
<1> QED
  BY <1>1, <1>2, <1>3, <1>4 DEF Rounds

LEMMA ServerCommandRounds ==
  ASSUME NEW s \in Servers, Sound(s), NEW cmd, NEW k \in Nat \ {0},
         BurstTimed(s, k - 1, 0)
  PROVE  LET t == ServerCommand(s, cmd, k) IN
         /\ BurstTimed(t, k, 0)
         /\ \A w \in Weapons :
              \/ Rounds(t, w) = Rounds(s, w)
              \/ w = s.id /\ Rounds(t, w) = Rounds(s, w) - 1
<1> DEFINE f == Loaded(s)
           r == RunWeapon(FALSE, f, cmd.buttons, k)
           d == Decay(r)
           t == Stored(s, d)
<1>1. /\ Good(f) /\ f.id = s.id /\ f.type = AmmoOf[s.id] /\ f.wpn = s.wpn
      /\ f.count = s.rg[AmmoOf[s.id]] /\ s.id \in Weapons
      /\ f.shoot = s.shoot /\ f.shots = s.shots /\ f.nextAttack = s.nextAttack
  BY LoadedGood DEF Loaded, Servers
<1> HIDE DEF f
<1>2. BurstTimed(f, k - 1, 0)
  BY <1>1 DEF BurstTimed
<1>3. Step(f, r, 1) /\ BurstTimed(r, k, Msec)
  BY <1>1, <1>2, ServerRunStep
<1> HIDE DEF r
<1>4. Step(r, d, 0) /\ BurstTimed(d, k, 0)
  BY <1>3, DecayStep, DecayTimed DEF Step, Good
<1>5. Step(f, d, 1)
  BY <1>1, <1>3, <1>4, StepZero
<1> HIDE DEF d
<1>6. /\ Good(d) /\ d.id = s.id /\ d.type = AmmoOf[s.id]
      /\ \A w \in Weapons \ {s.id} : d.wpn[w].clip = s.wpn[w].clip
  BY <1>1, <1>5 DEF Step
<1>7. /\ t.id = d.id /\ t.wpn = d.wpn /\ t.shoot = d.shoot /\ t.shots = d.shots
      /\ t.nextAttack = d.nextAttack
  BY DEF Stored
<1>8. /\ Rounds(t, s.id) = d.wpn[s.id].clip + d.count
      /\ \A w \in Weapons \ {s.id} : Rounds(t, w) = Rounds(s, w)
  BY <1>6, StoredRounds DEF Rounds
<1>9. /\ Loadout(d) = d.wpn[s.id].clip + d.count
      /\ Loadout(f) = Rounds(s, s.id)
  BY <1>1, <1>6 DEF Loadout, Gun, Rounds
<1>10. Rounds(t, s.id) = Rounds(s, s.id) \/ Rounds(t, s.id) = Rounds(s, s.id) - 1
  <2>1. Loadout(d) \in Int /\ Loadout(f) \in Int
    BY <1>1, <1>6, LoadoutInt
  <2>2. Loadout(f) - 1 <= Loadout(d) /\ Loadout(d) <= Loadout(f)
    BY <1>5 DEF Step
  <2> QED
    BY <1>8, <1>9, <2>1, <2>2
<1>11. BurstTimed(t, k, 0)
  BY <1>4, <1>7 DEF BurstTimed
<1>12. ServerCommand(s, cmd, k) = t
  BY DEF ServerCommand, d, r, f
<1> HIDE DEF t
<1> QED
  BY <1>8, <1>10, <1>11, <1>12

\* Neither drawing a weapon nor counting commands from an update starts a
\* burst or changes rounds.
LEMMA SwitchRounds ==
  ASSUME NEW s \in Servers, Sound(s), NEW v \in Weapons, NEW n \in Nat
  PROVE  LET t == Stored(s, Switch(FALSE, Loaded(s), v)) IN
         /\ BurstTimed(t, n, 0)
         /\ \A w \in Weapons : Rounds(t, w) = Rounds(s, w)
<1> DEFINE f == Loaded(s)
           r == Switch(FALSE, f, v)
           t == Stored(s, r)
<1>1. /\ Good(f) /\ f.id = s.id /\ f.type = AmmoOf[s.id] /\ f.wpn = s.wpn
      /\ f.count = s.rg[AmmoOf[s.id]] /\ s.id \in Weapons
  BY LoadedGood DEF Loaded, Servers
<1> HIDE DEF f
<1>2. /\ Good(r) /\ r.id = v /\ r.type = f.type /\ r.count = f.count
      /\ \A w \in Weapons : r.wpn[w].clip = f.wpn[w].clip
  BY <1>1, SwitchGood
<1>3. v = Famas => r.shoot = NoShot
  <2> DEFINE h == [Holster(FALSE, f) EXCEPT !.id = v, !.nextAttack = DeployTime,
                     !.wpn[M3].idle = IF v = M3 THEN IdleTime ELSE @]
  <2>1. v = Famas => r = EndBurst(h)
    BY DEF Switch
  <2>2. h.shoot = Holster(FALSE, f).shoot /\ DOMAIN h = DOMAIN Holster(FALSE, f)
    OBVIOUS
  <2>3. Holster(FALSE, f) \in Frames
    <3>1. [Gun(f) EXCEPT !.inReload = FALSE, !.special = 0] \in WeaponData
      <4>1. 0 \in 0 .. 2
        OBVIOUS
      <4> QED
        BY <1>1, <4>1, GoodGun DEF WeaponData
    <3> QED
      BY <1>1, <3>1, SetGunFields DEF Holster, Good
  <2>4. EndBurst(h).shoot = NoShot
    BY <2>3 DEF EndBurst, Frames
  <2> QED
    BY <2>1, <2>4
<1> HIDE DEF r
<1>4. t.id = v /\ t.shoot = r.shoot
  BY <1>2 DEF Stored
<1>5. BurstTimed(t, n, 0)
  BY <1>3, <1>4 DEF BurstTimed
<1>6. \A w \in Weapons : Rounds(t, w) = Rounds(s, w)
  BY <1>1, <1>2, StoredRounds DEF Rounds
<1> QED
  BY <1>5, <1>6 DEF t, r, f

LEMMA ShiftedTimed ==
  ASSUME NEW s \in Servers, NEW n \in Nat, BurstTimed(s, n, 0)
  PROVE  LET t == [s EXCEPT !.shoot = Shifted(s, n)] IN
         /\ BurstTimed(t, 0, 0)
         /\ \A w \in Weapons : Rounds(t, w) = Rounds(s, w)
<1> DEFINE t == [s EXCEPT !.shoot = Shifted(s, n)]
<1>1. /\ t.id = s.id /\ t.wpn = s.wpn /\ t.rg = s.rg /\ t.shots = s.shots
      /\ t.nextAttack = s.nextAttack /\ t.shoot = Shifted(s, n)
      /\ s.shoot \in Nat \cup {NoShot}
  BY DEF Servers
<1> HIDE DEF t
<1>2. /\ (t.shoot = NoShot) <=> (s.shoot = NoShot)
      /\ s.shoot # NoShot => /\ (t.shoot > 0) <=> (s.shoot > n)
                             /\ t.shoot > 0 => t.shoot - 0 = s.shoot - n
                             /\ (t.shoot <= 0) <=> (s.shoot <= n)
  BY <1>1 DEF Shifted, NoShot
<1>3. BurstTimed(t, 0, 0)
  BY <1>1, <1>2 DEF BurstTimed
<1> QED
  BY <1>1, <1>3 DEF Rounds, t

\* The burst of the server, counted in the commands it has executed.
BurstInv == WeaponInv /\ BurstTimed(server, ran, 0)

\* The step of the server's burst and rounds.
LEMMA BurstNext ==
  ASSUME BurstInv, [Next]_vars
  PROVE  /\ BurstInv'
         /\ \A w \in Weapons :
              \/ Rounds(server', w) = Rounds(server, w)
              \/ /\ RunCommand /\ w = server.id
                 /\ Rounds(server', w) = Rounds(server, w) - 1
<1>1. WeaponInv'
  BY WeaponNext DEF BurstInv
<1>2. server \in Servers /\ Sound(server) /\ ran \in Nat
  BY LenProperties DEF BurstInv, WeaponInv, TypeOK, AllSound
<1>3. CASE UNCHANGED <<server, ran>>
  BY <1>1, <1>3 DEF BurstInv, Rounds, BurstTimed
<1>4. CASE RunCommand
  <2> DEFINE k == ran + 1
  <2>1. server' = ServerCommand(server, cmds[k], k) /\ ran' = k
    BY <1>4 DEF RunCommand
  <2>2. k \in Nat \ {0} /\ k - 1 = ran
    BY <1>2
  <2>3. BurstTimed(server, k - 1, 0)
    BY <2>2 DEF BurstInv
  <2> HIDE DEF k
  <2>4. /\ BurstTimed(ServerCommand(server, cmds[k], k), k, 0)
        /\ \A w \in Weapons :
             \/ Rounds(ServerCommand(server, cmds[k], k), w) = Rounds(server, w)
             \/ /\ w = server.id
                /\ Rounds(ServerCommand(server, cmds[k], k), w)
                     = Rounds(server, w) - 1
    BY <1>2, <2>2, <2>3, ServerCommandRounds
  <2> QED
    BY <1>1, <1>4, <2>1, <2>4 DEF BurstInv, BurstTimed
<1>5. CASE SelectItem
  <2>1. pending \in Seq(Weapons) /\ pending # <<>> /\ ran' = ran
    BY <1>5 DEF SelectItem, BurstInv, WeaponInv, TypeOK
  <2>2. Head(pending) \in Weapons
    BY <2>1, HeadTailProperties
  <2>3. \/ server' = server
        \/ server' = Stored(server, Switch(FALSE, Loaded(server), Head(pending)))
    BY <1>5 DEF SelectItem
  <2> QED
    BY <1>1, <1>2, <2>1, <2>2, <2>3, SwitchRounds DEF BurstInv, BurstTimed
<1>6. CASE ReceiveSnapshot
  <2>1. server' = [server EXCEPT !.shoot = Shifted(server, ran)] /\ ran' = 0
    BY <1>6 DEF ReceiveSnapshot
  <2>2. BurstTimed(server, ran, 0)
    BY DEF BurstInv
  <2> QED
    BY <1>1, <1>2, <2>1, <2>2, ShiftedTimed DEF BurstInv, BurstTimed
<1>7. \/ UNCHANGED <<server, ran>>
      \/ RunCommand \/ SelectItem \/ ReceiveSnapshot
  BY DEF Next, CreateMove, PostRunCmd, vars
<1> QED
  BY <1>3, <1>4, <1>5, <1>6, <1>7

\* One command fires at most one round, for any delays that let a burst end
\* before the next shot; nothing else makes or loses a round.
THEOREM RoundsCorrect == Spec => OneRoundPerCommand
<1>1. Init => BurstInv
  <2>1. Init => WeaponInv
    BY WeaponInit
  <2>2. Init => server.shoot = NoShot
    BY DEF Init
  <2> QED
    BY <2>1, <2>2 DEF BurstInv, BurstTimed
<1>2. BurstInv /\ [Next]_vars => BurstInv'
  BY BurstNext
<1>3. BurstInv /\ [Next]_vars =>
        [\A w \in Weapons :
           \/ Rounds(server', w) = Rounds(server, w)
           \/ /\ RunCommand /\ w = server.id
              /\ Rounds(server', w) = Rounds(server, w) - 1]_vars
  BY BurstNext
<1> QED
  BY <1>1, <1>2, <1>3, PTL DEF Spec, OneRoundPerCommand
=============================================================================
