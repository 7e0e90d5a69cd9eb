SPECIFICATION MCSpec
CONSTANTS
  Console = console
  NoKey = nokey
  K1 = k1
  K2 = k2
  W = w
  Keys = {k1, k2, w}
  AttackKeys = {k1, k2}
  ForwardKeys = {w}
  Rifle = rifle
  Auto = auto
  Pistol = pistol
  Weapons = {rifle, auto, pistol}
  Suit = suit
  SlotOf <- MCSlotOf
  PosOf <- MCPosOf
  MaxWeaponSlots = 2
  MaxWeaponPositions = 8
  SlotKeys = {1, 2, 3, 4}
  MenuBar = bar
  NoWeapon = none
  Long = long
  Short = short
  Menus = {long, short}
  Parts <- MCParts
  Valid <- MCValid
INVARIANTS
  TypeOK
  ButtonsFollowKeys
  SpentClickNeverFires
  NoPressLost
  ForwardIsWhatKeysDid
  EveryWeaponReachable
  MenuTextNotMixed
PROPERTIES
  SelectionOfThisLife
  DrawnMenuTakesSlotKeys
CHECK_DEADLOCK FALSE
