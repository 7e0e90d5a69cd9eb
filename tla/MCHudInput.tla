------------------------------ MODULE MCHudInput ------------------------------
(***************************************************************************)
(* The instance of HudInput for TLC: two keys on attack and one on         *)
(* forward, two weapons in one slot and one in another, a menu of two      *)
(* messages and one of one.  The buttons, the weapons and the text menu    *)
(* meet in few places, so the instance explores three scenarios, each with *)
(* the events of two of them.                                              *)
(***************************************************************************)
EXTENDS HudInput, TLC

CONSTANTS K1, K2, W, Rifle, Auto, Pistol, Long, Short

VARIABLE scenario    \* "keys", "weapons" or "menus"

MCSlotOf == Rifle :> 0 @@ Auto :> 0 @@ Pistol :> 1
MCPosOf == Rifle :> 3 @@ Auto :> 7 @@ Pistol :> 5
MCParts == Long :> 2 @@ Short :> 1
MCValid == Long :> {1, 2} @@ Short :> {2}

MCInit == Init /\ scenario \in {"keys", "weapons", "menus"}

\* No menus with two keys; with the weapons, attack has one key and ammo is
\* none, of one rifle or of all; with the menus nothing is pressed and no
\* weapon is lost.
InScenario ==
  /\ scenario = "keys" =>
       /\ UNCHANGED <<menu, sending, ammo, m_pWeapon>>
       /\ m_iWeaponBits' \in {{}, {Suit, Pistol}}
  /\ scenario = "weapons" =>
       /\ UNCHANGED <<menu, sending, captured, in_forward>>
       /\ holders'["attack"] \subseteq {K1}
       /\ ammo' \in {{}, {Auto}, Weapons}
  /\ scenario = "menus" =>
       /\ UNCHANGED <<buttonVars, holders, m_bShow, captured>>
       /\ m_iWeaponBits' = {Suit, Rifle, Pistol} /\ UNCHANGED <<ammo, m_pWeapon>>

MCNext == Next /\ InScenario /\ UNCHANGED scenario

MCSpec == MCInit /\ [][MCNext]_<<vars, scenario>>
=============================================================================
