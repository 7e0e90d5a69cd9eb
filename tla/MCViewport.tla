------------------------------ MODULE MCViewport ------------------------------
(***************************************************************************)
(* The instance of Viewport for TLC: the client's eight panels, for the    *)
(* two teams of the game.                                                  *)
(***************************************************************************)
EXTENDS Viewport, TLC

CONSTANTS T, CT,
          CLASS_TER, CLASS_CT, BUY_TER, BUY_CT, BUY_EQUIP_TER, BUY_EQUIP_CT

MCClassMenu == T :> CLASS_TER @@ CT :> CLASS_CT
MCBuyMenu   == T :> BUY_TER @@ CT :> BUY_CT
MCEquipMenu == T :> BUY_EQUIP_TER @@ CT :> BUY_EQUIP_CT
=============================================================================
