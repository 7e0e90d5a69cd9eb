CONSTANTS
  T = T
  CT = CT
  CLASS_TER = CLASS_TER
  CLASS_CT = CLASS_CT
  BUY_TER = BUY_TER
  BUY_CT = BUY_CT
  BUY_EQUIP_TER = BUY_EQUIP_TER
  BUY_EQUIP_CT = BUY_EQUIP_CT
  Teams = {T, CT}
  NoTeam = NoTeam
  MOTD = MOTD
  TeamMenu = TeamMenu
  ClassMenu <- MCClassMenu
  BuyMenu <- MCBuyMenu
  EquipMenu <- MCEquipMenu
  NoPanel = NoPanel
SPECIFICATION Spec
INVARIANT SlotKeysHaveMenu
