-------------------------- MODULE MCWeaponPrediction --------------------------
EXTENDS WeaponPrediction

MCMaxClip == [w \in Weapons |-> IF w = Famas THEN 3 ELSE 2]
MCStartClip == [w \in Weapons |-> IF w = Famas THEN 2 ELSE 0]
MCStartAmmo == [t \in AmmoTypes |-> 1]
MCCommands ==
  {[buttons |-> b, select |-> NoSelect] :
     b \in {{}, {"attack"}, {"attack2"}, {"reload"}}}
  \cup {[buttons |-> {}, select |-> w] : w \in Weapons}
=============================================================================
