SPECIFICATION PlayedSpec
CONSTANTS
  Slots = {1, 2}
  Clients = {ann}
  Bots = {bob}
  NoPlayer = NoPlayer
  GameRules <- OneGameRule
  MaxReliable = 2
  MaxUnreliable = 1
  MaxEvents = 2
  ann = ann
  bob = bob
  cat = cat
PROPERTIES
  ModDisabledIsReported
