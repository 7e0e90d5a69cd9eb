SPECIFICATION MCSpec
CONSTANTS
  Slots = {1, 2}
  Clients = {ann}
  Bots = {bob, cat}
  NoPlayer = NoPlayer
  GameRules <- MCGameRules
  MaxReliable = 2
  MaxUnreliable = 1
  MaxEvents = 2
  ann = ann
  bob = bob
  cat = cat
INVARIANTS
  TypeOK
  EchoMatchesSent
  ListeningMatchesSent
  ClientBeliefIsTrue
PROPERTIES
  MuteTakesEffect
  ServerIsToldWithVoiceOn
  UnmuteTakesEffect
  StateRequestAnswered
  PollingResumes
