----------------------------- MODULE MCVoiceMute -----------------------------
(***************************************************************************)
(* Instances of VoiceMute for TLC.  The environment (connections, level    *)
(* changes, mutes, cvar changes, restarts) takes at most MaxEvents steps;  *)
(* the protocol's own steps are not bounded.                               *)
(*                                                                         *)
(* What is hard needs a long history: a mask set for one player of a slot  *)
(* that another one finds there.  So a run has several starts, an empty    *)
(* server and states at the end of such histories.                         *)
(***************************************************************************)
EXTENDS VoiceMute, TLC

CONSTANTS MaxEvents, ann, bob, cat

VARIABLE events

mcVars == <<vars, events>>

\* Rules that let everybody hear everybody, and rules that separate all.
AllTalk   == [s \in Slots |-> Slots]
AllApart  == [s \in Slots |-> {s}]
MCGameRules == {AllTalk, AllApart}
OneGameRule == {AllTalk}

-----------------------------------------------------------------------------
\* The server with bob in slot 2 and ann, if on, in slot 1, for which it keeps
\* these masks, all sent.
ServerHolds(on, modEnable, rules, bans) ==
  /\ occupant = (1 :> IF on THEN ann ELSE NoPlayer) @@ (2 :> bob)
  /\ entity = (1 :> on @@ 2 :> TRUE)
  /\ listening = (1 :> rules \ bans @@ 2 :> {})
  /\ g_PlayerModEnable = (1 :> modEnable @@ 2 :> FALSE)
  /\ g_BanMasks = (1 :> bans @@ 2 :> {})
  /\ g_SentGameRulesMasks = (1 :> rules @@ 2 :> {})
  /\ g_SentBanMasks = g_BanMasks
  /\ g_bWantModEnable = (1 :> FALSE @@ 2 :> TRUE)
  /\ uniqueID = [p \in Clients |-> IF on THEN occupant ELSE NoIDs]

\* ann's program, with nothing under way.
ClientHolds(mutes, serverBans, audible, modEnable) ==
  /\ banned = [p \in Clients |-> mutes]
  /\ savedBans = [p \in Clients |-> {}]
  /\ m_ServerBannedPlayers = [p \in Clients |-> serverBans]
  /\ m_AudiblePlayers = [p \in Clients |-> audible]
  /\ m_bServerModEnable = [p \in Clients |-> modEnable]
  /\ clockBehind = [p \in Clients |-> FALSE]
  /\ toClient = [s \in Slots |-> <<>>]
  /\ toServer = [s \in Slots |-> <<>>]
  /\ vban = [s \in Slots |-> <<>>]

AllEnabled == voice_modenable = [p \in Clients |-> 1]

\* Both players on the server, every message delivered, nobody muted.
Settled ==
  /\ ServerHolds(TRUE, TRUE, {1, 2}, {}) /\ ClientHolds({}, {}, {1, 2}, 1)
  /\ AllEnabled

\* The same with bob muted: now slot 2 may go to a player who is not.
Muted ==
  /\ ServerHolds(TRUE, TRUE, {1, 2}, {2}) /\ ClientHolds({bob}, {2}, {1, 2}, 1)
  /\ AllEnabled

\* Then ann's program crashed, which lost her mute and not the server's bit.
Crashed ==
  /\ ServerHolds(FALSE, TRUE, {1, 2}, {2}) /\ ClientHolds({}, {}, {}, -1)
  /\ AllEnabled

\* ann comes from another server, where she muted the player that now sits in
\* slot 2 of a server she has not been on.
Away ==
  /\ ServerHolds(FALSE, FALSE, {}, {}) /\ ClientHolds({bob}, {2}, {1, 2}, 1)
  /\ voice_modenable \in [Clients -> {0, 1}]

MCInit == (Init \/ Settled \/ Muted \/ Crashed \/ Away) /\ events = 0
PlayedInit == (Settled \/ Away) /\ events = 0

-----------------------------------------------------------------------------
\* cat comes only after bob, to a slot that a mask may name.
CatComes == \E s \in Slots : occupant[s] # cat /\ occupant'[s] = cat
BobWasMuted ==
  (\E t \in Slots : g_BanMasks[t] # {}) /\ \A t \in Slots : occupant[t] # bob

MCNext ==
  /\ \/ Environment /\ events < MaxEvents /\ events' = events + 1
     \/ Protocol /\ UNCHANGED events
  /\ CatComes => BobWasMuted

MCSpec == MCInit /\ [][MCNext]_mcVars /\ Fairness
PlayedSpec == PlayedInit /\ [][MCNext]_mcVars /\ Fairness
=============================================================================
