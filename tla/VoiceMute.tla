------------------------------ MODULE VoiceMute ------------------------------
(***************************************************************************)
(* Who hears whom: the protocol by which a client tells the game server    *)
(* which players it has muted (game_shared/voice_status.cpp) and the       *)
(* server turns that into the engine's listening table                     *)
(* (game_shared/voice_gamemgr.cpp).                                        *)
(*                                                                         *)
(* The client polls: once a second it compares its own ban list with the   *)
(* mask the server last echoed, and sends "vban" on the unreliable channel *)
(* when they differ.  The server polls too: every 0.3 s it echoes the      *)
(* masks it uses when they differ from the ones it sent last, and asks for *)
(* the client's state until a "VModEnable" has come back.                  *)
(*                                                                         *)
(* A 32-bit player mask is the set of slots whose bit is on.  Server state *)
(* is indexed by slot, and survives the player that occupied it; client    *)
(* state is indexed by player, and survives the server it was learnt from. *)
(***************************************************************************)
EXTENDS Integers, Sequences

CONSTANTS
  Slots,          \* client slots of the server (m_nMaxPlayers of them)
  Clients,        \* players that run this client
  Bots,           \* players the server runs itself: no client, no messages
  NoPlayer,       \* a slot nobody occupies
  GameRules,      \* outcomes of CanPlayerHearPlayer: listener slot -> slots
  MaxReliable,    \* bound: messages in flight on a reliable channel
  MaxUnreliable   \* bound: vban commands in flight, further ones are lost

Players == Clients \cup Bots

ASSUME PlayersAssumption ==
  /\ Clients \cap Bots = {}
  /\ NoPlayer \notin Players
ASSUME RulesAssumption == GameRules \subseteq [Slots -> SUBSET Slots]
ASSUME BoundsAssumption ==
  /\ MaxReliable \in Nat \ {0, 1}
  /\ MaxUnreliable \in Nat \ {0}

VARIABLES
  \* the engine's connection table
  occupant,               \* slot -> the player connected to it
  entity,                 \* slot -> UTIL_PlayerByIndex finds a player there
  listening,              \* slot -> slots it is sent voice of
  \* CVoiceGameMgr: globals of the game DLL
  g_PlayerModEnable, g_BanMasks, g_SentGameRulesMasks, g_SentBanMasks,
  g_bWantModEnable,
  \* CVoiceStatus and CVoiceBanMgr: one copy per client program
  banned,                 \* m_BanMgr: the players muted
  savedBans,              \* the ban file
  m_ServerBannedPlayers, m_AudiblePlayers, m_bServerModEnable,
  voice_modenable,        \* the cvar
  uniqueID,               \* slot -> the player GetPlayerUniqueID knows there
  clockBehind,            \* GetClientTime() restarted below m_LastUpdateServerState
  \* the connection of each slot
  toClient, toServer,     \* reliable, in order
  vban                    \* unreliable: in order, but each may be lost

serverVars == <<g_PlayerModEnable, g_BanMasks, g_SentGameRulesMasks,
                g_SentBanMasks, g_bWantModEnable>>
engineVars == <<occupant, entity, listening>>
echoVars   == <<m_ServerBannedPlayers, m_AudiblePlayers>>
clientVars == <<banned, savedBans, echoVars, m_bServerModEnable,
                voice_modenable, uniqueID, clockBehind>>
netVars    == <<toClient, toServer, vban>>
vars       == <<engineVars, serverVars, clientVars, netVars>>

ReqStateMsg == [type |-> "ReqState"]
VoiceMaskMsg(rules, bans) ==
  [type |-> "VoiceMask", rules |-> rules, bans |-> bans]
Messages ==
  [type : {"ReqState"}] \cup
  [type : {"VoiceMask"}, rules : SUBSET Slots, bans : SUBSET Slots]

\* BufferReader::ReadByte past the end: -1 in a uint8_t.  HandleVoiceMaskMsg
\* reads a ninth byte of a message to which the server writes eight.
PastEnd == (-1) % 256

TypeOK ==
  /\ occupant \in [Slots -> Players \cup {NoPlayer}]
  /\ entity \in [Slots -> BOOLEAN]
  /\ listening \in [Slots -> SUBSET Slots]
  /\ g_PlayerModEnable \in [Slots -> BOOLEAN]
  /\ g_BanMasks \in [Slots -> SUBSET Slots]
  /\ g_SentGameRulesMasks \in [Slots -> SUBSET Slots]
  /\ g_SentBanMasks \in [Slots -> SUBSET Slots]
  /\ g_bWantModEnable \in [Slots -> BOOLEAN]
  /\ banned \in [Clients -> SUBSET Players]
  /\ savedBans \in [Clients -> SUBSET Players]
  /\ m_ServerBannedPlayers \in [Clients -> SUBSET Slots]
  /\ m_AudiblePlayers \in [Clients -> SUBSET Slots]
  /\ m_bServerModEnable \in [Clients -> {-1, 0, 1, PastEnd}]
  /\ voice_modenable \in [Clients -> {0, 1}]
  /\ uniqueID \in [Clients -> [Slots -> Players \cup {NoPlayer}]]
  /\ clockBehind \in [Clients -> BOOLEAN]
  /\ toClient \in [Slots -> Seq(Messages)]
  /\ toServer \in [Slots -> Seq({0, 1})]
  /\ vban \in [Slots -> Seq(SUBSET Slots)]

NoIDs == [s \in Slots |-> NoPlayer]

\* A server just started and clients just launched, nobody connected.
Init ==
  /\ occupant = [s \in Slots |-> NoPlayer]
  /\ entity = [s \in Slots |-> FALSE]
  /\ listening = [s \in Slots |-> {}]
  /\ g_PlayerModEnable = [s \in Slots |-> FALSE]
  /\ g_BanMasks = [s \in Slots |-> {}]
  /\ g_SentGameRulesMasks = [s \in Slots |-> {}]
  /\ g_SentBanMasks = [s \in Slots |-> {}]
  /\ g_bWantModEnable = [s \in Slots |-> FALSE]
  /\ banned = [p \in Clients |-> {}]
  /\ savedBans = banned
  /\ m_ServerBannedPlayers = [p \in Clients |-> {}]
  /\ m_AudiblePlayers = [p \in Clients |-> {}]
  /\ m_bServerModEnable = [p \in Clients |-> -1]
  /\ voice_modenable = [p \in Clients |-> 1]
  /\ uniqueID = [p \in Clients |-> NoIDs]
  /\ clockBehind = [p \in Clients |-> FALSE]
  /\ toClient = [s \in Slots |-> <<>>]
  /\ toServer = [s \in Slots |-> <<>>]
  /\ vban = [s \in Slots |-> <<>>]

HasClient(s) == occupant[s] \in Clients

-----------------------------------------------------------------------------
(***************************************************************************)
(* CVoiceStatus: the client at the far end of slot s.                      *)
(***************************************************************************)

\* The mask of the visible players in a ban list.
BanMask(p, bans) == {o \in Slots : uniqueID[p][o] \in bans}

\* The part of the server's echo that concerns visible players.
ServerBanMask(p) ==
  {o \in m_ServerBannedPlayers[p] : uniqueID[p][o] # NoPlayer}

SendModEnable(s, bForce) ==
  LET p == occupant[s] IN
  IF bForce \/ m_bServerModEnable[p] # voice_modenable[p]
  THEN /\ Len(toServer[s]) < MaxReliable
       /\ m_bServerModEnable' =
            [m_bServerModEnable EXCEPT ![p] = voice_modenable[p]]
       /\ toServer' = [toServer EXCEPT ![s] = Append(@, voice_modenable[p])]
  ELSE UNCHANGED <<m_bServerModEnable, toServer>>

\* Variants with a plausible bug: each names what it forgets.
SendBans_OnlyForced(s, bForce, bans) ==
  IF bForce /\ Len(vban[s]) < MaxUnreliable
  THEN vban' = [vban EXCEPT ![s] = Append(@, BanMask(occupant[s], bans))]
  ELSE UNCHANGED vban

SendBans_OnlyUnmutes(s, bForce, bans) ==
  LET p == occupant[s] IN
  IF /\ bForce \/ ~(ServerBanMask(p) \subseteq BanMask(p, bans))
     /\ Len(vban[s]) < MaxUnreliable
  THEN vban' = [vban EXCEPT ![s] = Append(@, BanMask(p, bans))]
  ELSE UNCHANGED vban

SendBans(s, bForce, bans) ==
  LET p == occupant[s] IN
  IF /\ bForce \/ BanMask(p, bans) # ServerBanMask(p)
     /\ Len(vban[s]) < MaxUnreliable
  THEN vban' = [vban EXCEPT ![s] = Append(@, BanMask(p, bans))]
  ELSE UNCHANGED vban

UpdateServerState(s, bForce, bans) ==
  /\ SendModEnable(s, bForce)
  /\ SendBans(s, bForce, bans)
  /\ clockBehind' = [clockBehind EXCEPT ![occupant[s]] = FALSE]

\* Once per second, by the client's clock.
Frame(s) ==
  /\ HasClient(s)
  /\ ~clockBehind[occupant[s]]
  /\ UpdateServerState(s, FALSE, banned[occupant[s]])
  /\ UNCHANGED <<engineVars, serverVars, banned, savedBans, echoVars,
                 voice_modenable, uniqueID, toClient>>

SetPlayerBan(bans, playerID, bSquelch) ==
  IF bSquelch THEN bans \cup {playerID} ELSE bans \ {playerID}

\* Without the early return on a slot nobody is known to play in.
SetPlayerBlockedState_AnySlot(s, o, blocked) ==
  LET p == occupant[s]
      bans == SetPlayerBan(banned[p], uniqueID[p][o], blocked)
  IN
  /\ HasClient(s)
  /\ banned' = [banned EXCEPT ![p] = bans]
  /\ UpdateServerState(s, FALSE, bans)
  /\ UNCHANGED <<engineVars, serverVars, savedBans, echoVars,
                 voice_modenable, uniqueID, toClient>>

\* The scoreboard mutes (blocked) or unmutes the player in slot o.
SetPlayerBlockedState(s, o, blocked) ==
  LET p == occupant[s]
      bans == SetPlayerBan(banned[p], uniqueID[p][o], blocked)
  IN
  /\ HasClient(s)
  /\ uniqueID[p][o] # NoPlayer
  /\ banned' = [banned EXCEPT ![p] = bans]
  /\ UpdateServerState(s, FALSE, bans)
  /\ UNCHANGED <<engineVars, serverVars, savedBans, echoVars,
                 voice_modenable, uniqueID, toClient>>

HandleVoiceMaskMsg(s) ==
  LET p == occupant[s]  msg == Head(toClient[s]) IN
  /\ HasClient(s) /\ toClient[s] # <<>>
  /\ msg.type = "VoiceMask"
  /\ m_AudiblePlayers' = [m_AudiblePlayers EXCEPT ![p] = msg.rules]
  /\ m_ServerBannedPlayers' = [m_ServerBannedPlayers EXCEPT ![p] = msg.bans]
  /\ m_bServerModEnable' = [m_bServerModEnable EXCEPT ![p] = PastEnd]
  /\ toClient' = [toClient EXCEPT ![s] = Tail(@)]
  /\ UNCHANGED <<engineVars, serverVars, banned, savedBans, voice_modenable,
                 uniqueID, clockBehind, toServer, vban>>

\* Answers only what changed.
HandleReqStateMsg_NotForced(s) ==
  /\ HasClient(s) /\ toClient[s] # <<>>
  /\ Head(toClient[s]).type = "ReqState"
  /\ UpdateServerState(s, FALSE, banned[occupant[s]])
  /\ toClient' = [toClient EXCEPT ![s] = Tail(@)]
  /\ UNCHANGED <<engineVars, serverVars, banned, savedBans, echoVars,
                 voice_modenable, uniqueID>>

HandleReqStateMsg(s) ==
  /\ HasClient(s) /\ toClient[s] # <<>>
  /\ Head(toClient[s]).type = "ReqState"
  /\ UpdateServerState(s, TRUE, banned[occupant[s]])
  /\ toClient' = [toClient EXCEPT ![s] = Tail(@)]
  /\ UNCHANGED <<engineVars, serverVars, banned, savedBans, echoVars,
                 voice_modenable, uniqueID>>

\* The engine's userinfo updates: the client learns who is on the server.
LearnPlayers(s) ==
  /\ HasClient(s)
  /\ uniqueID' = [uniqueID EXCEPT ![occupant[s]] = occupant]
  /\ UNCHANGED <<engineVars, serverVars, banned, savedBans, echoVars,
                 m_bServerModEnable, voice_modenable, clockBehind, netVars>>

\* The user, or UpdateSpeakerStatus when he talks, sets the cvar.
SetModEnable(p, n) ==
  /\ voice_modenable' = [voice_modenable EXCEPT ![p] = n]
  /\ UNCHANGED <<engineVars, serverVars, banned, savedBans, echoVars,
                 m_bServerModEnable, uniqueID, clockBehind, netVars>>

\* After long enough the restarted clock passes m_LastUpdateServerState again.
ClockCatchesUp(p) ==
  /\ clockBehind[p]
  /\ clockBehind' = [clockBehind EXCEPT ![p] = FALSE]
  /\ UNCHANGED <<engineVars, serverVars, banned, savedBans, echoVars,
                 m_bServerModEnable, voice_modenable, uniqueID, netVars>>

\* Only ~CVoiceStatus saves the ban list.
SaveState(p, crash) ==
  savedBans' = IF crash THEN savedBans
                        ELSE [savedBans EXCEPT ![p] = banned[p]]

\* CVoiceBanMgr::Init reads the ban file.
LoadBans(p) == banned' = [banned EXCEPT ![p] = savedBans'[p]]

\* The program ends and is started again; a crash loses what changed since the
\* program was started.
RestartGame(p, crash) ==
  /\ \A s \in Slots : occupant[s] # p
  /\ SaveState(p, crash)
  /\ LoadBans(p)
  /\ m_ServerBannedPlayers' = [m_ServerBannedPlayers EXCEPT ![p] = {}]
  /\ m_AudiblePlayers' = [m_AudiblePlayers EXCEPT ![p] = {}]
  /\ m_bServerModEnable' = [m_bServerModEnable EXCEPT ![p] = -1]
  /\ clockBehind' = [clockBehind EXCEPT ![p] = FALSE]
  /\ UNCHANGED <<engineVars, serverVars, voice_modenable, uniqueID, netVars>>

-----------------------------------------------------------------------------
(***************************************************************************)
(* The engine's connections, and what the game DLL does on them.           *)
(***************************************************************************)

\* Nothing is cleared for the new client.
ForgetSent_Kept(S) == UNCHANGED <<g_SentGameRulesMasks, g_SentBanMasks>>

\* What ClientConnected clears of a set of slots: the delta state only.
ForgetSent(S) ==
  /\ g_SentGameRulesMasks' =
       [s \in Slots |-> IF s \in S THEN {} ELSE g_SentGameRulesMasks[s]]
  /\ g_SentBanMasks' =
       [s \in Slots |-> IF s \in S THEN {} ELSE g_SentBanMasks[s]]

\* The new client is not asked for its state.
AskModEnable_Not(S) == UNCHANGED g_bWantModEnable

AskModEnable(S) ==
  g_bWantModEnable' =
    [s \in Slots |-> IF s \in S THEN TRUE ELSE g_bWantModEnable[s]]

NewChannels(S) ==
  /\ toClient' = [s \in Slots |-> IF s \in S THEN <<>> ELSE toClient[s]]
  /\ toServer' = [s \in Slots |-> IF s \in S THEN <<>> ELSE toServer[s]]
  /\ vban' = [s \in Slots |-> IF s \in S THEN <<>> ELSE vban[s]]

\* The client's view of a new level: nobody known yet, and a clock that may
\* start below the time of the last update.
ForgetPlayers(P) ==
  uniqueID' = [p \in Clients |-> IF p \in P THEN NoIDs ELSE uniqueID[p]]

NewLevel(P) ==
  /\ ForgetPlayers(P)
  /\ clockBehind' \in [Clients -> BOOLEAN]
  /\ \A p \in Clients \ P : clockBehind'[p] = clockBehind[p]
  /\ UNCHANGED <<banned, savedBans, echoVars, m_bServerModEnable,
                 voice_modenable>>

ClientConnected(s, p) ==
  /\ occupant[s] = NoPlayer
  /\ \A t \in Slots : occupant[t] # p
  /\ occupant' = [occupant EXCEPT ![s] = p]
  /\ AskModEnable({s})
  /\ ForgetSent({s})
  /\ NewChannels({s})
  /\ NewLevel({p} \cap Clients)
  /\ UNCHANGED <<entity, listening, g_PlayerModEnable, g_BanMasks>>

\* A level change reconnects everyone in place; the globals survive it.
ChangeLevel ==
  LET S == {s \in Slots : occupant[s] # NoPlayer} IN
  /\ S # {}
  /\ entity' = [s \in Slots |-> FALSE]
  /\ AskModEnable(S)
  /\ ForgetSent(S)
  /\ NewChannels(S)
  /\ NewLevel({p \in Clients : \E s \in S : occupant[s] = p})
  /\ UNCHANGED <<occupant, listening, g_PlayerModEnable, g_BanMasks>>

PutInServer(s) ==
  /\ occupant[s] # NoPlayer /\ ~entity[s]
  /\ entity' = [entity EXCEPT ![s] = TRUE]
  /\ UNCHANGED <<occupant, listening, serverVars, clientVars, netVars>>

Disconnect(s) ==
  /\ occupant[s] # NoPlayer
  /\ occupant' = [occupant EXCEPT ![s] = NoPlayer]
  /\ entity' = [entity EXCEPT ![s] = FALSE]
  /\ NewChannels({s})
  /\ ForgetPlayers({occupant[s]})
  /\ UNCHANGED <<listening, serverVars, banned, savedBans, echoVars,
                 m_bServerModEnable, voice_modenable, clockBehind>>

LoseVban(s) ==
  /\ vban[s] # <<>>
  /\ vban' = [vban EXCEPT ![s] = Tail(@)]
  /\ UNCHANGED <<engineVars, serverVars, clientVars, toClient, toServer>>

-----------------------------------------------------------------------------
(***************************************************************************)
(* CVoiceGameMgr.                                                          *)
(***************************************************************************)

\* The game DLL drops commands of a client that has no entity yet.
ClientCommand_vban(s) ==
  /\ vban[s] # <<>>
  /\ vban' = [vban EXCEPT ![s] = Tail(@)]
  /\ g_BanMasks' = IF entity[s] THEN [g_BanMasks EXCEPT ![s] = Head(vban[s])]
                                ELSE g_BanMasks
  /\ UNCHANGED <<engineVars, g_PlayerModEnable, g_SentGameRulesMasks,
                 g_SentBanMasks, g_bWantModEnable, clientVars, toClient,
                 toServer>>

ClientCommand_VModEnable(s) ==
  /\ toServer[s] # <<>>
  /\ toServer' = [toServer EXCEPT ![s] = Tail(@)]
  /\ IF entity[s]
     THEN /\ g_PlayerModEnable' =
               [g_PlayerModEnable EXCEPT ![s] = (Head(toServer[s]) # 0)]
          /\ g_bWantModEnable' = [g_bWantModEnable EXCEPT ![s] = FALSE]
     ELSE UNCHANGED <<g_PlayerModEnable, g_bWantModEnable>>
  /\ UNCHANGED <<engineVars, g_BanMasks, g_SentGameRulesMasks,
                 g_SentBanMasks, clientVars, toClient, vban>>

\* gameRulesMask: whom the rules let s hear, nobody if s turned voice off.
GameRulesMask(s, hears) ==
  IF g_PlayerModEnable[s] THEN {o \in hears[s] : entity[o]} ELSE {}

\* Only the rules are compared.
MasksChanged_RulesOnly(s, hears) ==
  GameRulesMask(s, hears) # g_SentGameRulesMasks[s]

MasksChanged(s, hears) ==
  \/ GameRulesMask(s, hears) # g_SentGameRulesMasks[s]
  \/ g_BanMasks[s] # g_SentBanMasks[s]

\* What one pass of UpdateMasks sends to slot s.
Outgoing(s, hears) ==
  (IF g_bWantModEnable[s] THEN <<ReqStateMsg>> ELSE <<>>) \o
  (IF MasksChanged(s, hears)
   THEN <<VoiceMaskMsg(GameRulesMask(s, hears), g_BanMasks[s])>> ELSE <<>>)

\* bCanHear, from the mask sent before instead of the one in force.
Audible_Stale(s, hears) == GameRulesMask(s, hears) \ g_SentBanMasks[s]

Audible(s, hears) == GameRulesMask(s, hears) \ g_BanMasks[s]

UpdateMasks ==
  \E hears \in GameRules :
    LET changed == {s \in Slots : entity[s] /\ MasksChanged(s, hears)} IN
    /\ \A s \in Slots : entity[s] /\ HasClient(s) =>
         Len(toClient[s]) + Len(Outgoing(s, hears)) <= MaxReliable
    /\ toClient' =
         [s \in Slots |-> IF entity[s] /\ HasClient(s)
                          THEN toClient[s] \o Outgoing(s, hears)
                          ELSE toClient[s]]
    /\ g_SentGameRulesMasks' =
         [s \in Slots |-> IF s \in changed THEN GameRulesMask(s, hears)
                                           ELSE g_SentGameRulesMasks[s]]
    /\ g_SentBanMasks' =
         [s \in Slots |-> IF s \in changed THEN g_BanMasks[s]
                                           ELSE g_SentBanMasks[s]]
    /\ listening' =
         [s \in Slots |-> IF entity[s] THEN Audible(s, hears)
                                       ELSE listening[s]]
    /\ UNCHANGED <<occupant, entity, g_PlayerModEnable, g_BanMasks,
                   g_bWantModEnable, clientVars, toServer, vban>>

\* A pass that, should the rules say so, changes nothing: the masks it computes
\* are the ones remembered as sent and in force, and it asks nobody.
PassIsIdle(hears) ==
  \A s \in Slots : entity[s] =>
    /\ ~(g_bWantModEnable[s] /\ HasClient(s))
    /\ ~MasksChanged(s, hears)
    /\ listening[s] = Audible(s, hears)

\* A pass that has something to do whatever the rules say.
UpdateMasksDue ==
  (\A hears \in GameRules : ~PassIsIdle(hears)) /\ UpdateMasks

-----------------------------------------------------------------------------
\* What users and the network decide.
Environment ==
  \/ \E s \in Slots, p \in Players : ClientConnected(s, p)
  \/ ChangeLevel
  \/ \E s \in Slots : Disconnect(s)
  \/ \E s, o \in Slots, blocked \in BOOLEAN :
       SetPlayerBlockedState(s, o, blocked)
  \/ \E p \in Clients, n \in {0, 1} : SetModEnable(p, n)
  \/ \E p \in Clients, crash \in BOOLEAN : RestartGame(p, crash)

\* What the two programs and the engine do by themselves.
Protocol ==
  \/ UpdateMasks
  \/ \E s \in Slots :
       \/ Frame(s)
       \/ HandleVoiceMaskMsg(s)
       \/ HandleReqStateMsg(s)
       \/ LearnPlayers(s)
       \/ PutInServer(s)
       \/ LoseVban(s)
       \/ ClientCommand_vban(s)
       \/ ClientCommand_VModEnable(s)
  \/ \E p \in Clients : ClockCatchesUp(p)

Next == Environment \/ Protocol

\* Both programs keep running their frames, reliable channels deliver, a
\* connection completes, and of infinitely many vbans infinitely many arrive.
\* The rules need never change: that a pass happens is promised only while
\* there is something to do under every one of them.
\* Nothing makes the clock catch up: that may take as long as the last level.
Fairness ==
  /\ WF_vars(UpdateMasksDue)
  /\ \A s \in Slots :
       /\ WF_vars(Frame(s))
       /\ WF_vars(HandleVoiceMaskMsg(s))
       /\ WF_vars(HandleReqStateMsg(s))
       /\ WF_vars(LearnPlayers(s))
       /\ WF_vars(PutInServer(s))
       /\ WF_vars(ClientCommand_VModEnable(s))
       /\ SF_vars(ClientCommand_vban(s))

Spec == Init /\ [][Next]_vars
FairSpec == Spec /\ Fairness

-----------------------------------------------------------------------------
(***************************************************************************)
(* Safety.                                                                 *)
(***************************************************************************)

\* The places of the VoiceMask messages in a channel.
Masks(q) == {i \in DOMAIN q : q[i].type = "VoiceMask"}

InFlight(s) == Masks(toClient[s])

\* The masks UpdateMasks remembers having sent are not the cleared ones.
Told(s) == g_SentGameRulesMasks[s] # {} \/ g_SentBanMasks[s] # {}

\* UpdateMasks sends nothing while the masks equal the ones it remembers, so
\* what it remembers must be what the client will have once its messages have
\* arrived: the newest VoiceMask in flight carries it, and when none is in
\* flight the client holds it.
NewestIsSent(s) ==
  \A i \in InFlight(s) :
    (\A j \in InFlight(s) : j <= i) =>
      toClient[s][i] =
        VoiceMaskMsg(g_SentGameRulesMasks[s], g_SentBanMasks[s])

HeldIsSent(s) ==
  InFlight(s) = {} /\ Told(s) =>
    /\ m_AudiblePlayers[occupant[s]] = g_SentGameRulesMasks[s]
    /\ m_ServerBannedPlayers[occupant[s]] = g_SentBanMasks[s]

EchoMatchesSent ==
  \A s \in Slots : HasClient(s) => NewestIsSent(s) /\ HeldIsSent(s)

\* The engine relays exactly what the masks remembered as sent allow.
ListeningMatchesSent ==
  \A s \in Slots : Told(s) =>
    listening[s] = g_SentGameRulesMasks[s] \ g_SentBanMasks[s]

\* What the client believes is what happens: with no VoiceMask in flight, the
\* voices the engine relays to it are those of m_AudiblePlayers without
\* m_ServerBannedPlayers, whichever players came and went in its slot before.
ClientBeliefIsTrue ==
  \A s \in Slots : HasClient(s) /\ Told(s) /\ InFlight(s) = {} =>
    listening[s] =
      m_AudiblePlayers[occupant[s]] \ m_ServerBannedPlayers[occupant[s]]

\* Nobody is connected twice.
OneSlotEach ==
  \A s, t \in Slots :
    occupant[s] = occupant[t] /\ occupant[s] # NoPlayer => s = t

\* The inductive invariant behind ClientBeliefIsTrue.
BeliefInv ==
  /\ TypeOK
  /\ OneSlotEach
  /\ EchoMatchesSent
  /\ ListeningMatchesSent

\* "m_bServerModEnable: What we've sent to the server about our
\* voice_modenable cvar" (voice_status.h): nothing, 0 or 1.
ModEnableIsWhatWeSent == \A p \in Clients : m_bServerModEnable[p] \in {-1, 0, 1}

-----------------------------------------------------------------------------
(***************************************************************************)
(* Liveness.                                                               *)
(***************************************************************************)

\* The client in s plays, and rightly knows who plays in o.
Sees(s, o) ==
  /\ HasClient(s) /\ entity[s] /\ entity[o]
  /\ uniqueID[occupant[s]][o] = occupant[o]

Mutes(s, o) == Sees(s, o) /\ occupant[o] \in banned[occupant[s]]

VoiceOn(s) == HasClient(s) /\ voice_modenable[occupant[s]] = 1

\* A player who stays muted is eventually never heard, whatever vbans were
\* lost and whoever had either slot before.
MuteTakesEffect ==
  \A s, o \in Slots : <>[]Mutes(s, o) => <>[](o \notin listening[s])

\* "It is checked periodically, and the server is told to squelch or
\* unsquelch the appropriate players" (voice_status.h, m_ServerBannedPlayers):
\* the mask the server also filters text chat with follows the ban list.
ServerIsTold ==
  \A s, o \in Slots : <>[]Mutes(s, o) => <>[](o \in g_BanMasks[s])

\* The same, of a client that keeps voice_modenable on.
ServerIsToldWithVoiceOn ==
  \A s, o \in Slots :
    <>[](Mutes(s, o) /\ VoiceOn(s)) => <>[](o \in g_BanMasks[s])

\* A visible player who stays unmuted is eventually unmuted on the server: a
\* bit left by an earlier player of either slot does not stick.
UnmuteTakesEffect ==
  \A s, o \in Slots :
    <>[](Sees(s, o) /\ ~Mutes(s, o)) => <>[](o \notin g_BanMasks[s])

\* The state request of a new connection is answered: the server learns the
\* cvar of every client that stays.
StateRequestAnswered ==
  \A s \in Slots :
    HasClient(s) /\ entity[s] /\ g_bWantModEnable[s]
      ~> ~g_bWantModEnable[s] \/ ~entity[s]

\* "check server banned players once per second" (voice_status.cpp, Frame): a
\* clock that restarted on a new level does not stop the checks for good.
PollingResumes ==
  \A p \in Clients, s \in Slots :
    occupant[s] = p /\ clockBehind[p] ~> occupant[s] # p \/ ~clockBehind[p]

\* "If it's zero, then the server reports that the game rules are saying the
\* player can't hear anyone" (voice_gamemgr.cpp, g_PlayerModEnable).
ModDisabledIsReported ==
  \A s \in Slots :
    <>[](HasClient(s) /\ entity[s] /\ ~g_PlayerModEnable[s]) =>
      <>[](HasClient(s) /\ m_AudiblePlayers[occupant[s]] = {})
=============================================================================
