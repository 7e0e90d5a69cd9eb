--------------------------- MODULE VoiceMuteProofs ---------------------------
(***************************************************************************)
(* Proofs about VoiceMute for any number of slots, clients and bots, any   *)
(* outcome of the game rules and any channel bounds.                       *)
(***************************************************************************)
EXTENDS VoiceMute, TLAPS

\* What UpdateMasks sends is a sequence of messages.
LEMMA OutgoingType ==
  ASSUME NEW s \in Slots, NEW hears \in GameRules, TypeOK
  PROVE  /\ GameRulesMask(s, hears) \in SUBSET Slots
         /\ Outgoing(s, hears) \in Seq(Messages)
<1>1. GameRulesMask(s, hears) \in SUBSET Slots
  BY RulesAssumption DEF TypeOK, GameRulesMask
<1>2. VoiceMaskMsg(GameRulesMask(s, hears), g_BanMasks[s]) \in Messages
  BY <1>1 DEF TypeOK, Messages, VoiceMaskMsg
<1>3. ReqStateMsg \in Messages
  BY DEF Messages, ReqStateMsg
<1> QED
  BY <1>1, <1>2, <1>3 DEF Outgoing

\* UpdateServerState keeps the types of the three variables it assigns.
LEMMA UpdateServerStateType ==
  ASSUME TypeOK, NEW s \in Slots, HasClient(s), NEW bForce \in BOOLEAN,
         NEW bans, UpdateServerState(s, bForce, bans)
  PROVE  /\ m_bServerModEnable' \in [Clients -> {-1, 0, 1, PastEnd}]
         /\ toServer' \in [Slots -> Seq({0, 1})]
         /\ vban' \in [Slots -> Seq(SUBSET Slots)]
         /\ clockBehind' \in [Clients -> BOOLEAN]
<1> DEFINE p == occupant[s]
<1>1. p \in Clients /\ voice_modenable[p] \in {0, 1}
  BY DEF HasClient, TypeOK
<1>2. BanMask(p, bans) \in SUBSET Slots
  BY DEF BanMask
<1>3. /\ m_bServerModEnable' \in [Clients -> {-1, 0, 1, PastEnd}]
      /\ toServer' \in [Slots -> Seq({0, 1})]
  <2>1. CASE bForce \/ m_bServerModEnable[p] # voice_modenable[p]
    <3>1. /\ m_bServerModEnable' =
               [m_bServerModEnable EXCEPT ![p] = voice_modenable[p]]
          /\ toServer' = [toServer EXCEPT
                            ![s] = Append(toServer[s], voice_modenable[p])]
      BY <2>1 DEF UpdateServerState, SendModEnable
    <3>2. Append(toServer[s], voice_modenable[p]) \in Seq({0, 1})
      BY <1>1 DEF TypeOK
    <3> QED
      BY <1>1, <3>1, <3>2 DEF TypeOK
  <2>2. CASE ~(bForce \/ m_bServerModEnable[p] # voice_modenable[p])
    BY <2>2 DEF UpdateServerState, SendModEnable, TypeOK
  <2> QED
    BY <2>1, <2>2
<1>4. vban' \in [Slots -> Seq(SUBSET Slots)]
  <2>1. Append(vban[s], BanMask(p, bans)) \in Seq(SUBSET Slots)
    BY <1>2 DEF TypeOK
  <2>2. \/ vban' = [vban EXCEPT ![s] = Append(vban[s], BanMask(p, bans))]
        \/ vban' = vban
    BY DEF UpdateServerState, SendBans
  <2> QED
    BY <2>1, <2>2 DEF TypeOK
<1>5. clockBehind' \in [Clients -> BOOLEAN]
  BY DEF UpdateServerState, TypeOK
<1> QED
  BY <1>3, <1>4, <1>5

LEMMA InitType == Init => TypeOK
BY DEF Init, TypeOK, NoIDs

\* Steps of the client programs keep the types.
LEMMA ClientStepType ==
  ASSUME TypeOK, NEW s \in Slots,
         \/ Frame(s)
         \/ \E o \in Slots, b \in BOOLEAN : SetPlayerBlockedState(s, o, b)
         \/ HandleVoiceMaskMsg(s)
         \/ HandleReqStateMsg(s)
         \/ LearnPlayers(s)
  PROVE  TypeOK'
<1>1. CASE Frame(s)
  <2>1. /\ HasClient(s)
        /\ UpdateServerState(s, FALSE, banned[occupant[s]])
    BY <1>1 DEF Frame
  <2>2. UNCHANGED <<occupant, entity, listening, serverVars, banned, savedBans,
                    echoVars, voice_modenable, uniqueID, toClient>>
    BY <1>1 DEF Frame, engineVars
  <2> QED
    BY <2>1, <2>2, UpdateServerStateType DEF TypeOK, serverVars, echoVars
<1>2. CASE \E o \in Slots, b \in BOOLEAN : SetPlayerBlockedState(s, o, b)
  <2> PICK o \in Slots, b \in BOOLEAN : SetPlayerBlockedState(s, o, b)
    BY <1>2
  <2> DEFINE p == occupant[s]
             bans == IF b THEN banned[p] \cup {uniqueID[p][o]}
                          ELSE banned[p] \ {uniqueID[p][o]}
  <2>1. /\ HasClient(s)
        /\ uniqueID[p][o] # NoPlayer
        /\ banned' = [banned EXCEPT ![p] = bans]
        /\ UpdateServerState(s, FALSE, bans)
    BY DEF SetPlayerBlockedState, SetPlayerBan
  <2>2. UNCHANGED <<occupant, entity, listening, serverVars, savedBans,
                    echoVars, voice_modenable, uniqueID, toClient>>
    BY DEF SetPlayerBlockedState, engineVars
  <2>3. p \in Clients /\ uniqueID[p][o] \in Players
    BY <2>1 DEF TypeOK, HasClient
  <2>4. banned' \in [Clients -> SUBSET Players]
    BY <2>1, <2>3 DEF TypeOK
  <2>5. /\ m_bServerModEnable' \in [Clients -> {-1, 0, 1, PastEnd}]
        /\ toServer' \in [Slots -> Seq({0, 1})]
        /\ vban' \in [Slots -> Seq(SUBSET Slots)]
        /\ clockBehind' \in [Clients -> BOOLEAN]
    BY <2>1, UpdateServerStateType
  <2> QED
    BY <2>2, <2>4, <2>5 DEF TypeOK, serverVars, echoVars
<1>3. CASE HandleVoiceMaskMsg(s)
  <2> DEFINE msg == Head(toClient[s])
  <2>1. msg \in Messages /\ msg.type = "VoiceMask"
    BY <1>3 DEF HandleVoiceMaskMsg, TypeOK
  <2>2. msg.rules \in SUBSET Slots /\ msg.bans \in SUBSET Slots
    BY <2>1 DEF Messages
  <2>3. m_AudiblePlayers' \in [Clients -> SUBSET Slots]
    BY <1>3, <2>2 DEF HandleVoiceMaskMsg, TypeOK
  <2>4. m_ServerBannedPlayers' \in [Clients -> SUBSET Slots]
    BY <1>3, <2>2 DEF HandleVoiceMaskMsg, TypeOK
  <2>5. m_bServerModEnable' \in [Clients -> {-1, 0, 1, PastEnd}]
    BY <1>3 DEF HandleVoiceMaskMsg, TypeOK
  <2>6. toClient' \in [Slots -> Seq(Messages)]
    BY <1>3 DEF HandleVoiceMaskMsg, TypeOK
  <2> QED
    BY <1>3, <2>3, <2>4, <2>5, <2>6
    DEF HandleVoiceMaskMsg, TypeOK, engineVars, serverVars
<1>4. CASE HandleReqStateMsg(s)
  <2>1. /\ HasClient(s) /\ toClient[s] # <<>>
        /\ UpdateServerState(s, TRUE, banned[occupant[s]])
        /\ toClient' = [toClient EXCEPT ![s] = Tail(@)]
    BY <1>4 DEF HandleReqStateMsg
  <2>2. UNCHANGED <<occupant, entity, listening, serverVars, banned, savedBans,
                    echoVars, voice_modenable, uniqueID>>
    BY <1>4 DEF HandleReqStateMsg, engineVars
  <2>3. toClient' \in [Slots -> Seq(Messages)]
    BY <2>1 DEF TypeOK
  <2> QED
    BY <2>1, <2>2, <2>3, UpdateServerStateType DEF TypeOK, serverVars, echoVars
<1>5. CASE LearnPlayers(s)
  BY <1>5 DEF LearnPlayers, HasClient, TypeOK, engineVars, serverVars,
              echoVars, netVars
<1> QED
  BY <1>1, <1>2, <1>3, <1>4, <1>5

\* Steps of users and of the engine keep the types.
LEMMA ConnectionStepType ==
  ASSUME TypeOK, NEW s \in Slots,
         \/ \E p \in Players : ClientConnected(s, p)
         \/ ChangeLevel
         \/ PutInServer(s)
         \/ Disconnect(s)
         \/ LoseVban(s)
  PROVE  TypeOK'
<1> USE DEF TypeOK
<1>1. ASSUME NEW S \in SUBSET Slots, ForgetSent(S), AskModEnable(S)
      PROVE  /\ g_SentGameRulesMasks' \in [Slots -> SUBSET Slots]
             /\ g_SentBanMasks' \in [Slots -> SUBSET Slots]
             /\ g_bWantModEnable' \in [Slots -> BOOLEAN]
  BY <1>1 DEF ForgetSent, AskModEnable
<1>2. ASSUME NEW S \in SUBSET Slots, NewChannels(S)
      PROVE  /\ toClient' \in [Slots -> Seq(Messages)]
             /\ toServer' \in [Slots -> Seq({0, 1})]
             /\ vban' \in [Slots -> Seq(SUBSET Slots)]
  BY <1>2 DEF NewChannels
<1>3. ASSUME NEW P, ForgetPlayers(P)
      PROVE  uniqueID' \in [Clients -> [Slots -> Players \cup {NoPlayer}]]
  BY <1>3 DEF ForgetPlayers, NoIDs
<1>4. ASSUME NEW P, NewLevel(P)
      PROVE  /\ uniqueID' \in [Clients -> [Slots -> Players \cup {NoPlayer}]]
             /\ clockBehind' \in [Clients -> BOOLEAN]
             /\ UNCHANGED <<banned, savedBans, m_ServerBannedPlayers,
                            m_AudiblePlayers, m_bServerModEnable,
                            voice_modenable>>
  BY <1>3, <1>4 DEF NewLevel, echoVars
<1>5. CASE \E p \in Players : ClientConnected(s, p)
  <2> PICK p \in Players : ClientConnected(s, p)
    BY <1>5
  <2>1. occupant' \in [Slots -> Players \cup {NoPlayer}]
    BY DEF ClientConnected
  <2>2. /\ ForgetSent({s}) /\ AskModEnable({s}) /\ NewChannels({s})
        /\ NewLevel({p} \cap Clients)
        /\ UNCHANGED <<entity, listening, g_PlayerModEnable, g_BanMasks>>
    BY DEF ClientConnected
  <2> QED
    BY <1>1, <1>2, <1>4, <2>1, <2>2
<1>6. CASE ChangeLevel
  <2> DEFINE S == {t \in Slots : occupant[t] # NoPlayer}
  <2>1. /\ ForgetSent(S) /\ AskModEnable(S) /\ NewChannels(S)
        /\ NewLevel({p \in Clients : \E t \in S : occupant[t] = p})
        /\ entity' = [t \in Slots |-> FALSE]
        /\ UNCHANGED <<occupant, listening, g_PlayerModEnable, g_BanMasks>>
    BY <1>6 DEF ChangeLevel
  <2>2. entity' \in [Slots -> BOOLEAN]
    BY <2>1
  <2> QED
    BY <1>1, <1>2, <1>4, <2>1, <2>2
<1>7. CASE PutInServer(s)
  BY <1>7 DEF PutInServer, serverVars, clientVars, echoVars, netVars
<1>8. CASE Disconnect(s)
  <2>1. occupant' \in [Slots -> Players \cup {NoPlayer}]
    BY <1>8 DEF Disconnect
  <2>2. entity' \in [Slots -> BOOLEAN]
    BY <1>8 DEF Disconnect
  <2>3. /\ NewChannels({s}) /\ ForgetPlayers({occupant[s]})
        /\ UNCHANGED <<listening, serverVars, banned, savedBans, echoVars,
                       m_bServerModEnable, voice_modenable, clockBehind>>
    BY <1>8 DEF Disconnect
  <2> QED
    BY <1>2, <1>3, <2>1, <2>2, <2>3 DEF serverVars, echoVars
<1>9. CASE LoseVban(s)
  BY <1>9 DEF LoseVban, engineVars, serverVars, clientVars, echoVars
<1> QED
  BY <1>5, <1>6, <1>7, <1>8, <1>9

\* UpdateMasks keeps the types.
LEMMA UpdateMasksType == TypeOK /\ UpdateMasks => TypeOK'
<1> SUFFICES ASSUME TypeOK, UpdateMasks PROVE TypeOK'
  OBVIOUS
<1> PICK hears \in GameRules :
      /\ toClient' =
           [t \in Slots |-> IF entity[t] /\ HasClient(t)
                            THEN toClient[t] \o Outgoing(t, hears)
                            ELSE toClient[t]]
      /\ g_SentGameRulesMasks' =
           [t \in Slots |-> IF entity[t] /\ MasksChanged(t, hears)
                            THEN GameRulesMask(t, hears)
                            ELSE g_SentGameRulesMasks[t]]
      /\ g_SentBanMasks' =
           [t \in Slots |-> IF entity[t] /\ MasksChanged(t, hears)
                            THEN g_BanMasks[t]
                            ELSE g_SentBanMasks[t]]
      /\ listening' =
           [t \in Slots |-> IF entity[t] THEN Audible(t, hears)
                                         ELSE listening[t]]
  BY DEF UpdateMasks
<1>1. toClient' \in [Slots -> Seq(Messages)]
  <2>1. \A t \in Slots : /\ toClient[t] \in Seq(Messages)
                         /\ Outgoing(t, hears) \in Seq(Messages)
    BY OutgoingType DEF TypeOK
  <2>2. \A t \in Slots :
          toClient[t] \o Outgoing(t, hears) \in Seq(Messages)
    BY <2>1
  <2> QED
    BY <2>1, <2>2
<1>2. g_SentGameRulesMasks' \in [Slots -> SUBSET Slots]
  BY OutgoingType DEF TypeOK
<1>3. g_SentBanMasks' \in [Slots -> SUBSET Slots]
  BY DEF TypeOK
<1>4. listening' \in [Slots -> SUBSET Slots]
  BY OutgoingType DEF TypeOK, Audible
<1>5. UNCHANGED <<occupant, entity, g_PlayerModEnable, g_BanMasks,
                  g_bWantModEnable, clientVars, toServer, vban>>
  BY DEF UpdateMasks
<1> QED
  BY <1>1, <1>2, <1>3, <1>4, <1>5 DEF TypeOK, clientVars, echoVars

\* The commands of a client keep the types.
LEMMA ClientCommandType ==
  ASSUME TypeOK, NEW s \in Slots,
         ClientCommand_vban(s) \/ ClientCommand_VModEnable(s)
  PROVE  TypeOK'
<1>1. CASE ClientCommand_vban(s)
  BY <1>1 DEF ClientCommand_vban, TypeOK, engineVars, clientVars, echoVars
<1>2. CASE ClientCommand_VModEnable(s)
  <2>1. g_PlayerModEnable' \in [Slots -> BOOLEAN]
    BY <1>2 DEF ClientCommand_VModEnable, TypeOK
  <2>2. g_bWantModEnable' \in [Slots -> BOOLEAN]
    BY <1>2 DEF ClientCommand_VModEnable, TypeOK
  <2>3. toServer' \in [Slots -> Seq({0, 1})]
    BY <1>2 DEF ClientCommand_VModEnable, TypeOK
  <2> QED
    BY <1>2, <2>1, <2>2, <2>3
    DEF ClientCommand_VModEnable, TypeOK, engineVars, clientVars, echoVars
<1> QED
  BY <1>1, <1>2

\* Steps of a client program that involve no slot keep the types.
LEMMA ProgramStepType ==
  ASSUME TypeOK, NEW p \in Clients,
         \/ \E n \in {0, 1} : SetModEnable(p, n)
         \/ \E crash \in BOOLEAN : RestartGame(p, crash)
         \/ ClockCatchesUp(p)
  PROVE  TypeOK'
<1> USE DEF TypeOK, engineVars, serverVars, echoVars, netVars
<1>1. CASE \E n \in {0, 1} : SetModEnable(p, n)
  BY <1>1 DEF SetModEnable
<1>2. CASE \E crash \in BOOLEAN : RestartGame(p, crash)
  <2> PICK crash \in BOOLEAN : RestartGame(p, crash)
    BY <1>2
  <2>1. savedBans' \in [Clients -> SUBSET Players]
    BY DEF RestartGame, SaveState, LoadBans
  <2>2. banned' \in [Clients -> SUBSET Players]
    BY <2>1 DEF RestartGame, SaveState, LoadBans
  <2> QED
    BY <2>1, <2>2 DEF RestartGame, SaveState, LoadBans
<1>3. CASE ClockCatchesUp(p)
  BY <1>3 DEF ClockCatchesUp
<1> QED
  BY <1>1, <1>2, <1>3

LEMMA NextType == TypeOK /\ [Next]_vars => TypeOK'
<1> SUFFICES ASSUME TypeOK, [Next]_vars PROVE TypeOK'
  OBVIOUS
<1>1. CASE Environment
  <2>1. CASE \E s \in Slots, p \in Players : ClientConnected(s, p)
    BY <2>1, ConnectionStepType
  <2>2. CASE ChangeLevel
    <3>1. PICK s \in Slots : occupant[s] # NoPlayer
      BY <2>2 DEF ChangeLevel
    <3> QED
      BY <2>2, ConnectionStepType
  <2>3. CASE \E s \in Slots : Disconnect(s)
    BY <2>3, ConnectionStepType
  <2>4. CASE \E s, o \in Slots, b \in BOOLEAN : SetPlayerBlockedState(s, o, b)
    BY <2>4, ClientStepType
  <2>5. CASE \E p \in Clients, n \in {0, 1} : SetModEnable(p, n)
    BY <2>5, ProgramStepType
  <2>6. CASE \E p \in Clients, crash \in BOOLEAN : RestartGame(p, crash)
    BY <2>6, ProgramStepType
  <2> QED
    BY <1>1, <2>1, <2>2, <2>3, <2>4, <2>5, <2>6 DEF Environment
<1>2. CASE Protocol
  <2>1. CASE UpdateMasks
    BY <2>1, UpdateMasksType
  <2>2. ASSUME NEW s \in Slots,
               \/ Frame(s)
               \/ HandleVoiceMaskMsg(s)
               \/ HandleReqStateMsg(s)
               \/ LearnPlayers(s)
        PROVE  TypeOK'
    BY <2>2, ClientStepType
  <2>3. ASSUME NEW s \in Slots, PutInServer(s) \/ LoseVban(s)
        PROVE  TypeOK'
    BY <2>3, ConnectionStepType
  <2>4. ASSUME NEW s \in Slots,
               ClientCommand_vban(s) \/ ClientCommand_VModEnable(s)
        PROVE  TypeOK'
    BY <2>4, ClientCommandType
  <2>5. CASE \E p \in Clients : ClockCatchesUp(p)
    BY <2>5, ProgramStepType
  <2> QED
    BY <1>2, <2>1, <2>2, <2>3, <2>4, <2>5 DEF Protocol
<1>3. CASE UNCHANGED vars
  BY <1>3 DEF vars, engineVars, serverVars, clientVars, echoVars, netVars,
              TypeOK
<1> QED
  BY <1>1, <1>2, <1>3 DEF Next

\* Every variable keeps its type: masks name slots only, and a ban list never
\* holds the identity of an empty slot.
THEOREM TypeCorrect == Spec => []TypeOK
BY InitType, NextType, PTL DEF Spec

-----------------------------------------------------------------------------
(***************************************************************************)
(* What the client believes.                                               *)
(***************************************************************************)

\* Receiving the oldest message moves the masks one place forward.
LEMMA TailMasks ==
  ASSUME NEW q \in Seq(Messages), q # <<>>
  PROVE  /\ \A i \in Masks(Tail(q)) : /\ i \in Nat /\ i + 1 \in Masks(q)
                                     /\ Tail(q)[i] = q[i + 1]
         /\ \A j \in Masks(q) : j = 1 \/ j - 1 \in Masks(Tail(q))
         /\ \A j \in Masks(q) : j \in Nat
BY DEF Masks

\* Sending something else leaves the masks where they are.
LEMMA AppendOther ==
  ASSUME NEW q \in Seq(Messages), NEW out \in Seq(Messages), Masks(out) = {}
  PROVE  /\ Masks(q \o out) = Masks(q)
         /\ \A i \in Masks(q) : (q \o out)[i] = q[i]
<1>1. DOMAIN q = 1..Len(q) /\ DOMAIN (q \o out) = 1..(Len(q) + Len(out))
  OBVIOUS
<1>2. \A i \in DOMAIN q : (q \o out)[i] = q[i]
  OBVIOUS
<1>3. \A i \in DOMAIN (q \o out) : i \in DOMAIN q \/
        (i - Len(q) \in DOMAIN out /\ (q \o out)[i] = out[i - Len(q)])
  OBVIOUS
<1> QED
  BY <1>1, <1>2, <1>3 DEF Masks

\* A mask sent last is the newest one.
LEMMA AppendMask ==
  ASSUME NEW q \in Seq(Messages), NEW out \in Seq(Messages), out # <<>>,
         out[Len(out)].type = "VoiceMask"
  PROVE  /\ Len(q \o out) \in Masks(q \o out)
         /\ (q \o out)[Len(q \o out)] = out[Len(out)]
         /\ \A i \in Masks(q \o out) : i \in Nat /\ i <= Len(q \o out)
<1>1. /\ Len(q \o out) = Len(q) + Len(out)
      /\ DOMAIN (q \o out) = 1..(Len(q) + Len(out))
      /\ Len(out) \in Nat \ {0} /\ Len(q) \in Nat
  OBVIOUS
<1>2. (q \o out)[Len(q) + Len(out)] = out[Len(out)]
  BY <1>1
<1> QED
  BY <1>1, <1>2 DEF Masks

\* Most steps touch neither what is sent nor what is held.
LEMMA EchoStutter ==
  ASSUME EchoMatchesSent,
         UNCHANGED <<occupant, toClient, g_SentGameRulesMasks, g_SentBanMasks,
                     m_AudiblePlayers, m_ServerBannedPlayers>>
  PROVE  EchoMatchesSent'
BY DEF EchoMatchesSent, NewestIsSent, HeldIsSent, InFlight, Told, HasClient

\* The server's messages are received in order, one at a time.
LEMMA EchoReceive ==
  ASSUME TypeOK, OneSlotEach, EchoMatchesSent, NEW s \in Slots,
         HandleVoiceMaskMsg(s) \/ HandleReqStateMsg(s)
  PROVE  EchoMatchesSent'
<1> DEFINE p == occupant[s]
           q == toClient[s]
<1>1. /\ p \in Clients /\ q \in Seq(Messages) /\ q # <<>>
      /\ toClient' = [toClient EXCEPT ![s] = Tail(q)]
      /\ UNCHANGED <<occupant, g_SentGameRulesMasks, g_SentBanMasks>>
  BY DEF HandleVoiceMaskMsg, HandleReqStateMsg, HasClient, TypeOK, engineVars,
         serverVars
<1>2. toClient'[s] = Tail(q) /\ NewestIsSent(s) /\ HeldIsSent(s)
  BY <1>1 DEF TypeOK, EchoMatchesSent, HasClient
<1>3. NewestIsSent(s)'
  <2> SUFFICES ASSUME NEW i \in Masks(Tail(q)),
                      \A j \in Masks(Tail(q)) : j <= i
               PROVE  Tail(q)[i] = VoiceMaskMsg(g_SentGameRulesMasks[s],
                                                g_SentBanMasks[s])
    BY <1>1, <1>2 DEF NewestIsSent, InFlight
  <2>1. i \in Nat /\ i + 1 \in Masks(q) /\ Tail(q)[i] = q[i + 1]
    BY <1>1, TailMasks
  <2>2. ASSUME NEW j \in Masks(q) PROVE j <= i + 1
    <3>1. j \in Nat /\ (j = 1 \/ j - 1 \in Masks(Tail(q)))
      BY <1>1, TailMasks
    <3>2. CASE j - 1 \in Masks(Tail(q))
      BY <2>1, <3>1, <3>2
    <3> QED
      BY <2>1, <3>1, <3>2
  <2> QED
    BY <1>2, <2>1, <2>2 DEF NewestIsSent, InFlight
<1>4. HeldIsSent(s)'
  <2> SUFFICES ASSUME Masks(Tail(q)) = {}, Told(s)
               PROVE  /\ m_AudiblePlayers'[p] = g_SentGameRulesMasks[s]
                      /\ m_ServerBannedPlayers'[p] = g_SentBanMasks[s]
    BY <1>1, <1>2 DEF HeldIsSent, InFlight, Told
  <2>1. \A j \in Masks(q) : j = 1
    BY <1>1, TailMasks
  <2>2. q[1] = Head(q) /\ 1 \in DOMAIN q
    BY <1>1
  <2>3. CASE HandleVoiceMaskMsg(s)
    <3>1. 1 \in Masks(q)
      BY <2>2, <2>3 DEF HandleVoiceMaskMsg, Masks
    <3>2. Head(q) = VoiceMaskMsg(g_SentGameRulesMasks[s], g_SentBanMasks[s])
      BY <1>2, <2>1, <2>2, <3>1 DEF NewestIsSent, InFlight
    <3>3. /\ Head(q).rules = g_SentGameRulesMasks[s]
          /\ Head(q).bans = g_SentBanMasks[s]
      BY <3>2 DEF VoiceMaskMsg
    <3> QED
      BY <1>1, <2>3, <3>3 DEF HandleVoiceMaskMsg, TypeOK
  <2>4. CASE HandleReqStateMsg(s)
    <3>1. Masks(q) = {}
      BY <2>1, <2>2, <2>4 DEF HandleReqStateMsg, Masks
    <3> QED
      BY <1>2, <2>4, <3>1 DEF HandleReqStateMsg, echoVars, HeldIsSent, InFlight
  <2> QED
    BY <2>3, <2>4
<1>5. ASSUME NEW t \in Slots, t # s, HasClient(t)
      PROVE  NewestIsSent(t)' /\ HeldIsSent(t)'
  <2>1. occupant[t] # p
    BY <1>1, <1>5, PlayersAssumption DEF OneSlotEach, Players
  <2>2. toClient'[t] = toClient[t]
    BY <1>1, <1>5 DEF TypeOK
  <2>3. /\ m_AudiblePlayers'[occupant[t]] = m_AudiblePlayers[occupant[t]]
        /\ m_ServerBannedPlayers'[occupant[t]] =
             m_ServerBannedPlayers[occupant[t]]
    <3>1. occupant[t] \in Clients
      BY <1>5 DEF HasClient
    <3>2. CASE HandleVoiceMaskMsg(s)
      <4>1. PICK rules, bans :
              /\ m_AudiblePlayers' = [m_AudiblePlayers EXCEPT ![p] = rules]
              /\ m_ServerBannedPlayers' =
                   [m_ServerBannedPlayers EXCEPT ![p] = bans]
        BY <3>2 DEF HandleVoiceMaskMsg
      <4> QED
        BY <2>1, <3>1, <4>1 DEF TypeOK
    <3>3. CASE HandleReqStateMsg(s)
      BY <3>3 DEF HandleReqStateMsg, echoVars
    <3> QED
      BY <3>2, <3>3
  <2> QED
    BY <1>1, <1>5, <2>2, <2>3
    DEF EchoMatchesSent, NewestIsSent, HeldIsSent, InFlight, Told
<1> QED
  BY <1>1, <1>3, <1>4, <1>5 DEF EchoMatchesSent, HasClient

\* A new connection starts with nothing remembered and nothing in flight.
LEMMA EchoConnect ==
  ASSUME TypeOK, OneSlotEach, EchoMatchesSent,
         \/ \E s \in Slots, p \in Players : ClientConnected(s, p)
         \/ ChangeLevel
  PROVE  EchoMatchesSent'
<1>1. PICK S \in SUBSET Slots :
        /\ ForgetSent(S) /\ NewChannels(S)
        /\ \A t \in Slots \ S : occupant'[t] = occupant[t]
        /\ \A t \in Slots \ S : occupant[t] \in Clients =>
             HasClient(t)
        /\ UNCHANGED echoVars
  <2>1. CASE \E s \in Slots, p \in Players : ClientConnected(s, p)
    <3> PICK s \in Slots, p \in Players : ClientConnected(s, p)
      BY <2>1
    <3> WITNESS {s} \in SUBSET Slots
    <3> QED
      BY DEF ClientConnected, NewLevel, TypeOK, HasClient
  <2>2. CASE ChangeLevel
    <3> DEFINE S == {s \in Slots : occupant[s] # NoPlayer}
    <3> WITNESS S \in SUBSET Slots
    <3> QED
      BY <2>2 DEF ChangeLevel, NewLevel, HasClient
  <2> QED
    BY <2>1, <2>2
<1>2. ASSUME NEW t \in S
      PROVE  NewestIsSent(t)' /\ HeldIsSent(t)'
  BY <1>1, <1>2 DEF ForgetSent, NewChannels, NewestIsSent, HeldIsSent, InFlight,
                    Masks, Told
<1>3. ASSUME NEW t \in Slots \ S, HasClient(t)'
      PROVE  NewestIsSent(t)' /\ HeldIsSent(t)'
  <2>1. NewestIsSent(t) /\ HeldIsSent(t)
    BY <1>1, <1>3 DEF EchoMatchesSent, HasClient
  <2> QED
    BY <1>1, <2>1 DEF ForgetSent, NewChannels, NewestIsSent, HeldIsSent,
                      InFlight, Told, echoVars
<1> QED
  BY <1>2, <1>3 DEF EchoMatchesSent

\* A player that leaves, or a program that restarts, is in no slot.
LEMMA EchoLeave ==
  ASSUME TypeOK, EchoMatchesSent,
         \/ \E s \in Slots : Disconnect(s)
         \/ \E p \in Clients, crash \in BOOLEAN : RestartGame(p, crash)
  PROVE  EchoMatchesSent'
<1>1. CASE \E s \in Slots : Disconnect(s)
  <2> PICK s \in Slots : Disconnect(s)
    BY <1>1
  <2> SUFFICES ASSUME NEW t \in Slots, HasClient(t)'
               PROVE  NewestIsSent(t)' /\ HeldIsSent(t)'
    BY DEF EchoMatchesSent
  <2>1. t # s /\ occupant'[t] = occupant[t]
    BY PlayersAssumption DEF Disconnect, HasClient, TypeOK, Players
  <2>2. NewestIsSent(t) /\ HeldIsSent(t)
    BY <2>1 DEF EchoMatchesSent, HasClient
  <2> QED
    BY <2>1, <2>2 DEF Disconnect, NewChannels, serverVars, echoVars,
                      NewestIsSent, HeldIsSent, InFlight, Told
<1>2. CASE \E p \in Clients, crash \in BOOLEAN : RestartGame(p, crash)
  <2> PICK p \in Clients, crash \in BOOLEAN : RestartGame(p, crash)
    BY <1>2
  <2>1. UNCHANGED <<occupant, toClient, g_SentGameRulesMasks, g_SentBanMasks>>
    BY DEF RestartGame, engineVars, serverVars, netVars
  <2>2. ASSUME NEW t \in Slots, HasClient(t)
        PROVE  /\ m_AudiblePlayers'[occupant[t]] = m_AudiblePlayers[occupant[t]]
               /\ m_ServerBannedPlayers'[occupant[t]] =
                    m_ServerBannedPlayers[occupant[t]]
    <3>1. occupant[t] \in Clients /\ occupant[t] # p
      BY <2>2 DEF RestartGame, HasClient
    <3>2. /\ m_AudiblePlayers' = [m_AudiblePlayers EXCEPT ![p] = {}]
          /\ m_ServerBannedPlayers' = [m_ServerBannedPlayers EXCEPT ![p] = {}]
      BY DEF RestartGame
    <3> QED
      BY <3>1, <3>2 DEF TypeOK
  <2> QED
    BY <2>1, <2>2 DEF EchoMatchesSent, NewestIsSent, HeldIsSent, InFlight,
                      Told, HasClient
<1> QED
  BY <1>1, <1>2

\* UpdateMasks records exactly what it sends.
LEMMA EchoUpdate ==
  ASSUME TypeOK, EchoMatchesSent, UpdateMasks
  PROVE  EchoMatchesSent'
<1> PICK hears \in GameRules :
      /\ toClient' =
           [t \in Slots |-> IF entity[t] /\ HasClient(t)
                            THEN toClient[t] \o Outgoing(t, hears)
                            ELSE toClient[t]]
      /\ g_SentGameRulesMasks' =
           [t \in Slots |-> IF entity[t] /\ MasksChanged(t, hears)
                            THEN GameRulesMask(t, hears)
                            ELSE g_SentGameRulesMasks[t]]
      /\ g_SentBanMasks' =
           [t \in Slots |-> IF entity[t] /\ MasksChanged(t, hears)
                            THEN g_BanMasks[t]
                            ELSE g_SentBanMasks[t]]
  BY DEF UpdateMasks
<1>1. UNCHANGED <<occupant, m_AudiblePlayers, m_ServerBannedPlayers>>
  BY DEF UpdateMasks, clientVars, echoVars
<1> SUFFICES ASSUME NEW s \in Slots, HasClient(s)
             PROVE  NewestIsSent(s)' /\ HeldIsSent(s)'
  BY <1>1 DEF EchoMatchesSent, HasClient
<1> DEFINE q == toClient[s]
           out == Outgoing(s, hears)
           msg == VoiceMaskMsg(GameRulesMask(s, hears), g_BanMasks[s])
<1>2. q \in Seq(Messages) /\ out \in Seq(Messages)
  BY OutgoingType DEF TypeOK
<1>3. NewestIsSent(s) /\ HeldIsSent(s)
  BY DEF EchoMatchesSent
<1>4. CASE entity[s] /\ MasksChanged(s, hears)
  <2>1. /\ toClient'[s] = q \o out
        /\ g_SentGameRulesMasks'[s] = GameRulesMask(s, hears)
        /\ g_SentBanMasks'[s] = g_BanMasks[s]
    BY <1>4
  <2>2. out # <<>> /\ out[Len(out)] = msg
    BY <1>4 DEF Outgoing
  <2>3. msg.type = "VoiceMask"
    BY DEF VoiceMaskMsg
  <2>4. /\ Len(q \o out) \in Masks(q \o out)
        /\ (q \o out)[Len(q \o out)] = msg
        /\ \A i \in Masks(q \o out) : i \in Nat /\ i <= Len(q \o out)
    BY <1>2, <2>2, <2>3, AppendMask
  <2>5. HeldIsSent(s)'
    BY <2>1, <2>4 DEF HeldIsSent, InFlight
  <2>6. NewestIsSent(s)'
    <3> SUFFICES ASSUME NEW i \in Masks(q \o out),
                        \A j \in Masks(q \o out) : j <= i
                 PROVE  (q \o out)[i] = msg
      BY <2>1 DEF NewestIsSent, InFlight
    <3>1. i = Len(q \o out)
      BY <2>4
    <3> QED
      BY <2>4, <3>1
  <2> QED
    BY <2>5, <2>6
<1>5. CASE ~(entity[s] /\ MasksChanged(s, hears))
  <2>1. /\ g_SentGameRulesMasks'[s] = g_SentGameRulesMasks[s]
        /\ g_SentBanMasks'[s] = g_SentBanMasks[s]
    BY <1>5
  <2>2. /\ Masks(toClient'[s]) = Masks(q)
        /\ \A i \in Masks(q) : toClient'[s][i] = q[i]
    <3>1. CASE entity[s]
      <4>1. out = <<>> \/ out = <<ReqStateMsg>>
        BY <1>5, <3>1 DEF Outgoing
      <4>2. Masks(out) = {}
        BY <4>1 DEF Masks, ReqStateMsg
      <4> QED
        BY <1>2, <3>1, <4>2, AppendOther
    <3>2. CASE ~entity[s]
      BY <3>2
    <3> QED
      BY <3>1, <3>2
  <2> QED
    BY <1>1, <1>3, <2>1, <2>2 DEF NewestIsSent, HeldIsSent, InFlight, Told
<1> QED
  BY <1>4, <1>5

LEMMA ListeningStep ==
  ASSUME TypeOK, ListeningMatchesSent, [Next]_vars
  PROVE  ListeningMatchesSent'
<1>1. CASE UNCHANGED <<listening, g_SentGameRulesMasks, g_SentBanMasks>>
  BY <1>1 DEF ListeningMatchesSent, Told
<1>2. CASE \E S \in SUBSET Slots : ForgetSent(S) /\ UNCHANGED listening
  BY <1>2 DEF ListeningMatchesSent, Told, ForgetSent
<1>3. CASE UpdateMasks
  <2> PICK hears \in GameRules :
      /\ g_SentGameRulesMasks' =
           [t \in Slots |-> IF entity[t] /\ MasksChanged(t, hears)
                            THEN GameRulesMask(t, hears)
                            ELSE g_SentGameRulesMasks[t]]
      /\ g_SentBanMasks' =
           [t \in Slots |-> IF entity[t] /\ MasksChanged(t, hears)
                            THEN g_BanMasks[t]
                            ELSE g_SentBanMasks[t]]
      /\ listening' =
           [t \in Slots |-> IF entity[t] THEN Audible(t, hears)
                                         ELSE listening[t]]
    BY <1>3 DEF UpdateMasks
  <2> SUFFICES ASSUME NEW t \in Slots, Told(t)'
               PROVE  listening'[t] =
                        g_SentGameRulesMasks'[t] \ g_SentBanMasks'[t]
    BY DEF ListeningMatchesSent
  <2>1. CASE entity[t] /\ MasksChanged(t, hears)
    BY <2>1 DEF Audible
  <2>2. CASE entity[t] /\ ~MasksChanged(t, hears)
    BY <2>2 DEF Audible, MasksChanged
  <2>3. CASE ~entity[t]
    BY <2>3 DEF ListeningMatchesSent, Told
  <2> QED
    BY <2>1, <2>2, <2>3
<1>4. CASE \E s \in Slots, p \in Players : ClientConnected(s, p)
  BY <1>2, <1>4 DEF ClientConnected
<1>5. CASE ChangeLevel
  BY <1>2, <1>5 DEF ChangeLevel
<1>6. CASE UNCHANGED vars
  BY <1>1, <1>6 DEF vars, engineVars, serverVars
<1>7. CASE \E s \in Slots :
             \/ Disconnect(s)
             \/ \E o \in Slots, b \in BOOLEAN : SetPlayerBlockedState(s, o, b)
             \/ Frame(s) \/ HandleVoiceMaskMsg(s) \/ HandleReqStateMsg(s)
             \/ LearnPlayers(s) \/ PutInServer(s) \/ LoseVban(s)
             \/ ClientCommand_vban(s) \/ ClientCommand_VModEnable(s)
  BY <1>1, <1>7
  DEF Disconnect, SetPlayerBlockedState, Frame, HandleVoiceMaskMsg,
      HandleReqStateMsg, LearnPlayers, PutInServer, LoseVban,
      ClientCommand_vban, ClientCommand_VModEnable, engineVars, serverVars
<1>8. CASE \E p \in Clients :
             \/ \E n \in {0, 1} : SetModEnable(p, n)
             \/ \E crash \in BOOLEAN : RestartGame(p, crash)
             \/ ClockCatchesUp(p)
  BY <1>1, <1>8
  DEF SetModEnable, RestartGame, ClockCatchesUp, engineVars, serverVars
<1> QED
  BY <1>3, <1>4, <1>5, <1>6, <1>7, <1>8 DEF Next, Environment, Protocol

LEMMA EchoStep ==
  ASSUME TypeOK, OneSlotEach, EchoMatchesSent, [Next]_vars
  PROVE  EchoMatchesSent'
<1>1. CASE UNCHANGED vars
  BY <1>1, EchoStutter
  DEF vars, engineVars, serverVars, clientVars, echoVars, netVars
<1>2. CASE \E s \in Slots :
             \/ \E o \in Slots, b \in BOOLEAN : SetPlayerBlockedState(s, o, b)
             \/ Frame(s) \/ LearnPlayers(s) \/ PutInServer(s) \/ LoseVban(s)
             \/ ClientCommand_vban(s) \/ ClientCommand_VModEnable(s)
  BY <1>2, EchoStutter
  DEF SetPlayerBlockedState, Frame, LearnPlayers, PutInServer, LoseVban,
      ClientCommand_vban, ClientCommand_VModEnable, engineVars, serverVars,
      clientVars, echoVars, netVars
<1>3. CASE \E p \in Clients :
             (\E n \in {0, 1} : SetModEnable(p, n)) \/ ClockCatchesUp(p)
  BY <1>3, EchoStutter
  DEF SetModEnable, ClockCatchesUp, engineVars, serverVars, echoVars, netVars
<1>4. CASE \E s \in Slots : HandleVoiceMaskMsg(s) \/ HandleReqStateMsg(s)
  BY <1>4, EchoReceive
<1>5. CASE \/ \E s \in Slots, p \in Players : ClientConnected(s, p)
           \/ ChangeLevel
  BY <1>5, EchoConnect
<1>6. CASE \/ \E s \in Slots : Disconnect(s)
           \/ \E p \in Clients, crash \in BOOLEAN : RestartGame(p, crash)
  BY <1>6, EchoLeave
<1>7. CASE UpdateMasks
  BY <1>7, EchoUpdate
<1> QED
  BY <1>1, <1>2, <1>3, <1>4, <1>5, <1>6, <1>7 DEF Next, Environment, Protocol

LEMMA OneSlotStep ==
  ASSUME TypeOK, OneSlotEach, [Next]_vars
  PROVE  OneSlotEach'
<1>1. CASE UNCHANGED occupant
  BY <1>1 DEF OneSlotEach
<1>2. CASE \E s \in Slots, p \in Players : ClientConnected(s, p)
  BY <1>2 DEF ClientConnected, OneSlotEach, TypeOK
<1>3. CASE \E s \in Slots : Disconnect(s)
  BY <1>3 DEF Disconnect, OneSlotEach, TypeOK
<1>4. CASE \/ UNCHANGED vars
           \/ ChangeLevel
           \/ UpdateMasks
           \/ \E s \in Slots :
                \/ \E o \in Slots, b \in BOOLEAN :
                     SetPlayerBlockedState(s, o, b)
                \/ Frame(s) \/ HandleVoiceMaskMsg(s) \/ HandleReqStateMsg(s)
                \/ LearnPlayers(s) \/ PutInServer(s) \/ LoseVban(s)
                \/ ClientCommand_vban(s) \/ ClientCommand_VModEnable(s)
           \/ \E p \in Clients :
                \/ \E n \in {0, 1} : SetModEnable(p, n)
                \/ \E crash \in BOOLEAN : RestartGame(p, crash)
                \/ ClockCatchesUp(p)
  BY <1>1, <1>4
  DEF vars, ChangeLevel, UpdateMasks, SetPlayerBlockedState, Frame,
      HandleVoiceMaskMsg, HandleReqStateMsg, LearnPlayers, PutInServer,
      LoseVban, ClientCommand_vban, ClientCommand_VModEnable, SetModEnable,
      RestartGame, ClockCatchesUp, engineVars
<1> QED
  BY <1>2, <1>3, <1>4 DEF Next, Environment, Protocol

LEMMA InitBelief == Init => BeliefInv
<1> SUFFICES ASSUME Init PROVE BeliefInv
  OBVIOUS
<1>1. TypeOK
  BY InitType
<1>2. OneSlotEach /\ ListeningMatchesSent
  BY DEF Init, OneSlotEach, ListeningMatchesSent, Told
<1>3. EchoMatchesSent
  BY PlayersAssumption DEF Init, EchoMatchesSent, HasClient, Players
<1> QED
  BY <1>1, <1>2, <1>3 DEF BeliefInv

\* Initially and after every step, the newest mask on its way to a client, or
\* the one it holds, is the one the server remembers and acts on.
THEOREM BeliefInductive == Spec => []BeliefInv
<1>1. BeliefInv /\ [Next]_vars => BeliefInv'
  BY NextType, OneSlotStep, EchoStep, ListeningStep DEF BeliefInv
<1> QED
  BY InitBelief, <1>1, PTL DEF Spec

\* What UpdateMasks remembers having sent is what the client has, or will have
\* once its messages have arrived.
THEOREM EchoCorrect == Spec => []EchoMatchesSent
  BY BeliefInductive, PTL DEF BeliefInv

\* The engine relays what the masks remembered as sent allow.
THEOREM ListeningCorrect == Spec => []ListeningMatchesSent
  BY BeliefInductive, PTL DEF BeliefInv

\* A client that was told and has no VoiceMask in flight is sent exactly the
\* voices its own two masks say it is.
THEOREM BeliefCorrect == Spec => []ClientBeliefIsTrue
<1>1. BeliefInv => ClientBeliefIsTrue
  BY DEF BeliefInv, EchoMatchesSent, HeldIsSent, ListeningMatchesSent,
         ClientBeliefIsTrue
<1> QED
  BY BeliefInductive, <1>1, PTL
=============================================================================
