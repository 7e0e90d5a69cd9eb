# A verification project for cs16-client

The repository is a Counter-Strike 1.6 client library for the Xash3D engine:
about 3,000 files, most of them vendored. This directory holds TLA+ modules of
the parts whose control is hard to test, TLC configurations that check them on
small instances, and proofs, checked by TLAPS, that hold for every instance.

Six parts are modelled: the **voice mute protocol** between client and game
server (section 2), the **game menus** of the VGUI2 viewport (3), the **buy menu
wizard** inside two of them (4), **weapon prediction** with its replay of
commands (5), the **input path** from keys through weapon selection and the
text menu to a command (6), and **player movement**: how a player ducks, jumps
and swims (7). Section 8 says what is proved, 9 what is not modelled, 10 what is
planned.

## 1. Inventory

| component | code | state it keeps | operations | what is hard |
|---|---|---|---|---|
| Voice mute protocol | `game_shared/voice_status.cpp`, `voice_gamemgr.cpp`, `voice_banmgr.cpp` | ban list, masks believed and sent, per-slot masks of the server | poll, mute, `vban`, `VModEnable`, `VoiceMask`, `ReqState`, `UpdateMasks` | lost and reordered commands, reused slots, restarts, a clock that jumps back |
| VGUI2 viewport | `cl_dll/vgui2/` | visible panels, background, active and last active panel | `ShowPanel`, `HideAllVGUIMenu`, `ShowBackGround`, `OnThink`, `VidInit` | methods that re-enter each other, two paths around the guard, messages in any order |
| Buy menu wizard | `cl_dll/vgui2/game_controls/buymenu.cpp`, `buysubmenu.cpp`, `csmoe/BuyMenu/`, `vgui_controls/WizardPanel.cpp` | current page, history, the submenus of each page, next page | `Run`, `SetupNextSubPanel`, `GotoNextSubPanel`, `ActivateMenu`, `ResetMenuState`, `VidInit` | pages created, cached and deleted while bare pointers to them are kept |
| HUD menu | `cl_dll/menu.cpp` | `m_fMenuDisplayed`, deferred menu, text menu | `VGUIMenu`, `ShowMenu`, slot keys, `ResetHUD`, `InitHUD` | a menu deferred until another panel closes, a text that comes in parts |
| Weapon prediction | `cl_dll/cs_wpn/cs_weapons.cpp`, `dlls/wpn_shared/`, `cl_dll/com_weapons.cpp`, `cl_dll/entity.cpp` | clip, ammo, timers of each weapon; state hidden in the weapon objects | `HUD_WeaponsPostThink`, `ItemPostFrame`, reloads, bursts, weapon switch | replay of unacknowledged commands from server state, two copies of the same code that differ, counters at zero |
| Input buttons | `cl_dll/input.cpp`, `cl_dll/input/`, `hud_update.cpp` | two keys and three state bits per button | `KeyDown`, `KeyUp`, `CL_KeyState`, `CL_ButtonBits`, `CL_ResetButtonBits` | two keys on one button, impulses sampled once, a click used up by the HUD |
| Weapon selection | `cl_dll/ammo.cpp`, `ammohistory.h` | rows of carried weapons, highlighted one, ammo, `g_weaponselect` | `SelectSlot`, `invnext`, `invprev`, `Think`, messages that close the selection | a start of scrolling that outlives the life, slots scanned from the middle |
| HUD text and messages | `message.cpp`, `text_message.cpp`, `saytext.cpp`, `death.cpp`, `hud_msg.cpp` | a few rings of lines | one message, one assignment | mostly formatting |
| HUD core and elements | `hud.cpp`, `hud_redraw.cpp`, `hud/` | what the last message said | draw | little control |
| Spectator | `hud_spectator.cpp`, `hud/spectator_gui.cpp` | mode, target | mode and target changes | a target that leaves |
| Player movement | `pm_shared/` | position, box, duck and jump flags and timers, `oldbuttons` | `PM_PlayerMove`: `PM_Duck`, `PM_UnDuck`, `PM_Jump`, ladders, water | three records of one duck, an origin that moves with the box, a button remembered by hand |
| Events, view, models, VGUI2 runtime, main menu, build | `cl_dll/events`, `view.cpp`, `vgui2_support/`, `mainui_cpp/`, `android/` | drawing, sound, widgets | | no protocol state |
| Vendored projects | `3rdparty/`, `SourceSDK/`, `third_party/` | | | outside this repository's own logic |

How they interact. The engine calls the client once per frame
(`HUD_Frame`, `HUD_Redraw`, `CL_CreateMove`, `HUD_PostRunCmd`), delivers the
server's messages between frames in order, and runs console commands; the
client runs on one thread. So inside the client the interleaving is that of
callbacks, not threads: the viewport is called from messages, commands, clicks
and its own `OnThink`, and one call re-enters others. The voice protocol is
distributed: client and server run in different programs, and the messages
between them are in flight.

- A `VGUIMenu` message goes to `CHudMenu`, which asks the viewport for a panel
  or waits for the MOTD to close; the panels close themselves through the
  viewport, and `CClientMOTD::Close` calls back into `CHudMenu`.
- `CL_CreateMove` asks the viewport whether to mask the attack buttons;
  `WeaponsResource::SelectSlot` asks `CHudMenu` whether slot keys are its own.
- `CHud::UpdateClientData` samples the buttons, lets `CHudAmmo::Think` use up a
  click, and strips it from the button before `CL_CreateMove` samples again. A
  chosen weapon goes to the server as a string and to the prediction in the
  command; `HUD_PostRunCmd` runs the command on the client's copy of the weapon.
- The scoreboard calls `CVoiceStatus::SetPlayerBlockedState`; the server's
  masks end in the engine's listening table and in the chat filter.

The hazards found in this code are listed in `PROJECT.json`, each at its line.

## 2. The voice mute protocol

`VoiceMute.tla` models both programs and what is between them.

| in the module | in the code |
|---|---|
| `banned`, `savedBans` | `CVoiceStatus::m_BanMgr` and its file |
| `m_ServerBannedPlayers`, `m_AudiblePlayers`, `m_bServerModEnable` | the same members of `CVoiceStatus` |
| `clockBehind` | `GetClientTime()` restarted below `m_LastUpdateServerState` |
| `g_BanMasks`, `g_PlayerModEnable`, `g_SentGameRulesMasks`, `g_SentBanMasks`, `g_bWantModEnable` | the globals of `voice_gamemgr.cpp`, indexed by slot |
| `listening` | the engine's table, written by `Voice_SetClientListening` |
| `occupant`, `entity`, `uniqueID` | engine: who is connected, who has an entity, what userinfo the client knows |
| `toClient`, `toServer` | reliable channel, in order |
| `vban` | `pfnServerCmdUnreliable`: may be lost, may overtake `toServer` |

Actions are the handlers: `Frame`, `SetPlayerBlockedState`,
`HandleVoiceMaskMsg`, `HandleReqStateMsg`, `ClientConnected`,
`ClientCommand_vban`, `ClientCommand_VModEnable`, `UpdateMasks`, and the
environment: `ChangeLevel`, `Disconnect`, `PutInServer`, `LearnPlayers`,
`RestartGame` (after a clean exit or a crash), `LoseVban`, `ClockCatchesUp`.
Server state is indexed by slot and survives the slot's occupant; client state
is indexed by player and survives the server. That is where the difficulty is.

A 32-bit mask is the set of its bits. `HandleVoiceMaskMsg` reads a byte that
`UpdateMasks` never writes; `PastEnd` is the value this gives, 255. The game
rules (`CanPlayerHearPlayer`) are any function of the set `GameRules`, chosen
anew in every `UpdateMasks`. Not modelled: the drawing of speaker icons, the
clock's 1 s and 0.3 s (a poll may come at any time), `voice_clientdebug`.

Runs (`MCVoiceMute.tla`: two slots, one client, one bot, in `voice` a second bot,
channels of two messages; the environment takes at most `MaxEvents = 2` steps,
the protocol any number). The hard cases need a long history, so a run has
several starts: an empty server (`Init`), a settled game (`Settled`), the same
with the bot in slot 2 muted (`Muted`), a client whose program then crashed and
lost the mute (`Crashed`), and a client that arrives with the masks of another
server (`Away`). `voice` starts from all five, 81,859 states:

| run | what it shows |
|---|---|
| `voice` | `EchoMatchesSent`: the newest mask in flight, or the one held, is the one the server remembers as sent. `ListeningMatchesSent`: the engine relays what those masks say. `ClientBeliefIsTrue`: the client hears what it thinks it hears. Lasting mutes and unmutes take effect (`MuteTakesEffect`, `UnmuteTakesEffect`), the server is told by a client with voice on, a state request is answered, polling resumes |
| `voice_server_is_told` | Violated: a client with `voice_modenable 0` and a stale echo never tells the server |
| `voice_mod_disabled` | Violated: voice turned off before the first `UpdateMasks` is not reported to the client |
| `voice_mod_enable_sent` | Violated: `m_bServerModEnable` is 255 after each `VoiceMask` |

The bounds: two events hold each pair of environment events (mute then level
change, unmute then disconnect, restart then reconnect), and the starts stand
for what happened before. From `Muted`, bob leaves and cat, whom nobody muted,
takes slot 2 under a bit that was meant for bob; from `Crashed`, ann comes back
with an empty ban list to a slot whose mask still names bob. `UnmuteTakesEffect`
holds in both because `ClientConnected` forgets what was sent: the next
`UpdateMasks` then sends the old mask, and the client sees that it differs from
its ban list. A server that remembered it (the property's mutant) would leave
both players muted for good. TLC reached `Settled`, `Muted` and `Crashed` from
`Init` in five events. cat comes only when bob is gone and a mask is left
(`BobWasMuted`); before, it would only be a second bob. Two players at a time are
the fewest that have a listener and a speaker; the masks of different listeners
do not interact in `UpdateMasks`. The proofs below lift all of these bounds for
the safety properties.

Fairness (`Fairness`): both programs keep running frames and processing
messages, the reliable channels deliver, connections complete (WF); of
infinitely many `vban`s infinitely many arrive (SF on `ClientCommand_vban`), as
the client repeats them while its poll sees a difference. As the rules are
chosen anew in each pass, weak fairness of `UpdateMasks` itself would make them
change whenever nothing else is left to do; so a pass is promised only while it
has something to do under each of the rules (`UpdateMasksDue`). Nothing forces
`ClockCatchesUp`: the clock may need the length of the last level, and
`PollingResumes` holds without it because the server's `ReqState` wakes the
client.

## 3. The game menus

`Viewport.tla` models `CBaseViewport`, `CHudViewport`, the panels and
`CHudMenu`. The methods call each other several levels deep, so each is an
operator from a state `u` of the viewport to the next; an action is what one
message, command, click or frame does.

| in the module | in the code |
|---|---|
| `ui.visible` | `IsVisible()` of the eight panels of `CreateDefaultPanels` |
| `ui.background` | `m_pBackGround->IsVisible()` |
| `ui.m_pActivePanel`, `ui.m_pLastActivePanel` | the same members of `CBaseViewport` |
| `m_bMOTDActive`, `m_bGotAllMOTD` | `CHudViewport` |
| `m_bPendingVGUIMenu`, `m_fMenuDisplayed`, `textMenu` | `CHudMenu`; `textMenu` is the flag `HUD_DRAW` |
| `touchMenu` | a menu made of touch buttons (`ClientCmd("exec touch/...")`, `Touch_CloseMenu`) |
| `g_iTeamNumber` | the local team, from `HUD_ProcessPlayerState` |
| `m_iIntermission` | intermission, or `IsSpectateOnly()`: the two are always tested together |
| `isPlayingback` | `IsPlayingback() && !IsSpectateOnly()` in `ShowPanel` |

Choices a reader should know:

- `m_bClosingAllMenus` never outlives `HideAllVGUIMenu`, so `HideAll` is its
  closed form: `m_pLastActivePanel` is cleared first, and each visible panel
  hides itself and the background, with `ShowPanel` restoring nothing.
- `Frame::Close` may fade a frame out; every caller hides the background next,
  and that hides a fading frame at once, so `CloseFrame` closes immediately.
- A resized screen reloads the scheme in `OnThink`, which resets the HUD and
  lays out hidden panels too; the layouts of the team, class, MOTD and buy
  submenu panels call `ShowBackGround(true)` without looking whether they are
  visible. A frame whose size is new, the first one included, therefore ends
  with the background shown (`OnThink(TRUE)`).
- `ActivateMOTD` and `ActivateMenu` make their panel visible without, or
  whatever, `ShowPanel` decided. So two panels may be visible although a comment
  in `ShowPanel` says one (`CBaseViewport.cpp:440`), and `MenuStack` allows it.
- An intermission ends only with a new level; `VidInit(newLevel)` is that, or a
  change of the video mode.
- `m_bGotAllMOTD` decides in the code whether the MOTD text is cleared before
  the next part; the text itself is abstracted.

Not modelled here: the text of menus, `m_fWaitingForMore` and which slots are
valid (a slot key may be valid whenever a menu is displayed), which `HudInput`
has in their place; the phase before a
viewport exists, the HTML MOTD and its browser, keyboard focus inside a panel,
and the methods nothing calls (`HideVGUIMenu`, `HideAllGameMenus`,
`AutoAssign`, `OnScreenSizeChanged`).

`MenuStack.tla` is the abstract promise: a panel opens on an empty screen and
gets the keyboard; only overlays (the MOTD and the buy menus) may appear on top
of what is shown; closing any panel clears the screen, perhaps for a successor.
`Viewport` implements it under the mapping `shown = ui.visible`, `focus` = the
active panel if it is visible (`KeepsStack`).

Runs (`MCViewport.tla`: both teams, all eight panels; the state space is finite
and complete, 38,700 states, with no bound but the two teams):

| run | what it shows |
|---|---|
| `menus` | `ClicksDoNotLeak`: visible menus keep the attack buttons masked. `DeadPanelsAreRefused`: a remembered panel that is not visible was refused by an intermission. `NothingRevived`: no frame brings up a panel. `NoOrphanBackGround`: only `VidInit` and a resize leave the background without a panel. `DeferredMenuIsShown`: closing the MOTD shows the deferred team menu. `KeepsStack`: the refinement |
| `menus_slot_keys` | Violated: a `VGUIMenu` that opens nothing takes the slot keys |
| `menus_deferred` | Violated: `VidInit` hides the MOTD and leaves the team menu deferred |

`NoOrphanBackGround` names two exceptions on purpose: after `VidInit` with the
MOTD or a buy menu open, and after a resize, the background stays with no panel
and the attack buttons stay masked until a menu is opened and closed again. The
code behaves like that; the property says that nothing else does.

No liveness is claimed for the menus: what closes a menu is the player.

## 4. The buy menu wizard

`BuyWizard.tla` is one buy menu from the inside; the four buy menus of
`Viewport` are independent copies of it. `Viewport` abstracts from the pages,
`BuyWizard` from what else is on the screen: any call the viewport may make is
an action, and where the viewport may refuse (`ActivateMenu`), both outcomes
are taken.

| in the module | in the code |
|---|---|
| `visible` | `IsVisible()` of the `CBuyMenu` |
| `live` | the `CBuySubMenu` objects that exist; `Panels` is the memory for them, so a new submenu may get the address of a deleted one |
| `shown` | `IsVisible()` of each submenu |
| `m_SubMenus`, `m_NextPanel` | the members of every `CBuySubMenu`, with their owner |
| `_currentSubPanel`, `_subPanelStack` | `WizardPanel`; of the stack only its set of panels, as the previous button that pops it is never visible (`ShowButtons(false)`) |

The actions are `ShowPanel`, `ActivateMenu` (a page the server asks for), a
click that opens a page (`OnCommand_Resource`) or buys or cancels
(`OnCommand_Close`), escape (`OnClose`) and `VidInit`. Escape posts the cancel
button's message; `CVGui::DispatchMessages` handles it in the same dispatch,
after the menu was hidden, so it is part of the action. Not modelled: the
layout of the pages, the presets, which are switched off, and
`UpdateGameMode` with `SetTeam`, which nothing calls.

Run (`MCBuyWizard.tla`: the main page, memory for three submenus, two resource
files, symmetric; a click that needs more memory than that is left out):

| run | what it shows |
|---|---|
| `buy_wizard` | `PointersAreLive`: no pointer outlives its panel. `DeletedOnce`: closing deletes every submenu once. `OnePageShown`: one page, never an empty menu. `ClosingStartsAfresh`: each way of closing but a level change leaves nothing for the next opening |

Three submenus allow two siblings, a submenu of a submenu, a cached page found
again and a deleted one replaced; the proofs hold for any number.

## 5. Weapon prediction

The client does not wait for the server to fire. It runs each command at once
on its own copy of the weapon, and whenever an update arrives it starts from
the server's weapon and runs every command again that the server has not
executed yet. The weapon classes are compiled into both programs
(`dlls/wpn_shared`), but `ItemPostFrame` and its helpers exist twice, in
`cl_dll/cs_wpn/cs_weapons.cpp` and in the game library, and have drifted apart.

`WeaponFrame.tla` is one command on one weapon: operators from a weapon frame
`f` to the next, with the parameter `client` where the two copies differ.
`WeaponPrediction.tla` puts a server, a client and the commands between them
around it.

| in the modules | in the code |
|---|---|
| `f.wpn[w].clip`, `inReload`, `special`, `nextPrimary`, `nextSecondary`, `idle`, `burst` | `m_iClip`, `m_fInReload`, `m_fInSpecialReload`, `m_flNextPrimaryAttack`, `m_flNextSecondaryAttack`, `m_flTimeWeaponIdle`, the burst bit of `m_iWeaponState`: all in `weapon_data_t` |
| `f.id`, `f.nextAttack`, `f.type`, `f.count` | `clientdata_t`: `m_iId`, `m_flNextAttack`, `vuser4.x`, `vuser4.y` |
| `f.tab` | `ammo_556nato`, `ammo_buckshot` of the player (`TabulateAmmo`) |
| `f.shoot`, `f.shots`; `object` | `m_flFamasShoot`, `m_iFamasShotsFired`: in the weapon object and in neither structure |
| `server` | the player and its weapons in the game library |
| `cmds`, `ran` | commands not acknowledged, and how many the server has executed |
| `base`, `path` | the last update, and the state predicted after each of `cmds` |
| `pending` | `weapon_...` strings on their way to `SelectItem` |
| `truth`, `expected`, `carried` | history: the server at the last update, what it would compute for each of `cmds`, whether a burst was going on when the replay began |

Two weapons stand for the families that keep state of their own: the FAMAS,
with a magazine and a burst that goes on over several commands, and the M3,
loaded shell by shell. Times are counted in units and each command takes `Msec`
of them; a timer stops at -1, one value for the code's floors of -0.001 and
-1.0. The server is built as the repository's build file does it, with
`REGAMEDLL_FIXES`, `REGAMEDLL_API`, `REGAMEDLL_ADD`, `BUILD_LATEST` and
`CLIENT_WEAPONS`, and without `BUILD_LATEST_FIXES`. An update is sent and
received in one step: one that travels is the same as a server that runs its
next commands after the client has received it, which neither side can see. The
replay itself (`Predicting`, `StartReplay`, `ReceiveSnapshot`) is the engine's
and marked external.

Runs (`MCWeaponPrediction.tla`: a FAMAS with 2 rounds in a clip of 3, an empty
M3 that takes 2, one round in reserve for each, up to two commands in flight
and one weapon string, the delays of the code as small numbers; 1,096,524
states):

| run | what it shows |
|---|---|
| `weapon_prediction` | `PredictionExact`: what the client shows for a command is what the server will compute for it, for the states `Plain` allows. `ReloadBelongsToActive`: no weapon but the one in hand is being reloaded, in any copy. `ClipsInRange`: clips stay between zero and full in every copy. `PredictionInventsNoRounds` and `OneRoundPerCommand`: rounds are only ever lost to a shot, one per command |

`Plain` is the list of the places where the two copies disagree, and is worth
reading as such: while the client's object has a burst left over from an
earlier prediction, or burst mode is on (the client takes two rounds for a
shot, and replays the burst from wherever the object is); across a predicted
switch of weapons (`vuser4` still has the reserve of the old one); and when
RELOAD is held on a busy M3 that is being loaded. `PredictionExact` says there
are no others between these two weapons. It compares what can be seen: the
timer of an idle M3 is reset on the server only, and read only while it is
being loaded. Without any one of the exceptions but burst mode TLC finds a
difference; burst mode would show its own in a window of three.

The bounds: two commands in flight make a replay run a command from a predicted
state, a third would repeat that; a burst of three needs a clip of three, which
the FAMAS has after the round in reserve; that round makes its reload stop at
both limits, the clip's and the reserve's; the M3, which starts empty, reloads
by itself, on RELOAD and on an attack. `Msec = 2` with delays of 1, 2, 3 and 5
gives timers that end on zero, just below it, and after several commands. The
delay of an idle M3 is as long as the longest after which it may fire or load
again, as in the code (1.5 seconds against 0.55, 0.875 and 1): `IdleAssumption`.
Without it `PredictionExact` is false: TLC then finds an empty M3 whose timer
runs out first, and in a command with RELOAD held the server starts to load it
from `WeaponIdle`, while the client, whose copy of the branch ends there, waits.
Only the constants of `wpn_m3.cpp` keep the program from this. The proofs hold
for all other bounds.

No liveness is claimed: what a player wants of a weapon is not written in the
code.

## 6. The input path

`KeyButton.tla` is `kbutton_t`: the two keys that hold a button, and the bits
down, pressed and released. `HudInput.tla` uses two of them, attack and
forward, with the weapon selection and the text menu, in the order a frame has:
keys, console commands and messages in any order, then `UpdateClientData`,
where a click may close the MOTD or choose the highlighted weapon, then
`CreateMove`. That order is the engine's; `updated` holds it.

| in the modules | in the code |
|---|---|
| `down`, `state` | `kbutton_t`; a bit of `state` is an element |
| `m_bShow` | `CHudMOTD::m_bShow` |
| `captured` | `VGUI2_ShouldCaptureInput() \|\| IsInSquelchMode()` |
| `m_iWeaponBits`, `iOldWeaponBits` | `CHud`, `WeaponsResource`; `rgSlots` is what `iOldWeaponBits` says |
| `ammo` | the weapons `HasAmmo` holds of |
| `gpActiveSel` | the highlighted weapon, `(WEAPON *)1` (`MenuBar`), or `NULL` |
| `g_weaponselect`, `m_pWeapon`, `hud_fastswitch` | the same |
| `m_fHidden` | `m_iHideHUDDisplay & (HIDEHUD_WEAPONS \| HIDEHUD_ALL)` |
| `menu` | `CHudMenu`: `drawn` is `HUD_DRAW`, `shutoff` a positive `m_flShutoffTime`, `prelocalised` and `text` the two string buffers as sequences of message parts |
| `sending` | external: the part of a menu the server sends next |
| `holders`, `spent`, `owed`, `edges`, `owned` | history: what the keys did, and the weapons carried since the last `ResetHUD` |

Run (`MCHudInput.tla`: two keys on attack and one on forward, both also
typed at the console; two weapons in one slot and one in another; a menu of two
messages and one of one). The buttons, the weapons and the menu meet in few
places, so the run explores three scenarios, each with all events of one part
and the ones that touch it of the others; 418,180 states.

| run | what it shows |
|---|---|
| `hud_input` | `ButtonsFollowKeys`: no order of keys, repeats and typed commands leaves a button stuck or lets it go early. `SpentClickNeverFires`: a click that closed the MOTD or chose a weapon is in no command, now or later. `NoPressLost`: every other press is in the next command. `ForwardIsWhatKeysDid`: the fraction `CL_KeyState` returns is that of the keys together. `SelectionOfThisLife`: from a `ResetHUD` on, a weapon is highlighted or asked for only if it has been carried since, though `invnext` and `invprev` start at `m_pWeapon`, which `ResetHUD` and a death leave alone. `EveryWeaponReachable`: the wheel and the slot keys reach every weapon, and `invprev` takes back `invnext`. `MenuTextNotMixed`: a menu's text is never put together from two. `DrawnMenuTakesSlotKeys`: a text menu on the screen has the slot keys; `InitHUD` alone takes them away |

The bounds: a button remembers two keys, so two keys and the console are one
more than it can hold; two weapons in a slot and a second slot are the fewest
with a next one, a wrap inside a slot and one between slots; a menu of two
messages has one place to be cut off. The proofs lift all of them.

Not modelled: frames in which the engine does not ask for a command
(`active == 0`), `in_cancel` and `in_impulse`, the spectator's buttons
(`HandleButtonsDown`) and `IsSpectateOnly`, `cl_hide_motd` and the HTML MOTD
(`ignoreThisMotd`), `m_fPlayerDead` (the `CurWeapon` that would set it is
returned from before), mouse, joystick and touch axes, and the length of the
two string buffers. No liveness: a key may be held for ever.

## 7. Player movement

`PlayerMove.tla` is one player under `PM_PlayerMove`, which client and server
run alike: the client to predict, the server to decide. Of space only the
vertical axis is kept. A map is a set of columns with a floor, a ceiling and a
water surface; a command moves the player to any place it can reach in which
its box fits, or leaves it where it is. That is what the engine's traces
promise, and more than any speed allows, so nothing depends on speeds.

| in the module | in `playermove_t` |
|---|---|
| `pm.col`, `pm.z`, `pm.rising` | `origin`; `velocity[2] > 180` |
| `pm.hull`, `pm.ducking`, `pm.inDuck`, `pm.duckTime`, `pm.view` | `usehull`, `FL_DUCKING` of `flags`, `bInDuck`, `flDuckTime`, `view_ofs[2]` |
| `pm.ground`, `pm.water` | `onground`, `waterlevel` |
| `pm.jumpTime`, `pm.waterJump` | `waterjumptime`, `FL_WATERJUMP` |
| `pm.oldDuck`, `pm.oldJump` | `IN_DUCK` and `IN_JUMP` of `oldbuttons` |
| `pm.dead`, `pm.prevent` | `dead`, `PLAYER_PREVENT_DUCK` of `iuser3` |
| `pm.jumped`, `spent` | history: the last command jumped; the button was held ever since |

The functions of the file are operators from one player to the next, with their
names (`UnDucked` is `PM_UnDuck`, `WaterJumped` `PM_WaterJump`), and `Command`
is `PM_PlayerMove` in its order: parameters and timers, `PM_CheckStuck`,
`PM_CategorizePosition`, `PM_Duck`, the branch of the move type with its reading
of the JUMP button, the move, and a last look at the position. `Die`, `Spawn`
and `PreventDuck` are what the game library does between commands; a spawn
leaves `bInDuck`, the timers and `oldbuttons` as they were. The facts a branch
needs and the model does not keep (facing an edge to climb out on, for one)
are left open.

Runs (`MCPlayerMove.tla`, heights in units of 9 inches: a standing player is 8
high, a ducked one 5; a hall, a room in which a player can stand and not be
raised, a tunnel for the ducked, and a pool with a ladder; 69,552 states, which
are all):

| run | what it shows |
|---|---|
| `player_move` | `NeverStuck`: no change of box or height puts the player into a wall. `DuckStateAgrees`: box, flag, half-way mark and eyes tell of the same duck. `OneJumpPerPress`: a held JUMP jumps once, whatever comes between |
| `player_half_duck` | Violated: DUCK tapped in the room leaves the player in the middle of a duck, with the button up, until the ceiling is higher |

The bounds: each place decides one of the tests of `PM_UnDuck` differently, and
`PM_Duck` differs between ground, air and water; `Msec = 2` with 5, 2 and 4 for
the times ends a duck early, late and in the air, and lets a leap out of the
water end at zero and below it. The proofs lift all of this. A consequence the
model shows: `PM_FixPlayerCrouchStuck` has nothing to fix and `PM_CheckStuck`
never stops a command while the map stands still (`NothingToFix` in the proofs).

No liveness: a player may stand still, or under a low ceiling, for ever.

## 8. What is proved

TLAPS checks every proof here, for all values of the constants under the
assumptions named in the modules (`PlayersAssumption`, `RulesAssumption`,
`BoundsAssumption`; `TeamsAssumption` and the two `PanelsAssumption`s;
`KeysAssumption`, `BindingsAssumption`, `WeaponsAssumption`,
`MenusAssumption`; `ClipAssumption`, `TimeAssumption`, `BurstAssumption`,
`IdleAssumption` and `InputAssumption` of the weapons; `HullAssumption`, `WorldAssumption` and
`TimeAssumption` of movement).

- `VoiceMuteProofs.tla`. `ClientBeliefIsTrue` is not inductive. The invariant
  `BeliefInv` adds the types, that nobody is connected twice (`OneSlotEach`),
  and the two halves of the belief: what is newest in flight or held is what
  was sent (`EchoMatchesSent`), and what was sent is what the engine does
  (`ListeningMatchesSent`). Without `OneSlotEach` a message received in one
  slot would change the client state of another; without the in-flight part a
  delivery could install an old mask. Theorems: `TypeCorrect`,
  `BeliefInductive`, `EchoCorrect`, `ListeningCorrect`, `BeliefCorrect`.
- `ViewportProofs.tla`. `MenuInv` says that whatever is visible has the
  background and is the active panel, the MOTD or a buy menu, and which panels
  may be remembered. One lemma per method gives the shape of the state it
  returns, `UiStep` collects them per action, and the theorems follow:
  `MenuInvariant`, `TypeCorrect`, `DeadPanelsCorrect`, `ClicksCorrect`,
  `NothingRevivedCorrect`, `BackGroundCorrect`, `DeferredMenuCorrect`, and
  `ImplementsStack`, the refinement of `MenuStack`, all for any set of teams.
- `BuyWizardProofs.tla`. `Sound` adds to the properties that the submenu entries
  name live panels. It holds of what every operator returns (`RunSound`,
  `SetupSound`, `HideFresh`): the live panels are exactly those found from the
  main page, so `DeleteSubPanels` leaves no other, and no pointer to one.
  `SubPanels` is defined by closed sets and not by recursion for this proof.
  Theorems: `WizardInvariant`, `TypeCorrect`, `PointersCorrect`,
  `DeletionCorrect`, `OnePageCorrect`, `ClosingCorrect`.
- `MenuStackProofs.tla`. `StackCorrect`: in the abstract stack, focus is on a
  visible panel and everything else visible is an overlay.

- `HudInputProofs.tla`. `HudInv` is inductive, for any keys, bindings, weapons,
  slots and menus. Of the buttons it says more than the properties: a used up
  click left no bit in the button, a press that is owed left its impulse, the
  two places of `down` never name the same key, and the impulses of forward are
  what its keys did since the last command; without the last, a release in one
  frame could be counted in the next. Of the menu it says that the text put
  together so far ends with the part before the one that is sent next, of the
  weapons that those in the slots, and the highlighted one, are of this life: a
  row may have lost the highlighted weapon, and `m_pWeapon` may be of any life,
  so that only what the scan returns can be trusted (`HighlightIsOwned`). The three
  parts share only the frame's order, so each has its own step lemma
  (`ButtonsNext`, `WeaponsNext`, `MenusNext`) and `HudNext` joins them. That
  scrolling returns a weapon rests on the existence of an earliest and a latest
  element of a finite set of positions (`SmallestWeapon`, `SmallestByTwo`).
  `EveryWeaponReachable` is about any number of key presses. Both the wheel and
  the slot keys give each weapon the next one in an order of positions, or the
  first (`WheelFollows`, `SlotKeyFollows`: `Follows`); so the weapons that lie
  between the one in hand and the one that is looked for become fewer with each
  press (`AheadShrinks`). The induction this calls for has no operator to
  generalise over: `CycleReaches` takes the least number of weapons ahead from
  which a weapon is not reached (`LeastNatural`), and one press refutes it.
  Theorems: `HudInvHolds`, `TypeCorrect`, `ButtonsNeverStick`,
  `SpentClickIsGone`, `PressReachesCommand`, `ForwardFraction`,
  `SelectionsAgree`, `TextOfOneMenu`, `DrawnMenuKeepsSlotKeys`,
  `WeaponsReachable`.

- `WeaponPredictionProofs.tla`. `WeaponInv` says that every copy of the weapons,
  the server's, the last update's, each predicted one and the ones the server
  would compute, is sound: typed, clips within bounds, nothing reloaded but the
  weapon in hand. The heart is `Step(f, r, n)`: code that does not switch
  weapons costs the weapon in hand at most `n` rounds, makes none, and leaves
  the others alone. Every helper of `ItemPostFrame` has its lemma, most of them
  for both copies at once. For `PredictionInventsNoRounds` the invariant adds
  that no predicted state has more rounds than the update it starts from
  (`RoundsFromBase`). `OneRoundPerCommand` needs the delays too, as a command may
  continue a burst and fire again: `BurstTimed` says that a burst that is still
  due finds the weapon busy, whatever was pressed or put away since, which
  `BurstAssumption` makes true of the code's delays. Theorems:
  `WeaponInvHolds`, `TypeCorrect`, `ClipsCorrect`, `ReloadsCorrect`,
  `PredictedRoundsCorrect`, `RoundsCorrect`.
- `WeaponExactProofs.tla`. `PredictionExact` compares the two copies of
  `ItemPostFrame` and its helpers. The states they leave are not equal: the
  server sets the timer of an M3 that is not being loaded again, the client lets
  it run out. `Match` relates them: all is the same but that timer, and where it
  differs the client's can do nothing any more (`TimerIgnored`: the gun holds
  a shell, or there is none to load). `MatchRun` takes a match through a command, by
  weapon: with the FAMAS the two frames stay the same (`HeldRun`), with the M3
  they stay `Related` (`RelatedRun`). Both need to know what the server keeps
  true of its own weapons, `Fit`, which says that a burst leaves both attacks busy for
  the same time, so that its mode cannot change under it (`FamasRunFit`); that
  the tabulated reserve is never below the real one, so that the client's test of it
  refuses no reload; that an M3 in the middle of a reload has a shell to push or
  one in it; and that an empty M3 with shells in reserve may fire before its timer runs out,
  so that only the buttons, and not the timer, start its reload (`ReadyRun`).
  The last is where `IdleAssumption` is needed. `ExactInv` says this of the
  server, of each state it would compute and of each predicted one as long as
  the commands are plain. Theorems: `ExactInvHolds`, `PredictionIsExact`.
- `PlayerMoveProofs.tla`. `Good` of a player joins type, `NeverStuck` and
  `DuckStateAgrees`; none of them is inductive alone, as a duck is finished
  safely only because its box is still the standing one. Each function of
  `pm_shared.cpp` takes a good player to a good one; all but the one that reads
  JUMP leave `oldJump` and `jumped` alone (`SameJump`), and `PmInv` adds that a
  button held since a jump is in `oldJump`. The map is arbitrary, the boxes any
  two of which the small one fits where the big one does, with its origin or
  its feet in place (`SmallBoxFits`). Theorems: `PmInvHolds`, `TypeCorrect`,
  `NeverStuckCorrect`, `DuckStateCorrect`, `OneJumpCorrect`.

Only model-checked: the liveness of the voice protocol (`MuteTakesEffect`,
`UnmuteTakesEffect`, `ServerIsToldWithVoiceOn`, `StateRequestAnswered`,
`PollingResumes`: liveness and `ENABLED` are out of the prover's reach), and
everything the violated runs show. Every invariant and action property that a
passing run checks is proved.

## 9. Not modelled

- The other weapons. All of them run the same `ItemPostFrame`, and those with a
  magazine the FAMAS's `DefaultReload`; the Glock's burst has the
  same form as the FAMAS's, and the XM1014 is loaded as the M3 is. What is
  theirs alone is accuracy and recoil, which is floating point. Left out of the
  prediction too: the shield, zoom, water, death and the freeze time, and
  ammunition that is bought or picked up.
- Of movement: observers, noclip and trains, speeds, stamina and friction, step
  and water sounds, and horizontal geometry, which is floating point. A flag the
  module keeps and no property speaks of: `FL_WATERJUMP` stays set when the
  leap's timer ends at exactly zero or the player reaches the ground first.
- View, camera, models, events and effects: geometry, drawing and sound.
- HUD elements that draw what their last message said; message text and its
  localisation.
- Spectator modes and targets, and which widget of a modal menu a key goes to.
- The VGUI2 runtime, the main menu, SourceSDK, the bots and the rest of the
  game library: vendored projects, used here only where a modelled component
  calls them. They are most of the tree by size, which is why the modules cover
  a small share of it.

## 10. Plan

Done: `VoiceMute`; `Viewport` with `MenuStack`, and `BuyWizard`; `WeaponFrame`
and `WeaponPrediction`; `KeyButton` and `HudInput`; `PlayerMove`; the invariants
of all of them proved.

1. An abstract specification of the voice echo (a register per slot and a view
   that follows it), refined by `VoiceMute`, with its proof.
2. Spectator targets.

The modules in which proofs are wanted use no `RECURSIVE` operator; parameters
are `CONSTANTS` with named assumptions, and one action is one operation.
