------------------------------- MODULE Viewport -------------------------------
(***************************************************************************)
(* The game menus of the client: the panels of the VGUI2 viewport          *)
(* (cl_dll/vgui2: CBaseViewport, CHudViewport, the MOTD, team, class and   *)
(* buy menus) and the HUD element that opens them for the server           *)
(* (cl_dll/menu.cpp: CHudMenu).                                            *)
(*                                                                         *)
(* The viewport shows panels through ShowPanel, which allows one at a      *)
(* time.  Two paths go around it: the MOTD activates itself when its text  *)
(* arrives, and a buy submenu requested by the server runs its wizard even *)
(* when ShowPanel refused the buy menu.  Hiding the shared background      *)
(* hides every panel.                                                      *)
(*                                                                         *)
(* The methods call each other several levels deep, so each is an operator *)
(* from one state of the viewport to the next (the record ui); an action   *)
(* is what one message, console command, key or frame does to it.          *)
(***************************************************************************)
EXTENDS Integers, FiniteSets

CONSTANTS
  Teams, NoTeam,              \* the teams with a class and a buy menu
  MOTD, TeamMenu,             \* panels of their own
  ClassMenu, BuyMenu, EquipMenu,   \* a panel for each team
  NoPanel

BuyMenus   == {BuyMenu[t] : t \in Teams}
EquipMenus == {EquipMenu[t] : t \in Teams}
ClassMenus == {ClassMenu[t] : t \in Teams}
Panels     == {MOTD, TeamMenu} \cup ClassMenus \cup BuyMenus \cup EquipMenus

ASSUME TeamsAssumption == NoTeam \notin Teams
ASSUME PanelsAssumption ==
  /\ MOTD # TeamMenu
  /\ \A t \in Teams :
       /\ {ClassMenu[t], BuyMenu[t], EquipMenu[t]} \cap {MOTD, TeamMenu} = {}
       /\ ClassMenu[t] \notin BuyMenus \cup EquipMenus
       /\ BuyMenu[t] \notin EquipMenus
  /\ NoPanel \notin Panels

VARIABLES
  ui,                   \* visible, background, m_pActivePanel, m_pLastActivePanel
  m_bMOTDActive,        \* CHudViewport: part of a MOTD has arrived
  m_bGotAllMOTD,        \* CHudViewport: the last part has arrived
  m_bPendingVGUIMenu,   \* CHudMenu: a team menu waits for the MOTD to close
  m_fMenuDisplayed,     \* CHudMenu: slot keys choose menu items
  textMenu,             \* CHudMenu: HUD_DRAW, the text menu is drawn
  touchMenu,            \* a menu made of touch buttons is on the screen
  g_iTeamNumber,
  m_iIntermission,      \* intermission, or a spectator-only client
  isPlayingback         \* a demo is played by a client that is no proxy

motdVars == <<m_bMOTDActive, m_bGotAllMOTD>>
hudVars  == <<m_bPendingVGUIMenu, m_fMenuDisplayed, textMenu, touchMenu>>
gameVars == <<g_iTeamNumber, m_iIntermission, isPlayingback>>
vars     == <<ui, motdVars, hudVars, gameVars>>

\* The menus a VGUIMenu message or the showvguimenu command can ask for.
Menus ==
  [type : {"TEAM", "BUY", "BUY_ITEM", "BUY_SUB", "TOUCH", "NUMERICAL", "OTHER"}]
  \cup [type : {"CLASS"}, team : Teams]

Viewports ==
  [visible : SUBSET Panels, background : BOOLEAN,
   m_pActivePanel : Panels \cup {NoPanel},
   m_pLastActivePanel : Panels \cup {NoPanel}]

TypeOK ==
  /\ ui \in Viewports
  /\ m_bMOTDActive \in BOOLEAN
  /\ m_bGotAllMOTD \in BOOLEAN
  /\ m_bPendingVGUIMenu \in BOOLEAN
  /\ m_fMenuDisplayed \in BOOLEAN
  /\ textMenu \in BOOLEAN
  /\ touchMenu \in BOOLEAN
  /\ g_iTeamNumber \in Teams \cup {NoTeam}
  /\ m_iIntermission \in BOOLEAN
  /\ isPlayingback \in BOOLEAN

\* The client has started and the panels are created, all of them hidden.
Init ==
  /\ ui = [visible |-> {}, background |-> FALSE,
           m_pActivePanel |-> NoPanel, m_pLastActivePanel |-> NoPanel]
  /\ m_bMOTDActive = FALSE
  /\ m_bGotAllMOTD = FALSE
  /\ m_bPendingVGUIMenu = FALSE
  /\ m_fMenuDisplayed = FALSE
  /\ textMenu = FALSE
  /\ touchMenu = FALSE
  /\ g_iTeamNumber = NoTeam
  /\ m_iIntermission \in BOOLEAN
  /\ isPlayingback \in BOOLEAN

-----------------------------------------------------------------------------
(***************************************************************************)
(* CBaseViewport and its panels: operators on a state u of the viewport.   *)
(***************************************************************************)

\* HideAllVGUIMenu.  It clears m_pLastActivePanel first and sets
\* m_bClosingAllMenus, so that ShowPanel(p, false) of each visible panel hides
\* p and the background and neither restores a panel nor comes back here.
HideAll(u) ==
  [u EXCEPT !.visible = {},
            !.background = u.background /\ u.visible = {},
            !.m_pActivePanel = NoPanel, !.m_pLastActivePanel = NoPanel]

\* With the background go all the panels.
ShowBackGround(u, bState) ==
  [IF bState THEN u ELSE HideAll(u) EXCEPT !.background = bState]

\* The panels whose ShowPanel refuses to open in an intermission.
Refused(p) == m_iIntermission /\ p \in {TeamMenu} \cup BuyMenus

\* A class menu lays itself out, which shows the background, before it looks
\* whether it is visible already.
LaysOutFirst(p) == p \in ClassMenus

\* p->ShowPanel(true).
PanelShow(u, p) ==
  IF Refused(p) \/ (p \in u.visible /\ ~LaysOutFirst(p)) THEN u
  ELSE ShowBackGround([u EXCEPT !.visible = @ \cup {p}], TRUE)

\* p->ShowPanel(false), SetVisible(false) with ShowBackGround(false).
PanelHide(u, p) ==
  IF p \in u.visible
  THEN ShowBackGround([u EXCEPT !.visible = @ \ {p}], FALSE) ELSE u

\* The old active panel, which is not visible here, is kept as the last one.
Deactivate(u, p) ==
  IF u.m_pActivePanel \in {NoPanel, p} THEN u
  ELSE PanelHide([u EXCEPT !.m_pLastActivePanel = u.m_pActivePanel],
                 u.m_pActivePanel)

\* Opens p whatever else is visible.
ShowPanel_Stacks(u, p) ==
  IF isPlayingback THEN u
  ELSE PanelShow([Deactivate(u, p) EXCEPT !.m_pActivePanel = p], p)

\* CBaseViewport::ShowPanel(p, true).
ShowPanel(u, p) ==
  IF u.visible \ {p} # {} \/ isPlayingback THEN u
  ELSE PanelShow([Deactivate(u, p) EXCEPT !.m_pActivePanel = p], p)

\* CCSBaseBuyMenu::ActivateMenu for a submenu: the wizard runs, and lays the
\* submenu out, whatever ShowPanel did.
ActivateMenu(u, p) ==
  ShowBackGround([ShowPanel(u, p) EXCEPT !.visible = @ \cup {p}], TRUE)

\* Without the background, over which clicks would not reach the game.
ActivateMOTD_NoBackGround(u) == [u EXCEPT !.visible = @ \cup {MOTD}]

\* CClientMOTD::Activate, also what ActivateHtml does without a browser.
ActivateMOTD(u) ==
  [ShowBackGround(u, TRUE) EXCEPT !.visible = @ \cup {MOTD}]

\* Hides p only.
CloseFrame_Only(u, p) == [u EXCEPT !.visible = @ \ {p}]

\* Frame::Close of p, then ShowBackGround(false).
CloseFrame(u, p) == ShowBackGround([u EXCEPT !.visible = @ \ {p}], FALSE)

IsMOTDActive == m_bMOTDActive \/ MOTD \in ui.visible

\* A buy menu of the local player's team.
OpenBuyMenu(u, type) ==
  IF g_iTeamNumber \notin Teams THEN u
  ELSE CASE type = "BUY"      -> ShowPanel(u, BuyMenu[g_iTeamNumber])
         [] type = "BUY_ITEM" -> ShowPanel(u, EquipMenu[g_iTeamNumber])
         [] type = "BUY_SUB"  -> ActivateMenu(u, BuyMenu[g_iTeamNumber])

\* CHudViewport::ShowVGUIMenu.
OpenMenu(u, menu) ==
  CASE menu.type = "TEAM"  -> ShowPanel(u, TeamMenu)
    [] menu.type = "CLASS" -> ShowPanel(u, ClassMenu[menu.team])
    [] OTHER -> OpenBuyMenu(u, menu.type)

-----------------------------------------------------------------------------
(***************************************************************************)
(* CHudMenu.                                                               *)
(***************************************************************************)

\* VGUI2 owns these menus; the others have touch configs, or nothing.
Owned(menu) == menu.type \notin {"TOUCH", "NUMERICAL", "OTHER"}

OldStyleMenuClose ==
  /\ m_fMenuDisplayed' = FALSE
  /\ textMenu' = FALSE
  /\ touchMenu' = FALSE
  /\ UNCHANGED <<ui, m_bPendingVGUIMenu>>

\* The VGUIMenu message, and the showvguimenu command.
ShowVGUIMenu(menu) ==
  /\ \/ /\ menu.type = "TEAM" /\ IsMOTDActive
        /\ m_bPendingVGUIMenu' = TRUE
        /\ UNCHANGED <<ui, m_fMenuDisplayed, textMenu, touchMenu>>
     \/ /\ Owned(menu) /\ ~(menu.type = "TEAM" /\ IsMOTDActive)
        /\ ui' = OpenMenu(ui, menu)
        /\ m_fMenuDisplayed' = TRUE
        /\ UNCHANGED <<m_bPendingVGUIMenu, textMenu, touchMenu>>
     \/ /\ menu.type = "TOUCH"
        /\ m_fMenuDisplayed' = TRUE
        /\ touchMenu' = TRUE
        /\ UNCHANGED <<ui, m_bPendingVGUIMenu, textMenu>>
     \/ menu.type = "NUMERICAL" /\ UNCHANGED <<ui, hudVars>>
     \/ menu.type = "OTHER" /\ OldStyleMenuClose
  /\ UNCHANGED <<motdVars, gameVars>>

\* A ShowMenu message: with no valid slots it closes the text menu.
MsgFunc_ShowMenu(anySlots) ==
  /\ IF anySlots
     THEN /\ m_fMenuDisplayed' = TRUE
          /\ textMenu' = TRUE
          /\ UNCHANGED <<ui, m_bPendingVGUIMenu, touchMenu>>
     ELSE OldStyleMenuClose
  /\ UNCHANGED <<motdVars, gameVars>>

\* client_buy_close, and Draw when the time of a text menu is up.
UserCmd_OldStyleMenuClose ==
  /\ OldStyleMenuClose
  /\ UNCHANGED <<motdVars, gameVars>>

MsgFunc_BuyClose ==
  /\ touchMenu
  /\ touchMenu' = FALSE
  /\ UNCHANGED <<ui, motdVars, m_bPendingVGUIMenu, m_fMenuDisplayed, textMenu,
                 gameVars>>

\* A slot key whose bit is valid, while m_fMenuDisplayed overrides the keys.
SelectMenuItem ==
  /\ m_fMenuDisplayed
  /\ OldStyleMenuClose
  /\ UNCHANGED <<motdVars, gameVars>>

\* ResetHUD; also what a reloaded scheme does to the HUD.
ResetHUD ==
  /\ m_bPendingVGUIMenu' = FALSE
  /\ UNCHANGED <<ui, motdVars, m_fMenuDisplayed, textMenu, touchMenu, gameVars>>

MsgFunc_InitHUD ==
  /\ m_bPendingVGUIMenu' = FALSE
  /\ m_fMenuDisplayed' = FALSE
  /\ UNCHANGED <<ui, motdVars, textMenu, touchMenu, gameVars>>

-----------------------------------------------------------------------------
(***************************************************************************)
(* Console commands, the MOTD message, clicks and keys on the panels.      *)
(***************************************************************************)

ChooseTeam ==
  /\ ui' = ShowPanel(ui, TeamMenu)
  /\ UNCHANGED <<motdVars, hudVars, gameVars>>

\* buymenu and buyequip.
OpenBuyMenuForLocalTeam(equipmentMenu) ==
  /\ ui' = OpenBuyMenu(ui, IF equipmentMenu THEN "BUY_ITEM" ELSE "BUY")
  /\ UNCHANGED <<motdVars, hudVars, gameVars>>

MotdOpen ==
  /\ ui' = ActivateMOTD(ui)
  /\ UNCHANGED <<motdVars, hudVars, gameVars>>

\* One part of the MOTD; last says that no more follow.
MsgFunc_MOTD(last) ==
  /\ m_bGotAllMOTD' = last
  /\ m_bMOTDActive' = ~last
  /\ ui' = ActivateMOTD(ui)
  /\ UNCHANGED <<hudVars, gameVars>>

\* Flushes while m_bMOTDActive still holds the menu back.
FlushPendingVGUIMenu_TooEarly(u) ==
  IF m_bPendingVGUIMenu /\ ~m_bMOTDActive
  THEN /\ ui' = OpenMenu(u, [type |-> "TEAM"])
       /\ m_bPendingVGUIMenu' = FALSE
       /\ m_fMenuDisplayed' = TRUE
  ELSE ui' = u /\ UNCHANGED <<m_bPendingVGUIMenu, m_fMenuDisplayed>>

\* From u, in which the MOTD is not active any more, so that ShowVGUIMenu does
\* not defer the team menu again.
FlushPendingVGUIMenu(u) ==
  IF m_bPendingVGUIMenu
  THEN /\ ui' = OpenMenu(u, [type |-> "TEAM"])
       /\ m_bPendingVGUIMenu' = FALSE
       /\ m_fMenuDisplayed' = TRUE
  ELSE ui' = u /\ UNCHANGED <<m_bPendingVGUIMenu, m_fMenuDisplayed>>

CloseMOTD ==
  /\ MOTD \in ui.visible
  /\ m_bMOTDActive' = FALSE
  /\ FlushPendingVGUIMenu(CloseFrame(ui, MOTD))
  /\ UNCHANGED <<m_bGotAllMOTD, textMenu, touchMenu, gameVars>>

\* CCSTeamMenu::OnCommand: jointeam of a team opens its class menu.
TeamMenu_OnCommand(chosenTeam) ==
  /\ TeamMenu \in ui.visible
  /\ ui' = LET u == CloseFrame(ui, TeamMenu) IN
           IF chosenTeam \in Teams
           THEN OpenMenu(u, [type |-> "CLASS", team |-> chosenTeam]) ELSE u
  /\ UNCHANGED <<motdVars, hudVars, gameVars>>

ClassMenu_OnCommand(p, cancel) ==
  /\ p \in ui.visible
  /\ ui' = CloseFrame(IF cancel THEN ui ELSE HideAll(ui), p)
  /\ UNCHANGED <<motdVars, hudVars, gameVars>>

\* CBuySubMenu::OnCommand: something bought, or cancelled.
BuySubMenu_OnCommand(p) ==
  /\ p \in ui.visible
  /\ ui' = PanelHide(ui, p)
  /\ UNCHANGED <<motdVars, hudVars, gameVars>>

\* CBuyMenu::OnClose, on escape.
BuyMenu_OnClose(p) ==
  /\ p \in ui.visible
  /\ ui' = CloseFrame(ui, p)
  /\ UNCHANGED <<motdVars, hudVars, gameVars>>

-----------------------------------------------------------------------------
(***************************************************************************)
(* Frames, levels and what the game decides.                               *)
(***************************************************************************)

\* Restores the last panel even if there is none.
RestoreLastPanel_Unchecked(u) ==
  IF u.m_pActivePanel \in u.visible \cup {NoPanel} THEN u
  ELSE [ShowPanel([u EXCEPT !.m_pActivePanel = u.m_pLastActivePanel],
                  u.m_pLastActivePanel)
        EXCEPT !.m_pLastActivePanel = NoPanel]

\* An active panel that is not visible is replaced by the last one.
RestoreLastPanel(u) ==
  IF u.m_pActivePanel \in u.visible \cup {NoPanel} THEN u
  ELSE IF u.m_pLastActivePanel = NoPanel
  THEN [u EXCEPT !.m_pActivePanel = NoPanel]
  ELSE [ShowPanel([u EXCEPT !.m_pActivePanel = u.m_pLastActivePanel],
                  u.m_pLastActivePanel)
        EXCEPT !.m_pLastActivePanel = NoPanel]

\* The layout of the team, class, MOTD and buy panels, visible or not.
PerformLayout(u) == ShowBackGround(u, TRUE)

\* Once per frame.  A resized root reloads the scheme: that resets the HUD and
\* lays every panel out, visible or not, and their layouts show the background.
OnThink(resized) ==
  /\ ui' = LET u == RestoreLastPanel(ui) IN
           IF resized THEN PerformLayout(u) ELSE u
  /\ m_bPendingVGUIMenu' = (m_bPendingVGUIMenu /\ ~resized)
  /\ UNCHANGED <<motdVars, m_fMenuDisplayed, textMenu, touchMenu, gameVars>>

\* Keeps the panels the new level's game would have to answer.
VidInitPanels_KeepsActive(u) ==
  [u EXCEPT !.visible = @ \ ({MOTD} \cup BuyMenus \cup EquipMenus)]

\* The MOTD and the buy menus hide themselves without the background, the rest
\* is left to HideAllVGUIMenu.
VidInitPanels(u) ==
  HideAll([u EXCEPT !.visible = @ \ ({MOTD} \cup BuyMenus \cup EquipMenus)])

\* HUD_VidInit, for a new level or a new video mode.
VidInit(newLevel) ==
  /\ ui' = VidInitPanels(ui)
  /\ IF newLevel
     THEN /\ m_iIntermission' \in BOOLEAN /\ (m_iIntermission' => m_iIntermission)
          /\ isPlayingback' \in BOOLEAN
     ELSE UNCHANGED <<m_iIntermission, isPlayingback>>
  /\ UNCHANGED <<motdVars, hudVars, g_iTeamNumber>>

SetTeam(t) ==
  /\ g_iTeamNumber' = t
  /\ UNCHANGED <<ui, motdVars, hudVars, m_iIntermission, isPlayingback>>

StartIntermission ==
  /\ m_iIntermission' = TRUE
  /\ UNCHANGED <<ui, motdVars, hudVars, g_iTeamNumber, isPlayingback>>

Next ==
  \/ \E menu \in Menus : ShowVGUIMenu(menu)
  \/ \E anySlots \in BOOLEAN : MsgFunc_ShowMenu(anySlots)
  \/ UserCmd_OldStyleMenuClose
  \/ MsgFunc_BuyClose
  \/ SelectMenuItem
  \/ ResetHUD
  \/ MsgFunc_InitHUD
  \/ ChooseTeam
  \/ \E equipmentMenu \in BOOLEAN : OpenBuyMenuForLocalTeam(equipmentMenu)
  \/ MotdOpen
  \/ \E last \in BOOLEAN : MsgFunc_MOTD(last)
  \/ CloseMOTD
  \/ \E t \in Teams \cup {NoTeam} : TeamMenu_OnCommand(t)
  \/ \E p \in ClassMenus, cancel \in BOOLEAN : ClassMenu_OnCommand(p, cancel)
  \/ \E p \in BuyMenus \cup EquipMenus :
       BuySubMenu_OnCommand(p) \/ BuyMenu_OnClose(p)
  \/ \E resized \in BOOLEAN : OnThink(resized)
  \/ \E newLevel \in BOOLEAN : VidInit(newLevel)
  \/ \E t \in Teams \cup {NoTeam} : SetTeam(t)
  \/ StartIntermission

Spec == Init /\ [][Next]_vars

-----------------------------------------------------------------------------
(***************************************************************************)
(* What a player may rely on.                                              *)
(***************************************************************************)

\* "Visible VGUI menus/backgrounds own mouse input; don't let clicks leak into
\* weapons" (input.cpp, CL_CreateMove): VGUI2_ShouldCaptureInput looks at the
\* active panel and the background only, so every visible panel, however it was
\* opened and whatever was closed before, must have one of the two.
ShouldCaptureInput == ui.m_pActivePanel # NoPanel \/ ui.background
ClicksDoNotLeak == ui.visible # {} => ShouldCaptureInput

\* A panel that was told to open but is not on the screen was refused by an
\* intermission: it may stay in m_pActivePanel or m_pLastActivePanel, and no
\* other panel may.
Dead(p) == p \notin ui.visible /\ p # NoPanel
DeadPanelsAreRefused ==
  /\ Dead(ui.m_pActivePanel) => Refused(ui.m_pActivePanel)
  /\ Dead(ui.m_pLastActivePanel) => Refused(ui.m_pLastActivePanel)

\* "... so we don't bring up dead panels if they are stored as the last active
\* panel" (CBaseViewport::OnThink): no frame makes a panel appear by itself,
\* although OnThink does ask the last active panel to show itself.
NothingRevived ==
  [][(\E resized \in BOOLEAN : OnThink(resized)) =>
       ui'.visible \subseteq ui.visible]_vars

\* The background, which takes the mouse from the game, never stays or appears
\* without a panel: only VidInit and a resize leave it behind.
NoOrphanBackGround ==
  [][ui'.background /\ ui'.visible = {} =>
       \/ ui.background /\ ui.visible = {}
       \/ \E newLevel \in BOOLEAN : VidInit(newLevel)
       \/ OnThink(TRUE)]_vars

\* A team menu that was deferred "until MOTD closes" (menu.cpp) is on the
\* screen once the MOTD is closed, whichever panels were stacked with it and
\* whether or not all of its text had arrived.
DeferredMenuIsShown ==
  [][CloseMOTD /\ m_bPendingVGUIMenu /\ ~m_iIntermission /\ ~isPlayingback =>
       TeamMenu \in ui'.visible /\ ~m_bPendingVGUIMenu']_vars

\* The promise of MenuStack, with the MOTD and the buy menus as overlays.
Stack == INSTANCE MenuStack WITH
  Overlays <- {MOTD} \cup BuyMenus,
  Nobody   <- NoPanel,
  shown    <- ui.visible,
  focus    <- IF ui.m_pActivePanel \in ui.visible THEN ui.m_pActivePanel
                                                  ELSE NoPanel

\* Every behaviour of the menus is one of the stack of menus: panels that are
\* no overlays open alone and own the keyboard, and closing clears the screen.
KeepsStack == Stack!StackSpec

\* The inductive invariant behind these properties: besides the dead panels,
\* whatever is visible has the background, and a panel that is no overlay is
\* visible only while it is the active one.
MenuInv ==
  /\ TypeOK
  /\ DeadPanelsAreRefused
  /\ ui.visible # {} => ui.background
  /\ ui.visible \subseteq {MOTD, ui.m_pActivePanel} \cup BuyMenus

-----------------------------------------------------------------------------
(***************************************************************************)
(* What comments of the code say and the code does not keep.               *)
(***************************************************************************)

\* "menu is overriding slot use commands" (ammo.cpp, SelectSlot): the slot keys
\* are taken from the weapons only while there is a menu to choose from.
SlotKeysHaveMenu ==
  m_fMenuDisplayed => ui.visible # {} \/ textMenu \/ touchMenu

\* "deferred team menu until MOTD closes" (menu.cpp): a team menu is only kept
\* back while there is a MOTD whose closing will show it.
DeferredMenuHasMOTD == m_bPendingVGUIMenu => IsMOTDActive
=============================================================================
