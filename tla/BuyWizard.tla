------------------------------ MODULE BuyWizard ------------------------------
(***************************************************************************)
(* Inside a buy menu: the wizard that walks the player through submenus    *)
(* (cl_dll/vgui2: CBuyMenu, CBuySubMenu, CCSBaseBuyMenu; vgui_controls:    *)
(* WizardPanel).  Each submenu creates, keeps and deletes the submenus     *)
(* opened from it, while the wizard holds bare pointers to them: the one   *)
(* shown now and those the player came through.  Viewport decides when the *)
(* buy menu is shown; here every call it may make is an action.            *)
(*                                                                         *)
(* A click and what it posts are handled in one dispatch of CVGui, so each *)
(* is one step.                                                            *)
(***************************************************************************)
EXTENDS Naturals, FiniteSets

CONSTANTS
  Panels,       \* submenus there is memory for; a deleted one may be reused
  m_pMainMenu,  \* the first page, created with the buy menu
  NoPanel,      \* the null pointer
  Files         \* resource files of the submenus

ASSUME PanelsAssumption == m_pMainMenu \in Panels /\ NoPanel \notin Panels

VARIABLE
  wizard   \* the buy menu and its submenus, the operators below go from one
           \* value of it to the next

vars == <<wizard>>

\* m_SubMenus holds the SubMenuEntry_t of all submenus, with their owner.  Of
\* _subPanelStack only the set of its panels is kept: the previous button, which
\* alone pops it, is never shown in a buy menu.
Wizards ==
  [visible : BOOLEAN,                                  \* the buy menu
   live : SUBSET Panels,                               \* not deleted
   shown : SUBSET Panels,                              \* SetVisible(true)
   m_SubMenus : SUBSET [owner : Panels, filename : Files, panel : Panels],
   m_NextPanel : [Panels -> Panels \cup {NoPanel}],
   _currentSubPanel : Panels \cup {NoPanel},
   _subPanelStack : SUBSET Panels]

TypeOK == wizard \in Wizards

\* LoadTeamResource has created the main page, hidden.
Init ==
  wizard = [visible |-> FALSE, live |-> {m_pMainMenu}, shown |-> {},
            m_SubMenus |-> {}, m_NextPanel |-> [p \in Panels |-> NoPanel],
            _currentSubPanel |-> NoPanel, _subPanelStack |-> {}]

-----------------------------------------------------------------------------
(***************************************************************************)
(* WizardPanel.                                                            *)
(***************************************************************************)
ResetHistory(w) == [w EXCEPT !._subPanelStack = {}]
ResetCurrentSubPanel(w) == [w EXCEPT !._currentSubPanel = NoPanel]

\* Whatever was current becomes history, also if nothing was.
ActivateNextSubPanel_NoCheck(w, p) ==
  [w EXCEPT !._subPanelStack = @ \cup {w._currentSubPanel},
            !._currentSubPanel = p,
            !.shown = (@ \ {w._currentSubPanel}) \cup {p}]

\* The previous panel becomes history but stays on the screen.
ActivateNextSubPanel_NoHide(w, p) ==
  [w EXCEPT !._subPanelStack = @ \cup ({w._currentSubPanel} \ {NoPanel}),
            !._currentSubPanel = p,
            !.shown = @ \cup {p}]

\* The previous panel is hidden and becomes history.
ActivateNextSubPanel(w, p) ==
  [w EXCEPT !._subPanelStack = @ \cup ({w._currentSubPanel} \ {NoPanel}),
            !._currentSubPanel = p,
            !.shown = (@ \ {w._currentSubPanel}) \cup {p}]

\* No submenu asks to be skipped.
Run(w, p) == [ActivateNextSubPanel(w, p) EXCEPT !.visible = TRUE]

\* OnCancelButton: without a current panel the wizard stays as it is.
OnCancelButton(w) ==
  IF w._currentSubPanel = NoPanel THEN w ELSE [w EXCEPT !.visible = FALSE]

-----------------------------------------------------------------------------
(***************************************************************************)
(* CBuySubMenu.                                                            *)
(***************************************************************************)
\* A set of panels that misses none of the submenus of its members.
HasSubMenus(w, S) == \A e \in w.m_SubMenus : e.owner \in S => e.panel \in S

\* The submenus of p, theirs and so on: they are in each such set with p.
SubPanels(w, p) ==
  {q \in Panels \ {p} :
     \A S \in SUBSET Panels : p \in S /\ HasSubMenus(w, S) => q \in S}

\* Deletes the submenus of p but not theirs.
DeleteSubPanels_Shallow(w, p) ==
  LET gone == {e.panel : e \in {s \in w.m_SubMenus : s.owner = p}}
  IN  [w EXCEPT !.live = @ \ gone, !.shown = @ \ gone,
                !.m_SubMenus = {e \in @ : e.owner \notin gone \cup {p}},
                !.m_NextPanel[p] = NoPanel]

DeleteSubPanels(w, p) ==
  LET gone == SubPanels(w, p)
  IN  [w EXCEPT !.live = @ \ gone, !.shown = @ \ gone,
                !.m_SubMenus = {e \in @ : e.owner \notin gone \cup {p}},
                !.m_NextPanel[p] = NoPanel]

\* The submenu p has for a file, or whichever memory a new one gets.
SubMenusFor(w, p, file) ==
  LET known == {e \in w.m_SubMenus : e.owner = p /\ e.filename = file}
  IN  IF known # {} THEN {e.panel : e \in known} ELSE Panels \ w.live

\* q is one of SubMenusFor(w, p, file).
SetupNextSubPanel(w, p, file, q) ==
  [w EXCEPT !.live = @ \cup {q},
            !.m_SubMenus = @ \cup {[owner |-> p, filename |-> file, panel |-> q]},
            !.m_NextPanel =
              [x \in Panels |-> IF x = p THEN q
                                 ELSE IF x \in w.live THEN w.m_NextPanel[x]
                                 ELSE NoPanel]]

GotoNextSubPanel(w, p) ==
  IF w.m_NextPanel[p] = NoPanel THEN w ELSE Run(w, w.m_NextPanel[p])

-----------------------------------------------------------------------------
(***************************************************************************)
(* CBuyMenu and CCSBaseBuyMenu.                                            *)
(***************************************************************************)
\* Forgets the way back but not where the wizard is.
ResetMenuState_KeepsCurrent(w) ==
  LET u == DeleteSubPanels(ResetHistory(w), m_pMainMenu)
  IN  [u EXCEPT !.shown = @ \ {m_pMainMenu}]

ResetMenuState(w) ==
  LET u == DeleteSubPanels(ResetCurrentSubPanel(ResetHistory(w)), m_pMainMenu)
  IN  [u EXCEPT !.shown = @ \ {m_pMainMenu}]

\* ShowPanel(true); the viewport and an intermission may keep it from coming.
Open(w) == IF w.visible THEN w ELSE Run(w, m_pMainMenu)

\* ShowPanel(false).
Hide(w) == IF w.visible THEN [ResetMenuState(w) EXCEPT !.visible = FALSE] ELSE w

RunMainMenu(w) ==
  IF w._currentSubPanel = m_pMainMenu THEN w ELSE Run(w, m_pMainMenu)

ShowPanel(bShow) ==
  /\ wizard.visible # bShow
  /\ wizard' = IF bShow THEN Open(wizard) ELSE Hide(wizard)

\* A page the server asks for; opened says whether the viewport let
\* ShowPanel(true) through, the wizard runs either way.
ActivateMenu(file, opened) ==
  LET w == RunMainMenu(IF opened THEN Open(wizard) ELSE wizard) IN
  \E q \in SubMenusFor(w, m_pMainMenu, file) :
    wizard' = GotoNextSubPanel(SetupNextSubPanel(w, m_pMainMenu, file, q),
                               m_pMainMenu)

\* A click on the page p that opens another page.
OnCommand_Resource(p, file) ==
  /\ wizard.visible /\ p \in wizard.shown
  /\ \E q \in SubMenusFor(wizard, p, file) :
       wizard' = GotoNextSubPanel(SetupNextSubPanel(wizard, p, file, q), p)

\* A click on the page p that buys something, or cancels.
OnCommand_Close(p) ==
  /\ wizard.visible /\ p \in wizard.shown
  /\ wizard' = Hide(wizard)

\* The message of the cancel button arrives before the menu is hidden.
OnClose_CancelFirst ==
  /\ wizard.visible
  /\ wizard' = Hide(OnCancelButton(ResetHistory(wizard)))

\* The escape key.  WizardPanel::OnClose clicks the cancel button, whose message
\* is dispatched after ShowBackGround(false) has hidden the menu.
OnClose ==
  /\ wizard.visible
  /\ wizard' = OnCancelButton(Hide(ResetHistory(wizard)))

\* A new level hides the frame and nothing else.
VidInit ==
  /\ wizard.visible
  /\ wizard' = [wizard EXCEPT !.visible = FALSE]

Next ==
  \/ \E bShow \in BOOLEAN : ShowPanel(bShow)
  \/ \E file \in Files, opened \in BOOLEAN : ActivateMenu(file, opened)
  \/ \E p \in Panels, file \in Files : OnCommand_Resource(p, file)
  \/ \E p \in Panels : OnCommand_Close(p)
  \/ OnClose
  \/ VidInit

Spec == Init /\ [][Next]_vars

-----------------------------------------------------------------------------
(***************************************************************************)
(* What the wizard and the submenus owe each other.                        *)
(***************************************************************************)
\* No pointer outlives its panel, however pages were opened, cached, left by a
\* level change and deleted (CBuyMenu::ResetMenuState, DeleteSubPanels): neither
\* the current page, nor the history, nor what a page goes to next.
PointersAreLive ==
  /\ m_pMainMenu \in wizard.live
  /\ wizard._currentSubPanel \in wizard.live \cup {NoPanel}
  /\ wizard._subPanelStack \subseteq wizard.live
  /\ \A p \in wizard.live : wizard.m_NextPanel[p] \in wizard.live \cup {NoPanel}

\* DeleteSubPanels deletes every submenu, and none twice: each is kept by one
\* other page, and all are found from the main one.
DeletedOnce ==
  /\ \A d, e \in wizard.m_SubMenus : d.panel = e.panel => d = e
  /\ wizard.live = {m_pMainMenu} \cup SubPanels(wizard, m_pMainMenu)

\* The player sees one page, the current one, and never an empty buy menu
\* (WizardPanel::Run, CBuyMenu::ResetMenuState).
OnePageShown ==
  /\ wizard.shown \subseteq {wizard._currentSubPanel}
  /\ wizard.visible => wizard._currentSubPanel \in wizard.shown

\* However the player closes the buy menu, or the viewport does, its next
\* opening is a fresh start; a level change alone keeps the pages.
ClosingStartsAfresh ==
  [][OnClose \/ ShowPanel(FALSE) \/ (\E p \in Panels : OnCommand_Close(p)) =>
       /\ ~wizard'.visible /\ wizard'.shown = {}
       /\ wizard'.live = {m_pMainMenu}
       /\ wizard'._currentSubPanel = NoPanel
       /\ wizard'._subPanelStack = {}]_vars
=============================================================================
