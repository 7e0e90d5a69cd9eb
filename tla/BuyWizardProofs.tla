--------------------------- MODULE BuyWizardProofs ---------------------------
(***************************************************************************)
(* Proofs about BuyWizard, for any number of submenus and resources: no    *)
(* pointer of the wizard outlives its panel, each submenu is deleted once, *)
(* one page is shown, and closing starts afresh.  Sound is what every      *)
(* operator keeps of a wizard; the argument is that ResetMenuState, the    *)
(* only step that deletes, leaves the main page and no pointer to another. *)
(***************************************************************************)
EXTENDS BuyWizard, TLAPS

\* The entries name live panels, none of them the main page, and none twice.
Kept(w) ==
  /\ \A e \in w.m_SubMenus : /\ e.owner \in w.live
                             /\ e.panel \in w.live \ {m_pMainMenu}
  /\ \A d, e \in w.m_SubMenus : d.panel = e.panel => d = e
  /\ w.live = {m_pMainMenu} \cup SubPanels(w, m_pMainMenu)

\* PointersAreLive, of any wizard.
Live(w) ==
  /\ m_pMainMenu \in w.live
  /\ w._currentSubPanel \in w.live \cup {NoPanel}
  /\ w._subPanelStack \subseteq w.live
  /\ \A p \in w.live : w.m_NextPanel[p] \in w.live \cup {NoPanel}

\* OnePageShown, of any wizard.
OnePage(w) ==
  /\ w.shown \subseteq {w._currentSubPanel}
  /\ w.visible => w._currentSubPanel \in w.shown

Sound(w) == w \in Wizards /\ Kept(w) /\ Live(w) /\ OnePage(w)

\* What a closed wizard has left.
Fresh(w) ==
  /\ ~w.visible /\ w.shown = {} /\ w.live = {m_pMainMenu}
  /\ w._currentSubPanel = NoPanel /\ w._subPanelStack = {}

-----------------------------------------------------------------------------
\* Activating a live panel keeps the wizard sound and deletes nothing.
LEMMA RunSound ==
  ASSUME NEW w, Sound(w), NEW p \in w.live
  PROVE  /\ Sound(Run(w, p))
         /\ Run(w, p).live = w.live
         /\ Run(w, p).m_SubMenus = w.m_SubMenus
         /\ Run(w, p).m_NextPanel = w.m_NextPanel
         /\ Run(w, p)._currentSubPanel = p
<1> DEFINE r == Run(w, p)
<1>1. w \in Wizards /\ p \in Panels /\ w._currentSubPanel \in w.live \cup {NoPanel}
  BY DEF Sound, Wizards, Live
<1>2. /\ r.visible = TRUE
      /\ r.live = w.live
      /\ r.m_SubMenus = w.m_SubMenus
      /\ r.m_NextPanel = w.m_NextPanel
      /\ r._currentSubPanel = p
      /\ r.shown = (w.shown \ {w._currentSubPanel}) \cup {p}
      /\ r._subPanelStack = w._subPanelStack \cup ({w._currentSubPanel} \ {NoPanel})
  BY <1>1 DEF Run, ActivateNextSubPanel, Wizards
<1>3. r \in Wizards
  BY <1>1, PanelsAssumption DEF Run, ActivateNextSubPanel, Wizards
<1>4. Kept(r)
  BY <1>2 DEF Sound, Kept, SubPanels, HasSubMenus
<1>5. Live(r)
  BY <1>1, <1>2 DEF Sound, Live
<1>6. OnePage(r)
  BY <1>2 DEF Sound, OnePage
<1> QED
  BY <1>2, <1>3, <1>4, <1>5, <1>6 DEF Sound

\* A submenu taken from the cache or made new is live and found from the main
\* page; nothing else changes.
LEMMA SetupSound ==
  ASSUME NEW w, Sound(w), NEW p \in w.live, NEW file \in Files,
         NEW q \in SubMenusFor(w, p, file)
  PROVE  LET r == SetupNextSubPanel(w, p, file, q)
         IN  Sound(r) /\ r.m_NextPanel[p] = q /\ p \in r.live /\ q \in r.live
<1> DEFINE entry == [owner |-> p, filename |-> file, panel |-> q]
           r == SetupNextSubPanel(w, p, file, q)
<1>1. w \in Wizards /\ p \in Panels /\ m_pMainMenu \in w.live
  BY DEF Sound, Wizards, Live
<1>2. \/ entry \in w.m_SubMenus /\ q \in w.live
      \/ q \in Panels \ w.live
  <2>1. CASE q \in Panels \ w.live
    BY <2>1
  <2>2. CASE \E e \in w.m_SubMenus :
               e.owner = p /\ e.filename = file /\ q = e.panel
    <3>1. PICK e \in w.m_SubMenus : e.owner = p /\ e.filename = file /\ q = e.panel
      BY <2>2
    <3>2. e \in [owner : Panels, filename : Files, panel : Panels]
      BY <1>1 DEF Wizards
    <3>3. e = entry
      BY <3>1, <3>2
    <3> QED
      BY <3>1, <3>3 DEF Sound, Kept
  <2> QED
    BY <2>1, <2>2 DEF SubMenusFor
<1>3. q \in Panels
  BY <1>1, <1>2 DEF Wizards
<1>4. /\ r.visible = w.visible
      /\ r.live = w.live \cup {q}
      /\ r.shown = w.shown
      /\ r.m_SubMenus = w.m_SubMenus \cup {entry}
      /\ r.m_NextPanel = [x \in Panels |->
                            IF x = p THEN q
                              ELSE IF x \in w.live THEN w.m_NextPanel[x]
                              ELSE NoPanel]
      /\ r._currentSubPanel = w._currentSubPanel
      /\ r._subPanelStack = w._subPanelStack
  BY <1>1 DEF SetupNextSubPanel, Wizards
<1>5. r.m_NextPanel \in [Panels -> Panels \cup {NoPanel}] /\ r.m_NextPanel[p] = q
  BY <1>1, <1>3, <1>4 DEF Wizards
<1>6. r \in Wizards
  <2> DEFINE live == w.live \cup {q}
             subMenus == w.m_SubMenus \cup {entry}
             next == r.m_NextPanel
  <2>1. /\ live \in SUBSET Panels
        /\ subMenus \in SUBSET [owner : Panels, filename : Files, panel : Panels]
        /\ next \in [Panels -> Panels \cup {NoPanel}]
    BY <1>1, <1>3, <1>5 DEF Wizards
  <2>2. r = [w EXCEPT !.live = live, !.m_SubMenus = subMenus, !.m_NextPanel = next]
    BY <1>4 DEF SetupNextSubPanel
  <2> HIDE DEF live, subMenus, next, r
  <2> QED
    BY <1>1, <2>1, <2>2 DEF Wizards
<1>7. Live(r)
  <2>1. ASSUME NEW x \in r.live
        PROVE  r.m_NextPanel[x] \in r.live \cup {NoPanel}
    <3>1. CASE x = p
      BY <3>1, <1>4, <1>5
    <3>2. CASE x # p /\ x = q
      BY <3>2, <1>1, <1>3, <1>4 DEF Wizards, Sound, Live
    <3>3. CASE x # p /\ x # q
      BY <3>3, <1>1, <1>3, <1>4 DEF Wizards, Sound, Live
    <3> QED
      BY <3>1, <3>2, <3>3
  <2> QED
    BY <1>4, <2>1 DEF Sound, Live
<1>8. OnePage(r)
  BY <1>4 DEF Sound, OnePage
<1>9. Kept(r)
  <2>1. q # m_pMainMenu
    BY <1>1, <1>2 DEF Sound, Kept
  <2>2. \A e \in r.m_SubMenus : e.owner \in r.live /\ e.panel \in r.live \ {m_pMainMenu}
    BY <1>4, <2>1 DEF Sound, Kept
  <2>3. \A d, e \in r.m_SubMenus : d.panel = e.panel => d = e
    BY <1>2, <1>4 DEF Sound, Kept
  <2>4. r.live \subseteq {m_pMainMenu} \cup SubPanels(r, m_pMainMenu)
    <3> SUFFICES ASSUME NEW x \in r.live, x # m_pMainMenu
                 PROVE  x \in SubPanels(r, m_pMainMenu)
      OBVIOUS
    <3>1. x \in Panels
      BY <1>6 DEF Wizards
    <3>2. ASSUME NEW S \in SUBSET Panels, m_pMainMenu \in S, HasSubMenus(r, S)
          PROVE  x \in S
      <4>1. HasSubMenus(w, S)
        BY <1>4, <3>2 DEF HasSubMenus
      <4>2. w.live \subseteq S
        <5> SUFFICES ASSUME NEW y \in w.live, y # m_pMainMenu PROVE y \in S
          BY <3>2
        <5>1. y \in SubPanels(w, m_pMainMenu)
          BY DEF Sound, Kept
        <5> QED
          BY <5>1, <4>1, <3>2 DEF SubPanels
      <4>3. q \in S
        <5>1. entry \in r.m_SubMenus /\ entry.owner = p /\ entry.panel = q
          BY <1>4
        <5>2. entry.owner \in S
          BY <5>1, <4>2
        <5>3. \A e \in r.m_SubMenus : e.owner \in S => e.panel \in S
          BY <3>2 DEF HasSubMenus
        <5> HIDE DEF entry, r
        <5> QED
          BY <5>1, <5>2, <5>3
      <4> QED
        BY <1>4, <4>2, <4>3
    <3> HIDE DEF r
    <3> QED
      BY <3>1, <3>2 DEF SubPanels
  <2>5. SubPanels(r, m_pMainMenu) \subseteq r.live
    <3>1. r.live \in SUBSET Panels /\ m_pMainMenu \in r.live
      BY <1>6, <1>7 DEF Wizards, Live
    <3>2. HasSubMenus(r, r.live)
      BY <2>2 DEF HasSubMenus
    <3> QED
      BY <3>1, <3>2 DEF SubPanels
  <2>6. m_pMainMenu \in r.live
    BY <1>7 DEF Live
  <2> QED
    BY <2>2, <2>3, <2>4, <2>5, <2>6 DEF Kept
<1> QED
  BY <1>4, <1>5, <1>6, <1>7, <1>8, <1>9 DEF Sound

\* After a reset only the main page is left, and no pointer to another.
LEMMA HideFresh ==
  ASSUME NEW w, Sound(w), w.visible
  PROVE  Sound(Hide(w)) /\ Fresh(Hide(w))
<1> DEFINE h == Hide(w)
           u == ResetCurrentSubPanel(ResetHistory(w))
           d == DeleteSubPanels(u, m_pMainMenu)
<1>1. w \in Wizards /\ m_pMainMenu \in Panels
  BY PanelsAssumption DEF Sound
<1>2. /\ u \in Wizards /\ u.live = w.live /\ u.shown = w.shown
      /\ u.m_SubMenus = w.m_SubMenus /\ u.m_NextPanel = w.m_NextPanel
      /\ u._currentSubPanel = NoPanel /\ u._subPanelStack = {}
      /\ u.visible = w.visible
  BY <1>1 DEF ResetCurrentSubPanel, ResetHistory, Wizards
<1>3. SubPanels(u, m_pMainMenu) = w.live \ {m_pMainMenu}
  <2>1. SubPanels(u, m_pMainMenu) = SubPanels(w, m_pMainMenu)
    BY <1>2 DEF SubPanels, HasSubMenus
  <2> QED
    BY <2>1 DEF Sound, Kept, SubPanels
<1>4. /\ d.live = w.live \ SubPanels(u, m_pMainMenu)
      /\ d.shown = w.shown \ SubPanels(u, m_pMainMenu)
      /\ d.m_SubMenus = {e \in w.m_SubMenus :
                           e.owner \notin SubPanels(u, m_pMainMenu) \cup {m_pMainMenu}}
      /\ d.m_NextPanel = [w.m_NextPanel EXCEPT ![m_pMainMenu] = NoPanel]
      /\ d._currentSubPanel = NoPanel /\ d._subPanelStack = {}
      /\ d.visible = w.visible
  BY <1>2 DEF DeleteSubPanels, Wizards
<1>5. d \in Wizards
  BY <1>1, <1>2 DEF DeleteSubPanels, Wizards
<1> DEFINE v == [d EXCEPT !.shown = @ \ {m_pMainMenu}]
<1>6. /\ v = ResetMenuState(w) /\ h = [v EXCEPT !.visible = FALSE]
      /\ v \in Wizards /\ v.live = d.live /\ v.shown = d.shown \ {m_pMainMenu}
      /\ v.m_SubMenus = d.m_SubMenus /\ v.m_NextPanel = d.m_NextPanel
      /\ v._currentSubPanel = d._currentSubPanel
      /\ v._subPanelStack = d._subPanelStack
  <2>1. v = ResetMenuState(w)
    BY DEF ResetMenuState
  <2>2. h = [v EXCEPT !.visible = FALSE]
    BY <2>1 DEF Hide
  <2> HIDE DEF d
  <2> QED
    BY <1>5, <2>1, <2>2 DEF Wizards
<1>7. /\ h \in Wizards /\ h.live = d.live /\ h.shown = d.shown \ {m_pMainMenu}
      /\ h.m_SubMenus = d.m_SubMenus /\ h.m_NextPanel = d.m_NextPanel
      /\ h._currentSubPanel = NoPanel /\ h._subPanelStack = {} /\ ~h.visible
  <2> HIDE DEF d, v, h
  <2> QED
    BY <1>4, <1>6 DEF Wizards
<1>8. h.live = {m_pMainMenu}
  BY <1>3, <1>4, <1>7 DEF Sound, Live
<1>9. h.m_SubMenus = {}
  BY <1>3, <1>4, <1>7 DEF Sound, Kept
<1>10. h.shown = {}
  <2>1. w.shown \subseteq w.live
    BY <1>1, PanelsAssumption DEF Sound, OnePage, Live, Wizards
  <2> QED
    BY <2>1, <1>3, <1>4, <1>7
<1>11. h.m_NextPanel[m_pMainMenu] = NoPanel
  BY <1>1, <1>4, <1>7 DEF Wizards
<1>12. Live(h)
  BY <1>7, <1>8, <1>11 DEF Live
<1>13. OnePage(h)
  BY <1>7, <1>10 DEF OnePage
<1>14. Kept(h)
  <2>1. SubPanels(h, m_pMainMenu) = {}
    <3>1. HasSubMenus(h, {m_pMainMenu}) /\ {m_pMainMenu} \in SUBSET Panels
      BY <1>1, <1>9 DEF HasSubMenus
    <3> QED
      BY <3>1 DEF SubPanels
  <2> QED
    BY <2>1, <1>8, <1>9 DEF Kept
<1> QED
  BY <1>7, <1>8, <1>10, <1>12, <1>13, <1>14 DEF Sound, Fresh

\* ShowPanel(true) comes to the main page.
LEMMA OpenSound ==
  ASSUME NEW w, Sound(w)
  PROVE  Sound(Open(w)) /\ m_pMainMenu \in Open(w).live
BY RunSound DEF Open, Sound, Live

\* The first page and the one asked for are run one after the other.
LEMMA RunMainMenuSound ==
  ASSUME NEW w, Sound(w)
  PROVE  Sound(RunMainMenu(w)) /\ m_pMainMenu \in RunMainMenu(w).live
BY RunSound DEF RunMainMenu, Sound, Live

\* Creating or finding a submenu, and going to it.
LEMMA GotoSound ==
  ASSUME NEW w, Sound(w), NEW p \in w.live, NEW file \in Files,
         NEW q \in SubMenusFor(w, p, file)
  PROVE  Sound(GotoNextSubPanel(SetupNextSubPanel(w, p, file, q), p))
<1> DEFINE r == SetupNextSubPanel(w, p, file, q)
<1>1. Sound(r) /\ r.m_NextPanel[p] = q /\ q \in r.live
  BY SetupSound
<1>2. CASE q = NoPanel
  BY <1>1, <1>2 DEF GotoNextSubPanel
<1>3. CASE q # NoPanel
  <2>1. Sound(Run(r, q))
    BY <1>1, RunSound
  <2> QED
    BY <1>1, <1>3, <2>1 DEF GotoNextSubPanel
<1> QED
  BY <1>2, <1>3

-----------------------------------------------------------------------------
LEMMA InitSound == Init => Sound(wizard)
<1> SUFFICES ASSUME Init PROVE Sound(wizard)
  OBVIOUS
<1>1. wizard \in Wizards
  BY PanelsAssumption DEF Init, Wizards
<1>2. SubPanels(wizard, m_pMainMenu) = {}
  <2>1. HasSubMenus(wizard, {m_pMainMenu}) /\ {m_pMainMenu} \in SUBSET Panels
    BY PanelsAssumption DEF Init, HasSubMenus
  <2> QED
    BY <2>1 DEF SubPanels
<1>3. Kept(wizard)
  BY <1>2 DEF Init, Kept
<1>4. Live(wizard) /\ OnePage(wizard)
  BY PanelsAssumption DEF Init, Live, OnePage
<1> QED
  BY <1>1, <1>3, <1>4 DEF Sound

\* Escape: the cancel message finds no current page.
LEMMA OnCloseFresh ==
  Sound(wizard) /\ OnClose => Sound(wizard') /\ Fresh(wizard')
<1> SUFFICES ASSUME Sound(wizard), OnClose PROVE Sound(wizard') /\ Fresh(wizard')
  OBVIOUS
<1> DEFINE r == ResetHistory(wizard)
<1>1. /\ r \in Wizards /\ r.live = wizard.live /\ r.shown = wizard.shown
      /\ r.m_SubMenus = wizard.m_SubMenus /\ r.m_NextPanel = wizard.m_NextPanel
      /\ r._currentSubPanel = wizard._currentSubPanel /\ r._subPanelStack = {}
      /\ r.visible = wizard.visible
  BY DEF Sound, ResetHistory, Wizards
<1>2. Sound(r) /\ r.visible
  BY <1>1 DEF OnClose, Sound, Kept, Live, OnePage, SubPanels, HasSubMenus
<1>3. Sound(Hide(r)) /\ Fresh(Hide(r))
  BY <1>2, HideFresh
<1>4. wizard' = Hide(r)
  BY <1>3 DEF OnClose, OnCancelButton, Fresh
<1> QED
  BY <1>3, <1>4

LEMMA NextSound == Sound(wizard) /\ [Next]_vars => Sound(wizard')
<1> SUFFICES ASSUME Sound(wizard), [Next]_vars PROVE Sound(wizard')
  OBVIOUS
<1>0. wizard.shown \subseteq wizard.live
  BY PanelsAssumption DEF Sound, OnePage, Live, Wizards
<1>1. ASSUME NEW bShow \in BOOLEAN, ShowPanel(bShow) PROVE Sound(wizard')
  <2>1. wizard' = IF bShow THEN Open(wizard) ELSE Hide(wizard)
    BY <1>1 DEF ShowPanel
  <2>2. ~bShow => wizard.visible
    BY <1>1 DEF ShowPanel, Sound, Wizards
  <2> QED
    BY <2>1, <2>2, OpenSound, HideFresh
<1>2. ASSUME NEW file \in Files, NEW opened \in BOOLEAN, ActivateMenu(file, opened)
      PROVE  Sound(wizard')
  <2> DEFINE v == IF opened THEN Open(wizard) ELSE wizard
             w == RunMainMenu(v)
  <2>1. Sound(w) /\ m_pMainMenu \in w.live
    BY OpenSound, RunMainMenuSound
  <2>2. PICK q \in SubMenusFor(w, m_pMainMenu, file) :
          wizard' = GotoNextSubPanel(SetupNextSubPanel(w, m_pMainMenu, file, q),
                                     m_pMainMenu)
    BY <1>2 DEF ActivateMenu
  <2> HIDE DEF w
  <2> QED
    BY <2>1, <2>2, GotoSound
<1>3. ASSUME NEW p \in Panels, NEW file \in Files, OnCommand_Resource(p, file)
      PROVE  Sound(wizard')
  BY <1>0, <1>3, GotoSound DEF OnCommand_Resource
<1>4. ASSUME NEW p \in Panels, OnCommand_Close(p) PROVE Sound(wizard')
  BY <1>4, HideFresh DEF OnCommand_Close
<1>5. CASE OnClose
  BY <1>5, OnCloseFresh
<1>6. CASE VidInit
  <2>1. /\ wizard' \in Wizards /\ wizard'.live = wizard.live
        /\ wizard'.shown = wizard.shown /\ ~wizard'.visible
        /\ wizard'.m_SubMenus = wizard.m_SubMenus
        /\ wizard'.m_NextPanel = wizard.m_NextPanel
        /\ wizard'._currentSubPanel = wizard._currentSubPanel
        /\ wizard'._subPanelStack = wizard._subPanelStack
    BY <1>6 DEF VidInit, Sound, Wizards
  <2> QED
    BY <2>1 DEF Sound, Kept, Live, OnePage, SubPanels, HasSubMenus
<1>7. CASE UNCHANGED vars
  BY <1>7 DEF vars
<1> QED
  BY <1>1, <1>2, <1>3, <1>4, <1>5, <1>6, <1>7 DEF Next

Inv == Sound(wizard)

\* Inv is inductive.
THEOREM WizardInvariant == Spec => []Inv
<1>1. Init => Inv
  BY InitSound DEF Inv
<1>2. Inv /\ [Next]_vars => Inv'
  BY NextSound DEF Inv
<1> QED
  BY <1>1, <1>2, PTL DEF Spec

\* The wizard has its type.
THEOREM TypeCorrect == Spec => []TypeOK
<1>1. Inv => TypeOK
  BY DEF Inv, Sound, TypeOK
<1> QED
  BY <1>1, WizardInvariant, PTL

\* CBuyMenu::ResetMenuState: no pointer outlives its panel.
THEOREM PointersCorrect == Spec => []PointersAreLive
<1>1. Inv => PointersAreLive
  BY DEF Inv, Sound, Live, PointersAreLive
<1> QED
  BY <1>1, WizardInvariant, PTL

\* CBuySubMenu::DeleteSubPanels: every submenu is deleted, and none twice.
THEOREM DeletionCorrect == Spec => []DeletedOnce
<1>1. Inv => DeletedOnce
  BY DEF Inv, Sound, Kept, DeletedOnce
<1> QED
  BY <1>1, WizardInvariant, PTL

\* WizardPanel::Run: one page is shown, and a visible buy menu has it.
THEOREM OnePageCorrect == Spec => []OnePageShown
<1>1. Inv => OnePageShown
  BY DEF Inv, Sound, OnePage, OnePageShown
<1> QED
  BY <1>1, WizardInvariant, PTL

\* Every way to close the buy menu makes the next opening a fresh start.
THEOREM ClosingCorrect == Spec => ClosingStartsAfresh
<1> DEFINE Closing == OnClose \/ ShowPanel(FALSE) \/ \E p \in Panels : OnCommand_Close(p)
<1>1. Inv /\ Closing => Fresh(wizard')
  <2> SUFFICES ASSUME Sound(wizard), Closing PROVE Fresh(wizard')
    BY DEF Inv
  <2>1. CASE OnClose
    BY <2>1, OnCloseFresh
  <2>2. CASE ShowPanel(FALSE)
    <3>1. wizard.visible /\ wizard' = Hide(wizard)
      BY <2>2 DEF ShowPanel, Sound, Wizards
    <3> QED
      BY <3>1, HideFresh
  <2>3. CASE \E p \in Panels : OnCommand_Close(p)
    BY <2>3, HideFresh DEF OnCommand_Close
  <2> QED
    BY <2>1, <2>2, <2>3
<1>2. Inv /\ [Next]_vars =>
        [Closing => /\ ~wizard'.visible /\ wizard'.shown = {}
                    /\ wizard'.live = {m_pMainMenu}
                    /\ wizard'._currentSubPanel = NoPanel
                    /\ wizard'._subPanelStack = {}]_vars
  BY <1>1 DEF Fresh
<1> QED
  BY <1>2, WizardInvariant, PTL DEF Spec, ClosingStartsAfresh
=============================================================================
