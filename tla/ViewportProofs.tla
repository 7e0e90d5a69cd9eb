---------------------------- MODULE ViewportProofs ----------------------------
(***************************************************************************)
(* Proofs about Viewport for any set of teams: every panel operator keeps  *)
(* the viewport sound, and so does every action; from that follow the      *)
(* safety properties, and that the menus implement MenuStack.              *)
(***************************************************************************)
EXTENDS Viewport, TLAPS

\* A panel that is stored in state u of the viewport is on the screen, or was
\* refused.
ShownOrRefused(u, p) == p \in u.visible \cup {NoPanel} \/ Refused(p)

\* MenuInv, of a state u of the viewport.
Sound(u) ==
  /\ u \in Viewports
  /\ ShownOrRefused(u, u.m_pActivePanel)
  /\ ShownOrRefused(u, u.m_pLastActivePanel)
  /\ u.visible # {} => u.background
  /\ u.visible \subseteq {MOTD, u.m_pActivePanel} \cup BuyMenus

\* The panel that MenuStack gives the keyboard.
Focus(u) == IF u.m_pActivePanel \in u.visible THEN u.m_pActivePanel ELSE NoPanel

\* Nothing on the screen and nothing to bring back.
Cleared(u) ==
  u.visible = {} /\ u.m_pActivePanel = NoPanel /\ u.m_pLastActivePanel = NoPanel

\* From u to w nothing but refused panels, and perhaps the background, changed.
Same(u, w) == w.visible = u.visible /\ Focus(w) = Focus(u)

Kept(u, w) == Same(u, w) /\ w.background = u.background

\* From u to w panel p opened on a screen without others.
Opened(u, w, p) ==
  u.visible \subseteq {p} /\ w.visible = {p} /\ w.m_pActivePanel = p

\* From u to w overlay p appeared.
Overlaid(u, w, p) ==
  /\ p \in {MOTD} \cup BuyMenus
  /\ w.visible = u.visible \cup {p}
  /\ Focus(w) = Focus(u) \/ (Focus(u) = NoPanel /\ Focus(w) = p)

\* From u to w the screen was cleared for panel p.
Replaced(u, w, p) ==
  u.visible # {} /\ w.visible = {p} /\ w.m_pActivePanel = p

\* From u to w nothing was closed.
Grew(u, w) ==
  Kept(u, w) \/ \E p \in Panels : Opened(u, w, p) \/ Overlaid(u, w, p)

\* From u to w the viewport made a step that MenuStack allows.
StackStep(u, w) ==
  \/ Same(u, w)
  \/ Grew(u, w)
  \/ w.visible = {}
  \/ \E p \in Panels : Replaced(u, w, p)

LEMMA PanelTypes ==
  /\ MOTD \in Panels /\ TeamMenu \in Panels
  /\ \A t \in Teams :
       /\ ClassMenu[t] \in Panels /\ EquipMenu[t] \in Panels
       /\ BuyMenu[t] \in BuyMenus
  /\ BuyMenus \subseteq Panels /\ ClassMenus \subseteq Panels
  /\ NoPanel \notin Panels
  BY PanelsAssumption DEF Panels, BuyMenus, EquipMenus, ClassMenus

LEMMA ClearedIsSound ==
  ASSUME NEW u \in Viewports, Cleared(u)
  PROVE  Sound(u)
  BY DEF Cleared, Sound, ShownOrRefused, Viewports

LEMMA HideAllClears ==
  ASSUME NEW u \in Viewports
  PROVE  HideAll(u) \in Viewports /\ Cleared(HideAll(u))
  BY DEF HideAll, Viewports, Cleared

LEMMA HideBackGround ==
  ASSUME NEW u \in Viewports
  PROVE  /\ ShowBackGround(u, FALSE) \in Viewports
         /\ Cleared(ShowBackGround(u, FALSE))
         /\ ~ShowBackGround(u, FALSE).background
<1>1. ShowBackGround(u, FALSE) = [HideAll(u) EXCEPT !.background = FALSE]
  BY DEF ShowBackGround
<1> QED
  BY <1>1, HideAllClears DEF Viewports, Cleared

LEMMA ShowTheBackGround ==
  ASSUME NEW u \in Viewports
  PROVE  /\ ShowBackGround(u, TRUE) \in Viewports
         /\ ShowBackGround(u, TRUE).background
         /\ ShowBackGround(u, TRUE).visible = u.visible
         /\ ShowBackGround(u, TRUE).m_pActivePanel = u.m_pActivePanel
         /\ ShowBackGround(u, TRUE).m_pLastActivePanel = u.m_pLastActivePanel
  BY DEF ShowBackGround, Viewports

\* Close of a panel, however it was opened.
LEMMA CloseFrameClears ==
  ASSUME NEW u \in Viewports, NEW p
  PROVE  /\ CloseFrame(u, p) \in Viewports
         /\ Cleared(CloseFrame(u, p))
         /\ ~CloseFrame(u, p).background
<1>1. [u EXCEPT !.visible = @ \ {p}] \in Viewports
  BY DEF Viewports
<1> QED
  BY <1>1, HideBackGround DEF CloseFrame

LEMMA PanelHideClears ==
  ASSUME NEW u \in Viewports, NEW p \in u.visible
  PROVE  /\ PanelHide(u, p) \in Viewports
         /\ Cleared(PanelHide(u, p))
         /\ ~PanelHide(u, p).background
<1>1. [u EXCEPT !.visible = @ \ {p}] \in Viewports
  BY DEF Viewports
<1> QED
  BY <1>1, HideBackGround DEF PanelHide

\* p->ShowPanel(true) on a screen without others.
LEMMA PanelShowOpens ==
  ASSUME NEW u \in Viewports, NEW p \in Panels, u.visible \subseteq {p},
         u.visible # {} => u.background, ~Refused(p)
  PROVE  /\ PanelShow(u, p) \in Viewports
         /\ PanelShow(u, p).visible = {p}
         /\ PanelShow(u, p).background
         /\ PanelShow(u, p).m_pActivePanel = u.m_pActivePanel
         /\ PanelShow(u, p).m_pLastActivePanel = u.m_pLastActivePanel
<1>1. CASE p \in u.visible /\ p \notin ClassMenus
  <2>1. PanelShow(u, p) = u
    BY <1>1 DEF PanelShow, LaysOutFirst
  <2>2. u.visible = {p}
    BY <1>1
  <2> QED
    BY <2>1, <2>2
<1>2. CASE ~(p \in u.visible /\ p \notin ClassMenus)
  <2> DEFINE v == [u EXCEPT !.visible = @ \cup {p}]
  <2>1. /\ v \in Viewports
        /\ v.visible = {p}
        /\ v.m_pActivePanel = u.m_pActivePanel
        /\ v.m_pLastActivePanel = u.m_pLastActivePanel
    BY DEF Viewports
  <2>2. PanelShow(u, p) = ShowBackGround(v, TRUE)
    BY <1>2 DEF PanelShow, LaysOutFirst
  <2> HIDE DEF v
  <2> QED
    BY <2>1, <2>2, ShowTheBackGround
<1> QED
  BY <1>1, <1>2

\* Before p opens, the old active panel becomes the last one.  It is not on
\* the screen, so nothing else changes.
LEMMA DeactivateKeeps ==
  ASSUME NEW u \in Viewports, NEW p \in Panels, Sound(u), u.visible \subseteq {p}
  PROVE  /\ Deactivate(u, p) \in Viewports
         /\ Deactivate(u, p).visible = u.visible
         /\ Deactivate(u, p).background = u.background
         /\ ShownOrRefused(u, Deactivate(u, p).m_pLastActivePanel)
<1>1. CASE u.m_pActivePanel \in {NoPanel, p}
  BY <1>1 DEF Deactivate, Sound
<1>2. CASE u.m_pActivePanel \notin {NoPanel, p}
  <2> DEFINE v == [u EXCEPT !.m_pLastActivePanel = u.m_pActivePanel]
  <2>1. /\ v \in Viewports
        /\ v.visible = u.visible
        /\ v.background = u.background
        /\ v.m_pLastActivePanel = u.m_pActivePanel
    BY DEF Viewports
  <2>2. Deactivate(u, p) = v
    BY <1>2, <2>1 DEF Deactivate, PanelHide
  <2> HIDE DEF v
  <2> QED
    BY <2>1, <2>2 DEF Sound
<1> QED
  BY <1>1, <1>2

\* CBaseViewport::ShowPanel keeps the viewport sound.  It opens p on a screen
\* without others, or shows nothing new; an idle screen is not refused to a
\* panel that the game allows.
LEMMA ShowPanelStep ==
  ASSUME NEW u, NEW p \in Panels, Sound(u)
  PROVE  /\ Sound(ShowPanel(u, p))
         /\ Kept(u, ShowPanel(u, p)) \/ Opened(u, ShowPanel(u, p), p)
         /\ u.visible = {} /\ ~isPlayingback /\ ~Refused(p) =>
              Opened(u, ShowPanel(u, p), p)
<1> DEFINE d == Deactivate(u, p)
           v == [d EXCEPT !.m_pActivePanel = p]
<1>0. u \in Viewports
  BY DEF Sound
<1>1. CASE u.visible \ {p} # {} \/ isPlayingback
  BY <1>1 DEF ShowPanel, Kept, Same
<1>2. CASE u.visible \subseteq {p} /\ ~isPlayingback
  <2>1. ShowPanel(u, p) = PanelShow(v, p)
    BY <1>2 DEF ShowPanel
  <2>2. /\ d \in Viewports
        /\ d.visible = u.visible
        /\ d.background = u.background
        /\ ShownOrRefused(u, d.m_pLastActivePanel)
    BY <1>0, <1>2, DeactivateKeeps
  <2> HIDE DEF d
  <2>3. /\ v \in Viewports
        /\ v.visible = u.visible
        /\ v.background = u.background
        /\ v.m_pActivePanel = p
        /\ ShownOrRefused(u, v.m_pLastActivePanel)
    BY <2>2 DEF Viewports
  <2> HIDE DEF v
  <2>4. CASE Refused(p)
    <3>1. ShowPanel(u, p) = v
      BY <2>1, <2>4 DEF PanelShow, LaysOutFirst
    <3>2. Sound(v)
      BY <1>2, <2>3, <2>4 DEF Sound, ShownOrRefused
    <3>3. Kept(u, v) \/ Opened(u, v, p)
      <4>1. CASE p \in u.visible
        BY <1>2, <2>3, <4>1 DEF Opened
      <4>2. CASE p \notin u.visible
        BY <1>2, <2>3, <4>2, PanelTypes DEF Kept, Same, Focus, Viewports
      <4> QED
        BY <4>1, <4>2
    <3> QED
      BY <2>4, <3>1, <3>2, <3>3
  <2>5. CASE ~Refused(p)
    <3> DEFINE w == PanelShow(v, p)
    <3>1. /\ w \in Viewports
          /\ w.visible = {p}
          /\ w.background
          /\ w.m_pActivePanel = p
          /\ w.m_pLastActivePanel = v.m_pLastActivePanel
      BY <1>2, <2>3, <2>5, PanelShowOpens DEF Sound
    <3> HIDE DEF w
    <3>2. Opened(u, w, p)
      BY <1>2, <3>1 DEF Opened
    <3>3. Sound(w)
      BY <1>2, <2>3, <3>1 DEF Sound, ShownOrRefused
    <3> QED
      BY <2>1, <3>2, <3>3 DEF w
  <2> QED
    BY <2>4, <2>5
<1> QED
  BY <1>1, <1>2

\* An overlay on a sound viewport leaves it sound and the keyboard where it is.
LEMMA AddOverlay ==
  ASSUME NEW u, NEW w \in Viewports, NEW p \in {MOTD} \cup BuyMenus, Sound(u),
         w.visible = u.visible \cup {p}, w.background,
         w.m_pActivePanel = u.m_pActivePanel,
         w.m_pLastActivePanel = u.m_pLastActivePanel
  PROVE  Sound(w) /\ Overlaid(u, w, p)
<1>1. Sound(w)
  BY DEF Sound, ShownOrRefused
<1>2. NoPanel \notin u.visible
  BY PanelTypes DEF Sound, Viewports
<1>3. Focus(w) = Focus(u) \/ (Focus(u) = NoPanel /\ Focus(w) = p)
  BY <1>2 DEF Focus
<1> QED
  BY <1>1, <1>3 DEF Overlaid

LEMMA ActivateMOTDStep ==
  ASSUME NEW u, Sound(u)
  PROVE  Sound(ActivateMOTD(u)) /\ Overlaid(u, ActivateMOTD(u), MOTD)
<1> DEFINE v == ShowBackGround(u, TRUE)
           w == [v EXCEPT !.visible = @ \cup {MOTD}]
<1>1. /\ v \in Viewports
      /\ v.background
      /\ v.visible = u.visible
      /\ v.m_pActivePanel = u.m_pActivePanel
      /\ v.m_pLastActivePanel = u.m_pLastActivePanel
  BY ShowTheBackGround DEF Sound
<1>2. ActivateMOTD(u) = w
  BY DEF ActivateMOTD
<1> HIDE DEF v
<1>3. /\ w \in Viewports
      /\ w.visible = u.visible \cup {MOTD}
      /\ w.background = v.background
      /\ w.m_pActivePanel = u.m_pActivePanel
      /\ w.m_pLastActivePanel = u.m_pLastActivePanel
  BY <1>1, PanelTypes DEF Viewports
<1> HIDE DEF w
<1>4. w.background
  BY <1>1, <1>3
<1> QED
  BY <1>2, <1>3, <1>4, AddOverlay

\* A buy submenu appears whether ShowPanel opened it or not.
LEMMA ActivateMenuStep ==
  ASSUME NEW u, NEW p \in BuyMenus, Sound(u)
  PROVE  /\ Sound(ActivateMenu(u, p))
         /\ Opened(u, ActivateMenu(u, p), p) \/ Overlaid(u, ActivateMenu(u, p), p)
<1> DEFINE v == ShowPanel(u, p)
           x == [v EXCEPT !.visible = @ \cup {p}]
           w == ShowBackGround(x, TRUE)
<1>1. Sound(v) /\ (Kept(u, v) \/ Opened(u, v, p))
  BY ShowPanelStep, PanelTypes
<1>2. ActivateMenu(u, p) = w
  BY DEF ActivateMenu
<1> HIDE DEF v
<1>3. /\ x \in Viewports
      /\ x.visible = v.visible \cup {p}
      /\ x.m_pActivePanel = v.m_pActivePanel
      /\ x.m_pLastActivePanel = v.m_pLastActivePanel
  BY <1>1, PanelTypes DEF Sound, Viewports
<1> HIDE DEF x
<1>4. /\ w \in Viewports
      /\ w.background
      /\ w.visible = v.visible \cup {p}
      /\ w.m_pActivePanel = v.m_pActivePanel
      /\ w.m_pLastActivePanel = v.m_pLastActivePanel
  BY <1>3, ShowTheBackGround
<1> HIDE DEF w
<1>5. Sound(w) /\ Overlaid(v, w, p)
  BY <1>1, <1>4, AddOverlay
<1>6. Opened(u, w, p) \/ Overlaid(u, w, p)
  BY <1>1, <1>4, <1>5 DEF Kept, Same, Opened, Overlaid
<1> QED
  BY <1>2, <1>5, <1>6

\* A step that opens a panel through CBaseViewport::ShowPanel.
LEMMA ShowPanelAllowed ==
  ASSUME NEW u, NEW p \in Panels, Sound(u)
  PROVE  Sound(ShowPanel(u, p)) /\ Grew(u, ShowPanel(u, p))
  BY ShowPanelStep DEF Grew

LEMMA OpenBuyMenuStep ==
  ASSUME NEW u, NEW type \in {"BUY", "BUY_ITEM", "BUY_SUB"}, Sound(u)
  PROVE  Sound(OpenBuyMenu(u, type)) /\ Grew(u, OpenBuyMenu(u, type))
<1>1. CASE g_iTeamNumber \notin Teams
  BY <1>1 DEF OpenBuyMenu, Grew, Kept, Same
<1>2. CASE g_iTeamNumber \in Teams /\ type = "BUY"
  BY <1>2, ShowPanelAllowed, PanelTypes DEF OpenBuyMenu
<1>3. CASE g_iTeamNumber \in Teams /\ type = "BUY_ITEM"
  BY <1>3, ShowPanelAllowed, PanelTypes DEF OpenBuyMenu
<1>4. CASE g_iTeamNumber \in Teams /\ type = "BUY_SUB"
  <2>1. OpenBuyMenu(u, type) = ActivateMenu(u, BuyMenu[g_iTeamNumber])
    BY <1>4 DEF OpenBuyMenu
  <2> QED
    BY <1>4, <2>1, ActivateMenuStep, PanelTypes DEF Grew
<1> QED
  BY <1>1, <1>2, <1>3, <1>4

\* CHudViewport::ShowVGUIMenu, for the menus that VGUI2 owns.
LEMMA OpenMenuStep ==
  ASSUME NEW u, NEW menu \in Menus, Owned(menu), Sound(u)
  PROVE  Sound(OpenMenu(u, menu)) /\ Grew(u, OpenMenu(u, menu))
<1>1. CASE menu.type = "TEAM"
  BY <1>1, ShowPanelAllowed, PanelTypes DEF OpenMenu
<1>2. CASE menu.type = "CLASS"
  <2>1. menu.team \in Teams
    BY <1>2 DEF Menus
  <2> QED
    BY <1>2, <2>1, ShowPanelAllowed, PanelTypes DEF OpenMenu
<1>3. CASE menu.type \notin {"TEAM", "CLASS"}
  <2>1. menu.type \in {"BUY", "BUY_ITEM", "BUY_SUB"}
    BY <1>3 DEF Menus, Owned
  <2>2. OpenMenu(u, menu) = OpenBuyMenu(u, menu.type)
    BY <1>3 DEF OpenMenu
  <2> QED
    BY <2>1, <2>2, OpenBuyMenuStep
<1> QED
  BY <1>1, <1>2, <1>3

\* The last panel is not shown if it was not visible; the keyboard goes at most
\* to an overlay that is on the screen.
LEMMA RestoreLastPanelStep ==
  ASSUME NEW u, Sound(u)
  PROVE  LET w == RestoreLastPanel(u) IN
         Sound(w) /\ Grew(u, w) /\ w.visible = u.visible
<1> DEFINE last == u.m_pLastActivePanel
           v == [u EXCEPT !.m_pActivePanel = last]
           x == [v EXCEPT !.m_pLastActivePanel = NoPanel]
<1>0. u \in Viewports /\ NoPanel \notin u.visible
  BY PanelTypes DEF Sound, Viewports
<1>1. CASE u.m_pActivePanel \in u.visible \cup {NoPanel}
  BY <1>1 DEF RestoreLastPanel, Grew, Kept, Same
<1>2. CASE u.m_pActivePanel \notin u.visible \cup {NoPanel}
  <2>1. Focus(u) = NoPanel /\ u.visible \subseteq {MOTD} \cup BuyMenus
    BY <1>2 DEF Focus, Sound
  <2>2. CASE last = NoPanel
    <3> DEFINE w == [u EXCEPT !.m_pActivePanel = NoPanel]
    <3>1. /\ w \in Viewports
          /\ w.visible = u.visible
          /\ w.background = u.background
          /\ w.m_pActivePanel = NoPanel
          /\ w.m_pLastActivePanel = NoPanel
      BY <1>0, <2>2 DEF Viewports
    <3>2. RestoreLastPanel(u) = w
      BY <1>2, <2>2 DEF RestoreLastPanel
    <3> HIDE DEF w
    <3>3. Sound(w)
      BY <2>1, <3>1 DEF Sound, ShownOrRefused
    <3>4. Kept(u, w)
      BY <2>1, <3>1 DEF Kept, Same, Focus
    <3> QED
      BY <3>1, <3>2, <3>3, <3>4 DEF Grew
  <2>3. CASE last # NoPanel
    <3>1. last \in Panels /\ (last \in u.visible \/ Refused(last))
      BY <1>0, <2>3 DEF Sound, ShownOrRefused, Viewports
    <3>2. /\ v \in Viewports
          /\ v.visible = u.visible
          /\ v.background = u.background
          /\ v.m_pActivePanel = last
          /\ v.m_pLastActivePanel = last
      BY <1>0, <3>1 DEF Viewports
    <3>3. /\ x \in Viewports
          /\ x.visible = u.visible
          /\ x.background = u.background
          /\ x.m_pActivePanel = last
          /\ x.m_pLastActivePanel = NoPanel
      BY <1>0, <3>1 DEF Viewports
    <3>4. RestoreLastPanel(u) = [ShowPanel(v, last) EXCEPT !.m_pLastActivePanel = NoPanel]
      BY <1>2, <2>3 DEF RestoreLastPanel
    <3>5. ShowPanel(v, last) = v
      <4>1. Deactivate(v, last) = v
        BY <3>2 DEF Deactivate
      <4>2. [v EXCEPT !.m_pActivePanel = last] = v
        BY <3>2 DEF Viewports
      <4>3. last \notin ClassMenus
        BY <2>1, <3>1, PanelsAssumption
        DEF Refused, ClassMenus, BuyMenus, EquipMenus
      <4>4. PanelShow(v, last) = v
        BY <3>1, <3>2, <4>3 DEF PanelShow, LaysOutFirst
      <4> HIDE DEF v
      <4> QED
        BY <4>1, <4>2, <4>4 DEF ShowPanel
    <3>6. RestoreLastPanel(u) = x
      BY <3>4, <3>5
    <3> HIDE DEF v, x
    <3>7. Sound(x)
      BY <2>1, <3>1, <3>3 DEF Sound, ShownOrRefused
    <3>8. Kept(u, x) \/ Overlaid(u, x, last)
      BY <1>0, <2>1, <3>3 DEF Kept, Same, Overlaid, Focus
    <3> QED
      BY <3>1, <3>3, <3>6, <3>7, <3>8 DEF Grew
  <2> QED
    BY <2>2, <2>3
<1> QED
  BY <1>1, <1>2

LEMMA OnThinkStep ==
  ASSUME NEW resized \in BOOLEAN, Sound(ui), OnThink(resized)
  PROVE  /\ Sound(ui')
         /\ StackStep(ui, ui')
         /\ ui'.visible = ui.visible
         /\ resized \/ Grew(ui, ui')
<1> DEFINE w == RestoreLastPanel(ui)
<1>1. Sound(w) /\ Grew(ui, w) /\ w.visible = ui.visible
  BY RestoreLastPanelStep
<1>2. ui' = IF resized THEN ShowBackGround(w, TRUE) ELSE w
  BY DEF OnThink, PerformLayout
<1> HIDE DEF w
<1>3. CASE resized
  <2> DEFINE x == ShowBackGround(w, TRUE)
  <2>1. /\ x \in Viewports
        /\ x.background
        /\ x.visible = w.visible
        /\ x.m_pActivePanel = w.m_pActivePanel
        /\ x.m_pLastActivePanel = w.m_pLastActivePanel
    BY <1>1, ShowTheBackGround DEF Sound
  <2>2. ui' = x
    BY <1>2, <1>3
  <2> HIDE DEF x
  <2>3. Sound(x)
    BY <1>1, <2>1 DEF Sound, ShownOrRefused
  <2>4. StackStep(ui, x)
    BY <1>1, <2>1 DEF StackStep, Grew, Kept, Same, Opened, Overlaid, Focus
  <2> QED
    BY <1>1, <1>3, <2>1, <2>2, <2>3, <2>4
<1>4. CASE ~resized
  BY <1>1, <1>2, <1>4 DEF StackStep
<1> QED
  BY <1>3, <1>4

\* A panel that opens when all the others were closed.
LEMMA SuccessorStep ==
  ASSUME NEW u \in Viewports, NEW p \in Panels, Cleared(u), ~u.background,
         ui.visible # {}
  PROVE  /\ Sound(ShowPanel(u, p))
         /\ StackStep(ui, ShowPanel(u, p))
         /\ ShowPanel(u, p).visible = {} => ~ShowPanel(u, p).background
<1> DEFINE w == ShowPanel(u, p)
<1>1. Sound(w) /\ (Kept(u, w) \/ Opened(u, w, p))
  BY ClearedIsSound, ShowPanelStep
<1> HIDE DEF w
<1>2. StackStep(ui, w)
  BY <1>1 DEF StackStep, Cleared, Kept, Same, Opened, Replaced
<1>3. w.visible = {} => ~w.background
  BY <1>1 DEF Kept, Same, Opened
<1> QED
  BY <1>1, <1>2, <1>3 DEF w

\* The MOTD is closed, and with it every panel; then the team menu that was
\* deferred opens, unless the game refuses it.
LEMMA CloseMOTDStep ==
  ASSUME Sound(ui), CloseMOTD
  PROVE  /\ Sound(ui')
         /\ StackStep(ui, ui')
         /\ ui'.visible = {} => ~ui'.background
         /\ m_bPendingVGUIMenu /\ ~isPlayingback /\ ~m_iIntermission =>
              TeamMenu \in ui'.visible /\ ~m_bPendingVGUIMenu'
<1> DEFINE u == CloseFrame(ui, MOTD)
<1>1. ui.visible # {} /\ FlushPendingVGUIMenu(u)
  BY DEF CloseMOTD
<1>2. u \in Viewports /\ Sound(u) /\ Cleared(u) /\ ~u.background
  BY CloseFrameClears, ClearedIsSound DEF Sound
<1> HIDE DEF u
<1>3. CASE ~m_bPendingVGUIMenu
  BY <1>1, <1>2, <1>3 DEF FlushPendingVGUIMenu, StackStep, Cleared
<1>4. CASE m_bPendingVGUIMenu
  <2> DEFINE w == ShowPanel(u, TeamMenu)
  <2>1. ui' = w /\ ~m_bPendingVGUIMenu'
    BY <1>1, <1>4 DEF FlushPendingVGUIMenu, OpenMenu
  <2>2. Sound(w) /\ StackStep(ui, w) /\ (w.visible = {} => ~w.background)
    BY <1>1, <1>2, SuccessorStep, PanelTypes
  <2>3. ~isPlayingback /\ ~m_iIntermission => Opened(u, w, TeamMenu)
    BY <1>2, ShowPanelStep, PanelTypes DEF Cleared, Refused
  <2> HIDE DEF w
  <2> QED
    BY <2>1, <2>2, <2>3 DEF Opened
<1> QED
  BY <1>3, <1>4

LEMMA VidInitClears ==
  ASSUME NEW newLevel, Sound(ui), VidInit(newLevel)
  PROVE  ui' \in Viewports /\ Cleared(ui')
<1> DEFINE u == [ui EXCEPT !.visible = @ \ ({MOTD} \cup BuyMenus \cup EquipMenus)]
<1>1. u \in Viewports
  BY DEF Sound, Viewports
<1>2. ui' = HideAll(u)
  BY DEF VidInit, VidInitPanels
<1> HIDE DEF u
<1> QED
  BY <1>1, <1>2, HideAllClears

\* What a step makes of the viewport, for the intermission before it: it
\* keeps it sound, MenuStack allows it, and the background goes with the last
\* panel.
UiStepGoal ==
  /\ Sound(ui')
  /\ StackStep(ui, ui')
  /\ ui'.background /\ ui'.visible = {} =>
       \/ ui.background /\ ui.visible = {}
       \/ \E newLevel \in BOOLEAN : VidInit(newLevel)
       \/ OnThink(TRUE)

LEMMA GrowingStep ==
  ASSUME Sound(ui'), Grew(ui, ui')
  PROVE  UiStepGoal
<1>1. ui'.visible = {} => ui.visible = {} /\ ui'.background = ui.background
  BY DEF Grew, Kept, Same, Opened, Overlaid
<1> QED
  BY <1>1 DEF UiStepGoal, StackStep

LEMMA ClosingStep ==
  ASSUME ui' \in Viewports, Cleared(ui'), ~ui'.background
  PROVE  UiStepGoal
  BY ClearedIsSound DEF UiStepGoal, StackStep, Cleared

LEMMA UiStep ==
  ASSUME Sound(ui), Next
  PROVE  UiStepGoal
<1>0. ui \in Viewports /\ Grew(ui, ui)
  BY DEF Sound, Grew, Kept, Same
<1>1. ASSUME NEW menu \in Menus, ShowVGUIMenu(menu)
      PROVE  UiStepGoal
  <2>1. CASE ui' = ui
    BY <1>0, <2>1, GrowingStep
  <2>2. CASE Owned(menu) /\ ui' = OpenMenu(ui, menu)
    BY <2>2, OpenMenuStep, GrowingStep
  <2> QED
    BY <1>1, <2>1, <2>2 DEF ShowVGUIMenu, OldStyleMenuClose
<1>2. ASSUME ui' = ui
      PROVE  UiStepGoal
  BY <1>0, <1>2, GrowingStep
<1>3. ASSUME NEW p \in Panels, ui' = ShowPanel(ui, p)
      PROVE  UiStepGoal
  BY <1>3, ShowPanelAllowed, GrowingStep
<1>4. ASSUME NEW equipmentMenu \in BOOLEAN, OpenBuyMenuForLocalTeam(equipmentMenu)
      PROVE  UiStepGoal
  BY <1>4, OpenBuyMenuStep, GrowingStep DEF OpenBuyMenuForLocalTeam
<1>5. ASSUME ui' = ActivateMOTD(ui)
      PROVE  UiStepGoal
  BY <1>5, ActivateMOTDStep, PanelTypes, GrowingStep DEF Grew
<1>6. ASSUME CloseMOTD
      PROVE  UiStepGoal
  BY <1>6, CloseMOTDStep DEF UiStepGoal
<1>7. ASSUME NEW t \in Teams \cup {NoTeam}, TeamMenu_OnCommand(t)
      PROVE  UiStepGoal
  <2> DEFINE u == CloseFrame(ui, TeamMenu)
  <2>1. u \in Viewports /\ Cleared(u) /\ ~u.background
    BY <1>0, CloseFrameClears
  <2>2. CASE t \notin Teams
    BY <1>7, <2>1, <2>2, ClosingStep DEF TeamMenu_OnCommand
  <2>3. CASE t \in Teams
    <3>1. ui' = ShowPanel(u, ClassMenu[t]) /\ ui.visible # {}
      BY <1>7, <2>3 DEF TeamMenu_OnCommand, OpenMenu
    <3> HIDE DEF u
    <3> QED
      BY <2>1, <2>3, <3>1, SuccessorStep, PanelTypes DEF UiStepGoal
  <2> QED
    BY <2>2, <2>3
<1>8. ASSUME NEW p \in ClassMenus, NEW cancel \in BOOLEAN, ClassMenu_OnCommand(p, cancel)
      PROVE  UiStepGoal
  <2>1. PICK u \in Viewports : ui' = CloseFrame(u, p)
    BY <1>0, <1>8, HideAllClears DEF ClassMenu_OnCommand
  <2> QED
    BY <2>1, CloseFrameClears, ClosingStep
<1>9. ASSUME NEW p \in BuyMenus \cup EquipMenus, BuySubMenu_OnCommand(p) \/ BuyMenu_OnClose(p)
      PROVE  UiStepGoal
  BY <1>0, <1>9, PanelHideClears, CloseFrameClears, ClosingStep
  DEF BuySubMenu_OnCommand, BuyMenu_OnClose
<1>10. ASSUME NEW resized \in BOOLEAN, OnThink(resized)
       PROVE  UiStepGoal
  <2>1. CASE resized
    BY <1>10, <2>1, OnThinkStep DEF UiStepGoal
  <2>2. CASE ~resized
    BY <1>10, <2>2, OnThinkStep, GrowingStep
  <2> QED
    BY <2>1, <2>2
<1>11. ASSUME NEW newLevel \in BOOLEAN, VidInit(newLevel)
       PROVE  UiStepGoal
  BY <1>11, VidInitClears, ClearedIsSound DEF UiStepGoal, StackStep, Cleared
<1> QED
  <2>1. CASE \E menu \in Menus : ShowVGUIMenu(menu)
    BY <1>1, <2>1
  <2>2. CASE \/ \E anySlots \in BOOLEAN : MsgFunc_ShowMenu(anySlots)
             \/ UserCmd_OldStyleMenuClose \/ MsgFunc_BuyClose \/ SelectMenuItem
             \/ ResetHUD \/ MsgFunc_InitHUD \/ StartIntermission
             \/ \E t \in Teams \cup {NoTeam} : SetTeam(t)
    BY <1>2, <2>2
    DEF MsgFunc_ShowMenu, UserCmd_OldStyleMenuClose, MsgFunc_BuyClose, SelectMenuItem,
        ResetHUD, MsgFunc_InitHUD, StartIntermission, SetTeam, OldStyleMenuClose
  <2>3. CASE ChooseTeam
    BY <1>3, <2>3, PanelTypes DEF ChooseTeam
  <2>4. CASE MotdOpen \/ \E last \in BOOLEAN : MsgFunc_MOTD(last)
    BY <1>5, <2>4 DEF MotdOpen, MsgFunc_MOTD
  <2> QED
    BY <1>4, <1>6, <1>7, <1>8, <1>9, <1>10, <1>11, <2>1, <2>2, <2>3, <2>4 DEF Next

\* An intermission that starts refuses more panels, and one that ends with a
\* level left none behind.
LEMMA SoundIsKept ==
  ASSUME Sound(ui), Next
  PROVE  Sound(ui)'
<1>1. Sound(ui')
  BY UiStep DEF UiStepGoal
<1>2. CASE m_iIntermission' = m_iIntermission
  BY <1>1, <1>2 DEF Sound, ShownOrRefused, Refused
<1>3. CASE StartIntermission
  BY <1>1, <1>3 DEF StartIntermission, Sound, ShownOrRefused, Refused
<1>4. CASE \E newLevel \in BOOLEAN : VidInit(newLevel)
  BY <1>4, VidInitClears DEF Cleared, Sound, ShownOrRefused, Viewports
<1> QED
  BY <1>2, <1>3, <1>4
  DEF Next, gameVars, ShowVGUIMenu, MsgFunc_ShowMenu, UserCmd_OldStyleMenuClose,
      MsgFunc_BuyClose, SelectMenuItem, ResetHUD, MsgFunc_InitHUD, ChooseTeam,
      OpenBuyMenuForLocalTeam, MotdOpen, MsgFunc_MOTD, CloseMOTD,
      TeamMenu_OnCommand, ClassMenu_OnCommand, BuySubMenu_OnCommand,
      BuyMenu_OnClose, OnThink, SetTeam

LEMMA TypesAreKept ==
  ASSUME TypeOK, Next, ui' \in Viewports
  PROVE  TypeOK'
<1>1. m_bMOTDActive' \in BOOLEAN /\ m_bGotAllMOTD' \in BOOLEAN
  BY DEF TypeOK, Next, motdVars, ShowVGUIMenu, MsgFunc_ShowMenu,
      UserCmd_OldStyleMenuClose, MsgFunc_BuyClose, SelectMenuItem, ResetHUD,
      MsgFunc_InitHUD, ChooseTeam, OpenBuyMenuForLocalTeam, MotdOpen, MsgFunc_MOTD,
      CloseMOTD, TeamMenu_OnCommand, ClassMenu_OnCommand, BuySubMenu_OnCommand,
      BuyMenu_OnClose, OnThink, VidInit, SetTeam, StartIntermission
<1>2. /\ m_bPendingVGUIMenu' \in BOOLEAN
      /\ m_fMenuDisplayed' \in BOOLEAN
      /\ textMenu' \in BOOLEAN
      /\ touchMenu' \in BOOLEAN
  BY DEF TypeOK, Next, hudVars, ShowVGUIMenu, MsgFunc_ShowMenu, OldStyleMenuClose,
      UserCmd_OldStyleMenuClose, MsgFunc_BuyClose, SelectMenuItem, ResetHUD,
      MsgFunc_InitHUD, ChooseTeam, OpenBuyMenuForLocalTeam, MotdOpen, MsgFunc_MOTD,
      CloseMOTD, FlushPendingVGUIMenu, TeamMenu_OnCommand, ClassMenu_OnCommand,
      BuySubMenu_OnCommand, BuyMenu_OnClose, OnThink, VidInit, SetTeam,
      StartIntermission
<1>3. /\ g_iTeamNumber' \in Teams \cup {NoTeam}
      /\ m_iIntermission' \in BOOLEAN
      /\ isPlayingback' \in BOOLEAN
  BY DEF TypeOK, Next, gameVars, ShowVGUIMenu, MsgFunc_ShowMenu,
      UserCmd_OldStyleMenuClose, MsgFunc_BuyClose, SelectMenuItem, ResetHUD,
      MsgFunc_InitHUD, ChooseTeam, OpenBuyMenuForLocalTeam, MotdOpen, MsgFunc_MOTD,
      CloseMOTD, TeamMenu_OnCommand, ClassMenu_OnCommand, BuySubMenu_OnCommand,
      BuyMenu_OnClose, OnThink, VidInit, SetTeam, StartIntermission
<1> QED
  BY <1>1, <1>2, <1>3 DEF TypeOK

LEMMA MenuInvIsSound ==
  MenuInv <=> TypeOK /\ Sound(ui)
  BY DEF MenuInv, TypeOK, Sound, ShownOrRefused, DeadPanelsAreRefused, Dead

-----------------------------------------------------------------------------
(***************************************************************************)
(* The theorems.                                                           *)
(***************************************************************************)

\* The invariant of the menus is inductive: whatever messages, commands, keys,
\* levels and frames do to the panels.
THEOREM MenuInvariant == Spec => []MenuInv
<1>1. Init => MenuInv
  <2> SUFFICES ASSUME Init PROVE MenuInv
    OBVIOUS
  <2>1. ui \in Viewports /\ Cleared(ui)
    BY DEF Init, Viewports, Cleared
  <2>2. TypeOK
    BY <2>1 DEF Init, TypeOK
  <2> QED
    BY <2>1, <2>2, ClearedIsSound, MenuInvIsSound
<1>2. MenuInv /\ [Next]_vars => MenuInv'
  <2> SUFFICES ASSUME MenuInv, [Next]_vars
               PROVE  MenuInv'
    OBVIOUS
  <2>1. CASE UNCHANGED vars
    BY <2>1 DEF vars, motdVars, hudVars, gameVars, MenuInv, TypeOK,
                DeadPanelsAreRefused, Dead, Refused
  <2>2. CASE Next
    <3>1. TypeOK /\ Sound(ui)
      BY MenuInvIsSound
    <3>2. Sound(ui)' /\ ui' \in Viewports
      BY <2>2, <3>1, SoundIsKept DEF Sound
    <3>3. TypeOK'
      BY <2>2, <3>1, <3>2, TypesAreKept
    <3> QED
      BY <3>2, <3>3 DEF MenuInv, Sound, ShownOrRefused, DeadPanelsAreRefused, Dead
  <2> QED
    BY <2>1, <2>2
<1> QED
  BY <1>1, <1>2, PTL DEF Spec

\* Every variable keeps its type.
THEOREM TypeCorrect == Spec => []TypeOK
<1>1. MenuInv => TypeOK
  BY DEF MenuInv
<1> QED
  BY <1>1, MenuInvariant, PTL

\* A stored panel that is not on the screen was refused by an intermission.
THEOREM DeadPanelsCorrect == Spec => []DeadPanelsAreRefused
<1>1. MenuInv => DeadPanelsAreRefused
  BY DEF MenuInv
<1> QED
  BY <1>1, MenuInvariant, PTL

\* While a menu is on the screen, clicks go to it and not to the weapon.
THEOREM ClicksCorrect == Spec => []ClicksDoNotLeak
<1>1. MenuInv => ClicksDoNotLeak
  BY DEF MenuInv, ClicksDoNotLeak, ShouldCaptureInput
<1> QED
  BY <1>1, MenuInvariant, PTL

\* No frame makes a panel appear by itself.
THEOREM NothingRevivedCorrect == Spec => NothingRevived
<1>1. MenuInv /\ [Next]_vars =>
        [(\E resized \in BOOLEAN : OnThink(resized)) =>
           ui'.visible \subseteq ui.visible]_vars
  BY MenuInvIsSound, OnThinkStep
<1> QED
  BY <1>1, MenuInvariant, PTL DEF Spec, NothingRevived

\* The background goes with the last panel, except in VidInit and a resize.
THEOREM BackGroundCorrect == Spec => NoOrphanBackGround
<1>1. MenuInv /\ [Next]_vars =>
        [ui'.background /\ ui'.visible = {} =>
           \/ ui.background /\ ui.visible = {}
           \/ \E newLevel \in BOOLEAN : VidInit(newLevel)
           \/ OnThink(TRUE)]_vars
  BY MenuInvIsSound, UiStep DEF UiStepGoal
<1> QED
  BY <1>1, MenuInvariant, PTL DEF Spec, NoOrphanBackGround

\* Closing the MOTD shows the team menu that waited for it.
THEOREM DeferredMenuCorrect == Spec => DeferredMenuIsShown
<1>1. MenuInv /\ [Next]_vars =>
        [CloseMOTD /\ m_bPendingVGUIMenu /\ ~m_iIntermission /\ ~isPlayingback =>
           TeamMenu \in ui'.visible /\ ~m_bPendingVGUIMenu']_vars
  BY MenuInvIsSound, CloseMOTDStep
<1> QED
  BY <1>1, MenuInvariant, PTL DEF Spec, DeferredMenuIsShown

\* The viewport and its panels implement the stack of menus.
THEOREM ImplementsStack == Spec => KeepsStack
<1>1. Init => Stack!StackInit
  BY DEF Init, Stack!StackInit
<1>2. MenuInv /\ [Next]_vars => [Stack!StackNext]_(Stack!stackVars)
  <2> SUFFICES ASSUME MenuInv, Next
               PROVE  Stack!StackNext \/ UNCHANGED Stack!stackVars
    BY DEF vars, Stack!stackVars
  <2>1. StackStep(ui, ui')
    BY MenuInvIsSound, UiStep DEF UiStepGoal
  <2>2. CASE Same(ui, ui')
    BY <2>2 DEF Same, Focus, Stack!stackVars
  <2>3. CASE ui'.visible = {}
    BY <2>3 DEF Stack!StackNext, Stack!CloseAll
  <2>4. ASSUME NEW p \in Panels, Opened(ui, ui', p)
        PROVE  Stack!Open(p)
    BY <2>4 DEF Opened, Stack!Open
  <2>5. ASSUME NEW p \in Panels, Overlaid(ui, ui', p)
        PROVE  Stack!Overlay(p)
    BY <2>5 DEF Overlaid, Focus, Stack!Overlay
  <2>6. ASSUME NEW p \in Panels, Replaced(ui, ui', p)
        PROVE  Stack!Replace(p)
    BY <2>6 DEF Replaced, Stack!Replace
  <2> QED
    BY <2>1, <2>2, <2>3, <2>4, <2>5, <2>6 DEF StackStep, Grew, Kept, Stack!StackNext
<1> QED
  BY <1>1, <1>2, MenuInvariant, PTL DEF Spec, KeepsStack, Stack!StackSpec
=============================================================================
