------------------------------- MODULE HudInput -------------------------------
(***************************************************************************)
(* From keys to commands: the buttons of the client (cl_dll/input.cpp),    *)
(* the selection of a weapon on the HUD (cl_dll/ammo.cpp) and the text     *)
(* menu that takes the slot keys from it (cl_dll/menu.cpp).                *)
(*                                                                         *)
(* A frame handles keys, console commands and messages in any order, then  *)
(* tells the HUD about the client's data (UpdateClientData), where a click *)
(* may close the MOTD or choose the highlighted weapon, and then samples   *)
(* the buttons into a command (CreateMove).  A click that was used up is   *)
(* taken out of the button between the two.                                *)
(*                                                                         *)
(* A weapon is chosen twice: by weaponselect in the next command, and by a *)
(* "weapon_..." string to the server, which the module does not keep.      *)
(***************************************************************************)
EXTENDS KeyButton, Sequences, FiniteSets

CONSTANTS
  AttackKeys, ForwardKeys,    \* the keys bound to +attack and to +forward
  Weapons, Suit,              \* the bits of m_iWeaponBits
  SlotOf, PosOf,              \* WEAPON: its row and place in rgSlots
  MaxWeaponSlots,             \* MAX_WEAPON_SLOTS
  MaxWeaponPositions,         \* MAX_WEAPON_POSITIONS
  SlotKeys,                   \* slot1 .. slot10, by number
  MenuBar, NoWeapon,          \* gpActiveSel: (WEAPON *)1 and NULL
  Menus, Parts, Valid         \* text menus: messages of each, its valid keys

ASSUME BindingsAssumption ==
  AttackKeys \cap ForwardKeys = {} /\ AttackKeys \cup ForwardKeys = Keys
ASSUME WeaponsAssumption ==
  /\ Suit \notin Weapons /\ IsFiniteSet(Weapons)
  /\ MenuBar \notin Weapons /\ NoWeapon \notin Weapons \cup {MenuBar}
  /\ MaxWeaponSlots \in Nat \ {0} /\ MaxWeaponPositions \in Nat \ {0}
  /\ SlotOf \in [Weapons -> 0 .. MaxWeaponSlots - 1]
  /\ PosOf \in [Weapons -> 0 .. MaxWeaponPositions - 1]
  /\ \A v, w \in Weapons : SlotOf[v] = SlotOf[w] /\ PosOf[v] = PosOf[w] => v = w
ASSUME MenusAssumption ==
  /\ SlotKeys \subseteq Nat \ {0}
  /\ Parts \in [Menus -> Nat \ {0}]
  /\ Valid \in [Menus -> (SUBSET SlotKeys) \ {{}}]

VARIABLES
  updated,          \* UpdateClientData has run, CreateMove has not
  in_attack, in_forward,
  m_bShow,          \* CHudMOTD: a MOTD has arrived and was not clicked away
  captured,         \* a VGUI2 menu, or the voice dialog, has the mouse
  m_iWeaponBits,    \* what the server says is carried, with the suit
  iOldWeaponBits,   \* the same as last put into rgSlots
  ammo,             \* the weapons HasAmmo holds of
  gpActiveSel,      \* the highlighted weapon, MenuBar or NoWeapon
  m_pWeapon,        \* the current weapon
  m_fHidden,        \* m_iHideHUDDisplay hides the weapons
  hud_fastswitch,
  g_weaponselect,
  menu,             \* CHudMenu
  sending,          \* external: the text menu the server is sending
  \* history
  holders,          \* the keys, typed command included, the button was told of
  spent,            \* a click was used up and the button not pressed since
  owed,             \* a press of the button that no command carries yet
  edges,            \* forward went down, went up, since the last command
  owned             \* the weapons carried since the last ResetHUD

buttonVars == <<in_attack, in_forward>>
weaponVars == <<m_iWeaponBits, iOldWeaponBits, ammo, m_pWeapon, m_fHidden,
                hud_fastswitch, owned>>
choiceVars == <<gpActiveSel, g_weaponselect>>
menuVars == <<menu, sending>>
keyHistory == <<holders, spent, owed, edges>>
vars == <<updated, buttonVars, m_bShow, captured, weaponVars, choiceVars,
          menuVars, keyHistory>>

NoMenu == [menu |-> "none", next |-> 0]

\* The text of client_buy_open is no part of a menu.
BuyText == <<>>

PartsOfMenus == Menus \X Nat

ButtonType ==
  /\ updated \in BOOLEAN
  /\ in_attack \in Buttons /\ in_forward \in Buttons
  /\ m_bShow \in BOOLEAN /\ captured \in BOOLEAN
  /\ holders \in [{"attack", "forward"} -> SUBSET Holders]
  /\ spent \in BOOLEAN /\ owed \in BOOLEAN
  /\ edges \subseteq {"pressed", "released"}

WeaponType ==
  /\ m_iWeaponBits \subseteq Weapons \cup {Suit}
  /\ iOldWeaponBits \subseteq Weapons \cup {Suit}
  /\ ammo \subseteq Weapons
  /\ gpActiveSel \in Weapons \cup {MenuBar, NoWeapon}
  /\ m_pWeapon \in Weapons \cup {NoWeapon}
  /\ m_fHidden \in BOOLEAN /\ hud_fastswitch \in BOOLEAN
  /\ g_weaponselect \in Weapons \cup {NoWeapon}
  /\ owned \subseteq Weapons

MenuType ==
  /\ menu \in [m_fMenuDisplayed : BOOLEAN, drawn : BOOLEAN,
               m_bitsValidSlots : SUBSET SlotKeys, shutoff : BOOLEAN,
               m_fWaitingForMore : BOOLEAN,
               prelocalised : Seq(PartsOfMenus), text : Seq(PartsOfMenus)]
  /\ sending = NoMenu \/ sending \in [menu : Menus, next : Nat \ {0}]

TypeOK == ButtonType /\ WeaponType /\ MenuType

Init ==
  /\ updated = FALSE
  /\ in_attack = Up /\ in_forward = Up
  /\ m_bShow = FALSE /\ captured = FALSE
  /\ m_iWeaponBits = {} /\ iOldWeaponBits = {}
  /\ ammo = {}
  /\ gpActiveSel = NoWeapon /\ m_pWeapon = NoWeapon
  /\ m_fHidden = FALSE /\ hud_fastswitch \in BOOLEAN
  /\ g_weaponselect = NoWeapon
  /\ menu = [m_fMenuDisplayed |-> FALSE, drawn |-> FALSE,
             m_bitsValidSlots |-> {}, shutoff |-> FALSE,
             m_fWaitingForMore |-> FALSE, prelocalised |-> <<>>, text |-> <<>>]
  /\ sending = NoMenu
  /\ holders = [b \in {"attack", "forward"} |-> {}]
  /\ spent = FALSE /\ owed = FALSE /\ edges = {}
  /\ owned = {}

-----------------------------------------------------------------------------
(***************************************************************************)
(* Keys.  A press that goes to the console or a menu is never heard of, a  *)
(* release always is.                                                      *)
(***************************************************************************)

ButtonOf(k) == IF k \in AttackKeys THEN "attack" ELSE "forward"

\* The history of a press that the button is told of: a third one is ignored,
\* and a second one presses the button only if the click of the first is spent.
Pressed(b, k) ==
  LET noticed == k \notin holders[b] /\ \A x, y \in holders[b] : x = y IN
  /\ holders' = IF noticed THEN [holders EXCEPT ![b] = @ \cup {k}] ELSE holders
  /\ spent' = (spent /\ ~(noticed /\ b = "attack"))
  /\ owed' = (owed \/ (noticed /\ b = "attack" /\ (holders[b] = {} \/ spent)))
  /\ edges' = IF noticed /\ b = "forward" /\ holders[b] = {}
              THEN edges \cup {"pressed"} ELSE edges

\* +attack and +forward, from a key or typed.
ButtonDown(b, k) ==
  /\ ~updated
  /\ k \in AttackKeys => b = "attack"
  /\ k \in ForwardKeys => b = "forward"
  /\ IF b = "attack"
     THEN in_attack' = KeyDown(in_attack, k) /\ UNCHANGED in_forward
     ELSE in_forward' = KeyDown(in_forward, k) /\ UNCHANGED in_attack
  /\ Pressed(b, k)
  /\ UNCHANGED <<updated, m_bShow, captured, weaponVars, choiceVars, menuVars>>

Released(b, k) ==
  LET rest == IF k = Console THEN {} ELSE holders[b] \ {k} IN
  /\ holders' = [holders EXCEPT ![b] = rest]
  /\ owed' = (owed /\ ~(k = Console /\ b = "attack"))
  /\ edges' = IF b # "forward" THEN edges
              ELSE IF k = Console THEN {"released"}
              ELSE IF holders[b] # {} /\ rest = {} THEN edges \cup {"released"}
              ELSE edges
  /\ UNCHANGED spent

\* -attack and -forward.
ButtonUp(b, k) ==
  /\ ~updated
  /\ k \in AttackKeys => b = "attack"
  /\ k \in ForwardKeys => b = "forward"
  /\ IF b = "attack"
     THEN in_attack' = KeyUp(in_attack, k) /\ UNCHANGED in_forward
     ELSE in_forward' = KeyUp(in_forward, k) /\ UNCHANGED in_attack
  /\ Released(b, k)
  /\ UNCHANGED <<updated, m_bShow, captured, weaponVars, choiceVars, menuVars>>

-----------------------------------------------------------------------------
(***************************************************************************)
(* The weapons of a slot, and the selection.                               *)
(***************************************************************************)

\* rgSlots.
Carried == iOldWeaponBits \ {Suit}
InSlot(s) == {w \in Carried : SlotOf[w] = s}

FirstOf(S) ==
  IF S = {} THEN NoWeapon ELSE CHOOSE w \in S : \A v \in S : PosOf[w] <= PosOf[v]

GetFirstPos(s) == FirstOf(InSlot(s))

\* The next weapon of the slot that has ammo.
GetNextActivePos(w) ==
  FirstOf({v \in InSlot(SlotOf[w]) \cap ammo : PosOf[v] > PosOf[w]})

\* v stands before w in the list of all slots.
Before(v, w) ==
  \/ SlotOf[v] < SlotOf[w]
  \/ SlotOf[v] = SlotOf[w] /\ PosOf[v] < PosOf[w]

EarliestOf(S) ==
  IF S = {} THEN NoWeapon ELSE CHOOSE w \in S : \A v \in S : ~Before(v, w)
LatestOf(S) ==
  IF S = {} THEN NoWeapon ELSE CHOOSE w \in S : \A v \in S : ~Before(w, v)

\* The weapon after w in the list, from the start again at the end; from
\* NoWeapon the first.
NextFrom(w) ==
  LET after == {v \in Carried : w # NoWeapon /\ Before(w, v)} IN
  EarliestOf(IF after = {} THEN Carried ELSE after)

\* Enters the second pass with the position the first one ended at, and so
\* finds nothing in the last slot.
PrevFrom_PositionKept(w) ==
  LET before == {v \in Carried : w # NoWeapon /\ Before(v, w)}
      again == {v \in Carried : w = NoWeapon \/ SlotOf[v] < MaxWeaponSlots - 1}
  IN LatestOf(IF before = {} THEN again ELSE before)

PrevFrom(w) ==
  LET before == {v \in Carried : w # NoWeapon /\ Before(v, w)} IN
  LatestOf(IF before = {} THEN Carried ELSE before)

\* Where invnext and invprev start.
StartOfScroll ==
  IF gpActiveSel \in {NoWeapon, MenuBar} THEN m_pWeapon ELSE gpActiveSel

\* Leaves the start highlighted when no weapon is found.
UserCmd_NextWeapon_KeepsStart ==
  /\ ~updated /\ ~m_fHidden
  /\ gpActiveSel' = IF Carried = {} THEN StartOfScroll ELSE NextFrom(StartOfScroll)
  /\ UNCHANGED <<updated, buttonVars, m_bShow, captured, weaponVars,
                 g_weaponselect, menuVars, keyHistory>>

UserCmd_NextWeapon ==
  /\ ~updated /\ ~m_fHidden
  /\ gpActiveSel' = NextFrom(StartOfScroll)
  /\ UNCHANGED <<updated, buttonVars, m_bShow, captured, weaponVars,
                 g_weaponselect, menuVars, keyHistory>>

UserCmd_PrevWeapon ==
  /\ ~updated /\ ~m_fHidden
  /\ gpActiveSel' = PrevFrom(StartOfScroll)
  /\ UNCHANGED <<updated, buttonVars, m_bShow, captured, weaponVars,
                 g_weaponselect, menuVars, keyHistory>>

\* cancelselect.
UserCmd_Close ==
  /\ ~updated
  /\ gpActiveSel' = NoWeapon
  /\ UNCHANGED <<updated, buttonVars, m_bShow, captured, weaponVars,
                 g_weaponselect, menuVars, keyHistory>>

\* ServerCmd(szName), with g_weaponselect for the next command.
Choose(w) == g_weaponselect' = w

\* Slot keys start at 1, slots at 0.
CanSelect(key) ==
  /\ key - 1 <= MaxWeaponSlots /\ ~m_fHidden
  /\ Suit \in m_iWeaponBits /\ m_iWeaponBits # {Suit}

\* The highlighted weapon of this slot, NoWeapon if another one has to open.
Highlighted(s) ==
  IF gpActiveSel \in Weapons /\ SlotOf[gpActiveSel] = s THEN gpActiveSel
  ELSE NoWeapon

\* What a slot key highlights: the first weapon of the slot, then the others
\* that have ammo, then the first again.
Candidate(s) ==
  IF Highlighted(s) # NoWeapon /\ GetNextActivePos(Highlighted(s)) # NoWeapon
  THEN GetNextActivePos(Highlighted(s)) ELSE GetFirstPos(s)

\* "only one active item in bucket, so change directly to weapon".
ChangesDirectly(s) ==
  /\ hud_fastswitch /\ Highlighted(s) = NoWeapon
  /\ GetFirstPos(s) # NoWeapon
  /\ GetNextActivePos(GetFirstPos(s)) = NoWeapon

SelectSlot(key) ==
  LET s == key - 1 IN
  /\ ~updated /\ ~menu.m_fMenuDisplayed /\ CanSelect(key)
  /\ IF ChangesDirectly(s)
     THEN Choose(GetFirstPos(s)) /\ UNCHANGED gpActiveSel
     ELSE /\ gpActiveSel' = IF Candidate(s) = NoWeapon /\ ~hud_fastswitch
                            THEN MenuBar ELSE Candidate(s)
          /\ UNCHANGED g_weaponselect
  /\ UNCHANGED <<updated, buttonVars, m_bShow, captured, weaponVars, menuVars,
                 keyHistory>>

\* CHudAmmo::Draw: a highlighted weapon whose slot is empty becomes the menu
\* bar, but in the first slot.
DrawWList ==
  /\ ~updated /\ Suit \in m_iWeaponBits /\ ~m_fHidden
  /\ gpActiveSel \in Weapons /\ SlotOf[gpActiveSel] > 0
  /\ InSlot(SlotOf[gpActiveSel]) = {}
  /\ gpActiveSel' = MenuBar
  /\ UNCHANGED <<updated, buttonVars, m_bShow, captured, weaponVars,
                 g_weaponselect, menuVars, keyHistory>>

-----------------------------------------------------------------------------
(***************************************************************************)
(* Messages about the weapons, the MOTD and the whole HUD.                 *)
(***************************************************************************)

\* AmmoX, and the clip of a CurWeapon.
MsgFunc_AmmoX(withAmmo) ==
  /\ ~updated
  /\ ammo' = withAmmo
  /\ UNCHANGED <<updated, buttonVars, m_bShow, captured, m_iWeaponBits,
                 iOldWeaponBits, m_pWeapon, m_fHidden, hud_fastswitch, owned,
                 choiceVars, menuVars, keyHistory>>

MsgFunc_CurWeapon(w) ==
  /\ ~updated
  /\ m_pWeapon' = w
  /\ UNCHANGED <<updated, buttonVars, m_bShow, captured, m_iWeaponBits,
                 iOldWeaponBits, ammo, m_fHidden, hud_fastswitch, owned,
                 choiceVars, menuVars, keyHistory>>

\* HIDEHUD_FLASHLIGHT hides no weapons and closes the selection too.
MsgFunc_HideWeapon(hide, flashlight) ==
  /\ ~updated
  /\ m_fHidden' = hide
  /\ gpActiveSel' = IF hide \/ flashlight THEN NoWeapon ELSE gpActiveSel
  /\ UNCHANGED <<updated, buttonVars, m_bShow, captured, m_iWeaponBits,
                 iOldWeaponBits, ammo, m_pWeapon, hud_fastswitch, owned,
                 g_weaponselect, menuVars, keyHistory>>

\* The last part of a MOTD.
MsgFunc_MOTD ==
  /\ ~updated
  /\ m_bShow' = TRUE
  /\ UNCHANGED <<updated, buttonVars, captured, weaponVars, choiceVars,
                 menuVars, keyHistory>>

\* A VGUI2 menu or the voice dialog opens or closes.
SetCapture ==
  /\ ~updated
  /\ captured' = ~captured
  /\ UNCHANGED <<updated, buttonVars, m_bShow, weaponVars, choiceVars, menuVars,
                 keyHistory>>

\* CHudMenu::Reset.
MenuReset(m) == [m EXCEPT !.prelocalised = <<>>, !.m_fWaitingForMore = FALSE]

\* Leaves the text that is being put together.
MenuInitHUDData_NoReset(m) ==
  [m EXCEPT !.m_fMenuDisplayed = FALSE, !.m_bitsValidSlots = {}]

\* CHudMenu::InitHUDData: the menu is still drawn.
MenuInitHUDData(m) ==
  [MenuReset(m) EXCEPT !.m_fMenuDisplayed = FALSE, !.m_bitsValidSlots = {}]

\* ResetHUD, from the server or for a reloaded scheme: it empties rgSlots and
\* the ammo counts, which the next UpdateClientData and messages fill again.
MsgFunc_ResetHUD ==
  /\ ~updated
  /\ m_bShow' = FALSE
  /\ iOldWeaponBits' = {} /\ owned' = {}
  /\ ammo' \in SUBSET ammo
  /\ gpActiveSel' = NoWeapon
  /\ m_fHidden' = FALSE
  /\ menu' = MenuReset(menu)
  /\ UNCHANGED <<updated, buttonVars, captured, m_iWeaponBits, m_pWeapon,
                 hud_fastswitch, g_weaponselect, sending, keyHistory>>

\* InitHUD, the first message to the HUD in a new level: what the old one was
\* sending never arrives.
MsgFunc_InitHUD ==
  /\ ~updated
  /\ menu' = MenuInitHUDData(menu)
  /\ sending' = NoMenu
  /\ UNCHANGED <<updated, buttonVars, m_bShow, captured, weaponVars, choiceVars,
                 keyHistory>>

-----------------------------------------------------------------------------
(***************************************************************************)
(* The text menu.                                                          *)
(***************************************************************************)

\* Gives the slot keys back and stays on the screen.
OldStyleMenuClose_StaysDrawn(m) == [m EXCEPT !.m_fMenuDisplayed = FALSE]

\* UserCmd_OldStyleMenuClose.
OldStyleMenuClose(m) == [m EXCEPT !.m_fMenuDisplayed = FALSE, !.drawn = FALSE]

MenuOnly(m) ==
  /\ ~updated
  /\ menu' = m
  /\ UNCHANGED <<updated, buttonVars, m_bShow, captured, weaponVars, choiceVars,
                 keyHistory>>

\* A part of a menu that arrives is displayed before the rest does.  The text
\* on the screen changes with the last part.
AddPart(m, part, needMore) ==
  LET whole == IF menu.m_fWaitingForMore THEN Append(menu.prelocalised, part)
                                         ELSE <<part>>
  IN [menu EXCEPT !.m_fMenuDisplayed = TRUE, !.drawn = TRUE,
                  !.m_bitsValidSlots = Valid[m],
                  !.m_fWaitingForMore = needMore,
                  !.prelocalised = whole,
                  !.text = IF needMore THEN menu.text ELSE whole]

\* ShowMenu: one message of a menu, which stays for some time or for good.
MsgFunc_ShowMenu(m, timed) ==
  LET i == IF sending = NoMenu THEN 1 ELSE sending.next
      needMore == i < Parts[m]
  IN /\ sending = NoMenu \/ sending.menu = m
     /\ MenuOnly([AddPart(m, <<m, i>>, needMore) EXCEPT !.shutoff = timed])
     /\ sending' = IF needMore THEN [menu |-> m, next |-> i + 1] ELSE NoMenu

\* ShowMenu without valid slots; it never comes between two parts.
MsgFunc_ShowMenu_None(timed) ==
  /\ sending = NoMenu
  /\ MenuOnly([OldStyleMenuClose(menu) EXCEPT !.m_bitsValidSlots = {},
                                              !.shutoff = timed])
  /\ UNCHANGED sending

\* VGUIMenu sets the slots "(is ignored)" and, unless it defers the menu or
\* has none to show, gives it the slot keys (see Viewport).
MsgFunc_VGUIMenu(m) ==
  /\ \E opened \in BOOLEAN :
       MenuOnly([menu EXCEPT !.m_bitsValidSlots = Valid[m],
                             !.m_fMenuDisplayed = @ \/ opened])
  /\ UNCHANGED sending

\* A slot key that is valid: menuselect.
SelectMenuItem(key) ==
  /\ menu.m_fMenuDisplayed /\ key \in menu.m_bitsValidSlots
  /\ MenuOnly(OldStyleMenuClose(menu))
  /\ UNCHANGED sending

\* client_buy_open: the text changes, nothing is displayed.
UserCmd_OldStyleMenuOpen ==
  /\ MenuOnly([menu EXCEPT !.shutoff = FALSE, !.text = BuyText])
  /\ UNCHANGED sending

\* client_buy_close.
UserCmd_OldStyleMenuClose ==
  /\ MenuOnly(OldStyleMenuClose(menu))
  /\ UNCHANGED sending

\* CHudMenu::Draw when the time is up.
Draw_Shutoff ==
  /\ menu.drawn /\ menu.shutoff
  /\ MenuOnly(OldStyleMenuClose(menu))
  /\ UNCHANGED sending

-----------------------------------------------------------------------------
(***************************************************************************)
(* The frame.                                                              *)
(***************************************************************************)

\* m_iKeyBits: CL_ButtonBits(0) lets a click close the MOTD.
ClickClosesMOTD == Sampled(in_attack) /\ m_bShow
ClickChooses == Sampled(in_attack) /\ ~m_bShow /\ gpActiveSel # NoWeapon

\* The menu bar alone is no weapon, and it is chosen all the same.
ThinkChooses_MenuBarToo == Choose(gpActiveSel)

\* A click on the menu bar closes it.
ThinkChooses ==
  IF gpActiveSel = MenuBar THEN UNCHANGED g_weaponselect
  ELSE Choose(gpActiveSel)

\* CHud::UpdateClientData with CHudAmmo::Think.  CL_ResetButtonBits samples
\* the button again, when the MOTD is gone, and strips it of a click that is
\* not in m_iKeyBits.
UpdateClientData(bits) ==
  /\ ~updated /\ updated' = TRUE
  /\ m_iWeaponBits' = bits /\ iOldWeaponBits' = bits
  /\ owned' = owned \cup (bits \ {Suit})
  /\ m_bShow' = (m_bShow /\ ~Sampled(in_attack))
  /\ in_attack' = IF ClickClosesMOTD \/ ClickChooses THEN Stripped(in_attack)
                  ELSE in_attack
  /\ IF ClickChooses
     THEN gpActiveSel' = NoWeapon /\ ThinkChooses
     ELSE UNCHANGED choiceVars
  /\ spent' = (spent \/ ClickClosesMOTD \/ ClickChooses)
  /\ owed' = (owed /\ ~(ClickClosesMOTD \/ ClickChooses))
  /\ UNCHANGED <<in_forward, captured, ammo, m_pWeapon, m_fHidden,
                 hud_fastswitch, menuVars, holders, edges>>

\* The command CL_CreateMove makes; a MOTD is scrolled instead of walking.
\* CL_KeyState has cleared the impulses when CL_ButtonBits samples forward.
Command ==
  [attack |-> Sampled(in_attack) /\ ~m_bShow /\ ~captured,
   forward |-> Sampled(AfterKeyState(in_forward)),
   forwardmove |-> IF m_bShow THEN 0 ELSE KeyState(in_forward),
   weaponselect |-> g_weaponselect]

CreateMove ==
  /\ updated /\ updated' = FALSE
  /\ in_forward' = AfterButtonBits(AfterKeyState(in_forward))
  /\ in_attack' = AfterButtonBits(in_attack)
  /\ m_bShow' = (m_bShow /\ ~Sampled(in_attack))
  /\ g_weaponselect' = NoWeapon
  /\ owed' = FALSE
  /\ edges' = {}
  /\ UNCHANGED <<captured, weaponVars, gpActiveSel, menuVars, holders, spent>>

Next ==
  \/ \E b \in {"attack", "forward"}, k \in Holders :
       ButtonDown(b, k) \/ ButtonUp(b, k)
  \/ UserCmd_NextWeapon \/ UserCmd_PrevWeapon \/ UserCmd_Close
  \/ \E key \in SlotKeys : SelectSlot(key) \/ SelectMenuItem(key)
  \/ DrawWList
  \/ \E S \in SUBSET Weapons : MsgFunc_AmmoX(S)
  \/ \E w \in Weapons : MsgFunc_CurWeapon(w)
  \/ \E hide, flashlight \in BOOLEAN : MsgFunc_HideWeapon(hide, flashlight)
  \/ MsgFunc_MOTD
  \/ SetCapture
  \/ MsgFunc_ResetHUD \/ MsgFunc_InitHUD
  \/ \E m \in Menus, timed \in BOOLEAN : MsgFunc_ShowMenu(m, timed)
  \/ \E timed \in BOOLEAN : MsgFunc_ShowMenu_None(timed)
  \/ \E m \in Menus : MsgFunc_VGUIMenu(m)
  \/ UserCmd_OldStyleMenuOpen \/ UserCmd_OldStyleMenuClose \/ Draw_Shutoff
  \/ \E S \in SUBSET Weapons : UpdateClientData({}) \/ UpdateClientData(S \cup {Suit})
  \/ CreateMove

Spec == Init /\ [][Next]_vars

-----------------------------------------------------------------------------
(***************************************************************************)
(* What a player may rely on.                                              *)
(***************************************************************************)

\* "key nums holding it down" (kbutton.h): through repeats, releases the
\* button never heard the press of, third keys, typed commands and used up
\* clicks, a button is down exactly while a key holds it, for attack one whose
\* click was not used up; no order of keys leaves it stuck or lets it go early.
ButtonsFollowKeys ==
  /\ HeldBy(in_attack) = holders["attack"]
  /\ HeldBy(in_forward) = holders["forward"]
  /\ "down" \in in_attack.state <=> holders["attack"] # {} /\ ~spent
  /\ "down" \in in_forward.state <=> holders["forward"] # {}

\* A click that closed the MOTD or chose a weapon never fires, in this frame
\* or a later one, however long it is held: attack is in a command only after
\* the button was pressed anew.
SpentClickNeverFires == updated /\ Command.attack => ~spent

\* A press of attack, however short, is in the next command, unless it was
\* used up, unstuck from the console or a menu has the mouse.
NoPressLost == updated /\ owed /\ ~captured => Command.attack

\* "Returns 0.25 if a key was pressed and released during the frame, 0.5 if it
\* was pressed and held, 0 if held then released, and 1.0 if held for the
\* entire time" (CL_KeyState): the fraction that moves the player is the one
\* of the keys bound to forward together, and 0.75 when they were released and
\* pressed again.
HeldFraction ==
  LET now == holders["forward"] # {} IN
  CASE edges = {} -> IF now THEN 4 ELSE 0
    [] edges = {"pressed"} -> 2
    [] edges = {"released"} -> 0
    [] edges = {"pressed", "released"} -> IF now THEN 3 ELSE 1
ForwardIsWhatKeysDid == updated /\ ~m_bShow => Command.forwardmove = HeldFraction

\* The selection knows no weapon of the life before: from a ResetHUD on, a
\* weapon is highlighted, and a click or a slot key asks for one, only if it
\* has been carried since.  What could bring one back is m_pWeapon, which
\* neither ResetHUD nor a death clears and where invnext and invprev start, and
\* a highlight, which outlives the weapon being dropped.
SelectionOfThisLife ==
  [][/\ gpActiveSel' \in Weapons => gpActiveSel' \in owned'
     /\ g_weaponselect' # g_weaponselect =>
          g_weaponselect' \in owned \cup {NoWeapon}]_vars

\* The n-th weapon after w in a cycle.
After(cycle, w) ==
  LET nth[n \in 0 .. Cardinality(Weapons)] ==
        IF n = 0 THEN w ELSE cycle[nth[n - 1]]
  IN nth

Reaches(cycle, w, v) == \E n \in DOMAIN After(cycle, w) : After(cycle, w)[n] = v

\* The mouse wheel goes through every weapon that is carried, and invprev takes
\* back invnext; pressing a slot key again and again reaches, from any weapon
\* of the slot, every other one that has ammo.
EveryWeaponReachable ==
  LET wheel == [w \in Carried |-> NextFrom(w)]
      slot == [w \in Carried |->
                 IF GetNextActivePos(w) # NoWeapon THEN GetNextActivePos(w)
                 ELSE GetFirstPos(SlotOf[w])]
  IN \A v, w \in Carried :
       /\ Reaches(wheel, w, v) /\ PrevFrom(NextFrom(w)) = w
       /\ SlotOf[v] = SlotOf[w] /\ v \in ammo => Reaches(slot, w, v)

\* Successive messages of one menu.
OneMenu(text) ==
  \A i \in 1 .. Len(text) - 1 :
    text[i + 1] = <<text[i][1], text[i][2] + 1>>

\* The text on the screen is never put together from two menus, or from one
\* in the wrong order, whatever is closed, reset or cut off between the parts.
MenuTextNotMixed == OneMenu(menu.text)

\* A text menu on the screen takes the slot keys, and loses them only with
\* its place on the screen; InitHUD alone leaves one without them.
DrawnMenuTakesSlotKeys ==
  [][menu'.drawn /\ ~menu'.m_fMenuDisplayed
       => MsgFunc_InitHUD \/ (menu.drawn /\ ~menu.m_fMenuDisplayed)]_vars

-----------------------------------------------------------------------------
(***************************************************************************)
(* The inductive invariant behind these properties.                        *)
(***************************************************************************)

TwoKeys(b) == b.down[1] = b.down[2] => b.down[1] = NoKey

\* A used up click left nothing in the button, a press that is owed did; and
\* the impulses of forward are what its keys did since the last command.
ButtonInv ==
  /\ TwoKeys(in_attack) /\ TwoKeys(in_forward)
  /\ ButtonsFollowKeys
  /\ spent => ~Sampled(in_attack)
  /\ owed => "pressed" \in in_attack.state
  /\ updated => ~(Sampled(in_attack) /\ m_bShow)
  /\ in_forward.state \ {"down"} = edges
  /\ edges = {"pressed"} => "down" \in in_forward.state

\* The text that is put together is of the menu that is being sent.
MenuInv ==
  /\ OneMenu(menu.text) /\ OneMenu(menu.prelocalised)
  /\ menu.m_fWaitingForMore =>
       /\ sending # NoMenu
       /\ Len(menu.prelocalised) > 0
       /\ menu.prelocalised[Len(menu.prelocalised)]
            = <<sending.menu, sending.next - 1>>

\* What is carried, or highlighted, is of this life.
OwnedInv ==
  /\ Carried \subseteq owned
  /\ gpActiveSel \in Weapons => gpActiveSel \in owned

HudInv == TypeOK /\ ButtonInv /\ MenuInv /\ OwnedInv
=============================================================================
