---------------------------- MODULE HudInputProofs ----------------------------
(***************************************************************************)
(* Proofs about HudInput for any bindings, any weapons in any slots and    *)
(* any text menus: the inductive invariant HudInv and what it implies.     *)
(***************************************************************************)
EXTENDS HudInput, FiniteSetTheorems, WellFoundedInduction, TLAPS

-----------------------------------------------------------------------------
(***************************************************************************)
(* What the operators on one button do, told by the keys that hold it.     *)
(***************************************************************************)

\* A key is noticed if it is new and at most one other holds the button.
LEMMA KeyDownEffect ==
  ASSUME NEW b \in Buttons, NEW k \in Holders, TwoKeys(b)
  PROVE  LET noticed == k \notin HeldBy(b) /\ \A x, y \in HeldBy(b) : x = y IN
         /\ KeyDown(b, k) \in Buttons /\ TwoKeys(KeyDown(b, k))
         /\ HeldBy(KeyDown(b, k)) = IF noticed THEN HeldBy(b) \cup {k}
                                    ELSE HeldBy(b)
         /\ KeyDown(b, k).state = IF noticed /\ "down" \notin b.state
                                  THEN b.state \cup {"down", "pressed"}
                                  ELSE b.state
<1> DEFINE noticed == k \notin HeldBy(b) /\ \A x, y \in HeldBy(b) : x = y
<1>1. k # NoKey
  BY KeysAssumption DEF Holders
<1>2. /\ b.down \in [{1, 2} -> Holders \cup {NoKey}]
      /\ b.state \in SUBSET {"down", "pressed", "released"}
      /\ b = [down |-> b.down, state |-> b.state]
  BY DEF Buttons
<1>3. noticed <=> k \notin HeldBy(b) /\ NoKey \in {b.down[1], b.down[2]}
  BY DEF HeldBy, TwoKeys
<1>4. CASE ~noticed
  BY <1>3, <1>4 DEF KeyDown
<1>5. CASE noticed
  <2> DEFINE i == IF b.down[1] = NoKey THEN 1 ELSE 2
             down == [b.down EXCEPT ![i] = k]
  <2>1. i \in {1, 2} /\ b.down[i] = NoKey
    BY <1>3, <1>5
  <2>2. KeyDown(b, k) =
          [down |-> down,
           state |-> IF "down" \in b.state THEN b.state
                     ELSE b.state \cup {"down", "pressed"}]
    BY <1>3, <1>5 DEF KeyDown
  <2>3. down \in [{1, 2} -> Holders \cup {NoKey}] /\ down[i] = k
        /\ \A j \in {1, 2} : j # i => down[j] = b.down[j]
    BY <1>2, <2>1
  <2>4. KeyDown(b, k) \in Buttons
    BY <1>2, <2>2, <2>3 DEF Buttons
  <2>5. HeldBy(KeyDown(b, k)) = HeldBy(b) \cup {k}
    BY <1>1, <2>1, <2>2, <2>3 DEF HeldBy
  <2>6. TwoKeys(KeyDown(b, k))
    <3>1. \A j \in {1, 2} : b.down[j] # k
      BY <1>1, <1>5 DEF HeldBy
    <3> QED
      BY <1>1, <2>1, <2>2, <2>3, <3>1 DEF TwoKeys
  <2> QED
    BY <1>5, <2>2, <2>4, <2>5, <2>6
<1> QED
  BY <1>4, <1>5

\* The last key that holds it releases the button; typed, anything does.
LEMMA KeyUpEffect ==
  ASSUME NEW b \in Buttons, NEW k \in Holders, TwoKeys(b)
  PROVE  LET rest == IF k = Console THEN {} ELSE HeldBy(b) \ {k} IN
         /\ KeyUp(b, k) \in Buttons /\ TwoKeys(KeyUp(b, k))
         /\ HeldBy(KeyUp(b, k)) = rest
         /\ KeyUp(b, k).state =
              IF k = Console THEN {"released"}
              ELSE IF k \notin HeldBy(b) \/ rest # {} \/ "down" \notin b.state
              THEN b.state ELSE (b.state \ {"down"}) \cup {"released"}
<1>1. k # NoKey
  BY KeysAssumption DEF Holders
<1>2. /\ b.down \in [{1, 2} -> Holders \cup {NoKey}]
      /\ b.state \in SUBSET {"down", "pressed", "released"}
  BY DEF Buttons
<1>3. CASE k = Console
  BY <1>3 DEF KeyUp, Buttons, Nobody, TwoKeys, HeldBy
<1>4. CASE k # Console /\ k \notin HeldBy(b)
  <2>1. KeyUp(b, k) = b /\ HeldBy(b) \ {k} = HeldBy(b)
    BY <1>4 DEF KeyUp
  <2> QED
    BY <1>4, <2>1
<1>5. CASE k # Console /\ k \in HeldBy(b)
  <2> DEFINE down == [i \in {1, 2} |-> IF b.down[i] = k THEN NoKey ELSE b.down[i]]
  <2>1. KeyUp(b, k) =
          [down |-> down,
           state |-> IF down # Nobody \/ "down" \notin b.state THEN b.state
                     ELSE (b.state \ {"down"}) \cup {"released"}]
    BY <1>5 DEF KeyUp
  <2>2. down \in [{1, 2} -> Holders \cup {NoKey}]
    BY <1>2
  <2>3. {down[1], down[2]} \ {NoKey} = HeldBy(b) \ {k}
    BY <1>1 DEF HeldBy
  <2>4. down = Nobody <=> HeldBy(b) \ {k} = {}
    BY <2>3 DEF Nobody
  <2>5. TwoKeys(KeyUp(b, k))
    BY <1>1, <2>1, <2>2 DEF TwoKeys
  <2>6. KeyUp(b, k) \in Buttons
    BY <1>2, <2>1, <2>2 DEF Buttons
  <2> QED
    BY <1>5, <2>1, <2>3, <2>4, <2>5, <2>6 DEF HeldBy
<1> QED
  BY <1>3, <1>4, <1>5

\* Sampling and stripping change no key.
LEMMA SampleEffect ==
  ASSUME NEW b \in Buttons
  PROVE  /\ AfterButtonBits(b) \in Buttons /\ AfterKeyState(b) \in Buttons
         /\ Stripped(b) \in Buttons
         /\ \A c \in {AfterButtonBits(b), AfterKeyState(b), Stripped(b)} :
              c.down = b.down
         /\ AfterButtonBits(b).state = b.state \ {"pressed"}
         /\ AfterKeyState(b).state = b.state \cap {"down"}
         /\ Stripped(b).state = {}
BY DEF AfterButtonBits, AfterKeyState, Stripped, Buttons

-----------------------------------------------------------------------------
(***************************************************************************)
(* The text of the menu.                                                   *)
(***************************************************************************)

\* A text that stays of one menu: nothing, one message, or one more of the
\* same menu.
LEMMA NoPartIsOneMenu == OneMenu(<<>>)
BY DEF OneMenu

LEMMA EmptyIsSeq == ASSUME NEW S PROVE <<>> \in Seq(S)
OBVIOUS

LEMMA OneMenuOfPart ==
  ASSUME NEW m \in Menus, NEW i \in Nat
  PROVE  OneMenu(<<<<m, i>>>>)
BY DEF OneMenu

LEMMA OneMenuAppend ==
  ASSUME NEW text \in Seq(PartsOfMenus), OneMenu(text), Len(text) > 0,
         NEW m \in Menus, NEW i \in Nat \ {0}, text[Len(text)] = <<m, i - 1>>
  PROVE  /\ OneMenu(Append(text, <<m, i>>))
         /\ Append(text, <<m, i>>) \in Seq(PartsOfMenus)
<1> DEFINE longer == Append(text, <<m, i>>)
<1>1. /\ <<m, i>> \in PartsOfMenus
      /\ Len(text) \in Nat
  BY DEF PartsOfMenus
<1>2. /\ Len(longer) = Len(text) + 1 /\ longer \in Seq(PartsOfMenus)
      /\ \A j \in 1 .. Len(text) : longer[j] = text[j]
      /\ longer[Len(text) + 1] = <<m, i>>
  BY <1>1
<1>3. SUFFICES ASSUME NEW j \in 1 .. Len(text)
               PROVE  longer[j + 1] = <<longer[j][1], longer[j][2] + 1>>
  BY <1>1, <1>2 DEF OneMenu
<1>4. CASE j < Len(text)
  <2>1. text[j + 1] = <<text[j][1], text[j][2] + 1>>
    BY <1>1, <1>4 DEF OneMenu
  <2>2. j + 1 \in 1 .. Len(text)
    BY <1>1, <1>4
  <2> QED
    BY <1>2, <2>1, <2>2
<1>5. CASE j = Len(text)
  <2>1. longer[j] = <<m, i - 1>>
    BY <1>2, <1>5
  <2>2. longer[j][1] = m /\ longer[j][2] + 1 = i
    BY <2>1
  <2> QED
    BY <1>2, <1>5, <2>2
<1> QED
  BY <1>1, <1>4, <1>5

\* A message of a menu goes on with the text of its own menu or starts anew.
LEMMA ShowMenuInv ==
  ASSUME MenuType, MenuInv, NEW m \in Menus, NEW timed \in BOOLEAN,
         MsgFunc_ShowMenu(m, timed)
  PROVE  MenuType' /\ MenuInv'
<1> DEFINE i == IF sending = NoMenu THEN 1 ELSE sending.next
           needMore == i < Parts[m]
           whole == IF menu.m_fWaitingForMore
                    THEN Append(menu.prelocalised, <<m, i>>) ELSE <<<<m, i>>>>
<1>1. i \in Nat \ {0} /\ Parts[m] \in Nat
  BY MenusAssumption DEF MenuType
<1>2. /\ menu' = [menu EXCEPT !.m_fMenuDisplayed = TRUE, !.drawn = TRUE,
                    !.m_bitsValidSlots = Valid[m],
                    !.m_fWaitingForMore = needMore, !.prelocalised = whole,
                    !.text = IF needMore THEN menu.text ELSE whole,
                    !.shutoff = timed]
      /\ sending' = IF needMore THEN [menu |-> m, next |-> i + 1] ELSE NoMenu
      /\ sending # NoMenu => sending.menu = m
  BY DEF MsgFunc_ShowMenu, MenuOnly, AddPart, MenuType
<1>3. /\ whole \in Seq(PartsOfMenus) /\ OneMenu(whole)
      /\ Len(whole) > 0 /\ whole[Len(whole)] = <<m, i>>
  <2>1. CASE menu.m_fWaitingForMore
    <3>1. /\ menu.prelocalised \in Seq(PartsOfMenus) /\ OneMenu(menu.prelocalised)
          /\ Len(menu.prelocalised) > 0
          /\ menu.prelocalised[Len(menu.prelocalised)] = <<m, i - 1>>
      BY <1>2, <2>1 DEF MenuInv, MenuType
    <3>2. /\ OneMenu(Append(menu.prelocalised, <<m, i>>))
          /\ Append(menu.prelocalised, <<m, i>>) \in Seq(PartsOfMenus)
      BY <1>1, <3>1, OneMenuAppend
    <3>3. <<m, i>> \in PartsOfMenus
      BY <1>1 DEF PartsOfMenus
    <3> QED
      BY <2>1, <3>1, <3>2, <3>3
  <2>2. CASE ~menu.m_fWaitingForMore
    <3>1. <<m, i>> \in PartsOfMenus
      BY <1>1 DEF PartsOfMenus
    <3> QED
      BY <1>1, <2>2, <3>1, OneMenuOfPart
  <2> QED
    BY <2>1, <2>2
<1>4. MenuType'
  <2>1. Valid[m] \in SUBSET SlotKeys
    BY MenusAssumption
  <2>2. needMore \in BOOLEAN
    OBVIOUS
  <2>3. menu' \in [m_fMenuDisplayed : BOOLEAN, drawn : BOOLEAN,
               m_bitsValidSlots : SUBSET SlotKeys, shutoff : BOOLEAN,
               m_fWaitingForMore : BOOLEAN,
               prelocalised : Seq(PartsOfMenus), text : Seq(PartsOfMenus)]
    <3> HIDE DEF whole, needMore
    <3> QED
      BY <1>2, <1>3, <2>1, <2>2 DEF MenuType
  <2>4. sending' = NoMenu \/ sending' \in [menu : Menus, next : Nat \ {0}]
    BY <1>1, <1>2
  <2> QED
    BY <2>3, <2>4 DEF MenuType
<1>5. /\ menu'.prelocalised = whole /\ menu'.m_fWaitingForMore = needMore
      /\ menu'.text = IF needMore THEN menu.text ELSE whole
  <2> HIDE DEF whole, needMore
  <2> QED
    BY <1>2 DEF MenuType
<1>6. needMore => /\ sending' # NoMenu
                  /\ sending'.menu = m /\ sending'.next - 1 = i
  BY <1>1, <1>2 DEF NoMenu
<1> HIDE DEF whole, needMore, i
<1> QED
  BY <1>3, <1>4, <1>5, <1>6 DEF MenuInv

\* Everything else that happens to the menu keeps its text or clears it.
LEMMA MenuInvKept ==
  ASSUME MenuType, MenuInv,
         \/ menu' = MenuReset(menu) /\ UNCHANGED sending
         \/ menu' = MenuInitHUDData(menu) /\ sending' = NoMenu
         \/ /\ UNCHANGED sending
            /\ \/ menu' = OldStyleMenuClose(menu)
               \/ \E timed \in BOOLEAN :
                    menu' = [OldStyleMenuClose(menu) EXCEPT
                               !.m_bitsValidSlots = {}, !.shutoff = timed]
               \/ \E m \in Menus, opened \in BOOLEAN :
                    menu' = [menu EXCEPT !.m_bitsValidSlots = Valid[m],
                                         !.m_fMenuDisplayed = @ \/ opened]
               \/ menu' = [menu EXCEPT !.shutoff = FALSE, !.text = BuyText]
               \/ menu' = menu
  PROVE  MenuType' /\ MenuInv'
<1>1. \A m \in Menus : Valid[m] \in SUBSET SlotKeys
  BY MenusAssumption
<1>2. MenuType'
  <2> DEFINE M == [m_fMenuDisplayed : BOOLEAN, drawn : BOOLEAN,
                   m_bitsValidSlots : SUBSET SlotKeys, shutoff : BOOLEAN,
                   m_fWaitingForMore : BOOLEAN,
                   prelocalised : Seq(PartsOfMenus), text : Seq(PartsOfMenus)]
  <2>1. menu \in M /\ <<>> \in Seq(PartsOfMenus)
    BY EmptyIsSeq DEF MenuType
  <2>2. ASSUME NEW m \in M
        PROVE  /\ MenuReset(m) \in M /\ MenuInitHUDData(m) \in M
               /\ OldStyleMenuClose(m) \in M
    <3>1. <<>> \in Seq(PartsOfMenus)
      BY EmptyIsSeq
    <3>2. MenuReset(m) \in M
      BY <3>1 DEF MenuReset
    <3>3. MenuInitHUDData(m) \in M
      BY <3>2 DEF MenuInitHUDData
    <3>4. OldStyleMenuClose(m) \in M
      BY DEF OldStyleMenuClose
    <3> QED
      BY <3>2, <3>3, <3>4
  <2>3. ASSUME NEW timed \in BOOLEAN
        PROVE  [OldStyleMenuClose(menu) EXCEPT !.m_bitsValidSlots = {},
                                               !.shutoff = timed] \in M
    <3>1. OldStyleMenuClose(menu) \in M
      BY <2>1, <2>2
    <3> QED
      BY <3>1
  <2>4. ASSUME NEW m \in Menus, NEW opened \in BOOLEAN
        PROVE  [menu EXCEPT !.m_bitsValidSlots = Valid[m],
                            !.m_fMenuDisplayed = @ \/ opened] \in M
    BY <1>1, <2>1
  <2>5. [menu EXCEPT !.shutoff = FALSE, !.text = BuyText] \in M
    BY <2>1 DEF BuyText
  <2>6. menu' \in M
    <3> HIDE DEF M
    <3> QED
      BY <2>1, <2>2, <2>3, <2>4, <2>5
  <2> QED
    BY <2>6 DEF MenuType
<1>3. /\ menu'.text = menu.text \/ menu'.text = <<>>
      /\ \/ menu'.prelocalised = <<>> /\ menu'.m_fWaitingForMore = FALSE
         \/ /\ menu'.prelocalised = menu.prelocalised
            /\ menu'.m_fWaitingForMore = menu.m_fWaitingForMore
            /\ sending' = sending
  BY DEF MenuType, MenuReset, MenuInitHUDData, OldStyleMenuClose, BuyText
<1> QED
  BY <1>2, <1>3, NoPartIsOneMenu DEF MenuInv

-----------------------------------------------------------------------------
(***************************************************************************)
(* The buttons.                                                            *)
(***************************************************************************)

ButtonsInv == ButtonType /\ ButtonInv

\* The parts of vars that the buttons and what is owed to them depend on.
frameVars == <<updated, in_attack, in_forward, m_bShow, captured, keyHistory>>

LEMMA ButtonsInvUnchanged ==
  ASSUME ButtonsInv, UNCHANGED frameVars
  PROVE  ButtonsInv'
BY DEF ButtonsInv, ButtonType, ButtonInv, frameVars, keyHistory,
       ButtonsFollowKeys, TwoKeys, Sampled, HeldBy

\* Between frames the MOTD and the mouse do not touch the buttons.
LEMMA ButtonsInvMOTD ==
  ASSUME ButtonsInv, ~updated, UNCHANGED <<updated, buttonVars, keyHistory>>,
         m_bShow' \in BOOLEAN, captured' \in BOOLEAN
  PROVE  ButtonsInv'
BY DEF ButtonsInv, ButtonType, ButtonInv, buttonVars, keyHistory,
       ButtonsFollowKeys, TwoKeys, Sampled, HeldBy

LEMMA ButtonDownInv ==
  ASSUME ButtonsInv, NEW b \in {"attack", "forward"}, NEW k \in Holders,
         ButtonDown(b, k)
  PROVE  ButtonsInv'
<1> DEFINE noticed == k \notin holders[b] /\ \A x, y \in holders[b] : x = y
<1>1. /\ ~updated /\ UNCHANGED <<updated, m_bShow, captured>>
      /\ holders' = IF noticed THEN [holders EXCEPT ![b] = @ \cup {k}] ELSE holders
      /\ spent' = (spent /\ ~(noticed /\ b = "attack"))
      /\ owed' = (owed \/ (noticed /\ b = "attack" /\ (holders[b] = {} \/ spent)))
      /\ edges' = IF noticed /\ b = "forward" /\ holders[b] = {}
                  THEN edges \cup {"pressed"} ELSE edges
  BY DEF ButtonDown, Pressed
<1>2. CASE b = "attack"
  <2>1. in_attack' = KeyDown(in_attack, k) /\ in_forward' = in_forward
    BY <1>2 DEF ButtonDown
  <2>2. /\ in_attack \in Buttons /\ TwoKeys(in_attack)
        /\ HeldBy(in_attack) = holders["attack"]
    BY DEF ButtonsInv, ButtonType, ButtonInv, ButtonsFollowKeys
  <2>3. /\ in_attack' \in Buttons /\ TwoKeys(in_attack')
        /\ HeldBy(in_attack') = IF noticed THEN holders["attack"] \cup {k}
                                ELSE holders["attack"]
        /\ in_attack'.state = IF noticed /\ "down" \notin in_attack.state
                              THEN in_attack.state \cup {"down", "pressed"}
                              ELSE in_attack.state
    <3>1. noticed <=> /\ k \notin HeldBy(in_attack)
                      /\ \A x, y \in HeldBy(in_attack) : x = y
      BY <1>2, <2>2
    <3>2. /\ in_attack' \in Buttons /\ TwoKeys(in_attack')
          /\ HeldBy(in_attack') =
               IF k \notin HeldBy(in_attack) /\ \A x, y \in HeldBy(in_attack) : x = y
               THEN HeldBy(in_attack) \cup {k} ELSE HeldBy(in_attack)
          /\ in_attack'.state =
               IF /\ k \notin HeldBy(in_attack) /\ \A x, y \in HeldBy(in_attack) : x = y
                  /\ "down" \notin in_attack.state
               THEN in_attack.state \cup {"down", "pressed"} ELSE in_attack.state
      BY <2>1, <2>2, KeyDownEffect
    <3> HIDE DEF noticed
    <3> QED
      BY <2>2, <3>1, <3>2
  <2>4. /\ holders'["attack"] = HeldBy(in_attack')
        /\ holders'["forward"] = holders["forward"]
        /\ holders' \in [{"attack", "forward"} -> SUBSET Holders]
    BY <1>1, <1>2, <2>3 DEF ButtonsInv, ButtonType
  <2>5. ButtonType'
    BY <1>1, <1>2, <2>1, <2>3, <2>4 DEF ButtonsInv, ButtonType
  <2>6. ButtonInv'
    <3>1. noticed => holders'["attack"] # {}
      BY <1>2, <2>3, <2>4
    <3>2. "down" \in in_attack.state <=> holders["attack"] # {} /\ ~spent
      BY DEF ButtonsInv, ButtonInv, ButtonsFollowKeys
    <3>3. "down" \in in_attack'.state <=> holders'["attack"] # {} /\ ~spent'
      BY <1>1, <1>2, <2>3, <2>4, <3>1, <3>2
    <3>4. /\ spent' => ~Sampled(in_attack')
          /\ owed' => "pressed" \in in_attack'.state
      BY <1>1, <1>2, <2>3, <3>2 DEF ButtonsInv, ButtonInv, Sampled
    <3> QED
      BY <1>1, <1>2, <2>1, <2>3, <2>4, <3>3, <3>4
         DEF ButtonsInv, ButtonInv, ButtonsFollowKeys, TwoKeys, HeldBy
  <2> QED
    BY <2>5, <2>6 DEF ButtonsInv
<1>3. CASE b = "forward"
  <2>1. in_forward' = KeyDown(in_forward, k) /\ in_attack' = in_attack
    BY <1>3 DEF ButtonDown
  <2>2. /\ in_forward \in Buttons /\ TwoKeys(in_forward)
        /\ HeldBy(in_forward) = holders["forward"]
    BY DEF ButtonsInv, ButtonType, ButtonInv, ButtonsFollowKeys
  <2>3. /\ in_forward' \in Buttons /\ TwoKeys(in_forward')
        /\ HeldBy(in_forward') = IF noticed THEN holders["forward"] \cup {k}
                                 ELSE holders["forward"]
        /\ in_forward'.state = IF noticed /\ "down" \notin in_forward.state
                               THEN in_forward.state \cup {"down", "pressed"}
                               ELSE in_forward.state
    <3>1. noticed <=> /\ k \notin HeldBy(in_forward)
                      /\ \A x, y \in HeldBy(in_forward) : x = y
      BY <1>3, <2>2
    <3>2. /\ in_forward' \in Buttons /\ TwoKeys(in_forward')
          /\ HeldBy(in_forward') =
               IF k \notin HeldBy(in_forward) /\ \A x, y \in HeldBy(in_forward) : x = y
               THEN HeldBy(in_forward) \cup {k} ELSE HeldBy(in_forward)
          /\ in_forward'.state =
               IF /\ k \notin HeldBy(in_forward) /\ \A x, y \in HeldBy(in_forward) : x = y
                  /\ "down" \notin in_forward.state
               THEN in_forward.state \cup {"down", "pressed"} ELSE in_forward.state
      BY <2>1, <2>2, KeyDownEffect
    <3> HIDE DEF noticed
    <3> QED
      BY <2>2, <3>1, <3>2
  <2>4. /\ holders'["forward"] = HeldBy(in_forward')
        /\ holders'["attack"] = holders["attack"]
        /\ holders' \in [{"attack", "forward"} -> SUBSET Holders]
    BY <1>1, <1>3, <2>3 DEF ButtonsInv, ButtonType
  <2>5. ButtonType'
    BY <1>1, <1>3, <2>1, <2>3, <2>4 DEF ButtonsInv, ButtonType
  <2>6. ButtonInv'
    <3>1. "down" \in in_forward.state <=> holders["forward"] # {}
      BY DEF ButtonsInv, ButtonInv, ButtonsFollowKeys
    <3>2. /\ "down" \in in_forward'.state <=> holders'["forward"] # {}
          /\ in_forward'.state \ {"down"} = edges'
          /\ edges' = {"pressed"} => "down" \in in_forward'.state
      <4>1. /\ in_forward.state \ {"down"} = edges
            /\ edges = {"pressed"} => "down" \in in_forward.state
        BY DEF ButtonsInv, ButtonInv
      <4>2. CASE noticed /\ holders["forward"] = {}
        <5>1. /\ in_forward'.state = in_forward.state \cup {"down", "pressed"}
              /\ edges' = edges \cup {"pressed"}
          BY <1>1, <1>3, <2>3, <3>1, <4>2
        <5> QED
          BY <1>3, <2>3, <2>4, <4>1, <4>2, <5>1
      <4>3. CASE noticed /\ holders["forward"] # {}
        BY <1>1, <1>3, <2>3, <2>4, <3>1, <4>1, <4>3
      <4>4. CASE ~noticed
        BY <1>1, <1>3, <2>3, <2>4, <3>1, <4>1, <4>4
      <4> QED
        BY <4>2, <4>3, <4>4
    <3> QED
      BY <1>1, <1>3, <2>1, <2>3, <2>4, <3>2
         DEF ButtonsInv, ButtonInv, ButtonsFollowKeys, TwoKeys, HeldBy, Sampled
  <2> QED
    BY <2>5, <2>6 DEF ButtonsInv
<1> QED
  BY <1>2, <1>3

LEMMA ButtonUpInv ==
  ASSUME ButtonsInv, NEW b \in {"attack", "forward"}, NEW k \in Holders,
         ButtonUp(b, k)
  PROVE  ButtonsInv'
<1> DEFINE rest == IF k = Console THEN {} ELSE holders[b] \ {k}
<1>1. /\ ~updated /\ UNCHANGED <<updated, m_bShow, captured, spent>>
      /\ holders' = [holders EXCEPT ![b] = rest]
      /\ owed' = (owed /\ ~(k = Console /\ b = "attack"))
      /\ edges' = IF b # "forward" THEN edges
                  ELSE IF k = Console THEN {"released"}
                  ELSE IF holders[b] # {} /\ rest = {} THEN edges \cup {"released"}
                  ELSE edges
  BY DEF ButtonUp, Released
<1>2. CASE b = "attack"
  <2>1. in_attack' = KeyUp(in_attack, k) /\ in_forward' = in_forward
    BY <1>2 DEF ButtonUp
  <2>2. /\ in_attack \in Buttons /\ TwoKeys(in_attack)
        /\ HeldBy(in_attack) = holders["attack"]
    BY DEF ButtonsInv, ButtonType, ButtonInv, ButtonsFollowKeys
  <2>3. /\ in_attack' \in Buttons /\ TwoKeys(in_attack')
        /\ HeldBy(in_attack') = rest
        /\ in_attack'.state =
             IF k = Console THEN {"released"}
             ELSE IF k \notin holders["attack"] \/ rest # {}
                     \/ "down" \notin in_attack.state
             THEN in_attack.state ELSE (in_attack.state \ {"down"}) \cup {"released"}
    <3>1. rest = IF k = Console THEN {} ELSE HeldBy(in_attack) \ {k}
      BY <1>2, <2>2
    <3>2. LET left == IF k = Console THEN {} ELSE HeldBy(in_attack) \ {k} IN
          /\ in_attack' \in Buttons /\ TwoKeys(in_attack')
          /\ HeldBy(in_attack') = left
          /\ in_attack'.state =
               IF k = Console THEN {"released"}
               ELSE IF k \notin HeldBy(in_attack) \/ left # {}
                       \/ "down" \notin in_attack.state
               THEN in_attack.state ELSE (in_attack.state \ {"down"}) \cup {"released"}
      BY <2>1, <2>2, KeyUpEffect
    <3> HIDE DEF rest
    <3> QED
      BY <2>2, <3>1, <3>2
  <2>4. /\ holders'["attack"] = rest
        /\ holders'["forward"] = holders["forward"]
        /\ holders' \in [{"attack", "forward"} -> SUBSET Holders]
    BY <1>1, <1>2 DEF ButtonsInv, ButtonType
  <2>5. ButtonType'
    BY <1>1, <1>2, <2>1, <2>3, <2>4 DEF ButtonsInv, ButtonType
  <2>6. ButtonInv'
    <3>1. "down" \in in_attack.state <=> holders["attack"] # {} /\ ~spent
      BY DEF ButtonsInv, ButtonInv, ButtonsFollowKeys
    <3>2. "down" \in in_attack'.state <=> holders'["attack"] # {} /\ ~spent'
      <4>1. CASE k = Console
        BY <1>1, <2>3, <2>4, <4>1
      <4>2. CASE k # Console /\ k \notin holders["attack"]
        BY <1>1, <1>2, <2>3, <2>4, <3>1, <4>2
      <4>3. CASE k # Console /\ k \in holders["attack"]
        BY <1>1, <1>2, <2>3, <2>4, <3>1, <4>3
      <4> QED
        BY <4>1, <4>2, <4>3
    <3>3. /\ spent' => ~Sampled(in_attack')
          /\ owed' => "pressed" \in in_attack'.state
      <4>1. CASE k = Console
        BY <1>1, <1>2, <2>3, <4>1 DEF Sampled
      <4>2. CASE k # Console
        <5>1. owed => "pressed" \in in_attack.state
          BY DEF ButtonsInv, ButtonInv
        <5>2. "pressed" \in in_attack'.state <=> "pressed" \in in_attack.state
          BY <2>3, <4>2
        <5>3. spent => "pressed" \notin in_attack.state /\ "down" \notin in_attack.state
          BY DEF ButtonsInv, ButtonInv, Sampled
        <5> QED
          BY <1>1, <1>2, <2>3, <3>2, <4>2, <5>1, <5>2, <5>3 DEF Sampled
      <4> QED
        BY <4>1, <4>2
    <3> QED
      BY <1>1, <1>2, <2>1, <2>3, <2>4, <3>2, <3>3
         DEF ButtonsInv, ButtonInv, ButtonsFollowKeys, TwoKeys, HeldBy
  <2> QED
    BY <2>5, <2>6 DEF ButtonsInv
<1>3. CASE b = "forward"
  <2>1. in_forward' = KeyUp(in_forward, k) /\ in_attack' = in_attack
    BY <1>3 DEF ButtonUp
  <2>2. /\ in_forward \in Buttons /\ TwoKeys(in_forward)
        /\ HeldBy(in_forward) = holders["forward"]
    BY DEF ButtonsInv, ButtonType, ButtonInv, ButtonsFollowKeys
  <2>3. /\ in_forward' \in Buttons /\ TwoKeys(in_forward')
        /\ HeldBy(in_forward') = rest
        /\ in_forward'.state =
             IF k = Console THEN {"released"}
             ELSE IF k \notin holders["forward"] \/ rest # {}
                     \/ "down" \notin in_forward.state
             THEN in_forward.state ELSE (in_forward.state \ {"down"}) \cup {"released"}
    <3>1. rest = IF k = Console THEN {} ELSE HeldBy(in_forward) \ {k}
      BY <1>3, <2>2
    <3>2. LET left == IF k = Console THEN {} ELSE HeldBy(in_forward) \ {k} IN
          /\ in_forward' \in Buttons /\ TwoKeys(in_forward')
          /\ HeldBy(in_forward') = left
          /\ in_forward'.state =
               IF k = Console THEN {"released"}
               ELSE IF k \notin HeldBy(in_forward) \/ left # {}
                       \/ "down" \notin in_forward.state
               THEN in_forward.state ELSE (in_forward.state \ {"down"}) \cup {"released"}
      BY <2>1, <2>2, KeyUpEffect
    <3> HIDE DEF rest
    <3> QED
      BY <2>2, <3>1, <3>2
  <2>4. /\ holders'["forward"] = rest
        /\ holders'["attack"] = holders["attack"]
        /\ holders' \in [{"attack", "forward"} -> SUBSET Holders]
    BY <1>1, <1>3 DEF ButtonsInv, ButtonType
  <2>5. ButtonType'
    BY <1>1, <1>3, <2>1, <2>3, <2>4 DEF ButtonsInv, ButtonType
  <2>6. ButtonInv'
    <3>1. /\ "down" \in in_forward.state <=> holders["forward"] # {}
          /\ in_forward.state \ {"down"} = edges
          /\ edges = {"pressed"} => "down" \in in_forward.state
      BY DEF ButtonsInv, ButtonInv, ButtonsFollowKeys
    <3>2. /\ "down" \in in_forward'.state <=> holders'["forward"] # {}
          /\ in_forward'.state \ {"down"} = edges'
          /\ edges' = {"pressed"} => "down" \in in_forward'.state
      <4>1. CASE k = Console
        BY <1>1, <1>3, <2>3, <2>4, <4>1
      <4>2. CASE k # Console /\ (k \notin holders["forward"] \/ rest # {})
        <5>1. in_forward'.state = in_forward.state /\ edges' = edges
          BY <1>1, <1>3, <2>3, <4>2
        <5>2. holders'["forward"] # {} <=> holders["forward"] # {}
          BY <1>3, <2>4, <4>2
        <5> QED
          BY <3>1, <5>1, <5>2
      <4>3. CASE k # Console /\ k \in holders["forward"] /\ rest = {}
        <5>1. /\ in_forward'.state = (in_forward.state \ {"down"}) \cup {"released"}
              /\ edges' = edges \cup {"released"}
          BY <1>1, <1>3, <2>3, <3>1, <4>3
        <5> QED
          BY <2>4, <3>1, <4>3, <5>1
      <4> QED
        BY <4>1, <4>2, <4>3
    <3> QED
      BY <1>1, <1>3, <2>1, <2>3, <2>4, <3>2
         DEF ButtonsInv, ButtonInv, ButtonsFollowKeys, TwoKeys, HeldBy, Sampled
  <2> QED
    BY <2>5, <2>6 DEF ButtonsInv
<1> QED
  BY <1>2, <1>3

\* A click that is used up leaves nothing in the button.
LEMMA UpdateClientDataInv ==
  ASSUME ButtonsInv, NEW bits, UpdateClientData(bits)
  PROVE  ButtonsInv'
<1> DEFINE used == ClickClosesMOTD \/ ClickChooses
<1>1. /\ updated' = TRUE /\ UNCHANGED <<in_forward, captured, holders, edges>>
      /\ m_bShow' = (m_bShow /\ ~Sampled(in_attack))
      /\ in_attack' = IF used THEN Stripped(in_attack) ELSE in_attack
      /\ spent' = (spent \/ used)
      /\ owed' = (owed /\ ~used)
  BY DEF UpdateClientData
<1>2. /\ in_attack \in Buttons /\ Stripped(in_attack) \in Buttons
      /\ Stripped(in_attack).down = in_attack.down
      /\ Stripped(in_attack).state = {}
  BY SampleEffect DEF ButtonsInv, ButtonType
<1>3. used \in BOOLEAN
  BY DEF ClickClosesMOTD, ClickChooses
<1>4. CASE used
  <2>1. /\ in_attack' \in Buttons /\ in_attack'.down = in_attack.down
        /\ in_attack'.state = {} /\ ~Sampled(in_attack')
        /\ spent' /\ ~owed'
    BY <1>1, <1>2, <1>4 DEF Sampled
  <2> HIDE DEF used
  <2> QED
    BY <1>1, <2>1 DEF ButtonsInv, ButtonType, ButtonInv, ButtonsFollowKeys,
                      TwoKeys, HeldBy
<1>5. CASE ~used
  <2>1. /\ in_attack' = in_attack /\ (spent' <=> spent) /\ (owed' <=> owed)
        /\ spent' \in BOOLEAN /\ owed' \in BOOLEAN
    BY <1>1, <1>5
  <2> HIDE DEF used
  <2>2. ButtonType'
    BY <1>1, <2>1 DEF ButtonsInv, ButtonType
  <2> QED
    BY <1>1, <2>1, <2>2 DEF ButtonsInv, ButtonInv, ButtonsFollowKeys,
                            TwoKeys, HeldBy, Sampled
<1> QED
  BY <1>4, <1>5

LEMMA CreateMoveInv ==
  ASSUME ButtonsInv, CreateMove
  PROVE  ButtonsInv'
<1>1. /\ updated' = FALSE /\ owed' = FALSE /\ edges' = {}
      /\ in_forward' = AfterButtonBits(AfterKeyState(in_forward))
      /\ in_attack' = AfterButtonBits(in_attack)
      /\ m_bShow' = (m_bShow /\ ~Sampled(in_attack))
      /\ UNCHANGED <<captured, holders, spent>>
  BY DEF CreateMove
<1>2. /\ in_attack' \in Buttons /\ in_attack'.down = in_attack.down
      /\ in_attack'.state = in_attack.state \ {"pressed"}
  BY <1>1, SampleEffect DEF ButtonsInv, ButtonType
<1>3. /\ in_forward' \in Buttons /\ in_forward'.down = in_forward.down
      /\ in_forward'.state = in_forward.state \cap {"down"}
  <2>1. /\ AfterKeyState(in_forward) \in Buttons
        /\ AfterKeyState(in_forward).down = in_forward.down
        /\ AfterKeyState(in_forward).state = in_forward.state \cap {"down"}
    BY SampleEffect DEF ButtonsInv, ButtonType
  <2>2. /\ in_forward' \in Buttons
        /\ in_forward'.down = AfterKeyState(in_forward).down
        /\ in_forward'.state = AfterKeyState(in_forward).state \ {"pressed"}
    BY <1>1, <2>1, SampleEffect
  <2> QED
    BY <2>1, <2>2
<1>4. ButtonType'
  BY <1>1, <1>2, <1>3 DEF ButtonsInv, ButtonType
<1>5. /\ "down" \in in_attack'.state <=> "down" \in in_attack.state
      /\ "down" \in in_forward'.state <=> "down" \in in_forward.state
      /\ in_forward'.state \ {"down"} = {}
      /\ Sampled(in_attack') => Sampled(in_attack)
  BY <1>2, <1>3 DEF Sampled
<1> QED
  BY <1>1, <1>2, <1>3, <1>4, <1>5
     DEF ButtonsInv, ButtonInv, ButtonsFollowKeys, TwoKeys, HeldBy

-----------------------------------------------------------------------------
(***************************************************************************)
(* The selection is always a weapon, the menu bar or nothing.              *)
(***************************************************************************)

LEMMA LeastNatural ==
  ASSUME NEW S, S \subseteq Nat, S # {}
  PROVE  \E n \in S : \A m \in S : n <= m
<1> DEFINE less == {p \in Nat \X Nat : p[1] < p[2]}
<1>1. IsWellFoundedOn(less, Nat)
  BY NatLessThanWellFounded DEF OpToRel
<1>2. PICK n \in S : \A m \in S : <<m, n>> \notin less
  BY <1>1, WFMin
<1>3. ASSUME NEW m \in S
      PROVE  n <= m
  <2>1. m \in Nat /\ n \in Nat
    OBVIOUS
  <2>2. <<m, n>> \in Nat \X Nat /\ <<m, n>>[1] = m /\ <<m, n>>[2] = n
    BY <2>1
  <2>3. ~(m < n)
    BY <1>2, <2>1, <2>2
  <2> QED
    BY <2>1, <2>3
<1> QED
  BY <1>3

\* Some weapon of a set comes first in any numbering.
LEMMA SmallestWeapon ==
  ASSUME NEW S, S \subseteq Weapons, S # {}, NEW f \in [Weapons -> Nat]
  PROVE  \E w \in S : \A v \in S : f[w] <= f[v]
<1> DEFINE N == {f[w] : w \in S}
<1>1. N \subseteq Nat /\ N # {}
  OBVIOUS
<1>2. PICK n \in N : \A m \in N : n <= m
  BY <1>1, LeastNatural
<1> QED
  BY <1>2

\* And some weapon comes first by two numberings, one before the other.
LEMMA SmallestByTwo ==
  ASSUME NEW S, S \subseteq Weapons, S # {},
         NEW f \in [Weapons -> Nat], NEW g \in [Weapons -> Nat]
  PROVE  \E w \in S : \A v \in S :
           ~(f[v] < f[w] \/ (f[v] = f[w] /\ g[v] < g[w]))
<1>1. PICK x \in S : \A v \in S : f[x] <= f[v]
  BY SmallestWeapon
<1> DEFINE T == {v \in S : f[v] = f[x]}
<1>2. T \subseteq Weapons /\ T # {}
  OBVIOUS
<1>3. PICK w \in T : \A v \in T : g[w] <= g[v]
  BY <1>2, SmallestWeapon
<1>4. ASSUME NEW v \in S
      PROVE  ~(f[v] < f[w] \/ (f[v] = f[w] /\ g[v] < g[w]))
  <2>1. /\ f[x] <= f[v] /\ f[w] = f[x] /\ v \in Weapons /\ w \in Weapons
        /\ f[v] \in Nat /\ f[w] \in Nat /\ g[v] \in Nat /\ g[w] \in Nat
    BY <1>1
  <2>2. f[v] = f[w] => g[w] <= g[v]
    BY <1>3, <2>1
  <2> QED
    BY <2>1, <2>2
<1> QED
  BY <1>4

\* The first, the earliest and the latest weapon of a set are in it.
LEMMA FirstIsWeapon ==
  ASSUME NEW S, S \subseteq Weapons
  PROVE  /\ FirstOf(S) \in S \cup {NoWeapon}
         /\ S # {} => /\ FirstOf(S) \in S
                       /\ \A v \in S : PosOf[FirstOf(S)] <= PosOf[v]
<1>1. PosOf \in [Weapons -> Nat]
  BY WeaponsAssumption
<1>2. S # {} => \E w \in S : \A v \in S : PosOf[w] <= PosOf[v]
  BY <1>1, SmallestWeapon
<1> QED
  BY <1>2 DEF FirstOf

LEMMA EarliestIsWeapon ==
  ASSUME NEW S, S \subseteq Weapons
  PROVE  /\ EarliestOf(S) \in S \cup {NoWeapon}
         /\ S # {} => /\ EarliestOf(S) \in S
                       /\ \A v \in S : ~Before(v, EarliestOf(S))
<1>1. SlotOf \in [Weapons -> Nat] /\ PosOf \in [Weapons -> Nat]
  BY WeaponsAssumption
<1>2. S # {} => \E w \in S : \A v \in S : ~Before(v, w)
  BY <1>1, SmallestByTwo DEF Before
<1> QED
  BY <1>2 DEF EarliestOf

LEMMA LatestIsWeapon ==
  ASSUME NEW S, S \subseteq Weapons
  PROVE  /\ LatestOf(S) \in S \cup {NoWeapon}
         /\ S # {} => /\ LatestOf(S) \in S
                       /\ \A v \in S : ~Before(LatestOf(S), v)
<1> DEFINE f == [w \in Weapons |-> MaxWeaponSlots - SlotOf[w]]
           g == [w \in Weapons |-> MaxWeaponPositions - PosOf[w]]
<1>1. /\ MaxWeaponSlots \in Nat /\ MaxWeaponPositions \in Nat
      /\ \A w \in Weapons : SlotOf[w] \in 0 .. MaxWeaponSlots - 1
      /\ \A w \in Weapons : PosOf[w] \in 0 .. MaxWeaponPositions - 1
  BY WeaponsAssumption
<1>2. f \in [Weapons -> Nat] /\ g \in [Weapons -> Nat]
  BY <1>1
<1>3. S # {} => \E w \in S : \A v \in S :
                  ~(f[v] < f[w] \/ (f[v] = f[w] /\ g[v] < g[w]))
  <2> HIDE DEF f, g
  <2> QED
    BY <1>2, SmallestByTwo
<1>4. \A v, w \in Weapons :
        Before(w, v) => f[v] < f[w] \/ (f[v] = f[w] /\ g[v] < g[w])
  BY <1>1 DEF Before
<1>5. S # {} => \E w \in S : \A v \in S : ~Before(w, v)
  <2> HIDE DEF f, g
  <2> QED
    BY <1>3, <1>4
<1> QED
  BY <1>5 DEF LatestOf

WeaponsInv == WeaponType /\ OwnedInv

\* What the slot keys and the mouse wheel highlight.
LEMMA HighlightIsWeapon ==
  ASSUME WeaponType
  PROVE  /\ Carried \subseteq Weapons
         /\ \A w : NextFrom(w) \in Carried \cup {NoWeapon}
         /\ \A w : PrevFrom(w) \in Carried \cup {NoWeapon}
         /\ \A s : GetFirstPos(s) \in Carried \cup {NoWeapon}
         /\ \A s : Candidate(s) \in Carried \cup {NoWeapon}
<1>1. Carried \subseteq Weapons
  BY DEF WeaponType, Carried
<1>2. ASSUME NEW w
      PROVE  NextFrom(w) \in Carried \cup {NoWeapon}
  <2> DEFINE after == {v \in Carried : w # NoWeapon /\ Before(w, v)}
             S == IF after = {} THEN Carried ELSE after
  <2>1. S \subseteq Carried /\ NextFrom(w) = EarliestOf(S)
    BY DEF NextFrom
  <2> HIDE DEF S
  <2> QED
    BY <1>1, <2>1, EarliestIsWeapon
<1>3. ASSUME NEW w
      PROVE  PrevFrom(w) \in Carried \cup {NoWeapon}
  <2> DEFINE before == {v \in Carried : w # NoWeapon /\ Before(v, w)}
             S == IF before = {} THEN Carried ELSE before
  <2>1. S \subseteq Carried /\ PrevFrom(w) = LatestOf(S)
    BY DEF PrevFrom
  <2> HIDE DEF S
  <2> QED
    BY <1>1, <2>1, LatestIsWeapon
<1>4. \A s : GetFirstPos(s) \in Carried \cup {NoWeapon}
  BY <1>1, FirstIsWeapon DEF GetFirstPos, InSlot
<1>5. \A w : GetNextActivePos(w) \in Carried \cup {NoWeapon}
  <2> TAKE w
  <2> DEFINE S == {v \in InSlot(SlotOf[w]) \cap ammo : PosOf[v] > PosOf[w]}
  <2>1. S \subseteq Carried /\ GetNextActivePos(w) = FirstOf(S)
    BY DEF GetNextActivePos, InSlot
  <2> HIDE DEF S
  <2> QED
    BY <1>1, <2>1, FirstIsWeapon
<1> QED
  BY <1>1, <1>2, <1>3, <1>4, <1>5 DEF Candidate

\* The weapons of this life are all that can be highlighted.
LEMMA HighlightIsOwned ==
  ASSUME WeaponsInv
  PROVE  /\ \A w : NextFrom(w) \in owned \cup {NoWeapon}
         /\ \A w : PrevFrom(w) \in owned \cup {NoWeapon}
         /\ \A s : GetFirstPos(s) \in owned \cup {NoWeapon}
         /\ \A s : Candidate(s) \in owned \cup {NoWeapon}
BY HighlightIsWeapon DEF WeaponsInv, OwnedInv

\* What keeps the selection within the weapons of this life: weapons are only
\* added to them, and the highlight stays or moves to one of them.
LEMMA OwnedKept ==
  ASSUME WeaponsInv, WeaponType', owned \subseteq owned', Carried' \subseteq owned',
         gpActiveSel' \in owned \cup {MenuBar, NoWeapon, gpActiveSel}
  PROVE  WeaponsInv'
<1>1. MenuBar \notin Weapons /\ NoWeapon \notin Weapons
  BY WeaponsAssumption
<1> QED
  BY <1>1 DEF WeaponsInv, OwnedInv

-----------------------------------------------------------------------------
(***************************************************************************)
(* Every step keeps the invariant, one part at a time.                     *)
(***************************************************************************)

\* What happens to the text menu alone.
MenuEvent ==
  \/ \E key \in SlotKeys : SelectMenuItem(key)
  \/ \E m \in Menus, timed \in BOOLEAN : MsgFunc_ShowMenu(m, timed)
  \/ \E timed \in BOOLEAN : MsgFunc_ShowMenu_None(timed)
  \/ \E m \in Menus : MsgFunc_VGUIMenu(m)
  \/ UserCmd_OldStyleMenuOpen \/ UserCmd_OldStyleMenuClose \/ Draw_Shutoff

LEMMA MenuEventIsMenuOnly == ASSUME MenuEvent PROVE \E m : MenuOnly(m)
BY DEF MenuEvent, SelectMenuItem, MsgFunc_ShowMenu, MsgFunc_ShowMenu_None,
   MsgFunc_VGUIMenu, UserCmd_OldStyleMenuOpen, UserCmd_OldStyleMenuClose,
   Draw_Shutoff

LEMMA ButtonsNext ==
  ASSUME ButtonsInv, [Next]_vars
  PROVE  ButtonsInv'
<1>1. ASSUME NEW b \in {"attack", "forward"}, NEW k \in Holders,
             ButtonDown(b, k) \/ ButtonUp(b, k)
      PROVE  ButtonsInv'
  BY <1>1, ButtonDownInv, ButtonUpInv
<1>2. CASE UserCmd_NextWeapon \/ UserCmd_PrevWeapon \/ UserCmd_Close \/ DrawWList
  BY <1>2, ButtonsInvUnchanged
     DEF UserCmd_NextWeapon, UserCmd_PrevWeapon, UserCmd_Close, DrawWList,
         frameVars, buttonVars
<1>3. ASSUME NEW key \in SlotKeys, SelectSlot(key)
      PROVE  ButtonsInv'
  BY <1>3, ButtonsInvUnchanged DEF SelectSlot, frameVars, buttonVars
<1>4. ASSUME NEW S \in SUBSET Weapons, MsgFunc_AmmoX(S)
      PROVE  ButtonsInv'
  BY <1>4, ButtonsInvUnchanged DEF MsgFunc_AmmoX, frameVars, buttonVars
<1>5. ASSUME NEW w \in Weapons, MsgFunc_CurWeapon(w)
      PROVE  ButtonsInv'
  BY <1>5, ButtonsInvUnchanged DEF MsgFunc_CurWeapon, frameVars, buttonVars
<1>6. ASSUME NEW hide \in BOOLEAN, NEW flashlight \in BOOLEAN,
             MsgFunc_HideWeapon(hide, flashlight)
      PROVE  ButtonsInv'
  BY <1>6, ButtonsInvUnchanged DEF MsgFunc_HideWeapon, frameVars, buttonVars
<1>7. CASE MsgFunc_MOTD
  BY <1>7, ButtonsInvMOTD DEF MsgFunc_MOTD, ButtonsInv, ButtonType
<1>8. CASE SetCapture
  BY <1>8, ButtonsInvMOTD DEF SetCapture, ButtonsInv, ButtonType
<1>9. CASE MsgFunc_ResetHUD
  BY <1>9, ButtonsInvMOTD DEF MsgFunc_ResetHUD, ButtonsInv, ButtonType
<1>10. CASE MsgFunc_InitHUD
  BY <1>10, ButtonsInvUnchanged DEF MsgFunc_InitHUD, frameVars, buttonVars
<1>11. ASSUME NEW m, MenuOnly(m)
       PROVE  ButtonsInv'
  BY <1>11, ButtonsInvUnchanged DEF MenuOnly, frameVars, buttonVars
<1>12. ASSUME NEW bits, UpdateClientData(bits)
       PROVE  ButtonsInv'
  BY <1>12, UpdateClientDataInv
<1>13. CASE CreateMove
  BY <1>13, CreateMoveInv
<1>14. CASE UNCHANGED vars
  BY <1>14, ButtonsInvUnchanged DEF vars, frameVars, buttonVars
<1>15. CASE MenuEvent
  BY <1>11, <1>15, MenuEventIsMenuOnly
<1> QED
  BY <1>1, <1>2, <1>3, <1>4, <1>5, <1>6, <1>7, <1>8, <1>9, <1>10, <1>12,
     <1>13, <1>14, <1>15 DEF Next, MenuEvent

LEMMA WeaponsNext ==
  ASSUME WeaponsInv, [Next]_vars
  PROVE  WeaponsInv'
<1> USE DEF WeaponsInv
<1>1. ASSUME UNCHANGED <<weaponVars, choiceVars>>
      PROVE  WeaponsInv'
  BY <1>1 DEF weaponVars, choiceVars, WeaponType, OwnedInv, Carried
<1>2. CASE \/ \E b \in {"attack", "forward"}, k \in Holders :
                ButtonDown(b, k) \/ ButtonUp(b, k)
           \/ MsgFunc_MOTD \/ SetCapture \/ MsgFunc_InitHUD
           \/ \E m : MenuOnly(m)
           \/ UNCHANGED vars
  <2>1. UNCHANGED <<weaponVars, choiceVars>>
    BY <1>2 DEF ButtonDown, ButtonUp, MsgFunc_MOTD, SetCapture, MsgFunc_InitHUD,
       MenuOnly, vars
  <2> QED
    BY <1>1, <2>1
<1>3. CASE UserCmd_NextWeapon \/ UserCmd_PrevWeapon \/ UserCmd_Close \/ DrawWList
  <2>1. gpActiveSel' \in owned \cup {MenuBar, NoWeapon}
    BY <1>3, HighlightIsOwned
       DEF UserCmd_NextWeapon, UserCmd_PrevWeapon, UserCmd_Close, DrawWList
  <2>2. UNCHANGED <<weaponVars, g_weaponselect>>
    BY <1>3 DEF UserCmd_NextWeapon, UserCmd_PrevWeapon, UserCmd_Close, DrawWList
  <2>3. WeaponType' /\ owned' = owned /\ Carried' \subseteq owned'
    BY <2>1, <2>2 DEF weaponVars, WeaponType, OwnedInv, Carried
  <2> QED
    BY <2>1, <2>3, OwnedKept
<1>4. ASSUME NEW key \in SlotKeys, SelectSlot(key)
      PROVE  WeaponsInv'
  <2>1. UNCHANGED weaponVars
    BY <1>4 DEF SelectSlot
  <2>2. /\ gpActiveSel' \in owned \cup {MenuBar, NoWeapon, gpActiveSel}
        /\ g_weaponselect' \in owned \cup {NoWeapon, g_weaponselect}
    <3>1. CASE ChangesDirectly(key - 1)
      BY <1>4, <3>1, HighlightIsOwned DEF SelectSlot, Choose
    <3>2. CASE ~ChangesDirectly(key - 1)
      BY <1>4, <3>2, HighlightIsOwned DEF SelectSlot
    <3> QED
      BY <3>1, <3>2
  <2>3. WeaponType' /\ owned' = owned /\ Carried' \subseteq owned'
    BY <2>1, <2>2 DEF weaponVars, WeaponType, OwnedInv, Carried
  <2> QED
    BY <2>2, <2>3, OwnedKept
<1>5. CASE \/ \E S \in SUBSET Weapons : MsgFunc_AmmoX(S)
           \/ \E w \in Weapons : MsgFunc_CurWeapon(w)
           \/ \E hide, flashlight \in BOOLEAN : MsgFunc_HideWeapon(hide, flashlight)
  <2>1. /\ ammo' \subseteq Weapons /\ m_pWeapon' \in Weapons \cup {NoWeapon}
        /\ m_fHidden' \in BOOLEAN
        /\ gpActiveSel' \in {NoWeapon, gpActiveSel}
        /\ UNCHANGED <<m_iWeaponBits, iOldWeaponBits, hud_fastswitch, owned,
                      g_weaponselect>>
    BY <1>5 DEF MsgFunc_AmmoX, MsgFunc_CurWeapon, MsgFunc_HideWeapon, choiceVars,
       WeaponType
  <2>2. WeaponType' /\ Carried' \subseteq owned'
    BY <2>1 DEF WeaponType, OwnedInv, Carried
  <2> QED
    BY <2>1, <2>2, OwnedKept
<1>6. CASE MsgFunc_ResetHUD
  <2>1. /\ iOldWeaponBits' = {} /\ owned' = {} /\ gpActiveSel' = NoWeapon
        /\ WeaponType'
    BY <1>6 DEF MsgFunc_ResetHUD, WeaponType
  <2>2. gpActiveSel' \notin Weapons
    BY <2>1, WeaponsAssumption
  <2> QED
    BY <2>1, <2>2 DEF OwnedInv, Carried
<1>7. ASSUME NEW S \in SUBSET Weapons,
             UpdateClientData({}) \/ UpdateClientData(S \cup {Suit})
      PROVE  WeaponsInv'
  <2>1. /\ m_iWeaponBits' \subseteq Weapons \cup {Suit}
        /\ iOldWeaponBits' \subseteq Weapons \cup {Suit}
        /\ owned' = owned \cup (iOldWeaponBits' \ {Suit})
        /\ UNCHANGED <<ammo, m_pWeapon, m_fHidden, hud_fastswitch>>
    BY <1>7 DEF UpdateClientData
  <2>2. \/ UNCHANGED choiceVars
        \/ /\ gpActiveSel # NoWeapon /\ gpActiveSel' = NoWeapon /\ ThinkChooses
    BY <1>7 DEF UpdateClientData, ClickChooses
  <2>3. /\ gpActiveSel' \in {NoWeapon, gpActiveSel}
        /\ g_weaponselect' \in Weapons \cup {NoWeapon}
    BY <2>2 DEF choiceVars, ThinkChooses, Choose, WeaponType
  <2>4. WeaponType' /\ owned \subseteq owned' /\ Carried' \subseteq owned'
    BY <2>1, <2>3 DEF WeaponType, Carried
  <2> QED
    BY <2>3, <2>4, OwnedKept
<1>8. CASE CreateMove
  BY <1>8 DEF CreateMove, weaponVars, WeaponType, OwnedInv, Carried
<1>9. CASE MenuEvent
  BY <1>2, <1>9, MenuEventIsMenuOnly
<1> QED
  BY <1>2, <1>3, <1>4, <1>5, <1>6, <1>7, <1>8, <1>9 DEF Next, MenuEvent

\* A weapon is asked for by a slot key or by a click on the highlighted one.
LEMMA ChoiceIsOwned ==
  ASSUME WeaponsInv, Next
  PROVE  g_weaponselect' # g_weaponselect =>
           g_weaponselect' \in owned \cup {NoWeapon}
<1>1. CASE CreateMove
  BY <1>1 DEF CreateMove
<1>2. ASSUME NEW key \in SlotKeys, SelectSlot(key)
      PROVE  g_weaponselect' \in owned \cup {NoWeapon, g_weaponselect}
  BY <1>2, HighlightIsOwned DEF SelectSlot, Choose
<1>3. ASSUME NEW bits, UpdateClientData(bits)
      PROVE  g_weaponselect' \in owned \cup {g_weaponselect}
  <2>1. \/ g_weaponselect' = g_weaponselect
        \/ gpActiveSel \notin {NoWeapon, MenuBar} /\ g_weaponselect' = gpActiveSel
    BY <1>3 DEF UpdateClientData, ClickChooses, ThinkChooses, Choose, choiceVars
  <2> QED
    BY <2>1 DEF WeaponsInv, WeaponType, OwnedInv
<1>4. CASE MenuEvent
  BY <1>4, MenuEventIsMenuOnly DEF MenuOnly, choiceVars
<1>5. CASE \/ \E b \in {"attack", "forward"}, k \in Holders :
                ButtonDown(b, k) \/ ButtonUp(b, k)
           \/ UserCmd_NextWeapon \/ UserCmd_PrevWeapon \/ UserCmd_Close
           \/ DrawWList
           \/ \E S \in SUBSET Weapons : MsgFunc_AmmoX(S)
           \/ \E w \in Weapons : MsgFunc_CurWeapon(w)
           \/ \E hide, flashlight \in BOOLEAN : MsgFunc_HideWeapon(hide, flashlight)
           \/ MsgFunc_MOTD \/ SetCapture \/ MsgFunc_ResetHUD \/ MsgFunc_InitHUD
  BY <1>5 DEF ButtonDown, ButtonUp, UserCmd_NextWeapon, UserCmd_PrevWeapon,
     UserCmd_Close, DrawWList, MsgFunc_AmmoX, MsgFunc_CurWeapon,
     MsgFunc_HideWeapon, MsgFunc_MOTD, SetCapture, MsgFunc_ResetHUD,
     MsgFunc_InitHUD, choiceVars
<1> QED
  BY <1>1, <1>2, <1>3, <1>4, <1>5 DEF Next, MenuEvent

MenusInv == MenuType /\ MenuInv

LEMMA MenusNext ==
  ASSUME MenusInv, [Next]_vars
  PROVE  MenusInv'
<1> USE DEF MenusInv
<1>1. ASSUME UNCHANGED menuVars
      PROVE  MenusInv'
  BY <1>1, MenuInvKept DEF menuVars
<1>2. CASE \/ \E b \in {"attack", "forward"}, k \in Holders :
                ButtonDown(b, k) \/ ButtonUp(b, k)
           \/ UserCmd_NextWeapon \/ UserCmd_PrevWeapon \/ UserCmd_Close
           \/ \E key \in SlotKeys : SelectSlot(key)
           \/ DrawWList
           \/ \E S \in SUBSET Weapons : MsgFunc_AmmoX(S)
           \/ \E w \in Weapons : MsgFunc_CurWeapon(w)
           \/ \E hide, flashlight \in BOOLEAN : MsgFunc_HideWeapon(hide, flashlight)
           \/ MsgFunc_MOTD \/ SetCapture
           \/ \E bits : UpdateClientData(bits)
           \/ CreateMove
  <2>1. UNCHANGED menuVars
    BY <1>2 DEF ButtonDown, ButtonUp, UserCmd_NextWeapon, UserCmd_PrevWeapon,
       UserCmd_Close, SelectSlot, DrawWList, MsgFunc_AmmoX, MsgFunc_CurWeapon,
       MsgFunc_HideWeapon, MsgFunc_MOTD, SetCapture, UpdateClientData, CreateMove
  <2> QED
    BY <1>1, <2>1
<1>3. ASSUME NEW m \in Menus, NEW timed \in BOOLEAN, MsgFunc_ShowMenu(m, timed)
      PROVE  MenusInv'
  BY <1>3, ShowMenuInv
<1>4. CASE \/ \E timed \in BOOLEAN : MsgFunc_ShowMenu_None(timed)
           \/ \E m \in Menus : MsgFunc_VGUIMenu(m)
           \/ \E key \in SlotKeys : SelectMenuItem(key)
           \/ UserCmd_OldStyleMenuOpen \/ UserCmd_OldStyleMenuClose
           \/ Draw_Shutoff
  BY <1>4, MenuInvKept
     DEF MsgFunc_ShowMenu_None, MsgFunc_VGUIMenu, SelectMenuItem, Draw_Shutoff,
         UserCmd_OldStyleMenuOpen, UserCmd_OldStyleMenuClose, MenuOnly
<1>5. CASE MsgFunc_ResetHUD \/ MsgFunc_InitHUD
  BY <1>5, MenuInvKept DEF MsgFunc_ResetHUD, MsgFunc_InitHUD
<1>6. CASE UNCHANGED vars
  BY <1>1, <1>6 DEF vars
<1> QED
  BY <1>2, <1>3, <1>4, <1>5, <1>6 DEF Next

LEMMA HudInit == ASSUME Init PROVE HudInv
<1>1. Up \in Buttons /\ HeldBy(Up) = {} /\ TwoKeys(Up) /\ Up.state = {}
  BY DEF Up, Buttons, Nobody, HeldBy, TwoKeys
<1>2. ButtonType /\ ButtonInv
  BY <1>1 DEF Init, ButtonType, ButtonInv, ButtonsFollowKeys, Sampled
<1>3. WeaponType /\ OwnedInv
  BY WeaponsAssumption DEF Init, WeaponType, OwnedInv, Carried
<1>4. MenuType /\ MenuInv
  BY EmptyIsSeq, NoPartIsOneMenu DEF Init, MenuType, MenuInv
<1> QED
  BY <1>2, <1>3, <1>4 DEF HudInv, TypeOK

LEMMA HudNext == ASSUME HudInv, [Next]_vars PROVE HudInv'
BY ButtonsNext, WeaponsNext, MenusNext
   DEF HudInv, TypeOK, ButtonsInv, WeaponsInv, MenusInv

\* The invariant holds in every state, for any bindings, weapons and menus.
THEOREM HudInvHolds == Spec => []HudInv
BY HudInit, HudNext, PTL DEF Spec

-----------------------------------------------------------------------------
(***************************************************************************)
(* What a player may rely on.                                              *)
(***************************************************************************)

\* The state of the input, the selection and the menu is well-formed.
THEOREM TypeCorrect == Spec => []TypeOK
<1>1. HudInv => TypeOK
  BY DEF HudInv
<1> QED
  BY <1>1, HudInvHolds, PTL

\* However keys repeat, overlap or are lost, a button is down exactly while one
\* holds it, for attack one whose click was not used up.
THEOREM ButtonsNeverStick == Spec => []ButtonsFollowKeys
<1>1. HudInv => ButtonsFollowKeys
  BY DEF HudInv, ButtonInv
<1> QED
  BY <1>1, HudInvHolds, PTL

\* A click that closed the MOTD or chose a weapon never fires a shot.
THEOREM SpentClickIsGone == Spec => []SpentClickNeverFires
<1>1. HudInv => SpentClickNeverFires
  BY DEF HudInv, ButtonInv, SpentClickNeverFires, Command
<1> QED
  BY <1>1, HudInvHolds, PTL

\* A press of attack that was not used up is in the next command.
THEOREM PressReachesCommand == Spec => []NoPressLost
<1>1. HudInv => NoPressLost
  <2> SUFFICES ASSUME HudInv, updated, owed, ~captured
               PROVE  Command.attack
    BY DEF NoPressLost
  <2>1. Sampled(in_attack) /\ ~m_bShow
    BY DEF HudInv, ButtonInv, Sampled
  <2> QED
    BY <2>1 DEF Command
<1> QED
  BY <1>1, HudInvHolds, PTL

\* The fraction of the frame that moves the player is what the keys bound to
\* forward did in it.
THEOREM ForwardFraction == Spec => []ForwardIsWhatKeysDid
<1>1. HudInv => ForwardIsWhatKeysDid
  <2> SUFFICES ASSUME HudInv, ~m_bShow
               PROVE  Command.forwardmove = HeldFraction
    BY DEF ForwardIsWhatKeysDid
  <2>1. /\ in_forward.state \in SUBSET {"down", "pressed", "released"}
        /\ "down" \in in_forward.state <=> holders["forward"] # {}
        /\ in_forward.state \ {"down"} = edges
        /\ edges = {"pressed"} => "down" \in in_forward.state
    BY DEF HudInv, TypeOK, ButtonType, Buttons, ButtonInv, ButtonsFollowKeys
  <2>2. Command.forwardmove = KeyState(in_forward)
    BY DEF Command
  <2>3. CASE edges = {}
    BY <2>1, <2>2, <2>3 DEF KeyState, HeldFraction
  <2>4. CASE edges = {"pressed"}
    BY <2>1, <2>2, <2>4 DEF KeyState, HeldFraction
  <2>5. CASE edges = {"released"}
    BY <2>1, <2>2, <2>5 DEF KeyState, HeldFraction
  <2>6. CASE edges = {"pressed", "released"}
    BY <2>1, <2>2, <2>6 DEF KeyState, HeldFraction
  <2>7. edges \in {{}, {"pressed"}, {"released"}, {"pressed", "released"}}
    BY <2>1
  <2> QED
    BY <2>3, <2>4, <2>5, <2>6, <2>7
<1> QED
  BY <1>1, HudInvHolds, PTL

\* From a ResetHUD on, a weapon is highlighted or asked for only if it has been
\* carried since, though m_pWeapon may still be one of the life before.
THEOREM SelectionIsOfThisLife == Spec => SelectionOfThisLife
<1> DEFINE A == /\ gpActiveSel' \in Weapons => gpActiveSel' \in owned'
                /\ g_weaponselect' # g_weaponselect =>
                     g_weaponselect' \in owned \cup {NoWeapon}
<1>1. ASSUME HudInv, HudInv', Next
      PROVE  A
  BY <1>1, ChoiceIsOwned DEF HudInv, TypeOK, WeaponsInv, OwnedInv
<1>2. HudInv /\ HudInv' /\ [Next]_vars => [A]_vars
  BY <1>1
<1> QED
  BY <1>2, HudInvHolds, PTL DEF Spec, SelectionOfThisLife

\* The text on the screen is of one menu, whatever interrupts its messages.
THEOREM TextOfOneMenu == Spec => []MenuTextNotMixed
<1>1. HudInv => MenuTextNotMixed
  BY DEF HudInv, MenuInv, MenuTextNotMixed
<1> QED
  BY <1>1, HudInvHolds, PTL

\* InitHUD alone takes the slot keys from a text menu that stays drawn.
THEOREM DrawnMenuKeepsSlotKeys == Spec => DrawnMenuTakesSlotKeys
<1> DEFINE A == menu'.drawn /\ ~menu'.m_fMenuDisplayed
                  => MsgFunc_InitHUD \/ (menu.drawn /\ ~menu.m_fMenuDisplayed)
<1>1. ASSUME HudInv, Next
      PROVE  A
  <2>1. MenuType
    BY <1>1 DEF HudInv, TypeOK
  <2>2. CASE MenuEvent
    <3>1. ASSUME NEW m \in Menus, NEW timed \in BOOLEAN, MsgFunc_ShowMenu(m, timed)
          PROVE  menu'.m_fMenuDisplayed
      <4>1. PICK part, more :
              menu' = [AddPart(m, part, more) EXCEPT !.shutoff = timed]
        BY <3>1 DEF MsgFunc_ShowMenu, MenuOnly
      <4> QED
        BY <2>1, <4>1 DEF AddPart, MenuType
    <3>2. CASE \/ \E key \in SlotKeys : SelectMenuItem(key)
               \/ \E timed \in BOOLEAN : MsgFunc_ShowMenu_None(timed)
               \/ UserCmd_OldStyleMenuClose \/ Draw_Shutoff
      <4>1. menu'.drawn = FALSE
        BY <2>1, <3>2 DEF MenuType, SelectMenuItem, MsgFunc_ShowMenu_None,
           Draw_Shutoff, UserCmd_OldStyleMenuClose, OldStyleMenuClose, MenuOnly
      <4> QED
        BY <4>1
    <3>3. CASE UserCmd_OldStyleMenuOpen \/ \E m \in Menus : MsgFunc_VGUIMenu(m)
      <4>1. /\ menu'.drawn = menu.drawn
            /\ menu.m_fMenuDisplayed => menu'.m_fMenuDisplayed
        BY <2>1, <3>3
           DEF MenuType, UserCmd_OldStyleMenuOpen, MsgFunc_VGUIMenu, MenuOnly
      <4> QED
        BY <4>1
    <3> HIDE DEF A
    <3>4. (\E m \in Menus, timed \in BOOLEAN : MsgFunc_ShowMenu(m, timed)) => A
      BY <3>1 DEF A
    <3> QED
      BY <2>2, <3>2, <3>3, <3>4 DEF MenuEvent
  <2>3. CASE MsgFunc_ResetHUD
    BY <2>3, <2>1 DEF MsgFunc_ResetHUD, MenuReset, MenuType
  <2>4. CASE MsgFunc_InitHUD
    BY <2>4
  <2>5. CASE \/ \E b \in {"attack", "forward"}, k \in Holders :
                  ButtonDown(b, k) \/ ButtonUp(b, k)
             \/ UserCmd_NextWeapon \/ UserCmd_PrevWeapon \/ UserCmd_Close
             \/ \E key \in SlotKeys : SelectSlot(key)
             \/ DrawWList
             \/ \E S \in SUBSET Weapons : MsgFunc_AmmoX(S)
             \/ \E w \in Weapons : MsgFunc_CurWeapon(w)
             \/ \E hide, flashlight \in BOOLEAN : MsgFunc_HideWeapon(hide, flashlight)
             \/ MsgFunc_MOTD \/ SetCapture
             \/ \E bits : UpdateClientData(bits)
             \/ CreateMove
    <3>1. menu' = menu
      BY <2>5 DEF ButtonDown, ButtonUp, UserCmd_NextWeapon, UserCmd_PrevWeapon,
         UserCmd_Close, SelectSlot, DrawWList, MsgFunc_AmmoX, MsgFunc_CurWeapon,
         MsgFunc_HideWeapon, MsgFunc_MOTD, SetCapture, UpdateClientData,
         CreateMove, menuVars
    <3> QED
      BY <3>1
  <2> HIDE DEF A
  <2> QED
    BY <1>1, <2>2, <2>3, <2>4, <2>5 DEF Next, MenuEvent
<1>2. HudInv /\ [Next]_vars => [A]_vars
  BY <1>1
<1> QED
  BY <1>2, HudInvHolds, PTL DEF Spec, DrawnMenuTakesSlotKeys

-----------------------------------------------------------------------------
(***************************************************************************)
(* Every weapon can be reached.  Going from one weapon to the next in some *)
(* order, and from the last to the first, takes one weapon off the way to  *)
(* any other at each step (AheadShrinks), so the way is over after as many *)
(* steps as there are weapons (CycleReaches).  Induction is by the least   *)
(* number for which a claim fails.                                         *)
(***************************************************************************)

\* y comes next after x among A in the order of key, from the start again at
\* the end.
Follows(A, key, x, y) ==
  /\ y \in A
  /\ \/ key[x] < key[y] /\ \A u \in A : key[x] < key[u] => key[y] <= key[u]
     \/ \A u \in A : key[u] <= key[x] /\ key[y] <= key[u]

\* What lies on the way from x to v, v included.
Ahead(A, key, x, v) ==
  {u \in A : IF key[x] <= key[v] THEN key[x] < key[u] /\ key[u] <= key[v]
             ELSE key[x] < key[u] \/ key[u] <= key[v]}

\* A step takes one weapon off the way.
LEMMA AheadShrinks ==
  ASSUME NEW S, NEW A, A \subseteq S, NEW key \in [S -> Int],
         \A a, b \in S : key[a] = key[b] => a = b,
         NEW x \in S, NEW v \in A, x # v, NEW y, Follows(A, key, x, y)
  PROVE  /\ y \in Ahead(A, key, x, v)
         /\ Ahead(A, key, y, v) = Ahead(A, key, x, v) \ {y}
<1>1. /\ y \in S /\ v \in S /\ key[x] \in Int /\ key[y] \in Int /\ key[v] \in Int
      /\ key[x] # key[v]
      /\ \A u \in A : key[u] \in Int /\ (key[u] = key[y] <=> u = y)
  BY DEF Follows
<1>2. CASE key[x] < key[y] /\ \A u \in A : key[x] < key[u] => key[y] <= key[u]
  <2>1. y \in Ahead(A, key, x, v)
    BY <1>1, <1>2 DEF Ahead, Follows
  <2>2. ASSUME NEW u \in A
        PROVE  u \in Ahead(A, key, y, v) <=> u \in Ahead(A, key, x, v) /\ u # y
    BY <1>1, <1>2 DEF Ahead
  <2> QED
    BY <2>1, <2>2 DEF Ahead
<1>3. CASE \A u \in A : key[u] <= key[x] /\ key[y] <= key[u]
  <2>1. y \in Ahead(A, key, x, v)
    BY <1>1, <1>3 DEF Ahead, Follows
  <2>2. ASSUME NEW u \in A
        PROVE  u \in Ahead(A, key, y, v) <=> u \in Ahead(A, key, x, v) /\ u # y
    BY <1>1, <1>3 DEF Ahead
  <2> QED
    BY <2>1, <2>2 DEF Ahead
<1> QED
  BY <1>2, <1>3 DEF Follows

\* g is the first N steps from w.
IsOrbit(S, f, w, N, g) ==
  /\ g \in [0 .. N -> S] /\ g[0] = w
  /\ \A n \in 1 .. N : g[n] = f[g[n - 1]]

LEMMA OrbitExists ==
  ASSUME NEW S, NEW f, \A x \in S : f[x] \in S, NEW w \in S, NEW N \in Nat
  PROVE  \E g : IsOrbit(S, f, w, N, g)
<1> DEFINE Orbit(k, g) == /\ g \in [0 .. k -> S] /\ g[0] = w
                          /\ \A n \in 1 .. k : g[n] = f[g[n - 1]]
           Bad == {k \in Nat : \A g : ~Orbit(k, g)}
<1>1. CASE Bad = {}
  <2>1. PICK g : Orbit(N, g)
    <3> HIDE DEF Orbit
    <3> QED
      BY <1>1
  <2> QED
    BY <2>1 DEF IsOrbit
<1>2. CASE Bad # {}
  <2>1. PICK b \in Bad : \A m \in Bad : b <= m
    <3>1. Bad \subseteq Nat
      OBVIOUS
    <3> HIDE DEF Bad
    <3> QED
      BY <1>2, <3>1, LeastNatural
  <2>2. b \in Nat /\ b # 0
    <3>1. Orbit(0, [n \in 0 .. 0 |-> w])
      OBVIOUS
    <3> HIDE DEF Orbit
    <3> QED
      BY <2>1, <3>1
  <2>3. b - 1 \in Nat /\ b - 1 \notin Bad
    <3>1. b - 1 \in Nat /\ ~(b <= b - 1)
      BY <2>2
    <3> HIDE DEF Bad
    <3> QED
      BY <2>1, <3>1
  <2>4. PICK g : Orbit(b - 1, g)
    BY <2>3
  <2> DEFINE h == [n \in 0 .. b |-> IF n = b THEN f[g[b - 1]] ELSE g[n]]
  <2>5. \A n \in 0 .. b : n = b \/ n \in 0 .. b - 1
    BY <2>2
  <2>6. b \in 0 .. b /\ b - 1 \in 0 .. b /\ b - 1 \in 0 .. b - 1 /\ 0 \in 0 .. b
        /\ b - 1 # b
    BY <2>2
  <2>7. h \in [0 .. b -> S]
    BY <2>4, <2>5, <2>6
  <2>8. h[0] = w /\ h[b] = f[g[b - 1]] /\ h[b - 1] = g[b - 1]
    BY <2>2, <2>4, <2>6
  <2>9. ASSUME NEW n \in 1 .. b
        PROVE  h[n] = f[h[n - 1]]
    <3>1. CASE n = b
      BY <2>8, <3>1
    <3>2. CASE n # b
      <4>1. /\ n \in 1 .. b - 1 /\ n \in 0 .. b /\ n - 1 \in 0 .. b
            /\ n - 1 # b
        BY <2>2, <3>2
      <4>2. h[n] = g[n] /\ h[n - 1] = g[n - 1]
        BY <3>2, <4>1
      <4> QED
        BY <2>4, <4>1, <4>2
    <3> QED
      BY <3>1, <3>2
  <2>10. Orbit(b, h)
    <3> HIDE DEF h
    <3> QED
      BY <2>7, <2>8, <2>9
  <2> HIDE DEF Orbit, h
  <2> QED
    BY <2>1, <2>10
<1> QED
  BY <1>1, <1>2

LEMMA AfterSteps ==
  ASSUME NEW S, NEW f, \A x \in S : f[x] \in S, NEW w \in S,
         Cardinality(Weapons) \in Nat
  PROVE  IsOrbit(S, f, w, Cardinality(Weapons), After(f, w))
<1> DEFINE N == Cardinality(Weapons)
           Body(g) == [n \in 0 .. N |-> IF n = 0 THEN w ELSE f[g[n - 1]]]
<1>1. PICK g : IsOrbit(S, f, w, N, g)
  BY OrbitExists
<1>2. g = Body(g)
  <2>1. \A n \in 0 .. N : n = 0 \/ n \in 1 .. N
    OBVIOUS
  <2>2. \A n \in 0 .. N : g[n] = IF n = 0 THEN w ELSE f[g[n - 1]]
    BY <1>1, <2>1 DEF IsOrbit
  <2>3. g \in [0 .. N -> S]
    BY <1>1 DEF IsOrbit
  <2> QED
    BY <2>2, <2>3
<1>3. After(f, w) = CHOOSE h : h = Body(h)
  BY DEF After
<1> DEFINE h == CHOOSE h : h = Body(h)
<1>4. h = Body(h)
  <2> HIDE DEF Body
  <2> QED
    BY <1>2
<1> HIDE DEF h
<1>5. h = [n \in 0 .. N |-> IF n = 0 THEN w ELSE f[h[n - 1]]]
  BY <1>4
<1>6. h[0] = w /\ \A n \in 1 .. N : h[n] = f[h[n - 1]]
  <2>1. 0 \in 0 .. N /\ \A n \in 1 .. N : n \in 0 .. N /\ n # 0
    OBVIOUS
  <2> QED
    BY <1>5, <2>1
<1>7. \A n \in 0 .. N : h[n] \in S
  <2> DEFINE Bad == {n \in 0 .. N : h[n] \notin S}
  <2> SUFFICES ASSUME Bad # {} PROVE FALSE
    OBVIOUS
  <2>1. PICK b \in Bad : \A m \in Bad : b <= m
    <3>1. Bad \subseteq Nat
      OBVIOUS
    <3> HIDE DEF Bad
    <3> QED
      BY <3>1, LeastNatural
  <2>2. b \in 1 .. N /\ b - 1 \in 0 .. N /\ ~(b <= b - 1)
    BY <1>6, <2>1
  <2>3. h[b - 1] \in S
    BY <2>1, <2>2
  <2> QED
    BY <1>6, <2>1, <2>2, <2>3
<1>8. h \in [0 .. N -> S]
  BY <1>5, <1>7
<1> QED
  BY <1>3, <1>6, <1>8 DEF h, IsOrbit

\* Going from one to the next among A reaches all of A.
LEMMA CycleReaches ==
  ASSUME NEW S, S \subseteq Weapons, NEW A, A \subseteq S,
         NEW key \in [S -> Int], \A a, b \in S : key[a] = key[b] => a = b,
         NEW f, \A x \in S : f[x] \in S /\ Follows(A, key, x, f[x]),
         NEW w \in S, NEW v \in A
  PROVE  Reaches(f, w, v)
<1> DEFINE N == Cardinality(Weapons)
           g == After(f, w)
           left(n) == Cardinality(Ahead(A, key, g[n], v))
           Bad == {n \in 0 .. N : ~(left(n) + n <= N)}
<1>1. /\ N \in Nat
      /\ \A x : /\ IsFiniteSet(Ahead(A, key, x, v))
                /\ Cardinality(Ahead(A, key, x, v)) \in Nat
                /\ Cardinality(Ahead(A, key, x, v)) <= N
  <2>1. IsFiniteSet(Weapons)
    BY WeaponsAssumption
  <2>2. \A x : Ahead(A, key, x, v) \in SUBSET Weapons
    BY DEF Ahead
  <2> QED
    BY <2>1, <2>2, FS_Subset, FS_CardinalityType
<1>2. /\ g \in [0 .. N -> S] /\ g[0] = w
      /\ \A n \in 1 .. N : g[n] = f[g[n - 1]]
  <2>1. N \in Nat
    BY <1>1
  <2> QED
    BY <2>1, AfterSteps DEF IsOrbit
<1> SUFFICES ASSUME \A n \in 0 .. N : g[n] # v PROVE FALSE
  BY <1>2 DEF Reaches
<1> HIDE DEF g
<1>3. ASSUME NEW n \in 0 .. N
      PROVE  f[g[n]] \in Ahead(A, key, g[n], v)
             /\ Ahead(A, key, f[g[n]], v) = Ahead(A, key, g[n], v) \ {f[g[n]]}
  <2>1. g[n] \in S /\ g[n] # v
    BY <1>2
  <2>2. Follows(A, key, g[n], f[g[n]])
    BY <2>1
  <2> QED
    BY <2>1, <2>2, AheadShrinks
<1>4. Bad = {}
  <2> SUFFICES ASSUME Bad # {} PROVE FALSE
    OBVIOUS
  <2>1. PICK b \in Bad : \A m \in Bad : b <= m
    <3>1. Bad \subseteq Nat
      OBVIOUS
    <3> HIDE DEF Bad
    <3> QED
      BY <3>1, LeastNatural
  <2>2. b \in 0 .. N /\ ~(left(b) + b <= N)
    OBVIOUS
  <2>3. b # 0
    BY <1>1, <2>2
  <2>4. b \in 1 .. N /\ b - 1 \in 0 .. N /\ ~(b <= b - 1)
    BY <1>1, <2>2, <2>3
  <2>5. left(b - 1) + (b - 1) <= N
    BY <2>1, <2>4
  <2>6. g[b] = f[g[b - 1]]
    BY <1>2, <2>4
  <2>7. left(b) = left(b - 1) - 1
    <3>1. /\ f[g[b - 1]] \in Ahead(A, key, g[b - 1], v)
          /\ Ahead(A, key, g[b], v) = Ahead(A, key, g[b - 1], v) \ {f[g[b - 1]]}
      BY <1>3, <2>4, <2>6
    <3>2. IsFiniteSet(Ahead(A, key, g[b - 1], v))
      BY <1>1
    <3> DEFINE X == Ahead(A, key, g[b - 1], v)
               y == f[g[b - 1]]
    <3>3. y \in X /\ IsFiniteSet(X) /\ Ahead(A, key, g[b], v) = X \ {y}
      BY <3>1, <3>2
    <3>4. left(b) = Cardinality(Ahead(A, key, g[b], v))
          /\ left(b - 1) = Cardinality(X)
      OBVIOUS
    <3> HIDE DEF X, y, left
    <3> QED
      BY ONLY <3>3, <3>4, FS_RemoveElement
  <2>8. left(b) \in Nat /\ left(b - 1) \in Nat
    BY <1>1
  <2> HIDE DEF left
  <2> QED
    BY <1>1, <2>2, <2>4, <2>5, <2>7, <2>8
<1>5. left(N) = 0
  <2>1. left(N) + N <= N /\ left(N) \in Nat
    BY <1>1, <1>4
  <2> HIDE DEF left
  <2> QED
    BY <1>1, <2>1
<1>6. Ahead(A, key, g[N], v) = {}
  BY <1>1, <1>5, FS_EmptySet
<1>7. N \in 0 .. N
  BY <1>1
<1> QED
  BY <1>3, <1>6, <1>7

\* One number for the place of a weapon in the list of all slots.
PlaceOf(w) == SlotOf[w] * MaxWeaponPositions + PosOf[w]
Places(S) == [w \in S |-> PlaceOf(w)]

LEMMA Multiples ==
  ASSUME NEW M \in Nat \ {0}, NEW a \in Nat, NEW b \in Nat, a < b,
         NEW p \in 0 .. M - 1, NEW q \in 0 .. M - 1
  PROVE  a * M + p < b * M + q
<1>1. a + 1 <= b
  OBVIOUS
<1>2. (a + 1) * M <= b * M
  BY <1>1
<1>3. (a + 1) * M = a * M + M /\ a * M \in Int /\ b * M \in Int
  OBVIOUS
<1> QED
  BY <1>2, <1>3

LEMMA PlacesOrder ==
  ASSUME NEW v \in Weapons, NEW w \in Weapons
  PROVE  /\ PlaceOf(v) \in Int
         /\ Before(v, w) <=> PlaceOf(v) < PlaceOf(w)
         /\ PlaceOf(v) = PlaceOf(w) => v = w
<1>1. /\ SlotOf[v] \in Nat /\ SlotOf[w] \in Nat
      /\ PosOf[v] \in 0 .. MaxWeaponPositions - 1
      /\ PosOf[w] \in 0 .. MaxWeaponPositions - 1
      /\ MaxWeaponPositions \in Nat \ {0}
      /\ SlotOf[v] = SlotOf[w] /\ PosOf[v] = PosOf[w] => v = w
  BY WeaponsAssumption
<1>2. PlaceOf(v) \in Int /\ PlaceOf(w) \in Int
  BY <1>1 DEF PlaceOf
<1>3. /\ SlotOf[v] < SlotOf[w] => PlaceOf(v) < PlaceOf(w)
      /\ SlotOf[w] < SlotOf[v] => PlaceOf(w) < PlaceOf(v)
  BY <1>1, Multiples DEF PlaceOf
<1>4. SlotOf[v] = SlotOf[w] =>
        /\ (PosOf[v] < PosOf[w]) <=> (PlaceOf(v) < PlaceOf(w))
        /\ (PosOf[v] = PosOf[w]) <=> (PlaceOf(v) = PlaceOf(w))
  <2>1. SlotOf[v] = SlotOf[w] =>
          \E m \in Int : PlaceOf(v) = m + PosOf[v] /\ PlaceOf(w) = m + PosOf[w]
    <3>1. SlotOf[v] * MaxWeaponPositions \in Int
      BY <1>1
    <3> QED
      BY <3>1 DEF PlaceOf
  <2> QED
    BY <1>1, <2>1
<1>5. SlotOf[v] < SlotOf[w] \/ SlotOf[v] = SlotOf[w] \/ SlotOf[w] < SlotOf[v]
  BY <1>1
<1> QED
  BY <1>1, <1>2, <1>3, <1>4, <1>5 DEF Before

\* The wheel: the next weapon of all that are carried, and back.
LEMMA WheelFollows ==
  ASSUME WeaponType, NEW w \in Carried
  PROVE  /\ NextFrom(w) \in Carried
         /\ Follows(Carried, Places(Carried), w, NextFrom(w))
         /\ PrevFrom(NextFrom(w)) = w
<1> DEFINE C == Carried
           n == NextFrom(w)
           p == PrevFrom(n)
           after == {v \in C : w # NoWeapon /\ Before(w, v)}
           before == {v \in C : n # NoWeapon /\ Before(v, n)}
<1>1. C \subseteq Weapons /\ w \in C /\ NoWeapon \notin Weapons /\ C # {}
  BY WeaponsAssumption DEF WeaponType, Carried
<1>2. n = EarliestOf(IF after = {} THEN C ELSE after)
      /\ p = LatestOf(IF before = {} THEN C ELSE before)
  BY DEF NextFrom, PrevFrom
<1> HIDE DEF C, n, p
<1>3. \A u, v \in C :
        /\ Places(C)[u] = PlaceOf(u) /\ PlaceOf(u) \in Int /\ PlaceOf(v) \in Int
        /\ Before(u, v) <=> PlaceOf(u) < PlaceOf(v)
        /\ PlaceOf(u) = PlaceOf(v) => u = v
  BY <1>1, PlacesOrder DEF Places
<1>4. CASE after # {}
  <2>1. n \in after /\ \A v \in after : ~Before(v, n)
    <3>1. after \subseteq Weapons
      BY <1>1
    <3> HIDE DEF after
    <3> QED
      BY <1>2, <1>4, <3>1, EarliestIsWeapon
  <2>2. n \in C /\ Before(w, n) /\ n # NoWeapon
    BY <1>1, <2>1
  <2>3. \A v \in C : Before(w, v) => ~Before(v, n)
    BY <1>1, <2>1
  <2>4. Follows(C, Places(C), w, n)
    BY <1>1, <1>3, <2>2, <2>3 DEF Follows
  <2>5. w \in before
    BY <1>1, <2>2
  <2>6. p \in before /\ \A v \in before : ~Before(p, v)
    <3>1. before \subseteq Weapons
      BY <1>1
    <3> HIDE DEF before
    <3> QED
      BY <1>2, <2>5, <3>1, LatestIsWeapon
  <2>7. p \in C /\ Before(p, n) /\ ~Before(p, w)
    BY <2>5, <2>6
  <2>8. p = w
    BY <1>1, <1>3, <2>2, <2>3, <2>7
  <2> QED
    BY <2>2, <2>4, <2>8 DEF C, n, p
<1>5. CASE after = {}
  <2>1. n \in C /\ \A v \in C : ~Before(v, n)
    BY <1>1, <1>2, <1>5, EarliestIsWeapon
  <2>2. \A v \in C : ~Before(w, v)
    BY <1>1, <1>5
  <2>3. Follows(C, Places(C), w, n)
    BY <1>1, <1>3, <2>1, <2>2 DEF Follows
  <2>4. before = {}
    BY <2>1
  <2>5. p \in C /\ \A v \in C : ~Before(p, v)
    BY <1>1, <1>2, <2>4, LatestIsWeapon
  <2>6. p = w
    BY <1>1, <1>3, <2>2, <2>5
  <2> QED
    BY <2>1, <2>3, <2>6 DEF C, n, p
<1> QED
  BY <1>4, <1>5

\* A slot key: the weapons that have ammo, and the first of the slot.
InTurn(s) == (InSlot(s) \cap ammo) \cup {GetFirstPos(s)}
SlotPlaces(s) == [w \in InSlot(s) |-> PosOf[w]]
SlotNext(w) ==
  IF GetNextActivePos(w) # NoWeapon THEN GetNextActivePos(w)
  ELSE GetFirstPos(SlotOf[w])

LEMMA SlotKeyFollows ==
  ASSUME WeaponType, NEW s, NEW w \in InSlot(s)
  PROVE  /\ InTurn(s) \subseteq InSlot(s)
         /\ SlotNext(w) \in InSlot(s)
         /\ Follows(InTurn(s), SlotPlaces(s), w, SlotNext(w))
<1> DEFINE I == InSlot(s)
           f == GetFirstPos(s)
           A == InTurn(s)
           more == {v \in I \cap ammo : PosOf[v] > PosOf[w]}
           n == GetNextActivePos(w)
<1>1. I \subseteq Weapons /\ w \in I /\ SlotOf[w] = s /\ I # {}
  BY DEF WeaponType, Carried, InSlot
<1>2. NoWeapon \notin Weapons /\ \A v \in Weapons : PosOf[v] \in Int
  BY WeaponsAssumption
<1>3. f = FirstOf(I) /\ n = FirstOf(more)
  BY <1>1 DEF GetFirstPos, GetNextActivePos
<1>4. A = (I \cap ammo) \cup {f}
  BY DEF InTurn
<1>5. \A v \in I : SlotPlaces(s)[v] = PosOf[v] /\ PosOf[v] \in Int
  BY <1>1, <1>2 DEF SlotPlaces
<1>6. SlotNext(w) = IF n # NoWeapon THEN n ELSE f
  BY <1>1 DEF SlotNext
<1> HIDE DEF I, f, A, n
<1>7. f \in I /\ \A v \in I : PosOf[f] <= PosOf[v]
  BY <1>1, <1>3, FirstIsWeapon
<1>8. A \subseteq I
  BY <1>4, <1>7
<1>9. CASE more = {}
  <2>1. n = NoWeapon
    BY <1>3, <1>9 DEF FirstOf
  <2>2. \A u \in A : PosOf[u] <= PosOf[w] /\ PosOf[f] <= PosOf[u]
    BY <1>1, <1>4, <1>5, <1>7, <1>8, <1>9
  <2>3. Follows(A, SlotPlaces(s), w, f)
    BY <1>1, <1>4, <1>5, <1>7, <1>8, <2>2 DEF Follows
  <2> QED
    BY <1>6, <1>7, <1>8, <2>1, <2>3 DEF I, A
<1>10. CASE more # {}
  <2>1. n \in more /\ \A v \in more : PosOf[n] <= PosOf[v]
    <3>1. more \subseteq Weapons
      BY <1>1
    <3> HIDE DEF more
    <3> QED
      BY <1>3, <1>10, <3>1, FirstIsWeapon
  <2>2. n \in I /\ n \in A /\ PosOf[w] < PosOf[n] /\ n # NoWeapon
    BY <1>1, <1>2, <1>4, <1>5, <2>1
  <2>3. \A u \in A : PosOf[w] < PosOf[u] => u \in more
    BY <1>1, <1>4, <1>5, <1>7
  <2>4. \A u \in A : PosOf[w] < PosOf[u] => PosOf[n] <= PosOf[u]
    <3> HIDE DEF more
    <3> QED
      BY <2>1, <2>3
  <2>5. Follows(A, SlotPlaces(s), w, n)
    BY <1>1, <1>5, <1>8, <2>2, <2>4 DEF Follows
  <2> QED
    BY <1>6, <1>8, <2>2, <2>5 DEF I, A
<1> QED
  BY <1>9, <1>10

\* Every weapon is reached, from any other.
LEMMA AllReachable ==
  ASSUME WeaponType
  PROVE  EveryWeaponReachable
<1> DEFINE wheel == [w \in Carried |-> NextFrom(w)]
           slot == [w \in Carried |-> SlotNext(w)]
<1> SUFFICES ASSUME NEW v \in Carried, NEW w \in Carried
             PROVE  /\ Reaches(wheel, w, v) /\ PrevFrom(NextFrom(w)) = w
                    /\ SlotOf[v] = SlotOf[w] /\ v \in ammo => Reaches(slot, w, v)
  BY DEF EveryWeaponReachable, SlotNext
<1>1. Carried \subseteq Weapons
  BY DEF WeaponType, Carried
<1>2. PrevFrom(NextFrom(w)) = w
  BY WheelFollows
<1>3. Reaches(wheel, w, v)
  <2>1. \A x \in Carried : /\ wheel[x] \in Carried
                            /\ Follows(Carried, Places(Carried), x, wheel[x])
    BY WheelFollows
  <2>2. Places(Carried) \in [Carried -> Int]
    BY <1>1, PlacesOrder DEF Places
  <2>3. \A a, b \in Carried : Places(Carried)[a] = Places(Carried)[b] => a = b
    BY <1>1, PlacesOrder DEF Places
  <2> HIDE DEF wheel
  <2> QED
    BY <1>1, <2>1, <2>2, <2>3, CycleReaches
<1>4. ASSUME SlotOf[v] = SlotOf[w], v \in ammo
      PROVE  Reaches(slot, w, v)
  <2> DEFINE s == SlotOf[w]
             S == InSlot(s)
             A == InTurn(s)
             key == SlotPlaces(s)
  <2>1. S \subseteq Carried /\ w \in S /\ v \in A
    BY <1>4 DEF InSlot, InTurn
  <2>2. \A x \in S : slot[x] \in S /\ Follows(A, key, x, slot[x])
    BY <2>1, SlotKeyFollows
  <2>3. A \subseteq S
    BY <2>1, SlotKeyFollows
  <2>4. key \in [S -> Int] /\ \A a, b \in S : key[a] = key[b] => a = b
    BY <1>1, <2>1, WeaponsAssumption DEF SlotPlaces, InSlot
  <2>5. S \subseteq Weapons
    BY <1>1, <2>1
  <2> HIDE DEF slot, S, A, key
  <2> QED
    BY <2>1, <2>2, <2>3, <2>4, <2>5, CycleReaches
<1> QED
  BY <1>2, <1>3, <1>4

\* The wheel and the slot keys reach every weapon, and invprev takes back
\* invnext, for any weapons in any slots: PrevFrom and NextFrom scan the slots
\* from the middle (cl_dll/ammo.cpp).
THEOREM WeaponsReachable == Spec => []EveryWeaponReachable
<1>1. HudInv => EveryWeaponReachable
  BY AllReachable DEF HudInv, TypeOK
<1> QED
  BY <1>1, HudInvHolds, PTL
=============================================================================
