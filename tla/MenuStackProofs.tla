--------------------------- MODULE MenuStackProofs ---------------------------
(***************************************************************************)
(* Proofs about MenuStack, for any panels and overlays.                    *)
(***************************************************************************)
EXTENDS MenuStack, TLAPS

\* The keyboard always belongs to a panel on the screen, and a panel that is
\* no overlay always has it: what MenuStack promises is worth keeping.
THEOREM StackCorrect ==
  ASSUME Overlays \subseteq Panels, Nobody \notin Panels
  PROVE  StackSpec => []StackInv
<1>1. StackInit => StackInv
  BY DEF StackInit, StackInv, FocusIsShown, OrdinaryHasFocus
<1>2. StackInv /\ [StackNext]_stackVars => StackInv'
  <2> SUFFICES ASSUME StackInv, [StackNext]_stackVars
               PROVE  StackInv'
    OBVIOUS
  <2> USE DEF StackInv, FocusIsShown, OrdinaryHasFocus
  <2>1. ASSUME NEW p \in Panels, Open(p) \/ Replace(p)
        PROVE  StackInv'
    BY <2>1 DEF Open, Replace
  <2>2. ASSUME NEW p \in Panels, Overlay(p)
        PROVE  StackInv'
    BY <2>2 DEF Overlay
  <2>3. CASE CloseAll
    BY <2>3 DEF CloseAll
  <2>4. CASE UNCHANGED stackVars
    BY <2>4 DEF stackVars
  <2> QED
    BY <2>1, <2>2, <2>3, <2>4 DEF StackNext
<1> QED
  BY <1>1, <1>2, PTL DEF StackSpec
=============================================================================
