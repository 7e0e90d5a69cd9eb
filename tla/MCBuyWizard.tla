----------------------------- MODULE MCBuyWizard -----------------------------
(***************************************************************************)
(* A small buy menu for TLC: memory for three submenus, so that they nest, *)
(* share a page and take the place of deleted ones, and two resources.     *)
(***************************************************************************)
EXTENDS BuyWizard, TLC

CONSTANTS main, s1, s2, s3, f1, f2

MCPanels == {main, s1, s2, s3}
MCFiles == {f1, f2}

\* Submenus are alike but for the files they are made from.
MCSymmetry == Permutations({s1, s2, s3}) \cup Permutations({f1, f2})
=============================================================================
