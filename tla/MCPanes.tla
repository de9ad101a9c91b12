------------------------------ MODULE MCPanes ------------------------------
(* An instance of Panes for TLC.  The tabs are alike.                      *)
EXTENDS Panes, TLC

CONSTANTS t1, t2, t3
ThreeTabs == {t1, t2, t3}
Alike == Permutations(ThreeTabs)
=============================================================================
