---------------------------- MODULE MCVtTerminal ----------------------------
(* Instances of VtTerminal for TLC.                                           *)
EXTENDS VtTerminal
Csi1(b) == <<"ESC", "[", b>>
Csi2(n, b) == <<"ESC", "[", n, b>>
MCSizes == {<<3, 2>>, <<4, 2>>}
MCFirstSize == <<3, 2>>
MCNeedle == <<"a", "b">>
(* One of each kind: what prints, moves, erases, edits and means nothing.     *)
MCItems ==
  { <<"a", "b", "LF">>, <<"L2", "c", "LF", "LF">>, <<"a", "a", "b", "LF">>, <<"LF", "a", "b", "LF", "b", "BS">>,
    Csi1("A"), Csi2("1", "K"), Csi2("2", "J"), Csi1("L"), Csi2("2", "P"), Csi1("@"),
    <<"ESC", "]", "0", "ESC", "\\">> }
(* With a character of four bytes, for which ChunksDoNotMatter does not hold. *)
MCWide == { <<"a">>, <<"L4", "c", "c", "c">>, Csi1("K") }
=============================================================================
