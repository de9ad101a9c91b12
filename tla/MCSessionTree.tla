--------------------------- MODULE MCSessionTree ---------------------------
(* An instance of SessionTree for TLC.                                     *)
EXTENDS SessionTree

\* Two sessions, one in "a/b" and one in "/", known only through them.
TwoSessions == <<[id |-> 1, group |-> <<"a", "b">>], [id |-> 2, group |-> <<"", "">>]>>

\* "/b", "a/" and "/".
ThreeOddTexts == {<<"", "b">>, <<"a", "">>, <<"", "">>}
=============================================================================
