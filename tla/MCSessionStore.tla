--------------------------- MODULE MCSessionStore ---------------------------
(* Instances of SessionStore for TLC.                                      *)
EXTENDS SessionStore

Direct(i, h) == [id |-> i, kind |-> "ssh", host |-> h, jump |-> NoId,
                 route |-> NoHost, proxy |-> FALSE]
Linked(i, h, b, r) == [Direct(i, h) EXCEPT !.jump = b, !.route = r]

\* A bastion and a session that goes through it.
BastionAndTarget == {<<Direct(1, "h1"), Linked(2, "h1", 1, "h1")>>}

\* A session of another installation, with an id that is in use here.
OneImported == {<<Direct(1, "h2")>>}

Form(h, b, r, own, jumpText) ==
    [kind |-> "ssh", host |-> h, jump |-> b, route |-> r, proxy |-> FALSE, own |-> own,
     jumpText |-> jumpText, proxyText |-> FALSE, save |-> TRUE]
\* Dialogs left by the user: a session on another host, one through a bastion
\* typed by hand with its password, a desktop that is not to be saved.
TypedForms == {Form("h2", NoId, NoHost, TRUE, FALSE), Form("h1", NoId, "h2", FALSE, TRUE),
               [Form("h2", NoId, NoHost, FALSE, FALSE) EXCEPT !.kind = "desktop", !.save = FALSE]}

\* With a session whose tunnel has a proxy password (for EditKeepsPasswords,
\* which does not hold).
ProxyForms == {[Form("h1", NoId, NoHost, TRUE, FALSE) EXCEPT
                   !.proxy = TRUE, !.proxyText = TRUE]}

TargetSaved == {<<2, "own">>}
=============================================================================
