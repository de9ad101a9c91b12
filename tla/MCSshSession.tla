----------------------------- MODULE MCSshSession -----------------------------
(* Instances of SshSession for TLC.                                           *)
EXTENDS SshSession

Local == Config("local", 1, FALSE)
Socks == Config("dynamic", 1, TRUE)
Remote == Config("remote", 2, FALSE)

Monitored(system) == Setting(TRUE, FALSE, <<>>, system, TRUE, FALSE, 2, 3)
Followed(proc, announces, c, e) == Setting(FALSE, TRUE, <<>>, "linux", proc, announces, c, e)
Tunnelled(m, lists, c, e) == Setting(m, FALSE, lists, "linux", TRUE, FALSE, c, e)

(* A feature at a time, then the tunnels with what ticks and without.         *)
AllSettings ==
  {Monitored(s) : s \in {"linux", "windows", "other"}}
  \cup {Followed(TRUE, FALSE, 2, 2), Followed(TRUE, TRUE, 1, 2), Followed(FALSE, TRUE, 1, 2)}
  \cup {Tunnelled(FALSE, <<<<Socks>>>>, 1, 4), Tunnelled(TRUE, <<<<Local>>>>, 1, 3),
        Tunnelled(FALSE, <<<<Local>>, <<Socks, Remote>>>>, 2, 3)}

Greetings ==
  {<<"greeting", "auth", "request", "data">>, <<"greeting", "badauth">>, <<"greeting", "request">>, <<"other">>}
=============================================================================
