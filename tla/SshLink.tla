-------------------------------- MODULE SshLink --------------------------------
(* The SSH session as the parts that run over it see it: whether it is up,    *)
(* and what has arrived on its socket.  A libssh2 call on any channel reads   *)
(* the packets of all of them into libssh2's queues, after which the socket   *)
(* has nothing left to notify of.                                             *)
EXTENDS Integers, Sequences, FiniteSets

CONSTANTS
  Settings      \* what the user's options, the server and the bounds may be

(* One instance: is monitoring on, is the shell followed, which tunnels the   *)
(* session has at each connection, what system the server runs, whether its   *)
(* /proc shows the shell, whether the shell announces directories (OSC 7).    *)
(* Bounds: how often the session is connected, and what the users, the server *)
(* and the network do in all.                                                 *)
Setting(m, f, t, s, p, o, c, e) ==
  [monitoring |-> m, following |-> f, tunnels |-> t, system |-> s, proc |-> p, announces |-> o,
   connects |-> c, events |-> e]

ASSUME SettingsAssumption ==
  \A s \in Settings : s.monitoring \in BOOLEAN /\ s.connects \in Nat /\ s.events \in Nat

VARIABLES
  setting,      \* the one of Settings that is in force
  link,         \* "down", "up", or "closed": m_connected is off, the session is still there
  connects,     \* how often it was connected
  wire,         \* unread data on the socket: the read notifier fires
  unseen,       \* output of the shell that the terminal does not show yet
  events        \* how many events there have been

linkVars == <<setting, link, connects, wire, unseen, events>>

Up == link = "up"
OneMore == events < setting.events /\ events' = events + 1
Same == UNCHANGED <<setting, connects>>

LinkInit ==
  /\ setting \in Settings
  /\ link = "down" /\ connects = 0
  /\ wire = FALSE /\ unseen = FALSE
  /\ events = 0

(* connectToHost takes the old session down before it sets up the new one.    *)
LinkConnects ==
  /\ connects < setting.connects
  /\ connects' = connects + 1
  /\ link' = "up"
  /\ wire' = FALSE /\ unseen' = FALSE
  /\ UNCHANGED <<setting, events>>

(* disconnectFromHost                                                         *)
LinkDisconnects ==
  /\ link # "down"
  /\ link' = "down"
  /\ wire' = FALSE /\ unseen' = FALSE
  /\ Same

(* handleShellClosed: the shell's channel has ended.                          *)
LinkCloses ==
  /\ Up
  /\ link' = "closed"
  /\ wire' = FALSE /\ unseen' = FALSE
  /\ Same

(* External: the shell prints.                                                *)
ShellPrints ==
  /\ Up /\ OneMore
  /\ wire' = TRUE /\ unseen' = TRUE
  /\ Same /\ UNCHANGED link

(* A call that waits for its own answer (a listing, a write, a channel that   *)
(* is opened) takes what the socket has into libssh2's queues.                *)
Absorbs ==
  /\ wire' = FALSE
  /\ Same /\ UNCHANGED <<link, unseen>>

(* readShell, in every pass of onSocketActivity.                              *)
ReadsShell ==
  /\ Up
  /\ wire' = FALSE /\ unseen' = FALSE
  /\ Same /\ UNCHANGED link

(* External: something arrives for another channel.                           *)
Arrives ==
  /\ Up
  /\ wire' = TRUE
  /\ Same /\ UNCHANGED <<link, unseen>>

LinkTypeOK ==
  /\ setting \in Settings
  /\ link \in {"down", "up", "closed"}
  /\ connects \in 0..setting.connects
  /\ wire \in BOOLEAN /\ unseen \in BOOLEAN
  /\ events \in 0..setting.events
=============================================================================
