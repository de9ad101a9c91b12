------------------------------ MODULE SshSession ------------------------------
(* One SSH connection with all that runs over its session: monitoring, the    *)
(* following of the shell's directory, tunnels.  What has arrived is looked   *)
(* at in a pass of onSocketActivity: when the socket has something unread,    *)
(* when the monitor's timer drives one, and at the end of a poll of the       *)
(* directory.                                                                 *)
EXTENDS SshMonitor, SshFollow, SshTunnels

vars == <<linkVars, monVars, followVars, tunnelVars>>

Init == LinkInit /\ MonitorInit /\ FollowInit /\ TunnelsInit

Connect ==
  /\ LinkConnects /\ MonitorConnects /\ FollowConnects /\ TunnelsConnect

Disconnect ==
  /\ OneMore
  /\ LinkDisconnects /\ MonitorDisconnects /\ FollowDisconnects /\ TunnelsDisconnect

(* readShell finds the end of the shell, before the pass has got to the rest. *)
ShellCloses ==
  /\ OneMore
  /\ LinkCloses /\ MonitorCloses /\ FollowCloses
  /\ UNCHANGED tunnelVars

(* onSocketActivity without what it does for the monitor.                     *)
Pass == ReadsShell /\ PollTunnels

SocketActivity ==
  /\ wire /\ ThreadFree
  /\ Pass /\ PollStats(mon)
  /\ UNCHANGED <<followVars, events>>

OnStatsTimer ==
  /\ ThreadFree
  /\ \/ TimerRests /\ UNCHANGED <<linkVars, tunnelVars>>
     \/ TimerDrives /\ Pass /\ UNCHANGED events
  /\ UNCHANGED followVars

(* mutant: what a poll has buffered is left there *)
NoDrain ==
  /\ poll.what = "drain"
  /\ poll' = Call("none", NoDir)
  /\ UNCHANGED <<monVars, tunnelVars, linkVars, shell, follow, toGui, Gui, History>>

(* The pass that ends a poll of the directory.                                *)
Drain ==
  /\ poll.what = "drain"
  /\ poll' = Call("none", NoDir)
  /\ IF Up THEN Pass /\ PollStats(mon) /\ UNCHANGED events
     ELSE UNCHANGED <<monVars, tunnelVars, linkVars>>
  /\ UNCHANGED <<shell, follow, toGui, Gui, History>>

Following ==
  /\ \/ Tick \/ PollStep \/ ThreadCall \/ GuiHears \/ CdExpires
     \/ Browse \/ Downloads \/ Types \/ ShellTakes \/ JobEnds
  /\ UNCHANGED <<monVars, tunnelVars>>

Monitoring ==
  /\ ToggleMonitoring \/ SampleAges \/ ServerMonitors
  /\ UNCHANGED <<followVars, tunnelVars>>

Tunnelling ==
  /\ \/ RetryFires \/ ManageTunnels \/ PortChanges \/ NewConnection
     \/ \E b \in 1..MaxBridges : \/ ClientSays(b) \/ SocketReadyRead(b) \/ SocketDrains(b)
                                 \/ SocketDisconnected(b) \/ ChannelSends(b)
  /\ ThreadFree
  /\ UNCHANGED <<monVars, followVars>>

(* startSession for a tab whose connection is up: its tab is shown again.     *)
TabShownAgain ==
  /\ Up /\ OneMore /\ (setting.following \/ setting.tunnels # <<>>)
  /\ BrowserShownAgain /\ TunnelsShownAgain
  /\ Same /\ UNCHANGED <<link, wire, unseen, monVars>>

Printing == ShellPrints /\ UNCHANGED <<monVars, followVars, tunnelVars>>

Next ==
  \/ Connect \/ Disconnect \/ ShellCloses \/ SocketActivity \/ OnStatsTimer \/ Drain
  \/ Following \/ Monitoring \/ Tunnelling \/ TabShownAgain \/ Printing

Spec == Init /\ [][Next]_vars
(* Timers fire, notifiers of a socket with data fire, queued calls are        *)
(* served, the server answers and its shell reads; users are free.            *)
FairSpec ==
  /\ Spec
  /\ WF_vars(SocketActivity) /\ WF_vars(OnStatsTimer) /\ WF_vars(Drain)
  /\ WF_vars(Tick /\ UNCHANGED <<monVars, tunnelVars>>)
  /\ WF_vars((PollStep \/ GuiHears \/ ShellTakes) /\ UNCHANGED <<monVars, tunnelVars>>)
  /\ WF_vars(ThreadCall /\ UNCHANGED <<monVars, tunnelVars>>)
  /\ WF_vars(CdExpires /\ UNCHANGED <<monVars, tunnelVars>>)
  /\ WF_vars((SampleAges \/ Answers \/ Ends) /\ UNCHANGED <<followVars, tunnelVars>>)
  /\ WF_vars((RetryFires \/ ClientStep) /\ ThreadFree /\ UNCHANGED <<monVars, followVars>>)

-----------------------------------------------------------------------------
TypeOK == LinkTypeOK /\ MonitorTypeOK /\ FollowTypeOK /\ TunnelsTypeOK

(* Something looks at the session although its socket is silent.              *)
Ticking ==
  \/ follow.ticking /\ setting.following
  \/ mon.timer /\ (mon.enabled \/ mon.state # "idle")

(* What the shell prints is shown: also when a listing, a write to a tunnel   *)
(* or a poll of the directory has taken it off the socket, unless neither the *)
(* monitor nor the following is on.  src/src/sshconnection.cpp:1012, 1165     *)
OutputShown == []<>(~ unseen \/ ~ Up \/ ~ Ticking)

(* The end of a channel reaches the local client: its bridge is polled once   *)
(* more after its buffer went out, under the same condition.                  *)
(* src/src/sshtunnel.cpp:390                                                  *)
EndReachesClient ==
  \A b \in 1..MaxBridges :
    []<>(~ (Open(b) /\ bridges[b].ended) \/ ~ Up \/ ~ Ticking)

(* Types, and each tunnel in the state last announced, none shown as running  *)
(* that is not.                                                               *)
TunnelsSound == TypeOK /\ TunnelsAgree

(* The browser and the shell end up in one directory, and a cd strays only    *)
(* when it was overtaken.                                                     *)
FollowingSound == BrowserInSync /\ StraysOnlyOvertaken

(* Nothing that one reader took off the socket stays unseen by its own: the   *)
(* shell's output is shown and a channel's end reaches its client.            *)
NothingStays == OutputShown /\ EndReachesClient
=============================================================================
