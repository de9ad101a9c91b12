------------------------------ MODULE SshTunnels ------------------------------
(* Tunnels: SshConnection's list of them with the retries of those whose port *)
(* was busy, and SshTunnel's bridges between local sockets and channels.  A   *)
(* part of a SOCKS message that has arrived is peeked at and left, so a       *)
(* message is there or is not.  The handlers that open a channel or write to  *)
(* one do so in blocking mode.                                                *)
EXTENDS SshLink, SequencesExt

CONSTANTS
  MaxRetries,   \* 3
  MaxBridges,   \* bound: local connections at a time, over all tunnels
  Scripts       \* what a SOCKS client may say, one sequence of messages each

VARIABLES
  configs,      \* m_tunnelConfigs
  tunnels,      \* the configurations of m_tunnels
  chains,       \* retries that a timer will make
  told,         \* the state last announced for each tunnel of the list
  shown,        \* m_tunnelStates of the browser, once it has heard what was announced
  misled,       \* a retry announced what is not so of the current list
  taken,        \* external: ports that other programs hold
  bridges       \* m_bridges of all tunnels

tunnelVars == <<configs, tunnels, chains, told, shown, misled, taken, bridges>>
Sayings == <<told, shown, misled>>

(* port: where it listens, here or on the server; auth: the SOCKS proxy asks  *)
(* for a user.                                                                *)
Config(kind, port, auth) == [kind |-> kind, port |-> port, auth |-> auth]
Configs == [kind : {"local", "dynamic", "remote"}, port : Nat, auth : BOOLEAN]

ASSUME TunnelsAssumption ==
  /\ MaxRetries \in Nat \ {0} /\ MaxBridges \in Nat
  /\ \A s \in Settings : s.tunnels \in Seq(Seq(Configs))

Lists == UNION {ToSet(s.tunnels) : s \in Settings}
Ports == UNION {{c.port : c \in ToSet(list)} : list \in Lists}
Indices == UNION {DOMAIN list : list \in Lists}
NoBridge == [used |-> FALSE]

TunnelsInit ==
  /\ configs = <<>> /\ tunnels = {} /\ chains = {}
  /\ told = [i \in Indices |-> FALSE] /\ shown = told /\ misled = FALSE
  /\ taken \in SUBSET (IF setting.tunnels = <<>> THEN {} ELSE Ports)
  /\ bridges = [b \in 1..MaxBridges |-> NoBridge]

Open(b) == bridges[b].used
Without(config) == [b \in 1..MaxBridges |-> IF Open(b) /\ bridges[b].of = config THEN NoBridge ELSE bridges[b]]

-----------------------------------------------------------------------------
(* SshTunnel::start: the port may be another program's or another tunnel's.   *)
Starts(config, running) == config.port \notin taken /\ \A t \in running : t.port # config.port

(* The tunnels that start when a list is started from the first on: on each   *)
(* port that is free the first.                                               *)
Started(list) ==
  {list[i] : i \in {j \in DOMAIN list : /\ list[j].port \notin taken
                                        /\ \A k \in 1..(j - 1) : list[k].port # list[j].port}}

Chain(config, index, of) == [config |-> config, index |-> index, attempt |-> 1, of |-> of]

(* tunnelStateChanged, and the slot behind it.                                *)
Announce(i, active) ==
  /\ told' = [told EXCEPT ![i] = active]
  /\ shown' = [shown EXCEPT ![i] = active]

(* The end of connectToHost: the state of every tunnel of the list.  The      *)
(* browser has them all stopped from connectionSuccess on.                    *)
Announced(list, running) ==
  [i \in Indices |-> IF i <= Len(list) THEN list[i] \in running ELSE told[i]]

TunnelsConnect ==
  LET list == IF connects' <= Len(setting.tunnels) THEN setting.tunnels[connects'] ELSE <<>>
  IN  /\ configs' = list
      /\ tunnels' = Started(list)
      /\ chains' = chains \cup {Chain(list[i], i, connects') : i \in {j \in DOMAIN list : list[j] \notin Started(list)}}
      /\ told' = Announced(list, Started(list))
      /\ shown' = [i \in Indices |-> i <= Len(list) /\ list[i] \in Started(list)]
      /\ misled' = FALSE
      /\ bridges' = [b \in 1..MaxBridges |-> NoBridge]
      /\ UNCHANGED taken

TunnelsDisconnect ==
  /\ configs' = <<>> /\ tunnels' = {}
  /\ bridges' = [b \in 1..MaxBridges |-> NoBridge]
  /\ UNCHANGED <<chains, Sayings, taken>>

(* The tab is shown again: the browser takes every tunnel for stopped, and    *)
(* nothing is announced.                                                      *)
TunnelsShownAgain ==
  /\ shown' = [i \in Indices |-> FALSE]
  /\ UNCHANGED <<configs, tunnels, chains, told, misled, taken, bridges>>

(* One retry: it asks whether the session is up, not whether it is the same.  *)
Retry(c) ==
  /\ chains' = (chains \ {c}) \cup
       (IF Up /\ ~ Starts(c.config, tunnels) /\ c.attempt < MaxRetries
        THEN {[c EXCEPT !.attempt = @ + 1]} ELSE {})
  /\ IF ~ Up THEN UNCHANGED <<tunnels, Sayings>>
     ELSE LET ok == Starts(c.config, tunnels) IN
       /\ tunnels' = IF ok THEN tunnels \cup {c.config} ELSE tunnels
       /\ Announce(c.index, ok)
       /\ misled' = (misled \/ c.of # connects \/ (~ ok /\ c.config \in tunnels))
  /\ UNCHANGED <<configs, taken, bridges>>

RetryFires == \E c \in chains : Retry(c) /\ UNCHANGED linkVars

(* startTunnel, asked for in the dialog.                                      *)
StartTunnel(i) ==
  /\ Up /\ configs[i] \notin tunnels
  /\ LET ok == Starts(configs[i], tunnels) IN
       /\ tunnels' = IF ok THEN tunnels \cup {configs[i]} ELSE tunnels
       /\ Announce(i, ok)
  /\ UNCHANGED <<configs, chains, misled, taken, bridges>>

(* mutant: nothing is said of a tunnel that was stopped *)
StopTunnelSilently(i) ==
  /\ tunnels' = tunnels \ {configs[i]}
  /\ bridges' = Without(configs[i])
  /\ IF configs[i] \in tunnels THEN UNCHANGED <<told, shown>> ELSE Announce(i, FALSE)
  /\ UNCHANGED <<configs, chains, misled, taken>>

(* stopTunnel: its bridges go with it.                                        *)
StopTunnel(i) ==
  /\ tunnels' = tunnels \ {configs[i]}
  /\ bridges' = Without(configs[i])
  /\ Announce(i, FALSE)
  /\ UNCHANGED <<configs, chains, misled, taken>>

ManageTunnels ==
  /\ OneMore /\ Same /\ UNCHANGED <<link, wire, unseen>>
  /\ \E i \in DOMAIN configs : StartTunnel(i) \/ StopTunnel(i)

(* External: another program takes a port or leaves it.                       *)
PortChanges ==
  /\ setting.tunnels # <<>> /\ OneMore
  /\ \E p \in Ports : /\ \A t \in tunnels : t.port # p
                      /\ taken' = IF p \in taken THEN taken \ {p} ELSE taken \cup {p}
  /\ UNCHANGED <<configs, tunnels, chains, Sayings, bridges, link, wire, unseen>> /\ Same

-----------------------------------------------------------------------------
(* Bridges.  script: what the client has still to say; inbox: what has        *)
(* arrived of it; ready: readyRead is due; unread: the channel has data;      *)
(* ended: the channel's EOF; out: bytesToWrite.                               *)
Bridge(config, step, script) ==
  [used |-> TRUE, of |-> config, step |-> step, script |-> script, inbox |-> <<>>, ready |-> FALSE,
   unread |-> FALSE, ended |-> FALSE, out |-> FALSE]
Free == {b \in 1..MaxBridges : ~ Open(b)}
Lowest == CHOOSE b \in Free : \A c \in Free : b <= c
Bridges(b, v) == bridges' = [bridges EXCEPT ![b] = v]
Rest == UNCHANGED <<configs, tunnels, chains, Sayings, taken>>

(* onNewConnection: for a local tunnel the channel is opened before anything  *)
(* is read, and if it is not there is no bridge.                              *)
NewConnection ==
  /\ Free # {} /\ OneMore
  /\ \E t \in tunnels :
       \/ t.kind = "local" /\ Absorbs
          /\ (Bridges(Lowest, Bridge(t, "open", <<"data">>)) \/ UNCHANGED bridges)
       \/ t.kind = "dynamic" /\ \E s \in Scripts : Bridges(Lowest, Bridge(t, "greeting", s))
          /\ Same /\ UNCHANGED <<link, wire, unseen>>
  /\ Rest

(* External: the client says the next thing, whether or not it was answered.  *)
ClientSays(b) ==
  /\ Open(b) /\ bridges[b].script # <<>>
  /\ Bridges(b, [bridges[b] EXCEPT !.script = Tail(@), !.inbox = Append(@, Head(bridges[b].script)), !.ready = TRUE])
  /\ Rest /\ UNCHANGED linkVars

(* handleSocksHandshake, one operator for each step.  A message that does not *)
(* belong there is left in the socket or ends the bridge.                     *)
Greeted(v) ==
  IF v.inbox = <<>> THEN {v}
  ELSE IF Head(v.inbox) # "greeting" THEN {NoBridge}
  ELSE {[v EXCEPT !.inbox = Tail(@), !.step = IF v.of.auth THEN "auth" ELSE "request"]}

Authenticated(v) ==
  IF v.inbox = <<>> \/ Head(v.inbox) \notin {"auth", "badauth"} THEN {v}
  ELSE IF Head(v.inbox) = "badauth" THEN {NoBridge}
  ELSE {[v EXCEPT !.inbox = Tail(@), !.step = "request"]}

(* The server may refuse the channel.                                         *)
Requested(v) ==
  IF v.inbox = <<>> THEN {v}
  ELSE IF Head(v.inbox) # "request" THEN {NoBridge}
  ELSE {NoBridge, [v EXCEPT !.inbox = Tail(@), !.step = "open"]}

AtStep(step, F(_), v) == IF v.used /\ v.step = step THEN F(v) ELSE {v}
Handshake(v) ==
  UNION {UNION {AtStep("request", Requested, w) : w \in AtStep("auth", Authenticated, u)}
         : u \in AtStep("greeting", Greeted, v)}

(* onSocketReadyRead: with the handshake done, all that has arrived goes to   *)
(* the channel; what came behind the request waits for the next readyRead.    *)
SocketReadyRead(b) ==
  /\ Open(b) /\ bridges[b].ready
  /\ LET v == [bridges[b] EXCEPT !.ready = FALSE] IN
       IF v.step = "open" THEN Bridges(b, [v EXCEPT !.inbox = <<>>])
       ELSE \E w \in Handshake(v) : Bridges(b, w)
  /\ Absorbs /\ Rest /\ UNCHANGED events

(* onSocketDisconnected: what the channel still has for the client is lost.   *)
SocketDisconnected(b) ==
  /\ Open(b) /\ ~ bridges[b].ready /\ OneMore
  /\ Bridges(b, NoBridge)
  /\ Absorbs /\ Rest

(* External: the socket's buffer goes out.                                    *)
SocketDrains(b) ==
  /\ Open(b) /\ bridges[b].out
  /\ Bridges(b, [bridges[b] EXCEPT !.out = FALSE])
  /\ Rest /\ UNCHANGED linkVars

(* External: the other end of the channel sends, and closes.                  *)
ChannelSends(b) ==
  /\ Open(b) /\ bridges[b].step = "open" /\ ~ bridges[b].ended
  /\ OneMore
  /\ \/ ~ bridges[b].unread /\ Bridges(b, [bridges[b] EXCEPT !.unread = TRUE])
     \/ Bridges(b, [bridges[b] EXCEPT !.ended = TRUE])
     \/ ~ bridges[b].unread /\ Bridges(b, [bridges[b] EXCEPT !.unread = TRUE, !.ended = TRUE])
  /\ Arrives /\ Rest

(* poll, for one bridge: it ends when the channel has and nothing is left to  *)
(* write.                                                                     *)
PollBridge(v) ==
  IF ~ v.used \/ v.step # "open" THEN v
  ELSE IF v.ended /\ ~ v.unread /\ ~ v.out THEN NoBridge
  ELSE [v EXCEPT !.unread = FALSE, !.out = @ \/ v.unread]

(* poll accepts what the server offers on a remote forward if somebody        *)
(* listens here.                                                              *)
Accepted(offered) ==
  IF ~ offered \/ Free = {} \/ ~ \E t \in tunnels : t.kind = "remote" THEN {bridges}
  ELSE {bridges, [bridges EXCEPT ![Lowest] =
                   Bridge(CHOOSE t \in tunnels : t.kind = "remote", "open", <<"data">>)]}

PollTunnels ==
  /\ \E bs \in Accepted(wire) : bridges' = [b \in 1..MaxBridges |-> PollBridge(bs[b])]
  /\ Rest

ClientStep == \E b \in 1..MaxBridges : ClientSays(b) \/ SocketReadyRead(b) \/ SocketDrains(b)

-----------------------------------------------------------------------------
(* What was last announced of each tunnel is so, and a tunnel that the dialog *)
(* shows as running runs, unless a retry has said it: one that fails because  *)
(* the user has started the tunnel meanwhile, or one of an earlier            *)
(* connection.  src/src/sshconnection.cpp:885, 917                            *)
TunnelsAgree ==
  Up => misled \/ \A i \in DOMAIN configs : /\ told[i] = (configs[i] \in tunnels)
                                            /\ shown[i] => configs[i] \in tunnels

(* What the dialog shows is so: refuted, a tab that is shown again has all    *)
(* its tunnels stopped there.  src/src/sftpsidebar.cpp:740                    *)
DialogAgrees ==
  Up => misled \/ \A i \in DOMAIN configs : shown[i] = (configs[i] \in tunnels)

(* Tunnels are told apart by what they are (sameTunnel), the dialog's rows by *)
(* their place: two equal rows share one tunnel, and what is announced for    *)
(* the one is not for the other.  No list has the same tunnel twice.          *)
DistinctTunnels == \A list \in Lists : IsInjective(list)

TunnelsTypeOK ==
  /\ tunnels \subseteq UNION {ToSet(list) : list \in ToSet(setting.tunnels)}
  /\ \A c \in chains : c.attempt \in 1..MaxRetries /\ c.index \in Indices
  /\ \A b \in 1..MaxBridges : Open(b) => bridges[b].of \in tunnels
=============================================================================
