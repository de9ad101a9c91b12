--------------------------- MODULE SshSessionProofs ---------------------------
(* One SSH connection, for any options, directories, tunnels and clients:     *)
(* what is announced of a tunnel is so, the browser is where the shell is,    *)
(* no cd goes into a job, no channel is released under a running program.     *)
EXTENDS SshSession, SequenceTheorems, TLAPS

-----------------------------------------------------------------------------
(* Monitoring.  A request is outstanding only while the monitor waits for it  *)
(* or ends, so that the program never owes two samples; and a program runs    *)
(* only in the states that will still see to its end.                         *)
Owes(p) == p.asked # 0 \/ p.frames # <<>>
Minds(m, p) ==
  /\ m \in Monitor /\ p \in Program
  /\ p.asked <= 1 /\ (p.asked = 0 \/ p.frames = <<>>)
  /\ m.state \in {"idle", "opening", "execing", "writing"} => ~ Owes(p)
  /\ m.state = "reading" /\ ~ m.pending => ~ Owes(p)
  /\ m.channel \/ m.state \in {"idle", "opening"}
  /\ p.runs => m.state \in {"writing", "reading", "closing"} /\ ~ p.ended
MonitorInv == Minds(mon, program)

-----------------------------------------------------------------------------
(* Tunnels.  The list is the one of this connection, a retry of this          *)
(* connection is about the tunnel at its place in the list, and a bridge is   *)
(* one of a tunnel that runs.                                                 *)
Offered == UNION {ToSet(list) : list \in ToSet(setting.tunnels)}
BridgeFields == {"used", "of", "step", "script", "inbox", "ready", "unread", "ended", "out"}
Carries(v, t) == DOMAIN v = BridgeFields /\ v.used = TRUE /\ v.of = t
Retries(c) ==
  /\ c \in [config : Offered, index : Indices, attempt : 1..MaxRetries, of : 1..connects]
  /\ c.of = connects /\ link # "down" => c.index \in DOMAIN configs /\ configs[c.index] = c.config
AsAnnounced ==
  Up => misled \/ \A i \in DOMAIN configs : told[i] = (configs[i] \in tunnels)
TunnelsInv ==
  /\ configs = <<>> \/ configs \in ToSet(setting.tunnels)
  /\ tunnels \subseteq Offered
  /\ told \in [Indices -> BOOLEAN]
  /\ \A c \in chains : Retries(c)
  /\ DOMAIN bridges = 1..MaxBridges
  /\ \A b \in 1..MaxBridges : bridges[b] = NoBridge \/ \E t \in tunnels : Carries(bridges[b], t)
  /\ AsAnnounced

(* The browser shows what it was told, or a tunnel as stopped.                *)
ShownInv == shown \in [Indices -> BOOLEAN] /\ \A i \in Indices : shown[i] => told[i]

-----------------------------------------------------------------------------
(* Following, the types.                                                      *)
Somewhere == Dirs \cup {NoDir}
Lines == [what : {"cd"}, dir : Dirs, ours : BOOLEAN] \cup {Typed("job", NoDir, FALSE)}
Orders == [what : {"list", "navigate"}, dir : Dirs]
Events == [what : {"moved", "listed"}, dir : Dirs] \cup {Call("connected", NoDir)}
FollowFields ==
  [pid : BOOLEAN, attempts : 0..MaxAttempts, ticking : BOOLEAN, last : Somewhere,
   requested : Somewhere, inFlight : Somewhere, expired : BOOLEAN]
FollowTypes ==
  /\ shell \in [at : Dirs, job : BOOLEAN, typed : Seq(Lines)]
  /\ follow \in FollowFields
  /\ poll \in [what : {"none", "seen", "stat", "send", "drain"}, dir : Somewhere]
  /\ view \in [tab : Somewhere, browser : Dirs, busy : BOOLEAN]
  /\ toThread \in Seq(Orders) /\ Len(toThread) <= MaxPosted
  /\ toGui \in Seq(Events) /\ Len(toGui) <= MaxPosted

(* A poll between its steps has read a directory; one that goes on to the     *)
(* stat line has a directory to go to.                                        *)
PollInv ==
  /\ poll.what \in {"seen", "stat", "send"} => poll.dir \in Dirs
  /\ poll.what \in {"stat", "send"} => follow.requested # NoDir

(* The connection sends a cd when it has seen no job; without a command that  *)
(* was on its way, none of its cds is behind one and none waits under a job.  *)
Before(i) == {j \in DOMAIN shell.typed : j < i}
StrayInv ==
  ~ overtaken =>
    /\ ~ strayed
    /\ poll.what = "send" => ~ shell.job
    /\ \A i \in DOMAIN shell.typed :
         shell.typed[i].ours => ~ shell.job /\ \A j \in Before(i) : shell.typed[j].what # "job"

(* What the window has still to hear of the shell is, at the end, the last    *)
(* directory that the connection has told it; once it has heard all, the tab  *)
(* has that directory, and the last listing still to come is of it or the     *)
(* browser shows it, unless a move was dropped or the user has asked for      *)
(* another directory.                                                         *)
(* With OSC 7 the window may have heard of a later move, and the shell is     *)
(* elsewhere then.                                                            *)
LastOf(s, i) == i \in DOMAIN s /\ \A j \in DOMAIN s : j <= i
IsNews(e) == e.what \in {"moved", "connected"}
LastNews(i) == IsNews(toGui[i]) /\ \A j \in DOMAIN toGui : IsNews(toGui[j]) => j <= i
NoNews == \A i \in DOMAIN toGui : ~ IsNews(toGui[i])

HeadsFor(d) ==
  IF toThread # <<>> THEN toThread[Len(toThread)].dir = d
  ELSE IF toGui # <<>> THEN toGui[Len(toGui)].dir = d
  ELSE view.browser = d

Navigates(i) == toThread[i].what = "navigate"
LastNavigate(i) == Navigates(i) /\ \A j \in DOMAIN toThread : Navigates(j) => j <= i
(* Nobody has asked for a directory, or for this one last.                    *)
Wants(d) ==
  /\ \A i \in DOMAIN toThread : LastNavigate(i) => toThread[i].dir = d
  /\ \/ \E i \in DOMAIN toThread : Navigates(i)
     \/ follow.requested = d
     \/ follow.requested = NoDir /\ follow.inFlight \in {d, NoDir}

Told == Up /\ setting.following /\ follow.last # NoDir /\ (setting.announces => follow.last = shell.at)
SyncInv ==
  Told =>
    /\ \A i \in DOMAIN toGui : LastNews(i) => toGui[i] = Call("moved", follow.last)
    /\ NoNews => view.tab = follow.last
    /\ NoNews /\ Wants(follow.last) => dropped \/ HeadsFor(follow.last)

FollowInv == FollowTypes /\ PollInv /\ StrayInv /\ SyncInv

SshInv == LinkTypeOK /\ MonitorInv /\ TunnelsInv /\ FollowInv

-----------------------------------------------------------------------------
(* Monitoring, one state of pollStats at a time.  A program that runs keeps   *)
(* its channel over the step.                                                 *)
Safe(b, p) == Minds(b.m, b.p) /\ (p.runs => b.m.channel)

LEMMA OpeningIsSafe ==
  ASSUME NEW m, NEW p, Minds(m, p), m.state = "opening", NEW b \in Opening(m, p)
  PROVE  Safe(b, p)
<1>1. CASE p.refuses
  <2> DEFINE n == [m EXCEPT !.state = "idle"]
             q == [p EXCEPT !.refuses = FALSE]
  <2>1. b = Both(n, q)  BY <1>1 DEF Opening
  <2>2. Minds(n, q) /\ ~ p.runs  BY DEF Minds, Monitor, Program, States, Owes
  <2> QED  BY <2>1, <2>2 DEF Safe, Both
<1>2. CASE ~ p.refuses
  <2> DEFINE n == [m EXCEPT !.state = "execing", !.channel = TRUE]
             q == [p EXCEPT !.kind = "opened"]
  <2>1. b = Both(n, q)  BY <1>2 DEF Opening
  <2>2. Minds(n, q) /\ ~ p.runs  BY DEF Minds, Monitor, Program, States, Owes
  <2> QED  BY <2>1, <2>2 DEF Safe, Both
<1> QED  BY <1>1, <1>2

LEMMA ExecingIsSafe ==
  ASSUME NEW m, NEW p, Minds(m, p), m.state = "execing", NEW b \in Execing(m, p)
  PROVE  Safe(b, p)
<1> DEFINE kind == IF m.windows THEN "windows" ELSE "linux"
           runs == kind = setting.system
<1>1. CASE p.refuses
  <2> DEFINE n == [m EXCEPT !.state = "freeing"]
             q == [p EXCEPT !.refuses = FALSE]
  <2>1. b = Both(n, q)  BY <1>1 DEF Execing
  <2>2. Minds(n, q) /\ ~ p.runs  BY DEF Minds, Monitor, Program, States, Owes
  <2> QED  BY <2>1, <2>2 DEF Safe, Both
<1>2. CASE ~ p.refuses
  <2> DEFINE n == [m EXCEPT !.state = IF m.enabled THEN "writing" ELSE "closing"]
             q == [p EXCEPT !.kind = kind, !.runs = runs, !.ended = ~ runs]
  <2>1. b = Both(n, q)  BY <1>2 DEF Execing
  <2>2. kind \in {"windows", "linux"} /\ runs \in BOOLEAN  OBVIOUS
  <2>3. Minds(n, q) /\ ~ p.runs
    <3> HIDE DEF kind, runs
    <3> QED  BY <2>2 DEF Minds, Monitor, Program, States, Owes
  <2> QED  BY <2>1, <2>3 DEF Safe, Both
<1> QED  BY <1>1, <1>2

LEMMA WritingIsSafe ==
  ASSUME NEW m, NEW p, Minds(m, p), m.state = "writing", NEW b \in Writing(m, p)
  PROVE  Safe(b, p)
<1>1. CASE p.refuses
  <2> DEFINE n == [m EXCEPT !.state = "closing"]
             q == [p EXCEPT !.refuses = FALSE]
  <2>1. b = Both(n, q)  BY <1>1 DEF Writing
  <2>2. Minds(n, q) /\ (p.runs => n.channel)  BY DEF Minds, Monitor, Program, States, Owes
  <2> QED  BY <2>1, <2>2 DEF Safe, Both
<1>2. CASE ~ p.refuses
  <2> DEFINE n == [m EXCEPT !.pending = TRUE, !.sample = "fresh",
                            !.state = IF m.enabled THEN "reading" ELSE "closing"]
             q == [p EXCEPT !.asked = @ + 1]
  <2>1. b = Both(n, q) \/ b = Both(n, p)  BY <1>2 DEF Writing
  <2>2. Minds(n, p) /\ (p.runs => n.channel)
    BY DEF Minds, Monitor, Program, States, Owes
  <2>3. q \in Program /\ q.asked = 1 /\ q.frames = <<>> /\ q.runs = p.runs /\ q.ended = p.ended
    BY DEF Minds, Monitor, Program, States, Owes
  <2>4. Minds(n, q)
    <3> HIDE DEF q
    <3> QED  BY <2>2, <2>3 DEF Minds, Monitor, Owes
  <2> HIDE DEF n, q
  <2> QED  BY <2>1, <2>2, <2>4 DEF Safe, Both
<1> QED  BY <1>1, <1>2

(* What is read leaves nothing owed.                                          *)
LEMMA ReadingIsSafe ==
  ASSUME NEW m, NEW p, Minds(m, p), m.state = "reading", NEW b \in Reading(m, p)
  PROVE  Safe(b, p)
<1> DEFINE read == FinishStats(m, p.frames)
           q == [p EXCEPT !.frames = <<>>]
           done == [read EXCEPT !.state = "closing"]
           over == [read EXCEPT !.state = "closing", !.windows = TRUE, !.sample = "invalid"]
<1>1. b \in {Both(read, q), Both(done, q), Both(over, q)}
  BY Zenon DEF Reading
<1>2. /\ read \in Monitor /\ read.state = "reading" /\ read.channel = m.channel
      /\ read.pending # m.pending => p.frames # <<>>
  <2>1. CASE p.frames = <<>> \/ p.frames = <<"flood">>
    BY <2>1 DEF FinishStats, Minds
  <2>2. CASE ~ (p.frames = <<>> \/ p.frames = <<"flood">>)
    <3> DEFINE good == p.frames = <<"good">>
    <3>1. read = [m EXCEPT !.pending = FALSE, !.received = @ \/ good]
      BY <2>2 DEF FinishStats
    <3>2. good \in BOOLEAN  OBVIOUS
    <3> HIDE DEF good, read
    <3> QED  BY <2>2, <3>1, <3>2 DEF Minds, Monitor
  <2> QED  BY <2>1, <2>2
<1>3. Minds(read, q)
  <2> HIDE DEF read
  <2> QED  BY <1>2 DEF Minds, Monitor, Program, States, Owes
<1>4. Minds(done, q) /\ Minds(over, q) /\ (p.runs => read.channel /\ done.channel /\ over.channel)
  <2> HIDE DEF read
  <2> QED  BY <1>2 DEF Minds, Monitor, Program, States, Owes
<1> HIDE DEF read, q, done, over
<1> QED  BY <1>1, <1>3, <1>4 DEF Safe, Both

LEMMA ClosingIsSafe ==
  ASSUME NEW m, NEW p, Minds(m, p), m.state = "closing", NEW b \in Closing(m, p)
  PROVE  Safe(b, p)
<1> DEFINE n == [m EXCEPT !.state = "freeing"]
           q == [p EXCEPT !.eof = TRUE, !.frames = <<>>]
<1>1. b = IF p.ended THEN Both(n, q) ELSE Both(m, q)  BY DEF Closing
<1>2. (p.ended => Minds(n, q)) /\ Minds(m, q) /\ (p.runs => m.channel /\ ~ p.ended)
  BY DEF Minds, Monitor, Program, States, Owes
<1> QED  BY <1>1, <1>2 DEF Safe, Both

LEMMA FreeingIsSafe ==
  ASSUME NEW m, NEW p, Minds(m, p), m.state = "freeing", NEW b \in Freeing(m, p)
  PROVE  Safe(b, p)
<1> DEFINE timer == m.timer /\ m.enabled
           n == [m EXCEPT !.channel = FALSE, !.state = "idle", !.timer = timer]
           q == [NoProgram EXCEPT !.refuses = p.refuses]
<1>1. b = Both(n, q)  BY DEF Freeing
<1>2. timer \in BOOLEAN  OBVIOUS
<1>3. n \in Monitor /\ n.state = "idle" /\ ~ p.runs /\ p.refuses \in BOOLEAN
  <2> HIDE DEF timer
  <2> QED  BY <1>2 DEF Minds, Monitor, Program, States
<1>4. NoProgram \in Program /\ NoProgram.asked = 0 /\ NoProgram.frames = <<>> /\ ~ NoProgram.runs
  BY DEF NoProgram, Program
<1>5. q \in Program /\ q.asked = 0 /\ q.frames = <<>> /\ ~ q.runs
  <2> DEFINE r == p.refuses
  <2> HIDE DEF r
  <2> QED  BY <1>3, <1>4 DEF Program, r
<1>6. Minds(n, q)
  <2> HIDE DEF n, q
  <2> QED  BY <1>3, <1>5 DEF Minds, Owes
<1> QED  BY <1>1, <1>3, <1>6 DEF Safe, Both

Kept == MonitorInv' /\ (program.runs => mon'.channel)

LEMMA PolledIsSafe ==
  ASSUME NEW m, Minds(m, program), PollStats(m)
  PROVE  Kept
<1>1. PICK b \in Polled(m, program) : mon' = b.m /\ program' = b.p
  BY DEF PollStats
<1>2. m.state \in States  BY DEF Minds, Monitor
<1>3. Safe(b, program)
  <2>1. CASE m.state = "idle"
    <3>1. b = Both(m, program)  BY <1>1, <2>1 DEF Polled
    <3> QED  BY <2>1, <3>1 DEF Safe, Both, Minds
  <2>2. CASE m.state = "opening"
    <3>1. Polled(m, program) = Opening(m, program)  BY <2>2 DEF Polled
    <3> QED  BY <1>1, <2>2, <3>1, OpeningIsSafe
  <2>3. CASE m.state = "execing"
    <3>1. Polled(m, program) = Execing(m, program)  BY <2>3 DEF Polled
    <3> QED  BY <1>1, <2>3, <3>1, ExecingIsSafe
  <2>4. CASE m.state = "writing"
    <3>1. Polled(m, program) = Writing(m, program)  BY <2>4 DEF Polled
    <3> QED  BY <1>1, <2>4, <3>1, WritingIsSafe
  <2>5. CASE m.state = "reading"
    <3>1. Polled(m, program) = Reading(m, program)  BY <2>5 DEF Polled
    <3> QED  BY <1>1, <2>5, <3>1, ReadingIsSafe
  <2>6. CASE m.state = "closing"
    <3>1. Polled(m, program) = Closing(m, program)  BY <2>6 DEF Polled
    <3> QED  BY <1>1, <2>6, <3>1, ClosingIsSafe
  <2>7. CASE m.state = "freeing"
    <3>1. Polled(m, program) = Freeing(m, program)  BY <2>7 DEF Polled
    <3> QED  BY <1>1, <2>7, <3>1, FreeingIsSafe
  <2> QED  BY <1>2, <2>1, <2>2, <2>3, <2>4, <2>5, <2>6, <2>7 DEF States
<1> QED  BY <1>1, <1>3 DEF Safe, Kept, MonitorInv

LEMMA TimerIsSafe ==
  ASSUME MonitorInv, TimerRests \/ TimerDrives
  PROVE  Kept
<1>1. CASE TimerRests
  BY <1>1 DEF TimerRests, Kept, MonitorInv, Minds, Monitor, States
<1>2. ASSUME mon.state = "idle", PollStats(StartStats(mon)) PROVE Kept
  <2>1. Minds(StartStats(mon), program)
    BY <1>2 DEF StartStats, MonitorInv, Minds, Monitor, States
  <2> QED  BY <1>2, <2>1, PolledIsSafe
<1>3. ASSUME NextSample(mon), PollStats([mon EXCEPT !.state = "writing"]) PROVE Kept
  <2> DEFINE m == [mon EXCEPT !.state = "writing"]
  <2>1. Minds(m, program)
    BY <1>3 DEF NextSample, MonitorInv, Minds, Monitor, States
  <2> QED  BY <1>3, <2>1, PolledIsSafe
<1>4. ASSUME PollStats(mon) PROVE Kept
  BY <1>4, PolledIsSafe DEF MonitorInv
<1> QED  BY <1>1, <1>2, <1>3, <1>4 DEF TimerDrives

(* The option ends what it can and leaves the channel to the machine.         *)
LEMMA ReloadedMinds ==
  ASSUME NEW m, NEW p, Minds(m, p), NEW enabled \in BOOLEAN
  PROVE  Minds(Reloaded(m, enabled), p) /\ Reloaded(m, enabled).channel = m.channel
<1>1. CASE enabled
  BY <1>1 DEF Reloaded, Minds, Monitor, States
<1>2. CASE ~ enabled /\ m.state = "idle"
  BY <1>2 DEF Reloaded, Minds, Monitor, States
<1>3. CASE ~ enabled /\ m.state # "idle"
  BY <1>3 DEF Reloaded, Minds, Monitor, States
<1> QED  BY <1>1, <1>2, <1>3

LEMMA MonitoringIsSafe ==
  ASSUME MonitorInv, ToggleMonitoring \/ SampleAges \/ ServerMonitors
  PROVE  Kept
<1> USE DEF Kept, MonitorInv
<1>1. CASE ToggleMonitoring
  <2>1. CASE link = "down"
    <3>1. mon' = [mon EXCEPT !.enabled = ~ mon.enabled] /\ program' = program
      BY <1>1, <2>1 DEF ToggleMonitoring
    <3> QED  BY <3>1 DEF Minds, Monitor, States
  <2>2. CASE link # "down"
    <3>1. mon' = Reloaded(mon, ~ mon.enabled) /\ program' = program
      BY <1>1, <2>2 DEF ToggleMonitoring
    <3>2. (~ mon.enabled) \in BOOLEAN  OBVIOUS
    <3> QED  BY <3>1, <3>2, ReloadedMinds DEF Minds
  <2> QED  BY <2>1, <2>2
<1>2. CASE SampleAges
  BY <1>2 DEF SampleAges, Minds, Monitor, States
<1>3. ASSUME mon' = mon, program.runs, program.frames = <<>>, program.asked > 0,
             NEW f \in {"good", "bad", "flood"},
             program' = [program EXCEPT !.asked = @ - 1, !.frames = <<f>>]
      PROVE  Kept
  <2>1. program' \in Program /\ program'.asked = 0 /\ program'.runs /\ program'.ended = program.ended
    <3> DEFINE n == program.asked - 1
               g == <<f>>
    <3>1. program.asked = 1  BY <1>3 DEF Minds, Program
    <3>2. n = 0 /\ n \in 0..2  BY <3>1
    <3>3. g \in {<<>>, <<"good">>, <<"bad">>, <<"flood">>}  BY <1>3
    <3>4. program' = [program EXCEPT !.asked = n, !.frames = g]  BY <1>3
    <3> HIDE DEF n, g
    <3> QED  BY <1>3, <3>2, <3>3, <3>4 DEF Minds, Program
  <2> QED  BY <1>3, <2>1 DEF Minds, Owes
<1>4. ASSUME mon' = mon, program' = [program EXCEPT !.runs = FALSE, !.ended = TRUE] PROVE Kept
  BY <1>4 DEF Minds, Monitor, States, Program, Owes
<1>5. ASSUME mon' = mon, program' = [program EXCEPT !.refuses = TRUE] PROVE Kept
  BY <1>5 DEF Minds, Monitor, States, Program, Owes
<1>6. CASE ServerMonitors
  BY <1>3, <1>4, <1>5, <1>6 DEF ServerMonitors, Answers, Ends, Dies, Refuses
<1> QED  BY <1>1, <1>2, <1>6

LEMMA ConnectionResets ==
  ASSUME MonitorInv, MonitorConnects \/ MonitorDisconnects \/ MonitorCloses
  PROVE  MonitorInv'
<1> USE DEF MonitorInv
<1>2. NoProgram \in Program /\ ~ Owes(NoProgram) /\ ~ NoProgram.runs /\ NoProgram.asked = 0
  BY DEF NoProgram, Program, Owes
<1>3. Closed(mon) \in Monitor /\ Closed(mon).state = "idle"
  BY DEF Closed, Minds, Monitor, States
<1>4. Minds(Closed(mon), NoProgram)
  BY <1>2, <1>3 DEF Minds
<1>5. CASE MonitorDisconnects
  BY <1>4, <1>5 DEF MonitorDisconnects
<1>6. CASE MonitorCloses
  BY <1>6 DEF MonitorCloses, Minds, Monitor, States
<1>7. CASE MonitorConnects
  <2> DEFINE m == [Closed(mon) EXCEPT !.windows = FALSE]
  <2>1. Minds(m, NoProgram)
    <3> DEFINE c == Closed(mon)
    <3> HIDE DEF c
    <3>1. m = [c EXCEPT !.windows = FALSE]  BY DEF c
    <3>2. m \in Monitor /\ m.state = "idle"  BY <1>3, <3>1 DEF Monitor, c
    <3> HIDE DEF m
    <3> QED  BY <1>2, <3>2 DEF Minds
  <2>2. mon.enabled \in BOOLEAN  BY DEF Minds, Monitor
  <2> QED  BY <1>7, <2>1, <2>2, ReloadedMinds DEF MonitorConnects
<1> QED  BY <1>5, <1>6, <1>7

-----------------------------------------------------------------------------
(* The link: only its own three handlers take it up or down.                  *)
Steady ==
  /\ setting' = setting /\ connects' = connects /\ link' = link
  /\ wire' \in BOOLEAN /\ unseen' \in BOOLEAN
  /\ events' = events \/ OneMore

LEMMA SteadyLink == LinkTypeOK /\ Steady => LinkTypeOK'
<1>1. ASSUME LinkTypeOK PROVE setting.events \in Nat
  BY <1>1, SettingsAssumption DEF LinkTypeOK
<1> QED  BY <1>1 DEF LinkTypeOK, Steady, OneMore

LEMMA LinkChanges == LinkTypeOK /\ (Connect \/ Disconnect \/ ShellCloses) => LinkTypeOK' /\ setting' = setting
<1> SUFFICES ASSUME LinkTypeOK, Connect \/ Disconnect \/ ShellCloses PROVE LinkTypeOK' /\ setting' = setting
  OBVIOUS
<1>1. setting.events \in Nat /\ setting.connects \in Nat
  BY SettingsAssumption DEF LinkTypeOK
<1>2. setting' = setting /\ link' \in {"down", "up", "closed"} /\ wire' \in BOOLEAN /\ unseen' \in BOOLEAN
  BY DEF Connect, LinkConnects, Disconnect, LinkDisconnects, ShellCloses, LinkCloses, Same
<1>3. connects' = connects \/ (connects < setting.connects /\ connects' = connects + 1)
  BY DEF Connect, LinkConnects, Disconnect, LinkDisconnects, ShellCloses, LinkCloses, Same
<1>4. events' = events \/ (events < setting.events /\ events' = events + 1)
  BY DEF Connect, LinkConnects, Disconnect, ShellCloses, OneMore
<1> DEFINE c == setting.connects
           e == setting.events
<1>5. c' = c /\ e' = e  BY <1>2
<1>6. connects \in 0..c /\ events \in 0..e  BY DEF LinkTypeOK
<1>7. connects' \in 0..c /\ events' \in 0..e
  <2> HIDE DEF c, e
  <2>1. c \in Nat /\ e \in Nat  BY <1>1 DEF c, e
  <2>2. connects' = connects \/ (connects < c /\ connects' = connects + 1)  BY <1>3 DEF c
  <2>3. events' = events \/ (events < e /\ events' = events + 1)  BY <1>4 DEF e
  <2> QED  BY <1>6, <2>1, <2>2, <2>3
<1> QED  BY <1>2, <1>5, <1>7 DEF LinkTypeOK

LEMMA FollowingIsSteady == LinkTypeOK /\ Following => Steady
<1> SUFFICES ASSUME LinkTypeOK, Following PROVE Steady
  OBVIOUS
<1> USE DEF Steady, LinkTypeOK, linkVars, Same, Absorbs, OneMore
<1>1. CASE Tick  BY <1>1 DEF Tick
<1>2. CASE PollStep  BY <1>2 DEF PollStep, Compares, ReadsStat, SendsCd
<1>3. CASE ThreadCall  BY <1>3 DEF ThreadCall
<1>4. CASE GuiHears  BY <1>4 DEF GuiHears
<1>5. CASE CdExpires \/ Browse \/ Downloads  BY <1>5 DEF CdExpires, Browse, Downloads
<1>6. CASE Types \/ ShellTakes \/ JobEnds  BY <1>6 DEF Types, ShellTakes, JobEnds
<1> QED  BY <1>1, <1>2, <1>3, <1>4, <1>5, <1>6 DEF Following

LEMMA MonitoringIsSteady ==
  LinkTypeOK /\ (Monitoring \/ Printing) => Steady
BY DEF Steady, LinkTypeOK, linkVars, Same, Arrives, OneMore, Monitoring, Printing, ToggleMonitoring, SampleAges,
       ServerMonitors, Answers, Ends, Dies, Refuses, ShellPrints

LEMMA PassIsSteady ==
  LinkTypeOK /\ (SocketActivity \/ OnStatsTimer \/ Drain) => Steady
BY DEF Steady, LinkTypeOK, linkVars, Same, SocketActivity, OnStatsTimer, Drain, Pass, ReadsShell

LEMMA TunnellingIsSteady ==
  LinkTypeOK /\ Tunnelling => Steady
<1> SUFFICES ASSUME LinkTypeOK, Tunnelling PROVE Steady
  OBVIOUS
<1> USE DEF Steady, LinkTypeOK, linkVars, Same, Absorbs, Arrives, OneMore
<1>1. CASE RetryFires \/ ManageTunnels \/ PortChanges
  BY <1>1 DEF RetryFires, ManageTunnels, PortChanges
<1>2. CASE NewConnection
  BY <1>2 DEF NewConnection
<1>3. ASSUME NEW b, ClientSays(b) \/ SocketReadyRead(b) \/ SocketDrains(b) \/ SocketDisconnected(b) \/ ChannelSends(b)
      PROVE  Steady
  BY <1>3 DEF ClientSays, SocketReadyRead, SocketDrains, SocketDisconnected, ChannelSends
<1> QED  BY <1>1, <1>2, <1>3 DEF Tunnelling

LEMMA ShowingIsSteady == LinkTypeOK /\ TabShownAgain => Steady
BY DEF Steady, LinkTypeOK, Same, OneMore, TabShownAgain

LEMMA LinkInductive == LinkTypeOK /\ [Next]_vars => LinkTypeOK' /\ setting' = setting
<1> SUFFICES ASSUME LinkTypeOK, [Next]_vars PROVE LinkTypeOK' /\ setting' = setting
  OBVIOUS
<1>1. CASE UNCHANGED vars
  BY <1>1 DEF vars, linkVars, LinkTypeOK
<1>2. CASE Connect \/ Disconnect \/ ShellCloses
  BY <1>2, LinkChanges
<1>3. CASE \/ Following \/ Monitoring \/ Printing \/ SocketActivity \/ OnStatsTimer \/ Drain
           \/ Tunnelling \/ TabShownAgain
  <2>1. Steady
    BY <1>3, FollowingIsSteady, MonitoringIsSteady, PassIsSteady, TunnellingIsSteady, ShowingIsSteady
  <2> QED  BY <2>1, SteadyLink DEF Steady
<1> QED  BY <1>1, <1>2, <1>3 DEF Next

-----------------------------------------------------------------------------
(* Tunnels.                                                                   *)
LEMMA ListFacts ==
  ASSUME LinkTypeOK, NEW list, list = <<>> \/ list \in ToSet(setting.tunnels)
  PROVE  /\ DOMAIN list = 1..Len(list) /\ Len(list) \in Nat
         /\ DOMAIN list \subseteq Indices
         /\ \A i \in DOMAIN list : list[i] \in Offered
         /\ DistinctTunnels => \A i, j \in DOMAIN list : list[i] = list[j] => i = j
<1>1. CASE list = <<>>
  BY <1>1
<1>2. CASE list \in ToSet(setting.tunnels)
  <2>1. setting \in Settings /\ setting.tunnels \in Seq(Seq(Configs))
    BY TunnelsAssumption DEF LinkTypeOK
  <2>2. list \in Seq(Configs) /\ list \in Lists
    BY <1>2, <2>1 DEF ToSet, Lists
  <2>3. DOMAIN list \subseteq Indices
    BY <2>2 DEF Indices
  <2>4. \A i \in DOMAIN list : list[i] \in Offered
    BY <1>2 DEF Offered, ToSet
  <2>5. DistinctTunnels => \A i, j \in DOMAIN list : list[i] = list[j] => i = j
    BY <2>2 DEF DistinctTunnels, IsInjective
  <2> QED  BY <2>2, <2>3, <2>4, <2>5
<1> QED  BY <1>1, <1>2

LEMMA ConnectKeepsTunnels ==
  ASSUME LinkTypeOK, TunnelsInv, LinkConnects, TunnelsConnect
  PROVE  TunnelsInv'
<1> DEFINE list == IF connects' <= Len(setting.tunnels) THEN setting.tunnels[connects'] ELSE <<>>
           late == {j \in DOMAIN list : list[j] \notin Started(list)}
           fresh == {Chain(list[i], i, connects') : i \in late}
<1>1. setting' = setting /\ connects \in Nat /\ connects' = connects + 1 /\ link' = "up"
  BY SettingsAssumption DEF LinkConnects, LinkTypeOK
<1>2. list = <<>> \/ list \in ToSet(setting.tunnels)
  <2>1. setting.tunnels \in Seq(Seq(Configs))
    BY TunnelsAssumption DEF LinkTypeOK
  <2>2. connects' \in Nat \ {0}  BY <1>1
  <2> QED  BY <2>1, <2>2 DEF ToSet
<1>3. /\ configs' = list /\ tunnels' = Started(list) /\ chains' = chains \cup fresh
      /\ told' = Announced(list, Started(list)) /\ misled' = FALSE
      /\ bridges' = [b \in 1..MaxBridges |-> NoBridge]
  BY DEF TunnelsConnect
<1> HIDE DEF list
<1>4. Offered' = Offered  BY <1>1 DEF Offered
<1>5. Started(list) \subseteq Offered
  BY <1>2, ListFacts DEF Started
<1>6. told' \in [Indices -> BOOLEAN]
  <2>1. told' = [i \in Indices |-> IF i <= Len(list) THEN list[i] \in Started(list) ELSE told[i]]
    BY <1>3 DEF Announced
  <2>2. \A i \in Indices : told[i] \in BOOLEAN /\ (list[i] \in Started(list)) \in BOOLEAN
    BY DEF TunnelsInv
  <2>3. \A i \in Indices : (IF i <= Len(list) THEN list[i] \in Started(list) ELSE told[i]) \in BOOLEAN
    BY <2>2, Zenon
  <2> QED  BY <2>1, <2>3, Zenon
<1>7. ASSUME NEW c \in chains' PROVE Retries(c)'
  <2>1. CASE c \in chains
    <3>1. c \in [config : Offered, index : Indices, attempt : 1..MaxRetries, of : 1..connects]
      BY <2>1 DEF TunnelsInv, Retries
    <3>2. c.of # connects' /\ c.of \in 1..connects'  BY <1>1, <3>1
    <3>3. c \in [config : Offered', index : Indices, attempt : 1..MaxRetries, of : 1..connects']
      BY <3>1, <3>2, <1>4
    <3> QED  BY <3>2, <3>3 DEF Retries
  <2>2. CASE c \notin chains
    <3>1. PICK i \in late : c = Chain(list[i], i, connects')  BY <1>3, <1>7, <2>2
    <3>2. i \in DOMAIN list /\ i \in Indices /\ list[i] \in Offered
      BY <3>1, <1>2, ListFacts
    <3>3. 1 \in 1..MaxRetries /\ connects' \in 1..connects'
      BY <1>1, TunnelsAssumption
    <3> DEFINE n == connects'
               x == list[i]
    <3>4. c = [config |-> x, index |-> i, attempt |-> 1, of |-> n]  BY <3>1 DEF Chain
    <3>5. x \in Offered' /\ n \in 1..n /\ x = configs'[i] /\ i \in DOMAIN configs'
      BY <1>3, <1>4, <3>2, <3>3
    <3>6. c \in [config : Offered', index : Indices, attempt : 1..MaxRetries, of : 1..n] /\ c.config = x /\ c.index = i
      <4> HIDE DEF n, x
      <4> QED  BY <3>2, <3>3, <3>4, <3>5
    <3> QED  BY <3>5, <3>6 DEF Retries
  <2> QED  BY <2>1, <2>2
<1>8. AsAnnounced'
  <2> SUFFICES ASSUME NEW i \in DOMAIN list PROVE told'[i] = (list[i] \in Started(list))
    BY <1>3 DEF AsAnnounced
  <2>1. i \in Indices /\ i <= Len(list)  BY <1>2, ListFacts
  <2> QED  BY <1>3, <2>1 DEF Announced
<1>9. DOMAIN bridges' = 1..MaxBridges /\ \A b \in 1..MaxBridges : bridges'[b] = NoBridge
  BY <1>3
<1> QED  BY <1>1, <1>2, <1>3, <1>4, <1>5, <1>6, <1>7, <1>8, <1>9 DEF TunnelsInv

(* The session ends: the list goes, or the dialog is not asked.               *)
LEMMA EndKeepsTunnels ==
  ASSUME TunnelsInv, (LinkDisconnects /\ TunnelsDisconnect) \/ (LinkCloses /\ UNCHANGED tunnelVars)
  PROVE  TunnelsInv'
<1>1. setting' = setting /\ connects' = connects
  BY DEF LinkDisconnects, LinkCloses, Same
<1>2. Offered' = Offered  BY <1>1 DEF Offered
<1>3. CASE LinkDisconnects /\ TunnelsDisconnect
  BY <1>1, <1>2, <1>3 DEF LinkDisconnects, TunnelsDisconnect, Sayings, TunnelsInv, AsAnnounced, Retries, Up
<1>4. CASE LinkCloses /\ UNCHANGED tunnelVars
  BY <1>1, <1>2, <1>4 DEF LinkCloses, tunnelVars, TunnelsInv, AsAnnounced, Retries, Up
<1> QED  BY <1>3, <1>4

(* While the session stays as it is, what changes only bridges keeps the rest.*)
LEMMA BridgesKeepTunnels ==
  ASSUME TunnelsInv, Steady, Rest, DOMAIN bridges' = 1..MaxBridges,
         \A b \in 1..MaxBridges : bridges'[b] = NoBridge \/ \E t \in tunnels : Carries(bridges'[b], t)
  PROVE  TunnelsInv'
<1>1. Offered' = Offered /\ connects' = connects /\ link' = link /\ setting' = setting
  BY DEF Offered, Steady
<1>2. /\ configs' = configs /\ tunnels' = tunnels /\ chains' = chains /\ told' = told /\ misled' = misled
  BY DEF Rest, Sayings
<1>3. \A c \in chains' : Retries(c)'
  BY <1>1, <1>2 DEF TunnelsInv, Retries
<1>4. AsAnnounced'
  BY <1>1, <1>2 DEF TunnelsInv, AsAnnounced, Up
<1> QED  BY <1>1, <1>2, <1>3, <1>4 DEF TunnelsInv

LEMMA NothingKeepsTunnels == TunnelsInv /\ Steady /\ UNCHANGED tunnelVars => TunnelsInv'
BY BridgesKeepTunnels DEF tunnelVars, Rest, Sayings, TunnelsInv

(* What is announced after a start or a retry is so.                          *)
LEMMA RetryKeepsTunnels ==
  ASSUME LinkTypeOK, TunnelsInv, DistinctTunnels, NEW c \in chains, Retry(c), UNCHANGED linkVars
  PROVE  TunnelsInv'
<1> DEFINE ok == Starts(c.config, tunnels)
           next == [c EXCEPT !.attempt = @ + 1]
<1>1. setting' = setting /\ connects' = connects /\ link' = link /\ Offered' = Offered /\ configs' = configs
      /\ bridges' = bridges
  BY DEF linkVars, Offered, Retry
<1>2. Retries(c)  BY DEF TunnelsInv
<1>3. c \in [config : Offered, index : Indices, attempt : 1..MaxRetries, of : 1..connects]
  BY <1>2 DEF Retries
<1>4. \A d \in chains' : d \in chains \/ (d = next /\ c.attempt < MaxRetries)
  BY Zenon DEF Retry
<1>5. c.attempt < MaxRetries => Retries(next)
  <2>1. ASSUME c.attempt < MaxRetries PROVE next.attempt \in 1..MaxRetries
    BY <1>3, <2>1, TunnelsAssumption
  <2> QED  BY <1>2, <1>3, <2>1 DEF Retries
<1>6. \A d \in chains' : Retries(d)'
  <2>1. \A d \in chains' : Retries(d)
    <3> HIDE DEF next
    <3> QED  BY <1>4, <1>5 DEF TunnelsInv
  <2> QED  BY <1>1, <2>1 DEF Retries
<1>7. CASE ~ Up
  <2>1. tunnels' = tunnels /\ told' = told /\ misled' = misled  BY <1>7 DEF Retry, Sayings
  <2> QED  BY <1>1, <1>6, <1>7, <2>1 DEF TunnelsInv, AsAnnounced, Up
<1>8. CASE Up
  <2>1. /\ tunnels' = IF ok THEN tunnels \cup {c.config} ELSE tunnels
        /\ told' = [told EXCEPT ![c.index] = ok]
        /\ misled' = (misled \/ c.of # connects \/ (~ ok /\ c.config \in tunnels))
    BY <1>8 DEF Retry, Announce
  <2>2. ok \in BOOLEAN  BY DEF Starts
  <2> HIDE DEF ok
  <2>3. tunnels \subseteq tunnels' /\ tunnels' \subseteq Offered
    BY <1>3, <2>1 DEF TunnelsInv
  <2>4. told' \in [Indices -> BOOLEAN]
    BY <2>1, <2>2 DEF TunnelsInv
  <2>5. ASSUME ~ misled', NEW i \in DOMAIN configs PROVE told'[i] = (configs[i] \in tunnels')
    <3>1. ~ misled /\ c.of = connects /\ (ok \/ c.config \notin tunnels)
      BY <2>1, <2>5
    <3>2. c.index \in DOMAIN configs /\ configs[c.index] = c.config
      BY <1>2, <1>8, <3>1 DEF Retries, Up
    <3>3. configs = <<>> \/ configs \in ToSet(setting.tunnels)  BY DEF TunnelsInv
    <3>4. i \in Indices /\ (configs[i] = c.config => i = c.index)
      BY <3>2, <3>3, ListFacts
    <3>5. told[i] = (configs[i] \in tunnels)  BY <1>8, <3>1 DEF TunnelsInv, AsAnnounced
    <3>6. told \in [Indices -> BOOLEAN]  BY DEF TunnelsInv
    <3>7. CASE i = c.index
      <4>1. told'[i] = ok  BY <2>1, <3>4, <3>6, <3>7
      <4> QED  BY <2>1, <2>2, <3>1, <3>2, <3>7, <4>1
    <3>8. CASE i # c.index
      <4>1. told'[i] = told[i]  BY <2>1, <3>4, <3>6, <3>8
      <4> QED  BY <2>1, <3>4, <3>5, <3>8, <4>1
    <3> QED  BY <3>7, <3>8
  <2> QED  BY <1>1, <1>6, <2>3, <2>4, <2>5 DEF TunnelsInv, AsAnnounced
<1> QED  BY <1>7, <1>8

LEMMA ManagingKeepsTunnels ==
  ASSUME LinkTypeOK, TunnelsInv, DistinctTunnels, ManageTunnels
  PROVE  TunnelsInv'
<1>1. setting' = setting /\ connects' = connects /\ link' = link /\ Offered' = Offered
  BY DEF ManageTunnels, Same, Offered
<1>2. PICK i \in DOMAIN configs : StartTunnel(i) \/ StopTunnel(i)
  BY DEF ManageTunnels
<1>3. /\ configs' = configs /\ chains' = chains /\ misled' = misled
  BY <1>2 DEF StartTunnel, StopTunnel
<1>4. configs = <<>> \/ configs \in ToSet(setting.tunnels)  BY DEF TunnelsInv
<1>5. /\ i \in Indices /\ configs[i] \in Offered
      /\ \A j \in DOMAIN configs : j \in Indices /\ (configs[j] = configs[i] => j = i)
  BY <1>4, ListFacts
<1>6. \A c \in chains' : Retries(c)'
  BY <1>1, <1>3 DEF TunnelsInv, Retries
<1>7. told \in [Indices -> BOOLEAN]  BY DEF TunnelsInv
<1>8. ASSUME NEW ok \in BOOLEAN, told' = [told EXCEPT ![i] = ok],
             \A j \in DOMAIN configs : configs[j] \in tunnels' <=> IF j = i THEN ok ELSE configs[j] \in tunnels
      PROVE  told' \in [Indices -> BOOLEAN] /\ AsAnnounced'
  <2>1. told' \in [Indices -> BOOLEAN]  BY <1>7, <1>8
  <2>2. ASSUME Up, ~ misled, NEW j \in DOMAIN configs PROVE told'[j] = (configs[j] \in tunnels')
    <3>1. told[j] = (configs[j] \in tunnels)  BY <2>2 DEF TunnelsInv, AsAnnounced
    <3>2. told'[j] = IF j = i THEN ok ELSE told[j]  BY <1>5, <1>7, <1>8
    <3>3. (configs[j] \in tunnels') = IF j = i THEN ok ELSE configs[j] \in tunnels  BY <1>8
    <3> QED  BY <3>1, <3>2, <3>3
  <2> QED  BY <1>1, <1>3, <2>1, <2>2 DEF AsAnnounced, Up
<1>9. CASE StartTunnel(i)
  <2> DEFINE ok == Starts(configs[i], tunnels)
  <2>1. /\ configs[i] \notin tunnels
        /\ tunnels' = IF ok THEN tunnels \cup {configs[i]} ELSE tunnels
        /\ told' = [told EXCEPT ![i] = ok]
        /\ bridges' = bridges
    BY <1>9 DEF StartTunnel, Announce
  <2>2. ok \in BOOLEAN  BY DEF Starts
  <2> HIDE DEF ok
  <2>3. told' \in [Indices -> BOOLEAN] /\ AsAnnounced'
    BY <1>5, <1>8, <2>1, <2>2
  <2>4. tunnels \subseteq tunnels' /\ tunnels' \subseteq Offered  BY <1>5, <2>1 DEF TunnelsInv
  <2> QED  BY <1>1, <1>3, <1>6, <2>1, <2>3, <2>4 DEF TunnelsInv
<1>10. CASE StopTunnel(i)
  <2>1. /\ tunnels' = tunnels \ {configs[i]}
        /\ told' = [told EXCEPT ![i] = FALSE]
        /\ bridges' = Without(configs[i])
    BY <1>10 DEF StopTunnel, Announce
  <2>2. told' \in [Indices -> BOOLEAN] /\ AsAnnounced'
    BY <1>5, <1>8, <2>1
  <2>3. DOMAIN bridges' = 1..MaxBridges  BY <2>1 DEF Without
  <2>4. ASSUME NEW b \in 1..MaxBridges PROVE bridges'[b] = NoBridge \/ \E t \in tunnels' : Carries(bridges'[b], t)
    BY <2>1 DEF Without, TunnelsInv, Carries, Open
  <2>5. tunnels' \subseteq Offered  BY <2>1 DEF TunnelsInv
  <2> QED  BY <1>1, <1>3, <1>6, <2>2, <2>3, <2>4, <2>5 DEF TunnelsInv
<1> QED  BY <1>2, <1>9, <1>10

LEMMA PortsKeepTunnels ==
  ASSUME LinkTypeOK, TunnelsInv, PortChanges
  PROVE  TunnelsInv'
<1>1. setting' = setting /\ connects' = connects /\ link' = link /\ Offered' = Offered
  BY DEF PortChanges, Same, Offered
<1>2. \A c \in chains' : Retries(c)'
  BY <1>1 DEF PortChanges, TunnelsInv, Retries
<1> QED  BY <1>1, <1>2 DEF PortChanges, Sayings, TunnelsInv, AsAnnounced, Up

(* A step of a bridge keeps the tunnel it belongs to, or ends it.             *)
Stays(w, v) == w = NoBridge \/ \A t : Carries(v, t) => Carries(w, t)

LEMMA FreshCarries ==
  ASSUME NEW t, NEW step, NEW script
  PROVE  Carries(Bridge(t, step, script), t)
BY DEF Carries, Bridge, BridgeFields

LEMMA HandshakeStays ==
  ASSUME NEW v, NEW w \in Handshake(v)
  PROVE  Stays(w, v)
<1>1. ASSUME NEW x, NEW y \in AtStep("greeting", Greeted, x) PROVE Stays(y, x)
  BY <1>1 DEF AtStep, Greeted, Stays, Carries, BridgeFields
<1>2. ASSUME NEW x, NEW y \in AtStep("auth", Authenticated, x) PROVE Stays(y, x)
  BY <1>2 DEF AtStep, Authenticated, Stays, Carries, BridgeFields
<1>3. ASSUME NEW x, NEW y \in AtStep("request", Requested, x) PROVE Stays(y, x)
  BY <1>3 DEF AtStep, Requested, Stays, Carries, BridgeFields
<1>4. PICK u \in AtStep("greeting", Greeted, v) : \E x \in AtStep("auth", Authenticated, u) : w \in AtStep("request", Requested, x)
  BY DEF Handshake
<1>5. PICK x \in AtStep("auth", Authenticated, u) : w \in AtStep("request", Requested, x)
  BY <1>4
<1>6. u = NoBridge => x = NoBridge
  BY <1>5 DEF AtStep, NoBridge
<1>7. x = NoBridge => w = NoBridge
  BY <1>5 DEF AtStep, NoBridge
<1>8. Stays(u, v) /\ Stays(x, u) /\ Stays(w, x)
  BY <1>1, <1>2, <1>3, <1>4, <1>5
<1> QED  BY <1>6, <1>7, <1>8 DEF Stays

Bridged == DOMAIN bridges' = 1..MaxBridges
           /\ \A b \in 1..MaxBridges : bridges'[b] = NoBridge \/ \E t \in tunnels : Carries(bridges'[b], t)

LEMMA OneBridgeStays ==
  ASSUME TunnelsInv, NEW b \in 1..MaxBridges, NEW w, Bridges(b, w), Open(b), Stays(w, bridges[b])
  PROVE  Bridged
<1>1. bridges' = [bridges EXCEPT ![b] = w] /\ DOMAIN bridges = 1..MaxBridges
  BY DEF Bridges, TunnelsInv
<1>2. bridges[b] # NoBridge  BY DEF Open, NoBridge
<1>3. PICK t \in tunnels : Carries(bridges[b], t)  BY <1>2 DEF TunnelsInv
<1>4. w = NoBridge \/ Carries(w, t)  BY <1>3 DEF Stays
<1> QED  BY <1>1, <1>3, <1>4 DEF Bridged, TunnelsInv

LEMMA NewBridgeStays ==
  ASSUME TunnelsInv, NEW b, NEW t \in tunnels, NEW step, NEW script, Bridges(b, Bridge(t, step, script))
  PROVE  Bridged
<1> DEFINE w == Bridge(t, step, script)
<1>1. Carries(w, t)  BY FreshCarries
<1>2. bridges' = [bridges EXCEPT ![b] = w] /\ DOMAIN bridges = 1..MaxBridges
  BY DEF Bridges, TunnelsInv
<1> HIDE DEF w
<1> QED  BY <1>1, <1>2 DEF Bridged, TunnelsInv

LEMMA BridgeStepsKeepTunnels ==
  ASSUME TunnelsInv, Steady, NEW b \in 1..MaxBridges,
         \/ ClientSays(b) \/ SocketReadyRead(b) \/ SocketDrains(b) \/ SocketDisconnected(b) \/ ChannelSends(b)
  PROVE  TunnelsInv'
<1> USE DEF Stays, Carries, BridgeFields
<1>1. CASE ClientSays(b)
  <2> DEFINE w == [bridges[b] EXCEPT !.script = Tail(@), !.inbox = Append(@, Head(bridges[b].script)), !.ready = TRUE]
  <2>1. Open(b) /\ Bridges(b, w) /\ Rest  BY <1>1 DEF ClientSays
  <2>2. Stays(w, bridges[b])  OBVIOUS
  <2> QED  BY <2>1, <2>2, OneBridgeStays, BridgesKeepTunnels DEF Bridged
<1>2. CASE SocketReadyRead(b)
  <2> DEFINE v == [bridges[b] EXCEPT !.ready = FALSE]
             u == [v EXCEPT !.inbox = <<>>]
  <2>1. Open(b) /\ Rest /\ IF v.step = "open" THEN Bridges(b, u) ELSE \E w \in Handshake(v) : Bridges(b, w)
    BY <1>2 DEF SocketReadyRead
  <2>2. v # NoBridge /\ Stays(v, bridges[b]) /\ Stays(u, bridges[b])
    BY <2>1 DEF Open, NoBridge
  <2>3. CASE v.step = "open"
    BY <2>1, <2>2, <2>3, OneBridgeStays, BridgesKeepTunnels DEF Bridged
  <2>4. CASE v.step # "open"
    <3>1. PICK w \in Handshake(v) : Bridges(b, w)  BY <2>1, <2>4
    <3>2. Stays(w, v)
      <4> HIDE DEF v, Stays, Carries
      <4> QED  BY HandshakeStays
    <3>3. Stays(w, bridges[b])
      <4> HIDE DEF v
      <4> QED  BY <2>2, <3>2 DEF Stays
    <3> QED  BY <2>1, <3>1, <3>3, OneBridgeStays, BridgesKeepTunnels DEF Bridged
  <2> QED  BY <2>3, <2>4
<1>3. CASE SocketDrains(b)
  <2> DEFINE w == [bridges[b] EXCEPT !.out = FALSE]
  <2>1. Open(b) /\ Bridges(b, w) /\ Rest  BY <1>3 DEF SocketDrains
  <2>2. Stays(w, bridges[b])  OBVIOUS
  <2> QED  BY <2>1, <2>2, OneBridgeStays, BridgesKeepTunnels DEF Bridged
<1>4. CASE SocketDisconnected(b)
  <2>1. Open(b) /\ Bridges(b, NoBridge) /\ Rest  BY <1>4 DEF SocketDisconnected
  <2> QED  BY <2>1, OneBridgeStays, BridgesKeepTunnels DEF Bridged
<1>5. CASE ChannelSends(b)
  <2>1. Open(b) /\ Rest  BY <1>5 DEF ChannelSends
  <2>2. PICK w \in {[bridges[b] EXCEPT !.unread = TRUE], [bridges[b] EXCEPT !.ended = TRUE],
                    [bridges[b] EXCEPT !.unread = TRUE, !.ended = TRUE]} : Bridges(b, w)
    BY <1>5 DEF ChannelSends
  <2>3. Stays(w, bridges[b])  OBVIOUS
  <2> QED  BY <2>1, <2>2, <2>3, OneBridgeStays, BridgesKeepTunnels DEF Bridged
<1> QED  BY <1>1, <1>2, <1>3, <1>4, <1>5

LEMMA NewConnectionKeepsTunnels ==
  ASSUME TunnelsInv, Steady, NewConnection
  PROVE  TunnelsInv'
<1>1. PICK t \in tunnels :
         \/ Bridges(Lowest, Bridge(t, "open", <<"data">>))
         \/ UNCHANGED bridges
         \/ \E s \in Scripts : Bridges(Lowest, Bridge(t, "greeting", s))
  BY Zenon DEF NewConnection
<1>2. Bridged
  <2>1. CASE UNCHANGED bridges
    BY <2>1 DEF Bridged, TunnelsInv
  <2> QED  BY <1>1, <2>1, NewBridgeStays
<1>3. Rest  BY DEF NewConnection
<1> QED  BY <1>2, <1>3, BridgesKeepTunnels DEF Bridged

(* poll, over all bridges and with what the server offers.                    *)
LEMMA PollKeepsTunnels ==
  ASSUME TunnelsInv, Steady, PollTunnels
  PROVE  TunnelsInv'
<1>1. PICK bs \in Accepted(wire) : bridges' = [b \in 1..MaxBridges |-> PollBridge(bs[b])]
  BY DEF PollTunnels
<1>2. \A b \in 1..MaxBridges : bs[b] = NoBridge \/ \E t \in tunnels : Carries(bs[b], t)
  <2>1. CASE bs = bridges
    BY <2>1 DEF TunnelsInv
  <2>2. CASE bs # bridges
    <3> DEFINE t == CHOOSE t \in tunnels : t.kind = "remote"
               w == Bridge(t, "open", <<"data">>)
    <3>1. bs = [bridges EXCEPT ![Lowest] = w] /\ \E x \in tunnels : x.kind = "remote"
      BY <1>1, <2>2, Zenon DEF Accepted
    <3>2. t \in tunnels  BY <3>1
    <3>3. Carries(w, t)  BY FreshCarries
    <3> HIDE DEF t, w
    <3> QED  BY <3>1, <3>2, <3>3 DEF TunnelsInv
  <2> QED  BY <2>1, <2>2
<1>3. ASSUME NEW v PROVE Stays(PollBridge(v), v)
  BY DEF PollBridge, Stays, Carries, BridgeFields
<1>4. PollBridge(NoBridge) = NoBridge
  BY DEF PollBridge, NoBridge
<1>5. Bridged
  BY <1>1, <1>2, <1>3, <1>4 DEF Bridged, Stays
<1>6. Rest  BY DEF PollTunnels
<1> QED  BY <1>5, <1>6, BridgesKeepTunnels DEF Bridged

-----------------------------------------------------------------------------
Releases == Up /\ link' = "up" /\ connects' = connects /\ program.runs => mon'.channel

LEMMA MonitorInductive ==
  LinkTypeOK /\ MonitorInv /\ [Next]_vars => MonitorInv' /\ Releases
<1> SUFFICES ASSUME LinkTypeOK, MonitorInv, [Next]_vars PROVE MonitorInv' /\ Releases
  OBVIOUS
<1>1. Kept => MonitorInv' /\ Releases
  BY DEF Kept, Releases
<1>2. ASSUME UNCHANGED monVars PROVE Kept
  BY <1>2 DEF monVars, Kept, MonitorInv, Minds
<1>3. CASE UNCHANGED vars \/ Following \/ Tunnelling \/ TabShownAgain \/ Printing
  BY <1>1, <1>2, <1>3 DEF vars, Following, Tunnelling, TabShownAgain, Printing
<1>4. CASE Connect
  <2>1. MonitorInv'  BY <1>4, ConnectionResets DEF Connect
  <2>2. connects \in Nat /\ connects' = connects + 1
    BY <1>4, SettingsAssumption DEF Connect, LinkConnects, LinkTypeOK
  <2> QED  BY <2>1, <2>2 DEF Releases
<1>5. CASE Disconnect
  BY <1>5, ConnectionResets DEF Disconnect, LinkDisconnects, Releases
<1>6. CASE ShellCloses
  BY <1>6, ConnectionResets DEF ShellCloses, LinkCloses, Releases
<1>7. CASE SocketActivity
  BY <1>1, <1>7, PolledIsSafe DEF SocketActivity, MonitorInv
<1>8. CASE OnStatsTimer
  BY <1>1, <1>8, TimerIsSafe DEF OnStatsTimer
<1>9. CASE Drain
  BY <1>1, <1>2, <1>9, PolledIsSafe DEF Drain, MonitorInv, monVars
<1>10. CASE Monitoring
  BY <1>1, <1>10, MonitoringIsSafe DEF Monitoring
<1> QED  BY <1>3, <1>4, <1>5, <1>6, <1>7, <1>8, <1>9, <1>10 DEF Next

LEMMA TunnelsInductive ==
  DistinctTunnels /\ LinkTypeOK /\ TunnelsInv /\ [Next]_vars => TunnelsInv'
<1> SUFFICES ASSUME DistinctTunnels, LinkTypeOK, TunnelsInv, [Next]_vars PROVE TunnelsInv'
  OBVIOUS
<1>1. CASE UNCHANGED vars
  <2>1. Steady /\ UNCHANGED tunnelVars  BY <1>1 DEF vars, linkVars, Steady, LinkTypeOK
  <2> QED  BY <2>1, NothingKeepsTunnels
<1>2. CASE Following \/ Monitoring \/ Printing
  <2>1. Steady  BY <1>2, FollowingIsSteady, MonitoringIsSteady
  <2>2. UNCHANGED tunnelVars  BY <1>2 DEF Following, Monitoring, Printing
  <2> QED  BY <2>1, <2>2, NothingKeepsTunnels
<1>3. CASE Connect
  BY <1>3, ConnectKeepsTunnels DEF Connect
<1>4. CASE Disconnect \/ ShellCloses
  BY <1>4, EndKeepsTunnels DEF Disconnect, ShellCloses
<1>5. CASE SocketActivity \/ OnStatsTimer \/ Drain
  <2>1. Steady  BY <1>5, PassIsSteady
  <2>2. PollTunnels \/ UNCHANGED tunnelVars
    BY <1>5 DEF SocketActivity, OnStatsTimer, Drain, Pass
  <2> QED  BY <2>1, <2>2, NothingKeepsTunnels, PollKeepsTunnels
<1>6. CASE Tunnelling
  <2>1. Steady  BY <1>6, TunnellingIsSteady
  <2>2. CASE RetryFires
    <3>1. PICK c \in chains : Retry(c) /\ UNCHANGED linkVars  BY <2>2 DEF RetryFires
    <3> QED  BY <3>1, RetryKeepsTunnels
  <2>3. CASE ManageTunnels
    BY <2>3, ManagingKeepsTunnels
  <2>4. CASE PortChanges
    BY <2>4, PortsKeepTunnels
  <2>5. CASE NewConnection
    BY <2>1, <2>5, NewConnectionKeepsTunnels
  <2>6. CASE \E b \in 1..MaxBridges : \/ ClientSays(b) \/ SocketReadyRead(b) \/ SocketDrains(b)
                                      \/ SocketDisconnected(b) \/ ChannelSends(b)
    BY <2>1, <2>6, BridgeStepsKeepTunnels
  <2> QED  BY <1>6, <2>2, <2>3, <2>4, <2>5, <2>6 DEF Tunnelling
<1>7. CASE TabShownAgain
  <2>1. Steady  BY <1>7, ShowingIsSteady
  <2>2. UNCHANGED <<configs, tunnels, chains, told, misled, taken, bridges>>
    BY <1>7 DEF TabShownAgain, TunnelsShownAgain
  <2>3. Offered' = Offered /\ connects' = connects /\ link' = link /\ setting' = setting
    BY <2>1 DEF Offered, Steady
  <2>4. \A c \in chains' : Retries(c)'  BY <2>2, <2>3 DEF TunnelsInv, Retries
  <2> QED  BY <2>2, <2>3, <2>4 DEF TunnelsInv, AsAnnounced, Up
<1> QED  BY <1>1, <1>2, <1>3, <1>4, <1>5, <1>6, <1>7 DEF Next

LEMMA AnnounceKeepsShown ==
  ASSUME told \in [Indices -> BOOLEAN], ShownInv, NEW i \in Indices, NEW active \in BOOLEAN, Announce(i, active)
  PROVE  ShownInv'
BY DEF Announce, ShownInv

LEMMA ShownInductive ==
  LinkTypeOK /\ TunnelsInv /\ ShownInv /\ [Next]_vars => ShownInv'
<1> SUFFICES ASSUME LinkTypeOK, TunnelsInv, ShownInv, [Next]_vars PROVE ShownInv'
  OBVIOUS
<1>1. ASSUME UNCHANGED <<told, shown>> PROVE ShownInv'
  BY <1>1 DEF ShownInv
<1>2. told \in [Indices -> BOOLEAN]  BY DEF TunnelsInv
<1>3. ASSUME NEW i \in Indices, NEW active, active \in BOOLEAN, Announce(i, active) PROVE ShownInv'
  BY <1>2, <1>3, AnnounceKeepsShown
<1>4. CASE UNCHANGED vars \/ Following \/ Monitoring \/ Printing \/ ShellCloses \/ Disconnect
  BY <1>1, <1>4 DEF vars, tunnelVars, Following, Monitoring, Printing, ShellCloses, Disconnect,
                    TunnelsDisconnect, Sayings
<1>5. CASE SocketActivity \/ OnStatsTimer \/ Drain
  BY <1>1, <1>5 DEF SocketActivity, OnStatsTimer, Drain, Pass, PollTunnels, Rest, Sayings, tunnelVars
<1>6. CASE Connect
  <2> DEFINE list == IF connects' <= Len(setting.tunnels) THEN setting.tunnels[connects'] ELSE <<>>
             starts(i) == list[i] \in Started(list)
             stands(i) == i <= Len(list) /\ starts(i)
  <2>1. /\ told' = [i \in Indices |-> IF i <= Len(list) THEN starts(i) ELSE told[i]]
        /\ shown' = [i \in Indices |-> stands(i)]
    BY <1>6 DEF Connect, TunnelsConnect, Announced
  <2>2. \A i \in Indices : stands(i) \in BOOLEAN  OBVIOUS
  <2>3. ASSUME NEW i \in Indices, shown'[i] PROVE told'[i]
    <3>1. stands(i)  BY <2>1, <2>3
    <3> QED  BY <2>1, <3>1
  <2> HIDE DEF stands
  <2>4. shown' \in [Indices -> BOOLEAN]  BY <2>1, <2>2
  <2> QED  BY <2>3, <2>4 DEF ShownInv
<1>7. CASE TabShownAgain
  BY <1>2, <1>7 DEF TabShownAgain, TunnelsShownAgain, ShownInv
<1>8. CASE RetryFires
  <2>1. PICK c \in chains : Retry(c)  BY <1>8 DEF RetryFires
  <2>2. c.index \in Indices  BY DEF TunnelsInv, Retries
  <2>3. Starts(c.config, tunnels) \in BOOLEAN  BY DEF Starts
  <2>4. UNCHANGED <<told, shown>> \/ Announce(c.index, Starts(c.config, tunnels))
    BY <2>1 DEF Retry, Sayings
  <2> QED  BY <1>1, <1>3, <2>2, <2>3, <2>4
<1>9. CASE ManageTunnels
  <2>1. PICK i \in DOMAIN configs : StartTunnel(i) \/ StopTunnel(i)  BY <1>9 DEF ManageTunnels
  <2>2. i \in Indices
    <3>1. configs = <<>> \/ configs \in ToSet(setting.tunnels)  BY DEF TunnelsInv
    <3> QED  BY <3>1, ListFacts
  <2>3. Starts(configs[i], tunnels) \in BOOLEAN  BY DEF Starts
  <2>4. Announce(i, Starts(configs[i], tunnels)) \/ Announce(i, FALSE)
    BY <2>1 DEF StartTunnel, StopTunnel
  <2> QED  BY <1>3, <2>2, <2>3, <2>4
<1>10. CASE Tunnelling
  <2>1. CASE PortChanges
    BY <1>1, <2>1 DEF PortChanges, Sayings
  <2>2. CASE NewConnection
    BY <1>1, <2>2 DEF NewConnection, Rest, Sayings
  <2>3. ASSUME NEW b, \/ ClientSays(b) \/ SocketReadyRead(b) \/ SocketDrains(b)
                      \/ SocketDisconnected(b) \/ ChannelSends(b)
        PROVE  ShownInv'
    BY <1>1, <2>3 DEF ClientSays, SocketReadyRead, SocketDrains, SocketDisconnected, ChannelSends, Rest, Sayings
  <2> QED  BY <1>8, <1>9, <1>10, <2>1, <2>2, <2>3 DEF Tunnelling
<1> QED  BY <1>4, <1>5, <1>6, <1>7, <1>10 DEF Next

-----------------------------------------------------------------------------
(* Following: the types.                                                      *)
FollowOK == FollowTypes /\ PollInv
Polls == [what : {"none", "seen", "stat", "send", "drain"}, dir : Somewhere]
Views == [tab : Somewhere, browser : Dirs, busy : BOOLEAN]
Shells == [at : Dirs, job : BOOLEAN, typed : Seq(Lines)]

LEMMA CallFacts ==
  ASSUME NEW what, NEW d
  PROVE  /\ Call(what, d).what = what /\ Call(what, d).dir = d
         /\ what \in {"none", "seen", "stat", "send", "drain"} /\ d \in Somewhere => Call(what, d) \in Polls
         /\ what \in {"moved", "listed"} /\ d \in Dirs => Call(what, d) \in Events
         /\ what \in {"list", "navigate"} /\ d \in Dirs => Call(what, d) \in Orders
BY DEF Call, Polls, Events, Orders, Somewhere

LEMMA StartsPollTypes ==
  ASSUME NEW f \in FollowFields, shell \in Shells, poll \in Polls, ThreadFree, StartsPoll(f)
  PROVE  follow' \in FollowFields /\ poll' \in Polls /\ PollInv'
<1>1. CASE link # "up" \/ ~ setting.following
  BY <1>1 DEF StartsPoll, ThreadFree, PollInv
<1>2. CASE ~ (link # "up" \/ ~ setting.following) /\ ~ f.pid /\ ~ setting.proc
  <2> DEFINE more == IF f.attempts < MaxAttempts THEN f.attempts + 1 ELSE f.attempts
             ticks == f.ticking /\ f.attempts + 1 < MaxAttempts
  <2>1. follow' = [f EXCEPT !.attempts = more, !.ticking = ticks] /\ poll' = Call("drain", NoDir)
    BY <1>2 DEF StartsPoll
  <2>2. more \in 0..MaxAttempts  BY DirsAssumption DEF FollowFields
  <2>3. ticks \in BOOLEAN  OBVIOUS
  <2> HIDE DEF more, ticks
  <2>4. follow' \in FollowFields  BY <2>1, <2>2, <2>3 DEF FollowFields
  <2>5. poll' \in Polls /\ poll'.what = "drain"  BY <2>1, CallFacts DEF Somewhere
  <2> QED  BY <2>4, <2>5 DEF PollInv
<1>3. CASE ~ (link # "up" \/ ~ setting.following) /\ ~ (~ f.pid /\ ~ setting.proc)
  <2>1. follow' = [f EXCEPT !.pid = TRUE] /\ poll' = Call("seen", shell.at)
    BY <1>3 DEF StartsPoll
  <2>2. follow' \in FollowFields  BY <2>1 DEF FollowFields
  <2>3. shell.at \in Dirs  BY DEF Shells
  <2>4. poll' \in Polls /\ poll'.what = "seen" /\ poll'.dir \in Dirs  BY <2>1, <2>3, CallFacts DEF Somewhere
  <2> QED  BY <2>2, <2>4 DEF PollInv
<1> QED  BY <1>1, <1>2, <1>3

LEMMA PostTypes ==
  ASSUME toGui \in Seq(Events), Len(toGui) <= MaxPosted, NEW e \in Events, Post(e)
  PROVE  toGui' \in Seq(Events) /\ Len(toGui') <= MaxPosted
BY DirsAssumption DEF Post

LEMMA UnfollowedTypes ==
  Unfollowed \in FollowFields /\ \A b \in BOOLEAN : [Unfollowed EXCEPT !.ticking = b] \in FollowFields
<1>1. 0 \in 0..MaxAttempts /\ NoDir \in Somewhere  BY DirsAssumption DEF Somewhere
<1>2. Unfollowed \in FollowFields
  <2> HIDE DEF NoDir
  <2> QED  BY <1>1 DEF Unfollowed, FollowFields
<1> QED  BY <1>2 DEF FollowFields

LEMMA ConnectTypes == FollowOK /\ FollowConnects => FollowOK'
<1> SUFFICES ASSUME FollowOK, FollowConnects PROVE FollowOK'
  OBVIOUS
<1> USE DEF FollowOK, FollowTypes
<1>1. shell' \in Shells
  BY DirsAssumption DEF FollowConnects, Shells
<1>2. follow' \in FollowFields
  BY UnfollowedTypes DEF FollowConnects
<1>3. toGui' \in Seq(Events) /\ Len(toGui') <= MaxPosted
  <2>1. Call("connected", NoDir) \in Events  BY DEF Events
  <2> QED  BY <2>1, PostTypes DEF FollowConnects
<1>4. poll' = poll /\ view' = view /\ toThread' = toThread /\ PollInv'
  BY DEF FollowConnects, Gui, ThreadFree, PollInv
<1> QED  BY <1>1, <1>2, <1>3, <1>4 DEF Shells

LEMMA EndTypes == FollowOK /\ (FollowDisconnects \/ FollowCloses) => FollowOK'
<1> SUFFICES ASSUME FollowOK, FollowDisconnects \/ FollowCloses PROVE FollowOK'
  OBVIOUS
<1> USE DEF FollowOK, FollowTypes
<1>1. follow' \in FollowFields
  <2>1. [follow EXCEPT !.ticking = FALSE] \in FollowFields  BY DEF FollowFields
  <2> QED  BY <2>1, UnfollowedTypes DEF FollowDisconnects, FollowCloses
<1>2. shell' = shell /\ poll' = poll /\ toGui' = toGui /\ view' = view /\ toThread' = toThread /\ PollInv'
  BY DEF FollowDisconnects, FollowCloses, Gui, ThreadFree, PollInv
<1> QED  BY <1>1, <1>2

LEMMA TickTypes == FollowOK /\ (Tick \/ Drain \/ CdExpires) => FollowOK'
<1> SUFFICES ASSUME FollowOK, Tick \/ Drain \/ CdExpires PROVE FollowOK'
  OBVIOUS
<1> USE DEF FollowOK, FollowTypes
<1>1. CASE Tick
  <2>1. follow' \in FollowFields /\ poll' \in Polls /\ PollInv'
    BY <1>1, StartsPollTypes DEF Tick, Shells, Polls
  <2> QED  BY <1>1, <2>1 DEF Tick, Gui, Polls
<1>2. CASE Drain
  <2>1. poll' = Call("none", NoDir)  BY <1>2 DEF Drain
  <2>2. poll' \in Polls /\ poll'.what = "none"  BY <2>1, CallFacts DEF Somewhere
  <2>3. shell' = shell /\ follow' = follow /\ toGui' = toGui /\ view' = view /\ toThread' = toThread
    BY <1>2 DEF Drain, Gui
  <2> QED  BY <2>2, <2>3 DEF Polls, PollInv
<1>3. CASE CdExpires
  <2>1. follow' = [follow EXCEPT !.expired = TRUE]  BY <1>3 DEF CdExpires
  <2>2. follow' \in FollowFields /\ follow'.requested = follow.requested  BY <2>1 DEF FollowFields
  <2> QED  BY <1>3, <2>2 DEF CdExpires, Gui, PollInv
<1> QED  BY <1>1, <1>2, <1>3

LEMMA SettledTypes ==
  ASSUME NEW f \in FollowFields
  PROVE  /\ Settled(f) \in FollowFields /\ Settled(f).requested = f.requested /\ Settled(f).inFlight = NoDir
         /\ Settled(f).last = IF f.inFlight = NoDir \/ poll.dir = f.inFlight THEN f.last ELSE NoDir
BY DEF Settled, FollowFields, Somewhere

LEMMA ReportsTypes ==
  ASSUME toGui \in Seq(Events), Len(toGui) <= MaxPosted, poll.dir \in Dirs, NEW f \in FollowFields, Reports(f)
  PROVE  /\ follow' \in FollowFields /\ poll' \in Polls /\ PollInv'
         /\ toGui' \in Seq(Events) /\ Len(toGui') <= MaxPosted
         /\ follow'.last = poll.dir /\ follow'.requested = f.requested /\ follow'.inFlight = f.inFlight
<1>1. poll' \in Polls /\ poll'.what = "drain"
  BY CallFacts DEF Reports, Somewhere
<1>2. CASE poll.dir # f.last
  <2>1. follow' = [f EXCEPT !.last = poll.dir] /\ Post(Call("moved", poll.dir))  BY <1>2 DEF Reports
  <2>2. /\ follow' \in FollowFields /\ follow'.last = poll.dir
        /\ follow'.requested = f.requested /\ follow'.inFlight = f.inFlight
    BY <2>1 DEF FollowFields, Somewhere
  <2>3. Call("moved", poll.dir) \in Events  BY CallFacts
  <2> QED  BY <1>1, <2>1, <2>2, <2>3, PostTypes DEF PollInv
<1>3. CASE poll.dir = f.last
  BY <1>1, <1>3 DEF Reports, PollInv
<1> QED  BY <1>2, <1>3

LEMMA PollStepTypes == FollowOK /\ PollStep => FollowOK'
<1> SUFFICES ASSUME FollowOK, PollStep PROVE FollowOK'
  OBVIOUS
<1> USE DEF FollowOK, FollowTypes
<1>1. CASE Compares
  <2>1. poll.what = "seen" /\ poll.dir \in Dirs  BY <1>1 DEF Compares, PollInv
  <2>2. shell' = shell /\ view' = view /\ toThread' = toThread  BY <1>1 DEF Compares, Gui
  <2> DEFINE waits == follow.inFlight # NoDir /\ poll.dir # follow.inFlight /\ ~ follow.expired
             f == Settled(follow)
             sends == f.requested # NoDir /\ f.requested # poll.dir
             g == [f EXCEPT !.requested = NoDir]
  <2>3. f \in FollowFields  BY SettledTypes
  <2>4. g \in FollowFields
    <3> HIDE DEF f
    <3> QED  BY <2>3 DEF FollowFields, Somewhere
  <2>5. CASE waits
    <3>1. poll' = Call("drain", NoDir) /\ follow' = follow /\ toGui' = toGui  BY <1>1, <2>5 DEF Compares
    <3>2. poll' \in Polls /\ poll'.what = "drain"  BY <3>1, CallFacts DEF Somewhere
    <3> QED  BY <2>2, <3>1, <3>2 DEF Polls, PollInv
  <2>6. CASE ~ waits /\ sends
    <3>1. follow' = f /\ poll' = Call("stat", poll.dir) /\ toGui' = toGui  BY <1>1, <2>6 DEF Compares
    <3>2. poll' \in Polls /\ poll'.what = "stat" /\ poll'.dir \in Dirs
      BY <2>1, <3>1, CallFacts DEF Somewhere
    <3>3. follow' \in FollowFields /\ follow'.requested # NoDir  BY <2>3, <2>6, <3>1
    <3> QED  BY <2>2, <3>1, <3>2, <3>3 DEF Polls, PollInv
  <2>7. CASE ~ waits /\ ~ sends
    <3>1. Reports(g)  BY <1>1, <2>7 DEF Compares
    <3>2. /\ follow' \in FollowFields /\ poll' \in Polls /\ PollInv'
          /\ toGui' \in Seq(Events) /\ Len(toGui') <= MaxPosted
      <4> HIDE DEF g
      <4> QED  BY <2>1, <2>4, <3>1, ReportsTypes
    <3> QED  BY <2>2, <3>2 DEF Polls
  <2> QED  BY <2>5, <2>6, <2>7
<1>2. CASE ReadsStat
  <2>1. poll.what = "stat" /\ poll.dir \in Dirs  BY <1>2 DEF ReadsStat, PollInv
  <2>2. poll' \in {Call("drain", poll.dir), Call("send", poll.dir)}  BY <1>2 DEF ReadsStat
  <2>3. poll' \in Polls /\ poll'.dir \in Dirs  BY <2>1, <2>2, CallFacts DEF Somewhere
  <2> QED  BY <1>2, <2>1, <2>3 DEF ReadsStat, Gui, Polls, PollInv
<1>3. CASE SendsCd
  <2> DEFINE line == Typed("cd", follow.requested, TRUE)
  <2>1. /\ shell' = [shell EXCEPT !.typed = Append(@, line)]
        /\ follow' = [follow EXCEPT !.inFlight = follow.requested, !.requested = NoDir, !.expired = FALSE]
        /\ poll' = Call("drain", NoDir) /\ toGui' = toGui /\ view' = view /\ toThread' = toThread
    BY <1>3 DEF SendsCd, Gui
  <2>2. line \in Lines
    <3>1. follow.requested \in Dirs
      <4>1. follow.requested # NoDir  BY <1>3 DEF SendsCd, PollInv
      <4>2. follow.requested \in Somewhere  BY DEF FollowFields
      <4> HIDE DEF NoDir
      <4> QED  BY <4>1, <4>2 DEF Somewhere
    <3> QED  BY <3>1 DEF Typed, Lines
  <2>3. shell' \in Shells
    <3> HIDE DEF line
    <3>1. Append(shell.typed, line) \in Seq(Lines)  BY <2>2
    <3> QED  BY <2>1, <3>1 DEF Shells
  <2>4. follow' \in FollowFields  BY <2>1 DEF FollowFields, Somewhere
  <2>5. poll' \in Polls /\ poll'.what = "drain"  BY <2>1, CallFacts DEF Somewhere
  <2> QED  BY <2>1, <2>3, <2>4, <2>5 DEF Shells, Polls, PollInv
<1> QED  BY <1>1, <1>2, <1>3 DEF PollStep

(* What a call does to the thread: it fails, or is answered.                  *)
Asks(c) == c.what = "navigate" /\ setting.following /\ c.dir \notin Untypable
Outcome(c) ==
  \/ UNCHANGED <<follow, poll, toGui>>
  \/ /\ Post(Call("listed", c.dir))
     /\ IF Asks(c) THEN StartsPoll([follow EXCEPT !.requested = c.dir]) ELSE UNCHANGED <<follow, poll>>

LEMMA CallOutcome == ThreadCall => Outcome(Head(toThread))
BY Zenon DEF ThreadCall, ListingFails, Listed, Outcome, Asks

LEMMA ThreadCallTypes == FollowOK /\ ThreadCall => FollowOK'
<1> SUFFICES ASSUME FollowOK, ThreadCall PROVE FollowOK'
  OBVIOUS
<1> USE DEF FollowOK, FollowTypes
<1> DEFINE c == Head(toThread)
           f == [follow EXCEPT !.requested = c.dir]
<1>1. c \in Orders  BY DEF ThreadCall
<1>2. c.dir \in Dirs /\ f \in FollowFields
  <2> HIDE DEF c
  <2> QED  BY <1>1 DEF Orders, FollowFields, Somewhere
<1>3. toThread' \in Seq(Orders) /\ Len(toThread') <= MaxPosted /\ shell' = shell /\ view' = view
  BY DirsAssumption DEF ThreadCall
<1>4. CASE UNCHANGED <<follow, poll, toGui>>
  BY <1>3, <1>4 DEF PollInv
<1>5. CASE /\ Post(Call("listed", c.dir))
           /\ IF Asks(c) THEN StartsPoll(f) ELSE UNCHANGED <<follow, poll>>
  <2>1. Post(Call("listed", c.dir))  BY <1>5
  <2>2. toGui' \in Seq(Events) /\ Len(toGui') <= MaxPosted
    <3>1. Call("listed", c.dir) \in Events
      <4> HIDE DEF c
      <4> QED  BY <1>2, CallFacts
    <3> QED  BY <2>1, <3>1, PostTypes
  <2>3. CASE StartsPoll(f)
    <3>1. ThreadFree  BY DEF ThreadCall
    <3>2. follow' \in FollowFields /\ poll' \in Polls /\ PollInv'
      <4> HIDE DEF f
      <4> QED  BY <1>2, <2>3, <3>1, StartsPollTypes DEF Shells, Polls
    <3> QED  BY <1>3, <2>2, <3>2 DEF Polls
  <2>4. CASE UNCHANGED <<follow, poll>>
    BY <1>3, <2>2, <2>4 DEF PollInv
  <2> QED  BY <1>5, <2>3, <2>4
<1> QED  BY <1>4, <1>5, CallOutcome DEF Outcome

LEMMA StartsTypes ==
  ASSUME FollowTypes, NEW busy \in BOOLEAN, BrowserStarts(busy)
  PROVE  view' \in Views /\ toThread' \in Seq(Orders) /\ Len(toThread') <= MaxPosted
<1> DEFINE d == IF view.tab = NoDir THEN Home ELSE view.tab
<1>1. /\ view' = [view EXCEPT !.browser = d, !.busy = busy] /\ Len(toThread) < MaxPosted
      /\ toThread' = Append(toThread, Call("list", d))
  BY DEF BrowserStarts
<1>2. d \in Dirs /\ view \in Views  BY DirsAssumption DEF FollowTypes, Somewhere, Views
<1> HIDE DEF d
<1>3. view' \in Views  BY <1>1, <1>2 DEF Views
<1>4. Call("list", d) \in Orders  BY <1>2, CallFacts
<1> QED  BY <1>1, <1>3, <1>4, DirsAssumption DEF FollowTypes

LEMMA ShowingTypes == FollowOK /\ TabShownAgain => FollowOK'
<1> SUFFICES ASSUME FollowOK, TabShownAgain PROVE FollowOK'
  OBVIOUS
<1>1. BrowserStarts(FALSE) \/ UNCHANGED Gui  BY DEF TabShownAgain, BrowserShownAgain
<1>2. view' \in Views /\ toThread' \in Seq(Orders) /\ Len(toThread') <= MaxPosted
  BY <1>1, StartsTypes DEF FollowOK, FollowTypes, Gui, Views
<1> QED  BY <1>2 DEF TabShownAgain, BrowserShownAgain, FollowOK, FollowTypes, PollInv, Views

LEMMA GuiHearsTypes == FollowOK /\ GuiHears => FollowOK'
<1> SUFFICES ASSUME FollowOK, GuiHears PROVE FollowOK'
  OBVIOUS
<1> USE DEF FollowOK, FollowTypes
<1> DEFINE e == Head(toGui)
<1>1. e \in Events /\ toGui' = Tail(toGui) /\ toGui # <<>>  BY DEF GuiHears
<1>2. toGui' \in Seq(Events) /\ Len(toGui') <= MaxPosted
  BY <1>1, DirsAssumption
<1>3. shell' = shell /\ follow' = follow /\ poll' = poll /\ PollInv'
  BY DEF GuiHears, PollInv
<1>4. ASSUME NEW d \in Dirs, NEW v \in Views, NavigatesTo(v, d)
      PROVE  view' \in Views /\ toThread' \in Seq(Orders) /\ Len(toThread') <= MaxPosted
  <2>1. Call("list", d) \in Orders  BY CallFacts
  <2>2. CASE v.busy \/ d = v.browser
    BY <1>4, <2>2 DEF NavigatesTo
  <2>3. CASE ~ (v.busy \/ d = v.browser)
    <3>1. /\ view' = [v EXCEPT !.browser = d] /\ Len(toThread) < MaxPosted
          /\ toThread' = Append(toThread, Call("list", d))
      BY <1>4, <2>3 DEF NavigatesTo
    <3>2. view' \in Views  BY <3>1 DEF Views
    <3> QED  BY <2>1, <3>1, <3>2, DirsAssumption
  <2> QED  BY <2>2, <2>3
<1>5. CASE e.what = "moved"
  <2>1. HearsMoved(e.dir)  BY <1>5 DEF GuiHears
  <2>2. e.dir \in Dirs  BY <1>1, <1>5 DEF Events, Call
  <2>3. [view EXCEPT !.tab = e.dir] \in Views
    <3> HIDE DEF e
    <3> QED  BY <2>2 DEF Views, Somewhere
  <2>4. view' \in Views /\ toThread' \in Seq(Orders) /\ Len(toThread') <= MaxPosted
    <3> HIDE DEF e
    <3> QED  BY <1>4, <2>1, <2>2, <2>3 DEF HearsMoved, Views
  <2> QED  BY <1>2, <1>3, <2>4 DEF Views
<1>6. CASE e.what = "listed"
  <2>1. HearsListed(e.dir)  BY <1>6 DEF GuiHears
  <2>2. e.dir \in Dirs  BY <1>1, <1>6 DEF Events, Call
  <2>3. view' \in Views /\ toThread' = toThread
    <3> HIDE DEF e
    <3> QED  BY <2>1, <2>2 DEF HearsListed, Views
  <2> QED  BY <1>2, <1>3, <2>3 DEF Views
<1>7. CASE e.what = "connected"
  <2>1. BrowserStarts(view.busy)  BY <1>7 DEF GuiHears
  <2>2. view.busy \in BOOLEAN  OBVIOUS
  <2> QED  BY <1>2, <1>3, <2>1, <2>2, StartsTypes DEF Views
<1>8. e.what \in {"moved", "listed", "connected"}
  <2> HIDE DEF e
  <2> QED  BY <1>1 DEF Events, Call
<1> QED  BY <1>5, <1>6, <1>7, <1>8

LEMMA UserTypes == FollowOK /\ (Browse \/ Downloads \/ Types \/ JobEnds) => FollowOK'
<1> SUFFICES ASSUME FollowOK, Browse \/ Downloads \/ Types \/ JobEnds PROVE FollowOK'
  OBVIOUS
<1> USE DEF FollowOK, FollowTypes
<1>1. CASE Browse
  <2>1. PICK d \in Dirs : view' = [view EXCEPT !.browser = d] /\ toThread' = Append(toThread, Call("navigate", d))
    BY <1>1 DEF Browse
  <2>2. view' \in Views  BY <2>1 DEF Views
  <2>3. Call("navigate", d) \in Orders  BY CallFacts
  <2>4. toThread' \in Seq(Orders) /\ Len(toThread') <= MaxPosted  BY <1>1, <2>1, <2>3, DirsAssumption DEF Browse
  <2> QED  BY <1>1, <2>2, <2>4 DEF Browse, Views, PollInv
<1>2. CASE Downloads
  <2> DEFINE b == ~ view.busy
  <2>1. view' = [view EXCEPT !.busy = b] /\ b \in BOOLEAN  BY <1>2 DEF Downloads
  <2> HIDE DEF b
  <2>2. view' \in Views  BY <2>1 DEF Views
  <2> QED  BY <1>2, <2>2 DEF Downloads, Views, PollInv
<1>3. CASE Types
  <2>1. PICK t \in {Typed("cd", d, FALSE) : d \in Dirs} \cup {Typed("job", NoDir, FALSE)} :
          shell' = [shell EXCEPT !.typed = Append(@, t)]
    BY <1>3 DEF Types
  <2>2. t \in Lines
    <3>1. CASE t \in {Typed("cd", d, FALSE) : d \in Dirs}
      <4>1. PICK d \in Dirs : t = Typed("cd", d, FALSE)  BY <3>1
      <4> QED  BY <4>1 DEF Typed, Lines
    <3>2. CASE t = Typed("job", NoDir, FALSE)
      BY <3>2, Zenon DEF Lines
    <3> QED  BY <2>1, <3>1, <3>2
  <2>3. shell' \in Shells
    <3>1. Append(shell.typed, t) \in Seq(Lines)  BY <2>2
    <3> QED  BY <2>1, <3>1 DEF Shells
  <2> QED  BY <1>3, <2>3 DEF Types, Gui, Shells, PollInv
<1>4. CASE JobEnds
  <2>1. shell' \in Shells  BY <1>4 DEF JobEnds, Shells
  <2> QED  BY <1>4, <2>1 DEF JobEnds, Gui, Shells, PollInv
<1> QED  BY <1>1, <1>2, <1>3, <1>4

(* The shell takes the first line: it stays, takes a job, or moves.           *)
LEMMA TakenFacts ==
  ASSUME FollowOK, ShellTakes
  PROVE  LET t == Head(shell.typed)
             moves == ~ shell.job /\ t.what = "cd" /\ t.dir \notin Forbidden
         IN  /\ t \in Lines /\ shell.typed # <<>> /\ shell' \in Shells
             /\ shell'.typed = Tail(shell.typed)
             /\ shell'.job = (shell.job \/ t.what = "job")
             /\ shell'.at = IF moves THEN t.dir ELSE shell.at
             /\ moves => t.dir \in Dirs
<1> DEFINE t == Head(shell.typed)
           rest == [shell EXCEPT !.typed = Tail(@)]
           moves == ~ shell.job /\ t.what = "cd" /\ t.dir \notin Forbidden
<1>1. shell \in Shells /\ shell.typed # <<>>
  BY DEF FollowOK, FollowTypes, Shells, ShellTakes
<1>2. t \in Lines /\ Tail(shell.typed) \in Seq(Lines)
  BY <1>1 DEF Shells
<1>3. rest \in Shells /\ rest.typed = Tail(shell.typed) /\ rest.job = shell.job /\ rest.at = shell.at
  BY <1>1, <1>2 DEF Shells
<1>4. shell' = IF shell.job THEN rest
               ELSE IF t.what = "job" THEN [rest EXCEPT !.job = TRUE]
               ELSE IF moves THEN [rest EXCEPT !.at = t.dir] ELSE rest
  BY DEF ShellTakes
<1>5. moves => t.dir \in Dirs
  <2> HIDE DEF t
  <2> QED  BY <1>2 DEF Lines, Typed
<1>6. t.what \in {"cd", "job"} /\ shell.job \in BOOLEAN
  <2> HIDE DEF t
  <2> QED  BY <1>1, <1>2 DEF Lines, Typed, Shells
<1>7. shell' \in Shells /\ shell'.typed = rest.typed /\ shell'.job = (rest.job \/ t.what = "job")
      /\ shell'.at = IF moves THEN t.dir ELSE rest.at
  <2>1. CASE shell.job
    <3>1. shell' = rest /\ rest.job = TRUE /\ ~ moves  BY <1>3, <1>4, <1>6, <2>1
    <3> HIDE DEF rest, t, moves
    <3> QED  BY <1>3, <3>1
  <2>2. CASE ~ shell.job /\ t.what = "job"
    <3> HIDE DEF rest, t
    <3> QED  BY <1>3, <1>4, <2>2 DEF Shells
  <2>3. CASE ~ shell.job /\ t.what = "cd"
    <3> HIDE DEF rest, t
    <3> QED  BY <1>3, <1>4, <1>5, <2>3 DEF Shells
  <2> QED  BY <1>6, <2>1, <2>2, <2>3
<1> QED  BY <1>1, <1>2, <1>3, <1>5, <1>7

LEMMA ShellTakesTypes == FollowOK /\ ShellTakes => FollowOK'
<1> SUFFICES ASSUME FollowOK, ShellTakes PROVE FollowOK'
  OBVIOUS
<1> DEFINE t == Head(shell.typed)
           moves == ~ shell.job /\ t.what = "cd" /\ t.dir \notin Forbidden
<1>1. shell' \in Shells /\ (moves => t.dir \in Dirs)
  BY TakenFacts
<1>2. toGui' \in Seq(Events) /\ Len(toGui') <= MaxPosted
  <2>1. CASE UNCHANGED toGui
    BY <2>1 DEF FollowOK, FollowTypes
  <2>2. CASE moves /\ Post(Call("moved", t.dir))
    <3>1. Call("moved", t.dir) \in Events
      <4> HIDE DEF t
      <4> QED  BY <1>1, <2>2, CallFacts
    <3> QED  BY <2>2, <3>1, PostTypes DEF FollowOK, FollowTypes
  <2> QED  BY <2>1, <2>2, Zenon DEF ShellTakes
<1>3. follow' = follow /\ poll' = poll /\ view' = view /\ toThread' = toThread
  BY DEF ShellTakes, Gui
<1> QED  BY <1>1, <1>2, <1>3 DEF FollowOK, FollowTypes, PollInv, Shells

LEMMA FollowTypesInductive == FollowOK /\ [Next]_vars => FollowOK'
<1> SUFFICES ASSUME FollowOK, [Next]_vars PROVE FollowOK'
  OBVIOUS
<1>1. CASE UNCHANGED followVars
  BY <1>1 DEF followVars, FollowOK, FollowTypes, PollInv
<1>2. CASE UNCHANGED vars \/ Monitoring \/ Tunnelling \/ Printing \/ SocketActivity \/ OnStatsTimer
  BY <1>1, <1>2 DEF vars, Monitoring, Tunnelling, Printing, SocketActivity, OnStatsTimer
<1>3. CASE Connect \/ Disconnect \/ ShellCloses
  BY <1>3, ConnectTypes, EndTypes DEF Connect, Disconnect, ShellCloses
<1>4. CASE Following
  BY <1>4, TickTypes, PollStepTypes, ThreadCallTypes, GuiHearsTypes, UserTypes, ShellTakesTypes DEF Following
<1>5. CASE Drain
  BY <1>5, TickTypes
<1>6. CASE TabShownAgain
  BY <1>6, ShowingTypes
<1> QED  BY <1>2, <1>3, <1>4, <1>5, <1>6 DEF Next

-----------------------------------------------------------------------------
(* No cd of the connection is behind a command that takes the terminal.       *)
LEMMA StrayStill ==
  StrayInv /\ UNCHANGED <<shell, History>> /\ (poll' = poll \/ poll'.what # "send") => StrayInv'
BY DEF StrayInv, History, Before

LEMMA StrayTypes ==
  ASSUME FollowOK, StrayInv, NEW t \in Lines, UNCHANGED History, poll.what # "send" \/ poll' = poll,
         poll'.what = poll.what, shell' = [shell EXCEPT !.typed = Append(@, t)], ~ t.ours
  PROVE  StrayInv'
<1>1. shell.typed \in Seq(Lines) /\ shell.job \in BOOLEAN  BY DEF FollowOK, FollowTypes
<1>2. /\ shell'.typed = Append(shell.typed, t) /\ shell'.job = shell.job
  BY DEF FollowOK, FollowTypes
<1> DEFINE n == Len(shell.typed)
<1>3. /\ n \in Nat /\ DOMAIN shell.typed = 1..n /\ DOMAIN shell'.typed = 1..(n + 1)
      /\ shell'.typed[n + 1] = t
      /\ \A i \in 1..n : shell'.typed[i] = shell.typed[i]
  BY <1>1, <1>2
<1> HIDE DEF n
<1>4. ASSUME NEW i \in DOMAIN shell'.typed, shell'.typed[i].ours PROVE i \in 1..n
  BY <1>3, <1>4
<1>5. \A i \in 1..n : Before(i)' = Before(i)
  BY <1>3 DEF Before
<1>6. \A i \in 1..n : Before(i) \subseteq 1..n
  BY <1>3 DEF Before
<1> QED  BY <1>2, <1>3, <1>4, <1>5, <1>6 DEF StrayInv, History

LEMMA SendsCdNoStray ==
  ASSUME FollowOK, StrayInv, SendsCd
  PROVE  StrayInv'
<1> DEFINE line == Typed("cd", follow.requested, TRUE)
           n == Len(shell.typed)
<1> HIDE DEF line
<1>1. shell.typed \in Seq(Lines) /\ shell.job \in BOOLEAN  BY DEF FollowOK, FollowTypes
<1>2. /\ shell'.typed = Append(shell.typed, line) /\ shell'.job = shell.job
      /\ overtaken' = (overtaken \/ \E i \in DOMAIN shell.typed : shell.typed[i].what = "job")
      /\ strayed' = strayed /\ poll'.what = "drain" /\ poll.what = "send"
  BY DEF SendsCd, Call, FollowOK, FollowTypes, line
<1>3. /\ n \in Nat /\ DOMAIN shell.typed = 1..n /\ DOMAIN shell'.typed = 1..(n + 1)
      /\ \A i \in 1..n : shell'.typed[i] = shell.typed[i]
  BY <1>1, <1>2
<1> HIDE DEF n
<1>4. ASSUME ~ overtaken', NEW i \in 1..(n + 1), shell'.typed[i].ours, NEW j \in 1..n, j < i
      PROVE  ~ shell'.job /\ shell'.typed[j].what # "job"
  BY <1>2, <1>3, <1>4 DEF StrayInv
<1>5. ASSUME ~ overtaken' PROVE ~ shell'.job
  BY <1>2, <1>5 DEF StrayInv
<1>6. \A i \in 1..(n + 1) : \A j \in Before(i)' : j \in 1..n /\ j < i
  BY <1>3 DEF Before
<1> QED  BY <1>2, <1>3, <1>4, <1>5, <1>6 DEF StrayInv

LEMMA ShellTakesNoStray ==
  ASSUME FollowOK, StrayInv, ShellTakes
  PROVE  StrayInv'
<1> DEFINE t == Head(shell.typed)
           n == Len(shell.typed)
<1>1. /\ t \in Lines /\ shell.typed # <<>> /\ shell'.typed = Tail(shell.typed)
      /\ shell'.job = (shell.job \/ t.what = "job")
  BY TakenFacts
<1>2. /\ strayed' = (strayed \/ (shell.job /\ t.ours))
      /\ overtaken' = (overtaken \/ (t.what = "job" /\ poll.what = "send"))
      /\ poll' = poll
  BY DEF ShellTakes
<1>3. shell.typed \in Seq(Lines)  BY DEF FollowOK, FollowTypes
<1>4. /\ n \in Nat \ {0} /\ DOMAIN shell.typed = 1..n /\ DOMAIN shell'.typed = 1..(n - 1)
      /\ t = shell.typed[1]
      /\ \A i \in 1..(n - 1) : shell'.typed[i] = shell.typed[i + 1]
  BY <1>1, <1>3
<1> HIDE DEF n, t
<1> SUFFICES ASSUME ~ overtaken'
             PROVE  /\ ~ strayed' /\ (poll'.what = "send" => ~ shell'.job)
                    /\ \A i \in DOMAIN shell'.typed : shell'.typed[i].ours =>
                         ~ shell'.job /\ \A j \in Before(i)' : shell'.typed[j].what # "job"
  BY DEF StrayInv
<1>5. ~ overtaken  BY <1>2
<1>6. ~ strayed'
  <2>1. ~ strayed /\ (shell.typed[1].ours => ~ shell.job)  BY <1>4, <1>5 DEF StrayInv
  <2> QED  BY <1>2, <1>4, <2>1
<1>7. poll'.what = "send" => ~ shell'.job  BY <1>1, <1>2, <1>5 DEF StrayInv
<1>8. ASSUME NEW i \in 1..(n - 1), shell'.typed[i].ours
      PROVE  ~ shell'.job /\ \A j \in Before(i)' : shell'.typed[j].what # "job"
  <2>1. i + 1 \in 1..n /\ shell.typed[i + 1].ours  BY <1>4, <1>8
  <2>2. ~ shell.job /\ \A j \in Before(i + 1) : shell.typed[j].what # "job"
    BY <1>4, <1>5, <2>1 DEF StrayInv
  <2>3. 1 \in Before(i + 1)  BY <1>4, <2>1 DEF Before
  <2>4. \A j \in Before(i)' : j \in 1..(n - 1) /\ j + 1 \in Before(i + 1)
    BY <1>4, <2>1 DEF Before
  <2> QED  BY <1>1, <1>4, <2>2, <2>3, <2>4
<1> QED  BY <1>4, <1>6, <1>7, <1>8

LEMMA StartsPollKeeps ==
  ASSUME NEW f \in FollowFields, StartsPoll(f)
  PROVE  /\ follow'.last = f.last /\ follow'.requested = f.requested /\ follow'.inFlight = f.inFlight
         /\ poll' = poll \/ poll'.what \in {"drain", "seen"}
<1>1. CASE follow' = f /\ UNCHANGED poll
  BY <1>1
<1>2. CASE poll' = Call("drain", NoDir)
  <2>1. poll'.what = "drain"  BY <1>2 DEF Call
  <2>2. follow'.last = f.last /\ follow'.requested = f.requested /\ follow'.inFlight = f.inFlight
    BY DEF StartsPoll, FollowFields
  <2> QED  BY <2>1, <2>2
<1>3. CASE poll' = Call("seen", shell.at)
  <2>1. poll'.what = "seen"  BY <1>3 DEF Call
  <2>2. follow'.last = f.last /\ follow'.requested = f.requested /\ follow'.inFlight = f.inFlight
    BY DEF StartsPoll, FollowFields
  <2> QED  BY <2>1, <2>2
<1> QED  BY <1>1, <1>2, <1>3, Zenon DEF StartsPoll

LEMMA StrayInductive == FollowOK /\ StrayInv /\ [Next]_vars => StrayInv'
<1> SUFFICES ASSUME FollowOK, StrayInv, [Next]_vars PROVE StrayInv'
  OBVIOUS
<1>1. CASE UNCHANGED followVars
  BY <1>1, StrayStill DEF followVars, History
<1>2. CASE UNCHANGED vars \/ Monitoring \/ Tunnelling \/ Printing \/ SocketActivity \/ OnStatsTimer
  BY <1>1, <1>2 DEF vars, Monitoring, Tunnelling, Printing, SocketActivity, OnStatsTimer
<1>3. CASE Connect
  <2>1. /\ shell' = [at |-> Home, job |-> FALSE, typed |-> <<>>] /\ UNCHANGED <<poll, History>> /\ poll.what = "none"
    BY <1>3 DEF Connect, FollowConnects, ThreadFree
  <2>2. shell'.typed = <<>> /\ ~ shell'.job  BY <2>1
  <2> QED  BY <2>1, <2>2 DEF StrayInv, History, Before
<1>4. CASE Disconnect \/ ShellCloses
  BY <1>4, StrayStill DEF Disconnect, ShellCloses, FollowDisconnects, FollowCloses
<1>5. CASE Drain
  BY <1>5, StrayStill DEF Drain, Call
<1>6. CASE Tick
  <2>1. UNCHANGED <<shell, History>> /\ StartsPoll(follow)  BY <1>6 DEF Tick
  <2>2. follow \in FollowFields  BY DEF FollowOK, FollowTypes
  <2> QED  BY <2>1, <2>2, StartsPollKeeps, StrayStill
<1>7. CASE Compares
  <2>1. UNCHANGED <<shell, History>>  BY <1>7 DEF Compares
  <2>2. poll' \in {Call("drain", NoDir), Call("stat", poll.dir)}  BY <1>7, Zenon DEF Compares, Reports
  <2>3. poll'.what \in {"drain", "stat"}  BY <2>2 DEF Call
  <2> QED  BY <2>1, <2>3, StrayStill
<1>8. CASE ReadsStat
  <2>1. UNCHANGED <<shell, History>> /\ poll'.what = IF shell.job THEN "drain" ELSE "send"
    BY <1>8 DEF ReadsStat, Call
  <2> QED  BY <2>1 DEF StrayInv, History, Before
<1>9. CASE ThreadCall
  <2> DEFINE f == [follow EXCEPT !.requested = Head(toThread).dir]
  <2>1. UNCHANGED <<shell, History>> /\ (poll' = poll \/ StartsPoll(f))
    BY <1>9, CallOutcome DEF ThreadCall, Outcome
  <2>2. Head(toThread) \in Orders  BY <1>9 DEF ThreadCall, FollowOK, FollowTypes
  <2>3. f \in FollowFields  BY <2>2 DEF FollowOK, FollowTypes, FollowFields, Orders, Somewhere
  <2> HIDE DEF f
  <2> QED  BY <2>1, <2>3, StartsPollKeeps, StrayStill
<1>10. CASE CdExpires \/ GuiHears \/ Browse \/ Downloads
  BY <1>10, StrayStill DEF CdExpires, GuiHears, Browse, Downloads
<1>11. CASE Types
  <2>1. PICK t \in {Typed("cd", d, FALSE) : d \in Dirs} \cup {Typed("job", NoDir, FALSE)} :
          shell' = [shell EXCEPT !.typed = Append(@, t)]
    BY <1>11 DEF Types
  <2>2. t \in Lines /\ ~ t.ours
    <3>1. CASE t \in {Typed("cd", d, FALSE) : d \in Dirs}
      <4>1. PICK d \in Dirs : t = Typed("cd", d, FALSE)  BY <3>1
      <4> QED  BY <4>1 DEF Typed, Lines
    <3>2. CASE t = Typed("job", NoDir, FALSE)
      <4>1. t \in Lines  BY <3>2, Zenon DEF Lines
      <4>2. ~ t.ours  BY <3>2 DEF Typed
      <4> QED  BY <4>1, <4>2
    <3> QED  BY <2>1, <3>1, <3>2
  <2>3. UNCHANGED History /\ poll' = poll  BY <1>11 DEF Types
  <2> QED  BY <2>1, <2>2, <2>3, StrayTypes
<1>12. CASE JobEnds
  <2>1. /\ UNCHANGED <<poll, History>>
        /\ shell' = [shell EXCEPT !.job = FALSE]
    BY <1>12 DEF JobEnds
  <2>2. shell'.typed = shell.typed /\ ~ shell'.job  BY <2>1 DEF FollowOK, FollowTypes
  <2> QED  BY <2>1, <2>2 DEF StrayInv, History, Before
<1>13. CASE Following
  BY <1>6, <1>7, <1>8, <1>9, <1>10, <1>11, <1>12, <1>13, SendsCdNoStray, ShellTakesNoStray DEF Following, PollStep
<1>14. CASE TabShownAgain
  BY <1>14, StrayStill DEF TabShownAgain, BrowserShownAgain
<1> QED  BY <1>2, <1>3, <1>4, <1>5, <1>13, <1>14 DEF Next

-----------------------------------------------------------------------------
(* What the window has still to hear.                                         *)
LEMMA NewsIsLast ==
  ASSUME toGui \in Seq(Events), NEW e, toGui' = Append(toGui, e), IsNews(e)
  PROVE  ~ NoNews' /\ \A i \in DOMAIN toGui' : LastNews(i)' => toGui'[i] = e
<1> DEFINE n == Len(toGui)
<1>1. n \in Nat /\ DOMAIN toGui' = 1..(n + 1) /\ toGui'[n + 1] = e
  OBVIOUS
<1> HIDE DEF n
<1>2. ~ NoNews'  BY <1>1 DEF NoNews
<1>3. ASSUME NEW i \in 1..(n + 1), LastNews(i)' PROVE toGui'[i] = e
  <2>1. n + 1 <= i  BY <1>1, <1>3 DEF LastNews
  <2>2. i = n + 1  BY <1>1, <1>3, <2>1
  <2> QED  BY <1>1, <2>2
<1> QED  BY <1>1, <1>2, <1>3

LEMMA ListingIsNoNews ==
  ASSUME toGui \in Seq(Events), NEW e, toGui' = Append(toGui, e), ~ IsNews(e)
  PROVE  /\ NoNews' => NoNews
         /\ \A i \in DOMAIN toGui' : LastNews(i)' => i \in DOMAIN toGui /\ LastNews(i) /\ toGui'[i] = toGui[i]
         /\ Len(toGui') = Len(toGui) + 1 /\ toGui'[Len(toGui) + 1] = e /\ toGui' # <<>>
<1> DEFINE n == Len(toGui)
<1>1. /\ n \in Nat /\ DOMAIN toGui' = 1..(n + 1) /\ toGui'[n + 1] = e /\ DOMAIN toGui = 1..n
      /\ \A i \in 1..n : toGui'[i] = toGui[i]
      /\ Len(toGui') = n + 1
  OBVIOUS
<1>2. toGui' # <<>>  BY <1>1
<1> HIDE DEF n
<1>3. NoNews' => NoNews  BY <1>1 DEF NoNews
<1>4. ASSUME NEW i \in 1..(n + 1), LastNews(i)' PROVE i \in 1..n /\ LastNews(i) /\ toGui'[i] = toGui[i]
  BY <1>1, <1>4 DEF LastNews
<1> QED  BY <1>1, <1>2, <1>3, <1>4 DEF n

LEMMA NewsHeard ==
  ASSUME toGui \in Seq(Events), toGui # <<>>, toGui' = Tail(toGui)
  PROVE  /\ \A i \in DOMAIN toGui' : LastNews(i)' => i + 1 \in DOMAIN toGui /\ LastNews(i + 1) /\ toGui'[i] = toGui[i + 1]
         /\ NoNews' /\ IsNews(Head(toGui)) => LastNews(1)
         /\ NoNews' /\ ~ IsNews(Head(toGui)) => NoNews
         /\ Head(toGui) = toGui[1] /\ 1 \in DOMAIN toGui
         /\ IF toGui' = <<>> THEN Len(toGui) = 1 ELSE toGui'[Len(toGui')] = toGui[Len(toGui)]
<1> DEFINE n == Len(toGui)
<1>1. /\ n \in Nat \ {0} /\ DOMAIN toGui = 1..n /\ DOMAIN toGui' = 1..(n - 1) /\ Head(toGui) = toGui[1]
      /\ \A i \in 1..(n - 1) : toGui'[i] = toGui[i + 1]
      /\ Len(toGui') = n - 1
  OBVIOUS
<1>2. toGui' = <<>> <=> n = 1
  <2>1. toGui' \in Seq(Events)  OBVIOUS
  <2>2. toGui' = <<>> <=> Len(toGui') = 0  BY <2>1, EmptySeq
  <2> HIDE DEF n
  <2> QED  BY <1>1, <2>2
<1> HIDE DEF n
<1>3. ASSUME NEW i \in 1..(n - 1), LastNews(i)' PROVE i + 1 \in 1..n /\ LastNews(i + 1) /\ toGui'[i] = toGui[i + 1]
  <2>1. i + 1 \in 1..n /\ toGui'[i] = toGui[i + 1] /\ IsNews(toGui[i + 1])
    BY <1>1, <1>3 DEF LastNews
  <2>2. ASSUME NEW j \in 1..n, IsNews(toGui[j]) PROVE j <= i + 1
    <3>1. CASE j = 1
      BY <1>3, <3>1
    <3>2. CASE j # 1
      <4>1. j - 1 \in 1..(n - 1) /\ (j - 1) + 1 = j  BY <1>1, <3>2
      <4>2. IsNews(toGui'[j - 1])  BY <1>1, <2>2, <4>1
      <4>3. j - 1 <= i  BY <1>1, <1>3, <4>1, <4>2 DEF LastNews
      <4> QED  BY <4>1, <4>3
    <3> QED  BY <3>1, <3>2
  <2> QED  BY <1>1, <2>1, <2>2 DEF LastNews
<1>4. ASSUME NoNews', NEW j \in 1..n, j # 1 PROVE ~ IsNews(toGui[j])
  <2>1. j - 1 \in 1..(n - 1) /\ (j - 1) + 1 = j  BY <1>1, <1>4
  <2>2. ~ IsNews(toGui'[j - 1])  BY <1>1, <1>4, <2>1 DEF NoNews
  <2> QED  BY <1>1, <2>1, <2>2
<1>5. NoNews' /\ IsNews(Head(toGui)) => LastNews(1)
  BY <1>1, <1>4 DEF LastNews
<1>6. NoNews' /\ ~ IsNews(Head(toGui)) => NoNews
  BY <1>1, <1>4 DEF NoNews
<1>7. IF toGui' = <<>> THEN n = 1 ELSE toGui'[Len(toGui')] = toGui[n]
  <2>1. CASE toGui' # <<>>
    <3>1. n - 1 \in 1..(n - 1) /\ (n - 1) + 1 = n  BY <1>1, <1>2, <2>1
    <3> QED  BY <1>1, <2>1, <3>1
  <2> QED  BY <1>1, <2>1
<1> QED  BY <1>1, <1>3, <1>5, <1>6, <1>7 DEF n

(* Nothing of it changes.                                                     *)
LEMMA SyncStill ==
  ASSUME SyncInv, UNCHANGED <<setting, link, toThread, toGui, dropped>>, view'.browser = view.browser,
         view'.tab = view.tab, shell'.at = shell.at,
         follow'.last = follow.last, follow'.requested = follow.requested, follow'.inFlight = follow.inFlight
  PROVE  SyncInv'
<1>1. Told' <=> Told  BY DEF Told, Up
<1>2. \A i : LastNews(i)' <=> LastNews(i)  BY DEF LastNews
<1>3. NoNews' <=> NoNews  BY DEF NoNews
<1>4. Wants(follow.last)' <=> Wants(follow.last)  BY DEF Wants, LastNavigate, Navigates
<1>5. HeadsFor(follow.last)' <=> HeadsFor(follow.last)  BY DEF HeadsFor
<1> QED  BY <1>1, <1>2, <1>3, <1>4, <1>5 DEF SyncInv

LEMMA UntoldSync == ~ Told' => SyncInv'
BY DEF SyncInv

(* A poll that tells the window, or finds nothing to tell.                    *)
LEMMA ComparesSyncs ==
  ASSUME FollowOK, SyncInv, Steady, Compares
  PROVE  SyncInv'
<1> DEFINE waits == follow.inFlight # NoDir /\ poll.dir # follow.inFlight /\ ~ follow.expired
           f == Settled(follow)
           sends == f.requested # NoDir /\ f.requested # poll.dir
           g == [f EXCEPT !.requested = NoDir]
<1>1. UNCHANGED <<shell, toThread, view, dropped, setting, link>>  BY DEF Compares, Gui, Steady
<1>2. follow \in FollowFields /\ toGui \in Seq(Events) /\ Len(toGui) <= MaxPosted
  BY DEF FollowOK, FollowTypes
<1>3. /\ f \in FollowFields /\ f.requested = follow.requested /\ f.inFlight = NoDir
      /\ f.last = IF follow.inFlight = NoDir \/ poll.dir = follow.inFlight THEN follow.last ELSE NoDir
  BY <1>2, SettledTypes
<1>4. poll.dir \in Dirs  BY DEF Compares, FollowOK, PollInv
<1>5. poll.dir # NoDir  BY <1>4, DirsAssumption
<1>6. CASE waits
  <2>1. UNCHANGED <<follow, toGui>>  BY <1>6 DEF Compares
  <2> QED  BY <1>1, <2>1, SyncStill
<1>7. CASE ~ waits /\ sends
  <2>1. follow' = f /\ toGui' = toGui  BY <1>7 DEF Compares
  <2> HIDE DEF f
  <2>2. CASE f.last = NoDir
    <3>1. ~ Told'  BY <2>1, <2>2 DEF Told
    <3> QED  BY <3>1, UntoldSync
  <2>3. CASE f.last # NoDir
    <3>1. f.last = follow.last  BY <1>3, <2>3
    <3>2. Told' => Told  BY <1>1, <2>1, <3>1 DEF Told, Up
    <3>3. \A i : LastNews(i)' <=> LastNews(i)  BY <2>1 DEF LastNews
    <3>4. NoNews' <=> NoNews  BY <2>1 DEF NoNews
    <3>5. Wants(follow.last)' => Wants(follow.last)
      BY <1>1, <1>3, <1>7, <2>1, <3>1 DEF Wants, LastNavigate, Navigates
    <3>6. HeadsFor(follow.last)' <=> HeadsFor(follow.last)  BY <1>1, <2>1, <3>1 DEF HeadsFor
    <3> QED  BY <1>1, <2>1, <3>1, <3>2, <3>3, <3>4, <3>5, <3>6 DEF SyncInv
  <2> QED  BY <2>2, <2>3
<1>8. CASE ~ waits /\ ~ sends
  <2>1. Reports(g)  BY <1>8 DEF Compares
  <2>2. g \in FollowFields /\ g.last = f.last /\ g.requested = NoDir /\ g.inFlight = NoDir
    <3> HIDE DEF f
    <3> QED  BY <1>3 DEF FollowFields, Somewhere
  <2> HIDE DEF f, g
  <2>3. follow'.last = poll.dir /\ follow'.requested = NoDir /\ follow'.inFlight = NoDir
    BY <1>2, <1>4, <2>1, <2>2, ReportsTypes
  <2>4. CASE poll.dir # g.last
    <3>1. toGui' = Append(toGui, Call("moved", poll.dir))  BY <2>1, <2>4 DEF Reports, Post
    <3>2. IsNews(Call("moved", poll.dir))  BY DEF IsNews, Call
    <3>3. ~ NoNews' /\ \A i \in DOMAIN toGui' : LastNews(i)' => toGui'[i] = Call("moved", poll.dir)
      BY <1>2, <3>1, <3>2, NewsIsLast
    <3> QED  BY <2>3, <3>3 DEF SyncInv
  <2>5. CASE poll.dir = g.last
    <3>1. toGui' = toGui  BY <2>1, <2>5 DEF Reports
    <3>2. follow.last = poll.dir /\ follow.inFlight \in {NoDir, poll.dir}
      BY <1>3, <1>5, <2>2, <2>5
    <3>3. Told' => Told  BY <1>1, <1>5, <2>3, <3>2 DEF Told, Up
    <3>4. \A i : LastNews(i)' <=> LastNews(i)  BY <3>1 DEF LastNews
    <3>5. NoNews' <=> NoNews  BY <3>1 DEF NoNews
    <3>6. follow.requested = NoDir \/ follow.requested = poll.dir
      BY <1>3, <1>8
    <3>7. Wants(follow.last)' => Wants(follow.last)
      BY <1>1, <2>3, <3>2, <3>6 DEF Wants, LastNavigate, Navigates
    <3>8. HeadsFor(follow.last)' <=> HeadsFor(follow.last)  BY <1>1, <2>3, <3>1, <3>2 DEF HeadsFor
    <3> QED  BY <1>1, <2>3, <3>1, <3>2, <3>3, <3>4, <3>5, <3>7, <3>8 DEF SyncInv
  <2> QED  BY <2>4, <2>5
<1> QED  BY <1>6, <1>7, <1>8

LEMMA SendsCdSyncs ==
  ASSUME FollowOK, SyncInv, Steady, SendsCd
  PROVE  SyncInv'
<1>1. /\ UNCHANGED <<toGui, toThread, view, dropped, setting, link>>
      /\ follow' = [follow EXCEPT !.inFlight = follow.requested, !.requested = NoDir, !.expired = FALSE]
      /\ shell' = [shell EXCEPT !.typed = Append(@, Typed("cd", follow.requested, TRUE))]
  BY DEF SendsCd, Gui, Steady
<1>2. follow'.last = follow.last /\ follow'.requested = NoDir /\ follow'.inFlight = follow.requested
  BY <1>1 DEF FollowOK, FollowTypes, FollowFields
<1>3. shell'.at = shell.at  BY <1>1 DEF FollowOK, FollowTypes
<1>4. follow.requested # NoDir  BY DEF SendsCd, FollowOK, PollInv
<1>5. Told' <=> Told  BY <1>1, <1>2, <1>3 DEF Told, Up
<1>6. \A i : LastNews(i)' <=> LastNews(i)  BY <1>1 DEF LastNews
<1>7. NoNews' <=> NoNews  BY <1>1 DEF NoNews
<1>8. Told /\ Wants(follow.last)' => Wants(follow.last)
  BY <1>1, <1>2, <1>4 DEF Wants, LastNavigate, Navigates, Told
<1>9. HeadsFor(follow.last)' <=> HeadsFor(follow.last)  BY <1>1, <1>2 DEF HeadsFor
<1> QED  BY <1>1, <1>2, <1>5, <1>6, <1>7, <1>8, <1>9 DEF SyncInv

(* The user asks for a directory: the browser heads for it at once.           *)
LEMMA BrowseSyncs ==
  ASSUME FollowOK, SyncInv, Steady, Browse
  PROVE  SyncInv'
<1>1. PICK d \in Dirs : view' = [view EXCEPT !.browser = d] /\ toThread' = Append(toThread, Call("navigate", d))
  BY DEF Browse
<1>2. UNCHANGED <<shell, follow, toGui, setting, link>>  BY DEF Browse, Steady
<1>3. toThread \in Seq(Orders)  BY DEF FollowOK, FollowTypes
<1> DEFINE c == Call("navigate", d)
<1>4. c.what = "navigate" /\ c.dir = d  BY CallFacts
<1> HIDE DEF c
<1>5. PICK n \in Nat \ {0} : DOMAIN toThread' = 1..n /\ toThread'[n] = c /\ Len(toThread') = n
  <2> WITNESS Len(toThread) + 1 \in Nat \ {0}
  <2> QED  BY <1>1, <1>3 DEF c
<1>6. toThread' # <<>>  BY <1>5
<1>7. LastNavigate(n)'
  BY <1>4, <1>5 DEF LastNavigate, Navigates
<1>8. \A e : Wants(e)' => toThread'[n].dir = e
  BY <1>5, <1>7 DEF Wants
<1>9. Wants(follow.last)' => HeadsFor(follow.last)'
  BY <1>2, <1>5, <1>6, <1>8 DEF HeadsFor
<1>10. Told' => Told  BY <1>2 DEF Told, Up
<1>11. \A i : LastNews(i)' <=> LastNews(i)  BY <1>2 DEF LastNews
<1>12. (NoNews' <=> NoNews) /\ view'.tab = view.tab
  BY <1>1, <1>2 DEF NoNews, FollowOK, FollowTypes
<1> QED  BY <1>2, <1>9, <1>10, <1>11, <1>12 DEF SyncInv

(* A call fails, or moves from the one queue to the other as its listing.     *)
LEMMA ThreadCallSyncs ==
  ASSUME FollowOK, SyncInv, Steady, ThreadCall
  PROVE  SyncInv'
<1> DEFINE c == Head(toThread)
           f == [follow EXCEPT !.requested = c.dir]
           L == follow.last
           navigates == c.what = "navigate"
           fails == follow' = follow /\ toGui' = toGui
           lists == Post(Call("listed", c.dir)) /\ IF Asks(c) THEN StartsPoll(f) ELSE follow' = follow
           quiet == view.browser = c.dir /\ \A i \in DOMAIN toGui : toGui[i].what # "listed"
<1> SUFFICES ASSUME Told' PROVE SyncInv'
  BY UntoldSync
<1>1. UNCHANGED <<shell, view, setting, link>> /\ toThread' = Tail(toThread) /\ toThread # <<>>
  BY DEF ThreadCall, Steady
<1>2. link = "up" /\ setting.following  BY <1>1 DEF Told, Up
<1>3. follow \in FollowFields /\ toGui \in Seq(Events) /\ toThread \in Seq(Orders)
  BY DEF FollowOK, FollowTypes
<1>4. c \in Orders /\ c.dir \in Dirs /\ c.dir # NoDir
  <2>1. c \in Orders  BY <1>1, <1>3
  <2> HIDE DEF c
  <2> QED  BY <2>1, DirsAssumption DEF Orders
<1>5. /\ dropped => dropped'
      /\ fails \/ lists
      /\ fails /\ ~ dropped' => ~ navigates /\ quiet
      /\ lists /\ ~ fails /\ ~ dropped' => ~ navigates \/ Asks(c)
  <2>1. CASE ListingFails(c)
    BY <1>2, <2>1 DEF ListingFails
  <2>2. CASE Listed(c)
    <3>1. lists /\ ~ fails
      <4>1. Post(Call("listed", c.dir))  BY <2>2 DEF Listed
      <4>2. toGui' # toGui
        <5>1. toGui' = Append(toGui, Call("listed", c.dir))  BY <4>1 DEF Post
        <5>2. Len(toGui') = Len(toGui) + 1 /\ Len(toGui) \in Nat  BY <1>3, <5>1
        <5> QED  BY <5>2
      <4> QED  BY <2>2, <4>1, <4>2 DEF Listed, Asks
    <3>2. (dropped => dropped') /\ (navigates /\ ~ Asks(c) => dropped')
      BY Zenon, <2>2 DEF Listed, Asks
    <3> QED  BY <3>1, <3>2
  <2> QED  BY <2>1, <2>2 DEF ThreadCall
<1>6. f \in FollowFields /\ f.last = L /\ f.requested = c.dir /\ f.inFlight = follow.inFlight
  <2> HIDE DEF c
  <2> QED  BY <1>3, <1>4 DEF FollowFields, Somewhere
<1> DEFINE asks == ~ fails /\ Asks(c)
<1>7. /\ follow'.last = L /\ follow'.inFlight = follow.inFlight
      /\ follow'.requested = IF asks THEN c.dir ELSE follow.requested
  <2>1. CASE asks
    <3>1. StartsPoll(f)  BY <1>5, <2>1
    <3> HIDE DEF f
    <3>2. follow'.last = f.last /\ follow'.inFlight = f.inFlight /\ follow'.requested = f.requested
      BY <1>6, <3>1, StartsPollKeeps
    <3> QED  BY <1>6, <2>1, <3>2
  <2>2. CASE ~ asks
    BY <1>5, <2>2
  <2> QED  BY <2>1, <2>2
<1>8. Told  BY <1>1, <1>7 DEF Told, Up
<1>9. /\ NoNews' => NoNews
      /\ \A i \in DOMAIN toGui' : LastNews(i)' => i \in DOMAIN toGui /\ LastNews(i) /\ toGui'[i] = toGui[i]
      /\ fails \/ (toGui'[Len(toGui')].dir = c.dir /\ toGui' # <<>>)
  <2> DEFINE e == Call("listed", c.dir)
  <2>1. CASE fails
    BY <2>1 DEF NoNews, LastNews
  <2>2. CASE ~ fails
    <3>1. toGui' = Append(toGui, e)  BY <1>5, <2>2 DEF Post
    <3>2. ~ IsNews(e) /\ e.dir = c.dir  BY DEF IsNews, Call
    <3> HIDE DEF e
    <3> QED  BY <1>3, <3>1, <3>2, ListingIsNoNews
  <2> QED  BY <2>1, <2>2
<1>10. PICK n \in Nat :
         /\ DOMAIN toThread = 1..(n + 1) /\ DOMAIN toThread' = 1..n /\ c = toThread[1]
         /\ Len(toThread) = n + 1 /\ Len(toThread') = n
         /\ \A i \in 1..n : toThread'[i] = toThread[i + 1]
  <2>1. Len(toThread) - 1 \in Nat  BY <1>1, <1>3
  <2> WITNESS Len(toThread) - 1 \in Nat
  <2> QED  BY <1>1, <1>3
<1>11. toThread' = <<>> <=> n = 0
  <2>1. toThread' \in Seq(Orders)  BY <1>1, <1>3
  <2> QED  BY <1>10, <2>1, EmptySeq
<1> HIDE DEF c, f, lists
<1>12. NoNews' /\ ~ dropped' /\ HeadsFor(L) => HeadsFor(L)'
  <2> SUFFICES ASSUME NoNews', ~ dropped', HeadsFor(L) PROVE HeadsFor(L)'
    OBVIOUS
  <2>1. toThread[n + 1].dir = L  BY <1>1, <1>10 DEF HeadsFor
  <2>2. CASE n = 0
    <3>1. CASE fails
      <4>1. quiet  BY <1>5, <3>1
      <4>2. toGui' = <<>>
        <5>1. \A i \in DOMAIN toGui : ~ IsNews(toGui[i]) /\ toGui[i] \in Events
          BY <1>3, <1>9 DEF NoNews
        <5>2. \A i \in DOMAIN toGui : FALSE  BY <4>1, <5>1 DEF Events, IsNews, Call
        <5>3. DOMAIN toGui = 1..Len(toGui) /\ Len(toGui) \in Nat  BY <1>3
        <5>4. Len(toGui) = 0  BY <5>2, <5>3
        <5>5. toGui = <<>>  BY <1>3, <5>4, EmptySeq
        <5> QED  BY <3>1, <5>5
      <4>3. view'.browser = L  BY <1>1, <1>10, <2>1, <2>2, <4>1
      <4> QED  BY <1>7, <1>11, <2>2, <4>2, <4>3 DEF HeadsFor
    <3>2. CASE ~ fails
      <4>1. toGui'[Len(toGui')].dir = toThread[n + 1].dir  BY <1>9, <1>10, <2>2, <3>2
      <4> QED  BY <1>7, <1>9, <1>11, <2>1, <2>2, <3>2, <4>1 DEF HeadsFor
    <3> QED  BY <3>1, <3>2
  <2>3. CASE n # 0
    <3>1. toThread'[n] = toThread[n + 1]  BY <1>10, <2>3
    <3> QED  BY <1>7, <1>10, <1>11, <2>1, <2>3, <3>1 DEF HeadsFor
  <2> QED  BY <2>2, <2>3
<1>13. ASSUME Wants(L)', ~ dropped' PROVE Wants(L)
  <2>1. \A i \in 1..n : LastNavigate(i)' => toThread[i + 1].dir = L
    BY <1>7, <1>10, <1>13 DEF Wants
  <2>2. ASSUME NEW i \in 1..n, LastNavigate(i + 1) PROVE LastNavigate(i)'
    <3>1. Navigates(i)'  BY <1>10, <2>2 DEF LastNavigate, Navigates
    <3>2. ASSUME NEW j \in 1..n, toThread'[j].what = "navigate" PROVE j <= i
      <4>1. j + 1 \in DOMAIN toThread /\ Navigates(j + 1)  BY <1>10, <3>2 DEF Navigates
      <4>2. j + 1 <= i + 1  BY <2>2, <4>1 DEF LastNavigate
      <4> QED  BY <4>2
    <3> QED  BY <1>10, <3>1, <3>2 DEF LastNavigate, Navigates
  <2>3. CASE \E j \in 1..n : toThread'[j].what = "navigate"
    <3>1. PICK j \in 1..n : toThread'[j].what = "navigate"  BY <2>3
    <3>2. j + 1 \in DOMAIN toThread /\ Navigates(j + 1)  BY <1>10, <3>1 DEF Navigates
    <3>3. ASSUME NEW k \in DOMAIN toThread, LastNavigate(k) PROVE toThread[k].dir = L
      <4>1. j + 1 <= k  BY <3>2, <3>3 DEF LastNavigate
      <4>2. k - 1 \in 1..n /\ (k - 1) + 1 = k  BY <1>10, <4>1
      <4> QED  BY <2>1, <2>2, <3>3, <4>2
    <3> QED  BY <3>2, <3>3 DEF Wants
  <2>4. CASE ~ \E j \in 1..n : toThread'[j].what = "navigate"
    <3>1. follow'.requested = L \/ (follow'.requested = NoDir /\ follow'.inFlight \in {L, NoDir})
      BY <1>7, <1>10, <1>13, <2>4 DEF Wants, Navigates
    <3>2. ASSUME NEW k \in DOMAIN toThread, Navigates(k) PROVE k = 1
      <4>1. ASSUME k # 1 PROVE FALSE
        <5>1. k - 1 \in 1..n /\ (k - 1) + 1 = k  BY <1>10, <4>1
        <5>2. toThread'[k - 1] = toThread[k]  BY <1>10, <5>1
        <5> QED  BY <2>4, <3>2, <5>1, <5>2 DEF Navigates
      <4> QED  BY <4>1
    <3>3. CASE asks
      <4>1. c.dir = L  BY <1>4, <1>7, <3>1, <3>3
      <4>2. 1 \in DOMAIN toThread /\ Navigates(1)  BY <1>10, <3>3 DEF Navigates, Asks
      <4> QED  BY <1>10, <3>2, <4>1, <4>2 DEF Wants, LastNavigate
    <3>4. CASE ~ asks
      <4>1. ~ Navigates(1)  BY <1>5, <1>10, <1>13, <3>4 DEF Navigates
      <4> QED  BY <1>7, <3>1, <3>2, <3>4, <4>1 DEF Wants, LastNavigate
    <3> QED  BY <3>3, <3>4
  <2> QED  BY <2>3, <2>4
<1>14. NoNews' => view'.tab = L  BY <1>1, <1>8, <1>9 DEF SyncInv
<1>15. NoNews' /\ Wants(L)' => dropped' \/ HeadsFor(L)'
  BY <1>5, <1>8, <1>9, <1>12, <1>13 DEF SyncInv
<1> HIDE DEF fails
<1> QED  BY <1>7, <1>8, <1>9, <1>14, <1>15 DEF SyncInv

(* The window hears the next: of a listing, or of a move that is the last, or *)
(* of one that is not.                                                        *)
LEMMA GuiHearsSyncs ==
  ASSUME FollowOK, SyncInv, Steady, GuiHears
  PROVE  SyncInv'
<1> DEFINE e == Head(toGui)
           L == follow.last
<1> SUFFICES ASSUME Told' PROVE SyncInv'
  BY UntoldSync
<1>1. UNCHANGED <<shell, follow, setting, link>> /\ toGui' = Tail(toGui) /\ toGui # <<>>
  BY DEF GuiHears, Steady
<1>2. Told  BY <1>1 DEF Told, Up
<1>3. view \in Views /\ toGui \in Seq(Events) /\ toThread \in Seq(Orders)
  BY DEF FollowOK, FollowTypes, Views
<1>4. /\ \A i \in DOMAIN toGui' : LastNews(i)' => i + 1 \in DOMAIN toGui /\ LastNews(i + 1) /\ toGui'[i] = toGui[i + 1]
      /\ NoNews' /\ IsNews(e) => LastNews(1)
      /\ NoNews' /\ ~ IsNews(e) => NoNews
      /\ e = toGui[1] /\ 1 \in DOMAIN toGui
      /\ IF toGui' = <<>> THEN Len(toGui) = 1 ELSE toGui'[Len(toGui')] = toGui[Len(toGui)]
  BY <1>1, <1>3, NewsHeard
<1>5. e \in Events  BY <1>1, <1>3
<1>6. \A i \in DOMAIN toGui' : LastNews(i)' => toGui'[i] = Call("moved", L)
  BY <1>2, <1>4 DEF SyncInv
<1>9. NoNews' => view'.tab = L
  <2> SUFFICES ASSUME NoNews' PROVE view'.tab = L
    OBVIOUS
  <2>1. CASE IsNews(e)
    <3>1. e = Call("moved", L)  BY <1>2, <1>4, <2>1 DEF SyncInv
    <3>2. e.what = "moved" /\ e.dir = L  BY <3>1, CallFacts
    <3>3. HearsMoved(L)  BY <3>2 DEF GuiHears
    <3> QED  BY <1>3, <3>3 DEF HearsMoved, NavigatesTo, Views
  <2>2. CASE ~ IsNews(e)
    <3>1. e.what = "listed"  BY <1>5, <2>2 DEF Events, IsNews, Call
    <3>2. view'.tab = view.tab  BY <1>3, <3>1 DEF GuiHears, HearsListed, Views
    <3> QED  BY <1>2, <1>4, <2>2, <3>2 DEF SyncInv
  <2> QED  BY <2>1, <2>2
<1> SUFFICES ASSUME NoNews', Wants(L)' PROVE dropped' \/ HeadsFor(L)'
  BY <1>1, <1>6, <1>9 DEF SyncInv
<1>7. CASE IsNews(e)
  <2>1. e = Call("moved", L)  BY <1>2, <1>4, <1>7 DEF SyncInv
  <2>2. e.what = "moved" /\ e.dir = L  BY <2>1, CallFacts
  <2>3. HearsMoved(L)  BY <2>2 DEF GuiHears
  <2>4. CASE L = view.browser
    <3>1. dropped' = Listing  BY <2>3, <2>4 DEF HearsMoved
    <3>2. CASE Listing
      BY <3>1, <3>2
    <3>3. CASE ~ Listing
      <4>1. toThread = <<>> /\ \A i \in DOMAIN toGui : toGui[i].what # "listed"  BY <3>3 DEF Listing
      <4>2. \A i \in DOMAIN toGui' : toGui'[i] \in Events /\ ~ IsNews(toGui'[i])
        BY <1>1, <1>3 DEF NoNews
      <4>3. \A i \in DOMAIN toGui' : toGui'[i].what = "listed"
        BY <4>2 DEF Events, IsNews, Call
      <4>4. \A i \in DOMAIN toGui' : i + 1 \in DOMAIN toGui /\ toGui'[i] = toGui[i + 1]
        BY <1>1, <1>3
      <4>5. \A i \in DOMAIN toGui' : FALSE  BY <4>1, <4>3, <4>4
      <4>6. toGui' = <<>>
        <5>1. toGui' \in Seq(Events)  BY <1>1, <1>3
        <5>2. DOMAIN toGui' = 1..Len(toGui') /\ Len(toGui') \in Nat  BY <5>1
        <5>3. Len(toGui') = 0  BY <4>5, <5>2
        <5> QED  BY <5>1, <5>3, EmptySeq
      <4>7. view'.browser = L /\ toThread' = toThread
        <5>1. CASE L = view.tab
          BY <2>3, <2>4, <5>1 DEF HearsMoved
        <5>2. CASE L # view.tab
          <6>1. NavigatesTo([view EXCEPT !.tab = L], L)  BY <2>3, <5>2 DEF HearsMoved
          <6>2. [view EXCEPT !.tab = L].browser = L  BY <1>3, <2>4 DEF Views
          <6> QED  BY <6>1, <6>2 DEF NavigatesTo
        <5> QED  BY <5>1, <5>2
      <4> QED  BY <1>1, <4>1, <4>6, <4>7 DEF HeadsFor
    <3> QED  BY <3>2, <3>3
  <2>5. CASE L # view.browser
    <3>1. dropped' = (L = view.tab \/ view.busy)  BY <2>3, <2>5 DEF HearsMoved
    <3>2. CASE L = view.tab \/ view.busy
      BY <3>1, <3>2
    <3>3. CASE ~ (L = view.tab \/ view.busy)
      <4> DEFINE v == [view EXCEPT !.tab = L]
                 c == Call("list", L)
      <4>1. NavigatesTo(v, L)  BY <2>3, <3>3 DEF HearsMoved
      <4>2. v.browser = view.browser /\ v.busy = view.busy  BY <1>3 DEF Views
      <4>3. toThread' = Append(toThread, c)  BY <2>5, <3>3, <4>1, <4>2 DEF NavigatesTo
      <4>4. c.dir = L  BY CallFacts
      <4> HIDE DEF c
      <4>5. toThread' # <<>> /\ toThread'[Len(toThread')] = c  BY <1>3, <4>3
      <4> QED  BY <1>1, <4>4, <4>5 DEF HeadsFor
    <3> QED  BY <3>2, <3>3
  <2> QED  BY <2>4, <2>5
<1>8. CASE ~ IsNews(e)
  <2>1. e.what = "listed"  BY <1>5, <1>8 DEF Events, IsNews, Call
  <2>2. HearsListed(e.dir)  BY <2>1 DEF GuiHears
  <2>3. view'.browser = e.dir /\ toThread' = toThread /\ dropped' = dropped
    BY <1>3, <2>2 DEF HearsListed, Views
  <2>4. Wants(L)  BY <1>1, <2>3 DEF Wants, LastNavigate, Navigates
  <2>5. dropped \/ HeadsFor(L)  BY <1>2, <1>4, <1>8, <2>4 DEF SyncInv
  <2>6. HeadsFor(L) => HeadsFor(L)'
    BY <1>1, <1>4, <2>3 DEF HeadsFor
  <2> QED  BY <2>3, <2>5, <2>6
<1> QED  BY <1>7, <1>8

(* The shell takes a line; where it tells of its moves the window will hear.  *)
LEMMA ShellTakesSyncs ==
  ASSUME FollowOK, SyncInv, Steady, ShellTakes
  PROVE  SyncInv'
<1> DEFINE t == Head(shell.typed)
           moves == ~ shell.job /\ t.what = "cd" /\ t.dir \notin Forbidden
           tells == moves /\ setting.announces /\ setting.following /\ Up
<1>1. UNCHANGED <<follow, view, toThread, dropped, setting, link>>  BY DEF ShellTakes, Gui, Steady
<1>2. shell'.at = IF moves THEN t.dir ELSE shell.at  BY TakenFacts
<1>3. IF tells THEN Post(Call("moved", t.dir)) ELSE toGui' = toGui  BY Zenon DEF ShellTakes
<1> HIDE DEF t
<1>4. CASE tells
  <2> SUFFICES ASSUME Told' PROVE SyncInv'
    BY UntoldSync
  <2>1. t.dir = follow.last  BY <1>1, <1>2, <1>4 DEF Told
  <2>2. toGui' = Append(toGui, Call("moved", t.dir))  BY <1>3, <1>4 DEF Post
  <2>3. IsNews(Call("moved", t.dir))  BY DEF IsNews, Call
  <2>4. ~ NoNews' /\ \A i \in DOMAIN toGui' : LastNews(i)' => toGui'[i] = Call("moved", t.dir)
    BY <2>2, <2>3, NewsIsLast DEF FollowOK, FollowTypes
  <2> QED  BY <1>1, <2>1, <2>4 DEF SyncInv
<1>5. CASE ~ tells
  <2>1. toGui' = toGui  BY <1>3, <1>5
  <2>2. Told' => Told  BY <1>1, <1>2, <1>5 DEF Told, Up
  <2>3. \A i : LastNews(i)' <=> LastNews(i)  BY <2>1 DEF LastNews
  <2>4. NoNews' <=> NoNews  BY <2>1 DEF NoNews
  <2>5. Wants(follow.last)' <=> Wants(follow.last)  BY <1>1 DEF Wants, LastNavigate, Navigates
  <2>6. HeadsFor(follow.last)' <=> HeadsFor(follow.last)  BY <1>1, <2>1 DEF HeadsFor
  <2> QED  BY <1>1, <2>1, <2>2, <2>3, <2>4, <2>5, <2>6 DEF SyncInv
<1> QED  BY <1>4, <1>5

(* The tab is shown again: the browser heads for the directory of the tab.    *)
LEMMA ShowingSyncs ==
  ASSUME FollowOK, SyncInv, Steady, TabShownAgain
  PROVE  SyncInv'
<1> DEFINE L == follow.last
           d == IF view.tab = NoDir THEN Home ELSE view.tab
           c == Call("list", d)
<1> SUFFICES ASSUME Told' PROVE SyncInv'
  BY UntoldSync
<1>1. UNCHANGED <<shell, follow, toGui, setting, link>>
  BY DEF TabShownAgain, BrowserShownAgain, Steady
<1>2. Told  BY <1>1 DEF Told, Up
<1>3. /\ view' = [view EXCEPT !.browser = d, !.busy = FALSE] /\ dropped' = dropped
      /\ toThread' = Append(toThread, c)
  BY <1>2 DEF TabShownAgain, BrowserShownAgain, BrowserStarts, Told
<1>4. view'.tab = view.tab  BY <1>3 DEF FollowOK, FollowTypes
<1>5. \A i : LastNews(i)' <=> LastNews(i)  BY <1>1 DEF LastNews
<1>6. NoNews' <=> NoNews  BY <1>1 DEF NoNews
<1>7. NoNews => HeadsFor(L)'
  <2> SUFFICES ASSUME NoNews PROVE HeadsFor(L)'
    OBVIOUS
  <2>1. d = L  BY <1>2 DEF SyncInv, Told
  <2>2. c.dir = L  BY <2>1, CallFacts
  <2> HIDE DEF c
  <2>3. toThread' # <<>> /\ toThread'[Len(toThread')] = c
    BY <1>3 DEF FollowOK, FollowTypes
  <2> QED  BY <1>1, <2>2, <2>3 DEF HeadsFor
<1> QED  BY <1>1, <1>2, <1>4, <1>5, <1>6, <1>7 DEF SyncInv

LEMMA SyncInductive == LinkTypeOK /\ FollowOK /\ SyncInv /\ [Next]_vars => SyncInv'
<1> SUFFICES ASSUME LinkTypeOK, FollowOK, SyncInv, [Next]_vars PROVE SyncInv'
  OBVIOUS
<1>1. CASE Connect
  <2>1. follow'.last = NoDir
    BY <1>1 DEF Connect, FollowConnects, Unfollowed
  <2> QED  BY <2>1, UntoldSync DEF Told
<1>2. CASE Disconnect \/ ShellCloses
  <2>1. ~ Up'  BY <1>2 DEF Disconnect, ShellCloses, LinkDisconnects, LinkCloses, Up
  <2> QED  BY <2>1, UntoldSync DEF Told
<1>3. ASSUME UNCHANGED followVars, Steady PROVE SyncInv'
  BY <1>3, SyncStill DEF followVars, Steady
<1>4. CASE UNCHANGED vars
  BY <1>3, <1>4 DEF vars, linkVars, Steady, LinkTypeOK
<1>5. CASE Monitoring \/ Tunnelling \/ Printing \/ SocketActivity \/ OnStatsTimer
  <2>1. Steady  BY <1>5, MonitoringIsSteady, PassIsSteady, TunnellingIsSteady
  <2>2. UNCHANGED followVars
    BY <1>5 DEF Monitoring, Tunnelling, Printing, SocketActivity, OnStatsTimer
  <2> QED  BY <1>3, <2>1, <2>2
<1>6. CASE Drain
  <2>1. Steady  BY <1>6, PassIsSteady
  <2> QED  BY <1>6, <2>1, SyncStill DEF Drain, Gui, Steady
<1>7. CASE Following
  <2>1. Steady  BY <1>7, FollowingIsSteady
  <2>2. UNCHANGED <<setting, link>>  BY <2>1 DEF Steady
  <2>3. follow \in FollowFields /\ shell \in Shells /\ view \in Views
    BY DEF FollowOK, FollowTypes, Shells, Views
  <2>4. CASE Tick
    <3>1. follow'.last = follow.last /\ follow'.requested = follow.requested /\ follow'.inFlight = follow.inFlight
      BY <2>3, <2>4, StartsPollKeeps DEF Tick
    <3> QED  BY <2>2, <2>4, <3>1, SyncStill DEF Tick, Gui
  <2>5. CASE Compares
    BY <2>1, <2>5, ComparesSyncs
  <2>6. CASE ReadsStat
    BY <2>2, <2>6, SyncStill DEF ReadsStat, Gui
  <2>7. CASE SendsCd
    BY <2>1, <2>7, SendsCdSyncs
  <2>8. CASE ThreadCall
    BY <2>1, <2>8, ThreadCallSyncs
  <2>9. CASE GuiHears
    BY <2>1, <2>9, GuiHearsSyncs
  <2>10. CASE CdExpires
    <3>1. follow'.last = follow.last /\ follow'.requested = follow.requested /\ follow'.inFlight = follow.inFlight
      BY <2>3, <2>10 DEF CdExpires, FollowFields
    <3> QED  BY <2>2, <2>10, <3>1, SyncStill DEF CdExpires, Gui
  <2>11. CASE Browse
    BY <2>1, <2>11, BrowseSyncs
  <2>12. CASE Downloads
    <3>1. view'.browser = view.browser /\ view'.tab = view.tab  BY <2>3, <2>12 DEF Downloads, Views
    <3> QED  BY <2>2, <2>12, <3>1, SyncStill DEF Downloads
  <2>13. CASE Types \/ JobEnds
    <3>1. shell'.at = shell.at  BY <2>3, <2>13 DEF Types, JobEnds, Shells
    <3> QED  BY <2>2, <2>13, <3>1, SyncStill DEF Types, JobEnds, Gui
  <2>14. CASE ShellTakes
    BY <2>1, <2>14, ShellTakesSyncs
  <2> QED  BY <1>7, <2>4, <2>5, <2>6, <2>7, <2>8, <2>9, <2>10, <2>11, <2>12, <2>13, <2>14 DEF Following, PollStep
<1>8. CASE TabShownAgain
  BY <1>8, ShowingIsSteady, ShowingSyncs
<1> QED  BY <1>1, <1>2, <1>4, <1>5, <1>6, <1>7, <1>8 DEF Next

-----------------------------------------------------------------------------
LEMMA InitInv == Init => LinkTypeOK /\ MonitorInv /\ TunnelsInv /\ ShownInv /\ FollowInv
<1> SUFFICES ASSUME Init PROVE LinkTypeOK /\ MonitorInv /\ TunnelsInv /\ ShownInv /\ FollowInv
  OBVIOUS
<1>1. LinkTypeOK /\ link = "down" /\ setting.monitoring \in BOOLEAN
  <2>1. setting \in Settings  BY DEF Init, LinkInit
  <2>2. setting.connects \in Nat /\ setting.events \in Nat /\ setting.monitoring \in BOOLEAN
    BY <2>1, SettingsAssumption
  <2>3. connects = 0 /\ events = 0 /\ link = "down" /\ wire = FALSE /\ unseen = FALSE
    BY DEF Init, LinkInit
  <2>4. connects \in 0..setting.connects /\ events \in 0..setting.events  BY <2>2, <2>3
  <2> QED  BY <2>1, <2>2, <2>3, <2>4 DEF LinkTypeOK
<1>2. MonitorInv
  <2> DEFINE on == setting.monitoring
  <2>1. /\ mon = [enabled |-> on, state |-> "idle", channel |-> FALSE, pending |-> FALSE,
                  received |-> FALSE, windows |-> FALSE, timer |-> FALSE, sample |-> "invalid"]
        /\ program = NoProgram /\ on \in BOOLEAN
    BY <1>1 DEF Init, MonitorInit
  <2> HIDE DEF on
  <2>2. mon \in Monitor /\ mon.state = "idle"  BY <2>1 DEF Monitor, States
  <2>3. program \in Program /\ program.asked = 0 /\ program.frames = <<>> /\ ~ program.runs
    BY <2>1 DEF NoProgram, Program
  <2> QED  BY <2>2, <2>3 DEF MonitorInv, Minds, Owes
<1>3. TunnelsInv /\ ShownInv
  BY <1>1 DEF Init, TunnelsInit, TunnelsInv, ShownInv, AsAnnounced, Up, Retries
<1>4. FollowOK
  <2>1. /\ shell = [at |-> Home, job |-> FALSE, typed |-> <<>>] /\ follow = Unfollowed
        /\ poll = Call("none", NoDir) /\ view = [tab |-> NoDir, browser |-> Home, busy |-> FALSE]
        /\ toThread = <<>> /\ toGui = <<>>
    BY DEF Init, FollowInit, Unfollowed
  <2>2. Home \in Dirs /\ MaxPosted \in Nat  BY DirsAssumption
  <2>3. shell \in Shells  BY <2>1, <2>2 DEF Shells
  <2>4. follow \in FollowFields  BY <2>1, UnfollowedTypes
  <2>5. poll \in Polls /\ poll.what = "none"  BY <2>1, CallFacts DEF Somewhere
  <2>6. view \in Views  BY <2>1, <2>2 DEF Views, Somewhere
  <2> QED  BY <2>1, <2>2, <2>3, <2>4, <2>5, <2>6 DEF FollowOK, FollowTypes, PollInv, Shells, Polls, Views
<1>5. StrayInv
  <2>1. shell.typed = <<>> /\ ~ strayed /\ poll.what = "none"
    BY DEF Init, FollowInit, Call
  <2> QED  BY <2>1 DEF StrayInv
<1>6. SyncInv
  BY <1>1 DEF SyncInv, Told, Up
<1> QED  BY <1>1, <1>2, <1>3, <1>4, <1>5, <1>6 DEF FollowOK, FollowInv

(* What no hypothesis is needed for.                                          *)
LEMMA SessionInvariant == Spec => [](LinkTypeOK /\ MonitorInv /\ FollowInv)
<1>1. LinkTypeOK /\ MonitorInv /\ FollowInv /\ [Next]_vars => (LinkTypeOK /\ MonitorInv /\ FollowInv)'
  BY LinkInductive, MonitorInductive, FollowTypesInductive, StrayInductive, SyncInductive
  DEF FollowOK, FollowInv
<1> QED  BY <1>1, InitInv, PTL DEF Spec

(* When nothing is under way the browser shows where the shell is, unless the *)
(* last move was dropped, and a cd of the connection goes into a job only     *)
(* when it was overtaken by the user's command: for any directories, commands *)
(* typed ahead, queued calls and reconnects.  src/src/mainwindow.cpp:1318     *)
THEOREM BrowserFollowsShell == Spec => []FollowingSound
<1>1. LinkTypeOK /\ FollowInv => FollowingSound
  <2> SUFFICES ASSUME LinkTypeOK, FollowInv PROVE FollowingSound
    OBVIOUS
  <2>1. ASSUME Quiet PROVE view.browser = shell.at \/ dropped
    <3>1. shell.at \in Dirs /\ shell.at # NoDir
      BY DirsAssumption DEF FollowInv, FollowTypes
    <3>2. Told /\ follow.last = shell.at  BY <2>1, <3>1 DEF Quiet, Told
    <3>3. NoNews  BY <2>1 DEF Quiet, NoNews
    <3>4. Wants(follow.last)  BY <2>1 DEF Quiet, Wants
    <3>5. dropped \/ HeadsFor(follow.last)  BY <3>2, <3>3, <3>4 DEF FollowInv, SyncInv
    <3> QED  BY <2>1, <3>2, <3>5 DEF Quiet, HeadsFor
  <2>2. strayed => overtaken  BY DEF FollowInv, StrayInv
  <2> QED  BY <2>1, <2>2 DEF FollowingSound, BrowserInSync, StraysOnlyOvertaken
<1> QED  BY <1>1, SessionInvariant, PTL

(* While the session is up no channel is released under a program that runs,  *)
(* whatever the server answers and whenever the option is switched.           *)
(* src/src/sshconnection.cpp:1890                                             *)
THEOREM ChannelsAreReleasedAfterTheEnd == Spec => ReleasedAfterEnd
<1>1. LinkTypeOK /\ MonitorInv /\ FollowInv /\ [Next]_vars =>
        [Up /\ link' = "up" /\ connects' = connects /\ program.runs => mon'.channel]_<<linkVars, monVars>>
  BY MonitorInductive DEF Releases
<1> QED  BY <1>1, SessionInvariant, PTL DEF Spec, ReleasedAfterEnd

(* While the session is up what was last announced of each tunnel of the list *)
(* is so, and a tunnel that the dialog shows as running runs, unless a retry  *)
(* has said it of a list that is gone or of a tunnel that the user has        *)
(* started meanwhile: for any lists without doubles, ports taken by others,   *)
(* retries, reconnects and tabs shown again.                                  *)
(* src/src/sshconnection.cpp:885, 917                                         *)
THEOREM TunnelsAreAsAnnounced ==
  ASSUME DistinctTunnels
  PROVE  Spec => []TunnelsSound
<1> DEFINE Inv == LinkTypeOK /\ MonitorInv /\ FollowInv /\ TunnelsInv /\ ShownInv
<1>1. Spec => [](TunnelsInv /\ ShownInv)
  <2>1. LinkTypeOK /\ TunnelsInv /\ ShownInv /\ [Next]_vars => (TunnelsInv /\ ShownInv)'
    BY TunnelsInductive, ShownInductive
  <2> QED  BY <2>1, InitInv, SessionInvariant, PTL DEF Spec
<1>2. Inv => TunnelsSound
  <2> SUFFICES ASSUME Inv PROVE TunnelsSound
    OBVIOUS
  <2>1. MonitorTypeOK  BY DEF MonitorInv, Minds, MonitorTypeOK
  <2>2. FollowTypeOK
    <3> DEFINE All == [what : {"cd", "job"}, dir : Dirs \cup {NoDir}, ours : BOOLEAN]
    <3>1. Typed("job", NoDir, FALSE) \in All
      BY DEF Typed
    <3>2. ASSUME NEW l \in Lines PROVE l \in All
      <4>1. CASE l = Typed("job", NoDir, FALSE)
        BY <3>1, <4>1, Zenon
      <4>2. CASE l \in [what : {"cd"}, dir : Dirs, ours : BOOLEAN]
        BY <4>2
      <4> QED  BY <3>2, <4>1, <4>2, Zenon DEF Lines
    <3> HIDE DEF All
    <3>3. shell.typed \in Seq(Lines)  BY DEF FollowInv, FollowTypes
    <3>4. shell.typed \in Seq(All)
      <4>1. \A i \in 1..Len(shell.typed) : shell.typed[i] \in All  BY <3>2, <3>3
      <4> QED  BY <3>3, <4>1
    <3> QED  BY <3>4 DEF FollowInv, FollowTypes, FollowTypeOK, FollowFields, Somewhere, All
  <2>3. TunnelsTypeOK
    <3>1. \A c \in chains : c.attempt \in 1..MaxRetries /\ c.index \in Indices
      BY DEF TunnelsInv, Retries
    <3>2. \A b \in 1..MaxBridges : Open(b) => bridges[b].of \in tunnels
      BY DEF TunnelsInv, Open, NoBridge, Carries
    <3>3. tunnels \subseteq UNION {ToSet(list) : list \in ToSet(setting.tunnels)}
      BY DEF TunnelsInv, Offered
    <3> QED  BY <3>1, <3>2, <3>3 DEF TunnelsTypeOK
  <2>4. TunnelsAgree
    <3>1. configs = <<>> \/ configs \in ToSet(setting.tunnels)  BY DEF TunnelsInv
    <3>2. DOMAIN configs \subseteq Indices  BY <3>1, ListFacts
    <3> QED  BY <3>2 DEF TunnelsInv, AsAnnounced, ShownInv, TunnelsAgree
  <2> QED  BY <2>1, <2>2, <2>3, <2>4 DEF TunnelsSound, TypeOK
<1> QED  BY <1>1, <1>2, SessionInvariant, PTL
=============================================================================
