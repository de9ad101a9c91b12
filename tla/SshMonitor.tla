------------------------------ MODULE SshMonitor ------------------------------
(* Monitoring: SshConnection keeps one channel on which a small program of    *)
(* the server's answers each byte written to it with one sample.  pollStats   *)
(* takes the machine one step in every pass of onSocketActivity; a call that  *)
(* would block changes nothing and is not listed.  A pass is a map from       *)
(* monitor and program to what they may be after it, so that the handlers     *)
(* that end in one are composed with it.                                      *)
EXTENDS SshLink

VARIABLES
  mon,          \* the m_stats... fields
  program       \* external: the program at the server's end of the channel

monVars == <<mon, program>>

States == {"idle", "opening", "execing", "writing", "reading", "closing", "freeing"}

(* m_statsSampleTimer is invalid, below the interval, past it, or also past   *)
(* the three seconds that a failed command has to wait.                       *)
Monitor == [enabled : BOOLEAN, state : States, channel : BOOLEAN, pending : BOOLEAN,
            received : BOOLEAN, windows : BOOLEAN, timer : BOOLEAN,
            sample : {"invalid", "fresh", "due", "late"}]
Program == [kind : {"none", "opened", "linux", "windows"}, runs : BOOLEAN, asked : 0..2,
            frames : {<<>>, <<"good">>, <<"bad">>, <<"flood">>}, eof : BOOLEAN, ended : BOOLEAN,
            refuses : BOOLEAN]
NoProgram == [kind |-> "none", runs |-> FALSE, asked |-> 0, frames |-> <<>>,
              eof |-> FALSE, ended |-> FALSE, refuses |-> FALSE]

MonitorInit ==
  /\ mon = [enabled |-> setting.monitoring, state |-> "idle", channel |-> FALSE, pending |-> FALSE,
            received |-> FALSE, windows |-> FALSE, timer |-> FALSE, sample |-> "invalid"]
  /\ program = NoProgram

-----------------------------------------------------------------------------
(* pollStats, one operator for each state.                                    *)
Both(m, p) == [m |-> m, p |-> p]

Opening(m, p) ==
  IF p.refuses THEN {Both([m EXCEPT !.state = "idle"], [p EXCEPT !.refuses = FALSE])}
  ELSE {Both([m EXCEPT !.state = "execing", !.channel = TRUE], [p EXCEPT !.kind = "opened"])}

(* The other system's command ends at once, and so does any on a system with  *)
(* neither /proc nor PowerShell.                                              *)
Execing(m, p) ==
  LET kind == IF m.windows THEN "windows" ELSE "linux"
      runs == kind = setting.system
  IN  IF p.refuses THEN {Both([m EXCEPT !.state = "freeing"], [p EXCEPT !.refuses = FALSE])}
      ELSE {Both([m EXCEPT !.state = IF m.enabled THEN "writing" ELSE "closing"],
                 [p EXCEPT !.kind = kind, !.runs = runs, !.ended = ~ runs])}

(* A byte can be written to a program that has ended.                         *)
Writing(m, p) ==
  IF p.refuses THEN {Both([m EXCEPT !.state = "closing"], [p EXCEPT !.refuses = FALSE])}
  ELSE {Both([m EXCEPT !.pending = TRUE, !.sample = "fresh",
                       !.state = IF m.enabled THEN "reading" ELSE "closing"],
             IF p.runs THEN [p EXCEPT !.asked = @ + 1] ELSE p)}

(* finishStats over what has been read.                                       *)
FinishStats(m, frames) ==
  IF frames = <<>> \/ frames = <<"flood">> THEN m
  ELSE [m EXCEPT !.pending = FALSE, !.received = @ \/ frames = <<"good">>]

(* mutant: an end without a sample does not ask for the other collector *)
ReadingOneSystem(m, p) ==
  LET read == FinishStats(m, p.frames)
  IN  {Both(IF p.ended \/ p.frames = <<"flood">> THEN [read EXCEPT !.state = "closing"] ELSE read,
            [p EXCEPT !.frames = <<>>])}

Reading(m, p) ==
  LET read == FinishStats(m, p.frames)
      other == ~ read.received /\ ~ read.windows
      after == IF ~ p.ended THEN IF p.frames = <<"flood">> THEN [read EXCEPT !.state = "closing"] ELSE read
               ELSE IF other THEN [read EXCEPT !.state = "closing", !.windows = TRUE, !.sample = "invalid"]
               ELSE [read EXCEPT !.state = "closing"]
  IN  {Both(after, [p EXCEPT !.frames = <<>>])}

Closing(m, p) ==
  {Both(IF p.ended THEN [m EXCEPT !.state = "freeing"] ELSE m,
        [p EXCEPT !.eof = TRUE, !.frames = <<>>])}

Freeing(m, p) ==
  {Both([m EXCEPT !.channel = FALSE, !.state = "idle", !.timer = @ /\ m.enabled],
        [NoProgram EXCEPT !.refuses = p.refuses])}

Polled(m, p) ==
  CASE m.state = "idle" -> {Both(m, p)}
    [] m.state = "opening" -> Opening(m, p)
    [] m.state = "execing" -> Execing(m, p)
    [] m.state = "writing" -> Writing(m, p)
    [] m.state = "reading" -> Reading(m, p)
    [] m.state = "closing" -> Closing(m, p)
    [] m.state = "freeing" -> Freeing(m, p)

PollStats(m) == \E b \in Polled(m, program) : mon' = b.m /\ program' = b.p

-----------------------------------------------------------------------------
(* startStats: the machine leaves idle.                                       *)
StartStats(m) ==
  [m EXCEPT !.state = "opening", !.sample = "fresh", !.received = FALSE, !.pending = FALSE]

NextSample(m) == m.enabled /\ m.state = "reading" /\ ~ m.pending

(* onStatsTimer that ends without a pass.                                     *)
TimerRests ==
  /\ mon.timer /\ Up
  /\ mon.state = "idle" /\ ~ mon.enabled
  /\ mon' = [mon EXCEPT !.timer = FALSE]
  /\ UNCHANGED program

(* onStatsTimer, with the pass it ends in.                                    *)
TimerDrives ==
  /\ mon.timer /\ Up
  /\ \/ /\ mon.state = "idle" /\ mon.enabled
        /\ mon.sample \in {"invalid", "late"}
        /\ PollStats(StartStats(mon))
     \/ /\ mon.state # "idle"
        /\ NextSample(mon) => mon.sample \in {"due", "late"}
        /\ PollStats(IF NextSample(mon) THEN [mon EXCEPT !.state = "writing"] ELSE mon)

(* mutant: the channel is released without waiting for the program's end *)
ReloadedAtOnce(m, enabled) ==
  IF enabled THEN [m EXCEPT !.enabled = TRUE, !.timer = TRUE,
                            !.sample = IF m.state = "idle" THEN "invalid" ELSE @]
  ELSE IF m.state = "idle" THEN [m EXCEPT !.enabled = FALSE, !.timer = FALSE]
  ELSE [m EXCEPT !.enabled = FALSE, !.timer = TRUE,
                 !.state = IF m.state = "reading" THEN "freeing" ELSE @]

(* reloadMonitoringSettings                                                   *)
Reloaded(m, enabled) ==
  IF enabled THEN [m EXCEPT !.enabled = TRUE, !.timer = TRUE,
                            !.sample = IF m.state = "idle" THEN "invalid" ELSE @]
  ELSE IF m.state = "idle" THEN [m EXCEPT !.enabled = FALSE, !.timer = FALSE]
  ELSE [m EXCEPT !.enabled = FALSE, !.timer = TRUE,
                 !.state = IF m.state = "reading" THEN "closing" ELSE @]

(* closeStats                                                                 *)
Closed(m) ==
  [m EXCEPT !.state = "idle", !.channel = FALSE, !.sample = "invalid", !.timer = FALSE]

(* connectToHost: the system is unknown again, the option is read.            *)
MonitorConnects ==
  /\ mon' = Reloaded([Closed(mon) EXCEPT !.windows = FALSE], mon.enabled)
  /\ program' = NoProgram

MonitorDisconnects ==
  /\ mon' = Closed(mon)
  /\ program' = NoProgram

MonitorCloses ==
  /\ mon' = [mon EXCEPT !.timer = FALSE]
  /\ UNCHANGED program

(* The user turns monitoring on or off.  Without a session there is no timer  *)
(* to start; the option is all that changes.                                  *)
ToggleMonitoring ==
  /\ setting.monitoring /\ OneMore
  /\ mon' = IF link = "down" THEN [mon EXCEPT !.enabled = ~ @] ELSE Reloaded(mon, ~ mon.enabled)
  /\ UNCHANGED <<program, link, wire, unseen>> /\ Same

SampleAges ==
  /\ Up
  /\ \/ mon.sample = "fresh" /\ mon' = [mon EXCEPT !.sample = "due"]
     \/ mon.sample = "due" /\ mon' = [mon EXCEPT !.sample = "late"]
  /\ UNCHANGED <<program, linkVars>>

-----------------------------------------------------------------------------
(* External: the server.                                                      *)
Answers ==
  /\ program.runs /\ program.asked > 0 /\ program.frames = <<>>
  /\ \/ program' = [program EXCEPT !.asked = @ - 1, !.frames = <<"good">>] /\ UNCHANGED events
     \/ OneMore /\ \E f \in {"bad", "flood"} : program' = [program EXCEPT !.asked = @ - 1, !.frames = <<f>>]
  /\ Arrives /\ UNCHANGED mon

(* The program's loop ends with its input, after the requests that are in it. *)
Ends ==
  /\ program.runs /\ program.eof /\ program.asked = 0
  /\ program' = [program EXCEPT !.runs = FALSE, !.ended = TRUE]
  /\ Arrives /\ UNCHANGED <<mon, events>>

Dies ==
  /\ program.runs /\ OneMore
  /\ program' = [program EXCEPT !.runs = FALSE, !.ended = TRUE]
  /\ Arrives /\ UNCHANGED mon

Refuses ==
  /\ Up /\ mon.state \in {"opening", "execing", "writing"} /\ ~ program.refuses /\ OneMore
  /\ program' = [program EXCEPT !.refuses = TRUE]
  /\ UNCHANGED <<mon, link, wire, unseen>> /\ Same

ServerMonitors == Answers \/ Ends \/ Dies \/ Refuses

-----------------------------------------------------------------------------
MonitorTypeOK == mon \in Monitor /\ program \in Program

(* While the session is up, a channel whose program runs is not released: its *)
(* loop has seen the end of its input and is gone, or it never started.       *)
(* src/src/sshconnection.cpp:1890                                             *)
ReleasedAfterEnd == [][Up /\ link' = "up" /\ connects' = connects /\ program.runs => mon'.channel]_<<linkVars, monVars>>

(* A program that dies before its first sample makes a Linux server a Windows *)
(* one until the next connection.                                             *)
Misjudged == mon.windows /\ setting.system # "windows"
Wanted == Up /\ mon.enabled

(* With monitoring on, samples of the system keep coming: each request is     *)
(* answered and each answer is followed by a request, or the system has been  *)
(* misjudged, or it is one that no command fits.                              *)
(* src/src/sshconnection.cpp:1853, 1872, 1990                                 *)
SamplesKeepComing ==
  /\ []<>(~ Wanted \/ Misjudged \/ (mon.received /\ ~ mon.pending))
  /\ []<>(~ Wanted \/ Misjudged \/ mon.pending)
=============================================================================
