------------------------------- MODULE SshTabs -------------------------------
(* The window's SSH tabs, the SFTP browser they share, and the thread each    *)
(* tab's connection lives in.  The GUI thread asks a connection for something *)
(* by a queued call (inbox) and hears of it by queued signals (posted); the   *)
(* exceptions are a prompt, for which the connection's thread waits on the    *)
(* GUI thread, and a tab's destruction, for which the GUI thread waits on the *)
(* connection's thread.  A dialog runs an event loop of its own: signals and  *)
(* timers are served while one is open, the user can only answer it.  A local *)
(* terminal, tab 0, is always open to the left of the SSH tabs.               *)
EXTENDS Integers, Sequences, SequencesExt

CONSTANTS
  MaxTabs,      \* bound: tabs created, by the user or by a reconnection
  MaxEvents,    \* bound: what the user asks for and the servers spoil, in all
  AutoReconnect,\* the session's option
  Failures,     \* how an attempt may fail: "tcp", "auth", "shell"
  Prompts       \* what a thread may ask: "hostkey", "kbd" (keyboard-interactive)

ASSUME InstanceAssumption ==
  /\ MaxTabs \in Nat \ {0} /\ MaxEvents \in Nat
  /\ AutoReconnect \in BOOLEAN
  /\ Failures \subseteq {"tcp", "auth", "shell"}
  /\ Prompts \subseteq {"hostkey", "kbd"}

Tabs == 1..MaxTabs

VARIABLES
  order,        \* the SSH tabs of the window, from left to right
  current,      \* the tab shown; 0 is the local terminal
  sidebar,      \* the tab whose connection the browser has; 0: none
  inbox,        \* calls queued for the connection of each tab
  life,         \* "unused", "open", "closing" (deleteLater), "gone"
  active,       \* m_isActive
  timer,        \* m_reconnectTimer: "none", "running", "fired"
  phase,        \* what the thread of each connection is doing
  known,        \* the host key is in known_hosts
  posted,       \* events queued for the GUI thread
  dialogs,      \* the dialogs open, each inside the event loop of the one before
  waiting,      \* the tab whose destructor waits for its connection; 0: none
  astray,       \* a handler went on with a tab that is gone or with another's index
  events        \* how many of these there have been

desk == <<order, current, sidebar, inbox>>
tabState == <<life, active, timer>>
gui == <<dialogs, waiting, astray>>
vars == <<desk, tabState, phase, known, posted, gui, events>>

(* "up" is m_connected.  After "ended" the session is still there, its shell  *)
(* is not.  "hostkey" and "kbd" wait for the GUI thread's answer.             *)
Phases == {"idle", "connecting", "login", "hostkey", "kbd", "answered", "untrusted", "unanswered", "up", "ended"}
Asking(t) == phase[t] \in {"hostkey", "kbd"}

(* heard: the browser was attached when the signal was emitted.  depth: the   *)
(* event loop in which deleteLater was called.                                *)
Event(what, t, heard, depth) == [what |-> what, tab |-> t, heard |-> heard, depth |-> depth]
Events == [what : {"failed", "password", "ended", "hostkey", "kbd", "delete"},
           tab : Tabs, heard : BOOLEAN, depth : Nat]
Signal(what, t) == Event(what, t, sidebar = t, 0)
(* A deletion waits until control is back in the loop in which it was asked.  *)
May(e) == e.what = "delete" => Len(dialogs) <= e.depth
Dialog(what, t, index) == [what |-> what, tab |-> t, index |-> index]

Init ==
  /\ order = <<>> /\ current = 0 /\ sidebar = 0
  /\ inbox = [t \in Tabs |-> <<>>]
  /\ life = [t \in Tabs |-> "unused"]
  /\ active = [t \in Tabs |-> TRUE]
  /\ timer = [t \in Tabs |-> "none"]
  /\ phase = [t \in Tabs |-> "idle"]
  /\ known = FALSE /\ posted = <<>>
  /\ dialogs = <<>> /\ waiting = 0 /\ astray = FALSE
  /\ events = 0

Running == ~ astray
OneMore == events < MaxEvents /\ events' = events + 1
GuiRuns == Running /\ waiting = 0
UserActs == GuiRuns /\ dialogs = <<>>
Position(d, t) == IF t = 0 THEN 0 ELSE CHOOSE i \in 1..Len(d.order) : d.order[i] = t

-----------------------------------------------------------------------------
(* What the GUI thread does to the window and the browser.  A handler does    *)
(* several of these in a row, so they map a desk to a desk.                   *)
Desk == [order |-> order, current |-> current, sidebar |-> sidebar, inbox |-> inbox]
DeskBecomes(d) ==
  /\ order' = d.order /\ current' = d.current
  /\ sidebar' = d.sidebar /\ inbox' = d.inbox

(* startSession: a connection that is not up is asked to connect, whatever it *)
(* was asked before.                                                          *)
StartSession(d, t) ==
  IF phase[t] = "up" THEN d ELSE [d EXCEPT !.inbox[t] = Append(@, "connect")]

(* mutant: a local terminal leaves the browser as it is *)
ShownIfSsh(d) ==
  IF d.current = 0 THEN d ELSE StartSession([d EXCEPT !.sidebar = d.current], d.current)

(* onCurrentTabChanged: the browser goes with the tab shown.                  *)
Shown(d) ==
  IF d.current = 0 THEN [d EXCEPT !.sidebar = 0]
  ELSE StartSession([d EXCEPT !.sidebar = d.current], d.current)

Detached(d, t) == IF d.sidebar = t THEN [d EXCEPT !.sidebar = 0] ELSE d

(* onConnectSession starts the session, and showing the new tab does so again *)
(* before its thread can have connected.                                      *)
Opened(d, t) == Shown(Shown([d EXCEPT !.order = Append(@, t), !.current = t]))

(* A tab leaves the tab bar.  The bar announces a current tab when the one    *)
(* shown goes, and also when one to its left goes and its index changes.      *)
Removed(d, i) ==
  LET rest == RemoveAt(d.order, i)
      shown == Position(d, d.current)
      left == [d EXCEPT !.order = rest]
  IN  IF i > shown THEN left
      ELSE IF i < shown THEN Shown(left)
      ELSE Shown([left EXCEPT !.current =
                   IF rest = <<>> THEN 0 ELSE rest[IF i > Len(rest) THEN Len(rest) ELSE i]])

NextTab == CHOOSE t \in Tabs : life[t] = "unused" /\ \A s \in Tabs : life[s] = "unused" => t <= s
TabsLeft == \E t \in Tabs : life[t] = "unused"

-----------------------------------------------------------------------------
(* The user.                                                                  *)
OpenSession ==
  /\ UserActs /\ TabsLeft /\ OneMore
  /\ life' = [life EXCEPT ![NextTab] = "open"]
  /\ DeskBecomes(Opened(Desk, NextTab))
  /\ UNCHANGED <<active, timer, phase, known, posted, gui>>

SwitchTab(t) ==
  /\ UserActs /\ OneMore /\ t # current
  /\ t = 0 \/ \E i \in 1..Len(order) : order[i] = t
  /\ DeskBecomes(Shown([Desk EXCEPT !.current = t]))
  /\ UNCHANGED <<tabState, phase, known, posted, gui>>

(* The end of onTabCloseRequested: the tab at an index leaves the window, and *)
(* the tab asked for is deleted later.                                        *)
CloseTab(t, i) ==
  /\ DeskBecomes(Removed(Detached(Desk, t), i))
  /\ life' = [life EXCEPT ![t] = "closing"]

(* A tab whose session is active asks first, and remembers tab and index.     *)
RequestClose(i) ==
  LET t == order[i] IN
  /\ UserActs /\ OneMore
  /\ \/ /\ active[t]
        /\ dialogs' = Append(dialogs, Dialog("close", t, i))
        /\ UNCHANGED <<desk, life, posted>>
     \/ /\ ~ active[t]
        /\ CloseTab(t, i)
        /\ posted' = Append(posted, Event("delete", t, FALSE, 0))
        /\ UNCHANGED dialogs
  /\ UNCHANGED <<active, timer, phase, known, waiting, astray>>

(* onReconnectRequested: the tab is swapped for a fresh one with the same     *)
(* session.  A tab that has left the window is not looked for in vain: the    *)
(* fresh one is opened all the same.                                          *)
Replace(t) ==
  LET d == Detached(Desk, t)
      here == \E i \in 1..Len(order) : order[i] = t
  IN  /\ TabsLeft
      /\ DeskBecomes(Opened(IF here THEN Removed(d, Position(d, t)) ELSE Desk, NextTab))
      /\ life' = [life EXCEPT ![NextTab] = "open", ![t] = IF here THEN "closing" ELSE @]
      /\ posted' = IF here THEN Append(posted, Event("delete", t, FALSE, Len(dialogs))) ELSE posted
      /\ UNCHANGED <<active, phase, known, gui>>

RequestReconnect(t) ==
  /\ UserActs /\ OneMore /\ life[t] = "open" /\ ~ active[t] /\ t = current
  /\ timer' = [timer EXCEPT ![t] = "none"]
  /\ Replace(t)

(* Three seconds are enough for a tab to be deleted, unless a dialog holds    *)
(* the deletion back; a timer that runs out meanwhile still has its tab.      *)
TimerFires(t) ==
  /\ GuiRuns /\ timer[t] = "running"
  /\ life[t] = "open" \/ \E i \in 1..Len(posted) : posted[i].tab = t /\ ~ May(posted[i])
  /\ timer' = [timer EXCEPT ![t] = "fired"]
  /\ Replace(t) /\ UNCHANGED events

-----------------------------------------------------------------------------
(* The user answers the innermost dialog.                                     *)
Top == dialogs[Len(dialogs)]
CloseDialog == dialogs' = Front(dialogs)

(* The handler that asked goes on with its tab and its index.  What follows   *)
(* when that is not the tab at that index any more is not modelled.           *)
InPlace(d) == d.index <= Len(order) /\ order[d.index] = d.tab
AnswerClose ==
  /\ GuiRuns /\ dialogs # <<>> /\ Top.what = "close" /\ CloseDialog
  /\ \/ UNCHANGED <<desk, life, posted, astray>>
     \/ /\ ~ InPlace(Top)
        /\ astray' = TRUE
        /\ UNCHANGED <<desk, life, posted>>
     \/ /\ InPlace(Top)
        /\ CloseTab(Top.tab, Top.index)
        /\ posted' = Append(posted, Event("delete", Top.tab, FALSE, Len(dialogs) - 1))
        /\ UNCHANGED astray
  /\ UNCHANGED <<active, timer, phase, known, waiting, events>>

(* onPasswordRequired: the password goes to the connection the browser has by *)
(* now, if it has one; without a password the browser is stopped.             *)
PasswordAsked == GuiRuns /\ dialogs # <<>> /\ Top.what = "password" /\ CloseDialog

GivePassword ==
  /\ PasswordAsked
  /\ inbox' = IF sidebar = 0 THEN inbox ELSE [inbox EXCEPT ![sidebar] = Append(@, "connect")]
  /\ UNCHANGED <<order, current, sidebar, tabState, phase, known, posted, waiting, astray, events>>

CancelPassword ==
  /\ PasswordAsked
  /\ sidebar' = 0
  /\ UNCHANGED <<order, current, inbox, tabState, phase, known, posted, waiting, astray, events>>

(* The connection's thread is let go with the answer.                         *)
AnswerPrompt ==
  /\ GuiRuns /\ dialogs # <<>> /\ Top.what \in {"hostkey", "kbd"} /\ CloseDialog
  /\ \/ /\ phase' = [phase EXCEPT ![Top.tab] = IF Top.what = "hostkey" THEN "login" ELSE "answered"]
        /\ known' = (known \/ Top.what = "hostkey")
        /\ UNCHANGED events
     \/ /\ phase' = [phase EXCEPT ![Top.tab] = IF Top.what = "hostkey" THEN "untrusted" ELSE "unanswered"]
        /\ OneMore /\ UNCHANGED known
  /\ UNCHANGED <<desk, tabState, posted, waiting, astray>>

-----------------------------------------------------------------------------
(* The GUI thread handles the first event it may.                             *)
FirstEvent(i) == /\ May(posted[i]) /\ \A j \in 1..(i - 1) : ~ May(posted[j])

(* mutant: only the tab shown reconnects *)
StopShown(t) ==
  /\ active' = [active EXCEPT ![t] = FALSE]
  /\ timer' = IF AutoReconnect /\ t = current /\ timer[t] = "none" THEN [timer EXCEPT ![t] = "running"] ELSE timer

(* The tab notes that its session stopped; it reconnects if told so, once.    *)
Stop(t) ==
  /\ active' = [active EXCEPT ![t] = FALSE]
  /\ timer' = IF AutoReconnect /\ timer[t] = "none" THEN [timer EXCEPT ![t] = "running"] ELSE timer

(* mutant: the tab hears of a failure only through the browser *)
HearIfAttached(i) ==
  LET e == posted[i] IN
  /\ e.what \in {"failed", "ended"}
  /\ IF e.heard THEN Stop(e.tab) ELSE UNCHANGED <<active, timer>>
  /\ sidebar' = IF e.what = "failed" /\ e.heard /\ sidebar = e.tab THEN 0 ELSE sidebar
  /\ posted' = RemoveAt(posted, i)
  /\ UNCHANGED <<order, current, inbox, life, gui>>

(* connectionFailed, and shellClosed, which the browser does not hear.        *)
HearStopped(i) ==
  LET e == posted[i] IN
  /\ e.what \in {"failed", "ended"} /\ Stop(e.tab)
  /\ sidebar' = IF e.what = "failed" /\ e.heard /\ sidebar = e.tab THEN 0 ELSE sidebar
  /\ posted' = RemoveAt(posted, i)
  /\ UNCHANGED <<order, current, inbox, life, gui>>

HearQuestion(i) ==
  LET e == posted[i] IN
  /\ e.what \in {"password", "hostkey", "kbd"}
  /\ dialogs' = Append(dialogs, Dialog(e.what, e.tab, 0))
  /\ posted' = RemoveAt(posted, i)
  /\ UNCHANGED <<desk, tabState, waiting, astray>>

(* ~TerminalTab: no more signals, then the connection is asked to disconnect  *)
(* and the GUI thread waits until it has.                                     *)
Destroy(i) ==
  LET t == posted[i].tab IN
  /\ posted[i].what = "delete"
  /\ inbox' = [inbox EXCEPT ![t] = Append(@, "disconnect")]
  /\ waiting' = t
  /\ posted' = RemoveAt(posted, i)
  /\ UNCHANGED <<order, current, sidebar, tabState, dialogs, astray>>

HandleEvent ==
  /\ GuiRuns
  /\ \E i \in 1..Len(posted) :
       FirstEvent(i) /\ (HearStopped(i) \/ HearQuestion(i) \/ Destroy(i))
  /\ UNCHANGED <<phase, known, events>>

-----------------------------------------------------------------------------
(* The thread of a connection.                                                *)
ThreadLeaves == UNCHANGED <<order, current, sidebar, dialogs, astray>>
Moves(t, p) == phase' = [phase EXCEPT ![t] = p]

TakesCallsUp == {"idle", "up"}  \* mutant: a connection is of no use without its shell
TakesCalls == {"idle", "up", "ended"}

(* What is left of the events when a tab is gone: of its own, only a question *)
(* that the browser has been sent.                                            *)
Outlives(e, t) == e.tab = t => e.what = "password"
WithoutTab(t) ==
  LET left[i \in 0..Len(posted)] ==
        IF i = 0 THEN <<>>
        ELSE IF Outlives(posted[i], t) THEN Append(left[i - 1], posted[i]) ELSE left[i - 1]
  IN  left[Len(posted)]

(* It takes a call when the one before is over.  disconnectFromHost ends the  *)
(* destruction: the thread quits.                                             *)
TakeCall(t) ==
  /\ Running /\ phase[t] \in TakesCalls /\ inbox[t] # <<>>
  /\ \/ /\ Head(inbox[t]) = "connect"
        /\ Moves(t, "connecting")
        /\ inbox' = [inbox EXCEPT ![t] = Tail(@)]
        /\ UNCHANGED <<life, timer, waiting, posted>>
     \/ /\ Head(inbox[t]) = "disconnect"
        /\ Moves(t, "idle")
        /\ inbox' = [inbox EXCEPT ![t] = <<>>]
        /\ life' = [life EXCEPT ![t] = "gone"]
        /\ timer' = [timer EXCEPT ![t] = "none"]
        /\ waiting' = 0
        /\ posted' = WithoutTab(t)
  /\ UNCHANGED <<active, known, events>> /\ ThreadLeaves

Emit(signals) == posted' = posted \o signals
ThreadSteps == ThreadLeaves /\ UNCHANGED <<inbox, tabState, known, waiting>>

(* openSocket, a bastion, a handshake, the host key: whatever goes wrong is   *)
(* one failure, and the connection is as before the call.                     *)
AttemptFails(t) == Moves(t, "idle") /\ Emit(<<Signal("failed", t)>>)

Trusted == known \/ "hostkey" \notin Prompts
Reach(t) ==
  /\ Running /\ phase[t] = "connecting"
  /\ \/ "tcp" \in Failures /\ OneMore /\ AttemptFails(t)
     \/ /\ ~ Trusted
        /\ Moves(t, "hostkey") /\ Emit(<<Signal("hostkey", t)>>) /\ UNCHANGED events
  /\ ThreadSteps

(* Only the browser hears passwordRequired, and only if it is attached.       *)
AuthenticationFails(t) ==
  /\ Moves(t, "idle")
  /\ Emit(IF sidebar = t THEN <<Signal("failed", t), Signal("password", t)>>
          ELSE <<Signal("failed", t)>>)

(* authenticateSession, openShell.  A shell that does not open is announced   *)
(* as a failure, and the connection is up all the same.                       *)
Login(t) ==
  /\ Running /\ phase[t] \in {"login", "answered"} \union (IF Trusted THEN {"connecting"} ELSE {})
  /\ \/ Moves(t, "up") /\ UNCHANGED <<posted, events>>
     \/ "shell" \in Failures /\ OneMore /\ Moves(t, "up") /\ Emit(<<Signal("failed", t)>>)
     \/ "auth" \in Failures /\ OneMore /\ AuthenticationFails(t)
     \/ /\ "kbd" \in Prompts /\ phase[t] # "answered"
        /\ Moves(t, "kbd") /\ Emit(<<Signal("kbd", t)>>) /\ UNCHANGED events
  /\ ThreadSteps

(* The user refused the key, or gave no answer to the server's question.      *)
Refused(t) ==
  /\ Running
  /\ \/ phase[t] = "untrusted" /\ AttemptFails(t)
     \/ phase[t] = "unanswered" /\ AuthenticationFails(t)
  /\ UNCHANGED events /\ ThreadSteps

(* handleShellClosed.                                                         *)
ShellEnds(t) ==
  /\ Running /\ phase[t] = "up" /\ OneMore
  /\ Moves(t, "ended") /\ Emit(<<Signal("ended", t)>>)
  /\ UNCHANGED <<inbox, tabState, known, waiting>> /\ ThreadLeaves

Answer == AnswerClose \/ GivePassword \/ CancelPassword \/ AnswerPrompt
Thread(t) == TakeCall(t) \/ Reach(t) \/ Login(t) \/ Refused(t)
User ==
  \/ OpenSession \/ (\E t \in 0..MaxTabs : SwitchTab(t))
  \/ (\E i \in 1..Len(order) : RequestClose(i)) \/ (\E t \in Tabs : RequestReconnect(t))
System == HandleEvent \/ Answer \/ \E t \in Tabs : TimerFires(t) \/ Thread(t)

Next == User \/ System \/ \E t \in Tabs : ShellEnds(t)

Spec == Init /\ [][Next]_vars
(* As long as an event loop, a timer, a thread or an open dialog can go on,   *)
(* one of them does.  The events of the user and the servers are bounded, so  *)
(* none of these can be put off for ever by the others.                       *)
FairSpec == Spec /\ WF_vars(System)

-----------------------------------------------------------------------------
(* Every variable keeps its type.                                             *)
TypeOK ==
  /\ order \in Seq(Tabs) /\ current \in 0..MaxTabs /\ sidebar \in 0..MaxTabs
  /\ inbox \in [Tabs -> Seq({"connect", "disconnect"})]
  /\ life \in [Tabs -> {"unused", "open", "closing", "gone"}]
  /\ active \in [Tabs -> BOOLEAN] /\ timer \in [Tabs -> {"none", "running", "fired"}]
  /\ phase \in [Tabs -> Phases] /\ known \in BOOLEAN /\ posted \in Seq(Events)
  /\ dialogs \in Seq([what : {"close", "password", "hostkey", "kbd"}, tab : Tabs, index : Nat])
  /\ waiting \in 0..MaxTabs /\ astray \in BOOLEAN /\ events \in 0..MaxEvents

(* "Share the terminal's SSH connection with the SFTP browser": between two   *)
(* handlers the browser has the connection of the tab shown or none, so no    *)
(* file operation goes to the server of another tab, whatever tabs were       *)
(* closed, swapped or shown meanwhile.                                        *)
SidebarFollows == sidebar \in {0, current}

(* A tab that shows a session as active has one, or its connection is at work *)
(* or has been asked, or the news that it stopped is on its way: no stop is   *)
(* lost between the threads, the browser and the tab.                         *)
ActiveMeansAlive ==
  \A i \in 1..Len(order) :
    LET t == order[i] IN
    active[t] => \/ phase[t] \notin {"idle", "ended"}
                 \/ inbox[t] # <<>>
                 \/ \E j \in 1..Len(posted) : posted[j].tab = t /\ posted[j].what \in {"failed", "ended"}

(* The two threads wait for each other: the GUI thread for a disconnection,   *)
(* the connection's thread for an answer of the GUI thread.                   *)
Deadlocked == waiting # 0 /\ Asking(waiting)

(* Destroying a tab does not block the window for ever, except in that way.   *)
GuiResponds == waiting # 0 ~> (waiting = 0 \/ Deadlocked)

(* With automatic reconnection a stopped tab does not stay in the window: a   *)
(* failure, a dropped shell or both, at any time, lead to a new attempt.      *)
StoppedReconnects ==
  \A t \in Tabs :
    (AutoReconnect /\ life[t] = "open" /\ ~ active[t])
      ~> (life[t] # "open" \/ Deadlocked \/ astray \/ ~ TabsLeft)

(* "Password required for user@host": the connection that asked for the       *)
(* password tries again with it, as long as its tab is there.                 *)
PasswordReachesAsker ==
  [][(GivePassword /\ life[Top.tab] = "open") => inbox'[Top.tab] # inbox[Top.tab]]_vars

(* "Are you sure you want to disconnect and close this tab?": while the       *)
(* question is open, the tab it is about stays where the handler will look    *)
(* for it to close it.                                                        *)
CloseHitsItsTab == \A i \in 1..Len(dialogs) : dialogs[i].what = "close" => InPlace(dialogs[i])

(* The tabs: types, and no stop lost on its way to its tab.                   *)
TabsSound == TypeOK /\ ActiveMeansAlive
=============================================================================
