------------------------------- MODULE SshFollow -------------------------------
(* Following: once a second the connection's thread reads, over SFTP, where   *)
(* the remote shell is and tells the tab, and the tab has the browser go      *)
(* there; a directory the user opens in the browser is listed and then typed  *)
(* into the shell as a cd, if no job has the terminal.  The remote side goes  *)
(* on between two reads of one poll.  The server has SFTP, and a directory    *)
(* one name: the resolved path is the one asked for.                          *)
EXTENDS SshLink, SequencesExt

CONSTANTS
  Dirs,         \* remote directories
  Forbidden,    \* those of them that can be listed but not entered
  Untypable,    \* those of them whose names hold control characters
  Home,         \* where the shell starts
  MaxTyped,     \* bound: commands typed ahead in the remote terminal
  MaxPosted,    \* bound: calls and signals queued between the two threads

  MaxAttempts   \* m_directoryDiscoveryAttempts at which the search ends

NoDir == "none"

ASSUME DirsAssumption ==
  /\ Forbidden \subseteq Dirs /\ Untypable \subseteq Dirs
  /\ Home \in Dirs \ Forbidden /\ NoDir \notin Dirs
  /\ MaxAttempts \in Nat \ {0} /\ MaxTyped \in Nat /\ MaxPosted \in Nat

VARIABLES
  shell,        \* external: where it is, has a job the terminal, what is typed ahead
  follow,       \* the m_...Directory... fields of the connection
  poll,         \* how far pollRemoteDirectory is, and the directory it has read
  view,         \* of the GUI: the tab's and the browser's directory, is a folder downloading
  toThread,     \* calls queued for the connection's thread
  toGui,        \* signals queued for the GUI thread
  strayed,      \* a cd meant for the shell went into a job
  overtaken,    \* it was sent after a command that the user had on its way
  dropped       \* a move was not passed on: to the browser, or by it to the shell

followVars == <<shell, follow, poll, view, toThread, toGui, strayed, overtaken, dropped>>

Typed(what, dir, ours) == [what |-> what, dir |-> dir, ours |-> ours]
Call(what, dir) == [what |-> what, dir |-> dir]

FollowInit ==
  /\ shell = [at |-> Home, job |-> FALSE, typed |-> <<>>]
  /\ follow = [pid |-> FALSE, attempts |-> 0, ticking |-> FALSE,
               last |-> NoDir, requested |-> NoDir, inFlight |-> NoDir, expired |-> FALSE]
  /\ poll = Call("none", NoDir)
  /\ view = [tab |-> NoDir, browser |-> Home, busy |-> FALSE]
  /\ toThread = <<>> /\ toGui = <<>>
  /\ strayed = FALSE /\ overtaken = FALSE /\ dropped = FALSE

Unfollowed ==
  [pid |-> FALSE, attempts |-> 0, ticking |-> FALSE,
   last |-> NoDir, requested |-> NoDir, inFlight |-> NoDir, expired |-> FALSE]
ThreadFree == poll.what = "none"
Post(e) == Len(toGui) < MaxPosted /\ toGui' = Append(toGui, e)
Gui == <<view, toThread, dropped>>
History == <<strayed, overtaken>>

-----------------------------------------------------------------------------
(* Connecting gives a new shell.  (Bound: where nothing is followed nobody    *)
(* browses and nobody types.)                                                 *)
FollowConnects ==
  /\ ThreadFree
  /\ shell' = [at |-> Home, job |-> FALSE, typed |-> <<>>]
  /\ follow' = [Unfollowed EXCEPT !.ticking = TRUE]
  /\ IF setting.following THEN Post(Call("connected", NoDir)) ELSE UNCHANGED toGui
  /\ UNCHANGED <<poll, Gui, History>>

FollowDisconnects ==
  /\ ThreadFree
  /\ follow' = Unfollowed
  /\ UNCHANGED <<shell, poll, toGui, Gui, History>>

FollowCloses ==
  /\ ThreadFree
  /\ follow' = [follow EXCEPT !.ticking = FALSE]
  /\ UNCHANGED <<shell, poll, toGui, Gui, History>>

(* pollRemoteDirectory: the search for the shell's process, then its cwd.     *)
StartsPoll(f) ==
  IF link # "up" \/ ~ setting.following THEN follow' = f /\ UNCHANGED poll
  ELSE IF ~ f.pid /\ ~ setting.proc
  THEN /\ follow' = [f EXCEPT !.attempts = IF @ < MaxAttempts THEN @ + 1 ELSE @,
                              !.ticking = @ /\ f.attempts + 1 < MaxAttempts]
       /\ poll' = Call("drain", NoDir)
  ELSE /\ follow' = [f EXCEPT !.pid = TRUE]
       /\ poll' = Call("seen", shell.at)

Tick ==
  /\ ThreadFree /\ follow.ticking /\ setting.following
  /\ StartsPoll(follow)
  /\ Absorbs
  /\ UNCHANGED <<shell, toGui, Gui, History, events>>

(* A cd that was in flight has arrived, or its time is over.                  *)
Settled(f) ==
  IF f.inFlight = NoDir \/ poll.dir = f.inFlight THEN [f EXCEPT !.inFlight = NoDir, !.expired = FALSE]
  ELSE [f EXCEPT !.inFlight = NoDir, !.expired = FALSE, !.last = NoDir]

(* The directory read is the one wanted, or the last one told.                *)
Reports(f) ==
  /\ IF poll.dir # f.last
     THEN follow' = [f EXCEPT !.last = poll.dir] /\ Post(Call("moved", poll.dir))
     ELSE follow' = f /\ UNCHANGED toGui
  /\ poll' = Call("drain", NoDir)

Compares ==
  /\ poll.what = "seen"
  /\ IF follow.inFlight # NoDir /\ poll.dir # follow.inFlight /\ ~ follow.expired
     THEN poll' = Call("drain", NoDir) /\ UNCHANGED <<follow, toGui>>
     ELSE LET f == Settled(follow)
          IN  IF f.requested # NoDir /\ f.requested # poll.dir
              THEN follow' = f /\ poll' = Call("stat", poll.dir) /\ UNCHANGED toGui
              ELSE Reports([f EXCEPT !.requested = NoDir])
  /\ UNCHANGED <<shell, Gui, History, linkVars>>

(* mutant: who has the terminal is not asked *)
ReadsStatBlindly ==
  /\ poll.what = "stat"
  /\ poll' = Call("send", poll.dir)
  /\ Absorbs
  /\ UNCHANGED <<shell, follow, toGui, Gui, History, events>>

(* The stat line is read: does the shell own the foreground process group?    *)
ReadsStat ==
  /\ poll.what = "stat"
  /\ poll' = Call(IF shell.job THEN "drain" ELSE "send", poll.dir)
  /\ Absorbs
  /\ UNCHANGED <<shell, follow, toGui, Gui, History, events>>

(* sendToShell: the command and the carriage return.                          *)
SendsCd ==
  /\ poll.what = "send"
  /\ shell' = [shell EXCEPT !.typed = Append(@, Typed("cd", follow.requested, TRUE))]
  /\ overtaken' = (overtaken \/ \E i \in DOMAIN shell.typed : shell.typed[i].what = "job")
  /\ follow' = [follow EXCEPT !.inFlight = follow.requested, !.requested = NoDir, !.expired = FALSE]
  /\ poll' = Call("drain", NoDir)
  /\ UNCHANGED <<toGui, Gui, strayed, linkVars>>

(* m_directoryChangeTimer passes five seconds.                                *)
CdExpires ==
  /\ follow.inFlight # NoDir /\ ~ follow.expired
  /\ follow' = [follow EXCEPT !.expired = TRUE]
  /\ UNCHANGED <<shell, poll, toGui, Gui, History, linkVars>>

-----------------------------------------------------------------------------
(* listDirectoryImpl: there is no session, or the directory cannot be opened  *)
(* (any may be unreadable or gone); or it is listed.                          *)
ListingFails(c) ==
  /\ UNCHANGED <<follow, poll, toGui>>
  /\ dropped' = \/ dropped
                \/ link # "down" /\ \/ c.what = "navigate" \/ view.browser # c.dir
                                    \/ \E i \in DOMAIN toGui : toGui[i].what = "listed"

(* navigateDirectory goes on to ask the shell for a directory that was listed *)
(* if its name can be typed.                                                  *)
Listed(c) ==
  /\ link # "down" /\ Post(Call("listed", c.dir))
  /\ IF c.what = "navigate" /\ setting.following /\ c.dir \notin Untypable
     THEN StartsPoll([follow EXCEPT !.requested = c.dir]) /\ UNCHANGED dropped
     ELSE UNCHANGED <<follow, poll>> /\ dropped' = (dropped \/ c.what = "navigate")

(* listDirectory and navigateDirectory, on the connection's thread.           *)
ThreadCall ==
  /\ ThreadFree /\ toThread # <<>>
  /\ ListingFails(Head(toThread)) \/ Listed(Head(toThread))
  /\ toThread' = Tail(toThread)
  /\ Absorbs
  /\ UNCHANGED <<shell, view, History, events>>

-----------------------------------------------------------------------------
(* navigateTo: the browser shows where it goes before the listing is there.   *)
NavigatesTo(v, d) ==
  IF v.busy \/ d = v.browser THEN view' = v /\ UNCHANGED toThread
  ELSE /\ Len(toThread) < MaxPosted
       /\ view' = [v EXCEPT !.browser = d]
       /\ toThread' = Append(toThread, Call("list", d))

(* A listing that was asked for earlier is still to come.                     *)
Listing == toThread # <<>> \/ \E i \in DOMAIN toGui : toGui[i].what = "listed"

(* The tab is told where the shell is, by a poll or by OSC 7, and passes it   *)
(* on if it is news to it.                                                    *)
HearsMoved(d) ==
  /\ dropped' = IF d = view.browser THEN Listing ELSE d = view.tab \/ view.busy
  /\ IF d = view.tab THEN UNCHANGED <<view, toThread>>
     ELSE NavigatesTo([view EXCEPT !.tab = d], d)

(* onConnectionSuccess: the browser starts where the tab was, or at home.     *)
BrowserStarts(busy) ==
  LET d == IF view.tab = NoDir THEN Home ELSE view.tab
  IN  /\ view' = [view EXCEPT !.browser = d, !.busy = busy]
      /\ Len(toThread) < MaxPosted
      /\ toThread' = Append(toThread, Call("list", d))
      /\ UNCHANGED dropped

(* The tab is shown again after another one, which ended the transfers; what  *)
(* happened meanwhile is not modelled.                                        *)
BrowserShownAgain ==
  /\ IF setting.following THEN BrowserStarts(FALSE) ELSE UNCHANGED Gui
  /\ UNCHANGED <<shell, follow, poll, toGui, History>>

HearsListed(d) ==
  /\ view' = [view EXCEPT !.browser = d]
  /\ UNCHANGED <<toThread, dropped>>

GuiHears ==
  /\ toGui # <<>>
  /\ LET e == Head(toGui) IN
       CASE e.what = "moved" -> HearsMoved(e.dir)
         [] e.what = "listed" -> HearsListed(e.dir)
         [] e.what = "connected" -> BrowserStarts(view.busy)
  /\ toGui' = Tail(toGui)
  /\ UNCHANGED <<shell, follow, poll, History, linkVars>>

(* The user opens a directory in the browser.                                 *)
Browse ==
  /\ setting.following /\ link # "down" /\ ~ view.busy /\ OneMore /\ Len(toThread) < MaxPosted
  /\ \E d \in Dirs \ {view.browser} :
       /\ view' = [view EXCEPT !.browser = d]
       /\ toThread' = Append(toThread, Call("navigate", d))
  /\ dropped' = FALSE
  /\ UNCHANGED <<shell, follow, poll, toGui, History, link, wire, unseen>> /\ Same

(* A folder download starts and ends, also when something else fails; while   *)
(* it lists, the browser stays.                                               *)
Downloads ==
  /\ setting.following /\ Up /\ OneMore
  /\ view' = [view EXCEPT !.busy = ~ @]
  /\ UNCHANGED <<shell, follow, poll, toThread, toGui, dropped, History, link, wire, unseen>> /\ Same

-----------------------------------------------------------------------------
(* The user types into the terminal: a cd, or a command that takes it over.   *)
Types ==
  /\ setting.following /\ Up /\ OneMore /\ Len(shell.typed) < MaxTyped
  /\ \E t \in {Typed("cd", d, FALSE) : d \in Dirs} \cup {Typed("job", NoDir, FALSE)} :
       shell' = [shell EXCEPT !.typed = Append(@, t)]
  /\ UNCHANGED <<follow, poll, toGui, Gui, History, link, wire, unseen>> /\ Same

(* External: the shell, or the job that has the terminal, takes a line.       *)
ShellTakes ==
  /\ link # "down" /\ shell.typed # <<>>
  /\ LET t == Head(shell.typed)
         rest == [shell EXCEPT !.typed = Tail(@)]
         moves == ~ shell.job /\ t.what = "cd" /\ t.dir \notin Forbidden
     IN  /\ shell' = IF shell.job THEN rest
                     ELSE IF t.what = "job" THEN [rest EXCEPT !.job = TRUE]
                     ELSE IF moves THEN [rest EXCEPT !.at = t.dir] ELSE rest
         /\ strayed' = (strayed \/ (shell.job /\ t.ours))
         /\ overtaken' = (overtaken \/ (t.what = "job" /\ poll.what = "send"))
         /\ IF moves /\ setting.announces /\ setting.following /\ Up
            THEN Post(Call("moved", t.dir)) ELSE UNCHANGED toGui
  /\ UNCHANGED <<follow, poll, Gui, linkVars>>

JobEnds ==
  /\ shell.job
  /\ shell' = [shell EXCEPT !.job = FALSE]
  /\ UNCHANGED <<follow, poll, toGui, Gui, History, linkVars>>

PollStep == Compares \/ ReadsStat \/ SendsCd

-----------------------------------------------------------------------------
FollowTypeOK ==
  /\ shell \in [at : Dirs, job : BOOLEAN,
                typed : Seq([what : {"cd", "job"}, dir : Dirs \cup {NoDir}, ours : BOOLEAN])]
  /\ follow.attempts \in 0..MaxAttempts
  /\ {follow.last, follow.requested, follow.inFlight, view.tab} \subseteq Dirs \cup {NoDir}
  /\ poll.what \in {"none", "seen", "stat", "send", "drain"}
  /\ view.browser \in Dirs
  /\ Len(toThread) <= MaxPosted /\ Len(toGui) <= MaxPosted

(* Nothing is under way between the shell, the connection and the window.     *)
Quiet ==
  /\ Up /\ setting.following /\ setting.proc
  /\ toThread = <<>> /\ toGui = <<>> /\ shell.typed = <<>> /\ ThreadFree
  /\ follow.requested = NoDir /\ follow.inFlight = NoDir
  /\ follow.last = shell.at

(* When nothing is under way the browser shows where the shell is, unless the *)
(* last move was dropped.  The shell's: the tab takes it for no news after a  *)
(* cd that was refused, a folder download holds the browser, or the browser   *)
(* takes itself to be there while an earlier listing is about to take it      *)
(* elsewhere, or has and the one that would bring it back fails.  The         *)
(* browser's: the directory opened cannot be listed, or not be typed.         *)
(* src/src/mainwindow.cpp:1318 "Keep the SFTP browser in sync with the        *)
(* terminal's working directory"                                              *)
BrowserInSync == Quiet => view.browser = shell.at \/ dropped

(* The same without the exception, which the code does not keep.              *)
BrowserAlwaysInSync == Quiet => view.browser = shell.at

(* A cd goes into a job only when the user had its command on the way to the  *)
(* shell while the connection found the shell in the foreground.              *)
(* src/src/sshconnection.cpp:1079 "Never type a cd into an editor, pager or   *)
(* other foreground job."                                                     *)
StraysOnlyOvertaken == strayed => overtaken
=============================================================================
