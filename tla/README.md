# Specifications of BanchoXterm

BanchoXterm (`src/`) is a multi-protocol terminal emulator and remote session
manager in C++/Qt. This directory holds TLA+ models of the parts of it whose
correctness depends on the order of events, the TLC configurations that check
them on small instances, and proofs of theorems about them that TLAPS checks for
every value of the constants. All source paths below are relative to `src/src/`.

## 1. The system

| component | state it keeps | operations | talks to |
|---|---|---|---|
| SFTP transfer queue (`sftpsidebar.cpp`) | waiting requests, running workers, active / paused / listing flags, the request in progress, the batch's conflict object, the attached connection | enqueue upload / download, start loop, folder download, worker finished, retry, pause, cancel, stop session, attach connection, operation finished | workers (queued signals; direct calls to their atomic flags), browser connection (queued signals both ways), conflict object |
| SFTP transfer worker (`sftptransferworker.cpp`) | started / finished / cancel flags, a connection of its own | start, connected, failed, finished, cancel, pause, resume | queue, its `SshConnection` |
| Transfer conflict (`transferconflict.h`) | the batch's decision and cancelled flag, a mutex; the stored policy | resolve | GUI thread (blocking call), every worker of the batch |
| SSH connection (`sshconnection.cpp`) | session, channel, sftp handle, transfer flags, statistics, X11 channels, tunnels | connect (directly or through a bastion), open shell, read, write, transfers, folder polling, statistics, close | terminal tab, sidebar, tunnels |
| SSH tunnels (`sshtunnel.cpp`) | server or listener, bridges, SOCKS state | accept, read, poll, close | SSH connection, local sockets |
| FTP client (`ftpclient.cpp`) | control and data sockets, the one pending reply handler, transfer and pause flags, reconnect counter | connect and log in, list, download, upload, delete, make folder, rename, cancel, pause, reconnect | sidebar, conflict object |
| Credentials (`keyring.cpp`, `masterpasswordmanager.cpp`) | stored verification value and salt, the unlocked key, stored entries | set / disable master password, unlock, lock, store, look up, delete | settings, Secret Service / KWallet / Windows credentials, every connection |
| Terminal tab (`terminaltab.cpp`) | connection, process or serial port, reconnect counter, stop prompt, XMODEM state | start, input, closed, reconnect, send file, destroy | SSH connection, PTY, serial port |
| Main window (`mainwindow.cpp`) | tabs, panes, one sidebar per session with transfers | open, close, switch tab, reconnect | terminal tabs, sidebars |
| Panel groups (`mainwindow.cpp`) | open groups with their panes, windows of detached tabs, synchronized tabs, saved groups | split, arrange, detach, group, activate, merge, save, synchronize, start | terminal tabs, settings |
| Session store (`session.cpp`, `sessionssidebar.cpp`, `sessiondialog.cpp`) | the saved sessions; each sidebar's copy; groups, notes, order | load, save, edit, duplicate, delete, import, group, drag | files, settings, credentials |
| Terminal widget (`vtterminalwidget.cpp`) | cells, cursor, scrollback, parse buffer, selection, highlight cache | write, resize, paint, scroll, select, search | terminal tab |
| Sensitive data filter (`sensitivedatafilter.h`) | a prefix held back | process | session log |
| Updater, X server manager, RDP, VNC, ConPTY | a process, a socket or a request each | start, stop, reply | external programs |
| Other widgets (settings, highlighting, shortcuts, appearance) | what is on screen | editing | settings |

Three kinds of thread run: the GUI thread, one thread for each terminal tab's SSH
connection, one for each running transfer. Qt queues signals between them; the
exceptions are the transfer flags (atomics, set directly from the GUI thread),
the conflict object (a mutex and a blocking call into the GUI thread) and the
`std::shared_ptr` to it.

What is hard in this code, with the line where it bites, is the list `hazards` of
`PROJECT.json`: results without an identity, signals of a forgotten worker or
connection that arrive late, a nested event loop in a dialog while threads wait
on it, flags reset by one thread after another has set them, retries, limits.

What makes each part correct:

* Transfers: every requested file is waiting, carried by one worker, or over;
  one file is never written twice at the same time and never overwritten without
  an answer; a retry is bounded; a cancelled batch starts nothing; a batch ends;
  the files of a batch share one answer.
* FTP: a reply is given to the command that is waiting for it; a success is
  reported only for a transfer that completed; credentials are
  sent encrypted when TLS is asked for; every operation reports its result once.
  (The first two and the last hold until a data connection breaks; section 3.)
* Credentials: nothing is stored in clear under a master password; the key in
  memory is the one the settings verify.
* Session store: a saved session is in the file until the user deletes it; a
  linked bastion is the one saved now; the tree shows every session once, in its
  group, and no two groups are merged.
* SSH session: monitoring keeps asking and releases its channel; browser and shell
  end in one directory, and nothing is typed into a foreground job; each tunnel is
  in the state last announced, and none that the browser shows as running is stopped;
  what one reader takes off the socket is not lost to the others.
* Tabs: the browser keeps to the tab shown, a stopped tab can be reconnected.
* Panes: every tab lies in one place that can be reached; synchronized input
  reaches only what is in sight.
* Terminal widget: the screen does not depend on how the stream was cut.
* Serial transfer: the receiver has a beginning of the file; complete means complete;
  losses within the limit are mended; every transfer ends.

## 2. Modules

| module | role |
|---|---|
| `TransferConflict` | the data of `transferconflict.h`: what is answered without asking, what an answer changes |
| `SftpTransfers` | queue, workers, browser connection and conflict locking as one state machine |
| `TransferBatch` | the abstract promise: per file a stage and a count of retries |
| `SftpTransfersRefinement` | the mapping from `SftpTransfers` to `TransferBatch` |
| `MCSftpTransfers` | the instances TLC checks |
| `SftpTransfersProofs` | types, the safety of the parallel workers, the queue (each request in one place, no silent overwrite, cancellation) and the steps of the refinement, proved |
| `FtpClient`, `MCFtpClient` | the FTP client against an external server, and its instances |
| `FtpClientProofs` | its replies, results and confirmed transfers, and nothing in clear, proved |
| `SshTabs`, `MCSshTabs` | the window's SSH tabs, the browser they share, their connections' threads, and its instances |
| `SshTabsProofs` | the browser follows the tab shown, and stops are heard, proved |
| `VtTerminal`, `MCVtTerminal` | the terminal widget: parser, screen, scrollback, selection, search |
| `VtTerminalProofs` | cuts of the stream, the screen's shape, the view, painting and searching, proved |
| `SshLink` | an SSH session as its services see it: up or down, what is unread |
| `SshMonitor`, `SshFollow`, `SshTunnels` | monitoring, directory following, tunnels: one service each |
| `SshSession`, `MCSshSession` | the composition: one thread, one socket, the passes of `onSocketActivity` |
| `SshSessionProofs` | monitoring, following and tunnels over one socket, proved |
| `Vault` | key stores and master password |
| `SessionStore`, `MCSessionStore` | saved sessions, sidebars and dialogs over the `Vault` |
| `SessionStoreProofs` | the vault and the saved sessions under every command, proved |
| `SessionTree`, `MCSessionTree` | the tree of groups, its notes and its order |
| `Panes`, `MCPanes` | panel groups, panes, detached tabs, synchronized input |
| `PanesProofs` | every tab can be reached, and no session ends by a layout, proved |
| `SerialTransfer`, `MCSerialTransfer` | XMODEM, YMODEM and ZMODEM over a lossy line |
| `SerialTransferProofs` | what the receiver has, and what the retries mend, proved |

A property that several parts make up is a conjunction of named parts
(`ClientSound`, `ScreenSound`, `TunnelsSound`, ...), defined at the end of its module;
each part has its own comment.

### SftpTransfers

`queue`, `active`, `transferActive`, `transferPaused`, `activeTransfer`,
`dirDownload`, `dirCancelled`, `connected` are the sidebar's members
(`sftpsidebar.h` 140-173); `conn` names the attached connection, so that a signal
of an earlier one can be told apart; `batch` names the object `m_conflict` points
to and `connBatch` the one the browser connection was given. `workers[w]` is a
thread with its phase and the three atomics that matter: the worker's own cancel
flag and its connection's cancel and pause flags. `browser` is the queue of
requests on the browser connection's thread, `posted` the queue of its signals for
the GUI thread. `files` says of each destination whether it is absent, partial or
complete. `asked` and `finished` are history variables.

A GUI handler is one action because the GUI thread runs it to the end:
`Enqueue` (`beginTransferBatch`, `enqueueUpload`, `enqueueDownloadTo`),
`CancelTransfers`, `ToggleTransferPause`, `CloseTab` (`stopSession`),
`SwitchConnection` (`setConnection`, `startSession`), `WatchedFileChanged`,
`FinishParallelTransfer`, `ConnectionSuccess`, `ConnectionFailed`,
`DirectoryListed`, `OperationFinished`. The handlers share the helpers they share
in the code: `StartParallelTransfers`, `StartNextTransfer`,
`StartDirectoryDownload`, `FinishTransferQueue`, `StopParallelTransfers`.

A worker's run is cut where another thread can observe or disturb it: after its
only look at its own cancel flag (`Connect`), where the connection's flags are
reset (`BeginUpload`, and `OpenDestination` for a download), where it looks at
the destination (`CheckDestination`), where it takes the conflict mutex
(`LockConflict`), where the GUI thread answers (`Prompt`, `AnswerConflict`), where
it opens the file (`OpenDestination`) and in the copy loop (`Copy`, seen at its
last iteration). The dialog is application modal, so while one is open the user
can do nothing else, but queued signals and other workers' prompts are served by
its event loop, as in Qt.

### FtpClient

Everything runs in the GUI thread, so an action is one event of a socket, of the
timer or of the user, with all the calls its handler makes. `pending` is
`m_pendingHandler`: the name of the lambda that waits (`pasv`, `begun` for the 150
of LIST and RETR, `stored` for the one of STOR, `final` for the end of a
transfer, ...) with the command and the operation it was made for, which the code
does not keep and `RepliesMatch` needs. `early` is `m_earlyTransferReply`. `data` is
the data socket and where the pieces of the file are: at their source, in the
client's socket, at their destination. `armed` says that `disconnected()` is
connected: for an upload only after the 150, and a socket that closes before is
not noticed. `req` holds the cancel and pause requests; the operators of a handler
take it as a parameter because a handler reads what it has just written.

A reply is read by `ReadReply`, one disjunct per lambda. `Ended` is the
`disconnected()` handler with `expectTransferReply`, `ListingDone`, `DownloadDone` and
`UploadDone` what they do with the final reply, `PumpUpload` and `Pulled` the pumps.
`ProcessDirectory` and `UploadSucceeded` are `processDirectoryUpload` and
`reportUploadResult`; where they would call each other for ever, `overflow` becomes
true and nothing of the GUI thread happens again.

The server is external (`ServerAnswers`, `ServerEnds`): it answers commands in their
order with the codes the client tells apart, and may close the data before or
after it says so. `owned` says who has the client: the sidebar, which deletes it
on `connectionFailed`, or nobody, which is the only case in which the reconnect
timer ever fires.

A data connection fails in three ways. `DataRefused` is an error before it is open.
`DataBreaks` is `errorOccurred` of an open one, or of a TLS handshake whose certificate
is not accepted: the failure is reported at once, the queue goes on while it is
being reported, and then `DataAborts` is the abort the handler ends with, whose
`disconnected()` waits for the transfer's reply as after any other end: a second result. In between the
user may ask for the next operation, and `RetriedDownload` is the queue that tries a failed
download again, whose `PASV` then shares the one handler with the old transfer. `broken` notes
that this has happened.

The caller asks for one operation after the other, as the queue does. The browser
can break this (a refresh or a deletion during a transfer replaces the handler);
that and the nested event loop of the conflict dialog are not modelled. `createDirectory` behaves as
`deleteFile` and has no action of its own. The texts of listings are left out.

### SshTabs

`order`, `current` and `sidebar` are the tab bar and the connection the browser
is attached to; `inbox[t]` holds the queued calls for the connection of tab `t`, `posted`
the signals and deletions queued for the GUI thread. `active` and `timer` are
`m_isActive` and `m_reconnectTimer`, `phase[t]` is where the connection's thread is in
`connectToHost`. The first four form a *desk*: a GUI handler calls several others
that change it (`onReconnectRequested` removes a tab, which shows another one, then
opens one, which shows it), so `Shown`, `Detached`, `Opened`, `Removed` and `StartSession`
map a desk to a desk and an action composes them. `Removed` models Qt's tab bar, which announces
a current tab also when only its index changes.

Dialogs nest: `dialogs` is the stack of open ones, the user can only answer the
innermost, and signals and timers are served under it. A deletion asked for in
one event loop waits until control is back in that loop (`May`). Two waits cross the
threads: a host key or keyboard-interactive prompt (`promptHostKey`,
`promptKbdInteractive`: the thread is in phase `hostkey` or `kbd`), and a tab's
destruction (`Destroy` until the thread takes `disconnect`: `waiting`, while which the
GUI thread does nothing else).

A signal is heard by the browser if it was attached when the signal was sent and,
for `connectionFailed`, still is; `passwordRequired` has no such guard
(`setConnection`). Left out: panel groups and split panes, browsers kept in the
background for their transfers, tabs that are not SSH but for one local terminal,
several rounds of keyboard-interactive questions, and two hosts (one known host
key for all). The reconnect timer takes three seconds, so a timer of a closed tab
is let fire only while a dialog holds the tab's deletion back.

### VtTerminal

`writeData` appends a chunk to `m_parseBuffer` and obeys every complete item in it.
The model sends items (a character of one, two or four bytes, an escape sequence)
as sequences of bytes and cuts them anywhere (`WriteData`, `WriteRest`); `byByte`
is the screen the same bytes give when they come one at a time. `ItemLength` is the
loop of `parseBuffer`, `Csi` is `parseCsi` with the code's own bounds: the cells
are one array, so that `x = cols` is the first cell of the next row, and `wild` says
that a write fell outside the array. A line number counts from the oldest line of
the scrollback. `ResizeEvent`, `SetTerminalFont`, `WheelEvent`, the three mouse
handlers, `PaintEvent` (only what it indexes) and `FindText` in both directions
are the user's and the window's. `gone` counts the lines output has dropped from the
scrollback or erased with it: a history variable by which `ViewHolds` tells a line from
another of the same number.

### SshSession

One thread serves a session, and any libssh2 call reads the packets of all
channels off the socket: `SshLink` keeps only whether something is unread (`wire`)
and whether output of the shell is not shown (`unseen`). `SocketActivity` is one
pass of `onSocketActivity` (shell, tunnels, monitor); `OnStatsTimer` and `Drain` (the
end of a poll of the directory) end in the same pass.

* `SshMonitor`: `mon.state` is the state of `pollStats`, one operator per state; the
  program on the server is external and may end at any time. `reloadMonitoringSettings`,
  `closeStats`, the sample timer and the fallback to the Windows command are there.
* `SshFollow`: the shell, the connection and the browser each have a directory.
  `poll` is `pollRemoteDirectory` cut between its blocking calls, `toGui` and `toThread`
  the queued signals; the tab filters a move it takes for no news, the window has
  the browser navigate, the browser sends a `cd`. A listing may fail (`ListingFails`), and the
  name of a directory may hold control characters (`Untypable`), which is listed but never
  typed: the browser has gone to either before the thread looks. `strayed`, `overtaken` and
  `dropped` are history variables.
* `SshTunnels`: the tunnels of the session in force, the retry chains with the
  configuration they were started for, the states announced (`told`), those the browser
  shows (`shown`, its `m_tunnelStates`), and bridges with the steps of the SOCKS handshake
  (`ClientSays`, `SocketReadyRead`) and of their polling (`PollBridge`).

`TabShownAgain` is another tab shown and this one after it (`startSession`): the browser
starts in the directory it is told next and takes every tunnel for stopped. Hiding and
showing are one step; a tunnel announced to the browser is heard at once. The
server has SFTP, and a directory has one path, so that the resolved path of a listing is
the one asked for.

### Vault, SessionStore and SessionTree

An entry is known by the name it is stored under, so its value says only in which
form it lies there: nothing, plain, or sealed with a key. A key is a master
password with its salt. A call to one of the two key stores may fail, and one that
is killed after three seconds may have done its work (`faults`). A worker's lookup
is cut where the window's dialog can come between (`LookupReads`, `LookupAsks`,
`PromptAnswered`, `LookupOpens`).

`SessionStore` keeps `sessions.json` as the sequence of sessions it holds, each
sidebar's copy of it (`cache`), the open dialog and one open tab. Every command
that writes the file writes a whole list; a session has a host and a bastion, typed
or linked. A tab's `Dial` reads the route and the password in one step; in the code the
connection to the host and its handshake lie between.

`SessionTree` keeps what is in the settings (groups, notes, order,
closed groups) beside each session's group in the file, which may keep its old
content. The tree is rebuilt after each command by `Loaded`, as in the code. A group is a
text, modelled as what lies between its slashes. The dialogs of a group take proper paths, a
session's dialog any text (`OddTexts`: "/b", "a/", "/"): `EnsureGroup` makes an item "b" at the top
of "/b" and keeps the text with it, and `Written` is the text a drag or the end of the program
makes of the names shown (`onSessionsReordered`), which is "b".

### Panes

A group is its panes with their tabs and the set of shown panes; the tree of
splitters is left out, and so is which pane is active, since a press into a pane
changes only that. Commands are one action each: connect, close, detach, bring
back, move, split, close a pane, grid, single pane, activate / create / open / save /
rename / delete / close a group, choose synchronized tabs, restart, and the
reconnection of a tab, which shows the tab's group, swaps the tab and shows the former
group again.

### SerialTransfer

`tab` holds the `m_xmodem...` fields. A handler writes to the port while it runs, so
its operators append to `written`, which the action moves to the line at its end.
The timer is started once for a transfer and not again for a packet, so a tick
(`OnTimeout`) may come at any time, whatever is on its way, and counts also while the receiver has
still to ask. The check of the port (1547) and the beginning of a transfer are one step; in the
code two dialogs lie between.
The line loses and spoils at most `MaxFaults` items; the device is external: a
shell in which a receiver may be started, with the block numbers, the fallback from
CRC to checksum and YMODEM's headers. `world` keeps the file's size, the faults, whether a tick
fell on something in flight (`overtaken`), whether a receiver was there from the beginning
(`awaited`), and what has gone wrong that no retry can mend. ZMODEM is a process (`zmodem`, `running`): its end is all
the tab sees.

### TransferBatch

Each file is idle, waiting, running, finished or gone, with a bounded count of
retries. Two running files never share a key, at most `Limit` run, only one
result arrives at a time, what is over stays over, and everything asked for is
over one day. `FileState` in `SftpTransfersRefinement` computes the stage from
the queue, the workers and the listing in progress.

## 3. Runs

| run | question | instance |
|---|---|---|
| `batch` | is one batch handled correctly under failures, conflicts, retries and cancel? | two uploads to one remote file, a folder with one entry and a download; three workers, limit 2, three conflict objects |
| `sessions` | who asks which conflict object when tabs are closed and switched? | two uploads to one file, two connections, three conflict objects, an auto-upload at a time |
| `promise` | does the queue implement `TransferBatch`, and does every batch end? | a download, then a folder with an entry; two workers, pause and cancel |
| `open_twice` | "Never open the same destination concurrently" (1690) with an auto-upload during the batch | violated |
| `ftp` | does every FTP operation get its one result, by its own reply, in every order of replies, data, cancel and pause, until a data connection breaks? | three operations of any kind, two connections, with and without TLS, one broken data connection |
| `tabs` | does the browser keep to the tab shown, is every stop noticed and every stopped tab reconnected, does destroying a tab end? | three tabs, three events of the user or the servers, every failure and prompt |
| `screen` | does the screen depend on the cuts of the stream; do edits stay in their line; does painting index what is there; does the view hold; does search visit every match? | two items of eleven kinds in every cut, two events, two sizes, scrollback of three lines |
| `ssh` | do monitoring, following and tunnels keep their promises over one socket? | nine settings: a feature at a time on each kind of server, tunnels with and without something that ticks |
| `profiles` | is a session, a password or a key lost or laid open by dialogs, sidebars, imports, failing key stores and the master password? | a bastion and a session through it, one import, one failed call, two salts, two commands |
| `groups` | do tree, settings and file agree whatever is renamed, moved or deleted? | two names, three texts with empty names, depth two, four groups, two sessions, three commands |
| `panes` | can every tab be reached, and does synchronized input stay in sight? | three tabs, three groups of up to three panes, eight commands |
| `serial` | does complete mean complete, do losses within the limit mend, does a transfer end? | files of no, one and three packets, block numbers that wrap at three, one retry, one fault, two transfers |

Bounds. Two requests with one key and one or two without are the least with
which holding back, overtaking by a retry and the limit can go wrong; a third
waiting request repeats what the second does. Two workers are needed for every
race between workers; `batch` has a third, so that the limit of two could be exceeded. One retry more than the bound
would need a third failure of one item, which `MaxRetries` = 2 allows: the bound is
reached. Three conflict objects are the one the sidebar is made with and two
batches, so a forgotten worker of one batch can meet the next. Two connections
give the late signals of the first. `MaxBrowser` bounds only the auto-uploads the
user causes. The runs stop when every request was asked for and has ended, which
is why deadlock is not checked.

`ftp`: three operations let a failed one leave something behind (a folder upload
that stays active, `inTransfer`, a request) for a second and a third. Two pieces
are the least file that can be cut. Two connections by the user and the reconnects
between them cover a connection with what an earlier one left. `Faults` leaves out
`loss` (the control connection lost under a transfer, with a client nobody
deletes: the hazards say what happens) and `Controls` leaves out `folder` (cancel and
pause of a folder upload, likewise). One data connection breaks (a second one is left
out, `again`), at the last operation but one or later (`MaxAfter`), since nothing is claimed of what follows
it but that the reconnect timer runs only without a connection and nothing is sent in
clear: the code then reports twice (`OneResult` in section 4), and replies meet
handlers of another operation. `Answered` lists the ways in which an
operation of the model stays without a result: a folder upload, a pause, a data
connection that ended before the client listened (`Stranded`: a cancel between `STOR` and its 150,
a server that hangs up in the handshake), a refusal taken for
150 (`Silent`), and whatever follows a broken data connection. The run shows that there is no other
among the faults it takes in. Its fairness is that the event loop delivers
what has happened and that the server answers (`WF` of `System`); losing
connections, aborting, and all the user does is not fair.

`tabs`: three events are two tabs and one thing that goes wrong or is asked for, or
one tab and two of them; what follows from them (reconnections, answers of
dialogs, second calls) is not counted. Three tabs leave one for a reconnection
beside two of the user's, or two reconnections of one. `StoppedReconnects` excepts a
window without tabs left (the bound), a handler gone astray (`CloseHitsItsTab`) and a
frozen window. `GuiResponds` has one exception, `Deadlocked`: the GUI thread waits in
`~TerminalTab` (425) for a thread that waits for its answer to a prompt; the run
shows that it is the only one. Fairness is weak fairness of `System`, everything
that event loops, timers, threads and answers do taken together; it
suffices because the events are bounded. The user's own acts are not fair, and a
bounded model stops, so deadlock is not checked.

`screen`: two items and two events let one item meet the state another has left
(a cursor behind the last column, a scrollback at another width, a match at the
edge); the items are one of each kind the parser knows. Four-byte characters are
left out (section 4); `ItemsWhole` and `NeedleStandsAlone`, hypotheses of two theorems,
are true of this instance. `LineEditsStay` tries K, P and @ in every state reached, so
it needs no item for each. A write outside the array ends the model, as it may end
the program.

`ssh`: `AllSettings` takes the features one at a time and then tunnels with the
monitor on (something ticks) and off. Three or four events are a connection's two
or three users (the option, a port, a client) and one fault. `FairSpec`: timers
fire, notifiers of a socket with data fire, queued calls are served, the server
answers and its shell reads; users, the network's faults and the end of programs
are not fair. `NothingStays` excepts a session in which nothing ticks,
`SamplesKeepComing` a Linux server taken for Windows. `FollowingSound` excepts the `cd` that was
overtaken and the moves that were `dropped`: by the tab, which takes one for no news after a
refused `cd`; by the browser, which a folder download holds, which takes itself to be
where an earlier listing is about to take it away from, or whose listing back fails; and by the connection,
which does not type the `cd` to a directory it could not list or whose name holds a control
character. Each of these is needed: without any one of them the run finds the two apart.
`TunnelsSound` excepts announcements by the
chain of a former connection (`misled`) and claims of what the browser shows only that no
stopped tunnel is shown as running; a running one is shown as stopped after the tab was shown
again (`DialogAgrees` in section 4). One directory can be listed and not entered, one entered and not typed.

`profiles`: one import and one dialog, or two of either, are what one command can
leave for another; two salts let a key be followed by another one. `groups`: three
commands suffice to rename what was moved into what was made. `NoMerge` says what is spared by whom:
a rename spares every group, the end of the program those whose text does not begin with a
slash, a drag those whose names are not empty unless it drops a group into one without a
name; the run finds each of these conditions needed. `TreeSound` excepts the notes of a nameless group at the
top, which are left to no group. `panes`: eight
commands reach a split, detached, grouped and synchronized layout and then lose it;
three tabs are the least with which one is moved between two others. These models
stop at their bounds, so deadlock is not checked.

`serial`: with one retry and one fault every decision of the counter is met; block
numbers that wrap at three let a late packet be taken for a later one. `FairSpec`: the
timer runs and what is on the line arrives; nothing the user does, no fault, and not
the start of a receiver is fair. `DeliverySound` and `RetriesSuffice` except
disturbed transfers (`Disturbed`: a key in the stream, a disk that cannot be read,
a second transfer beside the first). After an answer the timer overtook (`overtaken`)
complete need not mean complete, and a receiver has a beginning only of a file whose
packets have block numbers of their own, none of them that of a header (`ShortFile`;
`NeverAGap` in section 4 is the counterexample otherwise). The file of one packet is the only
one of the three sizes that is short when block numbers wrap at three, so the run meets both sides of
the exception; the theorem is about all sizes.
`RetriesSuffice` is about a receiver that was there from the beginning and keeps to CRC. It
excepts a transfer given up before the receiver was heard (the ticks of the wait count), and one in which a
tick fell on a packet or an answer in flight, which happens on a line of any speed, since the timer
is not restarted for a packet: then one loss more can end it with the tab a packet ahead
(`RetriesSufficeOvertaken` and `RetriesSufficeUnheard` in section 4).

Fairness of the transfers (`FairSpec` of `SftpTransfers`): every thread runs (weak fairness of the worker and browser
steps), the GUI event loop delivers (weak fairness of `Delivery`,
`FinishParallelTransfer`, `Prompt`), the dialog is answered, a paused transfer is
resumed. The copy loop and the folder upload poll their flags every 50 ms
(`sshconnection.cpp` 1310-1315) while the user may pause again: they are strongly
fair, which says that the user leaves a transfer resumed for longer than a poll
now and then. No other act of the user is fair.

## 4. Disagreements between the code and its comments

`open_twice` is a run: `onOperationFinished` (997) cannot tell whose result it gets.
The success of an auto-upload during a batch starts the request the start loop was
holding back, on the browser connection, while a worker writes the file, against
the comment at 1690: "Never open the same destination concurrently".

The following properties are stated in the modules and do not hold of the code
either. No run checks them; each is refuted by adding it to a configuration as
said here.

| property | refuted in | what happens |
|---|---|---|
| `CancelNotLost` (`SftpTransfers`) | `sessions.cfg` with `Controls = {"cancel"}` | the upload clears the cancel flag (`sshconnection.cpp` 1488) after the worker's only look at its own |
| `ForgottenWorkersAreIgnored` (`SftpTransfers`) | `sessions.cfg` with `Controls = {"close"}` | `finishParallelTransfer` (1767) winds up the queue before it looks whether the worker is one of its own |
| `FolderUploadsEnd` (`FtpClient`) | `ftp.cfg` with `Kinds = {"putDir"}` | `reportUploadResult(true)` and `processDirectoryUpload` (`ftpclient.cpp` 552, 563) call each other without end |
| `DownloadsComplete` (`FtpClient`) | `ftp.cfg` with `Kinds = {"get"}` | a download paused when the server closes the data connection loses what was received and not read, and is reported as finished |
| `OneResult` (`FtpClient`) | `ftp.cfg` | an error of a data connection that is open is reported by `errorOccurred` (`ftpclient.cpp` 282-294), and the abort's `disconnected()` ends in a second result, of whatever operation is asked for by then |
| `UploadsConfirmed` (`FtpClient`) | `ftp.cfg` | the retry of an upload whose data connection broke takes the reply to its `SIZE` for the final one of the old upload |
| `CloseHitsItsTab` (`SshTabs`) | `tabs.cfg` | `onTabCloseRequested` (`mainwindow.cpp` 1468) uses `tab` and `index` after the event loop of its question, in which the reconnect timer may have replaced the tab |
| `PasswordReachesAsker` (`SshTabs`) | `tabs.cfg` | the failure signal that precedes `passwordRequired` (`sshconnection.cpp` 587) detaches the browser, so the password is sent nowhere, or to the connection of a tab shown meanwhile |
| `ChunksDoNotMatter` (`VtTerminal`) | `screen.cfg` with `Items <- MCWide` | `decodeUtf8` (155) knows no four-byte characters: the last byte swallows what follows it, if that has arrived |
| `NeverAGap` (`SerialTransfer`) | `serial.cfg` with `Sizes = {2}` | after an acknowledgement too many the tab is a block ahead and ends its file; if the EOT is lost, a receiver that expects block number 0 stores the empty last header (`terminaltab.cpp` 1703) as data |
| `RetriesSufficeOvertaken` (`SerialTransfer`) | `serial.cfg` | the timer is not restarted for a packet (`terminaltab.cpp` 1629): a packet in flight is sent again and answered twice, the tab takes the second answer for the next packet's, and gives up a packet ahead after one loss |
| `RetriesSufficeUnheard` (`SerialTransfer`) | `serial.cfg` | the ticks count while the receiver is about to ask (`terminaltab.cpp` 1618) |
| `BrowserAlwaysInSync` (`SshFollow`) | `ssh.cfg` | the tab drops a move it takes for no news after a refused `cd`; the browser has gone to a directory (`sftpsidebar.cpp` 1487-1497) that cannot be listed or typed (`sshconnection.cpp` 1322-1330) |
| `DialogAgrees` (`SshTunnels`) | `ssh.cfg` | a tab that is shown again has all its tunnels stopped in the browser's dialog (`sftpsidebar.cpp` 740), and nothing is announced again |
| `TextsNeverMerge` (`SessionTree`) | `groups.cfg` | a session's group "/b" (`sessiondialog.cpp` 1035) is shown as an item "b" (`sessionssidebar.cpp` 270-273) and written back as "b" (726), with the notes: merged with the group of that name, against the comment at 41 |
| `KeptThroughDisable` (`Vault`) | `profiles.cfg` | entries sealed under an earlier key stay sealed when the master password is switched off |
| `EditKeepsPasswords` (`SessionStore`) | `profiles.cfg` with `Forms <- ProxyForms` | a dialog accepted as it is deletes or empties a password whose lookup failed, and a tunnel's proxy password always |
| `ReconnectSwaps`, `DetachedFromHere`, `OwnSavedGroup` (`Panes`) | `panes.cfg` | a detached tab stays beside its fresh one; a tab detached a second time keeps its first group; two open groups can be saved under one name |

## 5. Proofs

Every theorem is about any values of its module's CONSTANTS that satisfy the module's
named assumptions, and TLC evaluates those on every run. The conditions some
theorems add, `Undisturbed` (of `SftpTransfers` and of `FtpClient`), `DistinctTunnels`,
`ItemsWhole` and `NeedleStandsAlone`, are stated as an `ASSUME` of the theorem, and a run
of the instance it is about satisfies them.

### The queue

`SftpTransfersProofs` proves `TypeCorrect`, `Spec => []TypeOK`, one lemma per group
of helpers and one step per action. It uses the assumptions `RequestsAssumption`,
`BoundsAssumption` and `ControlsAssumption` only: requests are records with a kind, a listing
is a sequence of requests, the bounds are numbers. It goes on to the safety of the
parallel workers. None of those invariants is inductive alone; `Consistent` joins

* a running worker is not in phase `none` (else the start loop could give its
  thread to another request and break `DistinctBusyKeys` and `OneConflictPerBatch`),
* no two running workers have one busy key,
* a running worker's conflict object is the current one, a forgotten worker's is
  cancelled,
* of the workers of one conflict object at most one is past the mutex (`posted` or
  `dialog`),
* a worker in `dialog` belongs to the current batch: with the mutex this gives
  `OneDialog`.

`SafetyInductive` is the step, the four theorems `FilesExclusive`, `ConflictShared`,
`DialogAlone` and `LimitKept` follow. `LimitKept` needs the set of running workers to
be finite, which its invariant `Within` carries.

Its second half proves `QueueSound`, `NoSilentOverwrite` and `CancelledStartsNothing`
from `QueueInductive`. The invariant `QueueInv` has five parts, and each needs others:

* `BrowserInv`: what is on the browser's thread and posted by it is about the folder
  being listed, once. Without it a second answer could end a listing twice.
* `WorkInv`: work is left only while the sidebar is active, and it is active for
  a listing alone or for workers. Without it a listing would start beside workers.
* `OnceInv` (`Placed`): a request is in the queue, with one worker or being listed, in one
  of these places once; it is asked and not finished; nothing of a folder still to
  be listed was asked before.
* `ThreadsInv`: forgotten workers count too. One thread for each destination, and what
  was seen absent is still absent when it is about to be opened.
* `CancelInv`: a cancelled batch has an empty queue behind its listing, and conflict objects
  not used yet are not cancelled.

These theorems assume `Undisturbed`: the browser connection serves the queue only, the
sidebar is attached once, and requests with one destination have one busy key. Each
conjunct is needed, not convenient: `open_twice` refutes `NeverOpenTwice` with an
auto-upload, a second connection forgets workers that go on writing, and a folder upload's
busy key is its source. `OccurrencesAssumption` says that a request is an
occurrence: asking twice for a file is two requests, as the code's queue has two entries.

Its last part proves the safety half of the refinement, `StepsAsPromised`: under the
mapping of `SftpTransfersRefinement`, `Init` implies `TransferBatch`'s and every step is
one of its steps or a stutter. `StatesAreSo` first removes the mapping's CHOOSE: by
`QueueInv` a request has one place, so its stage and retries are that item's. Then each
handler is a few of `TransferBatch`'s file steps at once, of which at most one is an end or a
retry. `EveryFileEnds` and `BatchEnds` are liveness and stay with TLC.

### The FTP client

`FtpClientProofs` proves `ClientSound`, `ReportedOnce` and `ConfirmedComplete` from `FtpInv`
and `NothingInClear` from `ClearInv`. `FtpInv` holds as long as no data connection broke
(`broken \/ FtpInv` is what is inductive), and the properties claim no more; the part of `ClientSound` that is
claimed always, the reconnect timer, has an invariant of its own (`TimerInv`). `FtpInv` says
what is on the way for each place the client may
be in: down, joining, waiting for one command (`WithoutData`), or with a data
connection (`Transferring`). The core is `InHand`: which of `begun`, `stored`, `final`, or no
handler with or without an early reply, goes with which commands and replies under way,
since the 226 and the end of the data come in either order. `Pieces` counts the file: nothing is
twice, and of a listing or an upload nothing is missing where the server may
confirm it. A download's pieces may be missing, as `DownloadsComplete` (section 4) shows.
The hypothesis `Undisturbed` (no `loss`, no cancel of a folder upload) leaves out what
the hazards describe: there a handler does hear another's reply. `NothingInClear` has no
hypothesis: whatever is lost, broken, cancelled or reconnected, a handler that sends a name or a password
waits only once the connection is encrypted.

### Tabs

`SshTabsProofs` proves `SidebarFollows` for any number of tabs and events. That invariant is
inductive alone: showing a tab attaches the browser
to it (`ShownFollows`), so it is enough that every handler that changes the shown tab
ends with that, or (`RemovedFollows`, a tab to the right of it) leaves both alone. The
lemmas are about desks and need only that a desk is a record (`IsDesk`).

`TabsSound` needs `TabsInv`: the tab bar has each open tab once, only a closing tab's
connection is told to disconnect, only a closing tab has a deletion posted, the question of a
close has its index. Then an active tab whose thread is over still has a call or a stop
signal under way: a stop is the last thing a thread posts, and what is filtered out of the posted
events when a tab goes (`SelectSeq`, by induction over the length) is about that tab only.

### Vault and saved sessions

`SessionStoreProofs` proves of the vault, under every command of the session store,
the invariant `VaultInv`: the keys, the entries of the key stores and the count of salts
have their types, and the key in memory is the one the settings verify
(`KeyStaysCurrent`; `KeyIsCurrent` alone is inductive, but entries are sealed with the
key in memory, so their type needs the key's). `NeverLaidOpen` is an action property,
`NeverPlain`: each call to a key store relates the stores before and after by `Becomes`
(they stay key stores, no entry becomes plain while the master password is on), `Becomes`
is transitive (`BecomesOn`), and the three passwords of an accepted dialog are a chain of
it, whichever calls fail. This uses `VaultAssumption`: the bounds are numbers.

`StoreInv` adds the lists: `FilesInv`, in which every list is of sessions with
different ids that have been used, and the sidebar the user can reach has every session of the file,
so that the whole list it writes back loses none; `EditorInv`, in which the
open dialog stands at its session's place in that list. `StoreIsSound`, `NothingIsLost` and
`LinksAreFollowed` follow. An import is a fold over a list of any length (`TakingWell`): it
is proved by induction for a set of numbers (`Induction`, from the
well-foundedness of finite subsets), which avoids the library's theorems about
operators. `StoreAssumption` says that ids are numbers, that the files there can be at the
start have different ids, and that a form has a form's fields.

### An SSH session

`SshSessionProofs` proves `FollowingSound`, `ReleasedAfterEnd` and, with `DistinctTunnels`,
`TunnelsSound`, from `SshInv`:

* `MonitorInv`: a request is outstanding only while the monitor waits for its answer or is closing,
  so the program never owes two samples; and a program runs only in the states that
  still see to its end, which gives `ReleasedAfterEnd`.
* `TunnelsInv`: the list is this connection's, a retry of this connection is about the
  tunnel at its place, a bridge belongs to a tunnel that runs. `DistinctTunnels` is
  needed: the code tells tunnels apart by what they are (`sameTunnel`) and the dialog's rows by their
  place; of two equal rows the end of one is not announced for the other, and TLC
  shows `TunnelsSound` violated.
* `ShownInv`: the browser shows as running only what was announced as running. It resets its list at
  moments of its own, so nothing follows the other way.
* `StrayInv`: unless a command was on its way when the `cd` was sent, no `cd` is behind a job.
* `SyncInv`: the last news the window has still to hear is the last directory the connection told;
  once it has heard all, the tab has that directory, which is where the browser starts when the tab is
  shown again, and the last order or listing under way is for it, or the browser is there,
  unless the move was dropped or the user has asked for another. An order whose listing may
  fail promises nothing, so the drop is noted where the listing fails.

The assumptions are that settings have the fields' types (`SettingsAssumption`), that no
directory is `NoDir` and the home directory can be entered (`DirsAssumption`), and that lists of
tunnels are lists (`TunnelsAssumption`).

### Panes

`PanesProofs` proves `PanesSound` and `SessionsKept` from `PanesInv`: the tabs that are in no
window of their own are `Spread` over the groups, each in one, and each group is `Whole`, its panes
share no tab and those hidden have none. A command of the layout turns the group shown into one
that is whole and has the same tabs (`LayoutKeeps`); commands of the groups swap, add, drop or change
groups of a spread (`Swapped`, `Added`, `Dropped`, `Changed`). Two further parts are
needed. No two groups have one id: at the end of the program a detached tab goes to
the group of its id, and with two of them it would be in both. There is always an id
to give: the model draws the code's uuids from more numbers than there are groups and
tabs (`FreshIsFresh`, by counting; hence finite `Tabs` in `PanesAssumption`). And a saved group
has a pane to show, not more than a group may have (`CanOpen`), so that what is opened again is whole.

### The terminal widget

`VtTerminalProofs` proves the five properties of `screen`, for any sizes, any length of the
scrollback, any needle and any bytes.

* `ChunksNeverMatter`. `ParseBuffer` is a run of `ObeyNext`, as long as something is
  complete (`RunExists`, `RunNext`; by `Induction` over a set of numbers). A buffer that is
  parsed, given more bytes and parsed again ends where all the bytes together would
  (`ParseMore`), because an item, once complete, is the same item
  whatever follows. This is false of a continuation byte at the head of the buffer: it takes the
  next byte if that is there. `ChunkInv` therefore adds to `ChunksDoNotMatter` that the
  buffer is the beginning of an item and that what is still to come continues it
  with whole characters; the hypothesis `ItemsWhole` says what the remote side must not print:
  four-byte characters, and half a character where an escape sequence takes its next byte. `MCWide`
  (section 4) shows that it is needed.
* `ScreenAlwaysSound`, `ViewAlwaysHolds`, `OnlyFontsEverBreakPainting`. `ScreenInv`
  says that the screen is in `Screens`: its cells, cursor, scrollback, offset and number of lines
  gone have their ranges. One relation, `Follows`, says of a screen and a later one
  what the three properties need of output: sizes stay, a scrollback as wide as the
  screen stays so, lines are only dropped from its front and counted, and the view
  follows them. It is reflexive and transitive, each operator of `parseCsi` and
  `parseBuffer` keeps it (`CsiFollows`), so a chunk of any length does (`ParseFollows`). `EditsStay` then
  computes which cells K, P and @ write.
* `SearchAlwaysWorks`. The positions of matches are in a total order with a first and a last in each
  non-empty set (`FirstIs`, `LastIs`, from `LeastOf` and `GreatestOf`), so the CHOOSE of
  `FirstOf` and `LastOf` are matches. Searching on starts behind the match; as the needle
  stands alone no match begins inside it (`NoOverlap`), so the matches ahead are those after.
  Searching back, the last match before has it for its successor (`LastBefore`), and so has the
  last of all for the first (`LastOfAll`), where the second loop looks for it. `EnsuredVisible`
  is the arithmetic of `ensureLineVisible`.

### Serial transfer

`SerialTransferProofs` proves `DeliverySound` and `RetriesSuffice` for every size of the file, every
range of block numbers, every limit of retries and every number of faults up to it, from one
inductive invariant, `Delivery`. It has three parts, each of which needs the one before; TLC
checked it on small instances before it was proved.

* `Typed`: the `m_xmodem...` fields are those of one of four states (`Resting`, `Awaiting`,
  `Sending`, `Ending`) and everything written carries the number of its block. It holds
  whatever is lost, typed or overtaken. What `handleXmodemInput` makes of a chunk of any length
  is a run of its loop body (`InputRuns`, by `Induction` over a set of numbers), and every byte leads from
  one of the states to one of them (`HandleByteKeeps`).
* What the receiver has. `Stock`: it has stored a beginning of the file and expects the number
  of the block after. For a short file that is enough: the number names the packet (`RightOfShort`). For
  a longer one a number names many packets, and the receiver is right only because of where it can
  be: `Tracked` says that, as long as the timer overtook no answer, it is where it was before it took
  what the tab sends last, or after it (`Before`, `After`), that one packet or one answer is on its
  way and never both, and that an acknowledgement is there only in the second case. Two blocks
  that follow each other have different numbers, since the range is at least three (`NumbersApart`).
  The packet a finished transfer leaves on the line must be one that the receiver has, expects or
  cannot take (`Fits`): the user may start the next transfer, or another receiver, while it is there.
* The retries, `Counted`: as long as no tick fell on anything in flight each retry has its fault, where one that is still to be counted is
  `Owed` (the answer on its way is a NAK, or nothing is on its way). The limit is exceeded only when the receiver has
  gone, and then it has all of the file (`OverIsWhole`): what was lost was the last acknowledgement.

### Only model-checked

The properties of `SessionTree` (`TreeSound` and the action property beside it): the model walks and
renumbers the tree with folds over its groups and a recursive walk, as the code does, and what a fold
or a recursion computes for every tree is induction over data. Liveness under fairness (`BatchEnds`, `EveryFileEnds`,
`Answered`, `GuiResponds`, `StoppedReconnects`, `SamplesKeepComing`, `NothingStays`,
`TransferEnds`) and ENABLED are outside the reach of the proof system.

## 6. Not modelled, and the plan

Next, in this order:

1. Proofs: the invariants of `SessionTree`, once its walks are stated without recursion.
2. `SensitiveDataFilter`: the bytes it holds back against its definition on the
   whole stream, whatever the cuts.
3. In `SshTabs`: stopped tabs have no live connection (it fails: a new tab's
   connection is requested twice), two hosts and the writing of `known_hosts`,
   browsers in the background with their transfers.
4. X11 channels and keepalives in `SshSession`; the macro executor of `TerminalTab`
   (lines written with delays while the session may end).
5. `FtpClient`: an abstract specification (one result per command).

Left out, with the reason:

* Local, Telnet, RDP and VNC tabs, ConPTY, the X server manager: they start a
  process, a socket or a library each and pass on what it says; the order that
  matters is inside those.
* The updater: one request and a comparison of versions.
* Importers of other programs' sessions, the JSON, the listing's text: conversions
  of text into lists, which are inputs of the models.
* Attributes, colours, key encodings and mouse reports of the terminal widget;
  shortcuts, appearance, highlighting, translations, form layouts, packaging: no
  state a property tells apart.
* Two running programs that share the files: the last writer wins, and no code
  is there to prevent it.
* Cryptographic primitives, libssh2, Qt's event loop, servers and devices are external:
  they are modelled by what the code can observe of them.
