--------------------------- MODULE MCSftpTransfers ---------------------------
(* Instances of SftpTransfers for TLC.                                        *)
EXTENDS SftpTransfersRefinement, TLC

Up(n, s, d) == [kind |-> "up", src |-> s, dest |-> d, n |-> n]
Down(n, s, d) == [kind |-> "down", src |-> s, dest |-> d, n |-> n]
DirDown(n, s, d) == [kind |-> "dirDown", src |-> s, dest |-> d, n |-> n]

(* Two uploads to one remote file, a folder with one entry, and two downloads *)
(* to one local file.                                                         *)
U1 == Up(1, "/a/x", "x")
U2 == Up(2, "/b/x", "x")
Folder == DirDown(3, "f", "/f")
Entry == Down(4, "f/e", "/f/e")
D1 == Down(5, "y", "/y")
D2 == Down(6, "g/y", "/y")

EntriesOf(r) == IF r = Folder THEN <<Entry>> ELSE <<>>

BatchRequests == {U1, U2, Folder, Entry, D1}
BatchSelections == {<<U1, U2>>, <<Folder, D1>>}

DownloadRequests == {D1, D2, Folder, Entry}
DownloadSelections == {<<D1, Folder>>}

UploadRequests == {U1, U2}
UploadSelections == {<<U1>>, <<U2>>}

Nothing == {}

WorkerSymmetry == Permutations(Workers)
=============================================================================
