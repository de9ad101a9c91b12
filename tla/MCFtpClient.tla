----------------------------- MODULE MCFtpClient -----------------------------
(* Instances of FtpClient for TLC.                                            *)
EXTENDS FtpClient

(* A folder with one file.                                                    *)
OneFolder == <<"folder", "file">>
=============================================================================
