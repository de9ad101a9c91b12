------------------------------ MODULE MCSshTabs ------------------------------
(* Instances of SshTabs for TLC.                                              *)
EXTENDS SshTabs
=============================================================================
