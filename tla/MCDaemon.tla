------------------------------- MODULE MCDaemon -------------------------------
(* Daemon for TLC.                                                           *)
EXTENDS Daemon
=============================================================================
