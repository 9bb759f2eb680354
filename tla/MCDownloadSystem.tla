-------------------------- MODULE MCDownloadSystem --------------------------
(* TLC instance of DownloadSystem.                                         *)
EXTENDS DownloadSystem

OwnMessage == [t \in Tid |-> t]
OneMessage == [t \in Tid |-> 1]
=============================================================================
