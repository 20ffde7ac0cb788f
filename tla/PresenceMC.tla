------------------------------- MODULE PresenceMC -------------------------------
(* Instances of Presence for TLC.                                              *)
EXTENDS Presence

AllHubs == {"realtime", "presence"}
=============================================================================
