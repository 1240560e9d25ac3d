---------------------------- MODULE MCCodexBroker ----------------------------
(* Three browser sockets, a limit of two sessions, and identifiers to tell a session from *)
(* those that went before it. *)
EXTENDS CodexBroker
==============================================================================
