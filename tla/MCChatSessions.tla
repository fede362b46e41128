----------------------------- MODULE MCChatSessions -----------------------------
(* ChatSessions for TLC: the members of the sets are model values.          *)
EXTENDS ChatSessions
=============================================================================
