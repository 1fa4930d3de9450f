-------------------------- MODULE MCSimpleWSClient --------------------------
(* Four messages: one being written, two queued behind it, one still posted; *)
(* and a server that pings when it likes, or never.                          *)
EXTENDS SimpleWSClient
=============================================================================
