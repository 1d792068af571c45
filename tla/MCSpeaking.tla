------------------------------ MODULE MCSpeaking -----------------------------
(* Two users of whom one created the group, and two connections.           *)
EXTENDS Speaking
=============================================================================
