--------------------------- MODULE MCUnreadWatch ---------------------------
(* Instances of UnreadWatch for TLC: their constants are in the            *)
(* configurations.                                                         *)
EXTENDS UnreadWatch
=============================================================================
