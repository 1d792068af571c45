--------------------------- MODULE MCUnreadCache ---------------------------
(* Two connections on one chat with a membership message; the cursors      *)
(* differ in what they hide, so that a batch needs two statements.         *)
EXTENDS UnreadCache, TLC

MCChatOf == [m \in {1} |-> "general"]
MCCursors == {[chat |-> "general", after |-> 0, hide |-> h] : h \in BOOLEAN}

SessionSymmetry == Permutations(Sessions)
============================================================================
