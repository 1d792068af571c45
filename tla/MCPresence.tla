----------------------------- MODULE MCPresence -----------------------------
(* Instances of Presence for TLC.  Friends who share with friends and      *)
(* strangers of one group who share with everyone change who may see what  *)
(* while the clock stands still; and two friends watch the time pass.      *)
EXTENDS Presence

Pair(friends, visibility) ==
    [friends |-> friends, shared |-> ~friends, blocks |-> {}, override |-> Inherited,
     visibility |-> [s \in Sides |-> visibility]]

PolicyStarts ==
    [social : {Pair(TRUE, "friends"), Pair(FALSE, "everyone")},
     now : {Horizon},
     budget : {[changes |-> 2, others |-> 0, watches |-> 1, failures |-> 0],
               [changes |-> 1, others |-> 1, watches |-> 2, failures |-> 1]}]
TimeStarts ==
    [social : {Pair(TRUE, "friends")},
     now : {DayLength},
     budget : {[changes |-> 0, others |-> 0, watches |-> 1, failures |-> 0]}]

PolicyOrTime == PolicyStarts \cup TimeStarts
=============================================================================
