--------------------------- MODULE MCRpcDispatch ---------------------------
(* Instances of RpcDispatch for TLC.                                       *)
EXTENDS RpcDispatch

Call1(id, class) == [id |-> id, class |-> class]

\* Every class of call, an id that three classes share, and a notification
\* that counts in its batch.
MixedItems ==
    {Call1("a", "opening"), Call1("b", "ordinary"), Call1("b", "control"),
     Call1("none", "opening"), Call1("b", "unknown"), Call1("none", "invalid")}
MixedClient == [messages |-> Messages(MixedItems, 2), calls |-> 3, frames |-> MaxFrames]

\* Opens the session and sends more controls at once than the lane has permits.
Control == Call1("none", "control")
BusyClient ==
    [messages |-> {[batch |-> FALSE, items |-> <<Call1("a", "opening")>>],
                   [batch |-> TRUE, items |-> <<Control, Control, Control>>]},
     calls |-> 4, frames |-> 2]

BothClients == {MixedClient, BusyClient}

\* Controls only, to fill the lane.
ControlItems ==
    {Call1("a", "opening"), Call1("a", "control"), Call1("b", "control")}
ControlClients ==
    {[messages |-> Messages(ControlItems, 2), calls |-> 3, frames |-> MaxFrames]}
=============================================================================
