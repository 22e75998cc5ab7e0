--------------------------- MODULE ManualTrigger ---------------------------
(***************************************************************************)
(* What the manual control promises to the monitor, for any number of runs *)
(* of the bot: a run is triggered at most once, and only when somebody     *)
(* asked for that very run.                                                *)
(***************************************************************************)
CONSTANT Runs

VARIABLES
    channel,   \* each run's trigger channel
    asked      \* runs somebody asked to trigger

Init == channel = [r \in Runs |-> "open"] /\ asked = {}

Ask(r) == asked' = asked \cup {r} /\ UNCHANGED channel

Send(r) ==
    /\ r \in asked
    /\ channel[r] = "open"
    /\ channel' = [channel EXCEPT ![r] = "sent"]
    /\ UNCHANGED asked

Take(r) ==
    /\ channel[r] = "sent"
    /\ channel' = [channel EXCEPT ![r] = "closed"]
    /\ UNCHANGED asked

Next == \E r \in Runs : Ask(r) \/ Send(r) \/ Take(r)

Spec == Init /\ [][Next]_<<channel, asked>>
=============================================================================
