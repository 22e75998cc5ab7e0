---------------------------- MODULE MintAttempts ----------------------------
(***************************************************************************)
(* What a run of the bot promises its user, with no streams, lock, fields  *)
(* or connection in it: it is armed, mints once the trigger is won, and    *)
(* has one transaction out until that one is judged.  It arms again only   *)
(* after a revert that it saw.  A rehearsal (dry run) submits nothing.  A  *)
(* signal may kill it until it is shielded, which is at the latest when it *)
(* begins to watch its first transaction.                                  *)
(***************************************************************************)
EXTENDS Naturals

VARIABLES
    phase,     \* armed (or on the way there), minting, out, over
    rehearsal,
    shielded,  \* a signal handler is installed
    sent,      \* transactions submitted ...
    reverted,  \* ... and those of them seen to revert
    result     \* how the run ended

vars == <<phase, rehearsal, shielded, sent, reverted, result>>

Init ==
    /\ phase = "armed"
    /\ rehearsal \in BOOLEAN
    /\ shielded = FALSE
    /\ sent = 0
    /\ reverted = 0
    /\ result = "none"

Shield ==
    /\ phase # "over"
    /\ shielded' = TRUE
    /\ UNCHANGED <<phase, sent, reverted, result>>

Win ==
    /\ phase = "armed"
    /\ phase' = "minting"
    /\ UNCHANGED <<shielded, sent, reverted, result>>

Submit ==
    /\ phase = "minting"
    /\ ~rehearsal
    /\ phase' = "out"
    /\ sent' = sent + 1
    /\ UNCHANGED <<shielded, reverted, result>>

\* The sale was closed.
TryAgain ==
    /\ phase = "out"
    /\ shielded
    /\ phase' = "armed"
    /\ reverted' = reverted + 1
    /\ UNCHANGED <<shielded, sent, result>>

End(how) ==
    /\ phase' = "over"
    /\ result' = how
    /\ UNCHANGED <<shielded, sent>>

Confirm ==
    /\ phase = "out"
    /\ shielded
    /\ End("ok")
    /\ reverted' = reverted

\* Ctrl+C, or the end of a rehearsal; nothing stops a run that is minting.
Stop ==
    /\ \/ phase \in {"armed", "out"} /\ shielded
       \/ phase = "minting" /\ rehearsal
    /\ End("stopped")
    /\ reverted' = reverted

\* An error ends the run, but with a transaction out only its revert does.
Fail ==
    /\ phase # "over"
    /\ phase = "minting" => ~rehearsal
    /\ phase = "out" => shielded
    /\ End("err")
    /\ reverted' = IF phase = "out" THEN reverted + 1 ELSE reverted

\* A signal before the handler is installed, whatever the run is doing.
Die ==
    /\ phase # "over"
    /\ ~shielded
    /\ End("killed")
    /\ reverted' = reverted

\* A closed revert of what a reconnection found is not tried again (bot.rs:844).
Abandon ==
    /\ phase = "out"
    /\ shielded
    /\ End("ok")
    /\ reverted' = reverted + 1

Next ==
    /\ rehearsal' = rehearsal
    /\ Shield \/ Win \/ Submit \/ TryAgain \/ Confirm \/ Stop \/ Fail \/ Die \/ Abandon

Spec == Init /\ [][Next]_vars
=============================================================================
