---------------------------- MODULE WalletTurns ----------------------------
(***************************************************************************)
(* What the wallet lock promises, with no lock file, cache or refresh in   *)
(* it: bots take turns, a bot that finds a turn in progress queues, and a  *)
(* turn that ends in a submission spends a nonce.  A bot that had to queue *)
(* spends the nonce the chain's nodes told it during its turn, and so does *)
(* a careful bot always.  Nobody else spends in that turn, so a nonce that *)
(* was new when it was told is new when it is spent; what the nodes tell a *)
(* bot is not in the lock's power.                                         *)
(***************************************************************************)
EXTENDS Integers

CONSTANTS Bots, NoBot, Careful

VARIABLES
    owner,   \* the bot whose turn it is
    waiting, \* the bots that queue
    fresh,   \* the turn in progress must spend the nonce it is told ...
    told,    \* ... which is this one, or -1 before it is told
    spent,   \* nonces of the acknowledged submissions ...
    count    \* ... and how many submissions there were

vars == <<owner, waiting, fresh, told, spent, count>>

Init ==
    /\ owner = NoBot /\ waiting = {}
    /\ fresh = FALSE /\ told = -1
    /\ spent = {} /\ count = 0

Queue(b) ==
    /\ owner # NoBot
    /\ waiting' = waiting \cup {b}
    /\ UNCHANGED <<owner, fresh, told, spent, count>>

Leave(b) ==
    /\ waiting' = waiting \ {b}
    /\ UNCHANGED <<owner, fresh, told, spent, count>>

Take(b) ==
    /\ owner = NoBot
    /\ owner' = b
    /\ waiting' = waiting \ {b}
    /\ fresh' = (b \in waiting \cup Careful)
    /\ UNCHANGED <<told, spent, count>>

\* Once in a turn, and never changed afterwards.
Hear(b) ==
    /\ owner = b
    /\ told = -1
    /\ told' \in Nat
    /\ UNCHANGED <<owner, waiting, fresh, spent, count>>

GiveUp(b) ==
    /\ owner = b
    /\ owner' = NoBot
    /\ fresh' = FALSE /\ told' = -1
    /\ UNCHANGED <<waiting, spent, count>>

Submit(b) ==
    /\ owner = b
    /\ owner' = NoBot
    /\ fresh' = FALSE /\ told' = -1
    /\ \E n \in spent' : (fresh => n = told) /\ spent' = spent \cup {n}
    /\ count' = count + 1
    /\ UNCHANGED waiting

Next ==
    \E b \in Bots :
        Queue(b) \/ Leave(b) \/ Take(b) \/ Hear(b) \/ GiveUp(b) \/ Submit(b)

Spec == Init /\ [][Next]_vars
=============================================================================
