----------------------------- MODULE Broadcast -----------------------------
(***************************************************************************)
(* broadcast_raw (rpc.rs): one signed transaction goes to every endpoint   *)
(* at once, the first acknowledgement ends the call, and without one the   *)
(* answers decide between "rejected" and "outcome unknown".  Nodes pass    *)
(* transactions on; answers are lost, late or wrong.                       *)
(***************************************************************************)
CONSTANT Endpoints \* the configured endpoints

VARIABLES
    pool,      \* the endpoints it is sent to; a call does not change them
    node,      \* what each endpoint's node has made of the transaction
    reply,     \* what the request to each endpoint came back with
    joined,    \* requests whose outcome the caller has looked at
    ambiguous,
    verdict    \* what broadcast_raw returned

vars == <<pool, node, reply, joined, ambiguous, verdict>>

Acks == {"accepted", "known"}
Replies ==
    Acks \cup {"rejected", "misread", "wrong hash", "timeout", "transport error"}

Taken == {e \in Endpoints : node[e] = "has it"}

\* Nothing sent yet.
Unsent ==
    /\ node = [e \in Endpoints |-> "not reached"]
    /\ reply = [e \in Endpoints |-> "none"]
    /\ joined = {}
    /\ ambiguous = FALSE
    /\ verdict = "none"

Init == Unsent /\ pool = Endpoints

\* What a request comes back with after the call returned is drained by a task
\* of its own and thrown away.
Awaited(e) == e \in pool /\ reply[e] = "none" /\ verdict = "none"

----------------------------------------------------------------------------
(* The nodes.                                                              *)

\* The bytes arrive, perhaps after the caller has given the request up.
Arrive(e) ==
    /\ node[e] = "not reached"
    /\ \/ /\ node' \in {[node EXCEPT ![e] = "has it"], [node EXCEPT ![e] = "refused it"]}
          /\ reply' = [reply EXCEPT ![e] =
                IF ~Awaited(e) THEN @
                ELSE IF node'[e] = "has it" THEN "accepted" ELSE "rejected"]
       \* A broken endpoint answers with a hash of its own, or a node refuses in
       \* words like "unknown transaction type".
       \/ /\ Awaited(e)
          /\ node' = [node EXCEPT ![e] = "refused it"]
          /\ \E said \in {"wrong hash", "misread"} : reply' = [reply EXCEPT ![e] = said]
    /\ UNCHANGED <<joined, ambiguous, verdict>>

\* A node has it from another one, before or after it was asked.
Gossip(e) ==
    /\ Taken # {}
    /\ node[e] # "has it"
    /\ node' = [node EXCEPT ![e] = "has it"]
    /\ reply' = [reply EXCEPT ![e] = IF Awaited(e) THEN "known" ELSE @]
    /\ UNCHANGED <<joined, ambiguous, verdict>>

\* The answer does not come in time, or the connection breaks; either way the
\* bytes may be on their way.
Timeout(e) ==
    /\ Awaited(e)
    /\ reply' = [reply EXCEPT ![e] = "timeout"]
    /\ UNCHANGED <<node, joined, ambiguous, verdict>>

Break(e) ==
    /\ Awaited(e)
    /\ reply' = [reply EXCEPT ![e] = "transport error"]
    /\ UNCHANGED <<node, joined, ambiguous, verdict>>

----------------------------------------------------------------------------
(* The caller.                                                             *)

\* An outcome the caller has yet to see.
Joinable(e) == reply[e] # "none" /\ e \notin joined /\ verdict = "none"

\* The node answered with the expected hash, or that it knows the transaction:
\* its words contain "known transaction".
IsAck(e) == reply[e] \in Acks \cup {"misread"}

\* Mutant: a timeout counts as a rejection.
IsAmbiguousUnlessLate(e) == reply[e] = "wrong hash"

\* Any other error counts as a rejection.
IsAmbiguous(e) == reply[e] \in {"wrong hash", "timeout"}

\* Mutant: the first timeout ends the call.
JoinStopsAtTimeout(e) ==
    /\ Joinable(e)
    /\ joined' = joined \cup {e}
    /\ verdict' = IF IsAck(e) THEN "accepted"
                  ELSE IF reply[e] = "timeout" THEN "unknown" ELSE "none"
    /\ UNCHANGED <<node, reply, ambiguous>>

Join(e) ==
    /\ Joinable(e)
    /\ joined' = joined \cup {e}
    /\ ambiguous' = (ambiguous \/ IsAmbiguous(e))
    /\ verdict' = IF IsAck(e) THEN "accepted" ELSE "none"
    /\ UNCHANGED <<node, reply>>

\* All requests are done and none was acknowledged.
GiveUp ==
    /\ verdict = "none"
    /\ joined = pool
    /\ verdict' = IF ambiguous THEN "unknown" ELSE "rejected"
    /\ UNCHANGED <<node, reply, joined, ambiguous>>

Next ==
    /\ pool' = pool
    /\ \/ \E e \in pool : Arrive(e) \/ Timeout(e) \/ Break(e) \/ Join(e)
       \/ \E e \in Endpoints : Gossip(e)
       \/ GiveUp

Spec == Init /\ [][Next]_vars

----------------------------------------------------------------------------
TypeOK ==
    /\ pool \subseteq Endpoints
    /\ node \in [Endpoints -> {"not reached", "has it", "refused it"}]
    /\ reply \in [Endpoints -> Replies \cup {"none"}]
    /\ joined \subseteq {e \in pool : reply[e] # "none"}
    /\ ambiguous \in BOOLEAN
    /\ verdict \in {"none", "accepted", "unknown", "rejected"}

\* The verdict is true: an accepted transaction is at some node, so waiting for
\* its receipt makes sense, unless a refusal was taken for "already known"
\* (rpc.rs:764-773); "all configured broadcast endpoints rejected the raw
\* transaction" (rpc.rs:665) means that no node has it, or will get it from the
\* bytes still on their way, unless a connection broke, which the code cannot
\* tell from a refusal.
VerdictIsTrue ==
    /\ verdict = "accepted" => Taken # {} \/ \E e \in joined : reply[e] = "misread"
    /\ verdict = "rejected" /\ (\A e \in pool : reply[e] # "transport error")
           => Taken = {} /\ \A e \in pool : node[e] = "refused it"

\* One acknowledgement is enough: whatever the other endpoints answer, and
\* whenever, the call returns that the transaction was accepted.
AckIsReported ==
    (\E e \in pool : reply[e] \in Acks) ~> verdict = "accepted"
=============================================================================
