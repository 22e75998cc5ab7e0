--------------------------- MODULE AggregatedRead ---------------------------
(***************************************************************************)
(* One read of the RPC pool (rpc.rs): the same question goes to every      *)
(* healthy HTTP provider at once.  read_all waits for all of them; the     *)
(* critical reads take the first success and then listen for a short       *)
(* settle window only.  What is heard is combined into one result.  What   *)
(* the providers answer is the environment's, in RpcPool.                  *)
(***************************************************************************)
EXTENDS Integers

CONSTANTS
    Endpoints,
    Failed, Unanswered   \* of a request: an error or a timeout, nothing yet

VARIABLES
    readers,   \* the providers that are asked (the pool's read list)
    op,        \* what is asked
    phase,     \* how far the read is
    answer,    \* what each provider's request came back with
    heard      \* requests whose outcome the read has looked at

readVars == <<op, phase, answer, heard>>

Running == phase \in {"waiting", "settling"}

\* A settle window follows the first success of a critical read.
IsCritical == op \in {"nonce", "view"}

Idle ==
    /\ op = "none"
    /\ phase = "idle"
    /\ answer = [e \in Endpoints |-> Unanswered]
    /\ heard = {}

Ask(o) ==
    /\ phase = "idle"
    /\ op' = o
    /\ phase' = "waiting"
    /\ UNCHANGED <<answer, heard>>

\* The request to one provider comes back while the read still waits for it;
\* when the read returns, it drops the requests that are left.
Answer(e, v) ==
    /\ Running
    /\ e \in readers
    /\ answer[e] = Unanswered
    /\ answer' = [answer EXCEPT ![e] = v]
    /\ UNCHANGED <<op, phase, heard>>

\* A provider says that it cannot answer, or does not within request_timeout.
Fail(e) == Answer(e, Failed)

Ready(e) == e \in readers /\ answer[e] # Unanswered /\ e \notin heard

\* Mutant: every read stops listening after its first success.
HearSettlesAlways(e) ==
    /\ Running
    /\ Ready(e)
    /\ heard' = heard \cup {e}
    /\ phase' = IF heard' = readers THEN "done"
                ELSE IF answer[e] # Failed THEN "settling" ELSE phase
    /\ UNCHANGED <<op, answer>>

\* Mutant: a read without a success goes on waiting for one.
HearUntilSuccess(e) ==
    /\ Running
    /\ Ready(e)
    /\ heard' = heard \cup {e}
    /\ phase' = IF answer[e] = Failed THEN phase
                ELSE IF heard' = readers THEN "done" ELSE "settling"
    /\ UNCHANGED <<op, answer>>

\* calls.next(): the outcome of one request.
Hear(e) ==
    /\ Running
    /\ Ready(e)
    /\ heard' = heard \cup {e}
    /\ phase' = IF heard' = readers THEN "done"
                ELSE IF IsCritical /\ answer[e] # Failed THEN "settling" ELSE phase
    /\ UNCHANGED <<op, answer>>

\* Mutant: the deadline is looked at before the answers.
DeadlineFirst ==
    /\ phase = "settling"
    /\ phase' = "done"
    /\ UNCHANGED <<op, answer, heard>>

\* timeout_at polls the answers before its deadline, so what is there is heard.
Deadline ==
    /\ phase = "settling"
    /\ \A e \in readers : ~Ready(e)
    /\ phase' = "done"
    /\ UNCHANGED <<op, answer, heard>>

----------------------------------------------------------------------------
(* What a finished read returns.                                           *)

Values == {answer[e] : e \in heard} \ {Failed}

\* "failed on every healthy provider"
ReadFailed == phase = "done" /\ Values = {}

Highest == CHOOSE v \in Values : \A w \in Values : w <= v

Agreed ==
    IF \A v, w \in Values : v = w THEN CHOOSE v \in Values : TRUE ELSE "conflict"

\* Several providers' sets of logs or receipts in one.
Merged == UNION Values
=============================================================================
