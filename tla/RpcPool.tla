------------------------------ MODULE RpcPool ------------------------------
(***************************************************************************)
(* The RPC pool (rpc.rs): the endpoints are checked for their chain, a     *)
(* read is combined from the healthy HTTP providers, a transaction is      *)
(* broadcast over the WebSocket and the same providers, and what was sent  *)
(* is read back while the other requests of the broadcast are on the way.  *)
(* It composes Broadcast and AggregatedRead over providers that lag, stay  *)
(* silent, follow another branch of the chain or lie.                      *)
(***************************************************************************)
EXTENDS Integers, FiniteSets

CONSTANTS
    Endpoints,
    Ws,         \* the WebSocket endpoint: written to, never read from
    Failed, Unanswered,
    Liars       \* HTTP providers whose answers to view calls are not the chain's

ASSUME PoolAssumption == Ws \in Endpoints /\ Liars \subseteq Endpoints \ {Ws}

Heads == {"parent", "A", "B"}

\* Neither is something a provider can say.
ASSUME OutcomesAssumption ==
    /\ Failed # Unanswered
    /\ \A v \in {Failed, Unanswered} :
          /\ v \notin {0, 1}
          /\ v \notin {"open", "closed", "lie", "conflict"}
          /\ \A h \in SUBSET Heads : v # h

VARIABLES
    pool, node, reply, joined, ambiguous, verdict,   \* Broadcast
    readers, op, phase, answer, heard,               \* AggregatedRead
    stage,     \* what the bot does with the pool
    reports,   \* the chain each endpoint is on, as it reports when asked
    restored,  \* history: alloy restored the WebSocket since its chain check
    head,      \* the branch each provider follows
    knew       \* providers that had the transaction when the read began

B == INSTANCE Broadcast
R == INSTANCE AggregatedRead

sendVars == <<pool, node, reply, joined, ambiguous, verdict>>
readVars == <<op, phase, answer, heard>>
chainVars == <<stage, readers, reports, restored>>
worldVars == <<head, knew>>
vars == <<sendVars, readVars, chainVars, worldVars>>

Http == Endpoints \ {Ws}
Reports == {"configured", "other", "none"}

Init ==
    /\ B!Unsent /\ R!Idle
    /\ pool = {} /\ readers = {}
    /\ stage = "connecting"
    /\ reports = [e \in Endpoints |-> "none"]
    /\ restored = FALSE
    /\ head = [e \in Endpoints |-> "parent"]
    /\ knew = {}

----------------------------------------------------------------------------
(* The chain check.                                                        *)

\* A provider that reports another chain stops the bot; one that does not
\* answer is left out; one has to be left.
PassesCheck(said) ==
    /\ said[Ws] = "configured"
    /\ \A e \in Http : said[e] # "other"
    /\ \E e \in Http : said[e] = "configured"

ValidateChain ==
    /\ stage = "connecting"
    /\ reports' \in [Endpoints -> Reports]
    /\ IF PassesCheck(reports')
       THEN /\ readers' = {e \in Http : reports'[e] = "configured"}
            /\ pool' = {Ws} \cup readers'
            /\ stage' = "armed"
       ELSE stage' = "failed" /\ UNCHANGED <<pool, readers>>
    /\ UNCHANGED <<node, reply, joined, ambiguous, verdict, readVars, worldVars,
                   restored>>

\* Mutant: only a chain check that fails stops the bot.
ReconnectUnlessSilent ==
    /\ stage = "armed"
    /\ \E said \in Reports :
          /\ reports' = [reports EXCEPT ![Ws] = said]
          /\ stage' = IF said = "other" THEN "failed" ELSE "armed"
    /\ restored' = FALSE
    /\ UNCHANGED <<sendVars, readers, readVars, worldVars>>

\* The new connection replaces the old one in the broadcast list once it has
\* reported the chain; any failure ends the run.
Reconnect ==
    /\ stage = "armed"
    /\ \E said \in Reports :
          /\ reports' = [reports EXCEPT ![Ws] = said]
          /\ stage' = IF said = "configured" THEN "armed" ELSE "failed"
    /\ restored' = FALSE
    /\ UNCHANGED <<sendVars, readers, readVars, worldVars>>

\* with_max_retries: alloy restores a broken connection by itself, perhaps to a
\* node of another chain behind the same name, and nobody asks it for its chain.
\* One to the same chain changes nothing here; nor does a read or a broadcast
\* look at the chain, so it comes between those.
SilentReconnect ==
    /\ stage = "armed"
    /\ ~restored
    /\ reports' = [reports EXCEPT ![Ws] = "other"]
    /\ restored' = TRUE
    /\ UNCHANGED <<sendVars, stage, readers, readVars, worldVars>>

----------------------------------------------------------------------------
(* The providers.  The chain grows by block A, which block B may replace; a *)
(* provider's branch matters until it has answered.                        *)

Follows(e) ==
    /\ stage = "reading"
    /\ op \in {"view", "logs", "receipt"}
    /\ answer[e] = Unanswered
    /\ \E h \in Heads \ {"parent", head[e]} :
          /\ head[e] = "B" => h = "B"
          /\ head' = [head EXCEPT ![e] = h]
    /\ UNCHANGED <<sendVars, readVars, chainVars, knew>>

\* Mutant: the call is made at the latest block.
ViewOfAtLatest(e) ==
    IF e \in Liars THEN {"lie"} ELSE {IF head[e] = "A" THEN "open" ELSE "closed"}

\* The contract's state in block A, asked by the hash of A: a provider that does
\* not know the block fails; one that left it for B may still know it.
ViewOf(e) ==
    IF e \in Liars THEN {"lie"}
    ELSE CASE head[e] = "parent" -> {Failed}
           [] head[e] = "A" -> {"open"}
           [] head[e] = "B" -> {"open", Failed}

\* The pending nonce: whether it counts the transaction.
NonceOf(e) == {IF node[e] = "has it" THEN 1 ELSE 0}

\* The log, or the receipt, by the block it is in: both branches include it.
BlocksOf(e) == {IF head[e] = "parent" THEN {} ELSE {head[e]}}

Answers(e) ==
    /\ stage = "reading"
    /\ \E v \in CASE op = "nonce" -> NonceOf(e)
                  [] op = "view" -> ViewOf(e)
                  [] OTHER -> BlocksOf(e) : R!Answer(e, v)
    /\ UNCHANGED <<sendVars, chainVars, worldVars>>

----------------------------------------------------------------------------
(* The bot.                                                                *)

\* What the chain holds: observe_block, event_is_canonical, and the poll for the
\* receipt of a transaction whose broadcast is over.
ReadChain ==
    /\ stage = "armed"
    /\ R!Ask("view") \/ R!Ask("logs") \/ R!Ask("receipt")
    /\ stage' = "reading"
    /\ UNCHANGED <<sendVars, readers, reports, restored, worldVars>>

Send ==
    /\ stage = "armed"
    /\ stage' = "sending"
    /\ UNCHANGED <<sendVars, readers, readVars, reports, restored, worldVars>>

\* After an acknowledgement the nonce is read for the wallet's next transaction,
\* here or in another process, while the other requests are still under way.
ReadNonce ==
    /\ stage = "sending"
    /\ verdict = "accepted"
    /\ R!Ask("nonce")
    /\ stage' = "reading"
    /\ knew' = B!Taken
    /\ UNCHANGED <<sendVars, readers, reports, restored, head>>

Broadcasts ==
    /\ stage = "sending" \/ op = "nonce"
    /\ B!Next
    /\ UNCHANGED <<readVars, chainVars, worldVars>>

ReadStep ==
    /\ stage = "reading"
    /\ R!Deadline \/ \E e \in Http : R!Hear(e) \/ R!Fail(e)
    /\ UNCHANGED <<sendVars, chainVars, worldVars>>

Next ==
    \/ ValidateChain \/ Reconnect \/ SilentReconnect \/ ReadChain \/ Send \/ ReadNonce
    \/ Broadcasts \/ ReadStep
    \/ \E e \in Http : Follows(e) \/ Answers(e)

Spec == Init /\ [][Next]_vars

\* Every request runs under a timeout, and outcomes are looked at as they come.
Sends(A) == (stage = "sending" \/ op = "nonce") /\ A /\ pool' = pool
    /\ UNCHANGED <<readVars, chainVars, worldVars>>

Reads(A) == stage = "reading" /\ A
    /\ UNCHANGED <<sendVars, chainVars, worldVars>>

Fairness ==
    /\ \A e \in Endpoints : /\ WF_vars(e \in pool /\ Sends(B!Timeout(e)))
                            /\ WF_vars(e \in pool /\ Sends(B!Join(e)))
                            /\ WF_vars(Reads(R!Fail(e)))
                            /\ WF_vars(Reads(R!Hear(e)))
    /\ WF_vars(Reads(R!Deadline))

FairSpec == Spec /\ Fairness

----------------------------------------------------------------------------
Outcome ==
    IF R!ReadFailed THEN Failed
    ELSE CASE op = "nonce" -> R!Highest
           [] op = "view" -> R!Agreed
           [] OTHER -> R!Merged

\* transaction_receipt: those that are present differ.
ReceiptsConflict == op = "receipt" /\ Cardinality(R!Values \ {{}}) > 1

TypeOK ==
    /\ B!TypeOK
    /\ readers = pool \ {Ws}
    /\ phase \in {"idle", "waiting", "settling", "done"}
    /\ op \in {"none", "nonce", "view", "logs", "receipt"}
    /\ stage \in {"connecting", "armed", "sending", "reading", "failed"}
    /\ heard \subseteq {e \in readers : answer[e] # Unanswered}
    /\ phase = "settling" => R!Values # {} /\ R!IsCritical
    /\ reports \in [Endpoints -> Reports] /\ restored \in BOOLEAN
    /\ head \in [Endpoints -> Heads]
    /\ knew \subseteq Endpoints

VerdictIsTrue == B!VerdictIsTrue
AckIsReported == B!AckIsReported

\* "At startup the bot checks all configured providers and refuses to arm if
\* they report the wrong chain ID" (README.md:241): whatever is read from or
\* sent to has reported the configured chain, after the bot's own reconnections
\* too (rpc.rs:219), and nobody is on another one; except a WebSocket connection
\* that alloy restored since then (rpc.rs:703).
PoolIsOnChain ==
    stage \notin {"connecting", "failed"} =>
        /\ \A e \in pool \cup readers :
              reports[e] = "configured" \/ (e = Ws /\ restored)
        /\ \A e \in Endpoints : reports[e] = "other" => e = Ws /\ restored

\* A nonce read after an acknowledgement (preload_nonce under the wallet lock)
\* gives the spent nonce again only if every HTTP provider that had the
\* transaction failed or stayed silent until the window closed.
StaleNonceIsUnheard ==
    phase = "done" /\ op = "nonce" /\ Outcome = 0 =>
        \A e \in knew \cap readers : answer[e] \in {Unanswered, Failed}

\* A view call at a block's hash: providers that only lag or follow another
\* branch never make it conflict, and a lie passes only when no honest provider
\* answered by the end of the window.
ViewIsTrustworthy ==
    phase = "done" /\ op = "view" =>
        /\ Outcome = "conflict" => heard \cap Liars # {}
        /\ Outcome = "lie" =>
              \A e \in readers \ Liars : answer[e] \in {Unanswered, Failed}
        /\ Outcome # "closed"

\* read_all waits for everyone: a log, or a receipt, of a block that a provider
\* holds from before the read is in the result (or the receipts conflict), unless
\* that provider failed.  One stale provider is therefore enough to keep a
\* reorganised log.
NothingIsOverlooked ==
    phase = "done" /\ op \in {"logs", "receipt"} =>
        \A e \in readers :
            /\ answer[e] # Unanswered
            /\ answer[e] = Failed \/ ReceiptsConflict \/ answer[e] \subseteq Outcome

\* No read hangs: silent providers are given up, and the window closes.
ReadEnds == phase = "waiting" ~> phase = "done"
=============================================================================
