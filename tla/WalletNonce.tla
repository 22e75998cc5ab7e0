---------------------------- MODULE WalletNonce ----------------------------
(***************************************************************************)
(* Several bot processes share one wallet.  Each prepares, signs and       *)
(* broadcasts under the wallet's file lock (wallet.rs), which it holds     *)
(* from trigger preparation to the RPC acknowledgement (bot.rs).  The      *)
(* module follows the nonce: who reads it, when, where it is cached, when  *)
(* it is thrown away, and which nonces the acknowledged transactions       *)
(* carry.  Stage, fee and trigger data are left out: preparation just      *)
(* comes out ready, not ready or in error.                                 *)
(***************************************************************************)
EXTENDS Integers

CONSTANTS
    Bots,        \* the local bot processes of one wallet and chain
    NoBot,       \* the lock's value when nobody holds it
    Strategy,    \* config.nonce_strategy of each bot
    MaxLag,      \* bound: how far a provider's nonce is behind the chain's
    MaxAttempts, \* bound: lock acquisitions of each process
    MaxStarts    \* bound: how often a bot is started

\* An aggressive OpenSea bot caches and refreshes its nonce exactly as
\* "refresh_each_block" does.
Strategies == {"preloaded", "refresh_each_block", "just_before_trigger"}

ASSUME BotsAssumption == NoBot \notin Bots
ASSUME StrategyAssumption == Strategy \in [Bots -> Strategies]
ASSUME LagAssumption == MaxLag \in Nat
ASSUME BoundsAssumption == {MaxAttempts, MaxStarts} \subseteq [Bots -> Nat]

NoNonce == -1
Nonces == Nat \cup {NoNonce}

VARIABLES
    pc,         \* where each process is
    holder,     \* the process whose file handle has the OS lock
    contended,  \* WalletNonceLock.contended of the current acquisition
    refreshing, \* refresh_nonce of the current preparation
    fetched,    \* the nonce read by the current preparation ...
    stale,      \* ... was behind the chain's (history)
    request,    \* prepared.request.nonce, kept from one attempt to the next
    snapshot,   \* nonce carried by the armed refresh in flight
    force,      \* prepared.force_nonce_refresh
    owed,       \* contention was met and no fresh nonce was stored since
    attempts,   \* acquisitions of the current process
    starts,     \* processes started for the bot so far
    pending,    \* the chain's pending nonce of the wallet
    mined,      \* nonces below it are in a block
    adrift,     \* nonces sent without a known outcome
    acked,      \* submissions an RPC endpoint acknowledged
    turns       \* number of acknowledgements so far

botVars == <<pc, contended, refreshing, fetched, stale, request, snapshot,
             force, owed, attempts, starts>>
chainVars == <<pending, mined, adrift, acked, turns>>
vars == <<botVars, holder, chainVars>>

Critical == {"preparing", "ready", "broadcasting"}
Places == Critical \cup {"waiting", "locking", "blocked", "submitted", "stopped"}

UsesCachedNonce(b) == Strategy[b] \in {"preloaded", "refresh_each_block"}

Submissions == [bot : Bots, start : Nat, turn : Nat, nonce : Nonces,
                waited : BOOLEAN, owed : BOOLEAN, stale : BOOLEAN, late : BOOLEAN]

\* preload_nonce: the highest of the pending nonces the HTTP providers answer
\* first.  One that has not heard of the last submissions (they may have been
\* acknowledged by another endpoint, the WebSocket's included) or of the last
\* block answers a nonce that is behind.
Answers == {n \in 0..pending : n + MaxLag >= pending}

\* The state as WalletTurns sees it.
Spent == {s.nonce : s \in acked}
Cachers == {b \in Bots : UsesCachedNonce(b)}
Blocked == {b \in Bots : pc[b] = "blocked"}
Fresh == \E b \in Bots : holder = b /\ (contended[b] \/ ~UsesCachedNonce(b))
Told == IF holder = NoBot THEN NoNonce ELSE fetched[holder]

Init ==
    /\ pc = [b \in Bots |-> "stopped"]
    /\ holder = NoBot
    /\ contended = [b \in Bots |-> FALSE]
    /\ refreshing = [b \in Bots |-> FALSE]
    /\ fetched = [b \in Bots |-> NoNonce]
    /\ stale = [b \in Bots |-> FALSE]
    /\ request = [b \in Bots |-> NoNonce]
    /\ snapshot = [b \in Bots |-> NoNonce]
    /\ force = [b \in Bots |-> FALSE]
    /\ owed = [b \in Bots |-> FALSE]
    /\ attempts = [b \in Bots |-> 0]
    /\ starts = [b \in Bots |-> 0]
    /\ pending = 0
    /\ mined = 0
    /\ adrift = {}
    /\ acked = {}
    /\ turns = 0

----------------------------------------------------------------------------
(* Start-up and the armed monitor.                                         *)

\* prepare_transaction preloads the nonce when the strategy caches it.
Start(b) ==
    /\ pc[b] = "stopped"
    /\ starts[b] < MaxStarts[b]
    /\ pc' = [pc EXCEPT ![b] = "waiting"]
    /\ starts' = [starts EXCEPT ![b] = @ + 1]
    /\ \E n \in IF UsesCachedNonce(b) THEN Answers ELSE {NoNonce} :
          request' = [request EXCEPT ![b] = n]
    /\ UNCHANGED <<contended, refreshing, fetched, stale, snapshot, force, owed,
                   attempts, holder, chainVars>>

\* start_armed_refresh: the future reads a pending nonce while the bot waits.
StartArmedRefresh(b) ==
    /\ pc[b] = "waiting"
    /\ Strategy[b] = "refresh_each_block"
    /\ snapshot[b] = NoNonce
    /\ \E n \in Answers : snapshot' = [snapshot EXCEPT ![b] = n]
    /\ UNCHANGED <<pc, contended, refreshing, fetched, stale, request, force, owed,
                   attempts, starts, holder, chainVars>>

\* finish_armed_refresh, from the select loop or from ensure_dynamic_fields:
\* the nonce of the snapshot replaces the cached one, however old it is.
FinishArmedRefresh(b) ==
    /\ pc[b] \in {"waiting", "preparing"}
    /\ snapshot[b] # NoNonce
    /\ request' = [request EXCEPT ![b] = snapshot[b]]
    /\ snapshot' = [snapshot EXCEPT ![b] = NoNonce]
    /\ UNCHANGED <<pc, contended, refreshing, fetched, stale, force, owed, attempts,
                   starts, holder, chainVars>>

\* The trigger is ready: ensure_transaction_ready asks for the lock.
AskLock(b) ==
    /\ pc[b] = "waiting"
    /\ attempts[b] < MaxAttempts[b]
    /\ attempts' = [attempts EXCEPT ![b] = @ + 1]
    /\ pc' = [pc EXCEPT ![b] = "locking"]
    /\ UNCHANGED <<contended, refreshing, fetched, stale, request, snapshot, force,
                   owed, starts, holder, chainVars>>

----------------------------------------------------------------------------
(* WalletNonceLock::acquire and the nonce half of ensure_transaction_ready. *)

\* Mutant: was_contended is not asked.
RefreshNonceUncontended(b, waited) == force[b] \/ ~UsesCachedNonce(b)

\* The three reasons to look the pending nonce up under the lock.
RefreshNonce(b, waited) == force[b] \/ ~UsesCachedNonce(b) \/ waited

Granted(b, waited) ==
    /\ holder = NoBot
    /\ holder' = b
    /\ pc' = [pc EXCEPT ![b] = "preparing"]
    /\ contended' = [contended EXCEPT ![b] = waited]
    /\ refreshing' = [refreshing EXCEPT ![b] = RefreshNonce(b, waited)]
    /\ owed' = [owed EXCEPT ![b] = @ \/ waited]
    /\ UNCHANGED <<fetched, stale, request, snapshot, force, attempts, starts,
                   chainVars>>

\* The lock is dropped, and with it its contended flag and the variables of the
\* preparation that took it.
Release(b) ==
    /\ holder' = IF holder = b THEN NoBot ELSE holder
    /\ contended' = [contended EXCEPT ![b] = FALSE]
    /\ refreshing' = [refreshing EXCEPT ![b] = FALSE]
    /\ fetched' = [fetched EXCEPT ![b] = NoNonce]
    /\ stale' = [stale EXCEPT ![b] = FALSE]

TryLock(b) == pc[b] = "locking" /\ Granted(b, FALSE)

WouldBlock(b) ==
    /\ pc[b] = "locking"
    /\ holder # NoBot
    /\ pc' = [pc EXCEPT ![b] = "blocked"]
    /\ UNCHANGED <<contended, refreshing, fetched, stale, request, snapshot, force,
                   owed, attempts, starts, holder, chainVars>>

LockGranted(b) == pc[b] = "blocked" /\ Granted(b, TRUE)

\* preload_nonce, concurrent with prepare_trigger_transaction.
ReadNonce(b) ==
    /\ pc[b] = "preparing"
    /\ refreshing[b]
    /\ fetched[b] = NoNonce
    /\ \E n \in Answers :
          /\ fetched' = [fetched EXCEPT ![b] = n]
          /\ stale' = [stale EXCEPT ![b] = n < pending]
    /\ UNCHANGED <<pc, contended, refreshing, request, snapshot, force, owed,
                   attempts, starts, holder, chainVars>>

\* ensure_dynamic_fields found the cache unhealthy: refresh_armed_fields.
RefreshFieldsNow(b) ==
    /\ pc[b] = "preparing"
    /\ Strategy[b] = "refresh_each_block"
    /\ snapshot[b] = NoNonce
    /\ \E n \in Answers : request' = [request EXCEPT ![b] = n]
    /\ UNCHANGED <<pc, contended, refreshing, fetched, stale, snapshot, force, owed,
                   attempts, starts, holder, chainVars>>

\* Both halves of the try_join are done.
Joined(b) == pc[b] = "preparing" /\ (refreshing[b] => fetched[b] # NoNonce)

\* Mutant: the lock ends with ensure_transaction_ready.
PrepareReadyUnlocks(b) ==
    /\ Joined(b)
    /\ snapshot[b] = NoNonce
    /\ pc' = [pc EXCEPT ![b] = "ready"]
    /\ holder' = NoBot
    /\ request' = [request EXCEPT ![b] = IF refreshing[b] THEN fetched[b] ELSE @]
    /\ force' = [force EXCEPT ![b] = FALSE]
    /\ owed' = [owed EXCEPT ![b] = @ /\ ~refreshing[b]]
    /\ UNCHANGED <<contended, refreshing, fetched, stale, snapshot, attempts, starts,
                   chainVars>>

PrepareReady(b) ==
    /\ Joined(b)
    /\ snapshot[b] = NoNonce
    /\ pc' = [pc EXCEPT ![b] = "ready"]
    /\ request' = [request EXCEPT ![b] = IF refreshing[b] THEN fetched[b] ELSE @]
    /\ force' = [force EXCEPT ![b] = FALSE]
    /\ owed' = [owed EXCEPT ![b] = @ /\ ~refreshing[b]]
    /\ UNCHANGED <<contended, refreshing, fetched, stale, snapshot, attempts, starts,
                   holder, chainVars>>

\* Mutant: force_nonce_refresh is cleared whether or not the mint is ready.
PrepareNotReadyClearsForce(b) ==
    /\ Joined(b)
    /\ pc' = [pc EXCEPT ![b] = "waiting"]
    /\ Release(b)
    /\ snapshot' = [snapshot EXCEPT ![b] = NoNonce]
    /\ force' = [force EXCEPT ![b] = FALSE]
    /\ UNCHANGED <<request, owed, attempts, starts, chainVars>>

\* Mutant: the nonce just read is kept for the next preparation.
PrepareNotReadyKeepsNonce(b) ==
    /\ Joined(b)
    /\ pc' = [pc EXCEPT ![b] = "waiting"]
    /\ holder' = NoBot
    /\ snapshot' = [snapshot EXCEPT ![b] = NoNonce]
    /\ UNCHANGED <<contended, refreshing, fetched, stale, request, force, owed,
                   attempts, starts, chainVars>>

\* Ok(false): the lock is dropped and so is the nonce just read; a refresh
\* still in flight was cancelled.
PrepareNotReady(b) ==
    /\ Joined(b)
    /\ pc' = [pc EXCEPT ![b] = "waiting"]
    /\ Release(b)
    /\ snapshot' = [snapshot EXCEPT ![b] = NoNonce]
    /\ UNCHANGED <<request, force, owed, attempts, starts, chainVars>>

----------------------------------------------------------------------------
(* execute_transaction: the lock is held until an endpoint acknowledges.   *)

Sign(b) ==
    /\ pc[b] = "ready"
    /\ request[b] # NoNonce
    /\ pc' = [pc EXCEPT ![b] = "broadcasting"]
    /\ UNCHANGED <<contended, refreshing, fetched, stale, request, snapshot, force,
                   owed, attempts, starts, holder, chainVars>>

Submission(b) == [bot |-> b, start |-> starts[b], turn |-> turns,
                  nonce |-> request[b], waited |-> contended[b], owed |-> owed[b],
                  stale |-> stale[b], late |-> request[b] < mined]

\* Mutant: the lock is kept while the receipt is awaited.
AcknowledgedKeepsLock(b) ==
    /\ pc[b] = "broadcasting"
    /\ pc' = [pc EXCEPT ![b] = "submitted"]
    /\ pending' = IF request[b] >= pending THEN request[b] + 1 ELSE pending
    /\ acked' = acked \cup {Submission(b)}
    /\ turns' = turns + 1
    /\ UNCHANGED <<contended, refreshing, fetched, stale, request, snapshot, force,
                   owed, attempts, starts, holder, mined, adrift>>

\* A node takes the transaction unless it knows that the nonce is in a block;
\* a nonce that is only pending replaces the transaction that had it.  What a
\* node that lags behind the block takes is acknowledged too late to be mined.
Acknowledged(b) ==
    /\ pc[b] = "broadcasting"
    /\ pc' = [pc EXCEPT ![b] = "submitted"]
    /\ Release(b)
    /\ pending' = IF request[b] >= pending THEN request[b] + 1 ELSE pending
    /\ acked' = acked \cup {Submission(b)}
    /\ turns' = turns + 1
    /\ UNCHANGED <<request, snapshot, force, owed, attempts, starts, mined, adrift>>

\* An error on the way (preparation, signing, every endpoint refusing), Ctrl+C
\* once submitted, or a crash: the process ends, its memory is gone and the OS
\* frees its lock.  What was being broadcast may still reach a node.
Stop(b) ==
    /\ pc[b] # "stopped"
    /\ pc' = [pc EXCEPT ![b] = "stopped"]
    /\ Release(b)
    /\ request' = [request EXCEPT ![b] = NoNonce]
    /\ snapshot' = [snapshot EXCEPT ![b] = NoNonce]
    /\ force' = [force EXCEPT ![b] = FALSE]
    /\ owed' = [owed EXCEPT ![b] = FALSE]
    /\ attempts' = [attempts EXCEPT ![b] = 0]
    /\ adrift' \in IF pc[b] = "broadcasting" THEN {adrift, adrift \cup {request[b]}}
                                              ELSE {adrift}
    /\ UNCHANGED <<starts, pending, mined, acked, turns>>

----------------------------------------------------------------------------
(* The chain, and the outcome of monitor_receipt.                          *)

Land(n) ==
    /\ adrift' = adrift \ {n}
    /\ pending' = IF n = pending THEN n + 1 ELSE pending
    /\ UNCHANGED <<botVars, holder, mined, acked, turns>>

Mine ==
    /\ mined < pending
    /\ mined' = mined + 1
    /\ UNCHANGED <<botVars, holder, pending, adrift, acked, turns>>

\* A receipt exists for the last transaction that took the nonce; a process
\* whose transaction was replaced by another's polls until it is stopped.
HasReceipt(b) ==
    /\ mined > request[b]
    /\ \E s \in acked :
          /\ s.bot = b /\ s.start = starts[b] /\ s.nonce = request[b] /\ ~s.late
          /\ \A t \in acked : t.nonce = s.nonce /\ ~t.late => t.turn <= s.turn

\* The attempt reverted while the sale was closed: Retry, with a forced read.
Retry(b) ==
    /\ pc[b] = "submitted"
    /\ HasReceipt(b)
    /\ pc' = [pc EXCEPT ![b] = "waiting"]
    /\ force' = [force EXCEPT ![b] = TRUE]
    /\ UNCHANGED <<contended, refreshing, fetched, stale, request, snapshot, owed,
                   attempts, starts, holder, chainVars>>

----------------------------------------------------------------------------
\* The steps a running process owes once it has asked for the lock.
Progress(b) ==
    \/ TryLock(b) \/ WouldBlock(b)
    \/ ReadNonce(b) \/ FinishArmedRefresh(b)
    \/ PrepareReady(b) \/ PrepareNotReady(b)
    \/ Sign(b) \/ Acknowledged(b) \/ (pc[b] \in Critical /\ Stop(b))

BotNext(b) ==
    \/ Start(b) \/ StartArmedRefresh(b) \/ FinishArmedRefresh(b) \/ AskLock(b)
    \/ TryLock(b) \/ WouldBlock(b) \/ LockGranted(b)
    \/ ReadNonce(b) \/ RefreshFieldsNow(b)
    \/ PrepareReady(b) \/ PrepareNotReady(b)
    \/ Sign(b) \/ Acknowledged(b) \/ Stop(b) \/ Retry(b)

Next == (\E b \in Bots : BotNext(b)) \/ (\E n \in adrift : Land(n)) \/ Mine

Spec == Init /\ [][Next]_vars

\* Every network step under the lock has a timeout, so a holder's own steps
\* are weakly fair; a freed lock wakes its waiters, and a waiter that finds
\* it free again and again gets it (strong fairness).  Nothing makes a
\* trigger ready or a transaction mined.
Fairness == \A b \in Bots : WF_vars(Progress(b)) /\ SF_vars(LockGranted(b))

FairSpec == Spec /\ Fairness

----------------------------------------------------------------------------
TypeOK ==
    /\ pc \in [Bots -> Places]
    /\ holder \in Bots \cup {NoBot}
    /\ contended \in [Bots -> BOOLEAN]
    /\ refreshing \in [Bots -> BOOLEAN]
    /\ fetched \in [Bots -> Nonces]
    /\ stale \in [Bots -> BOOLEAN]
    /\ request \in [Bots -> Nonces]
    /\ snapshot \in [Bots -> Nonces]
    /\ force \in [Bots -> BOOLEAN]
    /\ owed \in [Bots -> BOOLEAN]
    /\ attempts \in [Bots -> Nat]
    /\ starts \in [Bots -> Nat]
    /\ pending \in Nat
    /\ mined \in Nat
    /\ adrift \subseteq Nonces
    /\ \A b \in Bots : snapshot[b] # NoNonce => Strategy[b] = "refresh_each_block"
    /\ acked \subseteq Submissions
    /\ turns \in Nat

\* At most one process of the wallet is anywhere between the start of its
\* trigger preparation and the RPC acknowledgement, and it is the one that has
\* the file lock (README.md: the lock is held "from trigger preparation through
\* broadcast acknowledgement").
OneAtATime ==
    \A b \in Bots : pc[b] \in Critical <=> holder = b

\* A submission whose process had to wait for the lock, or whose strategy is
\* just_before_trigger, carries a nonce that no process of the wallet had got
\* acknowledged before it, unless every provider that was heard under the lock
\* was behind the chain: a nonce that was up to date when it was read is still
\* unspent when the submission is acknowledged.
FreshNonceUnused ==
    \A s, t \in acked :
        /\ s.turn < t.turn
        /\ t.waited \/ ~UsesCachedNonce(t.bot)
        /\ ~t.stale
        => s.nonce # t.nonce

\* A retry signs a nonce that an earlier attempt of its process spent, which
\* every up-to-date endpoint refuses (bot.rs:1807), only if the providers
\* answered its own read under the lock with a nonce behind the chain's:
\* force_nonce_refresh survives not-ready preparations and armed refreshes
\* until a nonce read under the lock is in the request.
RetryTakesNewNonce ==
    \A b \in Bots, s \in acked :
        /\ pc[b] = "broadcasting" /\ s.bot = b /\ s.start = starts[b]
        /\ s.nonce = request[b]
        => fetched[b] = request[b] /\ stale[b]

\* The inductive invariant behind the three above: why a nonce that was read
\* under the lock is the one that is signed, is above every acknowledged one if
\* it was up to date, and stays so while the lock is held, and why a process
\* that has submitted before must read it.
NonceInv ==
    /\ \A s \in acked :
          s.nonce < pending /\ s.turn < turns /\ s.start <= starts[s.bot]
    /\ \A b \in Bots :
          /\ pc[b] \in Critical /\ (contended[b] \/ ~UsesCachedNonce(b)) => refreshing[b]
          /\ pc[b] = "preparing" /\ force[b] => refreshing[b]
          /\ pc[b] \in {"ready", "broadcasting"} => ~force[b]
          /\ pc[b] = "broadcasting" => request[b] # NoNonce
          /\ pc[b] \notin Critical => fetched[b] = NoNonce
          /\ pc[b] \in {"ready", "broadcasting"} /\ refreshing[b] =>
                request[b] = fetched[b] /\ fetched[b] # NoNonce
          /\ pc[b] \in Critical /\ fetched[b] # NoNonce /\ ~stale[b] =>
                \A s \in acked : s.nonce < fetched[b]
          /\ \A s \in acked :
                s.bot = b /\ s.start = starts[b] =>
                    \/ pc[b] \in {"submitted", "stopped"}
                    \/ force[b]
                    \/ pc[b] \in {"ready", "broadcasting"} /\ refreshing[b]

Turns == INSTANCE WalletTurns
           WITH owner <- holder, waiting <- Blocked, fresh <- Fresh, told <- Told,
                spent <- Spent, count <- turns, Careful <- Bots \ Cachers

\* The lock of wallet.rs and the protocol of bot.rs around it implement
\* WalletTurns: whoever holds the lock has the turn, and a process that was
\* blocked on it, or that caches no nonce, spends the one nonce that the
\* providers told it in that turn.
ImplementsTurns == Turns!Spec

\* What the documents say of contention: once a process has met a competitor,
\* what it submits next does not reuse an acknowledged nonce (a nonce read
\* under the lock from providers that are behind is left aside).
ContentionForcesFreshNonce ==
    \A s, t \in acked :
        s.turn < t.turn /\ t.owed /\ ~t.stale => s.nonce # t.nonce

\* A process that waits for the lock gets it, whatever the holder runs into.
WaiterIsServed ==
    \A b \in Bots : pc[b] = "blocked" ~> pc[b] # "blocked"
=============================================================================
