---------------------------- MODULE MintMonitor ----------------------------
(***************************************************************************)
(* One run of the bot (bot.rs): start-up, the armed monitor loop over a    *)
(* block, event or manual trigger, preparation under the wallet lock, the  *)
(* one-shot trigger (state.rs), execution, the receipt, retry, Ctrl+C and  *)
(* the WebSocket reconnection with its backfill.  One task runs all of it; *)
(* an action is what the task does between two awaits.  What triggers      *)
(* observe, what OpenSea answers and what nodes return are choices of the  *)
(* environment; stage, event, receipt and nonce data have their own        *)
(* modules.                                                                *)
(***************************************************************************)
EXTENDS Integers

CONSTANTS
    Configs,    \* the configurations under study
    MaxSends    \* bound: transactions one run may submit

\* What a run is started with: the kind of its MonitorStreams, whether
\* opensea_drop_slug is absent, opensea_execution_mode, and --dry-run.
\* config.rs accepts OpenSea with a block timestamp trigger only.
ValidConfigs ==
    {c \in [trigger : {"blocks", "events", "manual"}, direct : BOOLEAN,
            aggressive : BOOLEAN, dryRun : BOOLEAN] :
        /\ c.direct => ~c.aggressive
        /\ ~c.direct => c.trigger = "blocks"}

ASSUME ConfigsAssumption == Configs \subseteq ValidConfigs
ASSUME BoundAssumption == MaxSends \in Nat

VARIABLES
    config,    \* this run's configuration
    state,     \* AtomicBotState
    pc,        \* where the monitor task is
    via,       \* who called ensure_transaction_ready: a stream or the backfill
    lock,      \* the wallet lock: not held, in the context, or execute's local
    healthy,   \* dynamic_fields_healthy
    refresh,   \* armed_refresh: is one in flight
    handler,   \* a tokio signal handler was installed in this process
    listening, \* a shutdown_signal future is registered
    heard,     \* ... and a signal has reached it
    manual,    \* the manual control channel
    exit,      \* how run_bot_with_config returned
    \* History.
    cached,      \* outcome of the last refresh of the dynamic fields
    sinceRetry,  \* the fields were refreshed after the last Retry
    sends,       \* transactions acknowledged by an endpoint
    live,        \* of those, the ones not seen to revert
    reverted,    \* the last attempt ended in Retry after a closed revert
    interrupted, \* Ctrl+C came while armed, before any submission
    rearmed      \* told the user it waits for another manual trigger

task == <<state, pc, via, lock, healthy, refresh, manual, exit>>
signals == <<handler, listening, heard>>
history == <<cached, sinceRetry, sends, live, reverted, interrupted, rearmed>>
vars == <<config, task, signals, history>>

\* start_armed_refresh and refresh_transaction_fields do work only in these modes.
Warm == config.direct \/ config.aggressive

StartUpStates == <<"Starting", "LoadingConfiguration", "ConnectingRpc",
                   "Validating", "Preparing", "Armed", "WaitingForTrigger">>
BotStates == {"Starting", "LoadingConfiguration", "ConnectingRpc", "Validating",
              "Preparing", "Armed", "WaitingForTrigger", "Triggered", "Signing",
              "Broadcasting", "Submitted", "Confirmed", "Failed", "Stopped"}

Places == {"startup", "enter", "select", "observe", "canonical", "locking",
           "prepare", "prepared", "trigger", "execute", "sign", "broadcast", "submitted",
           "receipt", "reconnect", "backfill", "exited"}

Init ==
    /\ config \in Configs
    /\ state = "Starting"
    /\ pc = "startup"
    /\ via = "stream"
    /\ lock = "none"
    /\ healthy = TRUE
    /\ refresh = FALSE
    /\ handler = FALSE
    /\ listening = FALSE
    /\ heard = FALSE
    /\ manual = IF config.trigger = "manual" THEN "open" ELSE "closed"
    /\ exit = "none"
    /\ cached = "ok"
    /\ sinceRetry = TRUE
    /\ sends = 0
    /\ live = 0
    /\ reverted = FALSE
    /\ interrupted = FALSE
    /\ rearmed = FALSE

----------------------------------------------------------------------------
(* Leaving run_bot_with_config, and the process signal.                    *)

Exit(how) ==
    /\ pc' = "exited"
    /\ exit' = how
    /\ lock' = "none"                  \* the file handle goes with the process
    /\ UNCHANGED <<via, healthy, refresh, manual>>

Deaf == handler' = handler /\ listening' = FALSE /\ heard' = FALSE

\* An error leaves through MonitorFailure::Execution, which stores Failed, or
\* from inside the reconnection branch, which does not.
Fail ==
    /\ Exit("err")
    /\ state' = IF via = "stream" THEN "Failed" ELSE state
    /\ Deaf

\* SIGINT or SIGTERM.  Before the first shutdown_signal is polled the default
\* action ends the process; after that only a registered listener notices.
Signal ==
    /\ pc # "exited"
    /\ IF handler
       THEN /\ heard' = (heard \/ listening)
            /\ interrupted' = (interrupted \/ sends = 0)
            /\ UNCHANGED <<task, handler, listening, cached, sinceRetry, sends,
                           live, reverted, rearmed>>
       ELSE Exit("killed") /\ Deaf /\ UNCHANGED <<state, history>>

----------------------------------------------------------------------------
(* run_bot_with_config up to the monitor.                                  *)

StartUpStep ==
    /\ pc = "startup"
    /\ \E i \in 1 .. 6 :
          /\ state = StartUpStates[i]
          /\ state' = StartUpStates[i + 1]
          /\ pc' = IF i = 6 THEN "enter" ELSE "startup"
    /\ UNCHANGED <<via, lock, healthy, refresh, manual, exit, signals, history>>

StartUpFails ==
    /\ pc = "startup"
    /\ state # "Armed"
    /\ Exit("err") /\ Deaf
    /\ UNCHANGED <<state, history>>

----------------------------------------------------------------------------
(* The select loop of monitor_block_stream, monitor_event_stream and       *)
(* monitor_manual.                                                         *)

\* A new shutdown future, which nobody has polled.
Enter ==
    /\ pc = "enter"
    /\ pc' = "select"
    /\ via' = "stream"
    /\ Deaf
    /\ UNCHANGED <<state, lock, healthy, refresh, manual, exit, history>>

\* select! polls its branches in random order until one is ready: only when the
\* shutdown future has its turn is the listener, and the first time the signal
\* handler, installed.  A trigger that is ready may be taken before that.
Listen ==
    /\ pc = "select"
    /\ ~listening
    /\ handler' = TRUE /\ listening' = TRUE /\ heard' = FALSE
    /\ UNCHANGED <<task, history>>

ShutdownArm ==
    /\ pc \in {"select", "reconnect"}
    /\ heard
    /\ Exit("ok") /\ Deaf
    /\ state' = "Stopped"
    /\ UNCHANGED history

\* What any completed refresh leaves behind.
Refreshed(ok) ==
    /\ healthy' = ok
    /\ cached' = IF ok THEN "ok" ELSE "failed"
    /\ sinceRetry' = (sinceRetry \/ ok)

FinishArmedRefresh ==
    /\ pc = "select"
    /\ config.trigger # "manual"
    /\ refresh
    /\ refresh' = FALSE
    /\ \E ok \in BOOLEAN : Refreshed(ok)
    /\ UNCHANGED <<state, pc, via, lock, manual, exit, signals, sends, live,
                   reverted, interrupted, rearmed>>

\* A header, or in event mode a log, arrives.
Notified ==
    /\ pc = "select"
    /\ config.trigger # "manual"
    /\ pc' = "observe"
    /\ UNCHANGED <<state, via, lock, healthy, refresh, manual, exit, signals, history>>

\* The select around reconnect_ws waits for the network, so it listens at once.
StreamEnds ==
    /\ pc = "select"
    /\ config.trigger # "manual"
    /\ pc' = "reconnect"
    /\ handler' = TRUE /\ listening' = TRUE /\ heard' = FALSE
    /\ UNCHANGED <<state, via, lock, healthy, refresh, manual, exit, history>>

\* Mutant: every block starts a refresh, whatever the mode.
NotReadyAlwaysRefreshes ==
    /\ pc = "observe"
    /\ pc' = "select"
    /\ refresh' = TRUE
    /\ UNCHANGED <<state, via, lock, healthy, manual, exit, signals, history>>

\* Mutant: each turn of the loop makes a new shutdown future.
NotReadyForgetsSignal ==
    /\ pc = "observe"
    /\ pc' = "select"
    /\ heard' = FALSE
    /\ refresh' = (refresh \/ Warm)
    /\ UNCHANGED <<state, via, lock, healthy, manual, exit, handler, listening, history>>

\* observe_block or observe_event is not ready, or failed: start_armed_refresh
\* (a log starts none), at most one at a time.
NotReady ==
    /\ pc = "observe"
    /\ pc' = "select"
    /\ \/ refresh' = (refresh \/ Warm)
       \/ config.trigger = "events" /\ refresh' = refresh
    /\ UNCHANGED <<state, via, lock, healthy, manual, exit, signals, history>>

AskReady == IF config.dryRun THEN "prepare" ELSE "locking"

Ready ==
    /\ pc = "observe"
    /\ pc' = IF config.trigger = "events" THEN "canonical" ELSE AskReady
    /\ UNCHANGED <<state, via, lock, healthy, refresh, manual, exit, signals, history>>

\* event_is_canonical
Canonical ==
    /\ pc = "canonical"
    /\ pc' \in {"select", AskReady}
    /\ UNCHANGED <<state, via, lock, healthy, refresh, manual, exit, signals, history>>

\* The control listener forwards one authenticated trigger and ends.
SendManual ==
    /\ manual = "open"
    /\ pc # "exited"
    /\ manual' = "sent"
    /\ UNCHANGED <<state, pc, via, lock, healthy, refresh, exit, signals, history>>

\* monitor_manual took the trigger: its shutdown future is dropped, and the
\* fields are refreshed before anything else.
TakeManual ==
    /\ pc = "select"
    /\ manual = "sent"
    /\ manual' = "closed"
    /\ Deaf
    /\ \E ok \in BOOLEAN :
          /\ Refreshed(ok)
          /\ IF ok THEN pc' = AskReady /\ UNCHANGED <<state, lock, exit>>
                   ELSE pc' = "exited" /\ exit' = "err" /\ state' = "Failed" /\ lock' = "none"
    /\ UNCHANGED <<via, refresh, sends, live, reverted, interrupted, rearmed>>

ManualClosed ==
    /\ pc = "select"
    /\ config.trigger = "manual"
    /\ manual = "closed"
    /\ Fail
    /\ UNCHANGED history

----------------------------------------------------------------------------
(* ensure_transaction_ready and prepare_trigger_transaction.               *)

AcquireLock ==
    /\ pc = "locking"
    /\ pc' = "prepare"
    /\ lock' = "preparing"
    /\ UNCHANGED <<state, via, healthy, refresh, manual, exit, signals, history>>

\* ensure_dynamic_fields: finish the refresh in flight; if that leaves the cache
\* unhealthy, or it was, refresh once more.
DynamicFields ==
    /\ pc = "prepare"
    /\ pc' = "prepared"
    /\ refresh' = FALSE
    /\ IF refresh \/ ~healthy
       THEN \E ok \in BOOLEAN : Refreshed(ok)
       ELSE UNCHANGED <<healthy, cached, sinceRetry>>
    /\ UNCHANGED <<state, via, lock, manual, exit, signals, sends, live,
                   reverted, interrupted, rearmed>>

\* The stream loop continues; the backfill branch starts a new one.
LoopHead == IF via = "stream" THEN "select" ELSE "enter"

\* Mutant: the lock stays in the context of a mint that is not ready.
BackToLoopKeepsLock ==
    /\ lock' = lock
    /\ IF config.trigger = "manual"
       THEN /\ state' = "WaitingForTrigger" /\ healthy' = FALSE
            /\ pc' = "enter" /\ Deaf /\ rearmed' = TRUE
            /\ sinceRetry' = FALSE
       ELSE /\ pc' = LoopHead
            /\ UNCHANGED <<state, signals, rearmed, sinceRetry>>

\* Ok(false) goes back to the loop with the lock dropped.  A manual bot says
\* so and returns Retry.
BackToLoop ==
    /\ lock' = "none"
    /\ IF config.trigger = "manual"
       THEN /\ state' = "WaitingForTrigger" /\ healthy' = FALSE
            /\ pc' = "enter" /\ Deaf /\ rearmed' = TRUE
            /\ sinceRetry' = FALSE
       ELSE /\ pc' = LoopHead
            /\ UNCHANGED <<state, signals, rearmed, sinceRetry>>

\* The dynamic fields stay unhealthy, the sale is closed, or OpenSea defers.
PrepareNotReady ==
    /\ pc = "prepared"
    /\ BackToLoop
    /\ IF config.trigger = "manual" THEN TRUE ELSE UNCHANGED healthy
    /\ UNCHANGED <<via, refresh, manual, exit, cached, sends, live, reverted, interrupted>>

\* Mutant: the cache is not marked unhealthy before the refresh is awaited.
PrepareCancelledStaysHealthy ==
    /\ pc = "prepare"
    /\ ~config.direct
    /\ refresh' = FALSE
    /\ healthy' = healthy
    /\ cached' = IF refresh THEN "cancelled" ELSE cached
    /\ BackToLoop
    /\ UNCHANGED <<via, manual, exit, sends, live, reverted, interrupted>>

\* OpenSea defers before the fields are ready: the refresh that ran beside the
\* request is cancelled.
PrepareCancelled ==
    /\ pc = "prepare"
    /\ ~config.direct
    /\ refresh' = FALSE
    /\ healthy' = (healthy /\ ~refresh)
    /\ cached' = IF refresh THEN "cancelled" ELSE cached
    /\ BackToLoop
    /\ UNCHANGED <<via, manual, exit, sends, live, reverted, interrupted>>

PrepareReady ==
    /\ pc = "prepared"
    /\ healthy
    /\ pc' = "trigger"
    /\ lock' = IF config.dryRun THEN "none" ELSE "context"
    /\ UNCHANGED <<state, via, healthy, refresh, manual, exit, signals, history>>

PrepareFails ==
    /\ pc \in {"locking", "prepare", "prepared"}
    /\ Fail
    /\ UNCHANGED history

\* acquire_trigger: AtomicBotState::try_acquire_trigger, and the lock dropped
\* when it loses.
AcquireTrigger ==
    /\ pc = "trigger"
    /\ IF state = "WaitingForTrigger"
       THEN state' = "Triggered" /\ pc' = "execute" /\ Deaf /\ UNCHANGED <<lock, exit>>
       ELSE /\ lock' = "none"
            /\ pc' = IF config.trigger = "manual" THEN "exited" ELSE LoopHead
            /\ exit' = IF config.trigger = "manual" THEN "ok" ELSE "none"
            /\ UNCHANGED <<state, signals>>
    /\ UNCHANGED <<via, healthy, refresh, manual, history>>

----------------------------------------------------------------------------
(* execute_transaction; Ctrl+C is not looked at until the receipt.         *)

DryRunDone ==
    /\ pc = "execute"
    /\ config.dryRun
    /\ Exit("ok") /\ Deaf
    /\ state' = "Stopped"
    /\ UNCHANGED history

\* Code hash, fee budget and signing policy pass: sign.
FinalChecks ==
    /\ pc = "execute"
    /\ ~config.dryRun
    /\ lock = "context"
    /\ lock' = "local"
    /\ state' = "Signing"
    /\ pc' = "sign"
    /\ UNCHANGED <<via, healthy, refresh, manual, exit, signals, history>>

SignDone ==
    /\ pc = "sign"
    /\ state' = "Broadcasting"
    /\ pc' = "broadcast"
    /\ UNCHANGED <<via, lock, healthy, refresh, manual, exit, signals, history>>

\* Mutant: a submission that failed is tried again like a closed sale.
ExecuteFailsAndRetries ==
    /\ pc \in {"execute", "sign", "broadcast"}
    /\ ~config.dryRun
    /\ state' = "WaitingForTrigger"
    /\ lock' = "none"
    /\ pc' = "enter" /\ healthy' = FALSE /\ sinceRetry' = FALSE
    /\ UNCHANGED <<via, refresh, manual, exit, signals, cached, sends, live, reverted,
                   interrupted, rearmed>>

\* A final check, the signer or every endpoint says no, or nobody answers.
ExecuteFails ==
    /\ pc \in {"execute", "sign", "broadcast"}
    /\ ~config.dryRun
    /\ Fail
    /\ UNCHANGED history

\* Mutant: the guard lives until the receipt.
AcknowledgedKeepsLock ==
    /\ pc = "broadcast"
    /\ state' = "Submitted"
    /\ pc' = "submitted"
    /\ sends' = sends + 1
    /\ live' = live + 1
    /\ reverted' = FALSE
    /\ UNCHANGED <<via, lock, healthy, refresh, manual, exit, signals, cached,
                   sinceRetry, interrupted, rearmed>>

\* An endpoint acknowledged: the lock is released, and the receipt watched.
Acknowledged ==
    /\ pc = "broadcast"
    /\ lock' = "none"
    /\ state' = "Submitted"
    /\ pc' = "submitted"
    /\ sends' = sends + 1
    /\ live' = live + 1
    /\ reverted' = FALSE
    /\ UNCHANGED <<via, healthy, refresh, manual, exit, signals, cached,
                   sinceRetry, interrupted, rearmed>>

----------------------------------------------------------------------------
(* monitor_receipt and what its caller makes of the outcome.               *)

\* The receipt loop's own listener is registered after one more RPC read: the
\* other branch of its select is a timer, so the first poll reaches it.
WatchReceipt ==
    /\ pc = "submitted"
    /\ pc' = "receipt"
    /\ handler' = TRUE /\ listening' = TRUE /\ heard' = FALSE
    /\ UNCHANGED <<state, via, lock, healthy, refresh, manual, exit, history>>

Confirm ==
    /\ pc = "receipt"
    /\ state' = "Confirmed"
    /\ Exit("ok") /\ Deaf
    /\ UNCHANGED history

\* Ctrl+C ends the watch; the transaction stays out.
ReceiptShutdown ==
    /\ pc = "receipt"
    /\ heard
    /\ state' = "Stopped"
    /\ Exit("ok") /\ Deaf
    /\ UNCHANGED history

RevertFails ==
    /\ pc = "receipt"
    /\ Exit("err") /\ Deaf
    /\ state' = "Failed"
    /\ live' = live - 1
    /\ UNCHANGED <<cached, sinceRetry, sends, reverted, interrupted, rearmed>>

\* Mutant: the bot retries without having seen the receipt.
ClosedRevertUnseen ==
    /\ pc = "receipt"
    /\ config.direct
    /\ sends < MaxSends
    /\ state' = "WaitingForTrigger"
    /\ Deaf
    /\ pc' = "enter" /\ healthy' = FALSE /\ sinceRetry' = FALSE
    /\ UNCHANGED <<via, lock, refresh, manual, exit, cached, sends, live, reverted,
                   interrupted, rearmed>>

\* The transaction reverted while the sale was closed: Retry.  The loop goes
\* on; the backfill branch drops the outcome and returns.
ClosedRevert ==
    /\ pc = "receipt"
    /\ config.direct
    /\ sends < MaxSends
    /\ state' = "WaitingForTrigger"
    /\ live' = live - 1
    /\ reverted' = TRUE
    /\ Deaf
    /\ IF via = "stream"
       THEN /\ pc' = "enter" /\ healthy' = FALSE /\ sinceRetry' = FALSE
            /\ UNCHANGED <<exit, lock>>
       ELSE /\ pc' = "exited" /\ exit' = "ok" /\ lock' = "none"
            /\ UNCHANGED <<healthy, sinceRetry>>
    /\ UNCHANGED <<via, refresh, manual, cached, sends, interrupted, rearmed>>

----------------------------------------------------------------------------
(* The reconnection branch of monitor_until_trigger.                       *)

Reconnected ==
    /\ pc = "reconnect"
    /\ Deaf
    /\ pc' = "backfill"
    /\ via' = "backfill"
    /\ UNCHANGED <<state, lock, healthy, refresh, manual, exit, history>>

\* A single attempt each to connect, to subscribe and to backfill.
ReconnectFails ==
    /\ pc \in {"reconnect", "backfill"}
    /\ Exit("err") /\ Deaf
    /\ UNCHANGED <<state, history>>

\* Nothing missed, or a block stream, which has no backfill.
Restored ==
    /\ pc = "backfill"
    /\ pc' = "enter"
    /\ UNCHANGED <<state, via, lock, healthy, refresh, manual, exit, signals, history>>

BackfillReady ==
    /\ pc = "backfill"
    /\ config.trigger = "events"
    /\ pc' = AskReady
    /\ UNCHANGED <<state, via, lock, healthy, refresh, manual, exit, signals, history>>

----------------------------------------------------------------------------
Terminated == pc = "exited" /\ UNCHANGED vars

Arms == \/ FinishArmedRefresh \/ Notified \/ StreamEnds \/ TakeManual \/ ManualClosed

Task ==
    \/ StartUpStep \/ StartUpFails \/ Enter \/ Listen \/ NotReady \/ Ready \/ Canonical
    \/ AcquireLock \/ DynamicFields \/ PrepareNotReady \/ PrepareCancelled
    \/ PrepareReady \/ PrepareFails \/ AcquireTrigger
    \/ DryRunDone \/ FinalChecks \/ SignDone \/ ExecuteFails \/ Acknowledged
    \/ WatchReceipt \/ Confirm \/ ReceiptShutdown \/ RevertFails \/ ClosedRevert
    \/ Reconnected \/ ReconnectFails \/ Restored \/ BackfillReady

Next ==
    \/ /\ config' = config
       /\ Signal \/ SendManual \/ Arms \/ ShutdownArm \/ Task
    \/ Terminated

Spec == Init /\ [][Next]_vars

\* Awaits between two selects are timed out, so the task goes on (weak
\* fairness); select! polls its branches in random order, so a ready shutdown
\* branch is taken sooner or later (strong fairness).  Signals, notifications
\* and receipts are never owed.
Fairness ==
    /\ WF_vars(config' = config /\ pc # "receipt" /\ Task)
    /\ SF_vars(config' = config /\ ShutdownArm)

FairSpec == Spec /\ Fairness

----------------------------------------------------------------------------
FlagsOK ==
    /\ healthy \in BOOLEAN /\ refresh \in BOOLEAN
    /\ handler \in BOOLEAN /\ listening \in BOOLEAN /\ heard \in BOOLEAN
    /\ sinceRetry \in BOOLEAN /\ reverted \in BOOLEAN
    /\ interrupted \in BOOLEAN /\ rearmed \in BOOLEAN

ValuesOK ==
    /\ config \in Configs
    /\ state \in BotStates
    /\ pc \in Places
    /\ via \in {"stream", "backfill"}
    /\ lock \in {"none", "preparing", "context", "local"}
    /\ manual \in {"open", "sent", "closed"}
    /\ exit \in {"none", "ok", "err", "killed"}
    /\ cached \in {"ok", "failed", "cancelled"}
    /\ sends \in Nat /\ live \in Nat

TypeOK == FlagsOK /\ ValuesOK /\ (refresh => Warm)

\* One-shot trigger (README.md:29): whatever the order of triggers, retries and
\* reconnections, a run has at most one transaction out that it has not seen
\* revert, and none while it is armed.
OneOutstanding ==
    /\ live <= 1
    /\ state \in {"WaitingForTrigger", "Triggered", "Signing", "Broadcasting"} => live = 0

\* The wallet lock, which blocks every other bot of the wallet, is held from
\* preparation to the acknowledgement and nowhere else: not while the bot
\* waits, reconnects or watches its receipt, and always when it signs.
LockHeldExactly ==
    /\ pc \in {"startup", "enter", "select", "observe", "canonical", "locking",
               "submitted", "receipt", "reconnect", "backfill", "exited"} => lock = "none"
    /\ pc \in {"sign", "broadcast"} => lock = "local"

\* A run is one of the participants of WalletTurns, which WalletNonce implements
\* for many: every submission takes a turn of its own, is acknowledged within it
\* and ends it; errors, closed sales, retries and Ctrl+C give the turn up.
Turns == INSTANCE WalletTurns WITH
    Bots <- {"this run"}, NoBot <- "nobody", Careful <- {},
    owner <- IF lock = "none" THEN "nobody" ELSE "this run",
    waiting <- {}, fresh <- FALSE, told <- (-1),
    spent <- IF sends = 0 THEN {} ELSE {0}, count <- sends
TakesTurns == Turns!Spec

\* The run as its user sees it, from what it shows and how it returned.
Phase == IF exit # "none" THEN "over"
         ELSE IF state \in {"Triggered", "Signing", "Broadcasting"} THEN "minting"
         ELSE IF state = "Submitted" THEN "out" ELSE "armed"
Result == IF exit = "ok" /\ state = "Stopped" THEN "stopped" ELSE exit

Attempts == INSTANCE MintAttempts WITH
    phase <- Phase, rehearsal <- config.dryRun, shielded <- handler,
    sent <- sends, reverted <- sends - live, result <- Result

\* The one-shot trigger and the retry (README.md:29, 517): once the trigger is won
\* the run submits or ends in an error, it stays with what it submitted until it
\* is confirmed, reverts or the user stops, and arms again only after a revert;
\* it never ends well without a mint unless it was stopped, was a rehearsal, or
\* the backfill dropped a closed revert (bot.rs:844).  Ctrl+C kills it, and may
\* kill it with its transaction out, only until the signal handler is installed,
\* which is before any transaction is judged: only a first attempt is lost so.
KeepsOneShot == Attempts!Spec

\* Failed or cancelled refreshes cannot authorize signing (PERFORMANCE.md:13):
\* a run signs only on fields whose last refresh succeeded, and succeeded after
\* the attempt it retries.
SignsOnHealthyFields ==
    pc \in {"trigger", "execute", "sign", "broadcast"} /\ Warm
        => cached = "ok" /\ sinceRetry /\ ~refresh

\* A submission that reverted because the sale was closed is retried
\* (README.md:517): only Ctrl+C makes the run return without a new attempt.
ClosedRevertIsRetried == reverted /\ exit = "ok" => state = "Stopped"

\* Ctrl+C before submission does not send a transaction (README.md:537).
InterruptPreventsSubmission == interrupted => sends = 0

\* After the notice that it waits for another manual trigger, a manual bot
\* stays armed for one.
ManualStaysArmed == rearmed => exit # "err"

\* A Ctrl+C that reached the monitor's listener ends the run, unless the run
\* was already on its way to a submission or the connection dropped at that
\* moment; the blocks and refreshes in between do not make it forgotten.
HeardSignalStops ==
    heard /\ sends = 0 /\ config.trigger # "manual" ~>
        exit # "none" \/ state \in {"Triggered", "Submitted"} \/ pc = "reconnect"
=============================================================================
