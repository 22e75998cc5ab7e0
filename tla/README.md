# A formal model of mintbot

This directory holds TLA+ modules that model the mint bot in `src/`, the TLC
runs that check them on small instances, and proofs that TLAPS checks for every
instance.  File and line references are to the repository (`bot.rs:1182` is
`src/src/bot.rs`, line 1182).

Contents: [the system](#the-system) · [the modules](#the-modules) ·
[the runs](#the-runs) · [fairness](#fairness) · [the proofs](#the-proofs) ·
[what the model shows of the code](#what-the-models-show-of-the-code) ·
[what is not modelled](#what-is-not-modelled) · [the plan](#the-plan)

## The system

mintbot is armed with a configuration and a wallet, waits for a trigger, and
then signs and broadcasts one mint transaction as fast as it can.  One process
is one run: `run_bot_with_config` (bot.rs:57) is a single task that awaits
timers, subscriptions and RPC answers; what runs beside it is the schedule
refresher (a spawned task), the requests of a broadcast (one task per endpoint),
the manual control listener (a spawned task), and other bot processes of the
same wallet, which meet it at a file lock.

| Component | State | Operations | Talks to |
|---|---|---|---|
| Wallet nonce lock (wallet.rs:59-104) | the OS lock on a file per chain and wallet; `contended` | acquire (try, then block in a thread), release on drop or process death | other processes |
| Nonce strategies (bot.rs:1196-1232, 1682-1735, 1805-1812; config.rs:151) | the cached nonce of `prepared.request`, `force_nonce_refresh`, the nonce in an armed refresh | preload, refresh each block, read at the trigger, force after a retry | RPC pool, the lock |
| Monitor loop (bot.rs:778-1105) | `AtomicBotState`, the context (`nonce_lock`, `armed_refresh`, `dynamic_fields_healthy`), the shutdown future | `select!` over a stream, the refresh and Ctrl+C; reconnect and backfill; retry | every other component |
| Preparation and execution (bot.rs:1196-1384, 1754-1812) | `prepared`, the one-shot trigger | prepare under the lock, simulate or hydrate, acquire the trigger, final checks, sign, broadcast | OpenSea, RPC pool |
| Transaction fields (bot.rs:243-375, 452-708, 1407-1427, 1682-1738, 1993-2205) | payment, gas, fee cap and balance in two places: `request` and the rest of `prepared` | prepare, refresh on a copy or in place, merge, hydrate, policy, bump | RPC pool |
| Receipt monitor (bot.rs:1815-1991) | candidate hashes, replacement count, last replacement block | poll, wait for confirmations, recheck, judge, replace | RPC pool |
| Trigger engine (trigger.rs) | `pending_event`, block timestamp | observe header, observe log, discard | two subscriptions |
| OpenSea schedule (opensea.rs:430-480, bot.rs:1429-1680) | the refresher's previous schedule, the watch channel, the stage list, index and trigger time | poll, send, adopt, refresh now, advance, defer | OpenSea |
| OpenSea client (opensea.rs) | none | fetch, build mint with retries, check the supply, classify rejections, validate calldata | HTTP |
| RPC pool (rpc.rs) | the list of providers read from, the list broadcast to, the WebSocket connection | check chains, reconnect, read from all or from the first that answer, broadcast | nodes |
| Manual control (setup.rs:411-516) | a control file per configuration, a port and a token per run, a one-shot listener | bind, write and clean up the file, serve a connection, trigger | other runs, the trigger command |
| Configuration, setup wizard, ABI, secret scan, metrics, benchmark, CLI | none that lasts | parse, validate, ask, encode, print | the user |

What is hard here:

* **Interleaving.** Armed refreshes work on a *copy* of the prepared transaction
  while schedule updates, hydration, refreshes in place and other processes
  change what the copy was taken from; Ctrl+C may arrive at any await, but is
  heard only at some.
* **Ordering.** Headers and logs travel on two subscriptions that are drained in
  any order; reorganisations announce removals late or not at all; OpenSea lags
  the chain and the schedule changes under the cursor.
* **Failure.** Requests time out after they took effect; the WebSocket drops with
  logs still queued; a process dies holding the lock or with a transaction on the
  way; a canonicality read fails.
* **One-shot and retry.** A mint must go out once, be retried after a closed sale,
  and never with a spent nonce or with fees nobody checked.

So the properties that make it correct: one process at a time between
preparation and acknowledgement, nonces read under the lock are new, retries use
new nonces (nonce lock); one outstanding transaction, the lock held exactly where
it is promised, signatures only on fields whose last refresh succeeded, no lost
Ctrl+C, no lost retry (monitor); what is signed was checked against fees and a
balance of one round of reads, and stays in its limits (fields); verdicts are
about the canonical chain, replacements are bounded (receipts); action only on
confirmed canonical events, and on every one the chain keeps (events); no stage
skipped without a rejection, eligible stages minted (schedule); a verdict on a
broadcast that is true, reads that hold what honest providers hold (pool); a run
that is found by its trigger command, and triggered once (manual control).
`PROJECT.json` lists the hazards behind them, line by line.

## The modules

| Module | Models | Composes or extends |
|---|---|---|
| `WalletNonce` | the lock, the nonce strategies, submission, crashes and restarts of several processes | |
| `WalletTurns` | what the lock promises: turns, a queue, fresh nonces | abstract specification of `WalletNonce` and of `MintMonitor` |
| `MintMonitor` | one run of the bot, start to exit | instances `WalletTurns` and `MintAttempts` |
| `MintAttempts` | what a run promises its user: one transaction out at a time, judged, and retried only after a revert | abstract specification of `MintMonitor` |
| `TransactionFields` | payment, gas, fees and balance of one mint | |
| `ReceiptMonitor` | `monitor_receipt` and replacements over a chain that reorganises | |
| `EventTrigger` | event trigger, canonicality check, reconnection and backfill | |
| `StageSchedule` | schedule refresher, watch channel, stage cursor, mint requests and their retries | |
| `Broadcast` | `broadcast_raw` over several endpoints | |
| `AggregatedRead` | the fan-out reads: `read_all`, and the critical reads with their settle window | |
| `RpcPool` | chain checks, reconnection, reads and a broadcast over providers that lag, fork, fail or lie | instances `Broadcast` and `AggregatedRead` on one pool |
| `ManualControl` | the control file, port, token and listener of several runs, and the trigger command | instances `ManualTrigger` |
| `ManualTrigger` | what the channel promises a run | abstract specification of `ManualControl` |
| `...Proofs` (8 modules) | theorems | extend the module they are named after |
| `MC...` | constants of the runs | extend the module they are named after |

Each module follows one thread of state through the whole program and treats
the rest as choices of its environment: `MintMonitor` lets a preparation come
out ready, not ready, cancelled or failed, and `WalletNonce`,
`TransactionFields` and `StageSchedule` say what that means for nonces, money
and stages.  The cut is at the await: an action is what a task does between two
awaits at which something else can happen.

**WalletNonce.**  A bot's `pc` walks `waiting` (armed), `locking` (asked for the
lock), `blocked` (in `file.lock()`), `preparing` (both futures of the `try_join!`
at bot.rs:1222 run), `ready`, `broadcasting`, `submitted`, `stopped`.  `request`,
`force`, `refreshing`, `fetched` and `snapshot` are the nonce in
`prepared.request`, `force_nonce_refresh`, the decision of bot.rs:1207, the
nonce read beside the preparation, and the one in an armed refresh.  The chain is
`pending` and `mined`; a node accepts a nonce that is not yet mined, and a
transaction that is only pending is replaced.  What the providers tell a bot of the
pending nonce may be up to `MaxLag` behind it (`Answers`): they are the HTTP providers
alone, heard for a short window (rpc.rs:355-363, 572-579), and the last submission may have
been acknowledged by another endpoint.  `stale` remembers that of the nonce read under the
lock.  `acked` is the history of acknowledged submissions; one that a lagging node took
after its nonce was in a block is `late`.  `Release` drops the lock with its flags.  `Stop`
is every way a process ends, and what it was broadcasting may still land.  An aggressive OpenSea bot is one with strategy
`refresh_each_block`.

**MintMonitor.**  `config` is one of the configurations config.rs accepts: the
kind of stream, direct or OpenSea, normal or aggressive, dry run or not.  `lock` says
in whose hands the wallet lock is (`preparing`, the context, `execute_transaction`),
`healthy` and `refresh` are `dynamic_fields_healthy` and `armed_refresh`, and
`handler`/`listening`/`heard` are what tokio knows of a signal: the first
`ctrl_c()` installs the handler for good, after which a signal kills nobody and
only a registered future notices it.  `Enter` makes a new future; it is `Listen`, its first
poll, that registers it and installs the handler, for `select!` polls in random order and a
trigger that is ready may be taken before.  `via` tells the stream from the backfill
branch, whose outcome is dropped.

**TransactionFields.**  `request` and `prepared` are the two places of the same
numbers, each with `read`, the round of reads its fee or balance came from.  The
armed refresh works on `inFlight`, a copy; `refresh_armed_fields` works in place,
so that a failed budget check leaves new fees beside the old balance.
`Hydration` is what OpenSea's answer makes of them in each mode, `Policy` is
`validate_signing_request`, and `Bump` and `Replace` are the replacements.  Fees
of legacy mode are a fee without a tip, that is a tip below it; no gas cap is a cap
nobody reaches.

**ReceiptMonitor.**  The chain (`head`, `included`, `reorgs`) takes any transaction of
the nonce, `sent` has the fees of all that a node may know, `watched` those the bot
looks up.  The height the bot sees may be a block late.  `behind` has the receipts of
abandoned branches that a provider, or an answer on its way, still gives, until `CatchUp`:
the bot takes any of `SeenReceipts`, for one provider that has a receipt is enough
(rpc.rs:439-455).  A replacement may be acknowledged by a node that has not seen its nonce
mined.

**EventTrigger.**  The chain is a sequence of blocks with a fork number and at most
one event each; `headers` and `logs` are the two subscription queues.  A
reorganisation announces the removed logs first, then the new blocks, and leaves the events
it removes in `behind`, where providers that have not followed still report them: `Reported`
is the union of what providers may answer (rpc.rs:458-478).  `Disconnect` breaks the
connection; then either the streams end and the monitor reconnects with a backfill, or
alloy restores connection and subscriptions below them (`SilentReconnect`, rpc.rs:703), with
what was announced in between missing.  A backfill reads up to a height that may be a block
late (bot.rs:1112) and returns, in no particular order, any part of what is reported;
answers of the chain's logs that are missed count as failed reads.  What the bot acts on is
recorded when the preparation is over, and `moved` tells whether the chain or the
providers moved during it.

**StageSchedule.**  `published` is OpenSea's schedule; `previous`, `channel`, `changed`
are the refresher and the watch channel; `stages`, `index`, `trigger` the cursor.
OpenSea's refusal with a reason is true, a bare 422 or a 409 may come at any time.
`tries` counts the attempts of one mint request: an outage, a 429 or a 5xx is retried
(`Unavailable`), a refused key or an unknown drop is not (`Denied`), and `sold` is the
supply that `SoldOut` reads.

**Broadcast.**  A node has the transaction, refused it, or was not reached; the reply is
what the request came back with, which after a timeout or a broken connection
says nothing about the node.  An acknowledgement is the hash, "already known", or a refusal
whose words contain "known transaction" (`misread`, rpc.rs:764-773).

**AggregatedRead** and **RpcPool.**  `answer` is what each request came back with, `heard`
which of them the reading task has looked at; between the two lies the settle window.
`readers` and `pool` are the two lists that the chain check leaves, `reports` the chain each
endpoint is on, which a reconnection may change for the WebSocket: `Reconnect` asks for it,
`SilentReconnect`, alloy's own (rpc.rs:703), does not, and `restored` tells that there was one
since.  Providers move from a parent block to branch A and from there to B until they
have answered; `Liars` give wrong answers to view calls.  The nonce is read after an
acknowledgement, while the broadcast's other requests are still on the way.

**ManualControl.**  The runs share one configuration and so one control file.  `place`
walks bind, `create_new` (with the removal of a stale file as two steps of their own),
write, armed; `Die` leaves the file behind, and its port may be bound by the next run.
The trigger command reads the file, connects, and writes in three separate steps;
`alone` remembers the runs that no other run overlapped with.

**ManualTrigger** has a channel per run and the set of runs somebody asked for.  The
mapping reads that set off the tokens the clients hold.

**WalletTurns** has six variables: whose turn it is, who queues, whether the turn
must spend the nonce it is told, which one it was told, and what was spent in how many
submissions.  `WalletNonce` maps the lock's holder to the turn's owner, blocked processes to
the queue, the nonce read under the lock to the one told, and the acknowledged nonces to the
spent ones.  That what is told is new is the nodes' part, not the lock's; what the lock
gives is that nobody spends it in between.  `MintMonitor` is shown to be one such
participant: wherever its lock is kept, it takes a turn, submits in it, and ends it.

**MintAttempts** knows four phases (armed, minting, out, over), whether a signal handler shields
the run, how many transactions were submitted and seen to revert, and the result.  `MintMonitor` maps what it shows
(`AtomicBotState`) and how it returned to them (`Phase`, `Result`); `Triggered`, `Signing` and
`Broadcasting` are minting, `Submitted` is out.  There is no step from minting back to
armed, none from out to armed without a revert, `Abandon` is the one way to end well
without a mint that nobody asked for: the dropped outcome of bot.rs:844, and `Die`, which a
signal may cause in any phase, needs a run without a shield.

## The runs

All properties are stated, with the behaviour they are about, at the end of their
module.  Passing runs:

| Run | Bounds | Shows |
|---|---|---|
| `MCWalletNonce_turns` | a bot that refreshes its cached nonce (3 lock attempts) and one that reads it at the trigger (1 attempt, started twice); providers at most one nonce behind | `OneAtATime`, `FreshNonceUnused`, `RetryTakesNewNonce`, that the protocol implements `WalletTurns` (`ImplementsTurns`), and `WaiterIsServed` |
| `MCMintMonitor_all` | all configurations, 3 submissions | `TypeOK`, `OneOutstanding`, `LockHeldExactly`, `SignsOnHealthyFields`, that a run implements `WalletTurns` (`TakesTurns`) and `MintAttempts` (`KeepsOneShot`), `HeardSignalStops` |
| `MCTransactionFields_budget` | 20 configurations, 3 rounds of reads, a retry, 2 replacements | `PreparedPassesPolicy`, `FeesMatchBalance`, `SignedWithinLimits`, `ArmedCanPay` |
| `ReceiptMonitor_watch` | 2 confirmations, 2 replacements, 5 blocks, a reorganisation that providers follow at any time | `TypeOK`, `ReplacementsStayInBudget`, `ConfirmedIsTrue`, `MinedEndsWatch`, `InterruptEndsWatch` |
| `EventTrigger_events` | 2 confirmations, 6 blocks, 2 events, a reorganisation that providers follow at any time, 2 lost connections, restored or ended, a read that misses answers | `ActsOnConfirmedEvent`, `DiscardsOnlyNonCanonical`, `KeptEventTriggers` |
| `MCStageSchedule_edits` | four schedules, 2 edits, 8 instants, normal mode, 4 attempts of a request, a drop that sells out; the wallet may mint only in the phase that is published last | `TypeOK`, `SkipsOnlyRejectedStages`, `TriggerFollowsStage`, `UnsentIsKnown`, `MovesOnWithCause`, `EligibleStageIsMinted` |
| `RpcPool_reads` | the WebSocket and two providers that are read from, one of which lies; any reports of chains, one reconnection after another, one below the pool since the last check | `VerdictIsTrue`, `PoolIsOnChain`, `StaleNonceIsUnheard`, `ViewIsTrustworthy`, `NothingIsOverlooked`, `AckIsReported`, `ReadEnds` |
| `ManualControl_runs` | three runs, two clients, two ports | `RunningBotIsFound`, `ImplementsManualTrigger`, `SentIsRead` |

Why the bounds are enough.  A retry that forgets its flag needs three attempts of one
bot (submit, an unready preparation, submit), a stale snapshot one competitor and one
submission of it, and a crash one restart; more bots only queue.  A nonce that is one behind
is one that the last submission spent, and so already the case that matters.  Three submissions
let a run retry after a retry.  Three rounds of reads are the arming values, a
failed refresh in place and a good one, beside the one a copy was taken from.  The
receipt monitor meets its limits with two replacements, and one reorganisation takes
a transaction back in every phase of the wait; later ones start from a state a
first one can leave.  Two events are needed to displace one from the slot, one
reorganisation to remove the second and leave it with the providers that are behind, and two
lost connections to restore one silently and end the other; six blocks leave room for this
with two confirmations.  The same configuration with two reorganisations and one lost
connection has 2.5 million states and no error either; it takes four minutes and is not kept.  Two edits let a schedule be changed while the previous one
is still in the channel.  Of endpoints, three can disagree with each other and leave
one late; two that are read from can be on two branches, or an honest one beside a liar.
Three runs are a dead one that left its file and port, and two that overlap; two
clients are one whose token is old, or who says nothing, and one who is in time.
The number of attempts of a mint request is the code's own.

Deadlock is checked except where the system may stop: `WalletNonce` runs out of attempts,
`RpcPool` has failed or holds its verdict and its read, every run of `ManualControl` is over,
and `TransactionFields` ends with a failed or finished mint.

Runs whose property, taken from the documents or the program's own messages,
is violated (the findings of `PROJECT.json`):

| Run | Property | What happens |
|---|---|---|
| `MCWalletNonce_contention` | `ContentionForcesFreshNonce` | the nonce that contention made the bot read is thrown away with a mint that was not ready; the next attempt, without contention, signs the stale one |
| `MCMintMonitor_backfill` | `ClosedRevertIsRetried` | a submission made from the backfill that reverts on a closed sale ends the run with success |
| `MCMintMonitor_interrupt` | `InterruptPreventsSubmission` | Ctrl+C during the preparation does not keep the bot from submitting |
| `MCMintMonitor_manual` | `ManualStaysArmed` | the control listener serves one trigger, so the bot that waits for another ends with an error |

## Fairness

Fairness is stated beside each `FairSpec` and is what the code's own timeouts and
tokio's scheduling give:

* every RPC and HTTP request has a timeout (rpc.rs:622, config's timeouts), so a task
  that is not waiting in a `select!` goes on: weak fairness of its steps;
* `select!` polls its branches in random order, so a branch that is ready again and
  again is taken: strong fairness of the shutdown branch and of each queue;
* the OS wakes a waiter when a lock is freed, and a waiter that finds it free again
  and again gets it: strong fairness of `LockGranted`;
* the requests of a broadcast and of a read each run under a timeout, and a settle
  window closes (rpc.rs:491, 574, 623): weak fairness of `Timeout`, `Join`, `Fail`, `Hear` and
  `Deadline` in `RpcPool`;
* the manual listener is a spawned task that reads a line for 250 ms at most
  (setup.rs:438-452): weak fairness of its steps, and of writing the control file; the
  monitor that should take the trigger, and the clients, owe nothing;
* blocks keep coming, and a provider or OpenSea that is asked again and again
  answers in the end (`ReceiptMonitor`, `EventTrigger`, `StageSchedule`): without it no
  watch could be said to end.

Never assumed: a signal, a trigger, a receipt, a lock held for a short time only (the
holder's steps under the lock are fair, its wait for a receipt is not), a
reorganisation that stops (the properties say what holds once the chain keeps the
event or the transaction).

## The proofs

`WalletNonceProofs` proves for any set of bots, finite or not, any assignment of
strategies and any bounds (assumptions: the lock's "nobody" is no bot, strategies
are the three of config.rs, the bounds are numbers):

* `TypeCorrect`, `MutualExclusion`: `TypeOK` and `OneAtATime`.  The second is inductive by
  itself, for every action that enters or leaves the critical places also sets the
  holder.
* `NonceInvHolds`: the inductive invariant behind the nonce properties.  `FreshNonceUnused`
  is about pairs of past submissions, so it says nothing about a process that has read
  its nonce and has not submitted.  `NonceInv` adds that: every acknowledged nonce is below
  the pending one; a nonce read in the current preparation, unless it was behind the chain's
  when it was read, is above every acknowledged one and remains so, *because only the holder
  can be acknowledged*; it is the one in the request of a ready or broadcasting process
  that refreshed; a process that waited, or that caches no
  nonce, or that must retry, refreshes; and a process that has submitted before either is
  done, or has `force_nonce_refresh`, or is past the forced read.
* `FreshNonces`, `RetryNonces`: `FreshNonceUnused` and `RetryTakesNewNonce` from it.  That a nonce
  is up to date is assumed of no read: the properties say what holds when it was, and that
  nothing but a stale answer to the read under the lock lets a spent nonce through.
* `FreshNoncesAscend`: more than the runs check.  A nonce that was read under the lock and
  was not stale is not only new but above every earlier one, and each submission has a turn
  of its own.
* `CarefulWallet`: hence, if every bot of the wallet uses `just_before_trigger`, two
  acknowledged submissions share a nonce only if the later bot was told a stale one
  (`SharedOnlyIfStale`).  The hypothesis is needed: a preloaded nonce can
  be spent by a competitor that has already released the lock (bot.rs:1207).
* `ImplementsWalletTurns`: `ImplementsTurns`, that is `Spec => Turns!Spec`.  Every step takes, gives up or ends a turn,
  joins or leaves the queue, or changes nothing `WalletTurns` sees; that a submission
  of a turn that must be fresh spends the nonce told in that turn is `NonceInv` again.

`TransactionFieldsProofs` proves for any configurations, estimates, balances and
multipliers that the type invariant holds, that what is prepared for signing passes
the signing policy, that its fee and balance are of one round of reads, and that
everything signed stays in its limits.  The inductive invariant `FieldsInv` says that
`request` and `prepared` agree at all times; that a direct mint's payment and gas
never change after arming, which is why a merge of an older copy is harmless; that
fields that are called healthy are within the budget; and that an aggressive bot's
gas limit is the scaled configured one.
`ArmedCanPay` (`ArmedPays`) needs more: the check that failed at the trigger and the
check that passed at arming are about different numbers, so `ArmedInv` remembers of the
arming what its check established (`armedWith`), that an aggressive bot's gas is still
that gas, and that the price OpenSea may ask was counted in.  The cost grows with gas, fee
and price (`CostMonotone`), hence a budget that held then fails only for the excepted
reasons (`BudgetMonotone`).

`MintMonitorProofs` proves for any set of configurations that config.rs accepts
(`ConfigsAssumption`) and any number of submissions `TypeOK`, `OneOutstanding`,
`LockHeldExactly`, `SignsOnHealthyFields`, `TakesTurns` and `KeepsOneShot`.  The invariants name states of the
bot, but what a step does depends on the place of the task, so `RunInv` says for every place
who has the lock (`LockFollows`), whether a transaction is out and what the state is
then (`OutFollows`), whether a refresh may be in flight and the cache is healthy
(`FieldsFollow`), and what state is shown there (`StateFollows`).  The refinement of
`WalletTurns` has one step per action of the loop: only the start of a preparation, a
submission and the release of the lock are seen by it.  That of `MintAttempts` needs
`StateFollows`: the one-shot transition is never lost, because the state is
`WaitingForTrigger` wherever the trigger can be acquired; and that the handler is installed,
for good, by the time a transaction is judged, so that a run is killed only before its first
retry.

`ReceiptMonitorProofs` proves for any confirmations, chain length, number of reorganisations and
replacement rule that raises fees (`ConfigAssumption`, `BoundsAssumption`) that `TypeOK`,
`ReplacementsStayInBudget` and `ConfirmedIsTrue` hold.  `SendsFollow` ties the counter to what was
sent: while another replacement is allowed everything sent was acknowledged and the last
one pays `request`, which is why an unknown outcome, which uses up all attempts, is
never followed by another one.  `FoundFollows` ties the receipt in hand to the chain: without a reorganisation no provider
is behind, the receipt is still the chain's, and it is read again only at its depth.  That a bump raises a fee in
integer division is a lemma (`BumpRaises`).

`EventTriggerProofs` proves `TypeOK`, `ActsOnConfirmedEvent` and `DiscardsOnlyNonCanonical` for any number
of confirmations and any bounds (`ConstantsAssumption`).  `EventInv` adds what is in the queues:
a queued removal is about a block that has left the chain (forks are never used again,
so it stays true), no header and not `lastSeen` is above the chain, so an event whose
needed height was seen has that many blocks above it.  `HeldOK` carries the event over the
preparation of the mint, in which the chain and the providers may move and the bot does not
look again.

`RpcPoolProofs` proves, for any set of providers and any liars among them (`PoolAssumption`, and
`OutcomesAssumption`: a failure is no answer), `VerdictIsTrue`, `PoolIsOnChain`,
`StaleNonceIsUnheard`, `ViewIsTrustworthy`, `NothingIsOverlooked` and the type invariant.
`PoolInv` has an invariant for each hand the information passes through: what a reply says of its
node (`SendFollows`), what the caller made of the replies (`VerdictFollows`), when there can be
a read (`StageFollows`), what a provider can have answered (`AnswersFollow`: one that had the
transaction when the read began counts it), and that a finished read has heard
everybody, or everybody who answered (`ReadFollows`).  Only then do the properties of the
combined result follow from the combination alone.

`ManualControlProofs` proves for any runs, clients and ports (`NobodyAssumption`) `TypeOK`,
`RunningBotIsFound` and `ImplementsManualTrigger`.  `OwnsFile` is what the first needs: a run that was
never overlapped is the only live one, so nobody else touches the file from its creation to
its end.  `Served` keeps a listener from reading after its run ended.

`StageScheduleProofs` proves `TypeOK`, `UnsentIsKnown`, `TriggerFollowsStage`, `MovesOnWithCause` and
`SkipsOnlyRejectedStages` for any schedules listed in order of start (`SchedulesAssumption`), any
edits and any delay.

* The bot's list is what is left of a schedule at some time, so the proofs need to know
  what dropping the stages that are over keeps.  `Lists` says it without a recursion over
  the sequence: an increasing function picks the kept positions, and misses none that is
  still open (`OrderExists`, `OrderIsOnto`, `UnexpiredLists`).  Where an argument would be an
  induction, it takes a least element instead, which the library's well-foundedness of
  `<` gives (`LeastExists`).
* `TypeInv` is that the list comes from a schedule OpenSea may publish (`FromSchedule`); with
  `RefreshedIndexFinds` this keeps the index in the list (`CursorInList`), and the code's
  `opensea_stages[index]` from panicking.
* `SentIsTaken` follows a schedule from the refresher through the watch channel to the
  list; it is why `UnsentKnown` holds through polls and updates in any order.
* `MovesWithCause` is proved for schedules that list no stage twice (`ListedOnce`): of two
  equal stages a refresh selects the first, whichever the bot stood at.
* `SkipsOnlyRejected` is proved for edits that keep the order stable (`StableOrder`), and no
  part of that hypothesis can be dropped; TLC has a counterexample for each
  (below).  The runs' schedules satisfy both hypotheses, which TLC checks as assumptions
  of `MCStageSchedule`, together with `Unexpired` being the filter of the code.
* `CursorInv`, behind `TriggerFollows`, adds that the stage has been asked for while its
  rejection is handled, since a retry may move the trigger only then.

Only model-checked: liveness.  TLAPS has no reasoning about fairness or ENABLED that would carry
`WaiterIsServed`, `HeardSignalStops`, `MinedEndsWatch`, `InterruptEndsWatch`, `KeptEventTriggers`,
`EligibleStageIsMinted`, `AckIsReported`, `ReadEnds` and `SentIsRead`.  Every safety property of a passing
run is also a theorem.  No module uses recursive operators.  The type invariants of
`WalletNonce`, `TransactionFields`, `RpcPool`, `EventTrigger` and `ManualControl`, and the inductive invariants, are proved and
not checked again by a run.

## What the models show of the code

Beyond the findings above, these came up while modelling; each is excepted by name in
the property it touches, so that the rest of the property can be checked:

* An event slot holds one event.  A second log displaces the first (trigger.rs:112), and
  when a reorganisation removes the second, the first, still in the chain, is never
  acted upon (`lost` in `EventTrigger`).
* A canonicality read that fails, is late, or hears only from providers that do not have
  the block yet discards a canonical event (bot.rs:1153, `unwrap_or(false)`):
  `DiscardsOnlyNonCanonical` excepts it.
* One provider that still follows an abandoned branch is enough to confirm its event
  (rpc.rs:458-478), and the event is not looked up again after the preparation
  (bot.rs:980-996), which may take seconds: `ActsOnConfirmedEvent` excepts both.
* In the same way one provider's stale receipt confirms a mint that the chain has lost
  (rpc.rs:439-455): `ConfirmedIsTrue` names the branch it is on.
* alloy restores the WebSocket up to ten times without ending the streams (rpc.rs:703).  No
  backfill follows, so logs are lost (`lost` in `EventTrigger`), and the chain is not checked
  (`restored` in `RpcPool`), though README.md:54 and README.md:872 promise both.
* A backfill ends at the height the first providers told (bot.rs:1112), which may be below the
  last block whose logs were missed.
* A Ctrl+C may kill a run that has submitted: a trigger that is ready when the loop is
  entered may be taken before the shutdown future is polled for the first time (bot.rs:884,
  957, 1060), and there is no handler until the receipt is awaited (`Die` of `MintAttempts`).
* A refusal that says "unknown transaction type" contains "known transaction" and counts as an
  acknowledgement (rpc.rs:764-773): `VerdictIsTrue` excepts it.
* After the confirmation wait the receipt is read again and judged whatever its block
  (bot.rs:1876); a transaction that moved to a later block is confirmed with fewer
  confirmations: of depth, `ConfirmedIsTrue` speaks on chains without a reorganisation only.
* A connection that breaks counts as a refusal (rpc.rs:650), though the node may have the
  transaction: `VerdictIsTrue` excepts it.
* A backfill starts one block before the last header seen (bot.rs:820).  Logs that were
  two or more blocks behind the headers when the connection broke are never fetched, though
  README.md:54 says that missed logs are backfilled (`lost` in `EventTrigger`).
* An OpenSea outage that lasts four requests (100, 200 and 400 ms apart, opensea.rs:208)
  in the moment a stage opens ends the run: `EligibleStageIsMinted` holds without it.
* `eth_getLogs` answers of all providers are united (rpc.rs:464), so one stale provider
  keeps a reorganised log: `NothingIsOverlooked` states the other side of it, that no
  provider's log is missed.
* A nonce is the highest that the first answers and the settle window bring
  (rpc.rs:355-363, 529-581); a spent one is given again when no provider that had the
  transaction is heard in time: `StaleNonceIsUnheard`.  The read under the lock is no exception, so
  a contended, a just-in-time or a retried mint may sign a spent nonce too: `FreshNonceUnused` and
  `RetryTakesNewNonce` hold but for it.
* A run that ends removes the control file of its configuration whoever wrote it
  (setup.rs:481), so a newer run that overlapped with it is no longer found:
  `RunningBotIsFound` speaks of runs that were alone.
* "Manual trigger sent." (setup.rs:477) is printed though a listener may have dropped
  the connection after 250 ms.
* The refresher compares a poll with what it sent last, not with what the monitor has
  (opensea.rs:472).  A schedule changed and changed back, with a refresh after a
  rejection in between, leaves the monitor on the abandoned one: `StageSchedule` has
  OpenSea publish no schedule twice.
* The bot may pass over a stage that never rejected it when an edit changes the order of
  the stages; `StableOrder` excepts each way.  A phase published in front of the selected
  one does not move the trigger (bot.rs:1651).  A phase whose end is extended after the
  bot dropped it as over (bot.rs:1666) is listed in front of the selected one again.  An
  edit that moves a phase to before the selected one puts it in front in the same way.
  When the selected phase is gone the first that starts no earlier is taken (bot.rs:1655),
  so an edit that renames and moves at once is followed past what it moved forward.  And a
  label that is used twice is found at its first place, or counts as rejected when the
  other phase was.
* Ctrl+C heard in the moment in which the stream ends is forgotten by the reconnection
  (bot.rs:808), and a Ctrl+C while the receipt is awaited ends with the notice "No
  transaction submitted" (bot.rs:795).
* One failed attempt to reconnect ends the run (bot.rs:813); README.md:872 does not say
  how often reconnection is tried.
* A preloaded nonce is not protected from a competitor that has already released the
  lock (bot.rs:1207), as README.md:823 says.

## What is not modelled

* Formats: ABI and calldata bytes, JSON, HTTP bodies, addresses, amounts as text, log
  output.  Where a check on them decides control (calldata equal to what was prepared) the
  outcome is a tag.
* Floating point: `scale_u64` and `scale_u128` are exact ceilings here; widths of u64, u128
  and U256 are out of reach of the values the runs use.
* An error of `accept` in the control listener, which ends it as a closed channel
  (setup.rs:433).
* URLs and environment variables of the pool, and the aggregation of fees, gas and
  balances (maxima and a minimum over the critical reads, rpc.rs:365-406): `TransactionFields`
  takes the combined numbers as choices.  `validate_contract` (rpc.rs:293-327) reads code once at start-up; that
  it may fail is part of `MintMonitor`'s start-up.
* The expression of a view trigger and the value it compares with: what a view returns is
  a tag in `RpcPool`, and an observation is ready, not ready or failed in `MintMonitor`.
* Parsing of configurations and the checks of single fields: the modules start from what
  validation guarantees.
* The setup wizard, the secret scan, metrics, the benchmark and the command line, which
  keep no state that outlives a call.

## The plan

Done, in this order: `WalletNonce` with `WalletTurns` and its proofs; `MintMonitor`;
`ReceiptMonitor`; `EventTrigger`; `StageSchedule`; `Broadcast`; `TransactionFields` with its
proofs; `AggregatedRead`, and `RpcPool` that composes it with `Broadcast`; `ManualControl` with
`ManualTrigger`; retries and selling out in `StageSchedule`; `MintMonitor` as a participant of
`WalletTurns`; the proofs about `MintMonitor`, `ReceiptMonitor`, `EventTrigger`, `RpcPool`,
`ManualControl` and `StageSchedule`; of `TransactionFields` what an armed bot can pay, and of
`StageSchedule` the list, the cursor and which stages may be skipped; `MintAttempts`, which
`MintMonitor` implements; the order in which `WalletNonce` spends nonces.

Left, in this order:

1. A composition of `MintMonitor` with `EventTrigger` (a not-ready preparation keeps the
   event, a reconnection happens only from the loop), and of `ReceiptMonitor` with
   `Broadcast` (an unknown outcome of a replacement); each needs coarser actions in one of
   the two to stay within reach of TLC.
2. `ReceiptMonitor` shown to implement the phase of `MintAttempts` in which the
   transaction is out, with its replacements.
3. The fee and balance reads of the pool in `AggregatedRead`, in front of
   `TransactionFields`.
