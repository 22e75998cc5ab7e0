---------------------------- MODULE EventTrigger ----------------------------
(***************************************************************************)
(* The contract_event trigger: TriggerEngine's single pending event        *)
(* (trigger.rs) fed by two subscriptions, headers and logs, and by the     *)
(* backfill after a reconnection (bot.rs).  The chain grows and            *)
(* reorganises; the node announces both on two queues that the monitor's   *)
(* select drains in any order; the WebSocket drops, and is restored below  *)
(* the streams or ends them; providers stay behind on an abandoned branch. *)
(* Errors that end the run, Ctrl+C and what follows the trigger belong to  *)
(* MintMonitor.                                                            *)
(***************************************************************************)
EXTENDS Naturals, Sequences, FiniteSets

CONSTANTS
    Confirmations, \* the trigger's confirmations, 0 when absent
    MaxHeight,     \* bound: blocks told apart; later ones count as the last
    MaxEvents,     \* bound: events in the chain at a time
    MaxReorgs,     \* bound: reorganisations, of up to two blocks
    MaxDrops,      \* bound: lost connections
    MaxFails       \* bound: log reads in which a provider's answer is missed

ASSUME ConstantsAssumption ==
    /\ {Confirmations, MaxEvents, MaxReorgs, MaxDrops, MaxFails} \subseteq Nat
    /\ MaxHeight \in Nat /\ MaxHeight > 2

VARIABLES
    chain,     \* the canonical chain: fork and event of each block
    behind,    \* events of abandoned branches that a provider, or an answer on
               \* its way, still gives
    headers,   \* numbers queued on the block subscription
    logs,      \* logs queued on the log subscription
    connected,
    pending,   \* pending_event
    lastSeen,  \* last_seen_block
    pc,
    reorgs, drops, fails,
    known,     \* history: events whose log was taken or backfilled
    moved,     \* history: while the mint is prepared, the chain reorganised or
               \* the providers behind followed it
    acted,     \* history: what held of the event when the bot acted on it
    lost       \* history: an event given up or left out, see KeptEventTriggers

ws == <<headers, logs, connected, drops>>
engine == <<pending, lastSeen, pc>>
history == <<known, moved, acted, lost>>
vars == <<chain, behind, ws, engine, reorgs, fails, history>>

Events == [n : 1 .. MaxHeight, fork : 0 .. MaxReorgs]
NoEvent == [n |-> 0, fork |-> 0]
Height == Len(chain)
EventAt(n) == [n |-> n, fork |-> chain[n].fork]
CanonicalEvents == {EventAt(n) : n \in {m \in 1 .. Height : chain[m].event}}
Canonical(event) == event \in CanonicalEvents

\* What RpcClients::logs may hear of: it merges the answers of all providers.
Reported == CanonicalEvents \cup behind

Init ==
    /\ chain = [n \in 1 .. 2 |-> [fork |-> 0, event |-> FALSE]]
    /\ behind = {}
    /\ headers = <<>>
    /\ logs = <<>>
    /\ connected = TRUE
    /\ pending = NoEvent
    /\ lastSeen = 2                 \* the current block, read at start-up
    /\ pc = "select"
    /\ reorgs = 0
    /\ drops = 0
    /\ fails = 0
    /\ known = {}
    /\ moved = FALSE
    /\ acted = [reported |-> TRUE, depth |-> Confirmations]
    /\ lost = FALSE

----------------------------------------------------------------------------
(* The chain and the node's announcements.                                 *)

Announce(hs, ls) ==
    /\ headers' = IF connected THEN headers \o hs ELSE headers
    /\ logs' = IF connected THEN logs \o ls ELSE logs
    /\ UNCHANGED <<connected, drops, engine, fails, known, acted, lost>>

Log(n, fork, removed) == [n |-> n, fork |-> fork, removed |-> removed]
LogIf(condition, log) == IF condition THEN <<log>> ELSE <<>>

\* An event needs room for its confirmations.
MayHold(n) == n + Confirmations <= MaxHeight

NewBlock ==
    /\ pc # "triggered"
    /\ Height < MaxHeight
    /\ \E event \in BOOLEAN :
          /\ event => MayHold(Height + 1) /\ Cardinality(CanonicalEvents) < MaxEvents
          /\ chain' = Append(chain, [fork |-> reorgs, event |-> event])
          /\ Announce(<<Height + 1>>, LogIf(event, Log(Height + 1, reorgs, FALSE)))
    /\ UNCHANGED <<behind, reorgs, moved>>

\* A block past the bound.
LaterBlock ==
    /\ pc # "triggered"
    /\ Height = MaxHeight
    /\ connected /\ headers = <<>>
    /\ Announce(<<MaxHeight>>, <<>>)
    /\ UNCHANGED <<chain, behind, reorgs, moved>>

\* The last one or two blocks are replaced; the node announces the removed
\* logs first, then the new blocks.  Other providers may not have followed yet.
Reorganise ==
    /\ pc # "triggered"
    /\ reorgs < MaxReorgs
    /\ reorgs' = reorgs + 1
    /\ moved' = (moved \/ pc = "preparing")
    /\ \E from \in (Height - 1 .. Height) \ {1, 2}, at \in 0 .. Height :
          /\ at # 0 => /\ at >= from /\ MayHold(at)
                       /\ Cardinality({e \in CanonicalEvents : e.n < from}) < MaxEvents
          /\ chain' = [n \in 1 .. Height |->
                          IF n < from THEN chain[n]
                                      ELSE [fork |-> reorgs + 1, event |-> n = at]]
          /\ behind' = behind \cup {e \in CanonicalEvents : e.n >= from}
          /\ Announce([i \in 1 .. Height + 1 - from |-> from + i - 1],
                      LogIf(chain[from].event, Log(from, chain[from].fork, TRUE))
                      \o LogIf(from < Height /\ chain[Height].event,
                               Log(Height, chain[Height].fork, TRUE))
                      \o LogIf(at # 0, Log(at, reorgs + 1, FALSE)))

\* Every provider has followed the chain.
CatchUp ==
    /\ pc # "triggered"
    /\ behind # {}
    /\ behind' = {}
    /\ moved' = (moved \/ pc = "preparing")
    /\ UNCHANGED <<chain, ws, engine, reorgs, fails, known, acted, lost>>

Disconnect ==
    /\ pc # "triggered"
    /\ connected
    /\ drops < MaxDrops
    /\ connected' = FALSE
    /\ drops' = drops + 1
    /\ UNCHANGED <<chain, behind, headers, logs, engine, reorgs, fails, history>>

Queued(event) ==
    \E i \in 1 .. Len(logs) : logs[i] = Log(event.n, event.fork, FALSE)

\* with_max_retries: the connection and its subscriptions are restored below the
\* streams, which do not end; what the node announced meanwhile is not sent
\* again, and the monitor does not learn of it.
SilentReconnect ==
    /\ pc # "triggered"
    /\ ~connected
    /\ connected' = TRUE
    /\ lost' = (lost \/ \E e \in CanonicalEvents \ known : ~Queued(e))
    /\ UNCHANGED <<chain, behind, headers, logs, drops, engine, reorgs, fails,
                   known, moved, acted>>

----------------------------------------------------------------------------
(* The select loop of monitor_event_stream, with observe_block and         *)
(* observe_event.                                                          *)

\* The inclusion block is confirmation 1, and 0 asks for as much as 1 does.
Needed(event) == event.n + (IF Confirmations = 0 THEN 0 ELSE Confirmations - 1)

\* Mutant: an event from the log stream is taken to be still there.
TakeHeaderTrustsSlot ==
    /\ pc = "select"
    /\ headers # <<>>
    /\ headers' = Tail(headers)
    /\ lastSeen' = Head(headers)
    /\ pc' = IF pending # NoEvent /\ Head(headers) >= Needed(pending)
             THEN "preparing" ELSE "select"
    /\ UNCHANGED <<chain, behind, logs, connected, drops, pending, reorgs, fails,
                   history>>

TakeHeader ==
    /\ pc = "select"
    /\ headers # <<>>
    /\ headers' = Tail(headers)
    /\ lastSeen' = Head(headers)
    /\ pc' = IF pending # NoEvent /\ Head(headers) >= Needed(pending)
             THEN "check" ELSE "select"
    /\ UNCHANGED <<chain, behind, logs, connected, drops, pending, reorgs, fails,
                   history>>

\* Emptying the one slot forgets the events it held before.
Forgets == lost' = (lost \/ known \cap CanonicalEvents # {})

\* Mutant: any removed log frees the slot.
TakeLogClearsAny ==
    /\ pc = "select"
    /\ logs # <<>>
    /\ logs' = Tail(logs)
    /\ LET event == [n |-> Head(logs).n, fork |-> Head(logs).fork] IN
          IF Head(logs).removed
          THEN pending' = NoEvent /\ UNCHANGED <<pc, known, lost>>
          ELSE /\ pending' = event
               /\ pc' = IF Confirmations <= 1 THEN "check" ELSE "select"
               /\ known' = known \cup {event}
               /\ UNCHANGED lost
    /\ UNCHANGED <<chain, behind, headers, connected, drops, lastSeen, reorgs, fails,
                   moved, acted>>

\* A log takes the slot; a removed one frees it if it is the one there.
TakeLog ==
    /\ pc = "select"
    /\ logs # <<>>
    /\ logs' = Tail(logs)
    /\ LET event == [n |-> Head(logs).n, fork |-> Head(logs).fork] IN
          IF Head(logs).removed
          THEN /\ IF pending = event
                  THEN pending' = NoEvent /\ Forgets
                  ELSE UNCHANGED <<pending, lost>>
               /\ UNCHANGED <<pc, known>>
          ELSE /\ pending' = event
               /\ pc' = IF Confirmations <= 1 THEN "check" ELSE "select"
               /\ known' = known \cup {event}
               /\ UNCHANGED lost
    /\ UNCHANGED <<chain, behind, headers, connected, drops, lastSeen, reorgs, fails,
                   moved, acted>>

\* event_is_canonical: one of the providers has the pending event.
IsCanonical ==
    /\ pc = "check"
    /\ pending \in Reported
    /\ pc' = "preparing"
    /\ moved' = FALSE
    /\ UNCHANGED <<chain, behind, ws, pending, lastSeen, reorgs, fails, known, acted,
                   lost>>

\* ... or those that answer do not: "discarded non-canonical activation event".
Discard ==
    /\ pc = "check"
    /\ ~Canonical(pending)
    /\ pending' = NoEvent
    /\ pc' = "select"
    /\ Forgets
    /\ UNCHANGED <<chain, behind, ws, lastSeen, reorgs, fails, known, moved, acted>>

\* ... or nobody answers in time, or only providers that do not have the block
\* yet, and an event of the chain is discarded as well.
ReadFails ==
    /\ pc = "check"
    /\ Canonical(pending)
    /\ fails < MaxFails
    /\ fails' = fails + 1
    /\ pending' = NoEvent
    /\ pc' = "select"
    /\ lost' = TRUE
    /\ UNCHANGED <<chain, behind, ws, lastSeen, reorgs, known, moved, acted>>

\* ensure_transaction_ready says false: back to the loop, the event kept.
NotPrepared ==
    /\ pc = "preparing"
    /\ pc' = "select"
    /\ moved' = FALSE
    /\ UNCHANGED <<chain, behind, ws, pending, lastSeen, reorgs, fails, known, acted,
                   lost>>

\* Ready, however long that took: the bot acts on the event.
Triggered ==
    /\ pc = "preparing"
    /\ pc' = "triggered"
    /\ acted' = [reported |-> pending \in Reported \/ moved,
                 depth |-> Height - pending.n + 1]
    /\ UNCHANGED <<chain, behind, ws, pending, lastSeen, reorgs, fails, known, moved,
                   lost>>

----------------------------------------------------------------------------
(* Reconnection.                                                           *)

\* The retries are used up and one of the two streams ended; what the other still
\* holds goes with it.
Reconnect ==
    /\ pc = "select"
    /\ ~connected
    /\ headers = <<>> \/ logs = <<>>
    /\ connected' = TRUE
    /\ headers' = <<>>
    /\ logs' = <<>>
    /\ pc' = "backfill"
    /\ UNCHANGED <<chain, behind, drops, pending, lastSeen, reorgs, fails, history>>

\* Mutant: the backfill starts after the last block seen.
BackfillFromNext == lastSeen + 1

BackfillFrom == IF lastSeen = 0 THEN 0 ELSE lastSeen - 1

\* block_number: the highest answer, which may be a block late.
SeenHeights == {Height - 1, Height}

\* apply_event_backfill observes every log it reads up to the height it was told,
\* in no particular order: the last one observed keeps the slot.  Providers that
\* have some of the logs may not answer, or have less of the chain.
Backfill ==
    /\ pc = "backfill"
    /\ \E to \in SeenHeights :
          LET range == {e \in Reported : e.n >= BackfillFrom /\ e.n <= to} IN
          \E missed \in SUBSET range :
             /\ fails' = fails + (IF range \cap CanonicalEvents \subseteq missed THEN 0 ELSE 1)
             /\ fails' <= MaxFails
             /\ IF missed = {}
                THEN pending' = pending /\ pc' = "select"
                ELSE /\ pending' \in missed
                     /\ pc' = IF Confirmations <= 1 THEN "check" ELSE "select"
             /\ known' = known \cup missed
             /\ lost' = (lost \/ \E e \in CanonicalEvents \ known' :
                                    e.n + 1 < lastSeen \/ e.n > to \/ e \in range)
             /\ lastSeen' = to
    /\ UNCHANGED <<chain, behind, ws, reorgs, moved, acted>>

----------------------------------------------------------------------------
Done == pc = "triggered" /\ UNCHANGED vars

Monitor ==
    \/ TakeHeader \/ TakeLog \/ IsCanonical \/ Discard \/ ReadFails \/ NotPrepared \/ Triggered
    \/ Reconnect \/ Backfill

Next ==
    \/ NewBlock \/ LaterBlock \/ Reorganise \/ CatchUp \/ Disconnect \/ SilentReconnect
    \/ Monitor \/ Done

Spec == Init /\ [][Next]_vars

\* Blocks keep coming.  select! polls its branches in random order, so each
\* queue is drained (strong fairness); the other steps of the task are weakly
\* fair; and a mint that is tried again and again is ready in the end.
Fairness ==
    /\ WF_vars(NewBlock) /\ WF_vars(LaterBlock)
    /\ SF_vars(TakeHeader) /\ SF_vars(TakeLog) /\ SF_vars(Triggered)
    /\ WF_vars(IsCanonical \/ Discard \/ ReadFails) /\ WF_vars(Reconnect) /\ WF_vars(Backfill)

FairSpec == Spec /\ Fairness

----------------------------------------------------------------------------
TypeOK ==
    /\ chain \in Seq([fork : 0 .. MaxReorgs, event : BOOLEAN])
    /\ Len(chain) \in 2 .. MaxHeight
    /\ headers \in Seq(1 .. MaxHeight)
    /\ logs \in Seq([n : 1 .. MaxHeight, fork : 0 .. MaxReorgs, removed : BOOLEAN])
    /\ connected \in BOOLEAN
    /\ pending \in Events \cup {NoEvent}
    /\ lastSeen \in 1 .. MaxHeight
    /\ pc \in {"select", "check", "preparing", "backfill", "triggered"}
    /\ pc \in {"check", "preparing", "triggered"} => pending # NoEvent
    /\ reorgs \in 0 .. MaxReorgs /\ drops \in 0 .. MaxDrops
    /\ fails \in 0 .. MaxFails
    /\ known \subseteq Events /\ behind \subseteq Events
    /\ moved \in BOOLEAN
    /\ acted \in [reported : BOOLEAN, depth : Nat]
    /\ lost \in BOOLEAN

\* When the bot acts, its event has its confirmations, the inclusion block
\* counted (README.md:813), and is in the chain at that moment, whatever the
\* reorganisations, removal notices and backfills before; or a provider still
\* follows the branch the event was on, and one is enough (rpc.rs:458-478); or
\* the chain or that provider moved while the mint was prepared (bot.rs:983),
\* after which the event is not looked up again.
ActsOnConfirmedEvent == acted.reported /\ acted.depth >= Confirmations

\* An event that is in the chain is never given up once it is pending
\* (bot.rs:1158 calls what it discards non-canonical), except when the read that
\* should confirm it hears from no provider that has it.
DiscardsOnlyNonCanonical ==
    [][pending # NoEvent /\ pending' = NoEvent => ~Canonical(pending) \/ ReadFails]_vars

\* An activation event that the chain keeps triggers the bot, through any
\* reorganisations, lost connections and unready mints, except when one of these
\* left an event out: a canonicality read or a backfill heard from no provider
\* that has it; the connection came back below the streams, which no backfill
\* follows; a backfill ended below it or began more than one block above it and
\* its log was still in the queue; the event that had displaced it from the slot
\* was removed.
KeptEventTriggers ==
    (<>[](CanonicalEvents # {})) /\ []~lost => <>(pc = "triggered")
=============================================================================
