--------------------------- MODULE StageSchedule ---------------------------
(***************************************************************************)
(* Automatic OpenSea stage selection.  A background task polls the drop's  *)
(* schedule (opensea.rs) and passes it through a watch channel to the      *)
(* monitor (bot.rs), which keeps a list of stages, an index into it and    *)
(* the timestamp that triggers the next mint request.  A rejected request  *)
(* makes the monitor fetch the schedule itself, advance to the next stage  *)
(* or retry later.  OpenSea edits the schedule at any time.  Modelled with *)
(* auto_opensea_schedule on; a schedule is listed in order of start.       *)
(***************************************************************************)
EXTENDS Naturals, Sequences, FiniteSetsExt

CONSTANTS
    Schedules, \* the schedules OpenSea may publish
    First,     \* the one the bot is started with
    Eligible,  \* labels of the stages the wallet is eligible for
    Delay,     \* seconds before a retry: 0 in aggressive mode, else 2
    MaxTime,   \* bound: chain time; later is the same as then
    MaxEdits   \* bound: edits of the schedule

\* A stage without end_time has an end that is never reached.
Stages == [label : STRING, start : Nat, end : Nat]

Sorted(s) == \A i, j \in DOMAIN s : i < j => s[i].start <= s[j].start

ASSUME SchedulesAssumption ==
    /\ First \in Schedules
    /\ \A s \in Schedules : s \in Seq(Stages) /\ s # <<>> /\ Sorted(s)
ASSUME ConstantsAssumption == {Delay, MaxTime, MaxEdits} \subseteq Nat

VARIABLES
    published, \* the drop's stages at OpenSea
    past,      \* schedules published so far
    edits,
    sold,      \* fewer tokens are left than the bot wants
    task,      \* the refresher: asleep, or with an answer in hand
    fetched,   \* that answer
    previous,  \* the schedule the refresher sent last
    channel,   \* the watch channel's value ...
    changed,   \* ... and whether the monitor has yet to see it
    stages, index, \* opensea_stages, opensea_stage_index (from 1)
    trigger,   \* the block timestamp that makes the monitor ask
    time,      \* last_chain_timestamp
    pc,
    tries,     \* requests of build_mint_with_retry that got no answer
    answer,    \* OpenSea's rejection
    asked      \* history: labels the monitor stood at when it was rejected

opensea == <<published, past, edits, sold>>
refresher == <<task, fetched, previous>>
cursor == <<stages, index, trigger>>
request == <<pc, tries, answer>>
vars == <<opensea, refresher, channel, changed, cursor, time, request, asked>>

MaxAttempts == 4

Kept(s, now) == {i \in DOMAIN s : s[i].end >= now}

\* unexpired_stages: the stages kept, in the order they are listed in.
Unexpired(s, now) ==
    LET kept == Kept(s, now)
        order == CHOOSE f \in [1 .. Cardinality(kept) -> kept] :
                    \A i, j \in DOMAIN f : i < j => f[i] < f[j]
    IN  [n \in 1 .. Cardinality(kept) |-> s[order[n]]]

Init ==
    /\ published = First
    /\ past = {First}
    /\ edits = 0
    /\ sold = FALSE
    /\ task = "asleep"
    /\ fetched = First
    /\ previous = First
    /\ channel = First
    /\ changed = FALSE
    /\ stages = First
    /\ index = 1
    /\ trigger = First[1].start
    /\ time = 0
    /\ pc = "select"
    /\ tries = 0
    /\ answer = "none"
    /\ asked = {}

----------------------------------------------------------------------------
(* OpenSea and the refresher.                                              *)

\* OpenSea publishes a schedule it has not published before.
Edit ==
    /\ edits < MaxEdits
    /\ edits' = edits + 1
    /\ published' \in Schedules \ past
    /\ past' = past \cup {published'}
    /\ UNCHANGED <<sold, refresher, channel, changed, cursor, time, request, asked>>

\* Others mint too.
SellOut ==
    /\ ~sold
    /\ sold' = TRUE
    /\ UNCHANGED <<published, past, edits>>
    /\ UNCHANGED <<refresher, channel, changed, cursor, time, request, asked>>

\* refresh_schedule after its sleep; a failed poll changes nothing.
Poll ==
    /\ task = "asleep"
    /\ task' = "answered"
    /\ fetched' = published
    /\ UNCHANGED <<opensea, previous, channel, changed, cursor, time, request, asked>>

\* Mutant: nothing is sent while the monitor has yet to see the last schedule.
SendUnlessFull ==
    /\ task = "answered"
    /\ task' = "asleep"
    /\ IF fetched = <<>> \/ fetched = previous
       THEN UNCHANGED <<previous, channel, changed>>
       ELSE /\ previous' = fetched /\ changed' = TRUE
            /\ channel' = IF changed THEN channel ELSE fetched
    /\ UNCHANGED <<opensea, fetched, cursor, time, request, asked>>

\* What differs from the last schedule sent is sent.
Send ==
    /\ task = "answered"
    /\ task' = "asleep"
    /\ IF fetched = <<>> \/ fetched = previous
       THEN UNCHANGED <<previous, channel, changed>>
       ELSE previous' = fetched /\ channel' = fetched /\ changed' = TRUE
    /\ UNCHANGED <<opensea, fetched, cursor, time, request, asked>>

----------------------------------------------------------------------------
(* The stage cursor.                                                       *)

\* Mutant: a stage that changed is looked for by its start alone.
RefreshedIndexByTime(new) ==
    LET selected == stages[index]
        same == {i \in DOMAIN new : new[i] = selected}
        later == {i \in DOMAIN new : new[i].start >= selected.start}
    IN  IF same # {} THEN Min(same)
        ELSE IF later # {} THEN Min(later)
        ELSE Min({index, Len(new)})

\* refreshed_stage_index: the selected stage itself, else its label, else the
\* first that starts no earlier, else the same position.
RefreshedIndex(new) ==
    LET selected == stages[index]
        same == {i \in DOMAIN new : new[i] = selected}
        named == {i \in DOMAIN new : new[i].label = selected.label}
        later == {i \in DOMAIN new : new[i].start >= selected.start}
    IN  IF same # {} THEN Min(same)
        ELSE IF named # {} THEN Min(named)
        ELSE IF later # {} THEN Min(later)
        ELSE Min({index, Len(new)})

\* Mutant: the position is kept, though the new list may be shorter.
AdoptKeepsIndex(new) ==
    /\ stages' = new
    /\ index' = index
    /\ trigger' = new[Min({index, Len(new)})].start

\* Mutant: the trigger is not moved with the stage.
AdoptKeepsTrigger(new) ==
    /\ stages' = new
    /\ index' = RefreshedIndex(new)
    /\ trigger' = trigger

Adopt(new) ==
    /\ stages' = new
    /\ index' = RefreshedIndex(new)
    /\ trigger' = new[index'].start

\* apply_opensea_schedule_update at time now.
ApplyUpdate(now) ==
    /\ changed' = FALSE
    /\ IF changed /\ Unexpired(channel, now) # <<>>
       THEN Adopt(Unexpired(channel, now))
       ELSE UNCHANGED cursor

\* A header of monitor_block_stream: the update first, then the timestamp.
Block ==
    /\ pc = "select"
    /\ time' \in {time, time + 1} /\ time' <= MaxTime
    /\ ApplyUpdate(time')
    /\ pc' = IF time' >= trigger' THEN "build" ELSE "select"
    /\ UNCHANGED <<opensea, refresher, channel, tries, answer, asked>>

----------------------------------------------------------------------------
(* The mint request of prepare_trigger_transaction.                        *)

Active == {stage \in {published[i] : i \in DOMAIN published} :
              stage.start <= time /\ time <= stage.end}
EligibleNow == {stage \in Active : stage.label \in Eligible /\ ~sold}

\* A transport error, or a status that may pass, is tried again after a backoff;
\* the last one ends the run.
Unavailable ==
    /\ pc = "build"
    /\ tries' = tries + 1
    /\ pc' = IF tries' = MaxAttempts THEN "failed" ELSE "build"
    /\ UNCHANGED <<opensea, refresher, channel, changed, cursor, time, answer, asked>>

Accepted ==
    /\ pc = "build"
    /\ EligibleNow # {}
    /\ pc' = "minted"
    /\ UNCHANGED <<opensea, refresher, channel, changed, cursor, time, tries, answer, asked>>

\* The key, the slug or the quantity is wrong.
Denied ==
    /\ pc = "build"
    /\ pc' = "failed"
    /\ answer' = "denied"
    /\ UNCHANGED <<opensea, refresher, channel, changed, cursor, time, tries, asked>>

\* An explicit refusal (422 with a reason) is right; a bare 422 or a 409 may
\* come at any time, for OpenSea can lag the chain.
Rejected ==
    /\ pc = "build"
    /\ answer' \in {"ambiguous", "inactive", "balance"}
                   \cup (IF Active # {} /\ EligibleNow = {} THEN {"ineligible"} ELSE {})
    /\ pc' = "rejected"
    /\ tries' = 0
    /\ asked' = asked \cup {stages[index].label}
    /\ UNCHANGED <<opensea, refresher, channel, changed, cursor, time>>

\* refresh_opensea_schedule_now: a schedule unlike the monitor's replaces it.
RefreshNow ==
    /\ pc = "rejected"
    /\ LET new == Unexpired(published, time) IN
          /\ new # <<>> /\ new # stages
          /\ Adopt(new)
    /\ ~sold
    /\ pc' = "select"
    /\ UNCHANGED <<opensea, refresher, channel, changed, time, tries, answer, asked>>

\* ensure_opensea_supply: the schedule comes with what is left of the drop.
SoldOut ==
    /\ pc = "rejected"
    /\ sold
    /\ pc' = "failed"
    /\ UNCHANGED <<opensea, refresher, channel, changed, cursor, time, tries, answer, asked>>

Earlier(a, b) == IF a < b THEN a ELSE b

\* defer_automatic_opensea_retry; no delay means the next block.
Defer(seconds) ==
    /\ trigger' = IF seconds = 0 THEN 0 ELSE Earlier(time + seconds, MaxTime)
    /\ UNCHANGED <<stages, index>>

\* advance_opensea_stage, which waits when no later stage is published.
Advance ==
    IF index < Len(stages)
    THEN /\ index' = index + 1
         /\ trigger' = stages[index + 1].start
         /\ UNCHANGED stages
    ELSE Defer(5)

NextHasStarted == index < Len(stages) /\ stages[index + 1].start <= time

\* Mutant: an ambiguous answer counts as a refusal.
AfterRejectionSkips ==
    /\ pc = "rejected"
    /\ CASE answer \in {"ineligible", "ambiguous"} -> Advance
         [] answer = "balance" -> UNCHANGED cursor
         [] OTHER -> Defer(Delay)
    /\ pc' = IF answer = "balance" THEN "failed" ELSE "select"
    /\ UNCHANGED <<opensea, refresher, channel, changed, time, tries, answer, asked>>

\* Mutant: a refusal at the last published stage ends the run.
AfterRejectionEnds ==
    /\ pc = "rejected"
    /\ CASE answer = "ineligible" \/ (answer = "ambiguous" /\ NextHasStarted) -> Advance
         [] answer = "balance" -> UNCHANGED cursor
         [] OTHER -> Defer(Delay)
    /\ pc' = IF answer = "balance" \/ (answer = "ineligible" /\ index = Len(stages))
             THEN "failed" ELSE "select"
    /\ UNCHANGED <<opensea, refresher, channel, changed, time, tries, answer, asked>>

\* The schedule is as it was, or could not be fetched.  A wallet without the
\* money ends the run.
AfterRejection ==
    /\ pc = "rejected"
    /\ CASE answer = "ineligible" \/ (answer = "ambiguous" /\ NextHasStarted) -> Advance
         [] answer = "balance" -> UNCHANGED cursor
         [] OTHER -> Defer(Delay)
    /\ pc' = IF answer = "balance" THEN "failed" ELSE "select"
    /\ UNCHANGED <<opensea, refresher, channel, changed, time, tries, answer, asked>>

----------------------------------------------------------------------------
Done == pc \in {"minted", "failed"} /\ UNCHANGED vars

Next == Edit \/ SellOut \/ Poll \/ Send \/ Block
        \/ Accepted \/ Unavailable \/ Denied \/ Rejected
        \/ RefreshNow \/ SoldOut \/ AfterRejection \/ Done

Spec == Init /\ [][Next]_vars

\* The refresher polls for ever, blocks come and their time advances, every
\* request is answered, and one that is repeated while the wallet is eligible
\* is accepted in the end.
Fairness ==
    /\ WF_vars(Poll) /\ WF_vars(Send)
    /\ WF_vars(Block) /\ SF_vars(Block /\ time' > time)
    /\ WF_vars(Accepted \/ Unavailable \/ Denied \/ Rejected) /\ SF_vars(Accepted)
    /\ WF_vars(RefreshNow \/ SoldOut \/ AfterRejection)

FairSpec == Spec /\ Fairness

----------------------------------------------------------------------------
Labels == UNION {{s[i].label : i \in DOMAIN s} : s \in Schedules}

\* The index is one the code may use on the list without a panic.
TypeOK ==
    /\ {published, fetched, previous, channel} \subseteq Schedules
    /\ past \subseteq Schedules
    /\ edits \in 0 .. MaxEdits
    /\ task \in {"asleep", "answered"}
    /\ changed \in BOOLEAN
    /\ index \in DOMAIN stages
    /\ trigger \in Nat /\ time \in 0 .. MaxTime
    /\ pc \in {"select", "build", "rejected", "minted", "failed"}
    /\ tries \in 0 .. MaxAttempts
    /\ answer \in {"none", "ambiguous", "inactive", "ineligible", "balance", "denied"}
    /\ sold \in BOOLEAN
    /\ asked \subseteq Labels

\* No schedule lists a stage twice.
ListedOnce == \A s \in Schedules : \A i, j \in DOMAIN s : s[i] = s[j] => i = j

\* What OpenSea's edits must leave alone for the bot to follow the first stage: a
\* stage keeps its place and its end, and moves only between those around it.
StableOrder ==
    \A s, t \in Schedules : \A i \in DOMAIN s, j \in DOMAIN t :
        /\ s[i].label = t[j].label <=> i = j
        /\ i = j => s[i].end = t[j].end
        /\ i < j => s[i].start <= t[j].start

\* The bot follows the first stage (README.md:418): it stands at a later one
\* only if OpenSea rejected it at every stage before, whatever edits, refreshes
\* and retries came in between (edits that keep the order stable).
SkipsOnlyRejectedStages ==
    \A i \in 1 .. index - 1 : stages[i].label \in asked

\* After an ambiguous answer the bot moves on only when the next phase has
\* started, after an inactive one never (README.md:581, 582, 584): on an unchanged
\* schedule the cursor moves one stage at a time and for no other reason.
MovesOnWithCause ==
    [][stages' = stages /\ index' # index =>
          /\ index' = index + 1
          /\ answer = "ineligible" \/ (answer = "ambiguous" /\ stages[index'].start <= time)
      ]_vars

\* The monitor asks at the stage it stands at, or has been rejected there and
\* retries: no schedule update leaves the trigger of another stage behind.
TriggerFollowsStage ==
    pc = "select" /\ trigger # stages[index].start => stages[index].label \in asked

\* Every stage of the published schedule that is not over is in the monitor's list.
Follows ==
    \A i \in DOMAIN published :
        published[i].end >= time => \E j \in DOMAIN stages : stages[j] = published[i]

\* If OpenSea changes or publishes a phase, the bot updates its trigger
\* (README.md:589): a schedule that the refresher will not send, because it sent
\* the same before and the monitor has taken it, is the one the monitor follows
\* (while OpenSea never returns to a schedule it gave up).
UnsentIsKnown ==
    previous = published /\ ~changed /\ pc = "select" => Follows

\* A stage that the wallet is eligible for, and that stays open, is minted,
\* through any refusals, retries, edits and outages, unless four requests in a
\* row get no answer or OpenSea finds the request or the balance wrong.
EligibleStageIsMinted ==
    (<>[](EligibleNow # {})) =>
        <>(\/ pc = "minted"
           \/ /\ pc = "failed"
              /\ tries = MaxAttempts \/ answer \in {"balance", "denied"})
=============================================================================
