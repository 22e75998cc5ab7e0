-------------------------- MODULE MCStageSchedule --------------------------
EXTENDS StageSchedule

Stage(label, start, end) == [label |-> label, start |-> start, end |-> end]

Open == 99  \* a stage without end_time

\* A guaranteed phase, then a public one without an end.
Launch == <<Stage("gtd", 2, 4), Stage("public", 5, Open)>>

\* The guaranteed phase is moved, the public one is moved, a phase is appended.
Delayed == <<Stage("gtd", 3, 4), Stage("public", 5, Open)>>
Hurried == <<Stage("gtd", 2, 4), Stage("public", 4, Open)>>
Extended == Append(Launch, Stage("late", 6, Open))
OrderedEdits == {Launch, Delayed, Hurried, Extended}

\* The edits are what the properties and the proofs about them suppose, and the
\* stages kept are the ones that a filter of the list keeps.
ASSUME StableOrder /\ ListedOnce
ASSUME \A s \in Schedules, now \in 0 .. MaxTime :
          Unexpired(s, now) = SelectSeq(s, LAMBDA stage : stage.end >= now)
=============================================================================
