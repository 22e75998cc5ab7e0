SPECIFICATION FairSpec
CONSTANTS
    Schedules <- OrderedEdits
    First <- Launch
    Eligible = {"late"}
    Delay = 2
    MaxTime = 7
    MaxEdits = 2
INVARIANTS
    TypeOK
    SkipsOnlyRejectedStages
    TriggerFollowsStage
    UnsentIsKnown
PROPERTIES
    MovesOnWithCause
    EligibleStageIsMinted
