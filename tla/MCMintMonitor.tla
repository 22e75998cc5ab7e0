-------------------------- MODULE MCMintMonitor --------------------------
EXTENDS MintMonitor

\* Every kind of run that config.rs accepts.
AllConfigs == ValidConfigs

Direct(trigger) ==
    {c \in ValidConfigs : c.direct /\ ~c.dryRun /\ c.trigger = trigger}

DirectBlocks == Direct("blocks")
DirectEvents == Direct("events")
DirectManual == Direct("manual")
=============================================================================
