--------------------------- MODULE ReceiptMonitor ---------------------------
(***************************************************************************)
(* monitor_receipt (bot.rs): from the acknowledgement of a transaction to  *)
(* the verdict on it.  The bot polls the receipts of every transaction it  *)
(* sent for the nonce, waits for confirmations, and may replace the        *)
(* transaction with one that pays more.  The chain grows, reorganises and  *)
(* takes whichever of the transactions it likes; providers fail and lag.   *)
(***************************************************************************)
EXTENDS Integers, Sequences

CONSTANTS
    Direct,        \* opensea_drop_slug is absent
    Confirmations, \* config.confirmations
    MaxAttempts,   \* replacement.max_attempts, 0 when it is not enabled
    AfterBlocks,   \* replacement.after_blocks
    Num, Den,      \* replacement.fee_multiplier as a fraction
    FirstFee,      \* fee per gas of the initial transaction
    FeeCap,        \* max_total_gas_cost_native over the gas limit
    MaxBlock,      \* bound: height of the chain
    MaxReorgs      \* bound: reorganisations that touch the nonce

\* config.rs validates the replacement numbers, the budget check the first fee.
ASSUME ConfigAssumption ==
    /\ Direct \in BOOLEAN
    /\ Confirmations \in Nat \ {0} /\ AfterBlocks \in Nat \ {0}
    /\ MaxAttempts \in Nat
    /\ Num \in Nat /\ Den \in Nat \ {0} /\ Num > Den
    /\ FeeCap \in Nat /\ FirstFee \in 1 .. FeeCap
ASSUME BoundsAssumption == MaxBlock \in Nat \ {0} /\ MaxReorgs \in Nat

VARIABLES
    pc,
    sent,         \* fees of the transactions a node may know, oldest first
    watched,      \* candidate_hashes, as indices of sent
    request,      \* the fee of `request`, which the next replacement raises
    replacements, \* replacements, set to max_attempts to give up
    lastBlock,    \* last_replacement_block, 0 for None
    current,      \* current_block of the replacement in the making
    found,        \* the receipt in hand
    heard,        \* Ctrl+C reached the shutdown future
    verdict,      \* the outcome returned, with the receipt it is about
    head,         \* the chain's height
    included,     \* where the chain has the nonce
    behind,       \* receipts of abandoned branches that a provider, or an
                  \* answer on its way, still gives
    reorgs,
    acked         \* history: transactions an endpoint acknowledged

bot == <<pc, sent, watched, request, replacements, lastBlock, current, found,
         verdict, acked>>
chain == <<head, included, behind, reorgs>>
vars == <<bot, heard, chain>>

Statuses == {"success", "reverted open", "reverted closed"}
None == [tx |-> 0, block |-> 0, status |-> "success"]
Receipts == [tx : 1 .. Len(sent), block : 1 .. MaxBlock, status : Statuses]
Undecided == [is |-> "none", on |-> None]

Init ==
    /\ pc = "start"
    /\ sent = <<FirstFee>>
    /\ watched = {1}
    /\ request = FirstFee
    /\ replacements = 0
    /\ lastBlock = 0
    /\ current = 0
    /\ found = None
    /\ heard = FALSE
    /\ verdict = Undecided
    /\ head = 1
    /\ included = None
    /\ behind = {}
    /\ reorgs = 0
    /\ acked = {1}

----------------------------------------------------------------------------
(* The chain.  A verdict ends the run, and the model with it.              *)

Running == pc # "ended"

\* A block, which may take one of the nonce's transactions.
NewBlock ==
    /\ Running
    /\ head < MaxBlock
    /\ head' = head + 1
    /\ \/ included' = included
       \/ /\ included = None
          /\ head + Confirmations <= MaxBlock
          /\ \E t \in 1 .. Len(sent), s \in Statuses :
                included' = [tx |-> t, block |-> head + 1, status |-> s]
    /\ UNCHANGED <<bot, heard, behind, reorgs>>

\* The nonce leaves its block; the new chain of the same height may have taken
\* it later.  Providers may stay on the old branch.
Reorganise ==
    /\ Running
    /\ included # None
    /\ reorgs < MaxReorgs
    /\ reorgs' = reorgs + 1
    /\ behind' = behind \cup {included}
    /\ \/ included' = None
       \/ \E t \in 1 .. Len(sent), b \in included.block + 1 .. head, s \in Statuses :
             /\ b + Confirmations <= MaxBlock + 1
             /\ included' = [tx |-> t, block |-> b, status |-> s]
    /\ UNCHANGED <<bot, heard, head>>

\* Every provider has followed the chain.
CatchUp ==
    /\ Running
    /\ behind # {}
    /\ behind' = {}
    /\ UNCHANGED <<bot, heard, head, included, reorgs>>

\* block_number: the highest answer, which may be a block late.
SeenHeads == {head - 1, head} \ {0}

\* transaction_receipt: one provider that has a receipt is enough, whichever
\* branch it is on; providers that have none are not counted.
SeenReceipts == ({included} \cup behind) \ {None}

CtrlC ==
    /\ Running
    /\ heard' = TRUE
    /\ UNCHANGED <<bot, chain>>

----------------------------------------------------------------------------
(* Polling.                                                                *)

\* last_replacement_block starts at the current block, or unknown.
Begin ==
    /\ pc = "start"
    /\ pc' = "sleep"
    /\ lastBlock' \in SeenHeads \cup {0}
    /\ UNCHANGED <<sent, watched, request, replacements, current, found, heard,
                   verdict, chain, acked>>

End(outcome, receipt) ==
    /\ pc' = "ended"
    /\ verdict' = [is |-> outcome, on |-> receipt]

\* Mutant: the wait for confirmations has no shutdown branch.
ShutdownOnlyPolling ==
    /\ pc = "sleep"
    /\ heard
    /\ End("shutdown", None)
    /\ UNCHANGED <<sent, watched, request, replacements, lastBlock, current,
                   found, heard, chain, acked>>

\* Each select is entered with shutdown ready or not; while it sleeps both may
\* become ready.
Shutdown ==
    /\ pc \in {"sleep", "deep"}
    /\ heard
    /\ End("shutdown", None)
    /\ UNCHANGED <<sent, watched, request, replacements, lastBlock, current,
                   found, heard, chain, acked>>

Tick ==
    /\ pc \in {"sleep", "deep"}
    /\ ~heard
    /\ pc' = IF pc = "sleep" THEN "lookup" ELSE "depth"
    /\ UNCHANGED <<sent, watched, request, replacements, lastBlock, current,
                   found, heard, verdict, chain, acked>>

\* A receipt that counts: success is the verdict, a revert may be due to a
\* closed sale.
Judge(receipt) ==
    /\ found' = receipt
    /\ IF receipt.status = "success" THEN End("confirmed", receipt)
       ELSE IF Direct THEN pc' = "parent" /\ UNCHANGED verdict
       ELSE End("failed", receipt)

\* The first candidate that has a receipt.
Lookup ==
    /\ pc = "lookup"
    /\ \E receipt \in SeenReceipts :
          /\ receipt.tx \in watched
          /\ IF Confirmations > 1
             THEN pc' = "depth" /\ found' = receipt /\ UNCHANGED verdict
             ELSE Judge(receipt)
    /\ UNCHANGED <<sent, watched, request, replacements, lastBlock, current,
                   heard, chain, acked>>

\* Mutant: one attempt too many.
MissOnceMore ==
    /\ pc = "lookup"
    /\ pc' = IF replacements <= MaxAttempts THEN "age" ELSE "sleep"
    /\ UNCHANGED <<sent, watched, request, replacements, lastBlock, current,
                   found, heard, verdict, chain, acked>>

\* No receipt heard of, or receipts that contradict each other.
Miss ==
    /\ pc = "lookup"
    /\ pc' = IF replacements < MaxAttempts THEN "age" ELSE "sleep"
    /\ UNCHANGED <<sent, watched, request, replacements, lastBlock, current,
                   found, heard, verdict, chain, acked>>

----------------------------------------------------------------------------
(* Confirmations and the verdict.                                          *)

TargetBlock == found.block + Confirmations - 1

\* A failed block_number counts as the receipt's own block.
Depth ==
    /\ pc = "depth"
    /\ \E b \in SeenHeads \cup {found.block} :
          pc' = IF b >= TargetBlock THEN "recheck" ELSE "deep"
    /\ UNCHANGED <<sent, watched, request, replacements, lastBlock, current,
                   found, heard, verdict, chain, acked>>

\* Mutant: the receipt from before the wait is kept.
RecheckKeepsOld ==
    /\ pc = "recheck"
    /\ \E receipt \in SeenReceipts : receipt.tx = found.tx
    /\ Judge(found)
    /\ UNCHANGED <<sent, watched, request, replacements, lastBlock, current,
                   heard, chain, acked>>

\* The same transaction's receipt is read again and replaces the old one.
Recheck ==
    /\ pc = "recheck"
    /\ \E receipt \in SeenReceipts :
          /\ receipt.tx = found.tx
          /\ Judge(receipt)
    /\ UNCHANGED <<sent, watched, request, replacements, lastBlock, current,
                   heard, chain, acked>>

\* It disappeared, could not be read, or providers contradict each other.
Disappeared ==
    /\ pc = "recheck"
    /\ pc' = "sleep"
    /\ UNCHANGED <<sent, watched, request, replacements, lastBlock, current,
                   found, heard, verdict, chain, acked>>

\* mint_was_closed_before_receipt; a call that fails otherwise says no.
ParentCall ==
    /\ pc = "parent"
    /\ \/ found.status = "reverted closed" /\ End("retry", found)
       \/ End("failed", found)
    /\ UNCHANGED <<sent, watched, request, replacements, lastBlock, current,
                   found, heard, chain, acked>>

----------------------------------------------------------------------------
(* Replacement.                                                            *)

\* bump_fees, in exact arithmetic.
Bump(fee) == (fee * Num + Den - 1) \div Den

\* The age of the last submission decides, and the cap ends all replacing.
Age ==
    /\ pc = "age"
    /\ \E b \in SeenHeads :
          IF lastBlock = 0
          THEN pc' = "sleep" /\ lastBlock' = b /\ UNCHANGED <<current, replacements>>
          ELSE /\ UNCHANGED lastBlock
               /\ IF b < lastBlock + AfterBlocks
                  THEN pc' = "sleep" /\ UNCHANGED <<current, replacements>>
                  ELSE IF Bump(request) > FeeCap
                  THEN pc' = "sleep" /\ replacements' = MaxAttempts /\ UNCHANGED current
                  ELSE pc' = "send" /\ current' = b /\ UNCHANGED replacements
    /\ UNCHANGED <<sent, watched, request, found, heard, verdict, chain, acked>>

AgeUnknown ==
    /\ pc = "age"
    /\ pc' = "sleep"
    /\ UNCHANGED <<sent, watched, request, replacements, lastBlock, current,
                   found, heard, verdict, chain, acked>>

\* Mutant: only the newest transaction is looked up.
ReplacedForgetsOld ==
    /\ pc = "send"
    /\ pc' = "sleep"
    /\ sent' = Append(sent, Bump(request))
    /\ watched' = {Len(sent) + 1}
    /\ acked' = acked \cup {Len(sent) + 1}
    /\ request' = Bump(request)
    /\ replacements' = replacements + 1
    /\ lastBlock' = current
    /\ UNCHANGED <<current, found, heard, verdict, chain>>

\* Signed and acknowledged: by a node where the nonce is free, be it one that has
\* not seen it mined yet.
Replaced ==
    /\ pc = "send"
    /\ pc' = "sleep"
    /\ sent' = Append(sent, Bump(request))
    /\ watched' = watched \cup {Len(sent) + 1}
    /\ acked' = acked \cup {Len(sent) + 1}
    /\ request' = Bump(request)
    /\ replacements' = replacements + 1
    /\ lastBlock' = current
    /\ UNCHANGED <<current, found, heard, verdict, chain>>

\* Mutant: a failed replacement is tried again.
NotReplacedTriesAgain ==
    /\ pc = "send"
    /\ pc' = "sleep"
    /\ sent' \in {sent, Append(sent, Bump(request))}
    /\ UNCHANGED <<watched, request, replacements, lastBlock, current, found,
                   heard, verdict, chain, acked>>

\* Policy, budget, signer or every endpoint says no, or nobody answers and a
\* node may still have the transaction: no further replacement.
NotReplaced ==
    /\ pc = "send"
    /\ pc' = "sleep"
    /\ sent' \in {sent, Append(sent, Bump(request))}
    /\ replacements' = MaxAttempts
    /\ UNCHANGED <<watched, request, lastBlock, current, found, heard, verdict,
                   chain, acked>>

----------------------------------------------------------------------------
Terminated == ~Running /\ UNCHANGED vars

Task ==
    \/ Begin \/ Tick \/ Shutdown \/ Lookup \/ Miss \/ Depth \/ Recheck
    \/ Disappeared \/ ParentCall \/ Age \/ AgeUnknown \/ Replaced \/ NotReplaced

Next == NewBlock \/ Reorganise \/ CatchUp \/ CtrlC \/ Task \/ Terminated

Spec == Init /\ [][Next]_vars

\* Every await is timed out, so the task goes on; a provider that is asked
\* again and again for a receipt or a height answers in the end; and the chain
\* grows.
Fairness ==
    /\ WF_vars(Task)
    /\ SF_vars(Lookup) /\ SF_vars(Recheck) /\ SF_vars(Depth /\ pc' = "recheck")
    /\ WF_vars(NewBlock)

FairSpec == Spec /\ Fairness

----------------------------------------------------------------------------
SendsOK ==
    /\ sent \in Seq(Nat)
    /\ watched \subseteq 1 .. Len(sent) /\ acked \subseteq 1 .. Len(sent)
    /\ request \in Nat
    /\ replacements \in 0 .. MaxAttempts

ReceiptsOK ==
    /\ found \in Receipts \cup {None} /\ included \in Receipts \cup {None}
    /\ behind \subseteq Receipts
    /\ verdict \in [is : {"none", "shutdown", "confirmed", "failed", "retry"},
                   on : Receipts \cup {None}]

TaskOK ==
    /\ pc \in {"start", "sleep", "lookup", "deep", "depth", "recheck", "parent",
               "age", "send", "ended"}
    /\ lastBlock \in 0 .. MaxBlock /\ current \in 0 .. MaxBlock
    /\ heard \in BOOLEAN
    /\ head \in 1 .. MaxBlock /\ reorgs \in 0 .. MaxReorgs

TypeOK == TaskOK /\ SendsOK /\ ReceiptsOK

\* Bounded replacement (README.md:55): every transaction that may be out pays
\* more than the ones before it and no more than the configured cap, and after
\* one whose outcome is unknown no other is ever signed.
ReplacementsStayInBudget ==
    /\ Len(sent) <= MaxAttempts + 1
    /\ \A i, j \in 1 .. Len(sent) : i < j => sent[i] < sent[j]
    /\ \A i \in 1 .. Len(sent) : sent[i] <= FeeCap
    /\ \A i \in 1 .. Len(sent) \ acked : i = Len(sent) /\ replacements = MaxAttempts

\* The verdict is about the transaction as the chain has it after the wait for
\* confirmations, not as it was first seen: a mint called confirmed succeeded in
\* the chain, or on an abandoned branch that some provider still follows at that
\* moment, and one provider is enough (rpc.rs:439-455).  On a chain that has not
\* reorganised it is config.confirmations deep, its own block included
\* (bot.rs:1859), even if providers fail or lag; one that a reorganisation moved
\* to a later block is confirmed there at once.
ConfirmedIsTrue ==
    verdict.is = "confirmed" =>
        /\ verdict.on.status = "success"
        /\ verdict.on = included \/ verdict.on \in behind
        /\ reorgs = 0 => head - verdict.on.block + 1 >= Confirmations

\* Once the chain keeps a transaction that an endpoint acknowledged, the watch
\* ends, also when that transaction was replaced before it was mined.
MinedEndsWatch ==
    (<>[](included.tx \in acked)) => <>(pc = "ended")

\* Ctrl+C ends the watch wherever it comes: between polls, while waiting for
\* confirmations or in the middle of a replacement.
InterruptEndsWatch == heard ~> pc = "ended"
=============================================================================
