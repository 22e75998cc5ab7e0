-------------------------- MODULE TransactionFields --------------------------
(***************************************************************************)
(* The numbers of one mint transaction (bot.rs): payment, gas limit, fees, *)
(* and the balance they are held against.  They are set when the bot arms, *)
(* refreshed while it waits, by a future that works on a copy or in place, *)
(* hydrated from OpenSea's answer, held against the budget and the signing *)
(* policy, and raised in replacements.  Reads return what they like or     *)
(* fail; nonces, locks and stages belong to other modules.  Products are   *)
(* exact: the floating point of scale_u64 and scale_u128 is left out.      *)
(***************************************************************************)
EXTENDS Naturals, Sequences

CONSTANTS
    Configs,         \* the configurations under study
    Estimates,       \* eth_feeHistory as one provider answers: max fee and tip
    GasEstimates,    \* eth_estimateGas
    Balances,        \* eth_getBalance
    Values,          \* payments OpenSea may ask for
    Reserves,        \* ink_extra_fee_reserve
    Num, Den,        \* gas.multiplier as a fraction
    BumpNum, BumpDen,\* replacement.fee_multiplier as a fraction
    MaxReplacements, \* replacement.max_attempts
    MaxReads,        \* bound: successful refreshes
    MaxSends         \* bound: a mint is retried while fewer were signed

\* execution: no OpenSea drop, or how it is executed.  auto: fees are
\* estimated, else they are fee and tip.  limit: gas.gas_limit, 0 if absent.
\* cap: max_total_gas_cost_native.  price: the payment of a direct mint, and
\* the highest an OpenSea mint may ask for, which is 0 with require_zero_value.
ValidConfig(c) ==
    /\ c.execution \in {"direct", "normal", "aggressive"}
    /\ {c.auto, c.ink} \subseteq BOOLEAN
    /\ {c.fee, c.tip, c.limit, c.cap, c.price} \subseteq Nat
    /\ c.tip <= c.fee
    /\ c.execution = "aggressive" => c.limit > 0

ASSUME ConfigsAssumption == \A c \in Configs : ValidConfig(c)
ASSUME ReadsAssumption ==
    /\ \A e \in Estimates : {e.max, e.tip} \subseteq Nat /\ e.tip <= e.max
    /\ GasEstimates \subseteq Nat \ {0}
    /\ Balances \subseteq Nat /\ Values \subseteq Nat /\ Reserves \subseteq Nat
ASSUME MultipliersAssumption ==
    /\ {Num, Den, BumpNum, BumpDen} \subseteq Nat \ {0}
    /\ Num >= Den /\ BumpNum > BumpDen
ASSUME BoundsAssumption == {MaxReplacements, MaxReads, MaxSends} \subseteq Nat

VARIABLES
    config,
    pc,
    request,   \* prepared.request
    prepared,  \* the other fields of PreparedTransaction
    healthy,   \* dynamic_fields_healthy
    inFlight,  \* armed_refresh: the copy it works on
    out,       \* monitor_receipt's request, the transaction last sent
    replaced,  \* replacements, set to max_attempts to give up
    reads,     \* estimates and balances read so far
    signed,    \* history: every request that was signed
    armedWith, \* history: what the budget was checked with when the bot armed
    short      \* history: what it was checked with when it failed at the trigger

fields == <<request, prepared, healthy, inFlight>>
vars == <<config, pc, fields, out, replaced, reads, signed, armedWith, short>>

None == [none |-> TRUE]
OpenSea == config.execution # "direct"
Aggressive == config.execution = "aggressive"

Ceil(x, num, den) == (x * num + den - 1) \div den
Scale(x) == Ceil(x, Num, Den)

\* What a round of reads leaves: the fees, from the highest max fee and the
\* highest tip of the providers, and the balance, the lowest.
Fees(e) == IF config.auto THEN [fee |-> Scale(e.max), tip |-> Scale(e.tip)]
                          ELSE [fee |-> config.fee, tip |-> config.tip]
Merged(e, f) == [max |-> IF e.max > f.max THEN e.max ELSE f.max,
                 tip |-> IF e.tip > f.tip THEN e.tip ELSE f.tip]
ReadFees == {Fees(Merged(e, f)) : e, f \in Estimates}

\* validate_budget_with_extra_fee
InBudget(balance, value, gas, fee, extra) ==
    /\ gas * fee + extra <= config.cap
    /\ value + gas * fee + extra <= balance

Init ==
    /\ config \in Configs
    /\ pc = "start"
    /\ request = None
    /\ prepared = None
    /\ healthy = TRUE
    /\ inFlight = None
    /\ out = None
    /\ replaced = 0
    /\ reads = 0
    /\ signed = <<>>
    /\ armedWith = None
    /\ short = None

----------------------------------------------------------------------------
(* prepare_transaction.                                                    *)

\* Mutant: the placeholder's payment is reserved.
ReserveNothing == IF OpenSea THEN 0 ELSE config.price

\* The payment the arming budget counts on: OpenSea's is not known yet.
Reserve == config.price

Prepare ==
    /\ pc = "start"
    /\ \E f \in ReadFees, balance \in Balances, estimate \in GasEstimates :
          LET gas == IF config.limit > 0 THEN Scale(config.limit)
                     ELSE IF OpenSea THEN 0 ELSE Scale(estimate)
              value == IF OpenSea THEN 0 ELSE config.price
              data == IF OpenSea THEN "placeholder" ELSE "mint"
          IN  /\ request' = [value |-> value, gas |-> gas, data |-> data,
                             fee |-> f.fee, tip |-> f.tip, read |-> 0]
              /\ prepared' = [value |-> value, gas |-> gas, data |-> data,
                              feeCap |-> f.fee, balance |-> balance, read |-> 0]
              /\ pc' = IF InBudget(balance, Reserve, gas, f.fee, 0)
                       THEN "armed" ELSE "failed"
              /\ armedWith' = [balance |-> balance, fee |-> f.fee, gas |-> gas]
    /\ UNCHANGED <<config, healthy, inFlight, out, replaced, reads, signed, short>>

----------------------------------------------------------------------------
(* The armed refresh.                                                      *)

Warm == ~OpenSea \/ Aggressive

\* start_armed_refresh clones what is prepared.
StartRefresh ==
    /\ pc = "armed"
    /\ Warm
    /\ inFlight = None
    /\ inFlight' = [request |-> request, prepared |-> prepared]
    /\ UNCHANGED <<config, pc, request, prepared, healthy, out, replaced, reads,
                   signed, armedWith, short>>

Refreshable(copy, f, balance) ==
    InBudget(balance, copy.prepared.value, copy.prepared.gas, f.fee, 0)

\* Mutant: finish_armed_refresh leaves the fee cap.
MergeForgetsCap(f, balance) ==
    /\ request' = [request EXCEPT !.fee = f.fee, !.tip = f.tip, !.read = reads + 1]
    /\ prepared' = [prepared EXCEPT !.balance = balance, !.read = reads + 1]

\* The dynamic fields of a successful refresh, and only they.
Merge(f, balance) ==
    /\ request' = [request EXCEPT !.fee = f.fee, !.tip = f.tip, !.read = reads + 1]
    /\ prepared' = [prepared EXCEPT !.feeCap = f.fee, !.balance = balance,
                                    !.read = reads + 1]

\* finish_armed_refresh, awaited by the select loop or by ensure_dynamic_fields.
FinishRefresh ==
    /\ pc \in {"armed", "fields"}
    /\ inFlight # None
    /\ inFlight' = None
    /\ \/ /\ reads < MaxReads
          /\ \E f \in ReadFees, balance \in Balances :
                Refreshable(inFlight, f, balance) /\ Merge(f, balance)
          /\ reads' = reads + 1
          /\ healthy' = TRUE
       \/ healthy' = FALSE /\ UNCHANGED <<request, prepared, reads>>
    /\ UNCHANGED <<config, pc, out, replaced, signed, armedWith, short>>

----------------------------------------------------------------------------
(* prepare_trigger_transaction.                                            *)

\* The trigger is ready; ensure_dynamic_fields begins.
Trigger ==
    /\ pc = "armed"
    /\ pc' = "fields"
    /\ UNCHANGED <<config, fields, out, replaced, reads, signed, armedWith, short>>

\* OpenSea's refusal cancels a refresh that is being awaited.
Cancelled ==
    /\ pc = "fields"
    /\ OpenSea
    /\ pc' = "armed"
    /\ inFlight' = None
    /\ healthy' = (healthy /\ inFlight = None)
    /\ UNCHANGED <<config, request, prepared, out, replaced, reads, signed, armedWith, short>>

\* refresh_armed_fields works in place (in normal mode the fields are healthy
\* from the start, and nothing is refreshed).
RefreshNow ==
    /\ pc = "fields"
    /\ inFlight = None /\ ~healthy
    /\ reads < MaxReads
    /\ \E f \in ReadFees, balance \in Balances :
          /\ Refreshable([request |-> request, prepared |-> prepared], f, balance)
          /\ Merge(f, balance)
    /\ reads' = reads + 1
    /\ healthy' = TRUE
    /\ UNCHANGED <<config, pc, inFlight, out, replaced, signed, armedWith, short>>

\* Mutant: a refresh that failed does not keep the mint from going on.
RefreshNowFailsOpen ==
    /\ pc = "fields"
    /\ inFlight = None /\ ~healthy
    /\ healthy' = TRUE
    /\ reads < MaxReads
    /\ \E f \in ReadFees :
          /\ request' = [request EXCEPT !.fee = f.fee, !.tip = f.tip, !.read = reads + 1]
          /\ prepared' = [prepared EXCEPT !.feeCap = f.fee]
          /\ reads' = reads + 1
    /\ UNCHANGED <<config, pc, inFlight, out, replaced, signed, armedWith, short>>

\* A read fails, or the budget does: then the new fees are already in place,
\* beside the old balance.
RefreshNowFails ==
    /\ pc = "fields"
    /\ inFlight = None /\ ~healthy
    /\ pc' = "armed"
    /\ \/ UNCHANGED <<request, prepared, reads>>
       \/ /\ reads < MaxReads
          /\ \E f \in ReadFees, balance \in Balances :
                /\ ~Refreshable([request |-> request, prepared |-> prepared], f, balance)
                /\ request' = [request EXCEPT !.fee = f.fee, !.tip = f.tip,
                                              !.read = reads + 1]
                /\ prepared' = [prepared EXCEPT !.feeCap = f.fee]
          /\ reads' = reads + 1
    /\ UNCHANGED <<config, healthy, inFlight, out, replaced, signed, armedWith, short>>

\* aggressive_opensea_gas_limit, or select_opensea_gas_limit.
HydratedGas(estimate) ==
    IF Aggressive THEN request.gas
    ELSE Scale(IF config.limit > estimate THEN config.limit ELSE estimate)

\* What apply_opensea_inputs makes of OpenSea's answer: aggressive mode keeps
\* the fees and the balance it has, normal mode has read both beside the request.
Hydration(value, f, balance, estimate) ==
    LET gas == HydratedGas(estimate)
        kept == [request EXCEPT !.value = value, !.gas = gas, !.data = "mint"]
        checked == [prepared EXCEPT !.value = value, !.gas = gas, !.data = "mint"]
    IN  IF Aggressive
        THEN [request |-> kept, prepared |-> checked]
        ELSE [request |-> [kept EXCEPT !.fee = f.fee, !.tip = f.tip, !.read = reads + 1],
              prepared |-> [checked EXCEPT !.feeCap = f.fee, !.balance = balance,
                                           !.read = reads + 1]]

Hydrations ==
    {Hydration(value, f, balance, estimate) :
        value \in Values, f \in ReadFees, balance \in Balances, estimate \in GasEstimates}

HydrationInBudget(h) ==
    InBudget(h.prepared.balance, h.prepared.value, h.prepared.gas, h.prepared.feeCap, 0)

\* fetch_opensea_inputs found the fields healthy.
Answered ==
    /\ pc = "fields"
    /\ OpenSea /\ healthy /\ inFlight = None
    /\ ~Aggressive => reads < MaxReads
    /\ reads' = IF Aggressive THEN reads ELSE reads + 1
    /\ UNCHANGED <<config, healthy, inFlight, out, replaced, signed, armedWith>>

Hydrate ==
    /\ Answered
    /\ \E h \in Hydrations :
          /\ h.request.value <= config.price
          /\ HydrationInBudget(h)
          /\ request' = h.request /\ prepared' = h.prepared
    /\ pc' = "final"
    /\ UNCHANGED short

\* Over the price guard, or over the budget: the run ends.
HydrateRefused ==
    /\ Answered
    /\ \E h \in Hydrations :
          \/ h.request.value > config.price /\ UNCHANGED short
          \/ /\ h.request.value <= config.price
             /\ ~HydrationInBudget(h)
             /\ short' = [balance |-> h.prepared.balance, fee |-> h.prepared.feeCap,
                          gas |-> h.prepared.gas]
    /\ pc' = "failed"
    /\ UNCHANGED <<request, prepared>>

\* A direct mint is simulated: it goes through, is closed, or is refused.
Simulate ==
    /\ pc = "fields"
    /\ ~OpenSea /\ healthy /\ inFlight = None
    /\ pc' \in {"final", "armed", "failed"}
    /\ UNCHANGED <<config, fields, out, replaced, reads, signed, armedWith, short>>

----------------------------------------------------------------------------
(* execute_transaction and the replacements of monitor_receipt.            *)

\* validate_chain_fee_budget: on Ink, live balance and oracle reserve.
ChainBudget(r, reserve, balance) ==
    config.ink => InBudget(balance, r.value, r.gas, r.fee, reserve)

\* validate_signing_request
Policy(r) ==
    /\ r.value = prepared.value
    /\ r.gas = prepared.gas /\ r.gas # 0
    /\ InBudget(prepared.balance, prepared.value, prepared.gas, r.fee, 0)
    /\ r.data = prepared.data /\ r.data = "mint"
    /\ IF OpenSea THEN r.value <= config.price ELSE r.value = config.price

\* One signed transaction, which the endpoints accept or do not.
Sign ==
    /\ pc = "final"
    /\ \E reserve \in Reserves, balance \in Balances :
          IF ~ChainBudget(request, reserve, balance)
          THEN pc' = "failed" /\ UNCHANGED <<signed, out>>
          ELSE IF ~Policy(request)
          THEN pc' = "refused" /\ UNCHANGED <<signed, out>>
          ELSE /\ pc' \in {"sent", "failed"}
               /\ signed' = Append(signed, request)
               /\ out' = request
    /\ replaced' = 0
    /\ UNCHANGED <<config, fields, reads, armedWith, short>>

\* Mutant: only the tip is raised.
BumpTip(r) == [r EXCEPT !.tip = Ceil(@, BumpNum, BumpDen)]

\* bump_fees
Bump(r) == [r EXCEPT !.fee = Ceil(@, BumpNum, BumpDen), !.tip = Ceil(@, BumpNum, BumpDen)]

\* exceeds_gas_cap, the policy, the chain's budget, the broadcast: any "no"
\* ends replacing.
Replace ==
    /\ pc = "sent"
    /\ replaced < MaxReplacements
    /\ \E reserve \in Reserves, balance \in Balances :
          IF /\ Bump(out).gas * Bump(out).fee <= config.cap
             /\ Policy(Bump(out))
             /\ ChainBudget(Bump(out), reserve, balance)
          THEN /\ signed' = Append(signed, Bump(out))
               /\ \/ out' = Bump(out) /\ replaced' = replaced + 1
                  \/ out' = out /\ replaced' = MaxReplacements
          ELSE replaced' = MaxReplacements /\ UNCHANGED <<out, signed>>
    /\ UNCHANGED <<config, pc, fields, reads, armedWith, short>>

\* A direct mint that reverted on a closed sale is prepared again.
Retry ==
    /\ pc = "sent"
    /\ ~OpenSea
    /\ Len(signed) < MaxSends
    /\ pc' = "armed"
    /\ healthy' = FALSE
    /\ UNCHANGED <<config, request, prepared, inFlight, out, replaced, reads,
                   signed, armedWith, short>>

Next ==
    \/ Prepare \/ StartRefresh \/ FinishRefresh \/ Trigger \/ Cancelled
    \/ RefreshNow \/ RefreshNowFails \/ Hydrate \/ HydrateRefused \/ Simulate
    \/ Sign \/ Replace \/ Retry

Spec == Init /\ [][Next]_vars

----------------------------------------------------------------------------
Requests == [value : Nat, gas : Nat, data : {"placeholder", "mint"}, fee : Nat,
             tip : Nat, read : 0 .. MaxReads]
Prepareds == [value : Nat, gas : Nat, data : {"placeholder", "mint"},
              feeCap : Nat, balance : Balances, read : 0 .. MaxReads]

TypeOK ==
    /\ config \in Configs
    /\ pc \in {"start", "armed", "fields", "final", "sent", "failed", "refused"}
    /\ pc # "start" => request \in Requests /\ prepared \in Prepareds
    /\ healthy \in BOOLEAN
    /\ inFlight # None => Warm /\ pc \in {"armed", "fields"}
    /\ out = None \/ out \in Requests
    /\ replaced \in 0 .. MaxReplacements
    /\ reads \in 0 .. MaxReads
    /\ signed \in Seq(Requests)

\* What was prepared for signing passes the signing policy: its refusal, which
\* ends the run at the moment of the mint (bot.rs:1993), is for requests that
\* changed behind the code's back, and no interleaving of refreshes, hydration
\* and retries leaves the request, the cap and the balance at odds.
PreparedPassesPolicy == pc = "final" => Policy(request)

\* The fees that are signed and the balance they were held against come from
\* one round of reads, though a failed refresh in place leaves new fees beside
\* an old balance (PERFORMANCE.md:13).
FeesMatchBalance == pc = "final" => request.read = prepared.read

\* Every signed transaction, replacements included, can be mined and stays in
\* the limits: a tip below the fee, a payment and a gas cost below the maxima.
SignedWithinLimits ==
    \A i \in 1 .. Len(signed) :
        LET r == signed[i] IN
        /\ r.tip <= r.fee
        /\ 0 < r.gas /\ r.gas * r.fee <= config.cap
        /\ r.value <= config.price

\* The inductive invariant behind the three above: request and the rest of
\* prepared agree at all times, payment and gas of a direct mint are fixed when it
\* arms, a copy in flight differs in dynamic fields only, and fields that are
\* called healthy are within the budget and of one round of reads.
FieldsAgree ==
    pc # "start" =>
        /\ request.value = prepared.value /\ request.gas = prepared.gas
        /\ request.data = prepared.data /\ request.fee = prepared.feeCap
        /\ request.tip <= request.fee
        /\ ~OpenSea => request.value = config.price /\ request.data = "mint"
        /\ ~OpenSea \/ Aggressive => request.gas # 0
CopyAgrees ==
    inFlight # None => /\ inFlight.prepared.value = prepared.value
                       /\ inFlight.prepared.gas = prepared.gas
HealthyIsChecked ==
    healthy /\ pc \in {"armed", "fields"} =>
        /\ request.read = prepared.read
        /\ ~OpenSea => InBudget(prepared.balance, prepared.value, prepared.gas,
                                prepared.feeCap, 0)
SentCanBeBumped == pc = "sent" => out \in Requests /\ out.tip <= out.fee
FieldsInv == FieldsAgree /\ CopyAgrees /\ HealthyIsChecked /\ SentCanBeBumped

\* A bot that armed can pay what OpenSea may ask (bot.rs:352): at the trigger
\* the budget fails only if the balance fell, fees rose, or in normal mode the
\* gas estimate exceeds the limit counted on, never for the price alone.
ArmedCanPay ==
    short # None =>
        \/ short.balance < armedWith.balance
        \/ short.fee > armedWith.fee
        \/ ~Aggressive /\ short.gas > armedWith.gas
=============================================================================
