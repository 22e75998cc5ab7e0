---------------------- MODULE TransactionFieldsProofs ----------------------
(***************************************************************************)
(* Theorems about TransactionFields, for any configurations, estimates,    *)
(* balances, multipliers and bounds.                                       *)
(***************************************************************************)
EXTENDS TransactionFields, TLAPS

(* Rounding up, the one piece of arithmetic that multiplies and divides.   *)

LEMMA DivNat ==
    ASSUME NEW a \in Nat, NEW d \in Nat \ {0}
    PROVE  a \div d \in Nat /\ (d <= a => a \div d # 0)
  OBVIOUS

LEMMA DivMonotone ==
    ASSUME NEW a \in Nat, NEW b \in Nat, NEW d \in Nat \ {0}, a <= b
    PROVE  a \div d <= b \div d
  OBVIOUS

LEMMA CeilNat ==
    ASSUME NEW x \in Nat, NEW n \in Nat \ {0}, NEW d \in Nat \ {0}
    PROVE  Ceil(x, n, d) \in Nat /\ (x # 0 => Ceil(x, n, d) # 0)
<1> DEFINE p == x * n
<1>1. p \in Nat /\ (x # 0 => p # 0)
  OBVIOUS
<1>2. p + d - 1 \in Nat /\ (x # 0 => d <= p + d - 1)
  <2> HIDE DEF p
  <2> QED BY <1>1
<1> QED BY <1>2, DivNat DEF Ceil

LEMMA CeilMonotone ==
    ASSUME NEW x \in Nat, NEW y \in Nat, x <= y,
           NEW n \in Nat \ {0}, NEW d \in Nat \ {0}
    PROVE  Ceil(x, n, d) <= Ceil(y, n, d)
<1> DEFINE p == x * n
           q == y * n
<1>1. p \in Nat /\ q \in Nat /\ p <= q
  OBVIOUS
<1>2. p + d - 1 \in Nat /\ q + d - 1 \in Nat /\ p + d - 1 <= q + d - 1
  <2> HIDE DEF p, q
  <2> QED BY <1>1
<1> QED BY <1>2, DivMonotone DEF Ceil

\* Whatever the providers estimate, the fees read are numbers, the tip below the fee.
LEMMA ReadFeesType ==
    ASSUME config \in Configs, NEW f \in ReadFees
    PROVE  f.fee \in Nat /\ f.tip \in Nat /\ f.tip <= f.fee
<1>1. PICK e \in Estimates, g \in Estimates : f = Fees(Merged(e, g))
  BY DEF ReadFees
<1> DEFINE m == Merged(e, g)
<1>2. m.max \in Nat /\ m.tip \in Nat /\ m.tip <= m.max
  BY ReadsAssumption DEF Merged
<1>3. CASE config.auto
  <2>1. f.fee = Ceil(m.max, Num, Den) /\ f.tip = Ceil(m.tip, Num, Den)
    BY <1>1, <1>3 DEF Fees, Scale
  <2> HIDE DEF m
  <2> QED BY ZenonT(30), <1>2, <2>1, CeilNat, CeilMonotone, MultipliersAssumption
<1>4. CASE ~config.auto
  <2>1. f.fee = config.fee /\ f.tip = config.tip
    BY <1>1, <1>4 DEF Fees
  <2>2. {config.fee, config.tip} \subseteq Nat /\ config.tip <= config.fee
    BY ConfigsAssumption DEF ValidConfig
  <2> QED BY <2>1, <2>2
<1> QED BY <1>3, <1>4

\* A scaled gas limit is a gas limit.
LEMMA ScaleType ==
    ASSUME NEW x \in Nat
    PROVE  Scale(x) \in Nat /\ (x # 0 => Scale(x) # 0)
  BY CeilNat, MultipliersAssumption DEF Scale

----------------------------------------------------------------------------
\* What OpenSea's answer makes of a prepared transaction.
LEMMA HydrationType ==
    ASSUME TypeOK, pc # "start", FieldsAgree, NEW h \in Hydrations,
           ~Aggressive => reads < MaxReads
    PROVE  /\ h.request \in Requests /\ h.prepared \in Prepareds
           /\ h.request.value = h.prepared.value /\ h.request.gas = h.prepared.gas
           /\ h.request.data = "mint" /\ h.prepared.data = "mint"
           /\ h.request.fee = h.prepared.feeCap
           /\ h.request.tip <= h.request.fee
           /\ OpenSea => h.request.gas # 0
           /\ request.read = prepared.read => h.request.read = h.prepared.read
<1>1. PICK value \in Values, f \in ReadFees, balance \in Balances, estimate \in GasEstimates :
         h = Hydration(value, f, balance, estimate)
  BY DEF Hydrations
<1>2. request \in Requests /\ prepared \in Prepareds /\ config \in Configs /\ reads \in Nat
      /\ MaxReads \in Nat
  BY BoundsAssumption DEF TypeOK
<1>3. value \in Nat /\ f.fee \in Nat /\ f.tip \in Nat /\ f.tip <= f.fee
  BY <1>2, ReadFeesType, ReadsAssumption
<1> DEFINE gas == HydratedGas(estimate)
<1>4. gas \in Nat /\ (OpenSea => gas # 0)
  <2>1. CASE Aggressive
    BY <1>2, <2>1 DEF FieldsAgree, HydratedGas, Requests, Aggressive, OpenSea
  <2>2. CASE ~Aggressive
    <3> DEFINE base == IF config.limit > estimate THEN config.limit ELSE estimate
    <3>1. base \in Nat /\ base # 0
      BY <1>2, ConfigsAssumption, ReadsAssumption DEF ValidConfig
    <3>2. gas = Scale(base)
      BY <2>2 DEF HydratedGas
    <3> HIDE DEF base, gas
    <3> QED BY <3>1, <3>2, ScaleType
  <2> QED BY <2>1, <2>2
<1> HIDE DEF gas
<1>5. CASE Aggressive
  <2>1. /\ h.request = [request EXCEPT !.value = value, !.gas = gas, !.data = "mint"]
        /\ h.prepared = [prepared EXCEPT !.value = value, !.gas = gas, !.data = "mint"]
    BY <1>1, <1>5 DEF Hydration, gas
  <2>2. request.fee = prepared.feeCap /\ request.tip <= request.fee
    BY DEF FieldsAgree
  <2> QED BY ZenonT(30), <1>2, <1>3, <1>4, <2>1, <2>2 DEF Requests, Prepareds
<1>6. CASE ~Aggressive
  <2>1. h.request = [value |-> value, gas |-> gas, data |-> "mint", fee |-> f.fee,
                     tip |-> f.tip, read |-> reads + 1]
    BY <1>1, <1>6, <1>2 DEF Hydration, gas, Requests
  <2>2. h.prepared = [value |-> value, gas |-> gas, data |-> "mint", feeCap |-> f.fee,
                      balance |-> balance, read |-> reads + 1]
    BY <1>1, <1>6, <1>2 DEF Hydration, gas, Prepareds
  <2>3. reads + 1 \in 0 .. MaxReads
    BY <1>6, <1>2
  <2> QED BY <1>3, <1>4, <2>1, <2>2, <2>3 DEF Requests, Prepareds
<1> QED BY <1>5, <1>6

\* A replacement is a transaction, its tip still below its fee.
LEMMA BumpType ==
    ASSUME NEW r \in Requests, r.tip <= r.fee
    PROVE  Bump(r) \in Requests /\ Bump(r).tip <= Bump(r).fee
<1>1. r.fee \in Nat /\ r.tip \in Nat
  BY DEF Requests
<1>2. /\ Ceil(r.fee, BumpNum, BumpDen) \in Nat /\ Ceil(r.tip, BumpNum, BumpDen) \in Nat
      /\ Ceil(r.tip, BumpNum, BumpDen) <= Ceil(r.fee, BumpNum, BumpDen)
  BY <1>1, CeilNat, CeilMonotone, MultipliersAssumption
<1> QED BY <1>2 DEF Bump, Requests
----------------------------------------------------------------------------
\* One conjunction for the proofs: the invariant with the three properties that
\* follow from it and are part of its induction.
Inv == /\ TypeOK /\ FieldsInv
       /\ PreparedPassesPolicy /\ FeesMatchBalance /\ SignedWithinLimits

(* The invariant holds at first and is kept by every action.              *)

\* Before a bot arms it has no numbers to be wrong.
LEMMA InvInit == Init => Inv
  BY BoundsAssumption
  DEF Init, Inv, TypeOK, FieldsInv, FieldsAgree, CopyAgrees, HealthyIsChecked,
      SentCanBeBumped, PreparedPassesPolicy, FeesMatchBalance, SignedWithinLimits

LEMMA InvPrepare == Inv /\ Prepare => Inv'
<1> SUFFICES ASSUME Inv, Prepare PROVE Inv'
  OBVIOUS
<1>1. PICK f \in ReadFees, balance \in Balances, estimate \in GasEstimates :
        LET gas == IF config.limit > 0 THEN Scale(config.limit)
                   ELSE IF OpenSea THEN 0 ELSE Scale(estimate)
            value == IF OpenSea THEN 0 ELSE config.price
            data == IF OpenSea THEN "placeholder" ELSE "mint"
        IN  /\ request' = [value |-> value, gas |-> gas, data |-> data,
                           fee |-> f.fee, tip |-> f.tip, read |-> 0]
            /\ prepared' = [value |-> value, gas |-> gas, data |-> data,
                            feeCap |-> f.fee, balance |-> balance, read |-> 0]
            /\ pc' = IF InBudget(balance, Reserve, gas, f.fee, 0)
                     THEN "armed" ELSE "failed"
  BY DEF Prepare
<1> DEFINE gas == IF config.limit > 0 THEN Scale(config.limit)
                  ELSE IF OpenSea THEN 0 ELSE Scale(estimate)
           value == IF OpenSea THEN 0 ELSE config.price
           data == IF OpenSea THEN "placeholder" ELSE "mint"
<1>2. config \in Configs /\ ValidConfig(config)
  BY ConfigsAssumption DEF Inv, TypeOK
<1>3. gas \in Nat /\ (~OpenSea \/ Aggressive => gas # 0)
  <2>1. config.limit \in Nat /\ (Aggressive => config.limit > 0)
    BY <1>2 DEF ValidConfig, Aggressive
  <2>2. estimate \in Nat /\ estimate # 0
    BY ReadsAssumption
  <2>3. /\ Scale(config.limit) \in Nat /\ (config.limit # 0 => Scale(config.limit) # 0)
        /\ Scale(estimate) \in Nat /\ Scale(estimate) # 0
    BY <2>1, <2>2, ScaleType
  <2> QED BY <2>1, <2>3
<1>4. value \in Nat /\ f.fee \in Nat /\ f.tip \in Nat /\ f.tip <= f.fee
  BY <1>2, ReadFeesType DEF ValidConfig
<1>5. /\ request' = [value |-> value, gas |-> gas, data |-> data,
                     fee |-> f.fee, tip |-> f.tip, read |-> 0]
      /\ prepared' = [value |-> value, gas |-> gas, data |-> data,
                      feeCap |-> f.fee, balance |-> balance, read |-> 0]
      /\ pc' = IF InBudget(balance, config.price, gas, f.fee, 0)
               THEN "armed" ELSE "failed"
  BY <1>1 DEF Reserve
<1>6. /\ OpenSea' = OpenSea /\ Aggressive' = Aggressive
      /\ ~OpenSea => value = config.price
      /\ ~OpenSea => data = "mint"
      /\ data \in {"placeholder", "mint"}
  BY DEF Prepare, OpenSea, Aggressive
<1> HIDE DEF gas, value, data
<1>7. TypeOK'
  <2>1. request' \in Requests /\ prepared' \in Prepareds
    BY <1>3, <1>4, <1>5, <1>6, BoundsAssumption DEF Requests, Prepareds
  <2>2. inFlight' # None => Warm' /\ pc' \in {"armed", "fields"}
    BY DEF Inv, TypeOK, Prepare, fields
  <2> QED BY <2>1, <2>2, <1>5 DEF Inv, TypeOK, Prepare
<1>8. FieldsInv'
  <2>1. FieldsAgree'
    BY <1>3, <1>4, <1>5, <1>6 DEF FieldsAgree, Prepare
  <2>2. CopyAgrees'
    BY DEF CopyAgrees, Inv, TypeOK, Prepare
  <2>3. HealthyIsChecked'
    BY <1>5, <1>6 DEF HealthyIsChecked, InBudget, Prepare
  <2>4. SentCanBeBumped'
    BY <1>5 DEF SentCanBeBumped
  <2> QED BY <2>1, <2>2, <2>3, <2>4 DEF FieldsInv
<1>9. (PreparedPassesPolicy /\ FeesMatchBalance /\ SignedWithinLimits)'
  BY <1>5 DEF Inv, PreparedPassesPolicy, FeesMatchBalance, SignedWithinLimits, Prepare
<1> QED BY <1>7, <1>8, <1>9 DEF Inv

\* Steps that leave every number alone keep what is said of the numbers.
LEMMA InvFrame ==
    ASSUME Inv, UNCHANGED <<config, request, prepared, out, signed>>,
           pc # "start", pc' # "start"
    PROVE  /\ request' \in Requests /\ prepared' \in Prepareds
           /\ FieldsAgree' /\ SignedWithinLimits'
<1>1. FieldsAgree'
  BY DEF Inv, FieldsInv, FieldsAgree, OpenSea, Aggressive
<1>2. SignedWithinLimits'
  BY DEF Inv, SignedWithinLimits
<1> QED BY <1>1, <1>2 DEF Inv, TypeOK

\* A successful refresh, of a copy or in place.
LEMMA InvMerge ==
    ASSUME Inv, pc \in {"armed", "fields"}, reads < MaxReads,
           NEW f \in ReadFees, NEW balance \in Balances, Merge(f, balance),
           InBudget(balance, prepared.value, prepared.gas, f.fee, 0),
           reads' = reads + 1, inFlight' = None,
           UNCHANGED <<config, pc, out, replaced, signed>>, healthy' \in BOOLEAN
    PROVE  Inv'
<1>1. /\ request \in Requests /\ prepared \in Prepareds /\ config \in Configs
      /\ reads \in Nat /\ MaxReads \in Nat
  BY BoundsAssumption DEF Inv, TypeOK
<1>2. f.fee \in Nat /\ f.tip \in Nat /\ f.tip <= f.fee
  BY <1>1, ReadFeesType
<1>3. reads + 1 \in 0 .. MaxReads
  BY <1>1
<1>4. request' = [value |-> request.value, gas |-> request.gas, data |-> request.data,
                  fee |-> f.fee, tip |-> f.tip, read |-> reads + 1]
  BY <1>1 DEF Merge, Requests
<1>5. prepared' = [value |-> prepared.value, gas |-> prepared.gas, data |-> prepared.data,
                   feeCap |-> f.fee, balance |-> balance, read |-> reads + 1]
  BY <1>1 DEF Merge, Prepareds
<1>6. TypeOK'
  <2>1. request' \in Requests
    BY <1>1, <1>2, <1>3, <1>4 DEF Requests
  <2>2. prepared' \in Prepareds
    BY <1>1, <1>2, <1>3, <1>5 DEF Prepareds
  <2> QED BY <2>1, <2>2, <1>3 DEF Inv, TypeOK
<1>7. FieldsInv'
  <2>1. FieldsAgree'
    BY <1>2, <1>4, <1>5 DEF Inv, FieldsInv, FieldsAgree, OpenSea, Aggressive
  <2>2. CopyAgrees'
    BY DEF CopyAgrees
  <2>3. HealthyIsChecked'
    BY <1>4, <1>5 DEF HealthyIsChecked, InBudget
  <2>4. SentCanBeBumped'
    BY DEF SentCanBeBumped
  <2> QED BY <2>1, <2>2, <2>3, <2>4 DEF FieldsInv
<1>8. (PreparedPassesPolicy /\ FeesMatchBalance /\ SignedWithinLimits)'
  BY DEF Inv, PreparedPassesPolicy, FeesMatchBalance, SignedWithinLimits
<1> QED BY <1>6, <1>7, <1>8 DEF Inv

LEMMA InvStartRefresh == Inv /\ StartRefresh => Inv'
<1> SUFFICES ASSUME Inv, StartRefresh PROVE Inv'
  OBVIOUS
<1>1. request' \in Requests /\ prepared' \in Prepareds /\ FieldsAgree' /\ SignedWithinLimits'
  BY InvFrame DEF StartRefresh
<1>2. TypeOK'
  BY <1>1 DEF Inv, TypeOK, StartRefresh, Warm, OpenSea, Aggressive
<1>3. CopyAgrees' /\ HealthyIsChecked' /\ SentCanBeBumped'
  BY DEF Inv, FieldsInv, CopyAgrees, HealthyIsChecked, SentCanBeBumped, StartRefresh,
         OpenSea, InBudget
<1>4. PreparedPassesPolicy' /\ FeesMatchBalance'
  BY DEF PreparedPassesPolicy, FeesMatchBalance, StartRefresh
<1> QED BY <1>1, <1>2, <1>3, <1>4 DEF Inv, FieldsInv

LEMMA InvFinishRefresh == Inv /\ FinishRefresh => Inv'
<1> SUFFICES ASSUME Inv, FinishRefresh PROVE Inv'
  OBVIOUS
<1>1. CASE healthy' = FALSE /\ UNCHANGED <<request, prepared, reads>>
  <2>1. request' \in Requests /\ prepared' \in Prepareds /\ FieldsAgree' /\ SignedWithinLimits'
    BY <1>1, InvFrame DEF FinishRefresh
  <2>2. TypeOK'
    BY <1>1, <2>1 DEF Inv, TypeOK, FinishRefresh
  <2>3. CopyAgrees' /\ HealthyIsChecked' /\ SentCanBeBumped'
    BY <1>1 DEF CopyAgrees, HealthyIsChecked, SentCanBeBumped, FinishRefresh
  <2>4. PreparedPassesPolicy' /\ FeesMatchBalance'
    BY DEF PreparedPassesPolicy, FeesMatchBalance, FinishRefresh
  <2> QED BY <2>1, <2>2, <2>3, <2>4 DEF Inv, FieldsInv
<1>2. CASE ~(healthy' = FALSE /\ UNCHANGED <<request, prepared, reads>>)
  <2>1. PICK f \in ReadFees, balance \in Balances :
           Refreshable(inFlight, f, balance) /\ Merge(f, balance)
    BY <1>2 DEF FinishRefresh
  <2>2. InBudget(balance, prepared.value, prepared.gas, f.fee, 0)
    BY <2>1 DEF Refreshable, FinishRefresh, Inv, FieldsInv, CopyAgrees
  <2>3. /\ pc \in {"armed", "fields"} /\ reads < MaxReads /\ reads' = reads + 1
        /\ inFlight' = None /\ healthy' \in BOOLEAN
        /\ UNCHANGED <<config, pc, out, replaced, signed>>
    BY <1>2 DEF FinishRefresh
  <2> QED BY <2>1, <2>2, <2>3, InvMerge
<1> QED BY <1>1, <1>2

LEMMA InvRefreshNow == Inv /\ RefreshNow => Inv'
<1> SUFFICES ASSUME Inv, RefreshNow PROVE Inv'
  OBVIOUS
<1>1. PICK f \in ReadFees, balance \in Balances :
         /\ Refreshable([request |-> request, prepared |-> prepared], f, balance)
         /\ Merge(f, balance)
  BY DEF RefreshNow
<1>2. InBudget(balance, prepared.value, prepared.gas, f.fee, 0)
  BY <1>1 DEF Refreshable
<1>3. /\ pc \in {"armed", "fields"} /\ reads < MaxReads /\ reads' = reads + 1
      /\ inFlight' = None /\ healthy' \in BOOLEAN
      /\ UNCHANGED <<config, pc, out, replaced, signed>>
  BY DEF RefreshNow
<1> QED BY <1>1, <1>2, <1>3, InvMerge

\* Steps of the trigger that change pc, healthy and the copy in flight only.
LEMMA InvTrigger == Inv /\ Trigger => Inv'
<1> SUFFICES ASSUME Inv, Trigger PROVE Inv'
  OBVIOUS
<1>1. request' \in Requests /\ prepared' \in Prepareds /\ FieldsAgree' /\ SignedWithinLimits'
  BY InvFrame DEF Trigger, fields
<1>2. TypeOK'
  BY <1>1 DEF Inv, TypeOK, Trigger, fields, Warm, OpenSea, Aggressive
<1>3. CopyAgrees' /\ HealthyIsChecked' /\ SentCanBeBumped'
  BY DEF Inv, FieldsInv, CopyAgrees, HealthyIsChecked, SentCanBeBumped, Trigger, fields,
         OpenSea, InBudget
<1>4. PreparedPassesPolicy' /\ FeesMatchBalance'
  BY DEF PreparedPassesPolicy, FeesMatchBalance, Trigger
<1> QED BY <1>1, <1>2, <1>3, <1>4 DEF Inv, FieldsInv

LEMMA InvCancelled == Inv /\ Cancelled => Inv'
<1> SUFFICES ASSUME Inv, Cancelled PROVE Inv'
  OBVIOUS
<1>1. request' \in Requests /\ prepared' \in Prepareds /\ FieldsAgree' /\ SignedWithinLimits'
  BY InvFrame DEF Cancelled
<1>2. healthy' \in BOOLEAN /\ (healthy' => healthy)
  BY DEF Inv, TypeOK, Cancelled
<1>3. TypeOK'
  BY <1>1, <1>2 DEF Inv, TypeOK, Cancelled
<1>4. CopyAgrees' /\ HealthyIsChecked' /\ SentCanBeBumped'
  BY <1>2 DEF Inv, FieldsInv, CopyAgrees, HealthyIsChecked, SentCanBeBumped, Cancelled,
         OpenSea, InBudget
<1>5. PreparedPassesPolicy' /\ FeesMatchBalance'
  BY DEF PreparedPassesPolicy, FeesMatchBalance, Cancelled
<1> QED BY <1>1, <1>3, <1>4, <1>5 DEF Inv, FieldsInv

\* The refresh that fails half-way: fees beside an old balance, never called healthy.
LEMMA InvRefreshNowFails == Inv /\ RefreshNowFails => Inv'
<1> SUFFICES ASSUME Inv, RefreshNowFails PROVE Inv'
  OBVIOUS
<1>1. /\ request \in Requests /\ prepared \in Prepareds /\ config \in Configs
      /\ reads \in Nat /\ MaxReads \in Nat
  <2>1. pc = "fields"
    BY DEF RefreshNowFails
  <2> QED BY <2>1, BoundsAssumption DEF Inv, TypeOK
<1>2. CASE UNCHANGED <<request, prepared, reads>>
  <2>1. request' \in Requests /\ prepared' \in Prepareds /\ FieldsAgree' /\ SignedWithinLimits'
    BY <1>2, InvFrame DEF RefreshNowFails
  <2>2. TypeOK'
    BY <1>2, <2>1 DEF Inv, TypeOK, RefreshNowFails
  <2> QED BY <2>1, <2>2
      DEF Inv, FieldsInv, CopyAgrees, HealthyIsChecked, SentCanBeBumped,
          PreparedPassesPolicy, FeesMatchBalance, RefreshNowFails
<1>3. CASE ~UNCHANGED <<request, prepared, reads>>
  <2>1. PICK f \in ReadFees :
          /\ request' = [request EXCEPT !.fee = f.fee, !.tip = f.tip, !.read = reads + 1]
          /\ prepared' = [prepared EXCEPT !.feeCap = f.fee]
    BY <1>3 DEF RefreshNowFails
  <2>2. reads < MaxReads /\ reads' = reads + 1
    BY <1>3 DEF RefreshNowFails
  <2>3. f.fee \in Nat /\ f.tip \in Nat /\ f.tip <= f.fee
    BY <1>1, ReadFeesType
  <2>4. reads + 1 \in 0 .. MaxReads
    BY <1>1, <2>2
  <2>5. request' = [value |-> request.value, gas |-> request.gas, data |-> request.data,
                    fee |-> f.fee, tip |-> f.tip, read |-> reads + 1]
    BY <1>1, <2>1 DEF Requests
  <2>6. prepared' = [value |-> prepared.value, gas |-> prepared.gas, data |-> prepared.data,
                     feeCap |-> f.fee, balance |-> prepared.balance, read |-> prepared.read]
    BY <1>1, <2>1 DEF Prepareds
  <2>7. TypeOK'
    <3>1. request' \in Requests
      BY <1>1, <2>3, <2>4, <2>5 DEF Requests
    <3>2. prepared' \in Prepareds
      BY <1>1, <2>3, <2>6 DEF Prepareds
    <3> QED BY <3>1, <3>2, <2>2, <2>4 DEF Inv, TypeOK, RefreshNowFails
  <2>8. FieldsAgree'
    BY <2>3, <2>5, <2>6
    DEF Inv, FieldsInv, FieldsAgree, OpenSea, Aggressive, RefreshNowFails
  <2> QED BY <2>7, <2>8
      DEF Inv, FieldsInv, CopyAgrees, HealthyIsChecked, SentCanBeBumped,
          PreparedPassesPolicy, FeesMatchBalance, SignedWithinLimits, RefreshNowFails
<1> QED BY <1>2, <1>3

\* What OpenSea answered, once it is within the price and the budget.
LEMMA InvHydrate == Inv /\ Hydrate => Inv'
<1> SUFFICES ASSUME Inv, Hydrate PROVE Inv'
  OBVIOUS
<1>1. PICK h \in Hydrations :
         /\ h.request.value <= config.price /\ HydrationInBudget(h)
         /\ request' = h.request /\ prepared' = h.prepared
  BY DEF Hydrate
<1>2. /\ OpenSea /\ pc = "fields" /\ healthy /\ pc' = "final"
      /\ UNCHANGED <<config, healthy, inFlight, out, replaced, signed>> /\ inFlight = None
      /\ reads' = (IF Aggressive THEN reads ELSE reads + 1)
      /\ ~Aggressive => reads < MaxReads
  BY DEF Hydrate, Answered
<1>3. OpenSea' /\ (Aggressive' <=> Aggressive)
  BY <1>2 DEF OpenSea, Aggressive
<1>4. /\ h.request \in Requests /\ h.prepared \in Prepareds
      /\ h.request.value = h.prepared.value /\ h.request.gas = h.prepared.gas
      /\ h.request.data = "mint" /\ h.prepared.data = "mint"
      /\ h.request.fee = h.prepared.feeCap
      /\ h.request.tip <= h.request.fee
      /\ h.request.gas # 0
      /\ request.read = prepared.read => h.request.read = h.prepared.read
  BY <1>2, HydrationType DEF Inv, FieldsInv
<1>5. reads' \in 0 .. MaxReads
  BY <1>2, BoundsAssumption DEF Inv, TypeOK
<1>6. TypeOK'
  BY <1>1, <1>2, <1>4, <1>5 DEF Inv, TypeOK
<1>7. FieldsInv'
  BY <1>1, <1>2, <1>3, <1>4
  DEF FieldsInv, FieldsAgree, CopyAgrees, HealthyIsChecked, SentCanBeBumped
<1>8. PreparedPassesPolicy'
  <2>1. InBudget(prepared.balance, prepared.value, prepared.gas, request.fee, 0)'
    BY <1>1, <1>2, <1>4 DEF HydrationInBudget, InBudget
  <2> QED BY <2>1, <1>1, <1>2, <1>3, <1>4 DEF PreparedPassesPolicy, Policy
<1>9. FeesMatchBalance' /\ SignedWithinLimits'
  BY <1>1, <1>2, <1>4
  DEF Inv, FieldsInv, HealthyIsChecked, FeesMatchBalance, SignedWithinLimits
<1> QED BY <1>6, <1>7, <1>8, <1>9 DEF Inv

LEMMA InvHydrateRefused == Inv /\ HydrateRefused => Inv'
<1> SUFFICES ASSUME Inv, HydrateRefused PROVE Inv'
  OBVIOUS
<1>1. /\ pc = "fields" /\ pc' = "failed"
      /\ UNCHANGED <<config, request, prepared, healthy, inFlight, out, replaced, signed>>
      /\ inFlight = None
      /\ reads' = (IF Aggressive THEN reads ELSE reads + 1)
      /\ ~Aggressive => reads < MaxReads
  BY DEF HydrateRefused, Answered
<1>2. request' \in Requests /\ prepared' \in Prepareds /\ FieldsAgree' /\ SignedWithinLimits'
  BY <1>1, InvFrame
<1>3. reads' \in 0 .. MaxReads
  BY <1>1, BoundsAssumption DEF Inv, TypeOK
<1>4. TypeOK'
  BY <1>1, <1>2, <1>3 DEF Inv, TypeOK
<1> QED BY <1>1, <1>2, <1>4
    DEF Inv, FieldsInv, CopyAgrees, HealthyIsChecked, SentCanBeBumped,
        PreparedPassesPolicy, FeesMatchBalance

\* A direct mint goes out with the numbers it was armed or refreshed with.
LEMMA InvSimulate == Inv /\ Simulate => Inv'
<1> SUFFICES ASSUME Inv, Simulate PROVE Inv'
  OBVIOUS
<1>1. /\ pc = "fields" /\ ~OpenSea /\ healthy /\ inFlight = None
      /\ pc' \in {"final", "armed", "failed"}
      /\ UNCHANGED <<config, request, prepared, healthy, inFlight, out, replaced, reads, signed>>
  BY DEF Simulate, fields
<1>2. request' \in Requests /\ prepared' \in Prepareds /\ FieldsAgree' /\ SignedWithinLimits'
  BY <1>1, InvFrame
<1>3. TypeOK'
  BY <1>1, <1>2 DEF Inv, TypeOK
<1>4. ~OpenSea'
  BY <1>1 DEF OpenSea
<1>5. /\ request.read = prepared.read
      /\ InBudget(prepared.balance, prepared.value, prepared.gas, prepared.feeCap, 0)
  BY <1>1 DEF Inv, FieldsInv, HealthyIsChecked
<1>6. /\ request.value = prepared.value /\ request.gas = prepared.gas
      /\ request.data = prepared.data /\ request.fee = prepared.feeCap
      /\ request.value = config.price /\ request.data = "mint" /\ request.gas # 0
  BY <1>1 DEF Inv, FieldsInv, FieldsAgree
<1>7. FieldsInv'
  BY <1>1, <1>2, <1>5
  DEF FieldsInv, CopyAgrees, HealthyIsChecked, SentCanBeBumped, InBudget
<1>8. Policy(request)'
  BY <1>1, <1>4, <1>5, <1>6 DEF Policy, InBudget
<1>9. PreparedPassesPolicy' /\ FeesMatchBalance'
  BY <1>1, <1>5, <1>8 DEF PreparedPassesPolicy, FeesMatchBalance
<1> QED BY <1>2, <1>3, <1>7, <1>9 DEF Inv

----------------------------------------------------------------------------
\* What passes the signing policy stays in the limits.
LEMMA PolicyBounds ==
    ASSUME Inv, NEW r \in Requests, Policy(r)
    PROVE  /\ r.gas \in Nat /\ 0 < r.gas
           /\ r.gas * r.fee <= config.cap /\ r.value <= config.price
<1>1. ValidConfig(config) /\ r.gas \in Nat /\ r.fee \in Nat
  BY ConfigsAssumption DEF Inv, TypeOK, Requests
<1>2. r.gas * r.fee \in Nat
  BY <1>1
<1>3. r.gas * r.fee + 0 <= config.cap
  BY DEF Policy, InBudget
<1>4. r.value <= config.price
  BY <1>1 DEF Policy, ValidConfig
<1> DEFINE cost == r.gas * r.fee
<1>5. cost <= config.cap
  <2>1. cost \in Nat /\ cost + 0 <= config.cap
    BY <1>2, <1>3
  <2> HIDE DEF cost
  <2> QED BY <2>1
<1> QED BY <1>1, <1>4, <1>5 DEF Policy

\* Signing one more transaction within the limits.
LEMMA SignedGrows ==
    ASSUME Inv, NEW r \in Requests, Policy(r), r.tip <= r.fee,
           signed' = Append(signed, r), config' = config
    PROVE  signed' \in Seq(Requests) /\ SignedWithinLimits'
<1>1. 0 < r.gas /\ r.gas * r.fee <= config.cap /\ r.value <= config.price
  BY PolicyBounds
<1>2. signed \in Seq(Requests)
  BY DEF Inv, TypeOK
<1>3. signed' \in Seq(Requests)
  BY <1>2
<1>4. ASSUME NEW i \in 1 .. Len(signed')
      PROVE  \/ i \in 1 .. Len(signed) /\ signed'[i] = signed[i]
             \/ signed'[i] = r
  BY <1>2
<1>5. SignedWithinLimits'
  BY <1>1, <1>4 DEF Inv, SignedWithinLimits
<1> QED BY <1>3, <1>5

LEMMA InvSign == Inv /\ Sign => Inv'
<1> SUFFICES ASSUME Inv, Sign PROVE Inv'
  OBVIOUS
<1>1. /\ pc = "final" /\ replaced' = 0
      /\ UNCHANGED <<config, request, prepared, healthy, inFlight, reads>>
  BY DEF Sign, fields
<1>2. request \in Requests /\ prepared \in Prepareds /\ request.tip <= request.fee
  BY <1>1 DEF Inv, TypeOK, FieldsInv, FieldsAgree
<1>3. inFlight = None /\ 0 \in 0 .. MaxReplacements
  BY <1>1, BoundsAssumption DEF Inv, TypeOK
<1>4. CopyAgrees'
  BY <1>1, <1>3 DEF CopyAgrees
<1>5. FieldsAgree'
  BY <1>1 DEF Inv, FieldsInv, FieldsAgree, OpenSea, Aggressive
<1>6. CASE pc' \in {"failed", "refused"} /\ UNCHANGED <<signed, out>>
  <2>1. TypeOK'
    BY <1>1, <1>2, <1>3, <1>6 DEF Inv, TypeOK
  <2> QED BY <1>1, <1>4, <1>5, <1>6, <2>1
      DEF Inv, FieldsInv, HealthyIsChecked, SentCanBeBumped, PreparedPassesPolicy,
          FeesMatchBalance, SignedWithinLimits
<1>7. CASE /\ Policy(request) /\ pc' \in {"sent", "failed"}
           /\ signed' = Append(signed, request) /\ out' = request
  <2>1. signed' \in Seq(Requests) /\ SignedWithinLimits'
    BY <1>1, <1>2, <1>7, SignedGrows
  <2>2. TypeOK'
    BY <1>1, <1>2, <1>3, <1>7, <2>1 DEF Inv, TypeOK
  <2> QED BY <1>2, <1>4, <1>5, <1>7, <2>1, <2>2
      DEF Inv, FieldsInv, HealthyIsChecked, SentCanBeBumped, PreparedPassesPolicy,
          FeesMatchBalance
<1> QED BY <1>6, <1>7 DEF Sign

LEMMA InvReplace == Inv /\ Replace => Inv'
<1> SUFFICES ASSUME Inv, Replace PROVE Inv'
  OBVIOUS
<1>1. /\ pc = "sent" /\ replaced < MaxReplacements
      /\ UNCHANGED <<config, pc, request, prepared, healthy, inFlight, reads>>
  BY DEF Replace, fields
<1>2. out \in Requests /\ out.tip <= out.fee
  BY <1>1 DEF Inv, FieldsInv, SentCanBeBumped
<1>3. /\ replaced \in 0 .. MaxReplacements /\ MaxReplacements \in Nat
      /\ replaced + 1 \in 0 .. MaxReplacements /\ MaxReplacements \in 0 .. MaxReplacements
  BY <1>1, BoundsAssumption DEF Inv, TypeOK
<1>4. Bump(out) \in Requests /\ Bump(out).tip <= Bump(out).fee
  BY <1>2, BumpType
<1>5. FieldsAgree' /\ CopyAgrees' /\ HealthyIsChecked'
  BY <1>1
  DEF Inv, FieldsInv, FieldsAgree, CopyAgrees, HealthyIsChecked, OpenSea, Aggressive, InBudget
<1>6. CASE replaced' = MaxReplacements /\ UNCHANGED <<out, signed>>
  <2>1. TypeOK'
    BY <1>1, <1>3, <1>6 DEF Inv, TypeOK
  <2> QED BY <1>1, <1>2, <1>5, <1>6, <2>1
      DEF Inv, FieldsInv, SentCanBeBumped, PreparedPassesPolicy, FeesMatchBalance,
          SignedWithinLimits
<1>7. CASE /\ Policy(Bump(out)) /\ signed' = Append(signed, Bump(out))
           /\ \/ out' = Bump(out) /\ replaced' = replaced + 1
              \/ out' = out /\ replaced' = MaxReplacements
  <2>1. signed' \in Seq(Requests) /\ SignedWithinLimits'
    BY <1>1, <1>4, <1>7, SignedGrows
  <2>2. out' \in Requests /\ out'.tip <= out'.fee /\ replaced' \in 0 .. MaxReplacements
    BY <1>2, <1>3, <1>4, <1>7
  <2>3. TypeOK'
    BY <1>1, <2>1, <2>2 DEF Inv, TypeOK
  <2> QED BY <1>1, <1>5, <2>1, <2>2, <2>3
      DEF Inv, FieldsInv, SentCanBeBumped, PreparedPassesPolicy, FeesMatchBalance
<1> QED BY <1>6, <1>7 DEF Replace

LEMMA InvRetry == Inv /\ Retry => Inv'
<1> SUFFICES ASSUME Inv, Retry PROVE Inv'
  OBVIOUS
<1>1. request' \in Requests /\ prepared' \in Prepareds /\ FieldsAgree' /\ SignedWithinLimits'
  BY InvFrame DEF Retry
<1>2. TypeOK'
  BY <1>1 DEF Inv, TypeOK, Retry
<1> QED BY <1>1, <1>2
    DEF Inv, FieldsInv, CopyAgrees, HealthyIsChecked, SentCanBeBumped,
        PreparedPassesPolicy, FeesMatchBalance, Retry, TypeOK

----------------------------------------------------------------------------
\* Every step of the bot, and every step of something else, keeps the invariant.
LEMMA InvNext == Inv /\ [Next]_vars => Inv'
<1> SUFFICES ASSUME Inv, [Next]_vars PROVE Inv'
  OBVIOUS
<1>1. CASE Next
  BY <1>1, InvPrepare, InvStartRefresh, InvFinishRefresh, InvTrigger, InvCancelled,
     InvRefreshNow, InvRefreshNowFails, InvHydrate, InvHydrateRefused, InvSimulate,
     InvSign, InvReplace, InvRetry DEF Next
<1>2. CASE UNCHANGED vars
  <2>1. UNCHANGED <<config, pc, request, prepared, healthy, inFlight, out, replaced,
                    reads, signed>>
    BY <1>2 DEF vars, fields
  <2> QED BY <2>1
      DEF Inv, TypeOK, FieldsInv, FieldsAgree, CopyAgrees, HealthyIsChecked,
          SentCanBeBumped, PreparedPassesPolicy, FeesMatchBalance, SignedWithinLimits,
          Policy, InBudget, OpenSea, Aggressive, Warm
<1> QED BY <1>1, <1>2

\* The whole invariant holds in every behaviour of the bot's numbers.
THEOREM InvHolds == Spec => []Inv
<1>1. Init => Inv
  BY InvInit
<1>2. Inv /\ [Next]_vars => Inv'
  BY InvNext
<1> QED BY <1>1, <1>2, PTL DEF Spec

\* Whatever is armed, refreshed, hydrated, bumped or retried (bot.rs), every
\* number keeps its type and a refresh is in flight only where one may be.
THEOREM TypeCorrect == Spec => []TypeOK
<1>1. Inv => TypeOK
  BY DEF Inv
<1> QED BY <1>1, InvHolds, PTL

\* request and the rest of PreparedTransaction never come apart, whatever the
\* order of merges, refreshes in place and hydrations; and what is called healthy
\* was checked against the budget.
THEOREM FieldsHold == Spec => []FieldsInv
<1>1. Inv => FieldsInv
  BY DEF Inv
<1> QED BY <1>1, InvHolds, PTL

\* validate_signing_request never refuses what prepare_trigger_transaction returned.
THEOREM PreparedPasses == Spec => []PreparedPassesPolicy
<1>1. Inv => PreparedPassesPolicy
  BY DEF Inv
<1> QED BY <1>1, InvHolds, PTL

\* The fees that are signed and the balance they were held against come from one
\* round of reads, even after a refresh in place that failed half-way.
THEOREM FeesMatch == Spec => []FeesMatchBalance
<1>1. Inv => FeesMatchBalance
  BY DEF Inv
<1> QED BY <1>1, InvHolds, PTL

\* Everything signed, replacements included, stays within max_total_gas_cost_native
\* and the payment guard, with a tip that does not exceed its fee.
THEOREM SignedStaysWithinLimits == Spec => []SignedWithinLimits
<1>1. Inv => SignedWithinLimits
  BY DEF Inv
<1> QED BY <1>1, InvHolds, PTL

----------------------------------------------------------------------------
(* What the bot armed with, against what OpenSea asks for at the trigger.  *)

\* The inductive invariant behind ArmedCanPay: the numbers a bot armed with pass
\* the budget at the highest price, and aggressive mode keeps the gas limit.
ArmedInv ==
    /\ pc \notin {"start", "failed"} =>
          /\ armedWith \in [balance : Nat, fee : Nat, gas : Nat]
          /\ InBudget(armedWith.balance, config.price, armedWith.gas, armedWith.fee, 0)
          /\ Aggressive => request.gas = armedWith.gas
    /\ pc = "start" => short = None
    /\ ArmedCanPay

\* A gas cost grows with the gas limit and with the fee.
LEMMA CostMonotone ==
    ASSUME NEW g \in Nat, NEW f \in Nat, NEW gas \in Nat, NEW fee \in Nat,
           g <= gas, f <= fee
    PROVE  g * f \in Nat /\ gas * fee \in Nat /\ g * f <= gas * fee
<1>1. g * f <= gas * f
  OBVIOUS
<1>2. gas * f <= gas * fee
  OBVIOUS
<1>3. g * f \in Nat /\ gas * f \in Nat /\ gas * fee \in Nat
  OBVIOUS
<1> DEFINE a == g * f  b == gas * f  c == gas * fee
<1> HIDE DEF a, b, c
<1>4. a <= b /\ b <= c /\ a \in Nat /\ b \in Nat /\ c \in Nat
  BY <1>1, <1>2, <1>3 DEF a, b, c
<1>5. a <= c
  BY <1>4
<1> QED BY <1>3, <1>5 DEF a, c

\* A lower price, gas limit and fee fit the budget that the higher ones fit, at
\* a balance that is no lower.
LEMMA BudgetMonotone ==
    ASSUME config \in Configs,
           NEW b \in Nat, NEW v \in Nat, NEW g \in Nat, NEW f \in Nat,
           NEW balance \in Nat, NEW value \in Nat, NEW gas \in Nat, NEW fee \in Nat,
           balance <= b, v <= value, g <= gas, f <= fee,
           InBudget(balance, value, gas, fee, 0)
    PROVE  InBudget(b, v, g, f, 0)
<1>1. config.cap \in Nat
  BY ConfigsAssumption DEF ValidConfig
<1> DEFINE low == g * f  high == gas * fee
<1>2. low \in Nat /\ high \in Nat /\ low <= high
  BY CostMonotone
<1>3. high + 0 <= config.cap /\ value + high + 0 <= balance
  BY DEF InBudget
<1> HIDE DEF low, high
<1>4. low + 0 <= config.cap /\ v + low + 0 <= b
  BY <1>1, <1>2, <1>3
<1> QED BY <1>4 DEF InBudget, low

LEMMA ArmedPrepare == Inv /\ ArmedInv /\ Prepare => ArmedInv'
<1> SUFFICES ASSUME Inv, ArmedInv, Prepare PROVE ArmedInv'
  OBVIOUS
<1>1. PICK f \in ReadFees, balance \in Balances, estimate \in GasEstimates :
        LET gas == IF config.limit > 0 THEN Scale(config.limit)
                   ELSE IF OpenSea THEN 0 ELSE Scale(estimate)
            value == IF OpenSea THEN 0 ELSE config.price
            data == IF OpenSea THEN "placeholder" ELSE "mint"
        IN  /\ request' = [value |-> value, gas |-> gas, data |-> data,
                           fee |-> f.fee, tip |-> f.tip, read |-> 0]
            /\ pc' = IF InBudget(balance, Reserve, gas, f.fee, 0)
                     THEN "armed" ELSE "failed"
            /\ armedWith' = [balance |-> balance, fee |-> f.fee, gas |-> gas]
  BY DEF Prepare
<1> DEFINE gas == IF config.limit > 0 THEN Scale(config.limit)
                  ELSE IF OpenSea THEN 0 ELSE Scale(estimate)
<1>2. /\ request'.gas = gas
      /\ pc' = IF InBudget(balance, config.price, gas, f.fee, 0) THEN "armed" ELSE "failed"
      /\ armedWith' = [balance |-> balance, fee |-> f.fee, gas |-> gas]
  BY <1>1 DEF Reserve
<1>3. config' = config /\ short' = short /\ short = None
  BY DEF ArmedInv, Prepare
<1>4. f.fee \in Nat /\ balance \in Nat
  BY ReadFeesType, ReadsAssumption DEF Inv, TypeOK
<1>5. gas \in Nat
  <2>1. config.limit \in Nat /\ estimate \in Nat
    BY ConfigsAssumption, ReadsAssumption DEF ValidConfig, Inv, TypeOK
  <2> QED BY <2>1, ScaleType
<1> HIDE DEF gas
<1> QED BY <1>2, <1>3, <1>4, <1>5 DEF ArmedInv, ArmedCanPay, InBudget

\* New fees and a new balance leave the gas limit alone.
LEMMA ArmedRefresh ==
    ASSUME Inv, ArmedInv, FinishRefresh \/ RefreshNow \/ RefreshNowFails
    PROVE  ArmedInv'
<1>1. /\ pc \in {"armed", "fields"} /\ pc' # "start"
      /\ UNCHANGED <<config, armedWith, short>>
  BY DEF FinishRefresh, RefreshNow, RefreshNowFails, Inv, TypeOK
<1>2. request \in Requests
  BY <1>1 DEF Inv, TypeOK
<1>3. request'.gas = request.gas
  BY <1>2 DEF FinishRefresh, RefreshNow, RefreshNowFails, Merge, Requests
<1> QED BY <1>1, <1>3 DEF ArmedInv, ArmedCanPay, InBudget, Aggressive

LEMMA ArmedHydrate == Inv /\ ArmedInv /\ Hydrate => ArmedInv'
<1> SUFFICES ASSUME Inv, ArmedInv, Hydrate PROVE ArmedInv'
  OBVIOUS
<1>1. /\ pc = "fields" /\ pc' = "final" /\ UNCHANGED <<config, armedWith, short>>
  BY DEF Hydrate, Answered
<1>2. request \in Requests
  BY <1>1 DEF Inv, TypeOK
<1>3. PICK value \in Values, f \in ReadFees, balance \in Balances, estimate \in GasEstimates :
         request' = Hydration(value, f, balance, estimate).request
  BY DEF Hydrate, Hydrations
<1>4. Aggressive => request'.gas = request.gas
  BY <1>2, <1>3 DEF Hydration, HydratedGas, Requests
<1> QED BY <1>1, <1>4 DEF ArmedInv, ArmedCanPay, InBudget, Aggressive

\* A budget that fails at the trigger fails for a number that got worse.
LEMMA ArmedRefused == Inv /\ ArmedInv /\ HydrateRefused => ArmedInv'
<1> SUFFICES ASSUME Inv, ArmedInv, HydrateRefused PROVE ArmedInv'
  OBVIOUS
<1>1. pc = "fields" /\ pc' = "failed" /\ UNCHANGED <<config, armedWith>>
  BY DEF HydrateRefused, Answered
<1>2. CASE UNCHANGED short
  BY <1>1, <1>2 DEF ArmedInv, ArmedCanPay, Aggressive
<1>3. CASE short' # short
  <2>1. PICK h \in Hydrations :
           /\ h.request.value <= config.price
           /\ ~HydrationInBudget(h)
           /\ short' = [balance |-> h.prepared.balance, fee |-> h.prepared.feeCap,
                        gas |-> h.prepared.gas]
    BY <1>3 DEF HydrateRefused
  <2>2. /\ h.request \in Requests /\ h.prepared \in Prepareds
        /\ h.request.value = h.prepared.value /\ h.request.gas = h.prepared.gas
    <3>1. TypeOK /\ FieldsAgree /\ (~Aggressive => reads < MaxReads)
      BY DEF Inv, FieldsInv, HydrateRefused, Answered
    <3> QED BY <1>1, <3>1, HydrationType
  <2>3. Aggressive => h.prepared.gas = armedWith.gas
    <3>1. request \in Requests /\ prepared \in Prepareds
      BY <1>1 DEF Inv, TypeOK
    <3>2. PICK value \in Values, f \in ReadFees, balance \in Balances, estimate \in GasEstimates :
             h = Hydration(value, f, balance, estimate)
      BY DEF Hydrations
    <3>3. Aggressive => h.request.gas = HydratedGas(estimate)
      BY <3>1, <3>2 DEF Hydration, Requests
    <3>4. Aggressive => h.request.gas = request.gas
      BY <3>3 DEF HydratedGas
    <3> QED BY <1>1, <2>2, <3>4 DEF ArmedInv
  <2>4. /\ armedWith \in [balance : Nat, fee : Nat, gas : Nat]
        /\ InBudget(armedWith.balance, config.price, armedWith.gas, armedWith.fee, 0)
        /\ config \in Configs /\ config.price \in Nat
    BY <1>1, ConfigsAssumption DEF ArmedInv, Inv, TypeOK, ValidConfig
  <2>5. /\ h.prepared.balance \in Nat /\ h.prepared.value \in Nat
        /\ h.prepared.gas \in Nat /\ h.prepared.feeCap \in Nat
        /\ armedWith.balance \in Nat /\ armedWith.gas \in Nat /\ armedWith.fee \in Nat
    BY <2>2, <2>4, ReadsAssumption DEF Prepareds
  <2>6. SUFFICES ASSUME /\ armedWith.balance <= h.prepared.balance
                        /\ h.prepared.feeCap <= armedWith.fee
                        /\ h.prepared.gas <= armedWith.gas
                 PROVE  FALSE
    BY <1>1, <2>1, <2>3, <2>5 DEF ArmedInv, ArmedCanPay, Aggressive
  <2>7. HydrationInBudget(h)
    BY <2>1, <2>2, <2>4, <2>5, <2>6, BudgetMonotone DEF HydrationInBudget
  <2> QED BY <2>1, <2>7
<1> QED BY <1>2, <1>3

\* The other steps leave the gas limit and both records alone.
LEMMA ArmedFrame ==
    ASSUME ArmedInv, pc # "start", pc' # "start", pc' = "failed" \/ pc # "failed",
           UNCHANGED <<config, request, armedWith, short>>
    PROVE  ArmedInv'
  BY DEF ArmedInv, ArmedCanPay, InBudget, Aggressive

LEMMA ArmedNext == Inv /\ ArmedInv /\ [Next]_vars => ArmedInv'
<1> SUFFICES ASSUME Inv, ArmedInv, [Next]_vars PROVE ArmedInv'
  OBVIOUS
<1>1. CASE StartRefresh \/ Trigger \/ Cancelled \/ Simulate
  BY <1>1, ArmedFrame DEF StartRefresh, Trigger, Cancelled, Simulate, fields
<1>2. CASE Sign \/ Replace \/ Retry
  BY <1>2, ArmedFrame DEF Sign, Replace, Retry, fields
<1>3. CASE UNCHANGED vars
  BY <1>3 DEF vars, fields, ArmedInv, ArmedCanPay, InBudget, Aggressive
<1>4. CASE FinishRefresh \/ RefreshNow \/ RefreshNowFails
  BY <1>4, ArmedRefresh
<1>5. CASE Prepare \/ Hydrate \/ HydrateRefused
  BY <1>5, ArmedPrepare, ArmedHydrate, ArmedRefused
<1> QED BY <1>1, <1>2, <1>3, <1>4, <1>5 DEF Next

\* A bot that armed (bot.rs:352) can pay what OpenSea may ask for: its run ends at
\* the trigger only because a balance, a fee or, in normal mode, a gas estimate
\* is worse than what it armed with, never because of the price alone.
THEOREM ArmedPays == Spec => []ArmedCanPay
<1>1. Init => ArmedInv
  BY DEF Init, ArmedInv, ArmedCanPay
<1>2. Inv /\ Inv' /\ ArmedInv /\ [Next]_vars => ArmedInv'
  BY ArmedNext
<1>3. ArmedInv => ArmedCanPay
  BY DEF ArmedInv
<1> QED BY <1>1, <1>2, <1>3, InvHolds, PTL DEF Spec
=============================================================================
