------------------------ MODULE MCTransactionFields ------------------------
EXTENDS TransactionFields

Estimate(max, tip) == [max |-> max, tip |-> tip]
TwoEstimates == {Estimate(1, 1), Estimate(2, 1)}

Config(execution, auto, limit, ink) ==
    [execution |-> execution, auto |-> auto, fee |-> 2, tip |-> 2,
     limit |-> limit, cap |-> 9, price |-> 2, ink |-> ink]

\* A configured limit is 3 after scaling, fees are 2 or 3, and the cap leaves
\* room for one replacement of the lower fee; Ink adds a reserve.
AllConfigs ==
    {Config(execution, auto, limit, ink) :
        execution \in {"direct", "normal"}, auto \in BOOLEAN, limit \in {0, 2}, ink \in BOOLEAN}
    \cup {Config("aggressive", auto, 2, ink) : auto \in BOOLEAN, ink \in BOOLEAN}
=============================================================================
