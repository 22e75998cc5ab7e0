------------------------ MODULE ReceiptMonitorProofs ------------------------
(***************************************************************************)
(* Proofs about ReceiptMonitor, for any number of confirmations and any    *)
(* replacement rule, chain and reorganisations: what it sends stays within *)
(* the budget, and what it calls confirmed is.                             *)
(***************************************************************************)
EXTENDS ReceiptMonitor, TLAPS

\* The transactions follow the counter: while another replacement is allowed,
\* every transaction was acknowledged and the last one pays `request`; each
\* replacement used up one attempt, and one that may or may not be out all.
SendsFollow ==
    /\ request \in 1 .. FeeCap
    /\ Len(sent) \in 1 .. replacements + 1
    /\ pc \in {"age", "send"} => replacements < MaxAttempts
    /\ pc = "send" => Bump(request) <= FeeCap
    /\ replacements < MaxAttempts =>
          request = sent[Len(sent)] /\ acked = 1 .. Len(sent)
    /\ 1 .. Len(sent) - 1 \subseteq acked
    /\ \A i, j \in 1 .. Len(sent) : i < j => sent[i] < sent[j]
    /\ \A i \in 1 .. Len(sent) : sent[i] <= FeeCap

\* No provider is behind on a chain that did not reorganise; there the receipt in
\* hand is the chain's, and is deep enough where it is read again.
FoundFollows ==
    /\ included # None => included.block <= head
    /\ reorgs = 0 => behind = {}
    /\ pc \in {"deep", "depth", "recheck"} =>
          found.tx # 0 /\ (reorgs = 0 => included = found)
    /\ pc = "recheck" /\ reorgs = 0 => head >= TargetBlock
    /\ pc # "ended" => verdict = Undecided

WatchInv == TypeOK /\ SendsFollow /\ FoundFollows

----------------------------------------------------------------------------
\* A replacement pays more than what it replaces.
LEMMA BumpRaises ==
  ASSUME NEW fee \in Nat \ {0}
  PROVE  Bump(fee) \in Nat /\ fee < Bump(fee)
<1> DEFINE x == fee * Num + Den - 1
<1>1. Num >= Den + 1 /\ Num \in Nat /\ Den \in Nat \ {0}
  BY ConfigAssumption
<1>2. fee * Num >= fee * (Den + 1)
  BY <1>1
<1>3. fee * (Den + 1) = fee * Den + fee
  BY <1>1
<1>4. fee * Num \in Nat /\ fee * Den \in Nat /\ (fee + 1) * Den = fee * Den + Den
  BY <1>1
<1>5. x \in Nat /\ (fee + 1) * Den <= x
  BY <1>1, <1>2, <1>3, <1>4
<1>6. ASSUME NEW y \in Nat, NEW d \in Nat \ {0}, NEW q \in Nat, q * d <= y
      PROVE  y \div d \in Nat /\ q <= y \div d
  BY <1>6
<1>7. x \div Den \in Nat /\ fee + 1 <= x \div Den
  BY <1>1, <1>5, <1>6
<1> QED BY <1>7 DEF Bump

\* What the replacement in the making would pay.
LEMMA NextFee ==
  ASSUME SendsFollow
  PROVE  Bump(request) \in Nat /\ request < Bump(request)
<1>1. request \in Nat \ {0}
  BY ConfigAssumption DEF SendsFollow
<1> QED BY <1>1, BumpRaises

\* The heights providers give are heights of the chain.
LEMMA SeenHeadsType ==
  ASSUME NEW h \in SeenHeads, head \in 1 .. MaxBlock
  PROVE  h \in Nat /\ h \in 1 .. MaxBlock /\ h <= head
BY BoundsAssumption DEF SeenHeads

\* Sending one more transaction only adds receipts.
LEMMA ReceiptsGrow ==
  ASSUME Len(sent) \in Nat, Len(sent') \in Nat, Len(sent) <= Len(sent')
  PROVE  Receipts \subseteq Receipts'
<1>1. 1 .. Len(sent) \subseteq 1 .. Len(sent')
  OBVIOUS
<1> QED BY <1>1 DEF Receipts

\* A replacement that is sent keeps the fees in order and under the cap.
LEMMA FeesRise ==
  ASSUME SendsOK, SendsFollow, request = sent[Len(sent)], Bump(request) <= FeeCap,
         sent' = Append(sent, Bump(request))
  PROVE  /\ \A i, j \in 1 .. Len(sent') : i < j => sent'[i] < sent'[j]
         /\ \A i \in 1 .. Len(sent') : sent'[i] <= FeeCap
<1> DEFINE fee == Bump(request)
           n == Len(sent)
<1>1. fee \in Nat /\ request < fee
  BY NextFee
<1>2. sent \in Seq(Nat) /\ n \in Nat \ {0} /\ request \in Nat /\ FeeCap \in Nat
  BY ConfigAssumption DEF SendsOK, SendsFollow
<1> HIDE DEF fee
<1>3. /\ Len(sent') = n + 1 /\ sent'[n + 1] = fee
      /\ \A i \in 1 .. n : sent'[i] = sent[i] /\ sent[i] \in Nat
  BY <1>1, <1>2 DEF fee
<1>4. ASSUME NEW i \in 1 .. n PROVE sent[i] <= request
  <2>1. i = n \/ (i < n /\ n \in 1 .. n)
    BY <1>2
  <2>2. i < n /\ n \in 1 .. n => sent[i] < sent[n]
    BY DEF SendsFollow
  <2> QED BY <1>2, <1>3, <2>1, <2>2
<1>5. ASSUME NEW i \in 1 .. Len(sent'), NEW j \in 1 .. Len(sent'), i < j
      PROVE  sent'[i] < sent'[j]
  <2>1. i \in 1 .. n
    BY <1>2, <1>3, <1>5
  <2>2. CASE j \in 1 .. n
    <3>1. sent[i] < sent[j]
      BY <1>5, <2>1, <2>2 DEF SendsFollow
    <3> QED BY <1>3, <2>1, <2>2, <3>1
  <2>3. CASE j = n + 1
    BY <1>1, <1>2, <1>3, <1>4, <2>1, <2>3
  <2> QED BY <1>2, <1>3, <2>2, <2>3
<1>6. ASSUME NEW i \in 1 .. Len(sent') PROVE sent'[i] <= FeeCap
  <2>1. CASE i \in 1 .. n
    BY <1>3, <2>1 DEF SendsFollow
  <2>2. CASE i = n + 1
    BY <1>3, <2>2 DEF fee
  <2> QED BY <1>2, <1>3, <2>1, <2>2
<1> QED BY <1>5, <1>6

\* A replacement adds one transaction at most.
LEMMA SentGrows ==
  ASSUME SendsOK, SendsFollow, Replaced \/ NotReplaced
  PROVE  Len(sent) \in Nat /\ Len(sent') \in Nat /\ Len(sent) <= Len(sent')
<1>1. Bump(request) \in Nat
  BY NextFee
<1> QED BY <1>1 DEF SendsOK, Replaced, NotReplaced

\* Every step keeps the types of the task and the chain's height, ...
LEMMA TaskInv == WatchInv /\ [Next]_vars => TaskOK'
<1> SUFFICES ASSUME WatchInv, [Next]_vars PROVE TaskOK'
  OBVIOUS
<1> USE DEF WatchInv, TypeOK, TaskOK
<1>1. CASE NewBlock
  <2>1. head' \in 1 .. MaxBlock
    BY <1>1, BoundsAssumption DEF NewBlock
  <2> QED BY <1>1, <2>1 DEF NewBlock, bot
<1>2. CASE Reorganise
  <2>1. reorgs' \in 0 .. MaxReorgs
    BY <1>2, BoundsAssumption DEF Reorganise
  <2> QED BY <1>2, <2>1 DEF Reorganise, bot
<1>3. CASE CtrlC
  BY <1>3 DEF CtrlC, bot, chain, Running
<1>4. CASE Begin
  <2>1. lastBlock' \in SeenHeads \cup {0}
    BY <1>4 DEF Begin
  <2>2. lastBlock' \in 0 .. MaxBlock
    BY <2>1, SeenHeadsType, BoundsAssumption
  <2> QED BY <1>4, <2>2 DEF Begin, chain
<1>5. CASE Shutdown
  BY <1>5 DEF Shutdown, bot, chain, End
<1>6. CASE Tick
  BY <1>6 DEF Tick, bot, chain
<1>7. CASE Lookup
  BY <1>7 DEF Lookup, bot, chain, Judge, End
<1>8. CASE Miss
  BY <1>8 DEF Miss, bot, chain
<1>9. CASE Depth
  BY <1>9 DEF Depth, bot, chain, SeenHeads
<1>10. CASE Recheck
  BY <1>10 DEF Recheck, bot, chain, Judge, End
<1>11. CASE Disappeared
  BY <1>11 DEF Disappeared, bot, chain
<1>12. CASE ParentCall
  BY <1>12 DEF ParentCall, bot, chain, End
<1>13. CASE Age
  <2>1. PICK b \in SeenHeads :
           /\ lastBlock' \in {b, lastBlock} /\ current' \in {b, current}
           /\ pc' \in {"sleep", "send"}
    BY <1>13 DEF Age
  <2>2. b \in 0 .. MaxBlock
    BY SeenHeadsType, BoundsAssumption
  <2> QED BY <1>13, <2>1, <2>2 DEF Age, chain
<1>14. CASE AgeUnknown
  BY <1>14 DEF AgeUnknown, bot, chain
<1>15. CASE Replaced
  BY <1>15 DEF Replaced, bot, chain
<1>16. CASE NotReplaced
  BY <1>16 DEF NotReplaced, bot, chain
<1>17. CASE UNCHANGED vars
  BY <1>17 DEF vars, bot, chain
<1>18. CASE CatchUp
  BY <1>18 DEF CatchUp, bot, Running
<1> QED
  BY <1>1, <1>2, <1>3, <1>4, <1>5, <1>6, <1>7, <1>8, <1>9, <1>10, <1>11, <1>12,
     <1>13, <1>14, <1>15, <1>16, <1>17, <1>18
     DEF Next, Task, Terminated

\* ... of what is sent, ...
LEMMA SendsTypeInv == WatchInv /\ [Next]_vars => SendsOK'
<1> SUFFICES ASSUME WatchInv, [Next]_vars PROVE SendsOK'
  OBVIOUS
<1> USE DEF WatchInv, TypeOK, SendsOK
<1>1. CASE NewBlock
  BY <1>1 DEF NewBlock, bot, chain, Running
<1>2. CASE Reorganise
  BY <1>2 DEF Reorganise, bot, chain, Running
<1>3. CASE CtrlC
  BY <1>3 DEF CtrlC, bot, chain, Running
<1>4. CASE Begin
  BY <1>4 DEF Begin, bot, chain, SeenHeads
<1>5. CASE Shutdown
  BY <1>5 DEF Shutdown, bot, chain, End
<1>6. CASE Tick
  BY <1>6 DEF Tick, bot, chain
<1>7. CASE Lookup
  BY <1>7 DEF Lookup, bot, chain, Judge, End
<1>8. CASE Miss
  BY <1>8 DEF Miss, bot, chain
<1>9. CASE Depth
  BY <1>9 DEF Depth, bot, chain, SeenHeads
<1>10. CASE Recheck
  BY <1>10 DEF Recheck, bot, chain, Judge, End
<1>11. CASE Disappeared
  BY <1>11 DEF Disappeared, bot, chain
<1>12. CASE ParentCall
  BY <1>12 DEF ParentCall, bot, chain, End
<1>13. CASE Age
  <2>1. replacements' \in {replacements, MaxAttempts}
    BY <1>13 DEF Age
  <2>2. replacements' \in 0 .. MaxAttempts
    BY <2>1, ConfigAssumption
  <2> QED BY <1>13, <2>2 DEF Age
<1>14. CASE AgeUnknown
  BY <1>14 DEF AgeUnknown, bot, chain
<1>15. CASE Replaced
  <2>1. Bump(request) \in Nat
    BY NextFee
  <2>2. Len(sent') \in Nat /\ Len(sent) <= Len(sent')
    BY <1>15, SentGrows
  <2>3. sent' \in Seq(Nat) /\ Len(sent') = Len(sent) + 1
    BY <1>15, <2>1 DEF Replaced
  <2>4. watched' \subseteq 1 .. Len(sent') /\ acked' \subseteq 1 .. Len(sent')
    <3>1. 1 .. Len(sent) \subseteq 1 .. Len(sent')
      BY <2>2
    <3>2. Len(sent') = Len(sent) + 1 => Len(sent) + 1 \in 1 .. Len(sent')
      BY <2>2
    <3> QED BY <1>15, <2>3, <3>1, <3>2 DEF Replaced
  <2>5. request' \in Nat /\ replacements' \in 0 .. MaxAttempts
    BY <1>15, <2>1, ConfigAssumption DEF Replaced, SendsFollow
  <2> QED BY <2>3, <2>4, <2>5
<1>16. CASE NotReplaced
  <2>1. Bump(request) \in Nat
    BY NextFee
  <2>2. Len(sent') \in Nat /\ Len(sent) <= Len(sent')
    BY <1>16, SentGrows
  <2>3. sent' \in Seq(Nat)
    BY SMTT(30), <1>16, <2>1 DEF NotReplaced
  <2>4. watched' \subseteq 1 .. Len(sent') /\ acked' \subseteq 1 .. Len(sent')
    <3>1. 1 .. Len(sent) \subseteq 1 .. Len(sent')
      BY <2>2
    <3>2. Len(sent') = Len(sent) + 1 => Len(sent) + 1 \in 1 .. Len(sent')
      BY <2>2
    <3> QED BY <1>16, <2>3, <3>1, <3>2 DEF NotReplaced
  <2>5. request' \in Nat /\ replacements' \in 0 .. MaxAttempts
    BY <1>16, <2>1, ConfigAssumption DEF NotReplaced, SendsFollow
  <2> QED BY <2>3, <2>4, <2>5
<1>17. CASE UNCHANGED vars
  BY <1>17 DEF vars, bot, chain
<1>18. CASE CatchUp
  BY <1>18 DEF CatchUp, bot, Running
<1> QED
  BY <1>1, <1>2, <1>3, <1>4, <1>5, <1>6, <1>7, <1>8, <1>9, <1>10, <1>11, <1>12,
     <1>13, <1>14, <1>15, <1>16, <1>17, <1>18
     DEF Next, Task, Terminated

\* ... and of the receipts.
LEMMA ReceiptsInv == WatchInv /\ [Next]_vars => ReceiptsOK'
<1> SUFFICES ASSUME WatchInv, [Next]_vars PROVE ReceiptsOK'
  OBVIOUS
<1> USE DEF WatchInv, TypeOK, ReceiptsOK
<1>1. CASE NewBlock
  <2>1. Receipts' = Receipts
    BY <1>1 DEF NewBlock, bot, Receipts
  <2>2. head + 1 \in 1 .. MaxBlock
    BY <1>1, BoundsAssumption DEF NewBlock, TaskOK
  <2>3. included' \in Receipts \cup {None}
    BY <1>1, <2>2 DEF NewBlock, Receipts
  <2> QED BY <1>1, <2>1, <2>3 DEF NewBlock, bot
<1>2. CASE Reorganise
  <2>1. Receipts' = Receipts
    BY <1>2 DEF Reorganise, bot, Receipts
  <2>2. included.block \in Nat
    BY <1>2 DEF Reorganise, Receipts
  <2>3. ASSUME NEW b \in included.block + 1 .. head PROVE b \in 1 .. MaxBlock
    BY <2>2, BoundsAssumption DEF TaskOK
  <2>4. included' \in Receipts \cup {None}
    BY <1>2, <2>3 DEF Reorganise, Receipts
  <2> QED BY <1>2, <2>1, <2>4 DEF Reorganise, bot
<1>3. CASE CtrlC
  <2>1. Receipts' = Receipts
    BY <1>3 DEF CtrlC, Receipts, bot
  <2> QED BY <1>3, <2>1 DEF CtrlC, bot, chain
<1>4. CASE Begin
  <2>1. Receipts' = Receipts
    BY <1>4 DEF Begin, Receipts
  <2> QED BY <1>4, <2>1 DEF Begin, chain
<1>5. CASE Shutdown
  <2>1. Receipts' = Receipts
    BY <1>5 DEF Shutdown, Receipts
  <2>2. verdict' = [is |-> "shutdown", on |-> None]
    BY <1>5 DEF Shutdown, End
  <2> QED BY <1>5, <2>1, <2>2 DEF Shutdown, chain
<1>6. CASE Tick
  <2>1. Receipts' = Receipts
    BY <1>6 DEF Tick, Receipts
  <2> QED BY <1>6, <2>1 DEF Tick, chain
<1>7. CASE Lookup
  <2>1. Receipts' = Receipts
    BY <1>7 DEF Lookup, Receipts
  <2>2. PICK receipt \in SeenReceipts :
           /\ found' = receipt
           /\ verdict' \in {verdict, [is |-> "confirmed", on |-> receipt],
                             [is |-> "failed", on |-> receipt]}
    BY <1>7 DEF Lookup, Judge, End
  <2>3. receipt \in Receipts
    BY DEF SeenReceipts
  <2> QED BY <1>7, <2>1, <2>2, <2>3 DEF Lookup, chain
<1>8. CASE Miss
  <2>1. Receipts' = Receipts
    BY <1>8 DEF Miss, Receipts
  <2> QED BY <1>8, <2>1 DEF Miss, chain
<1>9. CASE Depth
  <2>1. Receipts' = Receipts
    BY <1>9 DEF Depth, Receipts
  <2> QED BY <1>9, <2>1 DEF Depth, chain
<1>10. CASE Recheck
  <2>1. Receipts' = Receipts
    BY <1>10 DEF Recheck, Receipts
  <2>2. PICK receipt \in SeenReceipts :
           /\ found' = receipt
           /\ verdict' \in {verdict, [is |-> "confirmed", on |-> receipt],
                             [is |-> "failed", on |-> receipt]}
    BY <1>10 DEF Recheck, Judge, End
  <2>3. receipt \in Receipts
    BY DEF SeenReceipts
  <2> QED BY <1>10, <2>1, <2>2, <2>3 DEF Recheck, chain
<1>11. CASE Disappeared
  <2>1. Receipts' = Receipts
    BY <1>11 DEF Disappeared, Receipts
  <2> QED BY <1>11, <2>1 DEF Disappeared, chain
<1>12. CASE ParentCall
  <2>1. Receipts' = Receipts
    BY <1>12 DEF ParentCall, Receipts
  <2>2. verdict' \in {[is |-> "retry", on |-> found], [is |-> "failed", on |-> found]}
    BY <1>12 DEF ParentCall, End
  <2>3. verdict' \in [is : {"none", "shutdown", "confirmed", "failed", "retry"},
                     on : Receipts \cup {None}]
    BY <2>2
  <2> QED BY <1>12, <2>1, <2>3 DEF ParentCall, chain
<1>13. CASE Age
  <2>1. Receipts' = Receipts
    BY <1>13 DEF Age, Receipts
  <2> QED BY <1>13, <2>1 DEF Age, chain
<1>14. CASE AgeUnknown
  <2>1. Receipts' = Receipts
    BY <1>14 DEF AgeUnknown, Receipts
  <2> QED BY <1>14, <2>1 DEF AgeUnknown, chain
<1>15. CASE Replaced
  <2>1. Receipts \subseteq Receipts'
    BY <1>15, SentGrows, ReceiptsGrow
  <2> QED BY <1>15, <2>1 DEF Replaced, chain
<1>16. CASE NotReplaced
  <2>1. Receipts \subseteq Receipts'
    BY <1>16, SentGrows, ReceiptsGrow
  <2> QED BY <1>16, <2>1 DEF NotReplaced, chain
<1>17. CASE UNCHANGED vars
  <2>1. Receipts' = Receipts
    BY <1>17 DEF vars, bot, Receipts
  <2> QED BY <1>17, <2>1 DEF vars, bot, chain
<1>18. CASE CatchUp
  <2>1. Receipts' = Receipts
    BY <1>18 DEF CatchUp, bot, Receipts
  <2> QED BY <1>18, <2>1 DEF CatchUp, bot
<1> QED
  BY <1>1, <1>2, <1>3, <1>4, <1>5, <1>6, <1>7, <1>8, <1>9, <1>10, <1>11, <1>12,
     <1>13, <1>14, <1>15, <1>16, <1>17, <1>18
     DEF Next, Task, Terminated

\* The transactions follow the counter through every step, ...
LEMMA SendsInv == WatchInv /\ [Next]_vars => SendsFollow'
<1> SUFFICES ASSUME WatchInv, [Next]_vars PROVE SendsFollow'
  OBVIOUS
<1> USE DEF WatchInv, TypeOK, SendsOK, SendsFollow
<1>1. CASE NewBlock
  BY <1>1 DEF NewBlock, bot, chain, Running
<1>2. CASE Reorganise
  BY <1>2 DEF Reorganise, bot, chain, Running
<1>3. CASE CtrlC
  BY <1>3 DEF CtrlC, bot, chain, Running
<1>4. CASE Begin
  BY <1>4 DEF Begin, bot, chain, SeenHeads
<1>5. CASE Shutdown
  BY <1>5 DEF Shutdown, bot, chain, End
<1>6. CASE Tick
  BY <1>6 DEF Tick, bot, chain
<1>7. CASE Lookup
  BY <1>7 DEF Lookup, bot, chain, Judge, End
<1>8. CASE Miss
  BY <1>8 DEF Miss, bot, chain
<1>9. CASE Depth
  BY <1>9 DEF Depth, bot, chain, SeenHeads
<1>10. CASE Recheck
  BY <1>10 DEF Recheck, bot, chain, Judge, End
<1>11. CASE Disappeared
  BY <1>11 DEF Disappeared, bot, chain
<1>12. CASE ParentCall
  BY <1>12 DEF ParentCall, bot, chain, End
<1>13. CASE Age
  <2>1. /\ sent' = sent /\ request' = request /\ acked' = acked
        /\ pc = "age" /\ replacements' \in {replacements, MaxAttempts}
    BY <1>13 DEF Age
  <2>2. pc' = "sleep" \/ (pc' = "send" /\ Bump(request) <= FeeCap /\ replacements' = replacements)
    <3>1. Bump(request) \in Nat /\ FeeCap \in Nat
      BY NextFee, ConfigAssumption
    <3> QED BY ONLY <1>13, <3>1 DEF Age
  <2>3. replacements < MaxAttempts /\ replacements' \in Nat /\ replacements <= replacements'
    BY <2>1, ConfigAssumption
  <2>4. Len(sent') \in 1 .. replacements' + 1
    BY <2>1, <2>3
  <2>5. Bump(request)' = Bump(request)
    BY <2>1 DEF Bump
  <2>6. pc' \notin {"age"} /\ (pc' = "send" => replacements' < MaxAttempts /\ Bump(request)' <= FeeCap)
    BY <2>2, <2>3, <2>5
  <2> QED BY <2>1, <2>3, <2>4, <2>6
<1>14. CASE AgeUnknown
  BY <1>14 DEF AgeUnknown, bot, chain
<1>15. CASE Replaced
  <2> DEFINE new == Bump(request)
  <2>1. new \in Nat /\ request < new /\ new <= FeeCap
    BY <1>15, NextFee DEF Replaced
  <2> HIDE DEF new
  <2>2. /\ sent' = Append(sent, new) /\ request' = new /\ pc' = "sleep"
        /\ acked' = acked \cup {Len(sent) + 1} /\ replacements' = replacements + 1
    BY <1>15 DEF Replaced, new
  <2>3. request = sent[Len(sent)] /\ acked = 1 .. Len(sent)
    BY <1>15 DEF Replaced
  <2>4. Len(sent') = Len(sent) + 1 /\ sent'[Len(sent) + 1] = new
    BY <2>1, <2>2
  <2>5. acked' = 1 .. Len(sent')
    BY <2>2, <2>3, <2>4
  <2>6. /\ \A i, j \in 1 .. Len(sent') : i < j => sent'[i] < sent'[j]
        /\ \A i \in 1 .. Len(sent') : sent'[i] <= FeeCap
    BY <2>1, <2>2, <2>3, FeesRise DEF new
  <2>7. request' \in 1 .. FeeCap /\ Len(sent') \in 1 .. replacements' + 1
    BY <2>1, <2>2, <2>4
  <2> QED BY <2>2, <2>4, <2>5, <2>6, <2>7
<1>16. CASE NotReplaced
  <2> DEFINE new == Bump(request)
  <2>1. new \in Nat /\ request < new /\ new <= FeeCap
    BY <1>16, NextFee DEF NotReplaced
  <2> HIDE DEF new
  <2>2. /\ sent' \in {sent, Append(sent, new)} /\ request' = request /\ pc' = "sleep"
        /\ acked' = acked /\ replacements' = MaxAttempts
    BY <1>16 DEF NotReplaced, new
  <2>3. request = sent[Len(sent)] /\ acked = 1 .. Len(sent)
    BY <1>16 DEF NotReplaced
  <2>4. replacements + 1 <= replacements' /\ replacements' \in Nat
    BY <1>16, <2>2, ConfigAssumption DEF NotReplaced
  <2>5. CASE sent' = sent
    <3>1. Len(sent') \in 1 .. replacements' + 1 /\ 1 .. Len(sent') - 1 \subseteq acked'
      BY <2>2, <2>4, <2>5
    <3> QED BY <2>2, <2>4, <2>5, <3>1
  <2>6. CASE sent' = Append(sent, new)
    <3>1. Len(sent') = Len(sent) + 1 /\ sent'[Len(sent) + 1] = new
      BY <2>1, <2>6
    <3>2. /\ \A i, j \in 1 .. Len(sent') : i < j => sent'[i] < sent'[j]
          /\ \A i \in 1 .. Len(sent') : sent'[i] <= FeeCap
      BY <2>1, <2>3, <2>6, FeesRise DEF new
    <3>3. Len(sent') \in 1 .. replacements' + 1 /\ 1 .. Len(sent') - 1 \subseteq acked'
      BY <2>2, <2>3, <2>4, <3>1
    <3> QED BY <2>2, <2>4, <3>1, <3>2, <3>3
  <2> QED BY <2>2, <2>5, <2>6
<1>17. CASE UNCHANGED vars
  BY <1>17 DEF vars, bot, chain
<1>18. CASE CatchUp
  BY <1>18 DEF CatchUp, bot, Running
<1> QED
  BY <1>1, <1>2, <1>3, <1>4, <1>5, <1>6, <1>7, <1>8, <1>9, <1>10, <1>11, <1>12,
     <1>13, <1>14, <1>15, <1>16, <1>17, <1>18
     DEF Next, Task, Terminated

\* ... and the receipt in hand the chain.
LEMMA FoundInv == WatchInv /\ [Next]_vars => FoundFollows'
<1> SUFFICES ASSUME WatchInv, [Next]_vars PROVE FoundFollows'
  OBVIOUS
<1> USE ConfigAssumption, BoundsAssumption DEF WatchInv, TypeOK, SendsOK, ReceiptsOK, TaskOK, FoundFollows, Receipts, None, TargetBlock, Undecided
<1>1. CASE NewBlock
  BY <1>1 DEF NewBlock, bot, chain, Running
<1>2. CASE Reorganise
  BY <1>2 DEF Reorganise, bot, chain, Running
<1>3. CASE CtrlC
  BY <1>3 DEF CtrlC, bot, chain, Running
<1>4. CASE Begin
  BY <1>4 DEF Begin, bot, chain, SeenHeads
<1>5. CASE Shutdown
  BY <1>5 DEF Shutdown, bot, chain, End
<1>6. CASE Tick
  BY <1>6 DEF Tick, bot, chain
<1>7. CASE Lookup
  BY <1>7 DEF Lookup, bot, chain, Judge, End, SeenReceipts
<1>8. CASE Miss
  BY <1>8 DEF Miss, bot, chain
<1>9. CASE Depth
  BY <1>9 DEF Depth, bot, chain, SeenHeads
<1>10. CASE Recheck
  BY <1>10 DEF Recheck, bot, chain, Judge, End
<1>11. CASE Disappeared
  BY <1>11 DEF Disappeared, bot, chain
<1>12. CASE ParentCall
  BY <1>12 DEF ParentCall, bot, chain, End
<1>13. CASE Age
  BY <1>13 DEF Age, bot, chain, SeenHeads
<1>14. CASE AgeUnknown
  BY <1>14 DEF AgeUnknown, bot, chain
<1>15. CASE Replaced
  BY <1>15 DEF Replaced, bot, chain
<1>16. CASE NotReplaced
  BY <1>16 DEF NotReplaced, bot, chain
<1>17. CASE UNCHANGED vars
  BY <1>17 DEF vars, bot, chain
<1>18. CASE CatchUp
  BY <1>18 DEF CatchUp, bot, Running
<1> QED
  BY <1>1, <1>2, <1>3, <1>4, <1>5, <1>6, <1>7, <1>8, <1>9, <1>10, <1>11, <1>12,
     <1>13, <1>14, <1>15, <1>16, <1>17, <1>18
     DEF Next, Task, Terminated

\* The invariant behind the theorems below.
THEOREM WatchInvHolds == Spec => []WatchInv
<1>1. Init => WatchInv
  <2> SUFFICES ASSUME Init PROVE WatchInv
    OBVIOUS
  <2>1. TaskOK
    <3>1. heard \in BOOLEAN
      BY DEF Init
    <3>2. head \in 1 .. MaxBlock /\ reorgs \in 0 .. MaxReorgs
      BY BoundsAssumption DEF Init
    <3>3. lastBlock \in 0 .. MaxBlock /\ current \in 0 .. MaxBlock
      BY BoundsAssumption DEF Init
    <3> QED BY <3>1, <3>2, <3>3 DEF Init, TaskOK
  <2>2. SendsOK
    BY ConfigAssumption, BoundsAssumption DEF Init, SendsOK
  <2>3. ReceiptsOK
    BY DEF Init, ReceiptsOK, Undecided, None
  <2>4. SendsFollow
    BY ConfigAssumption, BoundsAssumption DEF Init, SendsFollow
  <2>5. FoundFollows
    BY DEF Init, FoundFollows, None
  <2> QED BY <2>1, <2>2, <2>3, <2>4, <2>5 DEF WatchInv, TypeOK
<1>2. WatchInv /\ [Next]_vars => WatchInv'
  BY TaskInv, SendsTypeInv, ReceiptsInv, SendsInv, FoundInv DEF WatchInv, TypeOK
<1> QED BY <1>1, <1>2, PTL DEF Spec

\* Every variable keeps its type.
THEOREM TypeCorrect == Spec => []TypeOK
<1>1. WatchInv => TypeOK
  BY DEF WatchInv
<1> QED BY <1>1, WatchInvHolds, PTL

\* Bounded replacement: fees rise, stay under the cap, and nothing is signed
\* after a transaction whose outcome is unknown.
THEOREM BoundedReplacement == Spec => []ReplacementsStayInBudget
<1>1. WatchInv => ReplacementsStayInBudget
  <2> SUFFICES ASSUME WatchInv PROVE ReplacementsStayInBudget
    OBVIOUS
  <2> USE ConfigAssumption DEF WatchInv, TypeOK, SendsOK, SendsFollow
  <2>1. ASSUME NEW i \in 1 .. Len(sent) \ acked
        PROVE  i = Len(sent) /\ replacements = MaxAttempts
    <3>1. i \notin 1 .. Len(sent) - 1
      BY <2>1
    <3>2. i \in Nat /\ 1 <= i /\ i <= Len(sent) /\ Len(sent) \in Nat
      BY <2>1
    <3>3. i = Len(sent)
      BY <3>1, <3>2
    <3>4. ~(replacements < MaxAttempts)
      BY <2>1
    <3> QED BY <3>3, <3>4
  <2>2. Len(sent) <= MaxAttempts + 1
    OBVIOUS
  <2> QED BY <2>1, <2>2 DEF ReplacementsStayInBudget
<1> QED BY <1>1, WatchInvHolds, PTL

----------------------------------------------------------------------------
\* What is called confirmed succeeded in the chain, or on a branch a provider is
\* still on after the wait, and is deep enough on a chain that did not reorganise.
THEOREM ConfirmedHolds == Spec => []ConfirmedIsTrue
<1>1. Init => ConfirmedIsTrue
  BY DEF Init, ConfirmedIsTrue, Undecided
<1>2. WatchInv /\ ConfirmedIsTrue /\ [Next]_vars => ConfirmedIsTrue'
  <2> SUFFICES ASSUME WatchInv, ConfirmedIsTrue, [Next]_vars
               PROVE  ConfirmedIsTrue'
    OBVIOUS
  <2>1. CASE NewBlock \/ Reorganise \/ CatchUp
    BY <2>1 DEF NewBlock, Reorganise, CatchUp, Running, bot, WatchInv, FoundFollows,
                Undecided, ConfirmedIsTrue
  <2>2. CASE Lookup \/ Recheck
    <3>1. PICK receipt \in SeenReceipts :
             \/ verdict' = verdict
             \/ pc = "lookup" /\ Confirmations = 1 /\ Judge(receipt)
             \/ pc = "recheck" /\ Judge(receipt)
      <4>1. Confirmations > 1 \/ Confirmations = 1
        BY ConfigAssumption
      <4> QED BY ONLY <2>2, <4>1 DEF Lookup, Recheck
    <3>2. pc # "ended" /\ chain' = chain
      BY <2>2 DEF Lookup, Recheck
    <3>3. CASE verdict' = verdict
      BY <3>2, <3>3 DEF chain, WatchInv, FoundFollows, Undecided, ConfirmedIsTrue
    <3>4. CASE /\ Judge(receipt)
               /\ verdict' # verdict
               /\ (pc = "lookup" /\ Confirmations = 1) \/ pc = "recheck"
      <4>1. verdict' \in {[is |-> "failed", on |-> receipt],
                           [is |-> "confirmed", on |-> receipt]}
        BY <3>4 DEF Judge, End
      <4>2. verdict'.is = "confirmed" => receipt.status = "success"
        BY <3>4 DEF Judge, End
      <4>3. reorgs = 0 => receipt = included
        BY DEF SeenReceipts, WatchInv, FoundFollows
      <4>4. reorgs = 0 => head - receipt.block + 1 >= Confirmations
        <5>1. receipt # None /\ receipt \in Receipts
          BY DEF SeenReceipts, WatchInv, TypeOK, ReceiptsOK
        <5>2. receipt.block \in Nat /\ head \in Nat /\ Confirmations \in Nat \ {0}
          BY <5>1, ConfigAssumption, BoundsAssumption
             DEF Receipts, WatchInv, TypeOK, TaskOK
        <5>3. CASE pc = "lookup" /\ Confirmations = 1
          BY <4>3, <5>1, <5>2, <5>3 DEF WatchInv, FoundFollows
        <5>4. CASE pc = "recheck"
          BY <4>3, <5>2, <5>4 DEF WatchInv, FoundFollows, TargetBlock
        <5> QED BY <3>4, <5>3, <5>4
      <4> QED BY <3>2, <4>1, <4>2, <4>3, <4>4 DEF SeenReceipts, chain, ConfirmedIsTrue
    <3> QED BY <3>1, <3>3, <3>4
  <2>4. CASE Shutdown \/ ParentCall
    <3>1. \/ verdict' = [is |-> "shutdown", on |-> None]
          \/ verdict' \in {[is |-> "retry", on |-> found], [is |-> "failed", on |-> found]}
      BY ONLY <2>4 DEF Shutdown, ParentCall, End
    <3>2. verdict'.is # "confirmed"
      BY ONLY <3>1
    <3> QED BY <3>2 DEF ConfirmedIsTrue
  <2>5. CASE \/ CtrlC \/ Begin \/ Tick \/ Miss \/ Depth \/ Disappeared \/ Age
             \/ AgeUnknown \/ Replaced \/ NotReplaced
    BY <2>5 DEF CtrlC, Begin, Tick, Miss, Depth, Disappeared, Age, AgeUnknown,
                Replaced, NotReplaced, chain, bot, ConfirmedIsTrue
  <2>6. CASE UNCHANGED vars
    BY <2>6 DEF vars, chain, bot, ConfirmedIsTrue
  <2> QED BY <2>1, <2>2, <2>4, <2>5, <2>6 DEF Next, Task, Terminated
<1> QED BY <1>1, <1>2, WatchInvHolds, PTL DEF Spec
=============================================================================
