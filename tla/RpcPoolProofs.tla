--------------------------- MODULE RpcPoolProofs ---------------------------
(***************************************************************************)
(* Proofs about RpcPool, for any set of providers and liars: what the      *)
(* verdict on a broadcast, an aggregated read and the chain check can be   *)
(* relied on for.                                                          *)
(***************************************************************************)
EXTENDS RpcPool, TLAPS

\* A provider's answer agrees with its node, a node keeps what it has, and a
\* transaction that is at some node was acknowledged or got there unnoticed,
\* over a request that was given up.
SendFollows ==
    /\ \A e \in Endpoints :
          /\ reply[e] \in B!Acks => node[e] = "has it"
          /\ reply[e] \in {"rejected", "misread", "wrong hash"} => node[e] # "not reached"
    /\ B!Taken # {} /\ verdict = "none" =>
          \E e \in pool : reply[e] \in B!Acks \cup {"timeout", "transport error"}

\* What the caller made of the answers.
VerdictFollows ==
    /\ \A e \in joined : reply[e] \in {"wrong hash", "timeout"} => ambiguous
    /\ verdict = "none" => \A e \in joined : reply[e] \notin B!Acks \cup {"misread"}
    /\ verdict = "accepted" => B!Taken # {} \/ \E e \in joined : reply[e] = "misread"
    /\ verdict = "rejected" =>
          /\ \A e \in pool : reply[e] \in {"rejected", "transport error"}
          /\ (\A e \in pool : reply[e] # "transport error") => B!Taken = {}

\* Where the bot is in its use of the pool.
StageFollows ==
    /\ stage = "connecting" => B!Unsent
    /\ stage # "reading" => R!Idle
    /\ stage = "reading" => op # "none"

\* What a provider can have answered: one that had the transaction counts it,
\* and an honest one does not lie about a block it knows.
AnswersFollow ==
    /\ answer = [e \in Endpoints |-> answer[e]]
    /\ op = "nonce" => \A e \in Endpoints :
          /\ answer[e] \in {Failed, Unanswered, 1} \cup (IF e \in knew THEN {} ELSE {0})
          /\ e \in knew => node[e] = "has it"
    /\ op = "view" => \A e \in Endpoints :
          answer[e] \in {Failed, Unanswered, IF e \in Liars THEN "lie" ELSE "open"}

\* A read is over when everybody was heard; a critical one also when everybody
\* who answered was.
ReadFollows ==
    /\ phase = "settling" => R!IsCritical
    /\ phase = "done" => \A e \in readers :
          /\ answer[e] # Unanswered => e \in heard
          /\ ~R!IsCritical => e \in heard

PoolInv == /\ TypeOK /\ PoolIsOnChain /\ SendFollows /\ VerdictFollows
           /\ StageFollows /\ AnswersFollow /\ ReadFollows

USE DEF B!Acks, B!Taken, B!Replies, B!Awaited

----------------------------------------------------------------------------
(* The broadcast.                                                          *)

SendInv == B!TypeOK /\ SendFollows /\ VerdictFollows

\* An answer that was not there before leaves every other answer as it was.
LEMMA ArriveInv ==
  ASSUME SendInv, NEW e \in pool, B!Arrive(e), pool' = pool
  PROVE  SendInv'
<1> USE DEF SendInv, B!TypeOK
<1>1. B!TypeOK'
  BY DEF B!Arrive
<1>2. \A d \in Endpoints : node[d] = "has it" => node'[d] = "has it"
  BY DEF B!Arrive
<1>3. SendFollows'
  <2>1. \A d \in Endpoints :
           /\ reply'[d] \in B!Acks => node'[d] = "has it"
           /\ reply'[d] \in {"rejected", "misread", "wrong hash"} => node'[d] # "not reached"
    BY DEF B!Arrive, SendFollows
  <2>2. ASSUME node'[e] = "has it", verdict = "none"
        PROVE  reply'[e] \in B!Acks \cup {"timeout", "transport error"}
    BY <2>2 DEF B!Arrive, SendFollows
  <2>3. ASSUME node'[e] # "has it" PROVE B!Taken' = B!Taken
    BY <2>3 DEF B!Arrive
  <2>4. \A d \in Endpoints : d # e \/ reply[d] # "none" => reply'[d] = reply[d]
    BY DEF B!Arrive
  <2>5. verdict' = verdict
    BY DEF B!Arrive
  <2> QED BY <2>1, <2>2, <2>3, <2>4, <2>5 DEF SendFollows
<1>4. VerdictFollows'
  <2>1. \A d \in Endpoints : reply[d] # "none" => reply'[d] = reply[d]
    BY DEF B!Arrive
  <2>2. verdict' = verdict /\ joined' = joined /\ ambiguous' = ambiguous
    BY DEF B!Arrive
  <2>3. ASSUME verdict = "rejected", \A d \in pool : reply[d] # "transport error"
        PROVE  FALSE
    BY <2>3 DEF B!Arrive, SendFollows, VerdictFollows
  <2> QED BY <1>2, <2>1, <2>2, <2>3 DEF VerdictFollows
<1> QED BY <1>1, <1>3, <1>4

LEMMA GossipInv ==
  ASSUME SendInv, NEW e \in Endpoints, B!Gossip(e), pool' = pool
  PROVE  SendInv'
<1> USE DEF SendInv, B!TypeOK
<1>1. B!TypeOK'
  BY DEF B!Gossip
<1>2. SendFollows'
  BY DEF B!Gossip, SendFollows
<1>3. VerdictFollows'
  <2>1. \A d \in Endpoints : reply[d] # "none" => reply'[d] = reply[d]
    BY DEF B!Gossip
  <2>2. verdict' = verdict /\ joined' = joined /\ ambiguous' = ambiguous
    BY DEF B!Gossip
  <2>3. B!Taken # {} /\ B!Taken' # {}
    BY DEF B!Gossip
  <2> QED BY <2>1, <2>2, <2>3 DEF VerdictFollows
<1> QED BY <1>1, <1>2, <1>3

LEMMA LostInv ==
  ASSUME SendInv, NEW e \in pool, B!Timeout(e) \/ B!Break(e), pool' = pool
  PROVE  SendInv'
<1> USE DEF SendInv, B!TypeOK
<1>1. B!TypeOK'
  BY DEF B!Timeout, B!Break
<1>2. SendFollows'
  BY DEF B!Timeout, B!Break, SendFollows
<1>3. VerdictFollows'
  BY DEF B!Timeout, B!Break, VerdictFollows
<1> QED BY <1>1, <1>2, <1>3

LEMMA JoinInv ==
  ASSUME SendInv, NEW e \in pool, B!Join(e), pool' = pool
  PROVE  SendInv'
<1> USE DEF SendInv, B!TypeOK, B!Joinable, B!IsAck, B!IsAmbiguous
<1>1. B!TypeOK'
  BY DEF B!Join
<1>2. SendFollows'
  BY DEF B!Join, SendFollows
<1>3. VerdictFollows'
  BY DEF B!Join, SendFollows, VerdictFollows
<1> QED BY <1>1, <1>2, <1>3

LEMMA GiveUpInv ==
  ASSUME SendInv, B!GiveUp, pool' = pool
  PROVE  SendInv'
<1> USE DEF SendInv, B!TypeOK
<1>1. B!TypeOK'
  BY DEF B!GiveUp
<1>2. SendFollows'
  BY DEF B!GiveUp, SendFollows
<1>3. VerdictFollows'
  BY DEF B!GiveUp, SendFollows, VerdictFollows
<1> QED BY <1>1, <1>2, <1>3

\* What holds of a broadcast holds after every step of it, ...
LEMMA BroadcastInv ==
  ASSUME SendInv, B!Next
  PROVE  SendInv'
<1>1. pool \subseteq Endpoints
  BY DEF SendInv, B!TypeOK
<1> QED BY <1>1, ArriveInv, GossipInv, LostInv, JoinInv, GiveUpInv DEF B!Next

\* ... and does not depend on anything else.
LEMMA SendFrame ==
  ASSUME SendInv, UNCHANGED sendVars
  PROVE  SendInv'
BY DEF SendInv, sendVars, B!TypeOK, SendFollows, VerdictFollows

----------------------------------------------------------------------------
(* The pool and its reads.                                                 *)

USE DEF sendVars, readVars, chainVars, worldVars, R!IsCritical, R!Running, R!Values

\* The steps of the pool that leave the broadcast alone.
Quiet == \/ Reconnect \/ SilentReconnect \/ ReadChain \/ Send \/ ReadNonce \/ ReadStep
         \/ \E e \in Http : Follows(e) \/ Answers(e)

LEMMA QuietLeavesBroadcast == Quiet => UNCHANGED sendVars
BY DEF Quiet, Reconnect, SilentReconnect, ReadChain, Send, ReadNonce, ReadStep, Follows, Answers

\* Every step keeps what holds of the broadcast.
LEMMA SendPart == PoolInv /\ [Next]_vars => SendInv'
<1> SUFFICES ASSUME PoolInv, [Next]_vars PROVE SendInv'
  OBVIOUS
<1>1. SendInv
  BY DEF PoolInv, SendInv, TypeOK
<1>2. CASE ValidateChain
  <2>1. B!Unsent /\ B!Unsent'
    BY <1>2 DEF ValidateChain, PoolInv, StageFollows, B!Unsent
  <2>2. pool' \subseteq Endpoints
    BY <1>1, <1>2, PoolAssumption DEF ValidateChain, SendInv, B!TypeOK, Http
  <2>3. B!TypeOK'
    BY <2>1, <2>2 DEF B!TypeOK, B!Unsent
  <2> QED BY <2>1, <2>3 DEF SendInv, SendFollows, VerdictFollows, B!Unsent
<1>3. CASE Broadcasts
  BY <1>1, <1>3, BroadcastInv DEF Broadcasts
<1>4. CASE Quiet \/ UNCHANGED vars
  BY <1>1, <1>4, QuietLeavesBroadcast, SendFrame DEF vars
<1> QED BY <1>2, <1>3, <1>4 DEF Next, Quiet

\* Nothing is sent before the chain check, and nothing is read but while reading.
LEMMA StagePart == PoolInv /\ [Next]_vars => StageFollows'
<1> SUFFICES ASSUME PoolInv, [Next]_vars PROVE StageFollows'
  OBVIOUS
<1> USE DEF PoolInv, StageFollows, R!Idle
<1>1. CASE ValidateChain
  BY <1>1 DEF ValidateChain
<1>2. CASE Reconnect \/ SilentReconnect \/ Send
  BY <1>2 DEF Reconnect, SilentReconnect, Send
<1>3. CASE ReadChain \/ ReadNonce
  BY <1>3 DEF ReadChain, ReadNonce, R!Ask
<1>4. CASE Broadcasts
  BY <1>4 DEF Broadcasts
<1>5. CASE ReadStep
  BY <1>5 DEF ReadStep, R!Deadline, R!Hear, R!Fail, R!Answer
<1>6. ASSUME NEW e \in Http, Follows(e) \/ Answers(e) PROVE StageFollows'
  BY <1>6 DEF Follows, Answers, R!Answer
<1>7. CASE UNCHANGED vars
  BY <1>7 DEF vars, B!Unsent
<1> QED BY <1>1, <1>2, <1>3, <1>4, <1>5, <1>6, <1>7 DEF Next

\* Only providers that report the configured chain stay in the pool.
LEMMA ChainPart == PoolInv /\ [Next]_vars => PoolIsOnChain'
<1> SUFFICES ASSUME PoolInv, [Next]_vars PROVE PoolIsOnChain'
  OBVIOUS
<1>1. /\ PoolIsOnChain /\ pool \subseteq Endpoints /\ readers = pool \ {Ws}
      /\ reports \in [Endpoints -> Reports]
  BY DEF PoolInv, TypeOK, B!TypeOK
<1> USE <1>1, PoolAssumption DEF PoolIsOnChain
<1>2. CASE ValidateChain
  BY <1>2 DEF ValidateChain, PassesCheck, Http
<1>3. CASE Reconnect \/ SilentReconnect
  BY <1>3 DEF Reconnect, SilentReconnect
<1>4. CASE ReadChain \/ ReadNonce \/ Send
  <2>1. /\ UNCHANGED <<pool, readers, reports, restored>>
        /\ stage \notin {"connecting", "failed"}
    BY <1>4 DEF ReadChain, ReadNonce, Send
  <2> QED BY <2>1
<1>5. CASE Broadcasts
  BY <1>5 DEF Broadcasts, B!Next
<1>6. CASE ReadStep \/ \E e \in Http : Follows(e) \/ Answers(e)
  BY <1>6 DEF ReadStep, Follows, Answers
<1>7. CASE UNCHANGED vars
  BY <1>7 DEF vars
<1> QED BY <1>2, <1>3, <1>4, <1>5, <1>6, <1>7 DEF Next

\* What is asked, heard and known keeps its type.
LEMMA TypePart == PoolInv /\ [Next]_vars => TypeOK'
<1> SUFFICES ASSUME PoolInv, [Next]_vars PROVE TypeOK'
  OBVIOUS
<1>1. B!TypeOK'
  BY SendPart DEF SendInv
<1>2. B!TypeOK /\ answer = [e \in Endpoints |-> answer[e]]
  BY DEF PoolInv, TypeOK, AnswersFollow
<1> USE <1>1 DEF PoolInv, TypeOK
<1>3. CASE ValidateChain
  <2>1. readers' = pool' \ {Ws}
    BY <1>3, PoolAssumption DEF ValidateChain, Http
  <2>2. heard' = {} /\ phase' = "idle" /\ op' = "none"
    BY <1>3 DEF ValidateChain, StageFollows, R!Idle
  <2> QED BY <1>3, <2>1, <2>2 DEF ValidateChain
<1>4. CASE Reconnect \/ SilentReconnect \/ Send
  <2>1. reports' \in [Endpoints -> Reports]
    BY <1>4, PoolAssumption DEF Reconnect, SilentReconnect, Send, Reports
  <2> QED BY <1>4, <2>1 DEF Reconnect, SilentReconnect, Send
<1>5. CASE ReadChain \/ ReadNonce
  BY <1>2, <1>5 DEF ReadChain, ReadNonce, R!Ask
<1>6. CASE Broadcasts
  BY <1>6 DEF Broadcasts, B!Next
<1>7. CASE R!Deadline /\ ReadStep
  BY <1>7 DEF ReadStep, R!Deadline
<1>8. ASSUME NEW e \in Http, R!Hear(e), ReadStep PROVE TypeOK'
  <2>1. heard' \subseteq {d \in readers : answer[d] # Unanswered}
    BY <1>8 DEF R!Hear, R!Ready
  <2>2. phase' \in {"waiting", "settling", "done"}
    BY <1>8 DEF R!Hear
  <2>3. phase' = "settling" => R!Values' # {} /\ R!IsCritical'
    BY <1>8 DEF R!Hear, R!Ready
  <2> QED BY <1>8, <2>1, <2>2, <2>3 DEF ReadStep, R!Hear
<1>9. ASSUME NEW e \in Http, NEW v, R!Answer(e, v),
             UNCHANGED <<sendVars, chainVars, worldVars>>
      PROVE  TypeOK'
  <2>1. e \notin heard /\ \A d \in Endpoints \ {e} : answer'[d] = answer[d]
    BY <1>2, <1>9 DEF R!Answer
  <2>2. answer'[e] = v \/ answer' = answer
    BY <1>2, <1>9 DEF R!Answer, Http
  <2>3. \A d \in heard : answer'[d] = answer[d]
    BY <1>2, <2>1 DEF B!TypeOK
  <2>4. R!Values' = R!Values
    BY <1>9, <2>3 DEF R!Answer
  <2>5. heard' \subseteq {d \in readers' : answer'[d] # Unanswered}
    BY <1>9, <2>3 DEF R!Answer
  <2> QED BY <1>9, <2>4, <2>5 DEF R!Answer
<1>10. ASSUME NEW e \in Http, Follows(e) PROVE TypeOK'
  BY <1>10 DEF Follows
<1>11. CASE UNCHANGED vars
  BY <1>11 DEF vars
<1> QED
  BY <1>3, <1>4, <1>5, <1>6, <1>7, <1>8, <1>9, <1>10, <1>11
     DEF Next, ReadStep, Answers, R!Fail

\* Providers answer from what their nodes hold.
LEMMA AnswersPart == PoolInv /\ [Next]_vars => AnswersFollow'
<1> SUFFICES ASSUME PoolInv, [Next]_vars PROVE AnswersFollow'
  OBVIOUS
<1>1. AnswersFollow /\ StageFollows /\ B!TypeOK /\ TypeOK
  BY DEF PoolInv, TypeOK
<1>2. CASE ValidateChain
  BY <1>1, <1>2 DEF ValidateChain, AnswersFollow, StageFollows, R!Idle
<1>3. CASE Reconnect \/ SilentReconnect \/ Send
  BY <1>1, <1>3 DEF Reconnect, SilentReconnect, Send, AnswersFollow
<1>4. CASE ReadChain \/ ReadNonce
  <2>1. answer' = [e \in Endpoints |-> Unanswered]
    BY <1>1, <1>4 DEF ReadChain, ReadNonce, R!Ask, StageFollows, R!Idle
  <2>2. op' = "nonce" => knew' = B!Taken /\ node' = node
    BY <1>4 DEF ReadChain, ReadNonce, R!Ask
  <2> QED BY <2>1, <2>2 DEF AnswersFollow
<1>5. CASE Broadcasts
  <2>1. \A e \in Endpoints : node[e] = "has it" => node'[e] = "has it"
    BY <1>1, <1>5 DEF Broadcasts, B!Next, B!Arrive, B!Gossip, B!Timeout, B!Break,
                      B!Join, B!GiveUp, B!TypeOK
  <2> QED BY <1>1, <1>5, <2>1 DEF Broadcasts, AnswersFollow
<1>6. ASSUME NEW e \in Http, NEW v, R!Answer(e, v), UNCHANGED <<sendVars, worldVars>>,
             op = "nonce" => v \in NonceOf(e) \cup {Failed},
             op = "view" => v \in ViewOf(e) \cup {Failed}
      PROVE  AnswersFollow'
  <2>1. answer' = [answer EXCEPT ![e] = v] /\ op' = op
    BY <1>6 DEF R!Answer
  <2>2. answer' = [d \in Endpoints |-> IF d = e THEN v ELSE answer[d]]
    BY <1>1, <2>1 DEF AnswersFollow
  <2>3. CASE op = "nonce"
    BY <1>1, <1>6, <2>1, <2>2, <2>3 DEF AnswersFollow, NonceOf
  <2>4. CASE op = "view"
    <3>1. v \in {Failed, Unanswered, IF e \in Liars THEN "lie" ELSE "open"}
      BY <1>1, <1>6, <2>4 DEF ViewOf, TypeOK, Heads, Http
    <3> QED BY <1>1, <1>6, <2>1, <2>2, <2>4, <3>1 DEF AnswersFollow
  <2>5. CASE op \notin {"nonce", "view"}
    BY <2>1, <2>2, <2>5 DEF AnswersFollow
  <2> QED BY <2>3, <2>4, <2>5
<1>7. CASE ReadStep
  <2>1. CASE \E e \in Http : R!Fail(e)
    BY <1>6, <1>7, <2>1 DEF ReadStep, R!Fail
  <2>2. CASE R!Deadline \/ \E e \in Http : R!Hear(e)
    BY <1>1, <1>7, <2>2 DEF ReadStep, R!Deadline, R!Hear, AnswersFollow
  <2> QED BY <1>7, <2>1, <2>2 DEF ReadStep
<1>8. ASSUME NEW e \in Http, Answers(e) PROVE AnswersFollow'
  <2>1. PICK v \in CASE op = "nonce" -> NonceOf(e)
                     [] op = "view" -> ViewOf(e)
                     [] OTHER -> BlocksOf(e) : R!Answer(e, v)
    BY <1>8 DEF Answers
  <2>2. op = "nonce" => v \in NonceOf(e)
    BY <2>1
  <2>3. op = "view" => v \in ViewOf(e)
    BY <2>1
  <2> QED BY <1>6, <1>8, <2>1, <2>2, <2>3 DEF Answers
<1>9. ASSUME NEW e \in Http, Follows(e) PROVE AnswersFollow'
  BY <1>1, <1>9 DEF Follows, AnswersFollow
<1>10. CASE UNCHANGED vars
  BY <1>1, <1>10 DEF vars, AnswersFollow
<1> QED BY <1>2, <1>3, <1>4, <1>5, <1>7, <1>8, <1>9, <1>10 DEF Next

\* A read returns with every answer it has.
LEMMA ReadPart == PoolInv /\ [Next]_vars => ReadFollows'
<1> SUFFICES ASSUME PoolInv, [Next]_vars PROVE ReadFollows'
  OBVIOUS
<1>1. ReadFollows /\ StageFollows /\ TypeOK
  BY DEF PoolInv
<1> USE <1>1 DEF ReadFollows
<1>2. CASE ValidateChain
  BY <1>2 DEF ValidateChain, StageFollows, R!Idle
<1>3. CASE Reconnect \/ SilentReconnect \/ Send
  BY <1>3 DEF Reconnect, SilentReconnect, Send
<1>4. CASE ReadChain \/ ReadNonce
  BY <1>4 DEF ReadChain, ReadNonce, R!Ask
<1>5. CASE Broadcasts
  BY <1>5 DEF Broadcasts, B!Next, TypeOK
<1>6. CASE ReadStep /\ R!Deadline
  BY <1>6 DEF ReadStep, R!Deadline, R!Ready
<1>7. ASSUME NEW e \in Http, ReadStep, R!Hear(e) PROVE ReadFollows'
  BY <1>7 DEF ReadStep, R!Hear, R!Ready
<1>8. ASSUME NEW e \in Http, NEW v, R!Answer(e, v), readers' = readers PROVE ReadFollows'
  BY <1>8 DEF R!Answer
<1>9. ASSUME NEW e \in Http, Follows(e) PROVE ReadFollows'
  BY <1>9 DEF Follows
<1>10. CASE UNCHANGED vars
  BY <1>10 DEF vars
<1> QED
  BY <1>2, <1>3, <1>4, <1>5, <1>6, <1>7, <1>8, <1>9, <1>10
     DEF Next, ReadStep, Answers, R!Fail

----------------------------------------------------------------------------
(* The theorems.                                                           *)

LEMMA InitInv == Init => PoolInv
<1> SUFFICES ASSUME Init PROVE PoolInv
  OBVIOUS
<1> USE DEF Init, B!Unsent, R!Idle
<1>1. TypeOK
  BY DEF TypeOK, B!TypeOK, Reports, Heads
<1>2. PoolIsOnChain /\ SendFollows /\ VerdictFollows
  BY DEF PoolIsOnChain, SendFollows, VerdictFollows
<1>3. StageFollows /\ AnswersFollow /\ ReadFollows
  BY DEF StageFollows, AnswersFollow, ReadFollows
<1> QED BY <1>1, <1>2, <1>3 DEF PoolInv

\* What the pool relies on holds throughout.
THEOREM PoolInvHolds == Spec => []PoolInv
<1>1. PoolInv /\ [Next]_vars => PoolInv'
  BY SendPart, StagePart, ChainPart, TypePart, AnswersPart, ReadPart DEF PoolInv, SendInv
<1> QED BY InitInv, <1>1, PTL DEF Spec

\* The pool's state is well-formed; its broadcast list is the WebSocket and the
\* providers it reads from.
THEOREM TypeCorrect == Spec => []TypeOK
<1>1. PoolInv => TypeOK
  BY DEF PoolInv
<1> QED BY PoolInvHolds, <1>1, PTL

\* What broadcast_raw makes of the answers is true, for any set of providers.
THEOREM VerdictHolds == Spec => []VerdictIsTrue
<1>1. PoolInv => VerdictIsTrue
  <2> SUFFICES ASSUME PoolInv PROVE B!VerdictIsTrue
    BY DEF VerdictIsTrue
  <2>1. SendFollows /\ VerdictFollows /\ B!TypeOK
    BY DEF PoolInv, TypeOK
  <2>2. verdict = "accepted" => B!Taken # {} \/ \E e \in joined : reply[e] = "misread"
    BY <2>1 DEF VerdictFollows
  <2>3. ASSUME verdict = "rejected", \A e \in pool : reply[e] # "transport error"
        PROVE  B!Taken = {} /\ \A e \in pool : node[e] = "refused it"
    <3>1. B!Taken = {} /\ \A e \in pool : reply[e] = "rejected"
      BY <2>1, <2>3 DEF VerdictFollows
    <3>2. \A e \in Endpoints : node[e] # "has it"
      BY <3>1
    <3> QED BY <2>1, <3>1, <3>2 DEF SendFollows, B!TypeOK
  <2> QED BY <2>2, <2>3 DEF B!VerdictIsTrue
<1> QED BY PoolInvHolds, <1>1, PTL

\* Nothing is sent to or read from an endpoint on another chain, except over a
\* WebSocket connection that alloy restored since the last chain check.
THEOREM PoolStaysOnChain == Spec => []PoolIsOnChain
<1>1. PoolInv => PoolIsOnChain
  BY DEF PoolInv
<1> QED BY PoolInvHolds, <1>1, PTL

\* Only a provider that answered late or not at all can hide an accepted
\* transaction from the next nonce.
THEOREM StaleNonce == Spec => []StaleNonceIsUnheard
<1>1. PoolInv => StaleNonceIsUnheard
  <2> SUFFICES ASSUME PoolInv, phase = "done", op = "nonce", Outcome = 0,
                      NEW e \in knew \cap readers, answer[e] \notin {Unanswered, Failed}
               PROVE  FALSE
    BY DEF StaleNonceIsUnheard
  <2>1. ReadFollows /\ AnswersFollow /\ readers \subseteq Endpoints /\ heard \subseteq readers
    BY DEF PoolInv, TypeOK, B!TypeOK
  <2>2. answer[e] = 1 /\ e \in heard
    BY <2>1 DEF AnswersFollow, ReadFollows
  <2>3. 1 \in R!Values
    BY <2>2, OutcomesAssumption
  <2>4. R!Values \subseteq {0, 1}
    BY <2>1 DEF AnswersFollow, TypeOK, PoolInv
  <2>5. R!Highest \in R!Values /\ \A w \in R!Values : w <= R!Highest
    BY <2>3, <2>4 DEF R!Highest
  <2>6. Outcome = R!Highest
    BY <2>3 DEF Outcome, R!ReadFailed
  <2> QED BY <2>3, <2>4, <2>5, <2>6
<1> QED BY PoolInvHolds, <1>1, PTL

\* Providers that lag or follow another branch never spoil a view call, and a
\* lie needs all the honest ones to stay silent or fail.
THEOREM TrustworthyView == Spec => []ViewIsTrustworthy
<1>1. PoolInv => ViewIsTrustworthy
  <2> SUFFICES ASSUME PoolInv, phase = "done", op = "view"
               PROVE  /\ Outcome = "conflict" => heard \cap Liars # {}
                      /\ Outcome = "lie" =>
                            \A e \in readers \ Liars : answer[e] \in {Unanswered, Failed}
                      /\ Outcome # "closed"
    BY DEF ViewIsTrustworthy
  <2>1. /\ ReadFollows /\ AnswersFollow /\ readers \subseteq Endpoints
        /\ heard \subseteq {e \in readers : answer[e] # Unanswered}
    BY DEF PoolInv, TypeOK, B!TypeOK
  <2>2. \A e \in Endpoints :
           answer[e] \in {Failed, Unanswered, IF e \in Liars THEN "lie" ELSE "open"}
    BY <2>1 DEF AnswersFollow
  <2>3. R!Values \subseteq {"open", "lie"}
    BY <2>1, <2>2
  <2> HIDE DEF R!Values
  <2>4. CASE R!Values = {}
    <3>1. Outcome = Failed
      <4>1. R!ReadFailed
        BY <2>4 DEF R!ReadFailed
      <4> QED BY <4>1 DEF Outcome
    <3> QED BY <3>1, OutcomesAssumption
  <2>5. R!Values # {} => Outcome = R!Agreed
    BY DEF Outcome, R!ReadFailed
  <2>6. CASE R!Values = {"open"}
    <3>1. R!Agreed = "open"
      BY <2>6 DEF R!Agreed
    <3> QED BY <2>6, <2>5, <3>1
  <2>7. CASE R!Values = {"lie"}
    <3>1. R!Agreed = "lie"
      BY <2>7 DEF R!Agreed
    <3>2. Outcome = "lie"
      BY <2>7, <2>5, <3>1
    <3>3. ASSUME NEW e \in readers \ Liars, answer[e] \notin {Unanswered, Failed}
          PROVE  FALSE
      <4>1. answer[e] = "open" /\ e \in heard
        BY <2>1, <2>2, <3>3 DEF ReadFollows
      <4> QED BY <2>7, <4>1, OutcomesAssumption DEF R!Values
    <3> QED BY <3>2, <3>3
  <2>8. CASE R!Values = {"open", "lie"}
    <3>1. R!Agreed = "conflict"
      BY <2>8 DEF R!Agreed
    <3>2. Outcome = "conflict"
      BY <2>8, <2>5, <3>1
    <3>3. PICK e \in heard : answer[e] = "lie"
      BY <2>8 DEF R!Values
    <3> QED BY <2>1, <2>2, <3>2, <3>3, OutcomesAssumption
  <2> QED BY <2>3, <2>4, <2>6, <2>7, <2>8
<1> QED BY PoolInvHolds, <1>1, PTL

\* No log and no receipt that a provider gave is missing from the result.
THEOREM NothingOverlooked == Spec => []NothingIsOverlooked
<1>1. PoolInv => NothingIsOverlooked
  <2> SUFFICES ASSUME PoolInv, phase = "done", op \in {"logs", "receipt"},
                      NEW e \in readers
               PROVE  /\ answer[e] # Unanswered
                      /\ answer[e] = Failed \/ answer[e] \subseteq Outcome
    BY DEF NothingIsOverlooked
  <2>1. e \in heard /\ answer[e] # Unanswered
    BY DEF PoolInv, TypeOK, ReadFollows
  <2>2. ASSUME answer[e] # Failed PROVE answer[e] \subseteq Outcome
    <3>1. answer[e] \in R!Values
      BY <2>1, <2>2
    <3>2. Outcome = R!Merged
      BY <3>1 DEF Outcome, R!ReadFailed
    <3> QED BY <3>1, <3>2 DEF R!Merged
  <2> QED BY <2>1, <2>2
<1> QED BY PoolInvHolds, <1>1, PTL
=============================================================================
