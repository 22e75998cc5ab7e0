------------------------- MODULE WalletNonceProofs -------------------------
(***************************************************************************)
(* Proofs about WalletNonce, for any set of bots, any strategies and any   *)
(* bounds: its type invariant, the lock's mutual exclusion, and the two    *)
(* nonce properties, from one inductive invariant.                         *)
(***************************************************************************)
EXTENDS WalletNonce, TLAPS

USE DEF NoNonce, Nonces, Strategies, Places, Critical

\* Every variable keeps its type, whatever the bots and the chain do.
THEOREM TypeCorrect == Spec => []TypeOK
<1>1. Init => TypeOK
  BY DEF Init, TypeOK
<1>2. TypeOK /\ [Next]_vars => TypeOK'
  <2> SUFFICES ASSUME TypeOK, [Next]_vars PROVE TypeOK'
    OBVIOUS
  <2> USE DEF TypeOK
  <2>0. \A n \in Answers : n \in Nat /\ n <= pending
    BY DEF Answers
  <2>1. ASSUME NEW b \in Bots, Start(b) PROVE TypeOK'
    BY <2>0, <2>1 DEF Start, chainVars
  <2>2. ASSUME NEW b \in Bots, StartArmedRefresh(b) PROVE TypeOK'
    BY <2>0, <2>2 DEF StartArmedRefresh, chainVars
  <2>3. ASSUME NEW b \in Bots, FinishArmedRefresh(b) PROVE TypeOK'
    BY <2>3 DEF FinishArmedRefresh, chainVars
  <2>4. ASSUME NEW b \in Bots, AskLock(b) PROVE TypeOK'
    BY <2>4 DEF AskLock, chainVars
  <2>5. ASSUME NEW b \in Bots, NEW w \in BOOLEAN, Granted(b, w) PROVE TypeOK'
    <3>1. RefreshNonce(b, w) \in BOOLEAN /\ (owed[b] \/ w) \in BOOLEAN
      BY DEF RefreshNonce, UsesCachedNonce
    <3> QED BY <2>5, <3>1 DEF Granted, chainVars
  <2>6. ASSUME NEW b \in Bots, WouldBlock(b) PROVE TypeOK'
    BY <2>6 DEF WouldBlock, chainVars
  <2>7. ASSUME NEW b \in Bots, ReadNonce(b) PROVE TypeOK'
    BY <2>0, <2>7 DEF ReadNonce, chainVars
  <2>8. ASSUME NEW b \in Bots, RefreshFieldsNow(b) PROVE TypeOK'
    BY <2>0, <2>8 DEF RefreshFieldsNow, chainVars
  <2>9. ASSUME NEW b \in Bots, PrepareReady(b) PROVE TypeOK'
    <3>1. (owed[b] /\ ~refreshing[b]) \in BOOLEAN
      OBVIOUS
    <3> QED BY <2>9, <3>1 DEF PrepareReady, chainVars
  <2>10. ASSUME NEW b \in Bots, PrepareNotReady(b) PROVE TypeOK'
    BY <2>10 DEF PrepareNotReady, Release, chainVars
  <2>11. ASSUME NEW b \in Bots, Sign(b) PROVE TypeOK'
    BY <2>11 DEF Sign, chainVars
  <2>12. ASSUME NEW b \in Bots, Acknowledged(b) PROVE TypeOK'
    <3>1. acked' \subseteq Submissions
      <4>1. (request[b] < mined) \in BOOLEAN
        OBVIOUS
      <4>2. Submission(b) \in Submissions
        BY <4>1 DEF Submissions, Submission
      <4> QED BY <2>12, <4>2 DEF Acknowledged
    <3>2. pending' \in Nat /\ turns' \in Nat
      BY <2>12 DEF Acknowledged
    <3> QED BY <2>12, <3>1, <3>2 DEF Acknowledged, Release
  <2>13. ASSUME NEW b \in Bots, Stop(b) PROVE TypeOK'
    <3>1. adrift' \subseteq Nonces
      BY <2>13 DEF Stop
    <3> QED BY <2>13, <3>1 DEF Stop, Release
  <2>14. ASSUME NEW b \in Bots, Retry(b) PROVE TypeOK'
    BY <2>14 DEF Retry, chainVars
  <2>15. ASSUME NEW n \in adrift, Land(n) PROVE TypeOK'
    BY <2>15 DEF Land, botVars
  <2>16. CASE Mine
    BY <2>16 DEF Mine, botVars
  <2>17. CASE UNCHANGED vars
    BY <2>17 DEF vars, botVars, chainVars
  <2> QED
    BY <2>1, <2>2, <2>3, <2>4, <2>5, <2>6, <2>7, <2>8, <2>9, <2>10, <2>11,
       <2>12, <2>13, <2>14, <2>15, <2>16, <2>17
       DEF Next, BotNext, TryLock, LockGranted
<1> QED BY <1>1, <1>2, PTL DEF Spec

\* Mutual exclusion of the wallet lock: preparation, signing and broadcast of
\* two processes never overlap.
THEOREM MutualExclusion == Spec => []OneAtATime
<1>1. Init => OneAtATime
  BY BotsAssumption DEF Init, OneAtATime
<1>2. TypeOK /\ OneAtATime /\ [Next]_vars => OneAtATime'
  <2> SUFFICES ASSUME TypeOK, OneAtATime, [Next]_vars PROVE OneAtATime'
    OBVIOUS
  <2> USE BotsAssumption DEF TypeOK, OneAtATime
  <2>1. ASSUME NEW b \in Bots, NEW w \in BOOLEAN, Granted(b, w),
               pc[b] \in {"locking", "blocked"}
        PROVE OneAtATime'
    BY <2>1 DEF Granted
  <2>2. ASSUME NEW b \in Bots, PrepareNotReady(b) \/ Acknowledged(b) \/ Stop(b)
        PROVE OneAtATime'
    BY <2>2 DEF PrepareNotReady, Joined, Acknowledged, Stop, Release
  <2>3. ASSUME NEW b \in Bots,
               \/ Start(b) \/ StartArmedRefresh(b) \/ FinishArmedRefresh(b)
               \/ AskLock(b) \/ WouldBlock(b) \/ ReadNonce(b)
               \/ RefreshFieldsNow(b) \/ Retry(b)
        PROVE OneAtATime'
    BY <2>3 DEF Start, StartArmedRefresh, FinishArmedRefresh, AskLock,
                WouldBlock, ReadNonce, RefreshFieldsNow, Retry
  <2>4. ASSUME NEW b \in Bots, PrepareReady(b) \/ Sign(b)
        PROVE OneAtATime'
    BY <2>4 DEF PrepareReady, Joined, Sign
  <2>5. ASSUME Mine \/ (\E n \in adrift : Land(n)) \/ UNCHANGED vars
        PROVE OneAtATime'
    BY <2>5 DEF Mine, Land, vars, botVars
  <2> QED
    BY <2>1, <2>2, <2>3, <2>4, <2>5 DEF Next, BotNext, TryLock, LockGranted
<1> QED BY <1>1, <1>2, TypeCorrect, PTL DEF Spec

----------------------------------------------------------------------------
\* Only Acknowledged adds to the acknowledged submissions.
LEMMA OthersIdle ==
  ASSUME TypeOK, OneAtATime, NEW b \in Bots, NEW c \in Bots,
         pc[b] \in Critical, c # b
  PROVE  pc[c] \notin Critical
BY DEF TypeOK, OneAtATime

\* A nonce read under the lock is the one that is signed, and one that was up to
\* date when it was read is above every acknowledged one until the holder's own
\* submission: the inductive invariant NonceInv.
THEOREM NonceInvHolds == Spec => []NonceInv
<1>1. Init => NonceInv
  BY DEF Init, NonceInv
<1>2. TypeOK /\ OneAtATime /\ NonceInv /\ [Next]_vars => NonceInv'
  <2> SUFFICES ASSUME TypeOK, OneAtATime, NonceInv, [Next]_vars
               PROVE NonceInv'
    OBVIOUS
  <2> USE DEF TypeOK, NonceInv, UsesCachedNonce
  <2>0. \A n \in Answers : n \in Nat /\ n <= pending
    BY DEF Answers
  <2>1. ASSUME NEW b \in Bots, Start(b) PROVE NonceInv'
    BY <2>0, <2>1 DEF Start, chainVars, Submissions
  <2>2. ASSUME NEW b \in Bots, StartArmedRefresh(b) PROVE NonceInv'
    BY <2>0, <2>2 DEF StartArmedRefresh, chainVars
  <2>3. ASSUME NEW b \in Bots, FinishArmedRefresh(b) PROVE NonceInv'
    BY <2>3 DEF FinishArmedRefresh, chainVars
  <2>4. ASSUME NEW b \in Bots, AskLock(b) PROVE NonceInv'
    BY <2>4 DEF AskLock, chainVars
  <2>5. ASSUME NEW b \in Bots, NEW w \in BOOLEAN, Granted(b, w),
               pc[b] \in {"locking", "blocked"}
        PROVE NonceInv'
    BY <2>5 DEF Granted, RefreshNonce, chainVars
  <2>6. ASSUME NEW b \in Bots, WouldBlock(b) PROVE NonceInv'
    BY <2>6 DEF WouldBlock, chainVars
  <2>7. ASSUME NEW b \in Bots, ReadNonce(b) PROVE NonceInv'
    <3>1. PICK n \in Answers : fetched' = [fetched EXCEPT ![b] = n]
                              /\ stale' = [stale EXCEPT ![b] = n < pending]
      BY <2>7 DEF ReadNonce
    <3>2. n \in Nat /\ n <= pending
      BY <2>0
    <3>3. ASSUME NEW c \in Bots, pc'[c] \in Critical, fetched'[c] # NoNonce,
                 ~stale'[c], NEW s \in acked'
          PROVE  s.nonce < fetched'[c]
      <4>1. CASE c = b
        <5>1. n = pending
          <6>1. stale'[b] = (n < pending)
            BY <3>1
          <6>2. ~(n < pending)
            BY <6>1, <3>3, <4>1
          <6> QED BY <6>2, <3>2
        <5> QED BY <3>1, <3>3, <4>1, <5>1, <2>7 DEF ReadNonce, chainVars
      <4>2. CASE c # b
        BY <3>1, <3>3, <4>2, <2>7 DEF ReadNonce, chainVars
      <4> QED BY <4>1, <4>2
    <3> QED BY <3>1, <3>3, <2>7 DEF ReadNonce, chainVars
  <2>8. ASSUME NEW b \in Bots, RefreshFieldsNow(b) PROVE NonceInv'
    BY <2>0, <2>8 DEF RefreshFieldsNow, chainVars
  <2>9. ASSUME NEW b \in Bots, PrepareReady(b) PROVE NonceInv'
    BY <2>9 DEF PrepareReady, Joined, chainVars
  <2>10. ASSUME NEW b \in Bots, PrepareNotReady(b) PROVE NonceInv'
    BY <2>10 DEF PrepareNotReady, Joined, Release, chainVars
  <2>11. ASSUME NEW b \in Bots, Sign(b) PROVE NonceInv'
    BY <2>11 DEF Sign, chainVars
  <2>12. ASSUME NEW b \in Bots, Acknowledged(b) PROVE NonceInv'
    <3> DEFINE new == Submission(b)
    <3>1. \A c \in Bots : pc'[c] \notin Critical
      BY <2>12, OthersIdle DEF Acknowledged
    <3>2. acked' = acked \cup {new}
      BY <2>12 DEF Acknowledged
    <3>3. /\ pending' \in Nat /\ pending <= pending' /\ request[b] < pending'
          /\ turns' = turns + 1
      BY <2>12 DEF Acknowledged
    <3>4. \A s \in acked' :
             s.nonce < pending' /\ s.turn < turns' /\ s.start <= starts'[s.bot]
      <4>1. ASSUME NEW s \in acked
            PROVE s.nonce < pending' /\ s.turn < turns' /\ s.start <= starts'[s.bot]
        BY <2>12, <3>3 DEF Acknowledged, Submissions
      <4>2. new.nonce < pending' /\ new.turn < turns' /\ new.start <= starts'[new.bot]
        BY <2>12, <3>3 DEF Acknowledged, Submission
      <4> QED BY <4>1, <4>2, <3>2
    <3>5. ASSUME NEW c \in Bots, NEW s \in acked', s.bot = c, s.start = starts'[c]
          PROVE pc'[c] \in {"submitted", "stopped"} \/ force'[c]
      <4>1. CASE c = b
        BY <4>1, <2>12 DEF Acknowledged
      <4>2. CASE c # b
        <5>1. s \in acked
          BY <4>2, <3>2, <3>5 DEF Submission
        <5>2. pc[c] \notin Critical
          BY <4>2, <2>12, OthersIdle DEF Acknowledged
        <5> QED BY <5>1, <5>2, <4>2, <3>5, <2>12 DEF Acknowledged
      <4> QED BY <4>1, <4>2
    <3>6. \A c \in Bots : fetched'[c] = NoNonce
      BY <2>12, <3>1, OthersIdle DEF Acknowledged, Release
    <3> QED BY <3>1, <3>4, <3>5, <3>6
  <2>13. ASSUME NEW b \in Bots, Stop(b) PROVE NonceInv'
    BY <2>13 DEF Stop, Release
  <2>14. ASSUME NEW b \in Bots, Retry(b) PROVE NonceInv'
    BY <2>14 DEF Retry, chainVars
  <2>15. ASSUME NEW n \in adrift, Land(n) PROVE NonceInv'
    <3>1. pending <= pending' /\ pending' \in Nat
      BY <2>15 DEF Land
    <3> QED BY <3>1, <2>15 DEF Land, botVars, Submissions
  <2>16. CASE Mine
    BY <2>16 DEF Mine, botVars
  <2>17. CASE UNCHANGED vars
    BY <2>17 DEF vars, botVars, chainVars
  <2> QED
    BY <2>1, <2>2, <2>3, <2>4, <2>5, <2>6, <2>7, <2>8, <2>9, <2>10, <2>11,
       <2>12, <2>13, <2>14, <2>15, <2>16, <2>17
       DEF Next, BotNext, TryLock, LockGranted
<1> QED BY <1>1, <1>2, TypeCorrect, MutualExclusion, PTL DEF Spec

----------------------------------------------------------------------------
\* A step other than Acknowledged leaves the submissions alone.
LEMMA AckedGrows ==
  ASSUME [Next]_vars
  PROVE  acked' = acked \/ \E b \in Bots : Acknowledged(b)
BY DEF Next, BotNext, vars, botVars, chainVars, Start, StartArmedRefresh,
       FinishArmedRefresh, AskLock, TryLock, WouldBlock, LockGranted, Granted,
       ReadNonce, RefreshFieldsNow, PrepareReady, PrepareNotReady, Sign, Stop,
       Retry, Land, Mine

\* A process that waited for the lock, or that uses just_before_trigger, does
\* not submit a nonce that was acknowledged for the wallet before, unless the
\* nonce it read under the lock was behind the chain's.
THEOREM FreshNonces == Spec => []FreshNonceUnused
<1>1. Init => FreshNonceUnused
  BY DEF Init, FreshNonceUnused
<1>2. TypeOK /\ NonceInv /\ FreshNonceUnused /\ [Next]_vars => FreshNonceUnused'
  <2> SUFFICES ASSUME TypeOK, NonceInv, FreshNonceUnused, [Next]_vars,
                      NEW s \in acked', NEW t \in acked',
                      s.turn < t.turn, t.waited \/ ~UsesCachedNonce(t.bot), ~t.stale
               PROVE  s.nonce # t.nonce
    BY DEF FreshNonceUnused, UsesCachedNonce
  <2>1. CASE acked' = acked
    BY <2>1 DEF FreshNonceUnused
  <2>2. ASSUME NEW b \in Bots, Acknowledged(b) PROVE s.nonce # t.nonce
    <3>1. CASE t \in acked
      <4>1. s \in acked
        BY <3>1, <2>2 DEF Acknowledged, Submission, NonceInv, TypeOK, Submissions
      <4> QED BY <3>1, <4>1 DEF FreshNonceUnused
    <3>2. CASE t \notin acked
      <4>1. /\ t.nonce = request[b] /\ t.turn = turns
            /\ t.waited = contended[b] /\ t.bot = b /\ t.stale = stale[b]
        BY <3>2, <2>2 DEF Acknowledged, Submission
      <4>2. s \in acked
        BY <4>1, <2>2 DEF Acknowledged, Submission, TypeOK
      <4>3. refreshing[b]
        BY <4>1, <2>2 DEF NonceInv, Acknowledged
      <4> QED
        BY <4>1, <4>2, <4>3, <2>2 DEF NonceInv, Acknowledged, TypeOK, Submissions
    <3> QED BY <3>1, <3>2
  <2> QED BY <2>1, <2>2, AckedGrows
<1> QED BY <1>1, <1>2, TypeCorrect, NonceInvHolds, PTL DEF Spec

\* What a process signs has a nonce that one of its own attempts has spent only
\* if that is what providers behind the chain answered to its new read.
THEOREM RetryNonces == Spec => []RetryTakesNewNonce
<1>1. TypeOK /\ NonceInv => RetryTakesNewNonce
  <2> SUFFICES ASSUME TypeOK, NonceInv, NEW b \in Bots, NEW s \in acked,
                      pc[b] = "broadcasting", s.bot = b, s.start = starts[b],
                      s.nonce = request[b]
               PROVE  fetched[b] = request[b] /\ stale[b]
    BY DEF RetryTakesNewNonce
  <2>1. refreshing[b]
    BY DEF NonceInv
  <2> QED BY <2>1 DEF NonceInv, TypeOK, Submissions
<1> QED BY <1>1, TypeCorrect, NonceInvHolds, PTL

----------------------------------------------------------------------------
\* The protocol around the lock implements WalletTurns: turns never overlap,
\* a process that is blocked queues, and one that queued, or that caches no
\* nonce, spends the nonce that was read in its turn and no other.
THEOREM ImplementsWalletTurns == Spec => ImplementsTurns
<1>1. Init => Turns!Init
  BY BotsAssumption DEF Init, Turns!Init, Spent, Blocked, Fresh, Told
<1>2. TypeOK /\ OneAtATime /\ NonceInv /\ [Next]_vars => [Turns!Next]_Turns!vars
  <2> SUFFICES ASSUME TypeOK, OneAtATime, NonceInv, [Next]_vars
               PROVE  [Turns!Next]_Turns!vars
    OBVIOUS
  <2> USE DEF TypeOK, OneAtATime
  <2>1. ASSUME holder' = holder, contended' = contended PROVE Fresh' = Fresh
    BY <2>1 DEF Fresh, UsesCachedNonce
  <2>2. ASSUME holder' = NoBot PROVE Fresh' = FALSE /\ Told' = NoNonce
    BY <2>2, BotsAssumption DEF Fresh, Told
  <2>3. ASSUME acked' = acked PROVE Spent' = Spent
    BY <2>3 DEF Spent
  <2>0. ASSUME holder' = holder, holder # NoBot => fetched'[holder] = fetched[holder]
        PROVE  Told' = Told
    BY <2>0 DEF Told
  <2>4. ASSUME NEW b \in Bots, NEW w \in BOOLEAN, Granted(b, w),
               pc[b] = IF w THEN "blocked" ELSE "locking"
        PROVE  Turns!Take(b)
    <3>1. holder = NoBot /\ holder' = b /\ Spent' = Spent /\ turns' = turns
      BY <2>4, <2>3 DEF Granted, chainVars
    <3>6. Told' = Told
      <4>1. pc[b] \notin Critical
        BY <2>4
      <4>2. fetched'[b] = NoNonce
        BY <2>4, <4>1 DEF Granted, NonceInv
      <4> QED BY <3>1, <4>2, BotsAssumption DEF Told
    <3>2. Blocked' = Blocked \ {b}
      BY <2>4 DEF Granted, Blocked
    <3>3. b \in Blocked <=> w
      BY <2>4 DEF Blocked
    <3>4. b \in Blocked \cup (Bots \ Cachers) <=> w \/ ~UsesCachedNonce(b)
      BY <3>3 DEF Cachers
    <3>5. Fresh' = (b \in Blocked \cup (Bots \ Cachers))
      <4>1. CASE w \/ ~UsesCachedNonce(b)
        <5>1. Fresh' = TRUE
          BY <4>1, <2>4 DEF Granted, Fresh, UsesCachedNonce
        <5>2. (b \in Blocked \cup (Bots \ Cachers)) = TRUE
          BY <4>1, <3>4
        <5> QED BY ONLY <5>1, <5>2
      <4>2. CASE ~(w \/ ~UsesCachedNonce(b))
        <5>1. Fresh' = FALSE
          BY <4>2, <2>4 DEF Granted, Fresh, UsesCachedNonce
        <5>2. (b \in Blocked \cup (Bots \ Cachers)) = FALSE
          BY <4>2, <3>4
        <5> QED BY ONLY <5>1, <5>2
      <4> QED BY <4>1, <4>2
    <3> QED BY <3>1, <3>2, <3>5, <3>6 DEF Turns!Take
  <2>5. ASSUME NEW b \in Bots, WouldBlock(b) PROVE Turns!Queue(b)
    <3>1. Blocked' = Blocked \cup {b}
      BY <2>5 DEF WouldBlock, Blocked
    <3>2. holder # NoBot /\ holder' = holder /\ Fresh' = Fresh /\ Spent' = Spent
         /\ turns' = turns /\ Told' = Told
      BY <2>5, <2>0, <2>1, <2>3 DEF WouldBlock, chainVars
    <3> QED BY <3>1, <3>2 DEF Turns!Queue
  <2>6. ASSUME NEW b \in Bots, PrepareNotReady(b) PROVE Turns!GiveUp(b)
    <3>1. Blocked' = Blocked
      BY <2>6 DEF PrepareNotReady, Joined, Blocked
    <3>2. holder = b /\ holder' = NoBot /\ Fresh' = FALSE /\ Told' = NoNonce
         /\ Spent' = Spent /\ turns' = turns
      BY <2>6, <2>2, <2>3 DEF PrepareNotReady, Joined, Release, chainVars
    <3> QED BY <3>1, <3>2 DEF Turns!GiveUp, NoNonce
  <2>7. ASSUME NEW b \in Bots, Acknowledged(b) PROVE Turns!Submit(b)
    <3>1. /\ holder = b /\ holder' = NoBot /\ Fresh' = FALSE /\ Told' = NoNonce
          /\ turns' = turns + 1
      BY <2>7, <2>2 DEF Acknowledged, Release
    <3>2. Blocked' = Blocked
      BY <2>7 DEF Acknowledged, Blocked
    <3>3. request[b] \in Nat
      BY <2>7 DEF Acknowledged, NonceInv
    <3>4. ASSUME Fresh PROVE request[b] = Told
      <4>1. refreshing[b]
        BY <2>7, <3>1, <3>4 DEF Acknowledged, NonceInv, Fresh
      <4> QED BY <2>7, <3>1, <4>1, BotsAssumption DEF Acknowledged, NonceInv, Told
    <3>5. Spent' = Spent \cup {request[b]}
      <4> DEFINE new == Submission(b)
      <4>1. acked' = acked \cup {new} /\ new.nonce = request[b]
        BY <2>7 DEF Acknowledged, Submission
      <4> HIDE DEF new
      <4> QED BY ONLY <4>1 DEF Spent
    <3> QED BY <3>1, <3>2, <3>3, <3>4, <3>5 DEF Turns!Submit, NoNonce
  <2>8. ASSUME NEW b \in Bots, Stop(b) PROVE Turns!GiveUp(b) \/ Turns!Leave(b)
    <3>1. Spent' = Spent /\ turns' = turns
      BY <2>8, <2>3 DEF Stop
    <3>2. CASE holder = b
      <4>1. Blocked' = Blocked
        BY <3>2, <2>8 DEF Stop, Blocked
      <4>2. holder' = NoBot /\ Fresh' = FALSE /\ Told' = NoNonce
        BY <3>2, <2>8, <2>2 DEF Stop, Release
      <4> QED BY <3>1, <3>2, <4>1, <4>2 DEF Turns!GiveUp, NoNonce
    <3>3. CASE holder # b
      <4>1. Blocked' = Blocked \ {b}
        BY <2>8 DEF Stop, Blocked
      <4>2. holder' = holder
        BY <3>3, <2>8 DEF Stop, Release
      <4>3. Fresh' = Fresh
        BY <3>3, <2>8, <4>2 DEF Stop, Release, Fresh, UsesCachedNonce
      <4>4. Told' = Told
        BY <3>3, <2>8, <4>2, <2>0 DEF Stop, Release
      <4> QED BY <3>1, <4>1, <4>2, <4>3, <4>4 DEF Turns!Leave
    <3> QED BY <3>2, <3>3
  <2>9. ASSUME NEW b \in Bots,
               \/ Start(b) \/ StartArmedRefresh(b) \/ FinishArmedRefresh(b)
               \/ AskLock(b) \/ RefreshFieldsNow(b)
               \/ PrepareReady(b) \/ Sign(b) \/ Retry(b)
        PROVE  UNCHANGED Turns!vars
    <3>1. holder' = holder /\ contended' = contended /\ acked' = acked
         /\ turns' = turns /\ fetched' = fetched
      BY <2>9 DEF Start, StartArmedRefresh, FinishArmedRefresh, AskLock,
                  RefreshFieldsNow, PrepareReady, Sign, Retry, chainVars
    <3>2. Blocked' = Blocked
      BY <2>9 DEF Start, StartArmedRefresh, FinishArmedRefresh, AskLock,
                  RefreshFieldsNow, PrepareReady, Joined, Sign, Retry, Blocked
    <3> QED BY <3>1, <3>2, <2>0, <2>1, <2>3 DEF Turns!vars
  <2>12. ASSUME NEW b \in Bots, ReadNonce(b) PROVE Turns!Hear(b)
    <3>1. holder = b /\ holder' = b /\ Spent' = Spent /\ turns' = turns
      BY <2>12, <2>3 DEF ReadNonce, chainVars
    <3>2. Blocked' = Blocked /\ Fresh' = Fresh
      BY <2>12, <3>1, <2>1 DEF ReadNonce, Blocked
    <3>3. Told = NoNonce
      BY <2>12, <3>1, BotsAssumption DEF ReadNonce, Told
    <3>4. Told' \in Nat
      BY <2>12, <3>1, BotsAssumption DEF ReadNonce, Told, Answers
    <3> QED BY <3>1, <3>2, <3>3, <3>4 DEF Turns!Hear, NoNonce
  <2>10. ASSUME Mine \/ (\E n \in adrift : Land(n)) \/ UNCHANGED vars
         PROVE  UNCHANGED Turns!vars
    <3>1. holder' = holder /\ contended' = contended /\ acked' = acked /\ pc' = pc
         /\ turns' = turns /\ fetched' = fetched
      BY <2>10 DEF Mine, Land, vars, botVars, chainVars
    <3> QED BY <3>1, <2>0, <2>1, <2>3 DEF Turns!vars, Blocked
  <2>11. ASSUME NEW b \in Bots, TryLock(b) \/ LockGranted(b) PROVE Turns!Take(b)
    BY <2>11, <2>4 DEF TryLock, LockGranted
  <2> QED
    BY <2>5, <2>6, <2>7, <2>8, <2>9, <2>10, <2>11, <2>12 DEF Next, BotNext, Turns!Next
<1> QED
  BY <1>1, <1>2, TypeCorrect, MutualExclusion, NonceInvHolds, PTL
     DEF Spec, ImplementsTurns, Turns!Spec

----------------------------------------------------------------------------
(* More than that a fresh nonce is new: what follows from the order in     *)
(* which nonces are spent.                                                 *)

\* A submission whose nonce was read while the lock was held, and was then the
\* chain's pending nonce.
ReadUnderLock(t) == (t.waited \/ ~UsesCachedNonce(t.bot)) /\ ~t.stale

\* Every submission has a turn of its own, and a nonce that was read under the
\* lock and was up to date is above all that were acknowledged before, those
\* whose own nonce was stale included.
FreshNoncesGrow ==
    /\ \A s, t \in acked : s.turn = t.turn => s = t
    /\ \A s, t \in acked : s.turn < t.turn /\ ReadUnderLock(t) => s.nonce < t.nonce

\* However many processes take turns, crash and are started again, nonces that
\* are read under the lock from providers that are not behind are spent in
\* ascending order: the mints of careful bots are mined in the order of their
\* turns.
THEOREM FreshNoncesAscend == Spec => []FreshNoncesGrow
<1>1. Init => FreshNoncesGrow
  BY DEF Init, FreshNoncesGrow
<1>2. TypeOK /\ NonceInv /\ FreshNoncesGrow /\ [Next]_vars => FreshNoncesGrow'
  <2> SUFFICES ASSUME TypeOK, NonceInv, FreshNoncesGrow, [Next]_vars,
                      NEW s \in acked', NEW t \in acked'
               PROVE  /\ s.turn = t.turn => s = t
                      /\ s.turn < t.turn /\ ReadUnderLock(t) => s.nonce < t.nonce
    BY DEF FreshNoncesGrow, ReadUnderLock, UsesCachedNonce
  <2>1. CASE acked' = acked
    BY <2>1 DEF FreshNoncesGrow
  <2>2. ASSUME NEW b \in Bots, Acknowledged(b)
        PROVE  /\ s.turn = t.turn => s = t
               /\ s.turn < t.turn /\ ReadUnderLock(t) => s.nonce < t.nonce
    <3> DEFINE new == Submission(b)
    <3>1. acked' = acked \cup {new} /\ new.turn = turns /\ new.nonce = request[b]
      BY <2>2 DEF Acknowledged, Submission
    <3>2. \A r \in acked : r.turn \in Nat /\ r.turn < turns /\ turns \in Nat
      BY DEF NonceInv, TypeOK, Submissions
    <3>3. CASE s \in acked /\ t \in acked
      BY <3>3 DEF FreshNoncesGrow
    <3>4. CASE s = new
      <4>1. turns \in Nat /\ s.turn = turns
        BY <3>1, <3>4 DEF TypeOK
      <4>2. CASE t = new
        BY <3>1, <3>4, <4>1, <4>2
      <4>3. CASE t \in acked
        BY <3>2, <4>1, <4>3
      <4> HIDE DEF new
      <4> QED BY <3>1, <4>2, <4>3
    <3>5. CASE s \in acked /\ t = new
      <4>1. s.turn # t.turn
        BY <3>1, <3>2, <3>5
      <4>2. ASSUME ReadUnderLock(t) PROVE s.nonce < t.nonce
        <5>1. refreshing[b]
          BY <2>2, <3>5, <4>2 DEF ReadUnderLock, NonceInv, Acknowledged, Submission
        <5>2. ~stale[b]
          BY <3>5, <4>2 DEF ReadUnderLock, Submission
        <5> QED BY <5>1, <5>2, <2>2, <3>1, <3>5 DEF NonceInv, Acknowledged
      <4> QED BY <4>1, <4>2
    <3> QED BY <3>1, <3>3, <3>4, <3>5
  <2> QED BY <2>1, <2>2, AckedGrows
<1> QED BY <1>1, <1>2, TypeCorrect, NonceInvHolds, PTL DEF Spec

\* If no bot of the wallet caches its nonce, two acknowledged submissions share
\* one only if the later of them read it from providers that were behind the
\* chain: no crash, restart or submission whose outcome nobody learned lets one
\* transaction replace another in the pool without that.
SharedOnlyIfStale ==
    \A s, t \in acked : s.nonce = t.nonce /\ s.turn < t.turn => t.stale

THEOREM CarefulWallet ==
  ASSUME \A b \in Bots : Strategy[b] = "just_before_trigger"
  PROVE  Spec => []SharedOnlyIfStale
<1>1. TypeOK /\ FreshNoncesGrow => SharedOnlyIfStale
  <2> SUFFICES ASSUME TypeOK, FreshNoncesGrow, NEW s \in acked, NEW t \in acked,
                      s.turn < t.turn, ~t.stale
               PROVE  s.nonce # t.nonce
    BY DEF SharedOnlyIfStale, TypeOK, Submissions
  <2>1. s.nonce \in Int /\ t.nonce \in Int /\ ReadUnderLock(t)
    BY DEF TypeOK, Submissions, Nonces, NoNonce, ReadUnderLock, UsesCachedNonce
  <2> QED BY <2>1 DEF FreshNoncesGrow
<1> QED BY <1>1, FreshNoncesAscend, TypeCorrect, PTL

=============================================================================
