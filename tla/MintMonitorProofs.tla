------------------------- MODULE MintMonitorProofs -------------------------
(***************************************************************************)
(* Proofs about MintMonitor, for any set of configurations and any number  *)
(* of submissions: one-shot submission, the extent of the wallet lock, the *)
(* health of the fields that are signed, and the run as a participant of   *)
(* WalletTurns, from one inductive invariant.                              *)
(***************************************************************************)
EXTENDS MintMonitor, TLAPS

\* The places where nothing of this run is on its way or under the lock ...
Idle == {"startup", "enter", "select", "observe", "canonical", "locking",
         "reconnect", "backfill"}
\* ... and those after the fields were accepted.
Committed == {"trigger", "execute", "sign", "broadcast"}

\* The lock follows the place of the task.
LockFollows ==
    /\ pc \in Idle \cup {"submitted", "receipt", "exited"} => lock = "none"
    /\ pc = "locking" => ~config.dryRun
    /\ pc \in {"prepare", "prepared"} =>
          lock = IF config.dryRun THEN "none" ELSE "preparing"
    /\ pc \in {"trigger", "execute"} =>
          lock = IF config.dryRun THEN "none" ELSE "context"
    /\ pc \in {"sign", "broadcast"} => lock = "local" /\ ~config.dryRun

\* A transaction is out only between its acknowledgement and its receipt, or
\* when the run is over, and then the run is not armed.
OutFollows ==
    /\ pc \in Idle \cup {"prepare", "prepared"} \cup Committed => live = 0
    /\ pc \in {"submitted", "receipt"} => live = 1 /\ state = "Submitted"
    /\ pc = "exited" =>
          /\ live <= 1
          /\ live = 1 => state \notin {"WaitingForTrigger", "Triggered",
                                       "Signing", "Broadcasting"}

\* Only a refresh that succeeded makes the cache healthy, and a refresh is
\* neither in flight nor started once the fields were looked at.
FieldsFollow ==
    /\ healthy => cached = "ok" /\ sinceRetry
    /\ pc \in {"prepared"} \cup Committed => ~refresh
    /\ pc \in Committed => healthy

\* The state that is shown follows the place as well, a run has returned when
\* it exited, and whoever listens for a signal has the handler installed, the
\* watch of a receipt always.
StateFollows ==
    /\ pc = "startup" => \E i \in 1 .. 6 : state = StartUpStates[i]
    /\ pc \in {"enter", "select", "observe", "canonical", "locking", "prepare",
              "prepared", "trigger", "reconnect", "backfill"} => state = "WaitingForTrigger"
    /\ pc = "execute" => state = "Triggered"
    /\ pc = "sign" => state = "Signing"
    /\ pc = "broadcast" => state = "Broadcasting"
    /\ exit = "none" <=> pc # "exited"
    /\ listening \/ heard \/ pc = "receipt" => handler

RunInv == TypeOK /\ LockFollows /\ OutFollows /\ FieldsFollow /\ StateFollows

USE DEF task, signals, history, BotStates, Places, Idle, Committed

\* The invariant holds when a run starts.
LEMMA InitInv == Init => RunInv
<1> SUFFICES ASSUME Init PROVE RunInv
  OBVIOUS
<1>1. FlagsOK
  BY DEF Init, FlagsOK
<1>2. ValuesOK
  BY DEF Init, ValuesOK
<1>3. LockFollows
  BY DEF Init, LockFollows
<1>4. OutFollows
  BY DEF Init, OutFollows
<1>5. FieldsFollow
  BY DEF Init, FieldsFollow
<1>6. StateFollows
  BY DEF Init, StateFollows, StartUpStates
<1> QED BY <1>1, <1>2, <1>3, <1>4, <1>5, <1>6 DEF RunInv, TypeOK, Init

\* Flags stay flags.
LEMMA FlagsInv == RunInv /\ [Next]_vars => FlagsOK'
<1> SUFFICES ASSUME RunInv, [Next]_vars PROVE FlagsOK'
  OBVIOUS
<1> USE DEF RunInv, TypeOK, FlagsOK, Warm
<1>1. ASSUME Signal, config' = config PROVE FlagsOK'
  BY <1>1 DEF Signal, Exit, Deaf
<1>2. ASSUME StartUpStep \/ StartUpFails,
             config' = config
      PROVE  FlagsOK'
  BY <1>2 DEF StartUpStep, StartUpFails, StartUpStates, Exit, Deaf
<1>3. ASSUME \/ Enter \/ Listen \/ NotReady \/ Ready \/ Canonical,
             config' = config
      PROVE  FlagsOK'
  BY <1>3 DEF Enter, Listen, Deaf, NotReady, Ready, Canonical, AskReady
<1>12. ASSUME \/ Notified \/ StreamEnds \/ FinishArmedRefresh,
              config' = config
       PROVE  FlagsOK'
  BY <1>12 DEF Notified, StreamEnds, FinishArmedRefresh, Deaf, Refreshed
<1>4. ASSUME \/ Reconnected \/ Restored \/ BackfillReady \/ ReconnectFails,
             config' = config
      PROVE  FlagsOK'
  BY <1>4 DEF Reconnected, Restored, BackfillReady, ReconnectFails, Deaf,
            AskReady, Exit
<1>5. ASSUME \/ ShutdownArm \/ SendManual \/ TakeManual \/ ManualClosed,
             config' = config
      PROVE  FlagsOK'
  BY <1>5 DEF ShutdownArm, SendManual, TakeManual, ManualClosed, Exit, Deaf,
            Refreshed, AskReady, Fail
<1>6. ASSUME \/ AcquireLock \/ DynamicFields \/ PrepareReady \/ PrepareFails,
             config' = config
      PROVE  FlagsOK'
  BY <1>6 DEF AcquireLock, DynamicFields, PrepareReady, PrepareFails, Refreshed,
            Fail, Exit, Deaf
<1>7. ASSUME \/ PrepareNotReady \/ PrepareCancelled,
             config' = config
      PROVE  FlagsOK'
  BY <1>7 DEF PrepareNotReady, PrepareCancelled, BackToLoop, LoopHead, Deaf
<1>8. ASSUME \/ AcquireTrigger \/ DryRunDone \/ FinalChecks \/ SignDone
             \/ ExecuteFails,
             config' = config
      PROVE  FlagsOK'
  BY <1>8 DEF AcquireTrigger, DryRunDone, FinalChecks, SignDone, ExecuteFails,
            LoopHead, Deaf, Exit, Fail
<1>9. ASSUME \/ Acknowledged \/ WatchReceipt,
             config' = config
      PROVE  FlagsOK'
  BY <1>9 DEF Acknowledged, WatchReceipt
<1>10. ASSUME \/ Confirm \/ ReceiptShutdown \/ RevertFails \/ ClosedRevert,
             config' = config
      PROVE  FlagsOK'
  BY <1>10 DEF Confirm, ReceiptShutdown, RevertFails, ClosedRevert, Exit, Deaf
<1>11. CASE UNCHANGED vars
  BY <1>11 DEF vars
<1> QED
  BY <1>1, <1>2, <1>3, <1>4, <1>5, <1>6, <1>7, <1>8, <1>9, <1>10, <1>11, <1>12
     DEF Next, Arms, Task, Terminated

\* The other variables keep their type.
LEMMA ValuesInv == RunInv /\ [Next]_vars => ValuesOK'
<1> SUFFICES ASSUME RunInv, [Next]_vars PROVE ValuesOK'
  OBVIOUS
<1> USE DEF RunInv, TypeOK, ValuesOK, OutFollows
<1>1. ASSUME Signal, config' = config PROVE ValuesOK'
  BY <1>1 DEF Signal, Exit, Deaf
<1>2. ASSUME \/ StartUpStep \/ StartUpFails,
             config' = config
      PROVE  ValuesOK'
  BY <1>2 DEF StartUpStep, StartUpFails, StartUpStates, Exit, Deaf
<1>3. ASSUME \/ Enter \/ Listen \/ NotReady \/ Notified \/ StreamEnds \/ Ready
             \/ Canonical \/ FinishArmedRefresh,
             config' = config
      PROVE  ValuesOK'
  BY <1>3 DEF Enter, Listen, Deaf, NotReady, Notified, StreamEnds, Ready, Canonical,
            FinishArmedRefresh, Warm, AskReady, Refreshed
<1>4. ASSUME \/ Reconnected \/ Restored \/ BackfillReady \/ ReconnectFails,
             config' = config
      PROVE  ValuesOK'
  BY <1>4 DEF Reconnected, Restored, BackfillReady, ReconnectFails, Deaf,
            AskReady, Exit
<1>5. ASSUME \/ ShutdownArm \/ SendManual \/ TakeManual \/ ManualClosed,
             config' = config
      PROVE  ValuesOK'
  BY <1>5 DEF ShutdownArm, SendManual, TakeManual, ManualClosed, Exit, Deaf,
            Refreshed, AskReady, Fail
<1>6. ASSUME \/ AcquireLock \/ DynamicFields \/ PrepareReady \/ PrepareFails,
             config' = config
      PROVE  ValuesOK'
  BY <1>6 DEF AcquireLock, DynamicFields, PrepareReady, PrepareFails, Refreshed,
            Fail, Exit, Deaf
<1>7. ASSUME \/ PrepareNotReady \/ PrepareCancelled,
             config' = config
      PROVE  ValuesOK'
  BY <1>7 DEF PrepareNotReady, PrepareCancelled, BackToLoop, LoopHead, Deaf
<1>8. ASSUME \/ AcquireTrigger \/ DryRunDone \/ FinalChecks \/ SignDone
             \/ ExecuteFails,
             config' = config
      PROVE  ValuesOK'
  BY <1>8 DEF AcquireTrigger, DryRunDone, FinalChecks, SignDone, ExecuteFails,
            LoopHead, Deaf, Exit, Fail
<1>9. ASSUME \/ Acknowledged \/ WatchReceipt,
             config' = config
      PROVE  ValuesOK'
  BY <1>9 DEF Acknowledged, WatchReceipt
<1>10. ASSUME \/ Confirm \/ ReceiptShutdown \/ RevertFails \/ ClosedRevert,
             config' = config
      PROVE  ValuesOK'
  BY <1>10 DEF Confirm, ReceiptShutdown, RevertFails, ClosedRevert, Exit, Deaf
<1>11. CASE UNCHANGED vars
  BY <1>11 DEF vars
<1> QED
  BY <1>1, <1>2, <1>3, <1>4, <1>5, <1>6, <1>7, <1>8, <1>9, <1>10, <1>11
     DEF Next, Arms, Task, Terminated

\* The lock follows the task through every step.
LEMMA LockInv == RunInv /\ [Next]_vars => LockFollows'
<1> SUFFICES ASSUME RunInv, [Next]_vars PROVE LockFollows'
  OBVIOUS
<1> USE DEF RunInv, TypeOK, ValuesOK, LockFollows
<1>1. ASSUME Signal, config' = config PROVE LockFollows'
  BY <1>1 DEF Signal, Exit, Deaf
<1>2. ASSUME \/ StartUpStep \/ StartUpFails,
             config' = config
      PROVE  LockFollows'
  BY <1>2 DEF StartUpStep, StartUpFails, StartUpStates, Exit, Deaf
<1>3. ASSUME \/ Enter \/ Listen \/ NotReady \/ Notified \/ StreamEnds \/ Ready
             \/ Canonical \/ FinishArmedRefresh,
             config' = config
      PROVE  LockFollows'
  BY <1>3 DEF Enter, Listen, Deaf, NotReady, Notified, StreamEnds, Ready, Canonical,
            FinishArmedRefresh, Warm, AskReady, Refreshed
<1>4. ASSUME \/ Reconnected \/ Restored \/ BackfillReady \/ ReconnectFails,
             config' = config
      PROVE  LockFollows'
  BY <1>4 DEF Reconnected, Restored, BackfillReady, ReconnectFails, Deaf,
            AskReady, Exit
<1>5. ASSUME \/ ShutdownArm \/ SendManual \/ TakeManual \/ ManualClosed,
             config' = config
      PROVE  LockFollows'
  BY <1>5 DEF ShutdownArm, SendManual, TakeManual, ManualClosed, Exit, Deaf,
            Refreshed, AskReady, Fail
<1>6. ASSUME \/ AcquireLock \/ DynamicFields \/ PrepareReady \/ PrepareFails,
             config' = config
      PROVE  LockFollows'
  BY <1>6 DEF AcquireLock, DynamicFields, PrepareReady, PrepareFails, Refreshed,
            Fail, Exit, Deaf
<1>7. ASSUME \/ PrepareNotReady \/ PrepareCancelled,
             config' = config
      PROVE  LockFollows'
  BY <1>7 DEF PrepareNotReady, PrepareCancelled, BackToLoop, LoopHead, Deaf
<1>8. ASSUME \/ AcquireTrigger \/ DryRunDone \/ FinalChecks \/ SignDone
             \/ ExecuteFails,
             config' = config
      PROVE  LockFollows'
  BY <1>8 DEF AcquireTrigger, DryRunDone, FinalChecks, SignDone, ExecuteFails,
            LoopHead, Deaf, Exit, Fail
<1>9. ASSUME \/ Acknowledged \/ WatchReceipt,
             config' = config
      PROVE  LockFollows'
  BY <1>9 DEF Acknowledged, WatchReceipt
<1>10. ASSUME \/ Confirm \/ ReceiptShutdown \/ RevertFails \/ ClosedRevert,
             config' = config
      PROVE  LockFollows'
  BY <1>10 DEF Confirm, ReceiptShutdown, RevertFails, ClosedRevert, Exit, Deaf
<1>11. CASE UNCHANGED vars
  BY <1>11 DEF vars
<1> QED
  BY <1>1, <1>2, <1>3, <1>4, <1>5, <1>6, <1>7, <1>8, <1>9, <1>10, <1>11
     DEF Next, Arms, Task, Terminated

\* So does what is out.
LEMMA OutInv == RunInv /\ [Next]_vars => OutFollows'
<1> SUFFICES ASSUME RunInv, [Next]_vars PROVE OutFollows'
  OBVIOUS
<1> USE DEF RunInv, TypeOK, ValuesOK, OutFollows
<1>1. ASSUME Signal, config' = config PROVE OutFollows'
  BY <1>1 DEF Signal, Exit, Deaf
<1>2. ASSUME \/ StartUpStep \/ StartUpFails,
             config' = config
      PROVE  OutFollows'
  BY <1>2 DEF StartUpStep, StartUpFails, StartUpStates, Exit, Deaf
<1>3. ASSUME \/ Enter \/ Listen \/ NotReady \/ Notified \/ StreamEnds \/ Ready
             \/ Canonical \/ FinishArmedRefresh,
             config' = config
      PROVE  OutFollows'
  BY <1>3 DEF Enter, Listen, Deaf, NotReady, Notified, StreamEnds, Ready, Canonical,
            FinishArmedRefresh, Warm, AskReady, Refreshed
<1>4. ASSUME \/ Reconnected \/ Restored \/ BackfillReady \/ ReconnectFails,
             config' = config
      PROVE  OutFollows'
  BY <1>4 DEF Reconnected, Restored, BackfillReady, ReconnectFails, Deaf,
            AskReady, Exit
<1>5. ASSUME \/ ShutdownArm \/ SendManual \/ TakeManual \/ ManualClosed,
             config' = config
      PROVE  OutFollows'
  BY <1>5 DEF ShutdownArm, SendManual, TakeManual, ManualClosed, Exit, Deaf,
            Refreshed, AskReady, Fail
<1>6. ASSUME \/ AcquireLock \/ DynamicFields \/ PrepareReady \/ PrepareFails,
             config' = config
      PROVE  OutFollows'
  BY <1>6 DEF AcquireLock, DynamicFields, PrepareReady, PrepareFails, Refreshed,
            Fail, Exit, Deaf
<1>7. ASSUME \/ PrepareNotReady \/ PrepareCancelled,
             config' = config
      PROVE  OutFollows'
  BY <1>7 DEF PrepareNotReady, PrepareCancelled, BackToLoop, LoopHead, Deaf
<1>8. ASSUME \/ AcquireTrigger \/ DryRunDone \/ FinalChecks \/ SignDone
             \/ ExecuteFails,
             config' = config
      PROVE  OutFollows'
  BY <1>8 DEF AcquireTrigger, DryRunDone, FinalChecks, SignDone, ExecuteFails,
            LoopHead, Deaf, Exit, Fail
<1>9. ASSUME \/ Acknowledged \/ WatchReceipt,
             config' = config
      PROVE  OutFollows'
  BY <1>9 DEF Acknowledged, WatchReceipt
<1>10. ASSUME \/ Confirm \/ ReceiptShutdown \/ RevertFails \/ ClosedRevert,
             config' = config
      PROVE  OutFollows'
  BY <1>10 DEF Confirm, ReceiptShutdown, RevertFails, ClosedRevert, Exit, Deaf
<1>11. CASE UNCHANGED vars
  BY <1>11 DEF vars
<1> QED
  BY <1>1, <1>2, <1>3, <1>4, <1>5, <1>6, <1>7, <1>8, <1>9, <1>10, <1>11
     DEF Next, Arms, Task, Terminated

\* And the health of the fields.
LEMMA FieldsInv == RunInv /\ [Next]_vars => FieldsFollow'
<1> SUFFICES ASSUME RunInv, [Next]_vars PROVE FieldsFollow'
  OBVIOUS
<1> USE DEF RunInv, TypeOK, FlagsOK, FieldsFollow
<1>1. ASSUME Signal, config' = config PROVE FieldsFollow'
  BY <1>1 DEF Signal, Exit, Deaf
<1>2. ASSUME \/ StartUpStep \/ StartUpFails,
             config' = config
      PROVE  FieldsFollow'
  BY <1>2 DEF StartUpStep, StartUpFails, StartUpStates, Exit, Deaf
<1>3. ASSUME \/ Enter \/ Listen \/ NotReady \/ Notified \/ StreamEnds \/ Ready
             \/ Canonical \/ FinishArmedRefresh,
             config' = config
      PROVE  FieldsFollow'
  BY <1>3 DEF Enter, Listen, Deaf, NotReady, Notified, StreamEnds, Ready, Canonical,
            FinishArmedRefresh, Warm, AskReady, Refreshed
<1>4. ASSUME \/ Reconnected \/ Restored \/ BackfillReady \/ ReconnectFails,
             config' = config
      PROVE  FieldsFollow'
  BY <1>4 DEF Reconnected, Restored, BackfillReady, ReconnectFails, Deaf,
            AskReady, Exit
<1>5. ASSUME \/ ShutdownArm \/ SendManual \/ TakeManual \/ ManualClosed,
             config' = config
      PROVE  FieldsFollow'
  BY <1>5 DEF ShutdownArm, SendManual, TakeManual, ManualClosed, Exit, Deaf,
            Refreshed, AskReady, Fail
<1>6. ASSUME \/ AcquireLock \/ DynamicFields \/ PrepareReady \/ PrepareFails,
             config' = config
      PROVE  FieldsFollow'
  BY <1>6 DEF AcquireLock, DynamicFields, PrepareReady, PrepareFails, Refreshed,
            Fail, Exit, Deaf
<1>7. ASSUME \/ PrepareNotReady \/ PrepareCancelled,
             config' = config
      PROVE  FieldsFollow'
  BY <1>7 DEF PrepareNotReady, PrepareCancelled, BackToLoop, LoopHead, Deaf
<1>8. ASSUME \/ AcquireTrigger \/ DryRunDone \/ FinalChecks \/ SignDone
             \/ ExecuteFails,
             config' = config
      PROVE  FieldsFollow'
  BY <1>8 DEF AcquireTrigger, DryRunDone, FinalChecks, SignDone, ExecuteFails,
            LoopHead, Deaf, Exit, Fail
<1>9. ASSUME \/ Acknowledged \/ WatchReceipt,
             config' = config
      PROVE  FieldsFollow'
  BY <1>9 DEF Acknowledged, WatchReceipt
<1>10. ASSUME \/ Confirm \/ ReceiptShutdown \/ RevertFails \/ ClosedRevert,
             config' = config
      PROVE  FieldsFollow'
  BY <1>10 DEF Confirm, ReceiptShutdown, RevertFails, ClosedRevert, Exit, Deaf
<1>11. CASE UNCHANGED vars
  BY <1>11 DEF vars
<1> QED
  BY <1>1, <1>2, <1>3, <1>4, <1>5, <1>6, <1>7, <1>8, <1>9, <1>10, <1>11
     DEF Next, Arms, Task, Terminated

\* The state follows the task.
LEMMA StateInv == RunInv /\ [Next]_vars => StateFollows'
<1> SUFFICES ASSUME RunInv, [Next]_vars PROVE StateFollows'
  OBVIOUS
<1> USE DEF RunInv, TypeOK, FlagsOK, ValuesOK, StateFollows
<1>1. ASSUME Signal, config' = config PROVE StateFollows'
  BY <1>1 DEF Signal, Exit, Deaf
<1>2. ASSUME \/ StartUpStep \/ StartUpFails,
             config' = config
      PROVE  StateFollows'
  BY <1>2 DEF StartUpStep, StartUpFails, StartUpStates, Exit, Deaf
<1>3. ASSUME \/ Enter \/ Listen \/ NotReady \/ Notified \/ StreamEnds \/ Ready
             \/ Canonical \/ FinishArmedRefresh,
             config' = config
      PROVE  StateFollows'
  BY <1>3 DEF Enter, Listen, Deaf, NotReady, Notified, StreamEnds, Ready, Canonical,
            FinishArmedRefresh, Warm, AskReady, Refreshed
<1>4. ASSUME \/ Reconnected \/ Restored \/ BackfillReady \/ ReconnectFails,
             config' = config
      PROVE  StateFollows'
  BY <1>4 DEF Reconnected, Restored, BackfillReady, ReconnectFails, Deaf,
            AskReady, Exit
<1>5. ASSUME \/ ShutdownArm \/ SendManual \/ TakeManual \/ ManualClosed,
             config' = config
      PROVE  StateFollows'
  BY <1>5 DEF ShutdownArm, SendManual, TakeManual, ManualClosed, Exit, Deaf,
            Refreshed, AskReady, Fail
<1>6. ASSUME \/ AcquireLock \/ DynamicFields \/ PrepareReady \/ PrepareFails,
             config' = config
      PROVE  StateFollows'
  BY <1>6 DEF AcquireLock, DynamicFields, PrepareReady, PrepareFails, Refreshed,
            Fail, Exit, Deaf
<1>7. ASSUME \/ PrepareNotReady \/ PrepareCancelled,
             config' = config
      PROVE  StateFollows'
  BY <1>7 DEF PrepareNotReady, PrepareCancelled, BackToLoop, LoopHead, Deaf
<1>8. ASSUME \/ AcquireTrigger \/ DryRunDone \/ FinalChecks \/ SignDone
             \/ ExecuteFails,
             config' = config
      PROVE  StateFollows'
  BY <1>8 DEF AcquireTrigger, DryRunDone, FinalChecks, SignDone, ExecuteFails,
            LoopHead, Deaf, Exit, Fail
<1>9. ASSUME \/ Acknowledged \/ WatchReceipt,
             config' = config
      PROVE  StateFollows'
  BY <1>9 DEF Acknowledged, WatchReceipt
<1>10. ASSUME \/ Confirm \/ ReceiptShutdown \/ RevertFails \/ ClosedRevert,
             config' = config
      PROVE  StateFollows'
  BY <1>10 DEF Confirm, ReceiptShutdown, RevertFails, ClosedRevert, Exit, Deaf
<1>11. CASE UNCHANGED vars
  BY <1>11 DEF vars
<1> QED
  BY <1>1, <1>2, <1>3, <1>4, <1>5, <1>6, <1>7, <1>8, <1>9, <1>10, <1>11
     DEF Next, Arms, Task, Terminated

\* A refresh runs only in the modes that keep fields warm.
LEMMA WarmInv == RunInv /\ [Next]_vars => (refresh => Warm)'
<1> SUFFICES ASSUME RunInv, [Next]_vars PROVE (refresh => Warm)'
  OBVIOUS
<1> USE DEF RunInv, TypeOK, FlagsOK, Warm
<1>1. ASSUME Signal, config' = config PROVE (refresh => Warm)'
  BY <1>1 DEF Signal, Exit, Deaf
<1>2. ASSUME \/ StartUpStep \/ StartUpFails,
             config' = config
      PROVE  (refresh => Warm)'
  BY <1>2 DEF StartUpStep, StartUpFails, StartUpStates, Exit, Deaf
<1>3. ASSUME \/ Enter \/ Listen \/ NotReady \/ Notified \/ StreamEnds \/ Ready
             \/ Canonical \/ FinishArmedRefresh,
             config' = config
      PROVE  (refresh => Warm)'
  BY <1>3 DEF Enter, Listen, Deaf, NotReady, Notified, StreamEnds, Ready, Canonical,
            FinishArmedRefresh, Warm, AskReady, Refreshed
<1>4. ASSUME \/ Reconnected \/ Restored \/ BackfillReady \/ ReconnectFails,
             config' = config
      PROVE  (refresh => Warm)'
  BY <1>4 DEF Reconnected, Restored, BackfillReady, ReconnectFails, Deaf,
            AskReady, Exit
<1>5. ASSUME \/ ShutdownArm \/ SendManual \/ TakeManual \/ ManualClosed,
             config' = config
      PROVE  (refresh => Warm)'
  BY <1>5 DEF ShutdownArm, SendManual, TakeManual, ManualClosed, Exit, Deaf,
            Refreshed, AskReady, Fail
<1>6. ASSUME \/ AcquireLock \/ DynamicFields \/ PrepareReady \/ PrepareFails,
             config' = config
      PROVE  (refresh => Warm)'
  BY <1>6 DEF AcquireLock, DynamicFields, PrepareReady, PrepareFails, Refreshed,
            Fail, Exit, Deaf
<1>7. ASSUME \/ PrepareNotReady \/ PrepareCancelled,
             config' = config
      PROVE  (refresh => Warm)'
  BY <1>7 DEF PrepareNotReady, PrepareCancelled, BackToLoop, LoopHead, Deaf
<1>8. ASSUME \/ AcquireTrigger \/ DryRunDone \/ FinalChecks \/ SignDone
             \/ ExecuteFails,
             config' = config
      PROVE  (refresh => Warm)'
  BY <1>8 DEF AcquireTrigger, DryRunDone, FinalChecks, SignDone, ExecuteFails,
            LoopHead, Deaf, Exit, Fail
<1>9. ASSUME \/ Acknowledged \/ WatchReceipt,
             config' = config
      PROVE  (refresh => Warm)'
  BY <1>9 DEF Acknowledged, WatchReceipt
<1>10. ASSUME \/ Confirm \/ ReceiptShutdown \/ RevertFails \/ ClosedRevert,
             config' = config
      PROVE  (refresh => Warm)'
  BY <1>10 DEF Confirm, ReceiptShutdown, RevertFails, ClosedRevert, Exit, Deaf
<1>11. CASE UNCHANGED vars
  BY <1>11 DEF vars
<1> QED
  BY <1>1, <1>2, <1>3, <1>4, <1>5, <1>6, <1>7, <1>8, <1>9, <1>10, <1>11
     DEF Next, Arms, Task, Terminated

\* The invariant behind the theorems below.
THEOREM RunInvHolds == Spec => []RunInv
<1>1. RunInv /\ [Next]_vars => RunInv'
  BY FlagsInv, ValuesInv, LockInv, OutInv, FieldsInv, StateInv, WarmInv DEF RunInv, TypeOK
<1> QED BY InitInv, <1>1, PTL DEF Spec

----------------------------------------------------------------------------
\* Every variable of a run keeps its type, and fields are refreshed in the
\* background only in the modes that keep them warm.
THEOREM TypeCorrect == Spec => []TypeOK
<1>1. RunInv => TypeOK
  BY DEF RunInv
<1> QED BY <1>1, RunInvHolds, PTL

\* One-shot trigger: at most one transaction is out, and none while armed.
THEOREM OneShot == Spec => []OneOutstanding
<1>1. RunInv => OneOutstanding
  <2> SUFFICES ASSUME RunInv PROVE OneOutstanding
    OBVIOUS
  <2>1. CASE pc \in Idle \cup {"prepare", "prepared"} \cup Committed
    BY <2>1 DEF RunInv, OutFollows, OneOutstanding
  <2>2. CASE pc \in {"submitted", "receipt"}
    BY <2>2 DEF RunInv, OutFollows, OneOutstanding
  <2>3. CASE pc = "exited"
    BY <2>3 DEF RunInv, OutFollows, OneOutstanding, TypeOK, ValuesOK
  <2> QED BY <2>1, <2>2, <2>3 DEF RunInv, TypeOK, ValuesOK
<1> QED BY <1>1, RunInvHolds, PTL

\* The wallet lock is held from preparation to the acknowledgement only.
THEOREM LockExtent == Spec => []LockHeldExactly
<1>1. RunInv => LockHeldExactly
  BY DEF RunInv, LockFollows, LockHeldExactly
<1> QED BY <1>1, RunInvHolds, PTL

\* What is signed rests on a refresh that succeeded after the last Retry.
THEOREM HealthySigning == Spec => []SignsOnHealthyFields
<1>1. RunInv => SignsOnHealthyFields
  BY DEF RunInv, FieldsFollow, SignsOnHealthyFields
<1> QED BY <1>1, RunInvHolds, PTL

----------------------------------------------------------------------------
\* A step that submits nothing takes the turn, gives it up or leaves it alone.
LEMMA NoSubmission ==
  ASSUME sends' = sends
  PROVE  [Turns!Next]_Turns!vars
<1> DEFINE owner == IF lock = "none" THEN "nobody" ELSE "this run"
           spent == IF sends = 0 THEN {} ELSE {0}
<1>1. spent' = spent
  OBVIOUS
<1>2. CASE owner = owner'
  BY <1>1, <1>2 DEF Turns!vars
<1>3. CASE owner = "nobody" /\ owner' = "this run"
  <2>1. FALSE = ("this run" \in {} \cup {})
    OBVIOUS
  <2>2. Turns!Take("this run")
    BY <1>1, <1>3, <2>1 DEF Turns!Take
  <2> QED BY <2>2 DEF Turns!Next
<1>4. CASE owner = "this run" /\ owner' = "nobody"
  BY <1>1, <1>4 DEF Turns!Next, Turns!GiveUp
<1> QED BY <1>2, <1>3, <1>4

\* A run is a participant of WalletTurns: each of its submissions takes a turn
\* of its own and ends it.
THEOREM RunTakesTurns == Spec => TakesTurns
<1>1. Init => Turns!Init
  BY DEF Init, Turns!Init
<1>2. RunInv /\ [Next]_vars => [Turns!Next]_Turns!vars
  <2> SUFFICES ASSUME RunInv, [Next]_vars PROVE [Turns!Next]_Turns!vars
    OBVIOUS
  <2>1. CASE Acknowledged
    <3>1. lock = "local" /\ lock' = "none" /\ sends' = sends + 1
      BY <2>1 DEF Acknowledged, RunInv, LockFollows
    <3>2. sends' # 0
      BY <3>1 DEF RunInv, TypeOK, ValuesOK
    <3> QED BY <3>1, <3>2 DEF Turns!Next, Turns!Submit
  <2>2. sends' = sends \/ Acknowledged
    BY DEF Next, Arms, Task, Terminated, vars, Signal, StartUpStep, StartUpFails,
           Enter, Listen, ShutdownArm, FinishArmedRefresh, Notified, StreamEnds, NotReady,
           Ready, Canonical, SendManual, TakeManual, ManualClosed, AcquireLock,
           DynamicFields, PrepareNotReady, PrepareCancelled, PrepareReady,
           PrepareFails, AcquireTrigger, DryRunDone, FinalChecks, SignDone,
           ExecuteFails, WatchReceipt, Confirm, ReceiptShutdown, RevertFails,
           ClosedRevert, Reconnected, ReconnectFails, Restored, BackfillReady
  <2> QED BY <2>1, <2>2, NoSubmission
<1> QED BY <1>1, <1>2, RunInvHolds, PTL DEF Spec, TakesTurns, Turns!Spec

----------------------------------------------------------------------------
(* The run as the user sees it.                                            *)

\* While a run has not returned, what it shows follows the place of its task.
LEMMA PhaseFollows ==
  ASSUME RunInv
  PROVE  /\ pc \in Idle \cup {"prepare", "prepared", "trigger"} => Phase = "armed"
         /\ pc \in {"execute", "sign", "broadcast"} => Phase = "minting"
         /\ pc \in {"submitted", "receipt"} => Phase = "out"
         /\ pc = "exited" <=> Phase = "over"
         /\ pc # "exited" => Result = "none"
         /\ sends \in Nat /\ live \in Nat
<1> USE DEF RunInv, TypeOK, ValuesOK, StateFollows, OutFollows, Phase, Result
<1>1. CASE pc = "startup"
  BY <1>1 DEF StartUpStates
<1>2. CASE pc # "startup"
  BY <1>2
<1> QED BY <1>1, <1>2

\* A run that is armed may be stopped, or fail.
LEMMA EndsArmed ==
  ASSUME RunInv, Phase = "armed", config' = config, exit' \in {"ok", "err"},
         exit' = "ok" => state' = "Stopped" /\ handler,
         UNCHANGED <<sends, live, handler>>
  PROVE  Attempts!Next
<1>1. Phase' = "over" /\ Result' = IF exit' = "ok" THEN "stopped" ELSE "err"
  BY DEF Phase, Result
<1>2. Attempts!Stop \/ Attempts!Fail
  BY <1>1 DEF Attempts!Stop, Attempts!Fail, Attempts!End
<1> QED BY <1>2 DEF Attempts!Next

\* A step that stays among the places of one phase is not seen, or installs the
\* signal handler.
LEMMA NotSeen ==
  ASSUME config' = config, Phase' = Phase, Result' = Result, UNCHANGED <<sends, live>>,
         handler' = handler \/ (handler' = TRUE /\ Phase # "over")
  PROVE  [Attempts!Next]_Attempts!vars
<1>1. CASE handler' = handler
  BY <1>1 DEF Attempts!vars
<1>2. CASE handler' = TRUE /\ Phase # "over"
  BY <1>2 DEF Attempts!Next, Attempts!Shield
<1> QED BY <1>1, <1>2

\* A run keeps the one-shot trigger and the retry: MintAttempts is what it does.
THEOREM RunKeepsOneShot == Spec => KeepsOneShot
<1>1. Init => Attempts!Init
  <2> SUFFICES ASSUME Init PROVE Attempts!Init
    OBVIOUS
  <2>1. config.dryRun \in BOOLEAN
    BY ConfigsAssumption DEF Init, ValidConfigs
  <2> QED BY <2>1 DEF Init, Attempts!Init, Phase, Result
<1>2. RunInv /\ [Next]_vars /\ RunInv' => [Attempts!Next]_Attempts!vars
  <2> SUFFICES ASSUME RunInv, [Next]_vars, RunInv' PROVE [Attempts!Next]_Attempts!vars
    OBVIOUS
  <2>0. ASSUME NEW A, NEW B,
               A = pc, B = pc', config' = config, UNCHANGED <<sends, live>>,
               handler' = handler \/ handler' = TRUE,
               \/ /\ A \in Idle \cup {"prepare", "prepared", "trigger"}
                  /\ B \in Idle \cup {"prepare", "prepared", "trigger"}
               \/ /\ A \in {"execute", "sign", "broadcast"}
                  /\ B \in {"execute", "sign", "broadcast"}
               \/ A \in {"submitted", "receipt"} /\ B \in {"submitted", "receipt"}
        PROVE  [Attempts!Next]_Attempts!vars
    <3>1. Phase' = Phase /\ Result' = Result /\ Phase # "over"
      BY <2>0, PhaseFollows
         DEF RunInv, TypeOK, ValuesOK, StateFollows, OutFollows, Phase, Result, StartUpStates
    <3> QED BY <2>0, <3>1, NotSeen
  <2>1. ASSUME Signal, config' = config PROVE [Attempts!Next]_Attempts!vars
    <3>1. CASE handler
      BY <2>1, <3>1, NotSeen DEF Signal, Phase, Result
    <3>2. CASE ~handler
      <4>1. Phase # "over"
        BY <2>1, <3>2, PhaseFollows DEF Signal
      <4>2. /\ Phase' = "over" /\ Result' = "killed"
            /\ UNCHANGED <<sends, live, handler>>
        BY <2>1, <3>2 DEF Signal, Exit, Deaf, Phase, Result
      <4> QED BY <2>1, <3>2, <4>1, <4>2 DEF Attempts!Next, Attempts!Die, Attempts!End
    <3> QED BY <3>1, <3>2 DEF RunInv, TypeOK, FlagsOK
  <2>2. ASSUME \/ StartUpStep \/ Enter \/ Listen \/ FinishArmedRefresh \/ Notified \/ StreamEnds
               \/ NotReady \/ Ready \/ Canonical \/ AcquireLock \/ DynamicFields
               \/ PrepareNotReady \/ PrepareCancelled \/ PrepareReady
               \/ Reconnected \/ Restored \/ BackfillReady
               \/ FinalChecks \/ SignDone \/ WatchReceipt,
               config' = config
        PROVE  [Attempts!Next]_Attempts!vars
    <3>1. UNCHANGED <<sends, live>> /\ (handler' = handler \/ handler' = TRUE)
      BY <2>2 DEF StartUpStep, Enter, Listen, Deaf, BackToLoop, FinishArmedRefresh, Notified, StreamEnds, NotReady,
                  Ready, Canonical, AcquireLock, DynamicFields, PrepareNotReady,
                  PrepareCancelled, PrepareReady, Reconnected, Restored, BackfillReady,
                  FinalChecks, SignDone, WatchReceipt
    <3>2. CASE FinalChecks \/ SignDone \/ WatchReceipt
      BY <2>2, <3>1, <3>2, <2>0 DEF FinalChecks, SignDone, WatchReceipt
    <3>3. CASE \/ StartUpStep \/ Enter \/ Listen \/ FinishArmedRefresh \/ Notified \/ StreamEnds
               \/ NotReady \/ Ready \/ Canonical \/ AcquireLock \/ DynamicFields
               \/ PrepareNotReady \/ PrepareCancelled \/ PrepareReady
               \/ Reconnected \/ Restored \/ BackfillReady
      <4>1. /\ pc \in Idle \cup {"prepare", "prepared", "trigger"}
            /\ pc' \in Idle \cup {"prepare", "prepared", "trigger"}
        BY <3>3 DEF StartUpStep, Enter, Listen, FinishArmedRefresh, Notified, StreamEnds, NotReady,
                    Ready, Canonical, AcquireLock, DynamicFields, PrepareNotReady,
                    PrepareCancelled, PrepareReady, Reconnected, Restored, BackfillReady,
                    BackToLoop, LoopHead, AskReady
      <4> QED BY <2>2, <3>1, <4>1, <2>0
    <3> QED BY <2>2, <3>2, <3>3
  <2>3. ASSUME StartUpFails \/ ShutdownArm \/ ManualClosed \/ PrepareFails \/ ReconnectFails,
               config' = config
        PROVE  [Attempts!Next]_Attempts!vars
    <3>1. /\ pc \in Idle \cup {"prepare", "prepared"} /\ UNCHANGED <<sends, live>>
          /\ exit' \in {"ok", "err"} /\ (exit' = "ok" => state' = "Stopped" /\ heard)
          /\ handler' = handler
      BY <2>3 DEF StartUpFails, ShutdownArm, ManualClosed, PrepareFails, ReconnectFails,
                  Exit, Fail, Deaf
    <3>2. heard => handler
      BY DEF RunInv, StateFollows
    <3> QED BY <2>3, <3>1, <3>2, PhaseFollows, EndsArmed
  <2>4. ASSUME TakeManual, config' = config PROVE [Attempts!Next]_Attempts!vars
    <3>1. /\ pc = "select" /\ UNCHANGED <<sends, live, handler>>
          /\ pc' = AskReady \/ exit' = "err"
      BY <2>4 DEF TakeManual, Deaf
    <3>2. CASE pc' = AskReady
      BY <2>4, <3>1, <3>2, <2>0 DEF AskReady
    <3>3. CASE exit' = "err"
      BY <2>4, <3>1, <3>3, PhaseFollows, EndsArmed
    <3> QED BY <3>1, <3>2, <3>3
  <2>5. ASSUME SendManual, config' = config PROVE [Attempts!Next]_Attempts!vars
    BY <2>5, NotSeen DEF SendManual, Phase, Result
  <2>6. ASSUME AcquireTrigger, config' = config PROVE [Attempts!Next]_Attempts!vars
    <3>1. pc = "trigger" /\ pc' = "execute" /\ UNCHANGED <<sends, live, handler>>
      BY <2>6 DEF AcquireTrigger, RunInv, StateFollows, Deaf
    <3>2. /\ Phase = "armed" /\ Result = "none"
          /\ Phase' = "minting" /\ Result' = "none"
      BY <3>1, PhaseFollows DEF RunInv, StateFollows, Phase, Result
    <3> QED BY <2>6, <3>1, <3>2 DEF Attempts!Next, Attempts!Win
  <2>7. ASSUME DryRunDone, config' = config PROVE [Attempts!Next]_Attempts!vars
    <3>1. pc = "execute" /\ config.dryRun /\ exit' = "ok" /\ state' = "Stopped"
          /\ UNCHANGED <<sends, live, handler>>
      BY <2>7 DEF DryRunDone, Exit, Deaf
    <3>2. Phase = "minting" /\ Phase' = "over" /\ Result' = "stopped"
      BY <3>1, PhaseFollows DEF Phase, Result
    <3> QED BY <2>7, <3>1, <3>2 DEF Attempts!Next, Attempts!Stop, Attempts!End
  <2>8. ASSUME ExecuteFails, config' = config PROVE [Attempts!Next]_Attempts!vars
    <3>1. pc \in {"execute", "sign", "broadcast"} /\ ~config.dryRun /\ exit' = "err"
          /\ UNCHANGED <<sends, live, handler>>
      BY <2>8 DEF ExecuteFails, Fail, Exit, Deaf
    <3>2. Phase = "minting" /\ Phase' = "over" /\ Result' = "err"
      BY <3>1, PhaseFollows DEF Phase, Result
    <3> QED BY <2>8, <3>1, <3>2 DEF Attempts!Next, Attempts!Fail, Attempts!End
  <2>9. ASSUME Acknowledged, config' = config PROVE [Attempts!Next]_Attempts!vars
    <3>1. /\ pc = "broadcast" /\ ~config.dryRun /\ pc' = "submitted" /\ state' = "Submitted"
          /\ sends' = sends + 1 /\ live' = live + 1 /\ exit' = exit /\ exit = "none"
          /\ handler' = handler
      BY <2>9 DEF Acknowledged, RunInv, LockFollows, StateFollows
    <3>2. /\ Phase = "minting" /\ Result = "none"
          /\ Phase' = "out" /\ Result' = "none"
      BY <3>1, PhaseFollows DEF Phase, Result
    <3>3. sends' - live' = sends - live
      BY <3>1, PhaseFollows
    <3> QED BY <2>9, <3>1, <3>2, <3>3 DEF Attempts!Next, Attempts!Submit
  <2>10. ASSUME Confirm \/ ReceiptShutdown, config' = config
         PROVE  [Attempts!Next]_Attempts!vars
    <3>1. pc = "receipt" /\ exit' = "ok" /\ UNCHANGED <<sends, live, handler>>
          /\ state' \in {"Confirmed", "Stopped"} /\ handler
      BY <2>10 DEF Confirm, ReceiptShutdown, Exit, Deaf, RunInv, StateFollows
    <3>2. Phase = "out" /\ Phase' = "over" /\ Result' \in {"ok", "stopped"}
      BY <3>1, PhaseFollows DEF Phase, Result
    <3>3. Attempts!Confirm \/ Attempts!Stop
      BY <3>1, <3>2 DEF Attempts!Confirm, Attempts!Stop, Attempts!End
    <3> QED BY <2>10, <3>3 DEF Attempts!Next
  <2>11. ASSUME RevertFails, config' = config PROVE [Attempts!Next]_Attempts!vars
    <3>1. /\ pc = "receipt" /\ exit' = "err" /\ sends' = sends /\ live' = live - 1
          /\ handler' = handler /\ handler
      BY <2>11 DEF RevertFails, Exit, Deaf, RunInv, StateFollows
    <3>2. Phase = "out" /\ Phase' = "over" /\ Result' = "err"
      BY <3>1, PhaseFollows DEF Phase, Result
    <3>3. sends' - live' = (sends - live) + 1
      BY <3>1, PhaseFollows
    <3> QED BY <2>11, <3>1, <3>2, <3>3 DEF Attempts!Next, Attempts!Fail, Attempts!End
  <2>12. ASSUME ClosedRevert, config' = config PROVE [Attempts!Next]_Attempts!vars
    <3>1. /\ pc = "receipt" /\ sends' = sends /\ live' = live - 1
          /\ state' = "WaitingForTrigger" /\ exit = "none"
          /\ exit' = exit \/ exit' = "ok"
          /\ handler' = handler /\ handler
      BY <2>12 DEF ClosedRevert, Deaf, RunInv, StateFollows
    <3>2. sends' - live' = (sends - live) + 1 /\ Phase = "out" /\ Result = "none"
      BY <3>1, PhaseFollows
    <3>3. CASE exit' = exit
      <4>1. Phase' = "armed" /\ Result' = "none"
        BY <3>1, <3>3 DEF Phase, Result
      <4> QED BY <2>12, <3>1, <3>2, <4>1 DEF Attempts!Next, Attempts!TryAgain
    <3>4. CASE exit' = "ok"
      <4>1. Phase' = "over" /\ Result' = "ok"
        BY <3>1, <3>4 DEF Phase, Result
      <4> QED BY <2>12, <3>1, <3>2, <4>1 DEF Attempts!Next, Attempts!Abandon, Attempts!End
    <3> QED BY <3>1, <3>3, <3>4
  <2>13. CASE UNCHANGED vars
    BY <2>13 DEF vars, Attempts!vars, Phase, Result
  <2> QED
    BY <2>1, <2>2, <2>3, <2>4, <2>5, <2>6, <2>7, <2>8, <2>9, <2>10, <2>11, <2>12, <2>13
       DEF Next, Arms, Task, Terminated
<1> QED BY <1>1, <1>2, RunInvHolds, PTL DEF Spec, KeepsOneShot, Attempts!Spec

=============================================================================
