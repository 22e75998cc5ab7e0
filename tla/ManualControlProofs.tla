------------------------ MODULE ManualControlProofs ------------------------
(***************************************************************************)
(* Proofs about ManualControl, for any number of runs, clients and ports:  *)
(* an armed run that was never overlapped owns the control file, and the   *)
(* channel implements ManualTrigger.                                       *)
(***************************************************************************)
EXTENDS ManualControl, TLAPS

USE NobodyAssumption DEF Live, Listening, runVars, clientVars, Goes

\* Only an armed run serves, and a client that has read no file asks for nobody.
Served ==
    /\ \A r \in Runs : serving[r] # Nobody => place[r] = "armed"
    /\ \A c \in Clients : client[c] = "start" => of[c] = Nobody

\* A run that was never overlapped is the only live one, so nobody else touches
\* the file between its creation and its end.
OwnsFile ==
    \A r \in alone :
        /\ place[r] # "off"
        /\ Live(r) => \A q \in Runs : Live(q) => q = r
        /\ place[r] \in {"writing", "armed"} => file = r
        /\ place[r] = "armed" => r \in written

\* The invariant holds before any run is started.
LEMMA InitInv == Init => TypeOK /\ Served /\ OwnsFile
BY DEF Init, TypeOK, Served, OwnsFile

\* Every step keeps the types ...
LEMMA TypeInv == TypeOK /\ Served /\ [Next]_vars => TypeOK'
<1> SUFFICES ASSUME TypeOK, Served, [Next]_vars PROVE TypeOK'
  OBVIOUS
<1> USE DEF TypeOK, Served
<1>1. ASSUME NEW r \in Runs, Bind(r) PROVE TypeOK'
  BY <1>1 DEF Bind
<1>2. ASSUME NEW r \in Runs, Create(r) PROVE TypeOK'
  BY <1>2 DEF Create
<1>3. ASSUME NEW r \in Runs, Remove(r) PROVE TypeOK'
  BY <1>3 DEF Remove, Reset, Drop
<1>4. ASSUME NEW r \in Runs, Recreate(r) PROVE TypeOK'
  BY <1>4 DEF Recreate, Reset, Drop
<1>5. ASSUME NEW r \in Runs, Write(r) PROVE TypeOK'
  BY <1>5 DEF Write
<1>6. ASSUME NEW r \in Runs, Take(r) PROVE TypeOK'
  BY <1>6 DEF Take
<1>7. ASSUME NEW r \in Runs, Finish(r) PROVE TypeOK'
  BY <1>7 DEF Finish, Reset, Drop
<1>8. ASSUME NEW r \in Runs, Die(r) PROVE TypeOK'
  BY <1>8 DEF Die, Reset, Drop
<1>9. ASSUME NEW r \in Runs, NEW c \in Clients, Serve(r, c) PROVE TypeOK'
  BY <1>9 DEF Serve
<1>10. ASSUME NEW r \in Runs, NEW c \in Clients, Hear(r, c) PROVE TypeOK'
  BY <1>10 DEF Hear, Reset, Drop
<1>11. ASSUME NEW r \in Runs, NEW c \in Clients, GiveUp(r, c) PROVE TypeOK'
  BY <1>11 DEF GiveUp, Drop
<1>12. ASSUME NEW c \in Clients, ReadFile(c) PROVE TypeOK'
  BY <1>12 DEF ReadFile
<1>13. ASSUME NEW c \in Clients, Connect(c) PROVE TypeOK'
  BY <1>13 DEF Connect
<1>14. ASSUME NEW c \in Clients, SendLine(c) PROVE TypeOK'
  BY <1>14 DEF SendLine
<1>15. CASE UNCHANGED vars
  BY <1>15 DEF vars
<1> QED
  BY <1>1, <1>2, <1>3, <1>4, <1>5, <1>6, <1>7, <1>8, <1>9, <1>10, <1>11, <1>12,
     <1>13, <1>14, <1>15
     DEF Next

\* ... who is served ...
LEMMA ServedInv == TypeOK /\ Served /\ [Next]_vars => Served'
<1> SUFFICES ASSUME TypeOK, Served, [Next]_vars PROVE Served'
  OBVIOUS
<1> USE DEF TypeOK, Served
<1>1. ASSUME NEW r \in Runs, Bind(r) PROVE Served'
  BY <1>1 DEF Bind
<1>2. ASSUME NEW r \in Runs, Create(r) PROVE Served'
  BY <1>2 DEF Create
<1>3. ASSUME NEW r \in Runs, Remove(r) PROVE Served'
  BY <1>3 DEF Remove, Reset, Drop
<1>4. ASSUME NEW r \in Runs, Recreate(r) PROVE Served'
  BY <1>4 DEF Recreate, Reset, Drop
<1>5. ASSUME NEW r \in Runs, Write(r) PROVE Served'
  BY <1>5 DEF Write
<1>6. ASSUME NEW r \in Runs, Take(r) PROVE Served'
  BY <1>6 DEF Take
<1>7. ASSUME NEW r \in Runs, Finish(r) PROVE Served'
  BY <1>7 DEF Finish, Reset, Drop
<1>8. ASSUME NEW r \in Runs, Die(r) PROVE Served'
  BY <1>8 DEF Die, Reset, Drop
<1>9. ASSUME NEW r \in Runs, NEW c \in Clients, Serve(r, c) PROVE Served'
  BY <1>9 DEF Serve
<1>10. ASSUME NEW r \in Runs, NEW c \in Clients, Hear(r, c) PROVE Served'
  BY <1>10 DEF Hear, Reset, Drop
<1>11. ASSUME NEW r \in Runs, NEW c \in Clients, GiveUp(r, c) PROVE Served'
  BY <1>11 DEF GiveUp, Drop
<1>12. ASSUME NEW c \in Clients, ReadFile(c) PROVE Served'
  BY <1>12 DEF ReadFile
<1>13. ASSUME NEW c \in Clients, Connect(c) PROVE Served'
  BY <1>13 DEF Connect
<1>14. ASSUME NEW c \in Clients, SendLine(c) PROVE Served'
  BY <1>14 DEF SendLine
<1>15. CASE UNCHANGED vars
  BY <1>15 DEF vars
<1> QED
  BY <1>1, <1>2, <1>3, <1>4, <1>5, <1>6, <1>7, <1>8, <1>9, <1>10, <1>11, <1>12,
     <1>13, <1>14, <1>15
     DEF Next

\* ... and who owns the file.
LEMMA OwnsInv == TypeOK /\ OwnsFile /\ [Next]_vars => OwnsFile'
<1> SUFFICES ASSUME TypeOK, OwnsFile, [Next]_vars PROVE OwnsFile'
  OBVIOUS
<1> USE DEF TypeOK, OwnsFile
<1>1. ASSUME NEW r \in Runs, Bind(r) PROVE OwnsFile'
  BY <1>1 DEF Bind
<1>2. ASSUME NEW r \in Runs, Create(r) PROVE OwnsFile'
  BY <1>2 DEF Create
<1>3. ASSUME NEW r \in Runs, Remove(r) PROVE OwnsFile'
  BY <1>3 DEF Remove, Reset, Drop
<1>4. ASSUME NEW r \in Runs, Recreate(r) PROVE OwnsFile'
  BY <1>4 DEF Recreate, Reset, Drop
<1>5. ASSUME NEW r \in Runs, Write(r) PROVE OwnsFile'
  BY <1>5 DEF Write
<1>6. ASSUME NEW r \in Runs, Take(r) PROVE OwnsFile'
  BY <1>6 DEF Take
<1>7. ASSUME NEW r \in Runs, Finish(r) PROVE OwnsFile'
  BY <1>7 DEF Finish, Reset, Drop
<1>8. ASSUME NEW r \in Runs, Die(r) PROVE OwnsFile'
  BY <1>8 DEF Die, Reset, Drop
<1>9. ASSUME NEW r \in Runs, NEW c \in Clients, Serve(r, c) PROVE OwnsFile'
  BY <1>9 DEF Serve
<1>10. ASSUME NEW r \in Runs, NEW c \in Clients, Hear(r, c) PROVE OwnsFile'
  BY <1>10 DEF Hear, Reset, Drop
<1>11. ASSUME NEW r \in Runs, NEW c \in Clients, GiveUp(r, c) PROVE OwnsFile'
  BY <1>11 DEF GiveUp, Drop
<1>12. ASSUME NEW c \in Clients, ReadFile(c) PROVE OwnsFile'
  BY <1>12 DEF ReadFile
<1>13. ASSUME NEW c \in Clients, Connect(c) PROVE OwnsFile'
  BY <1>13 DEF Connect
<1>14. ASSUME NEW c \in Clients, SendLine(c) PROVE OwnsFile'
  BY <1>14 DEF SendLine
<1>15. CASE UNCHANGED vars
  BY <1>15 DEF vars
<1> QED
  BY <1>1, <1>2, <1>3, <1>4, <1>5, <1>6, <1>7, <1>8, <1>9, <1>10, <1>11, <1>12,
     <1>13, <1>14, <1>15
     DEF Next

\* Every variable keeps its type, and a listener serves only a connection of its
\* own that is still up.
THEOREM TypeCorrect == Spec => [](TypeOK /\ Served)
BY InitInv, TypeInv, ServedInv, PTL DEF Spec

\* The trigger command finds an armed run of its configuration, unless another
\* run overlapped with it, whatever dead runs left behind.
THEOREM ArmedRunIsFound == Spec => []RunningBotIsFound
<1>1. OwnsFile => RunningBotIsFound
  BY DEF OwnsFile, RunningBotIsFound
<1> QED BY <1>1, InitInv, TypeInv, ServedInv, OwnsInv, PTL DEF Spec

----------------------------------------------------------------------------
\* A run is triggered once, and only by a command that read its own file.
THEOREM TriggersAsAsked == Spec => ImplementsManualTrigger
<1> DEFINE asked == {of[c] : c \in Clients} \ {Nobody}
<1>1. Init => Abstract!Init
  BY DEF Init, Abstract!Init
<1>2. TypeOK /\ Served /\ [Next]_vars => [Abstract!Next]_<<channel, asked>>
  <2> SUFFICES ASSUME TypeOK, Served, [Next]_vars
               PROVE  [Abstract!Next]_<<channel, asked>>
    OBVIOUS
  <2> USE DEF TypeOK, Served
  <2>1. ASSUME NEW c \in Clients, ReadFile(c), file \in written
        PROVE  Abstract!Next
    <3>1. asked' = asked \cup {file} /\ file \in Runs /\ channel' = channel
      BY <2>1 DEF ReadFile
    <3> QED BY <3>1 DEF Abstract!Next, Abstract!Ask
  <2>2. ASSUME NEW r \in Runs, NEW c \in Clients, Hear(r, c), of[c] = r
        PROVE  Abstract!Next
    <3>1. channel[r] = "open" /\ channel' = [channel EXCEPT ![r] = "sent"]
      BY <2>2 DEF Hear
    <3>2. r \in asked /\ asked' = asked
      BY <2>2 DEF Hear
    <3> QED BY <3>1, <3>2 DEF Abstract!Next, Abstract!Send
  <2>3. ASSUME NEW r \in Runs, Take(r) PROVE Abstract!Next
    <3>1. channel[r] = "sent" /\ channel' = [channel EXCEPT ![r] = "closed"]
      BY <2>3 DEF Take
    <3>2. asked' = asked
      BY <2>3 DEF Take
    <3> QED BY <3>1, <3>2 DEF Abstract!Next, Abstract!Take
  <2>4. ASSUME channel' = channel, of' = of
        PROVE  UNCHANGED <<channel, asked>>
    BY <2>4
  <2>5. ASSUME NEW r \in Runs,
               \/ Bind(r) \/ Create(r) \/ Remove(r) \/ Recreate(r) \/ Write(r)
               \/ Finish(r) \/ Die(r)
        PROVE  channel' = channel /\ of' = of
    BY <2>5 DEF Bind, Create, Remove, Recreate, Write, Finish, Die
  <2>6. ASSUME NEW r \in Runs, NEW c \in Clients,
               Serve(r, c) \/ GiveUp(r, c) \/ (Hear(r, c) /\ of[c] # r)
        PROVE  channel' = channel /\ of' = of
    BY <2>6 DEF Serve, Hear, GiveUp
  <2>7. ASSUME NEW c \in Clients,
               Connect(c) \/ SendLine(c) \/ (ReadFile(c) /\ file \notin written)
        PROVE  channel' = channel /\ of' = of
    BY <2>7 DEF ReadFile, Connect, SendLine
  <2>8. CASE Next
    <3> SUFFICES Abstract!Next \/ (channel' = channel /\ of' = of)
      BY <2>4
    <3>1. ASSUME NEW r \in Runs, NEW c \in Clients,
                 Serve(r, c) \/ Hear(r, c) \/ GiveUp(r, c)
          PROVE  Abstract!Next \/ (channel' = channel /\ of' = of)
      BY <3>1, <2>2, <2>6
    <3>2. ASSUME NEW c \in Clients, ReadFile(c) \/ Connect(c) \/ SendLine(c)
          PROVE  Abstract!Next \/ (channel' = channel /\ of' = of)
      BY <3>2, <2>1, <2>7
    <3> QED BY <2>8, <2>3, <2>5, <3>1, <3>2 DEF Next
  <2>9. CASE UNCHANGED vars
    BY <2>9, <2>4 DEF vars
  <2> QED BY <2>8, <2>9
<1> QED
  BY <1>1, <1>2, TypeCorrect, PTL DEF Spec, ImplementsManualTrigger, Abstract!Spec
=============================================================================
