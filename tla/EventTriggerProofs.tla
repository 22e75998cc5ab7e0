------------------------ MODULE EventTriggerProofs -------------------------
(***************************************************************************)
(* Proofs about EventTrigger, for any number of confirmations and any      *)
(* bounds: the bot acts on nothing but a confirmed event that a provider   *)
(* still has, unless it moved meanwhile, and gives none up that the chain  *)
(* keeps.                                                                  *)
(***************************************************************************)
EXTENDS EventTrigger, SequenceTheorems, TLAPS

Blocks == [fork : 0 .. reorgs, event : BOOLEAN]

\* What the node can have announced and the monitor not yet taken: a log whose
\* removal is announced has left the chain for good.
Queueable ==
    {l \in [n : 1 .. Height, fork : 0 .. reorgs, removed : BOOLEAN] :
        l.removed => chain[l.n].fork # l.fork}

\* An event has a place in the chain, on this fork or an earlier one.
Places == [n : 1 .. Height, fork : 0 .. reorgs]

ChainOK ==
    /\ reorgs \in 0 .. MaxReorgs
    /\ chain \in Seq(Blocks)
    /\ Height \in 2 .. MaxHeight
    /\ behind \subseteq Places

QueuesOK == headers \in Seq(2 .. Height) /\ logs \in Seq(Queueable)

\* The monitor knows of no block beyond the chain, so an event it takes to be
\* confirmed has the blocks above it.
SlotOK ==
    /\ lastSeen \in 1 .. Height
    /\ pending \in Places \cup {NoEvent}
    /\ pc \in {"check", "preparing"} => Confirmations <= 1 \/ Height >= Needed(pending)

EventInv == ChainOK /\ QueuesOK /\ SlotOK

\* While the mint is prepared, a provider still has the event, or something moved.
HeldOK == pc = "preparing" => moved \/ pending \in Reported

LEMMA ChainFacts ==
  ASSUME ChainOK
  PROVE  /\ Height \in Nat /\ reorgs \in Nat
         /\ chain \in [1 .. Height -> Blocks]
         /\ \A n \in 1 .. Height : /\ chain[n].fork \in 0 .. reorgs
                                   /\ chain[n].event \in BOOLEAN
<1>1. Height \in Nat /\ reorgs \in Nat
  BY ConstantsAssumption DEF ChainOK
<1>2. chain \in [1 .. Height -> Blocks]
  BY LenProperties DEF ChainOK, Height
<1> QED BY <1>1, <1>2 DEF Blocks

\* An event that is in the chain, with what makes it one.
LEMMA CanonicalFacts ==
  ASSUME ChainOK, NEW event \in CanonicalEvents
  PROVE  event \in Places /\ event.fork = chain[event.n].fork
BY ChainFacts DEF CanonicalEvents, EventAt, Places

\* What providers tell of has a place in the chain too.
LEMMA ReportedFacts == ChainOK => Reported \subseteq Places
BY CanonicalFacts DEF Reported, ChainOK

----------------------------------------------------------------------------
(* The chain and its announcements.                                        *)

\* The chain only grows or is replaced at its end by blocks of a new fork.
Extends == /\ reorgs' >= reorgs
           /\ Height' >= Height
           /\ \A n \in 1 .. Height : chain'[n] = chain[n] \/ chain'[n].fork > reorgs

\* What was queued or seen before is so still.
LEMMA ExtendsKeeps ==
  ASSUME ChainOK, Height' \in Nat, reorgs' \in Nat, Extends
  PROVE  /\ 2 .. Height \subseteq 2 .. Height'
         /\ Places \subseteq Places'
         /\ Queueable \subseteq Queueable'
         /\ SlotOK /\ UNCHANGED engine => SlotOK'
<1>1. /\ Height \in Nat /\ Height' \in Nat /\ reorgs \in Nat /\ reorgs' \in Nat
      /\ Height' >= Height /\ reorgs' >= reorgs
  BY ChainFacts DEF Extends
<1>2. 2 .. Height \subseteq 2 .. Height' /\ 1 .. Height \subseteq 1 .. Height'
  BY <1>1
<1>3. 0 .. reorgs \subseteq 0 .. reorgs'
  BY <1>1
<1>4. Queueable \subseteq Queueable'
  <2> SUFFICES ASSUME NEW l \in Queueable PROVE l \in Queueable'
    OBVIOUS
  <2>1. l \in [n : 1 .. Height', fork : 0 .. reorgs', removed : BOOLEAN]
    BY <1>2, <1>3 DEF Queueable
  <2>2. l.removed => chain'[l.n].fork # l.fork
    <3>1. l.n \in 1 .. Height /\ l.fork \in 0 .. reorgs
          /\ (l.removed => chain[l.n].fork # l.fork)
      BY DEF Queueable
    <3> QED BY <1>1, <3>1 DEF Extends
  <2> QED BY <2>1, <2>2 DEF Queueable
<1>5. ASSUME SlotOK, UNCHANGED engine PROVE SlotOK'
  <2>1. pending' \in Places' \cup {NoEvent}
    BY <1>2, <1>3, <1>5 DEF SlotOK, engine, Places
  <2>2. lastSeen' \in 1 .. Height'
    BY <1>2, <1>5 DEF SlotOK, engine
  <2>3. pc' \in {"check", "preparing"} => Confirmations <= 1 \/ Height' >= Needed(pending')
    <3>1. Needed(pending) \in Int
      BY <1>1, <1>5, ConstantsAssumption DEF SlotOK, Needed, NoEvent, Places
    <3> QED BY <1>1, <1>5, <3>1 DEF SlotOK, engine, Needed
  <2> QED BY <2>1, <2>2, <2>3 DEF SlotOK
<1> QED BY <1>2, <1>3, <1>4, <1>5 DEF Places

\* An announcement of blocks and logs that may be queued leaves the queues well.
LEMMA AnnounceOK ==
  ASSUME ChainOK, Height' \in Nat, reorgs' \in Nat, Extends, QueuesOK,
         NEW hs \in Seq(2 .. Height'), NEW ls \in Seq(Queueable'), Announce(hs, ls)
  PROVE  QueuesOK'
<1>1. headers \in Seq(2 .. Height') /\ logs \in Seq(Queueable')
  BY ExtendsKeeps, SeqMonotonic DEF QueuesOK
<1>2. headers \o hs \in Seq(2 .. Height') /\ logs \o ls \in Seq(Queueable')
  BY <1>1, ConcatProperties
<1> QED BY <1>1, <1>2 DEF Announce, QueuesOK

LEMMA FunctionIsSeq ==
  ASSUME NEW S, NEW k \in Nat, NEW f \in [1 .. k -> S]
  PROVE  f \in Seq(S)
BY SeqDef

LEMMA LogIfOK ==
  ASSUME NEW S, NEW condition, NEW log, condition => log \in S
  PROVE  LogIf(condition, log) \in Seq(S)
<1>1. CASE condition
  <2>1. log \in S /\ LogIf(condition, log) = <<log>>
    BY <1>1 DEF LogIf
  <2> QED BY <2>1
<1>2. CASE ~condition
  <2>1. LogIf(condition, log) = <<>>
    BY <1>2 DEF LogIf
  <2> QED BY <2>1, EmptySeq
<1> QED BY <1>1, <1>2

LEMMA NewBlockInv == EventInv /\ NewBlock => EventInv'
<1> SUFFICES ASSUME EventInv, NewBlock PROVE EventInv'
  OBVIOUS
<1>0. ChainOK /\ QueuesOK /\ SlotOK
  BY DEF EventInv
<1>1. PICK event \in BOOLEAN :
         /\ event => MayHold(Height + 1) /\ Cardinality(CanonicalEvents) < MaxEvents
         /\ chain' = Append(chain, [fork |-> reorgs, event |-> event])
         /\ Announce(<<Height + 1>>, LogIf(event, Log(Height + 1, reorgs, FALSE)))
  BY DEF NewBlock
<1>2. reorgs' = reorgs /\ Height < MaxHeight /\ Height \in 2 .. MaxHeight /\ reorgs \in Nat
  BY <1>0, ChainFacts DEF NewBlock, ChainOK
<1>3. /\ chain' \in Seq(Blocks) /\ Height' = Height + 1
      /\ \A n \in 1 .. Height : chain'[n] = chain[n]
  <2>1. chain \in Seq(Blocks) /\ [fork |-> reorgs, event |-> event] \in Blocks
    BY <1>0, <1>2 DEF ChainOK, Blocks
  <2> QED BY <1>1, <2>1 DEF Height
<1>4. ChainOK' /\ Extends /\ Height' \in Nat /\ reorgs' \in Nat
  <2>1. Extends /\ Height' \in 2 .. MaxHeight /\ Blocks' = Blocks
    BY <1>2, <1>3, ConstantsAssumption DEF Blocks, Extends
  <2>2. Places \subseteq Places'
    BY <1>0, <1>2, <2>1, ConstantsAssumption, ExtendsKeeps
  <2>3. behind' = behind
    BY DEF NewBlock
  <2> QED BY <1>0, <1>2, <1>3, <2>1, <2>2, <2>3, ConstantsAssumption DEF ChainOK
<1>5. <<Height + 1>> \in Seq(2 .. Height')
  BY <1>2, <1>3
<1>6. LogIf(event, Log(Height + 1, reorgs, FALSE)) \in Seq(Queueable')
  <2>1. Log(Height + 1, reorgs, FALSE) \in Queueable'
    BY <1>2, <1>3 DEF Log, Queueable
  <2> QED BY <2>1, LogIfOK
<1>7. QueuesOK'
  BY <1>0, <1>1, <1>4, <1>5, <1>6, AnnounceOK
<1>8. SlotOK'
  BY <1>0, <1>1, <1>4, ExtendsKeeps DEF Announce
<1> QED BY <1>4, <1>7, <1>8 DEF EventInv

LEMMA LaterBlockInv == EventInv /\ LaterBlock => EventInv'
<1> SUFFICES ASSUME EventInv, LaterBlock PROVE EventInv'
  OBVIOUS
<1>0. ChainOK /\ QueuesOK /\ SlotOK
  BY DEF EventInv
<1>1. /\ Announce(<<MaxHeight>>, <<>>) /\ Height = MaxHeight
      /\ chain' = chain /\ behind' = behind /\ reorgs' = reorgs
  BY DEF LaterBlock
<1>2. ChainOK' /\ Extends /\ Height' \in Nat /\ reorgs' \in Nat
  BY <1>0, <1>1, ChainFacts DEF ChainOK, Blocks, Places, Extends, Height
<1>3. <<MaxHeight>> \in Seq(2 .. Height')
  <2>1. MaxHeight \in 2 .. Height'
    BY <1>1, ConstantsAssumption DEF Height
  <2> QED BY <2>1
<1>4. <<>> \in Seq(Queueable')
  BY EmptySeq
<1>5. QueuesOK'
  BY <1>0, <1>1, <1>2, <1>3, <1>4, AnnounceOK
<1>6. SlotOK'
  BY <1>0, <1>1, <1>2, ExtendsKeeps DEF Announce
<1> QED BY <1>2, <1>5, <1>6 DEF EventInv

\* The removed blocks carry an older fork than the ones in their place.
LEMMA ReorganiseInv == EventInv /\ Reorganise => EventInv'
<1> SUFFICES ASSUME EventInv, Reorganise PROVE EventInv'
  OBVIOUS
<1>0. ChainOK /\ QueuesOK /\ SlotOK
  BY DEF EventInv
<1> DEFINE Replaced(from) == [i \in 1 .. Height + 1 - from |-> from + i - 1]
           Removed(n) == Log(n, chain[n].fork, TRUE)
<1>1. PICK from \in (Height - 1 .. Height) \ {1, 2}, at \in 0 .. Height :
         /\ at # 0 => at >= from
         /\ chain' = [n \in 1 .. Height |->
                         IF n < from THEN chain[n]
                                     ELSE [fork |-> reorgs + 1, event |-> n = at]]
         /\ behind' \subseteq behind \cup CanonicalEvents
         /\ Announce(Replaced(from),
                     LogIf(chain[from].event, Removed(from))
                     \o LogIf(from < Height /\ chain[Height].event, Removed(Height))
                     \o LogIf(at # 0, Log(at, reorgs + 1, FALSE)))
  BY DEF Reorganise
<1>2. /\ reorgs' = reorgs + 1 /\ reorgs' \in 0 .. MaxReorgs
      /\ Height \in 2 .. MaxHeight /\ Height \in Nat /\ reorgs \in Nat /\ MaxHeight \in Nat
  BY <1>0, ChainFacts, ConstantsAssumption DEF Reorganise, ChainOK
<1>3. from \in 3 .. Height
  BY <1>2
<1>4. chain' \in [1 .. Height -> Blocks']
  <2>1. \A n \in 1 .. Height : chain[n] \in Blocks'
    BY <1>0, <1>2, ChainFacts DEF Blocks
  <2>2. \A n \in 1 .. Height : [fork |-> reorgs + 1, event |-> n = at] \in Blocks'
    BY <1>2 DEF Blocks
  <2> QED BY <1>1, <2>1, <2>2
<1>5. chain' \in Seq(Blocks') /\ Height' = Height
  BY <1>2, <1>4 DEF Height
<1>6. ChainOK' /\ Extends /\ Height' \in Nat /\ reorgs' \in Nat
  <2>1. \A n \in 1 .. Height : chain'[n] = chain[n] \/ chain'[n].fork > reorgs
    BY <1>1, <1>2
  <2>2. Extends
    BY <1>2, <1>5, <2>1 DEF Extends
  <2>3. behind' \subseteq Places
    BY <1>0, <1>1, CanonicalFacts DEF ChainOK
  <2>4. Places \subseteq Places'
    BY <1>0, <1>2, <1>5, <2>2, ExtendsKeeps
  <2> QED BY <1>2, <1>5, <2>2, <2>3, <2>4 DEF ChainOK
<1>7. Replaced(from) \in Seq(2 .. Height')
  <2>1. \A i \in 1 .. Height + 1 - from : from + i - 1 \in 2 .. Height'
    BY <1>2, <1>3, <1>5
  <2>2. Height + 1 - from \in Nat
    BY <1>2, <1>3
  <2>3. [i \in 1 .. Height + 1 - from |-> from + i - 1]
           \in [1 .. Height + 1 - from -> 2 .. Height']
    BY <2>1
  <2> HIDE DEF Replaced
  <2>4. [i \in 1 .. Height + 1 - from |-> from + i - 1] \in Seq(2 .. Height')
    BY <2>2, <2>3, FunctionIsSeq
  <2> QED BY <2>4 DEF Replaced
<1>8. \A n \in from .. Height : Removed(n) \in Queueable'
  <2> SUFFICES ASSUME NEW n \in from .. Height PROVE Removed(n) \in Queueable'
    OBVIOUS
  <2>1. n \in 1 .. Height' /\ chain[n].fork \in 0 .. reorgs /\ chain'[n].fork = reorgs + 1
    BY <1>0, <1>1, <1>2, <1>3, <1>5, ChainFacts
  <2> QED BY <1>2, <2>1 DEF Log, Queueable
<1>9. at # 0 => Log(at, reorgs + 1, FALSE) \in Queueable'
  BY <1>2, <1>5 DEF Log, Queueable
<1>10. /\ LogIf(chain[from].event, Removed(from)) \in Seq(Queueable')
       /\ LogIf(from < Height /\ chain[Height].event, Removed(Height)) \in Seq(Queueable')
       /\ LogIf(at # 0, Log(at, reorgs + 1, FALSE)) \in Seq(Queueable')
  <2>1. Removed(from) \in Queueable' /\ Removed(Height) \in Queueable'
    <3>1. from \in from .. Height /\ Height \in from .. Height
      BY <1>2, <1>3
    <3> HIDE DEF Removed
    <3> QED BY <1>8, <3>1
  <2> QED BY <1>9, <2>1, LogIfOK
<1>11. LogIf(chain[from].event, Removed(from))
       \o LogIf(from < Height /\ chain[Height].event, Removed(Height))
       \o LogIf(at # 0, Log(at, reorgs + 1, FALSE)) \in Seq(Queueable')
  BY <1>10, ConcatProperties
<1>12. QueuesOK'
  BY <1>0, <1>1, <1>6, <1>7, <1>11, AnnounceOK
<1>13. SlotOK'
  BY <1>0, <1>1, <1>6, ExtendsKeeps DEF Announce
<1> QED BY <1>6, <1>12, <1>13 DEF EventInv

\* Providers that catch up leave nothing behind.
LEMMA CatchUpInv == EventInv /\ CatchUp => EventInv'
<1> SUFFICES ASSUME EventInv, CatchUp PROVE EventInv'
  OBVIOUS
<1>1. UNCHANGED <<chain, ws, engine, reorgs>> /\ behind' = {}
  BY DEF CatchUp
<1>2. Height' = Height
  BY <1>1 DEF Height
<1>3. Queueable' = Queueable /\ Places' = Places /\ Blocks' = Blocks
  BY <1>1, <1>2 DEF Queueable, Places, Blocks
<1> QED BY <1>1, <1>2, <1>3 DEF EventInv, ChainOK, QueuesOK, SlotOK, Needed, ws, engine

----------------------------------------------------------------------------
(* The monitor.                                                            *)

\* The queues get shorter.
LEMMA TakenOK ==
  ASSUME QueuesOK
  PROVE  /\ headers # <<>> => Head(headers) \in 2 .. Height /\ Tail(headers) \in Seq(2 .. Height)
         /\ logs # <<>> => Head(logs) \in Queueable /\ Tail(logs) \in Seq(Queueable)
BY HeadTailProperties DEF QueuesOK

\* A step of the monitor leaves the chain alone.
LEMMA SameChain ==
  ASSUME UNCHANGED <<chain, behind, reorgs>>
  PROVE  /\ Height' = Height /\ Queueable' = Queueable /\ Places' = Places
         /\ ChainOK => ChainOK'
         /\ QueuesOK /\ UNCHANGED <<headers, logs>> => QueuesOK'
<1>1. Height' = Height
  BY DEF Height
<1>2. Queueable' = Queueable /\ Places' = Places
  BY <1>1 DEF Queueable, Places
<1> QED BY <1>1, <1>2 DEF ChainOK, Blocks, QueuesOK

LEMMA TakeHeaderInv == EventInv /\ TakeHeader => EventInv'
<1> SUFFICES ASSUME EventInv, TakeHeader PROVE EventInv'
  OBVIOUS
<1>0. ChainOK /\ QueuesOK /\ SlotOK
  BY DEF EventInv
<1>1. UNCHANGED <<chain, behind, reorgs, logs, pending>> /\ headers' = Tail(headers)
  BY DEF TakeHeader
<1>2. Head(headers) \in 2 .. Height /\ headers' \in Seq(2 .. Height)
  BY <1>0, <1>1, TakenOK DEF TakeHeader
<1>3. ChainOK' /\ QueuesOK'
  BY <1>0, <1>1, <1>2, SameChain DEF QueuesOK
<1>4. SlotOK'
  <2>1. lastSeen' \in 1 .. Height' /\ pc' \in {"check", "select"}
    BY <1>1, <1>2, SameChain DEF TakeHeader
  <2>2. Needed(pending) \in Int
    BY <1>0, ChainFacts, ConstantsAssumption DEF SlotOK, Needed, NoEvent, Places
  <2>3. pc' = "check" => Height >= Needed(pending)
    BY <1>0, <1>2, <2>2, ChainFacts DEF TakeHeader
  <2> QED BY <1>0, <1>1, <2>1, <2>3, SameChain DEF SlotOK, Needed
<1> QED BY <1>3, <1>4 DEF EventInv

LEMMA TakeLogInv == EventInv /\ TakeLog => EventInv'
<1> SUFFICES ASSUME EventInv, TakeLog PROVE EventInv'
  OBVIOUS
<1>0. ChainOK /\ QueuesOK /\ SlotOK
  BY DEF EventInv
<1> DEFINE event == [n |-> Head(logs).n, fork |-> Head(logs).fork]
<1>1. UNCHANGED <<chain, behind, reorgs, headers, lastSeen>> /\ logs' = Tail(logs)
  BY DEF TakeLog
<1>2. Head(logs) \in Queueable /\ logs' \in Seq(Queueable)
  BY <1>0, <1>1, TakenOK DEF TakeLog
<1>3. ChainOK' /\ QueuesOK'
  BY <1>0, <1>1, <1>2, SameChain DEF QueuesOK
<1>4. event \in Places
  BY <1>2 DEF Queueable, Places
<1>5. SlotOK'
  <2>1. pending' \in {event, NoEvent, pending}
    BY DEF TakeLog
  <2>2. pc' \in {"select", "check"} /\ (pc' = "check" => Confirmations <= 1)
    BY DEF TakeLog
  <2> QED BY <1>0, <1>1, <1>4, <2>1, <2>2, SameChain DEF SlotOK
<1> QED BY <1>3, <1>5 DEF EventInv

LEMMA BackfillInv == EventInv /\ Backfill => EventInv'
<1> SUFFICES ASSUME EventInv, Backfill PROVE EventInv'
  OBVIOUS
<1>0. ChainOK /\ QueuesOK /\ SlotOK
  BY DEF EventInv
<1>1. UNCHANGED <<chain, behind, reorgs, headers, logs>>
  BY DEF Backfill, ws
<1>2. PICK to \in SeenHeights, missed \in SUBSET Reported :
         /\ lastSeen' = to
         /\ pending' = pending \/ pending' \in missed
         /\ pc' \in {"select", "check"} /\ (pc' = "check" => Confirmations <= 1)
  BY DEF Backfill
<1>3. lastSeen' \in 1 .. Height
  BY <1>0, <1>2, ChainFacts DEF ChainOK, SeenHeights
<1>4. pending' \in Places \cup {NoEvent}
  BY <1>0, <1>2, ReportedFacts DEF SlotOK
<1>5. SlotOK'
  BY <1>1, <1>2, <1>3, <1>4, SameChain DEF SlotOK
<1> QED BY <1>0, <1>1, <1>5, SameChain DEF EventInv

\* The steps that only leave the slot, empty it or wait.
LEMMA OtherInv ==
  ASSUME EventInv,
         \/ Disconnect \/ SilentReconnect \/ IsCanonical \/ Discard \/ ReadFails
         \/ NotPrepared \/ Triggered \/ Reconnect \/ UNCHANGED vars
  PROVE  EventInv'
<1>0. ChainOK /\ QueuesOK /\ SlotOK
  BY DEF EventInv
<1>1. /\ UNCHANGED <<chain, behind, reorgs, lastSeen>>
      /\ UNCHANGED <<headers, logs>> \/ (headers' = <<>> /\ logs' = <<>>)
      /\ pending' \in {pending, NoEvent}
      /\ pc' \in {"check", "preparing"} =>
             pc \in {"check", "preparing"} /\ pending' = pending
  <2>1. CASE Disconnect \/ SilentReconnect
    BY <2>1 DEF Disconnect, SilentReconnect, engine
  <2>2. CASE Discard
    BY <2>2 DEF Discard, ws
  <2>3. CASE ReadFails
    BY <2>3 DEF ReadFails, ws
  <2>4. CASE IsCanonical \/ NotPrepared \/ Triggered
    BY <2>4 DEF IsCanonical, NotPrepared, Triggered, ws
  <2>5. CASE Reconnect
    BY <2>5 DEF Reconnect
  <2>6. CASE UNCHANGED vars
    BY <2>6 DEF vars, ws, engine
  <2> QED BY <2>1, <2>2, <2>3, <2>4, <2>5, <2>6
<1>2. ChainOK' /\ QueuesOK'
  BY <1>0, <1>1, SameChain, EmptySeq DEF QueuesOK
<1>3. SlotOK'
  BY <1>0, <1>1, SameChain DEF SlotOK, Needed
<1> QED BY <1>2, <1>3 DEF EventInv

\* The rest of the state: the bounds' counters, the place and the histories.
RestOK ==
    /\ connected \in BOOLEAN /\ lost \in BOOLEAN /\ moved \in BOOLEAN
    /\ drops \in 0 .. MaxDrops /\ fails \in 0 .. MaxFails
    /\ pc \in {"select", "check", "preparing", "backfill", "triggered"}
    /\ pc \in {"check", "preparing", "triggered"} => pending # NoEvent
    /\ known \subseteq Events
    /\ acted \in [reported : BOOLEAN, depth : Nat]

\* What has a place in the chain is an event.
LEMMA EventsType ==
  ASSUME ChainOK
  PROVE  Places \subseteq Events \ {NoEvent}
<1>1. Height \in 2 .. MaxHeight /\ reorgs \in 0 .. MaxReorgs
  BY DEF ChainOK
<1> QED BY <1>1, ConstantsAssumption DEF Events, NoEvent, Places

LEMMA BoundsType == /\ MaxDrops \in Nat /\ MaxFails \in Nat
                    /\ MaxReorgs \in Nat /\ Confirmations \in Nat
BY ConstantsAssumption

\* A sequence over a set is one over any larger set.
LEMMA SeqOfMore ==
  ASSUME NEW S, NEW T, S \subseteq T, NEW seq \in Seq(S)
  PROVE  seq \in Seq(T)
<1>1. Len(seq) \in Nat /\ seq \in [1 .. Len(seq) -> S]
  BY LenProperties
<1>2. seq \in [1 .. Len(seq) -> T]
  BY <1>1
<1> QED BY <1>1, <1>2, FunctionIsSeq

LEMMA RestInv == EventInv /\ RestOK /\ [Next]_vars => RestOK'
<1> SUFFICES ASSUME EventInv, RestOK, [Next]_vars PROVE RestOK'
  OBVIOUS
<1>0. ChainOK /\ QueuesOK /\ SlotOK
  BY DEF EventInv
<1>1. CASE NewBlock \/ LaterBlock \/ Reorganise \/ CatchUp
  BY <1>1 DEF NewBlock, LaterBlock, Reorganise, CatchUp, Announce, ws, engine, RestOK
<1>2. CASE Disconnect
  <2>1. drops' \in 0 .. MaxDrops
    BY <1>2, BoundsType DEF Disconnect, RestOK
  <2>2. connected' \in BOOLEAN
    BY <1>2 DEF Disconnect
  <2>3. UNCHANGED <<pending, pc, fails, known, moved, acted, lost>>
    BY <1>2 DEF Disconnect, engine, history
  <2> QED BY <2>1, <2>2, <2>3 DEF RestOK
<1>3. CASE TakeHeader
  BY <1>3 DEF TakeHeader, history, RestOK
<1>4. CASE TakeLog
  <2> DEFINE log == Head(logs)
             event == [n |-> log.n, fork |-> log.fork]
  <2>1. log.n \in 1 .. Height /\ log.fork \in 0 .. reorgs
    BY <1>0, <1>4, TakenOK DEF TakeLog, Queueable
  <2>2. Height \in 2 .. MaxHeight /\ reorgs \in 0 .. MaxReorgs
    BY <1>0 DEF ChainOK
  <2>3. event \in Events /\ event # NoEvent
    BY <2>1, <2>2, ConstantsAssumption DEF Events, NoEvent
  <2>4. lost' \in BOOLEAN /\ known' \subseteq Events
    BY <1>4, <2>3 DEF TakeLog, Forgets, RestOK
  <2>5. /\ pc' \in {"select", "check"}
        /\ pc' = "check" => pending' # NoEvent
    BY <1>4, <2>3 DEF TakeLog, RestOK
  <2> QED BY <1>4, <2>4, <2>5 DEF TakeLog, RestOK
<1>5. CASE Triggered
  <2>1. Height - pending.n + 1 \in Nat
    BY <1>0, ChainFacts DEF SlotOK, NoEvent, Places
  <2>2. (pending \in Reported \/ moved) \in BOOLEAN
    BY DEF RestOK
  <2>3. acted' \in [reported : BOOLEAN, depth : Nat]
    BY <1>5, <2>1, <2>2 DEF Triggered
  <2> QED BY <1>5, <2>3 DEF Triggered, ws, RestOK
<1>6. CASE Discard \/ ReadFails
  <2>1. fails' \in 0 .. MaxFails
    BY <1>6, BoundsType DEF Discard, ReadFails, RestOK
  <2>2. lost' \in BOOLEAN
    BY <1>6 DEF Discard, ReadFails, Forgets
  <2>3. UNCHANGED <<connected, drops, known, moved, acted>> /\ pc' = "select"
    BY <1>6 DEF Discard, ReadFails, ws
  <2> QED BY <2>1, <2>2, <2>3 DEF RestOK
<1>7. CASE IsCanonical \/ NotPrepared \/ Reconnect \/ SilentReconnect
  BY <1>7 DEF IsCanonical, NotPrepared, Reconnect, SilentReconnect, ws, engine, history,
              RestOK
<1>8. CASE Backfill
  <2>1. PICK missed \in SUBSET Reported :
           /\ fails' \in {fails, fails + 1} /\ fails' <= MaxFails
           /\ known' = known \cup missed /\ lost' \in BOOLEAN
           /\ pc' \in {"select", "check"}
           /\ pc' = "check" => pending' \in missed
    <3>1. PICK to \in SeenHeights, missed \in SUBSET Reported :
             /\ \E range : fails' = fails + (IF range \cap CanonicalEvents \subseteq missed
                                            THEN 0 ELSE 1)
             /\ fails' <= MaxFails
             /\ IF missed = {}
                THEN pending' = pending /\ pc' = "select"
                ELSE /\ pending' \in missed
                     /\ pc' = IF Confirmations <= 1 THEN "check" ELSE "select"
             /\ known' = known \cup missed
             /\ lost' \in BOOLEAN
      BY <1>8 DEF Backfill, RestOK
    <3>2. fails \in Nat
      BY BoundsType DEF RestOK
    <3> QED BY <3>1, <3>2
  <2>2. missed \subseteq Events \ {NoEvent}
    BY <1>0, ReportedFacts, EventsType
  <2>3. fails' \in 0 .. MaxFails
    BY <2>1, BoundsType DEF RestOK
  <2> QED BY <1>8, <2>1, <2>2, <2>3 DEF Backfill, ws, RestOK
<1>9. CASE UNCHANGED vars
  BY <1>9 DEF vars, ws, engine, history, RestOK
<1> QED BY <1>1, <1>2, <1>3, <1>4, <1>5, <1>6, <1>7, <1>8, <1>9 DEF Next, Monitor, Done

----------------------------------------------------------------------------
(* The theorems.                                                           *)

LEMMA InitInv == Init => EventInv
<1> SUFFICES ASSUME Init PROVE EventInv
  OBVIOUS
<1>1. ChainOK /\ Height = 2
  <2>1. chain \in [1 .. 2 -> Blocks]
    BY DEF Init, Blocks
  <2>2. chain \in Seq(Blocks)
    BY <2>1, FunctionIsSeq
  <2>3. Len(chain) = 2
    BY <2>2, LenProperties DEF Init
  <2>4. behind = {}
    BY DEF Init
  <2> QED BY <2>2, <2>3, <2>4, ConstantsAssumption DEF Init, ChainOK, Height
<1>2. QueuesOK
  BY EmptySeq DEF Init, QueuesOK
<1>3. SlotOK
  BY <1>1, ConstantsAssumption DEF Init, SlotOK
<1> QED BY <1>1, <1>2, <1>3 DEF EventInv

\* What the monitor knows is about the chain as it is or was, throughout.
THEOREM EventInvHolds == Spec => []EventInv
<1>1. EventInv /\ [Next]_vars => EventInv'
  BY NewBlockInv, LaterBlockInv, ReorganiseInv, CatchUpInv, TakeHeaderInv, TakeLogInv,
     BackfillInv, OtherInv DEF Next, Monitor, Done
<1> QED BY InitInv, <1>1, PTL DEF Spec

\* Every variable keeps its type, and no event is checked, prepared for or acted
\* upon without one in the slot.
THEOREM TypeCorrect == Spec => []TypeOK
<1>1. Init => RestOK
  <2> SUFFICES ASSUME Init PROVE RestOK
    OBVIOUS
  <2>1. drops \in 0 .. MaxDrops /\ fails \in 0 .. MaxFails
    BY BoundsType DEF Init
  <2>2. acted \in [reported : BOOLEAN, depth : Nat]
    BY BoundsType DEF Init
  <2> QED BY <2>1, <2>2 DEF Init, RestOK
<1>2. EventInv /\ RestOK => TypeOK
  <2> SUFFICES ASSUME EventInv, RestOK PROVE TypeOK
    OBVIOUS
  <2>1. ChainOK /\ QueuesOK /\ SlotOK /\ Height \in 2 .. MaxHeight /\ reorgs \in 0 .. MaxReorgs
    BY DEF EventInv, ChainOK
  <2>2. 2 .. Height \subseteq 1 .. MaxHeight /\ 1 .. Height \subseteq 1 .. MaxHeight
        /\ 0 .. reorgs \subseteq 0 .. MaxReorgs
    BY <2>1, ConstantsAssumption
  <2>3. chain \in Seq([fork : 0 .. MaxReorgs, event : BOOLEAN])
    <3>1. Blocks \subseteq [fork : 0 .. MaxReorgs, event : BOOLEAN]
      BY <2>2 DEF Blocks
    <3> QED BY <2>1, <3>1, SeqOfMore DEF ChainOK
  <2>4. headers \in Seq(1 .. MaxHeight)
    BY <2>1, <2>2, SeqOfMore DEF QueuesOK
  <2>5. logs \in Seq([n : 1 .. MaxHeight, fork : 0 .. MaxReorgs, removed : BOOLEAN])
    <3>1. Queueable \subseteq [n : 1 .. MaxHeight, fork : 0 .. MaxReorgs, removed : BOOLEAN]
      BY <2>2 DEF Queueable
    <3> QED BY <2>1, <3>1, SeqOfMore DEF QueuesOK
  <2>6. pending \in Events \cup {NoEvent} /\ lastSeen \in 1 .. MaxHeight
    BY <2>1, <2>2 DEF SlotOK, Events, Places
  <2>7. behind \subseteq Events
    BY <2>1, EventsType DEF ChainOK
  <2> QED BY <2>1, <2>3, <2>4, <2>5, <2>6, <2>7 DEF TypeOK, RestOK, Height
<1> QED BY EventInvHolds, RestInv, <1>1, <1>2, PTL DEF Spec

\* While the mint is prepared, what no provider has any more was there when the
\* preparation began.
LEMMA HeldInv == EventInv /\ HeldOK /\ [Next]_vars => HeldOK'
<1> SUFFICES ASSUME EventInv, HeldOK, [Next]_vars, pc' = "preparing"
             PROVE  moved' \/ pending' \in Reported'
  BY DEF HeldOK
<1>0. ChainOK
  BY DEF EventInv
<1>1. CASE NewBlock
  <2>1. pc = "preparing" /\ UNCHANGED <<pending, moved, behind>>
    BY <1>1 DEF NewBlock, Announce, engine
  <2>2. CanonicalEvents \subseteq CanonicalEvents'
    <3>1. PICK event \in BOOLEAN : chain' = Append(chain, [fork |-> reorgs, event |-> event])
      BY <1>1 DEF NewBlock
    <3>2. /\ Height \in Nat /\ Height' = Height + 1
          /\ \A n \in 1 .. Height : chain'[n] = chain[n]
      BY <1>0, <3>1 DEF ChainOK, Height
    <3> QED BY <3>2 DEF CanonicalEvents, EventAt
  <2> QED BY <2>1, <2>2 DEF HeldOK, Reported
<1>2. CASE Reorganise \/ CatchUp
  BY <1>2 DEF Reorganise, CatchUp, Announce, engine
<1>3. CASE IsCanonical
  BY <1>3 DEF IsCanonical, Reported, CanonicalEvents, EventAt, Height
<1>4. CASE LaterBlock \/ Disconnect \/ SilentReconnect \/ UNCHANGED vars
  <2>1. UNCHANGED <<chain, behind, moved, pending, pc>>
    BY <1>4 DEF LaterBlock, Disconnect, SilentReconnect, Announce, vars, engine, history
  <2> QED BY <2>1 DEF HeldOK, Reported, CanonicalEvents, EventAt, Height
<1>5. CASE TakeHeader \/ TakeLog \/ Discard \/ ReadFails \/ NotPrepared \/ Triggered
           \/ Reconnect \/ Backfill
  BY <1>5 DEF TakeHeader, TakeLog, Discard, ReadFails, NotPrepared, Triggered, Reconnect,
              Backfill
<1> QED BY <1>1, <1>2, <1>3, <1>4, <1>5 DEF Next, Monitor, Done

\* The bot acts only on a confirmed event that the chain or a provider has, or
\* that one of them left while the mint was prepared.
THEOREM ConfirmedEvent == Spec => []ActsOnConfirmedEvent
<1>1. Init => HeldOK /\ ActsOnConfirmedEvent
  BY ConstantsAssumption DEF Init, HeldOK, ActsOnConfirmedEvent
<1>2. EventInv /\ HeldOK /\ ActsOnConfirmedEvent /\ [Next]_vars => ActsOnConfirmedEvent'
  <2> SUFFICES ASSUME EventInv, HeldOK, ActsOnConfirmedEvent, [Next]_vars
               PROVE  ActsOnConfirmedEvent'
    OBVIOUS
  <2>1. CASE Triggered
    <3>1. acted'.reported
      BY <2>1 DEF Triggered, HeldOK
    <3>2. ChainOK /\ SlotOK /\ pc = "preparing"
      BY <2>1 DEF EventInv, Triggered
    <3>3. Height - pending.n + 1 >= Confirmations
      <4>1. pending.n \in 0 .. Height /\ Height \in Nat /\ Confirmations \in Nat
        BY <3>2, ChainFacts, ConstantsAssumption DEF SlotOK, Places, NoEvent
      <4> QED BY <3>2, <4>1 DEF SlotOK, Needed
    <3> QED BY <2>1, <3>1, <3>3 DEF Triggered, ActsOnConfirmedEvent
  <2>2. CASE ~Triggered
    <3>1. acted' = acted
      BY <2>2 DEF Next, Monitor, Done, NewBlock, LaterBlock, Reorganise, CatchUp, Announce,
                  Disconnect, SilentReconnect, TakeHeader, TakeLog, IsCanonical, Discard,
                  ReadFails, NotPrepared, Reconnect, Backfill, vars, history
    <3> QED BY <3>1 DEF ActsOnConfirmedEvent
  <2> QED BY <2>1, <2>2
<1> QED BY EventInvHolds, HeldInv, <1>1, <1>2, PTL DEF Spec

\* An event of the chain is given up for no other reason than a failed read.
THEOREM NothingDiscarded == Spec => DiscardsOnlyNonCanonical
<1> DEFINE Keeps ==
       pending # NoEvent /\ pending' = NoEvent => ~Canonical(pending) \/ ReadFails
<1>1. EventInv /\ [Next]_vars => Keeps
  <2> SUFFICES ASSUME EventInv, [Next]_vars, pending # NoEvent, pending' = NoEvent,
                      Canonical(pending), ~ReadFails
               PROVE  FALSE
    OBVIOUS
  <2>0. ChainOK /\ QueuesOK /\ SlotOK
    BY DEF EventInv
  <2>1. CASE TakeLog
    <3>1. /\ Head(logs).removed
          /\ pending = [n |-> Head(logs).n, fork |-> Head(logs).fork]
      <4>1. Head(logs) \in Queueable
        BY <2>0, <2>1, TakenOK DEF TakeLog
      <4>2. Head(logs).n # 0
        BY <4>1 DEF Queueable
      <4> QED BY <2>1, <4>2 DEF TakeLog, NoEvent
    <3>2. chain[pending.n].fork # pending.fork
      BY <2>0, <2>1, <3>1, TakenOK DEF TakeLog, Queueable
    <3> QED BY <2>0, <3>2, CanonicalFacts DEF Canonical
  <2>2. CASE Backfill
    <3>1. NoEvent \in Reported
      BY <2>2 DEF Backfill
    <3> QED BY <2>0, <3>1, ReportedFacts DEF NoEvent, Places
  <2>3. CASE Discard
    BY <2>3 DEF Discard
  <2>4. CASE ~(TakeLog \/ Backfill \/ Discard)
    BY <2>4 DEF Next, Monitor, Done, NewBlock, LaterBlock, Reorganise, CatchUp, Announce,
                Disconnect, SilentReconnect, TakeHeader, IsCanonical, NotPrepared, Triggered, Reconnect, engine, vars
  <2> QED BY <2>1, <2>2, <2>3, <2>4
<1>2. EventInv /\ [Next]_vars => [Keeps]_vars
  BY <1>1
<1> QED BY EventInvHolds, <1>2, PTL DEF Spec, DiscardsOnlyNonCanonical
=============================================================================
