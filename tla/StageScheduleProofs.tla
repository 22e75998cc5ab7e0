------------------------ MODULE StageScheduleProofs ------------------------
(***************************************************************************)
(* Theorems about StageSchedule, for any schedules and any edits of them.  *)
(***************************************************************************)
EXTENDS StageSchedule, FiniteSetTheorems, TLAPS

(* The least of some numbers, and numbers listed in order: what Min of     *)
(* RefreshedIndex and the CHOOSE of Unexpired stand for.                   *)

\* The library's induction, as the existence of a least element.
LEMMA LeastExists ==
  ASSUME NEW S, S \subseteq Nat, S # {}
  PROVE  \E x \in S : \A y \in S : x <= y
<1> DEFINE R == OpToRel(<, Nat)
<1>1. IsWellFoundedOn(R, Nat)
  BY NatLessThanWellFounded
<1>2. \A x, y \in S : <<y, x>> \in R <=> y < x
  BY DEF OpToRel
<1> HIDE DEF R
<1>3. PICK x \in S : \A y \in S : ~ (<<y, x>> \in R)
  BY <1>1, WFMin
<1>4. \A y \in S : ~ (y < x)
  BY <1>2, <1>3
<1> QED BY <1>4

LEMMA MinIsLeast ==
  ASSUME NEW S, S \subseteq Nat, S # {}
  PROVE  Min(S) \in S /\ \A y \in S : Min(S) <= y
<1>1. PICK x \in S : \A y \in S : x <= y
  BY LeastExists
<1> QED BY <1>1 DEF Min

Increasing(f) == \A i, j \in DOMAIN f : i < j => f[i] < f[j]

\* Positions of a list can be listed in order: the n-th is the one with n
\* positions up to it.
LEMMA OrderExists ==
  ASSUME NEW n \in Nat, NEW K, K \subseteq 1 .. n
  PROVE  /\ IsFiniteSet(K) /\ Cardinality(K) \in Nat
         /\ \E f \in [1 .. Cardinality(K) -> K] : Increasing(f)
<1> DEFINE Upto(k) == {j \in K : j <= k}
           m == Cardinality(K)
<1>0. \A k \in K : k \in Nat
  OBVIOUS
<1>1. IsFiniteSet(K) /\ m \in Nat
  <2>1. IsFiniteSet(1 .. n) /\ K \in SUBSET (1 .. n)
    BY FS_Interval
  <2>2. IsFiniteSet(K)
    BY <2>1, FS_Subset
  <2> QED BY <2>2, FS_CardinalityType
<1>2. ASSUME NEW k \in K
      PROVE  /\ IsFiniteSet(Upto(k)) /\ Cardinality(Upto(k)) \in 1 .. m
             /\ k \in Upto(k)
  <2>1. Upto(k) \in SUBSET K /\ k \in Upto(k)
    BY <1>0
  <2>2. IsFiniteSet(Upto(k)) /\ Cardinality(Upto(k)) <= m
    BY <1>1, <2>1, FS_Subset
  <2>3. Cardinality(Upto(k)) \in Nat /\ Cardinality(Upto(k)) # 0
    BY <2>1, <2>2, FS_CardinalityType, FS_EmptySet
  <2> QED BY <1>1, <2>1, <2>2, <2>3
<1>3. ASSUME NEW i \in K, NEW k \in K, i < k
      PROVE  Cardinality(Upto(i)) < Cardinality(Upto(k))
  <2>1. \A j \in Nat : j <= i => j <= k
    BY <1>0, <1>3
  <2>2. Upto(i) \in SUBSET Upto(k)
    BY <1>0, <2>1
  <2>3. k \in Upto(k) /\ k \notin Upto(i)
    BY <1>0, <1>3
  <2> HIDE DEF Upto
  <2>4. Cardinality(Upto(i)) <= Cardinality(Upto(k))
    BY <1>2, <2>2, <2>3, FS_Subset
  <2>5. Cardinality(Upto(i)) # Cardinality(Upto(k))
    BY <1>2, <2>2, <2>3, FS_Subset
  <2>6. Cardinality(Upto(i)) \in Nat /\ Cardinality(Upto(k)) \in Nat
    BY <1>1, <1>2
  <2> QED BY <2>4, <2>5, <2>6
<1> DEFINE rank == [k \in K |-> Cardinality(Upto(k))]
<1>4. rank \in [K -> 1 .. m] /\ \A i, k \in K : i < k => rank[i] < rank[k]
  BY <1>2, <1>3
<1> HIDE DEF rank, Upto, m
<1>5. rank \in Injection(K, 1 .. m)
  BY <1>1, <1>4 DEF Injection, IsInjective
<1>6. IsFiniteSet(1 .. m) /\ Cardinality(1 .. m) = Cardinality(K)
  BY <1>1, FS_Interval DEF m
<1>7. rank \in Surjection(K, 1 .. m)
  BY <1>5, <1>6, FS_Injection
<1> DEFINE f == [r \in 1 .. m |-> CHOOSE k \in K : rank[k] = r]
<1>8. \A r \in 1 .. m : f[r] \in K /\ rank[f[r]] = r
  BY <1>7 DEF Surjection
<1>9. f \in [1 .. m -> K] /\ DOMAIN f = 1 .. m
  BY <1>8
<1> HIDE DEF f
<1>10. Increasing(f)
  <2> SUFFICES ASSUME NEW i \in 1 .. m, NEW j \in 1 .. m, i < j, ~ (f[i] < f[j])
               PROVE  FALSE
    BY <1>9 DEF Increasing
  <2>1. f[i] \in K /\ f[j] \in K /\ rank[f[i]] = i /\ rank[f[j]] = j
    BY <1>8
  <2>2. f[i] \in Nat /\ f[j] \in Nat
    BY <1>0, <2>1
  <2>3. CASE f[i] = f[j]
    BY <2>1, <2>3
  <2>4. CASE f[j] < f[i]
    <3>1. j < i
      BY <1>4, <2>1, <2>4
    <3> QED BY <1>1, <3>1
  <2> QED BY <2>2, <2>3, <2>4
<1> QED BY <1>1, <1>9, <1>10 DEF m

\* A listing in order leaves out no position.
LEMMA OrderIsOnto ==
  ASSUME NEW n \in Nat, NEW K, K \subseteq 1 .. n,
         NEW f \in [1 .. Cardinality(K) -> K], Increasing(f)
  PROVE  \A k \in K : \E i \in DOMAIN f : f[i] = k
<1> DEFINE m == Cardinality(K)
<1>0. \A k \in K : k \in Nat
  OBVIOUS
<1>1. IsFiniteSet(K) /\ m \in Nat
  BY OrderExists
<1>2. IsFiniteSet(1 .. m) /\ Cardinality(1 .. m) = m
  BY <1>1, FS_Interval
<1>3. f \in Injection(1 .. m, K)
  <2> SUFFICES ASSUME NEW i \in 1 .. m, NEW j \in 1 .. m, f[i] = f[j], i # j
               PROVE  FALSE
    BY DEF Injection, IsInjective
  <2>1. i < j \/ j < i
    BY <1>1
  <2>2. f[i] < f[j] \/ f[j] < f[i]
    BY <2>1 DEF Increasing
  <2>3. f[i] \in K /\ f[j] \in K
    OBVIOUS
  <2>4. f[i] \in Nat
    BY <1>0, <2>3
  <2> QED BY <2>2, <2>4
<1>4. f \in Surjection(1 .. m, K)
  BY <1>1, <1>2, <1>3, FS_Injection
<1> QED BY <1>4 DEF Surjection

----------------------------------------------------------------------------
(* What unexpired_stages leaves of a schedule.                             *)

\* l lists stages of s in their order, f[n] being the place in s of its n-th, and
\* leaves out none that was open at now.
Selects(f, l, s, now) ==
    /\ f \in [DOMAIN l -> DOMAIN s]
    /\ Increasing(f)
    /\ \A n \in DOMAIN l : l[n] = s[f[n]]
    /\ \A k \in DOMAIN s : s[k].end >= now => \E n \in DOMAIN l : f[n] = k

Lists(l, s, now) == \E f \in [DOMAIN l -> DOMAIN s] : Selects(f, l, s, now)

\* A schedule is a sequence of stages.
LEMMA ScheduleType ==
  ASSUME NEW s \in Schedules
  PROVE  /\ s \in Seq(Stages) /\ Len(s) \in Nat /\ DOMAIN s = 1 .. Len(s)
         /\ 1 \in DOMAIN s
         /\ \A k \in DOMAIN s : s[k] \in Stages /\ s[k].start \in Nat /\ s[k].end \in Nat
                                /\ s[k].label \in Labels
<1>1. s \in Seq(Stages) /\ s # <<>>
  BY SchedulesAssumption
<1>2. Len(s) \in Nat /\ DOMAIN s = 1 .. Len(s) /\ 1 \in DOMAIN s
  BY <1>1
<1>3. \A k \in DOMAIN s : s[k] \in Stages
  BY <1>1
<1> QED BY <1>1, <1>2, <1>3 DEF Stages, Labels

\* What is left of a schedule lists its stages, each still open.
LEMMA UnexpiredLists ==
  ASSUME NEW s \in Schedules, NEW now \in Nat, NEW l, l = Unexpired(s, now)
  PROVE  /\ l \in Seq(Stages)
         /\ Lists(l, s, now)
         /\ \A n \in DOMAIN l : l[n].end >= now
<1> DEFINE K == Kept(s, now)
           m == Cardinality(K)
           f == CHOOSE g \in [1 .. m -> K] : \A i, j \in DOMAIN g : i < j => g[i] < g[j]
<1>1. Len(s) \in Nat /\ DOMAIN s = 1 .. Len(s) /\ K \subseteq 1 .. Len(s)
  BY ScheduleType DEF Kept
<1>2. m \in Nat /\ f \in [1 .. m -> K] /\ Increasing(f)
  BY <1>1, OrderExists DEF Increasing
<1>3. l = [n \in 1 .. m |-> s[f[n]]]
  BY DEF Unexpired
<1> HIDE DEF f, m
<1>4. \A k \in K : \E n \in DOMAIN f : f[n] = k
  BY <1>1, <1>2, OrderIsOnto DEF m
<1>5. DOMAIN l = 1 .. m /\ DOMAIN f = 1 .. m
  BY <1>2, <1>3
<1>6. \A n \in 1 .. m : f[n] \in DOMAIN s /\ l[n] = s[f[n]] /\ l[n].end >= now
  BY <1>2, <1>3 DEF Kept
<1>7. l \in Seq(Stages)
  <2>1. \A n \in 1 .. m : s[f[n]] \in Stages
    BY <1>6, ScheduleType
  <2>2. l \in [1 .. m -> Stages]
    BY <1>3, <2>1
  <2> QED BY <1>2, <2>2
<1>8. f \in [DOMAIN l -> DOMAIN s]
  BY <1>2, <1>5, <1>6
<1>9. \A k \in DOMAIN s : s[k].end >= now => \E n \in DOMAIN l : f[n] = k
  BY <1>4, <1>5 DEF Kept
<1>10. Selects(f, l, s, now)
  BY <1>2, <1>5, <1>6, <1>8, <1>9 DEF Selects
<1> QED BY <1>5, <1>6, <1>7, <1>8, <1>10 DEF Lists

\* A schedule lists itself, and a list stays one as time goes on.
LEMMA ListsItself ==
  ASSUME NEW s \in Schedules, NEW now
  PROVE  Lists(s, s, now)
<1> DEFINE f == [n \in DOMAIN s |-> n]
<1>1. Selects(f, s, s, now)
  BY DEF Selects, Increasing
<1> QED BY <1>1 DEF Lists

LEMMA ListsLater ==
  ASSUME NEW l, NEW s \in Schedules, NEW now \in Nat, NEW later \in Nat,
         now <= later, Lists(l, s, now)
  PROVE  Lists(l, s, later)
<1>1. \A k \in DOMAIN s : s[k].end >= later => s[k].end >= now
  BY ScheduleType
<1> QED BY <1>1 DEF Lists, Selects

----------------------------------------------------------------------------
(* The stage cursor.                                                       *)

\* refreshed_stage_index finds the selected stage, or a place before which every
\* stage starts earlier; it stays in the list.
LEMMA RefreshedIndexFinds ==
  ASSUME NEW new \in Seq(Stages), new # <<>>,
         stages \in Seq(Stages), index \in DOMAIN stages
  PROVE  LET q == RefreshedIndex(new)
             selected == stages[index]
         IN  /\ q \in DOMAIN new
             /\ \/ new[q].label = selected.label
                \/ /\ \A i \in DOMAIN new : new[i].label # selected.label
                   /\ \A i \in 1 .. q - 1 : new[i].start < selected.start
             /\ selected \in {new[i] : i \in DOMAIN new} =>
                   new[q] = selected /\ \A i \in 1 .. q - 1 : new[i] # selected
<1> DEFINE selected == stages[index]
           same == {i \in DOMAIN new : new[i] = selected}
           named == {i \in DOMAIN new : new[i].label = selected.label}
           later == {i \in DOMAIN new : new[i].start >= selected.start}
           q == RefreshedIndex(new)
<1>1. /\ Len(new) \in Nat /\ Len(new) # 0 /\ DOMAIN new = 1 .. Len(new)
      /\ DOMAIN stages = 1 .. Len(stages) /\ index \in Nat /\ index >= 1
  OBVIOUS
<1>2. selected.start \in Nat /\ \A i \in DOMAIN new : new[i].start \in Nat
  <2>1. selected \in Stages /\ \A i \in DOMAIN new : new[i] \in Stages
    OBVIOUS
  <2> HIDE DEF selected
  <2> QED BY <2>1 DEF Stages
<1>3. same \subseteq Nat /\ named \subseteq Nat /\ later \subseteq Nat
  BY <1>1
<1>4. q = IF same # {} THEN Min(same)
          ELSE IF named # {} THEN Min(named)
          ELSE IF later # {} THEN Min(later)
          ELSE Min({index, Len(new)})
  BY DEF RefreshedIndex
<1>5. \A i \in 1 .. Len(new) - 1 : i \in DOMAIN new
  BY <1>1
<1> HIDE DEF q
<1>6. CASE same # {}
  <2>1. q \in same /\ \A i \in same : q <= i
    BY <1>3, <1>4, <1>6, MinIsLeast
  <2>2. q \in DOMAIN new /\ new[q] = selected
    BY <2>1
  <2>3. ASSUME NEW i \in 1 .. q - 1 PROVE new[i] # selected
    <3>1. i \in DOMAIN new /\ ~ (q <= i)
      BY <1>1, <2>2
    <3> QED BY <2>1, <3>1
  <2> QED BY <2>2, <2>3 DEF q
<1>7. CASE same = {} /\ named # {}
  <2>1. q \in named
    BY <1>3, <1>4, <1>7, MinIsLeast
  <2> QED BY <1>7, <2>1 DEF q
<1>8. CASE same = {} /\ named = {} /\ later # {}
  <2>1. q \in later /\ \A i \in later : q <= i
    BY <1>3, <1>4, <1>8, MinIsLeast
  <2>2. ASSUME NEW i \in 1 .. q - 1 PROVE new[i].start < selected.start
    <3>1. i \in DOMAIN new /\ ~ (q <= i)
      BY <1>1, <2>1
    <3>2. ~ (new[i].start >= selected.start)
      BY <2>1, <3>1
    <3> QED BY <1>2, <3>1, <3>2
  <2> QED BY <1>8, <2>1, <2>2 DEF q
<1>9. CASE same = {} /\ named = {} /\ later = {}
  <2>1. q \in {index, Len(new)} /\ \A i \in {index, Len(new)} : q <= i
    BY <1>1, <1>4, <1>9, MinIsLeast
  <2>2. q \in DOMAIN new
    BY <1>1, <2>1
  <2>3. ASSUME NEW i \in DOMAIN new PROVE new[i].start < selected.start
    <3>1. ~ (new[i].start >= selected.start)
      BY <1>9
    <3> QED BY <1>2, <3>1
  <2>4. \A i \in 1 .. q - 1 : i \in DOMAIN new
    BY <1>1, <2>2
  <2> QED BY <1>9, <2>2, <2>3, <2>4 DEF q
<1> QED BY <1>6, <1>7, <1>8, <1>9

\* The list the monitor keeps is what was left of some schedule.
FromSchedule ==
    /\ stages \in Seq(Stages)
    /\ \E s \in Schedules : Lists(stages, s, time)

\* The inductive invariant behind TypeOK: the labels of the stages are known, and
\* a request that is still made has attempts left.
TypeInv ==
    /\ TypeOK
    /\ FromSchedule
    /\ pc # "failed" => tries < MaxAttempts

\* Labels and starting times of the monitor's stages are those of schedules.
LEMMA StagesType ==
  ASSUME FromSchedule
  PROVE  \A n \in DOMAIN stages : stages[n].label \in Labels /\ stages[n].start \in Nat
<1>1. PICK s \in Schedules : Lists(stages, s, time)
  BY DEF FromSchedule
<1>2. PICK f \in [DOMAIN stages -> DOMAIN s] : Selects(f, stages, s, time)
  BY <1>1 DEF Lists
<1> QED BY <1>2, ScheduleType DEF Selects

\* A schedule that is adopted is a list with a cursor in it.
LEMMA AdoptType ==
  ASSUME TypeInv, NEW s \in Schedules, NEW now \in Nat,
         Unexpired(s, now) # <<>>, Adopt(Unexpired(s, now)), time' = now
  PROVE  FromSchedule' /\ index' \in DOMAIN stages' /\ trigger' \in Nat
<1> DEFINE new == Unexpired(s, now)
<1>1. new \in Seq(Stages) /\ Lists(new, s, now)
  BY UnexpiredLists
<1>2. RefreshedIndex(new) \in DOMAIN new
  BY <1>1, RefreshedIndexFinds DEF TypeInv, TypeOK, FromSchedule
<1> HIDE DEF new
<1>3. stages' = new /\ index' = RefreshedIndex(new) /\ trigger' = new[index'].start
  BY DEF Adopt, new
<1>4. new[index'] \in Stages
  BY <1>1, <1>2, <1>3
<1>5. FromSchedule'
  BY <1>1, <1>3 DEF FromSchedule
<1> QED BY <1>2, <1>3, <1>4, <1>5 DEF Stages

\* A list is still one when time has gone on.
LEMMA FromScheduleLater ==
  ASSUME TypeInv, stages' = stages, time' \in Nat, time <= time'
  PROVE  FromSchedule'
  BY ListsLater DEF TypeInv, TypeOK, FromSchedule

LEMMA TypeInit == Init => TypeInv
<1> SUFFICES ASSUME Init PROVE TypeInv
  OBVIOUS
<1>1. First \in Schedules /\ First \in Seq(Stages) /\ 1 \in DOMAIN First
      /\ First[1].start \in Nat
  BY SchedulesAssumption, ScheduleType
<1>2. MaxEdits \in Nat /\ MaxTime \in Nat
  BY ConstantsAssumption
<1>3. FromSchedule
  BY <1>1, ListsItself DEF Init, FromSchedule
<1>4. TypeOK
  <2>1. /\ {published, fetched, previous, channel} \subseteq Schedules
        /\ past \subseteq Schedules /\ asked \subseteq Labels
    BY <1>1 DEF Init
  <2>2. edits \in 0 .. MaxEdits /\ time \in 0 .. MaxTime /\ tries \in 0 .. MaxAttempts
    BY <1>2 DEF Init, MaxAttempts
  <2>3. index \in DOMAIN stages /\ trigger \in Nat
    BY <1>1 DEF Init
  <2> QED BY <2>1, <2>2, <2>3 DEF Init, TypeOK
<1> QED BY <1>3, <1>4 DEF TypeInv, Init, MaxAttempts

LEMMA TypeEnvironment ==
  ASSUME TypeInv, Edit \/ SellOut \/ Poll \/ Send
  PROVE  TypeInv'
<1>1. UNCHANGED <<stages, index, trigger, time, pc, tries, answer, asked>>
  BY DEF Edit, SellOut, Poll, Send, cursor, request
<1>2. FromSchedule' /\ (pc' # "failed" => tries' < MaxAttempts)
  BY <1>1 DEF TypeInv, FromSchedule
<1>3. CASE Edit
  <2>1. edits \in Nat /\ edits' = edits + 1 /\ edits < MaxEdits /\ MaxEdits \in Nat
    BY <1>3, ConstantsAssumption DEF Edit, TypeInv, TypeOK
  <2>2. edits' \in 0 .. MaxEdits
    BY <2>1
  <2>3. published' \in Schedules /\ past' \subseteq Schedules
    BY <1>3 DEF Edit, TypeInv, TypeOK
  <2> QED BY <1>1, <1>2, <1>3, <2>2, <2>3 DEF Edit, TypeInv, TypeOK, refresher
<1>4. CASE SellOut \/ Poll \/ Send
  <2>1. {published, fetched, previous, channel}' \subseteq Schedules
    BY <1>4 DEF SellOut, Poll, Send, TypeInv, TypeOK, opensea, refresher
  <2>2. UNCHANGED <<past, edits>> /\ {sold, changed}' \subseteq BOOLEAN
        /\ task' \in {"asleep", "answered"}
    BY <1>4 DEF SellOut, Poll, Send, TypeInv, TypeOK, opensea, refresher
  <2> QED BY <1>1, <1>2, <2>1, <2>2 DEF TypeInv, TypeOK
<1> QED BY <1>3, <1>4

LEMMA TypeBlock == TypeInv /\ Block => TypeInv'
<1> SUFFICES ASSUME TypeInv, Block PROVE TypeInv'
  OBVIOUS
<1>1. /\ UNCHANGED <<published, past, edits, sold, task, fetched, previous, channel,
                     tries, answer, asked>>
      /\ pc = "select" /\ pc' \in {"build", "select"} /\ changed' = FALSE
  BY DEF Block, ApplyUpdate, opensea, refresher
<1>2. time' \in 0 .. MaxTime /\ time' \in Nat /\ time <= time'
  BY ConstantsAssumption DEF Block, TypeInv, TypeOK
<1>3. FromSchedule' /\ index' \in DOMAIN stages' /\ trigger' \in Nat
  <2>1. CASE Unexpired(channel, time') # <<>> /\ Adopt(Unexpired(channel, time'))
    <3>1. channel \in Schedules
      BY DEF TypeInv, TypeOK
    <3> QED BY <1>2, <2>1, <3>1, AdoptType
  <2>2. CASE UNCHANGED cursor
    BY <1>2, <2>2, FromScheduleLater DEF cursor, TypeInv, TypeOK
  <2> QED BY <2>1, <2>2 DEF Block, ApplyUpdate
<1> QED BY <1>1, <1>2, <1>3 DEF TypeInv, TypeOK

LEMMA TypeRequest ==
  ASSUME TypeInv, Accepted \/ Unavailable \/ Denied \/ Rejected \/ SoldOut
  PROVE  TypeInv'
<1>1. UNCHANGED <<published, past, edits, sold, task, fetched, previous, channel, changed,
                  stages, index, trigger, time>>
  BY DEF Accepted, Unavailable, Denied, Rejected, SoldOut, opensea, refresher, cursor
<1>2. FromSchedule'
  BY <1>1 DEF TypeInv, FromSchedule
<1>3. tries' \in 0 .. MaxAttempts /\ (pc' # "failed" => tries' < MaxAttempts)
  <2>1. tries \in 0 .. 4 /\ (pc # "failed" => tries < 4)
    BY DEF TypeInv, TypeOK, MaxAttempts
  <2>2. CASE Unavailable
    BY <2>1, <2>2 DEF Unavailable, MaxAttempts
  <2>3. CASE Accepted \/ Denied \/ Rejected \/ SoldOut
    BY <2>1, <2>3 DEF Accepted, Denied, Rejected, SoldOut, MaxAttempts
  <2> QED BY <2>2, <2>3
<1>4. /\ pc' \in {"select", "build", "rejected", "minted", "failed"}
      /\ answer' \in {"none", "ambiguous", "inactive", "ineligible", "balance", "denied"}
  BY DEF Accepted, Unavailable, Denied, Rejected, SoldOut, TypeInv, TypeOK
<1>5. asked' \subseteq Labels
  <2>1. stages[index].label \in Labels
    BY StagesType DEF TypeInv, TypeOK
  <2> QED BY <2>1 DEF Accepted, Unavailable, Denied, Rejected, SoldOut, TypeInv, TypeOK
<1> QED BY <1>1, <1>2, <1>3, <1>4, <1>5 DEF TypeInv, TypeOK

LEMMA TypeRefreshNow == TypeInv /\ RefreshNow => TypeInv'
<1> SUFFICES ASSUME TypeInv, RefreshNow PROVE TypeInv'
  OBVIOUS
<1>1. /\ UNCHANGED <<published, past, edits, sold, task, fetched, previous, channel, changed,
                     time, tries, answer, asked>>
      /\ pc = "rejected" /\ pc' = "select"
  BY DEF RefreshNow, opensea, refresher
<1>2. time \in Nat /\ published \in Schedules
  BY DEF TypeInv, TypeOK
<1>3. Unexpired(published, time) # <<>> /\ Adopt(Unexpired(published, time))
  BY DEF RefreshNow
<1>4. FromSchedule' /\ index' \in DOMAIN stages' /\ trigger' \in Nat
  BY <1>1, <1>2, <1>3, AdoptType
<1> QED BY <1>1, <1>4 DEF TypeInv, TypeOK

LEMMA TypeAfterRejection == TypeInv /\ AfterRejection => TypeInv'
<1> SUFFICES ASSUME TypeInv, AfterRejection PROVE TypeInv'
  OBVIOUS
<1>1. /\ UNCHANGED <<published, past, edits, sold, task, fetched, previous, channel, changed,
                     time, tries, answer, asked>>
      /\ pc = "rejected" /\ pc' \in {"failed", "select"}
  BY DEF AfterRejection, opensea, refresher
<1>2. time \in Nat /\ MaxTime \in Nat /\ Delay \in Nat /\ Len(stages) \in Nat
      /\ index \in 1 .. Len(stages) /\ trigger \in Nat
  BY ConstantsAssumption DEF TypeInv, TypeOK, FromSchedule
<1>3. \A d \in Nat : Defer(d) => trigger' \in Nat /\ UNCHANGED <<stages, index>>
  BY <1>2 DEF Defer, Earlier
<1>4. stages' = stages /\ index' \in DOMAIN stages' /\ trigger' \in Nat
  <2>1. CASE Advance /\ index < Len(stages)
    <3>1. index + 1 \in DOMAIN stages
      BY <1>2, <2>1 DEF TypeInv, FromSchedule
    <3> QED BY <2>1, <3>1, StagesType DEF Advance, TypeInv
  <2>2. CASE Defer(5) \/ Defer(Delay)
    BY <1>2, <1>3, <2>2 DEF TypeInv, TypeOK
  <2>3. CASE UNCHANGED cursor
    BY <1>2, <2>3 DEF cursor, TypeInv, TypeOK
  <2> QED BY <2>1, <2>2, <2>3 DEF AfterRejection, Advance
<1>5. FromSchedule'
  BY <1>1, <1>4 DEF TypeInv, FromSchedule
<1> QED BY <1>1, <1>4, <1>5 DEF TypeInv, TypeOK

LEMMA TypeStep == TypeInv /\ [Next]_vars => TypeInv'
<1> SUFFICES ASSUME TypeInv, [Next]_vars PROVE TypeInv'
  OBVIOUS
<1>1. CASE UNCHANGED vars
  BY <1>1 DEF vars, opensea, refresher, cursor, request, TypeInv, TypeOK, FromSchedule
<1>2. CASE Next
  BY <1>1, <1>2, TypeEnvironment, TypeBlock, TypeRequest, TypeRefreshNow,
     TypeAfterRejection DEF Next, Done
<1> QED BY <1>1, <1>2

\* Whatever OpenSea publishes and whenever it does, the monitor's index is one of
\* its list, as the code takes for granted where it uses it, and the list is what
\* was left of a schedule.
THEOREM CursorInList == Spec => []TypeInv
<1>1. Init => TypeInv
  BY TypeInit
<1>2. TypeInv /\ [Next]_vars => TypeInv'
  BY TypeStep
<1> QED BY <1>1, <1>2, PTL DEF Spec

\* Every variable keeps its type; the index is never outside of the list.
THEOREM TypeCorrect == Spec => []TypeOK
<1>1. TypeInv => TypeOK
  BY DEF TypeInv
<1> QED BY <1>1, CursorInList, PTL

----------------------------------------------------------------------------
(* What is sent, and what the monitor knows.                               *)

\* The inductive invariant behind UnsentIsKnown: if the published schedule is the
\* last one sent, it is in the channel or the monitor follows it; one that is yet
\* to be published was neither sent nor fetched.
SentIsTaken ==
    /\ {published, fetched, previous} \subseteq past
    /\ previous = published => IF changed THEN channel = published ELSE Follows

\* A schedule that is adopted is followed: it lists every open stage.
LEMMA AdoptFollows ==
  ASSUME published \in Schedules, NEW now \in Nat, published' = published, time' = now,
         stages' = Unexpired(published, now)
  PROVE  Follows'
<1> DEFINE new == Unexpired(published, now)
<1>1. PICK f \in [DOMAIN new -> DOMAIN published] : Selects(f, new, published, now)
  BY UnexpiredLists DEF Lists
<1> HIDE DEF new
<1>2. stages' = new
  BY DEF new
<1> QED BY <1>1, <1>2 DEF Selects, Follows

\* When nothing is left of the published schedule there is nothing to follow.
LEMMA NothingToFollow ==
  ASSUME published \in Schedules, NEW now \in Nat, published' = published, time' = now,
         Unexpired(published, now) = <<>>
  PROVE  Follows'
<1> DEFINE new == Unexpired(published, now)
<1>1. PICK f \in [DOMAIN new -> DOMAIN published] : Selects(f, new, published, now)
  BY UnexpiredLists DEF Lists
<1>2. \A n \in DOMAIN new : FALSE
  OBVIOUS
<1> HIDE DEF new
<1> QED BY <1>1, <1>2 DEF Selects, Follows

\* A list that follows the schedule still does when time has gone on.
LEMMA FollowsLater ==
  ASSUME TypeInv, Follows, UNCHANGED <<published, stages>>, time' \in Nat, time <= time'
  PROVE  Follows'
<1>1. \A i \in DOMAIN published : published[i].end >= time' => published[i].end >= time
  BY ScheduleType DEF TypeInv, TypeOK
<1> QED BY <1>1 DEF Follows

LEMMA SentStep == TypeInv /\ SentIsTaken /\ [Next]_vars => SentIsTaken'
<1> SUFFICES ASSUME TypeInv, SentIsTaken, [Next]_vars PROVE SentIsTaken'
  OBVIOUS
<1>1. CASE Edit
  <2>1. published' \notin past /\ past' = past \cup {published'}
        /\ UNCHANGED <<fetched, previous>>
    BY <1>1 DEF Edit, refresher
  <2> QED BY <2>1 DEF SentIsTaken
<1>2. CASE Poll
  BY <1>2 DEF Poll, SentIsTaken, Follows, opensea, cursor
<1>3. CASE Send
  BY <1>3 DEF Send, SentIsTaken, Follows, opensea, cursor
<1>4. CASE Block
  <2>1. /\ UNCHANGED <<published, past, fetched, previous, channel>> /\ changed' = FALSE
        /\ published \in Schedules
    BY <1>4 DEF Block, ApplyUpdate, opensea, refresher, TypeInv, TypeOK
  <2>2. time' \in Nat /\ time <= time'
    BY <1>4, ConstantsAssumption DEF Block, TypeInv, TypeOK
  <2>3. ASSUME previous = published PROVE Follows'
    <3>1. CASE changed /\ Unexpired(published, time') # <<>>
      <4>1. stages' = Unexpired(published, time')
        BY <1>4, <2>3, <3>1 DEF Block, ApplyUpdate, Adopt, SentIsTaken
      <4> QED BY <2>1, <2>2, <4>1, AdoptFollows
    <3>2. CASE changed /\ Unexpired(published, time') = <<>>
      BY <2>1, <2>2, <3>2, NothingToFollow
    <3>3. CASE ~changed
      <4>1. Follows /\ stages' = stages
        BY <1>4, <2>3, <3>3 DEF Block, ApplyUpdate, cursor, SentIsTaken
      <4> QED BY <2>1, <2>2, <4>1, FollowsLater
    <3> QED BY <3>1, <3>2, <3>3
  <2> QED BY <2>1, <2>3 DEF SentIsTaken
<1>5. CASE RefreshNow
  <2>1. UNCHANGED <<published, past, fetched, previous, channel, changed, time>>
        /\ published \in Schedules /\ time \in Nat
        /\ stages' = Unexpired(published, time)
    BY <1>5 DEF RefreshNow, Adopt, opensea, refresher, TypeInv, TypeOK
  <2>2. Follows'
    BY <2>1, AdoptFollows
  <2> QED BY <2>1, <2>2 DEF SentIsTaken
<1>6. CASE SellOut \/ Accepted \/ Unavailable \/ Denied \/ Rejected \/ SoldOut
           \/ AfterRejection \/ UNCHANGED vars
  <2>1. UNCHANGED <<published, past, fetched, previous, channel, changed, time, stages>>
    BY <1>6 DEF SellOut, Accepted, Unavailable, Denied, Rejected, SoldOut, AfterRejection,
                Advance, Defer, vars, opensea, refresher, cursor
  <2> QED BY <2>1 DEF SentIsTaken, Follows
<1> QED BY <1>1, <1>2, <1>3, <1>4, <1>5, <1>6 DEF Next, Done

\* The refresher may keep silent about a schedule like the last one it sent
\* (README.md:589): the monitor has it in its list by then, or in the channel.
THEOREM UnsentKnown == Spec => []UnsentIsKnown
<1>1. Init => SentIsTaken
  BY DEF Init, SentIsTaken, Follows
<1>2. TypeInv /\ SentIsTaken /\ [Next]_vars => SentIsTaken'
  BY SentStep
<1>3. SentIsTaken => UnsentIsKnown
  BY DEF SentIsTaken, UnsentIsKnown
<1> QED BY <1>1, <1>2, <1>3, CursorInList, PTL DEF Spec

----------------------------------------------------------------------------
(* Why the cursor moves.                                                   *)

\* A schedule that is the monitor's list again leaves the cursor where it is, if
\* no stage is listed twice.
LEMMA SameListSameIndex ==
  ASSUME ListedOnce, TypeInv, stages # <<>>
  PROVE  RefreshedIndex(stages) = index
<1>1. PICK s \in Schedules : Lists(stages, s, time)
  BY DEF TypeInv, FromSchedule
<1>2. PICK f \in [DOMAIN stages -> DOMAIN s] : Selects(f, stages, s, time)
  BY <1>1 DEF Lists
<1>3. /\ stages \in Seq(Stages) /\ index \in DOMAIN stages
      /\ DOMAIN stages = 1 .. Len(stages) /\ DOMAIN s \subseteq Nat
  BY ScheduleType DEF TypeInv, TypeOK, FromSchedule
<1> DEFINE q == RefreshedIndex(stages)
<1>4. q \in DOMAIN stages /\ stages[q] = stages[index]
  BY <1>3, RefreshedIndexFinds
<1> HIDE DEF q
<1>5. f[q] = f[index]
  BY <1>2, <1>3, <1>4 DEF Selects, ListedOnce
<1>6. ~ (q < index) /\ ~ (index < q)
  <2>1. f[q] \in Nat
    BY <1>3, <1>4
  <2> QED BY <1>2, <1>3, <1>4, <1>5, <2>1 DEF Selects, Increasing
<1> QED BY <1>3, <1>4, <1>6 DEF q

\* On an unchanged list the cursor takes one step after a refusal, or after an
\* ambiguous answer when the next stage has started, and moves for no other reason.
THEOREM MovesWithCause ==
  ASSUME ListedOnce
  PROVE  Spec => MovesOnWithCause
<1> DEFINE Move == stages' = stages /\ index' # index =>
              /\ index' = index + 1
              /\ answer = "ineligible" \/ (answer = "ambiguous" /\ stages[index'].start <= time)
<1>1. TypeInv /\ [Next]_vars => [Move]_vars
  <2> SUFFICES ASSUME TypeInv, [Next]_vars, stages' = stages, index' # index
               PROVE  /\ index' = index + 1
                      /\ \/ answer = "ineligible"
                         \/ answer = "ambiguous" /\ stages[index'].start <= time
    OBVIOUS
  <2>1. ASSUME NEW new, new # <<>>, Adopt(new) PROVE FALSE
    <3>1. new = stages /\ index' = RefreshedIndex(stages)
      BY <2>1 DEF Adopt
    <3> QED BY <2>1, <3>1, SameListSameIndex
  <2>2. AfterRejection /\ Advance /\ index < Len(stages)
    <3>1. ~ UNCHANGED cursor
      BY DEF cursor
    <3>2. ~ Block /\ ~ RefreshNow
      BY <2>1, <3>1 DEF Block, ApplyUpdate, RefreshNow
    <3>3. AfterRejection
      BY <3>1, <3>2 DEF Next, Done, Edit, SellOut, Poll, Send, Accepted, Unavailable, Denied,
                        Rejected, SoldOut, vars
    <3> QED BY <3>1, <3>3 DEF AfterRejection, Advance, Defer
  <2>3. index' = index + 1
    BY <2>2 DEF Advance
  <2>4. answer = "ineligible" \/ (answer = "ambiguous" /\ NextHasStarted)
    BY <2>2 DEF AfterRejection, Defer, cursor
  <2> QED BY <2>3, <2>4 DEF NextHasStarted
<1> QED BY <1>1, CursorInList, PTL DEF Spec, MovesOnWithCause

----------------------------------------------------------------------------
(* Trigger and cursor.                                                     *)

\* The timestamp is the one of the selected stage, or a retry's, ...
AtStageOrRetry == trigger # stages[index].start => stages[index].label \in asked

\* ... also while a rejection is being handled.
CursorInv == AtStageOrRetry /\ (pc = "rejected" => stages[index].label \in asked)

\* A schedule that is adopted brings its own trigger.
LEMMA UpdateKeeps ==
  ASSUME CursorInv, NEW now, ApplyUpdate(now), asked' = asked
  PROVE  AtStageOrRetry'
BY DEF CursorInv, AtStageOrRetry, ApplyUpdate, Adopt, cursor

LEMMA AfterRejectionKeeps ==
  ASSUME CursorInv, AfterRejection
  PROVE  CursorInv'
<1>1. pc' # "rejected" /\ asked' = asked /\ stages[index].label \in asked
  BY DEF AfterRejection, CursorInv
<1>2. CASE Advance /\ index < Len(stages)
  BY <1>1, <1>2 DEF Advance, CursorInv, AtStageOrRetry
<1>3. CASE UNCHANGED <<stages, index>>
  BY <1>1, <1>3 DEF CursorInv, AtStageOrRetry
<1>4. Advance \/ UNCHANGED cursor \/ Defer(Delay)
  BY DEF AfterRejection
<1> QED BY <1>2, <1>3, <1>4 DEF Advance, Defer, cursor

\* Every step keeps trigger and stage together.
LEMMA StepKeeps == CursorInv /\ [Next]_vars => CursorInv'
<1> SUFFICES ASSUME CursorInv, [Next]_vars PROVE CursorInv'
  OBVIOUS
<1>1. CASE Block
  <2>1. AtStageOrRetry'
    BY <1>1, UpdateKeeps DEF Block
  <2> QED BY <1>1, <2>1 DEF Block, CursorInv
<1>2. CASE Rejected
  BY <1>2 DEF Rejected, CursorInv, AtStageOrRetry, cursor
<1>3. CASE RefreshNow
  BY <1>3 DEF RefreshNow, Adopt, CursorInv, AtStageOrRetry
<1>4. CASE AfterRejection
  BY <1>4, AfterRejectionKeeps
<1>5. CASE Edit \/ SellOut \/ Poll \/ Send
  BY <1>5 DEF Edit, SellOut, Poll, Send, CursorInv, AtStageOrRetry, cursor, request
<1>6. CASE Accepted \/ Unavailable \/ Denied \/ SoldOut
  BY <1>6 DEF Accepted, Unavailable, Denied, SoldOut, CursorInv, AtStageOrRetry, cursor
<1>7. CASE UNCHANGED vars
  BY <1>7 DEF CursorInv, AtStageOrRetry, cursor, request, vars
<1> QED BY <1>1, <1>2, <1>3, <1>4, <1>5, <1>6, <1>7 DEF Next, Done

\* A stage the monitor does not wait for by its start has been refused.
THEOREM CursorKept == Spec => []CursorInv
<1>1. Init => CursorInv
  BY DEF Init, CursorInv, AtStageOrRetry
<1> QED BY <1>1, StepKeeps, PTL DEF Spec

\* No schedule update, rejection or retry leaves the bot waiting for the time of
\* a stage it has moved away from.
THEOREM TriggerFollows == Spec => []TriggerFollowsStage
<1>1. CursorInv => TriggerFollowsStage
  BY DEF CursorInv, AtStageOrRetry, TriggerFollowsStage
<1> QED BY <1>1, CursorKept, PTL

----------------------------------------------------------------------------
(* Which stages are passed by.                                             *)

\* In schedules of a stable order a stage before the adopted position, still open,
\* was in the list that is replaced, before the selected stage.
LEMMA AdoptPassesAsked ==
  ASSUME StableOrder, TypeInv, SkipsOnlyRejectedStages,
         NEW t \in Schedules, NEW now \in Nat, time <= now,
         Unexpired(t, now) # <<>>, Adopt(Unexpired(t, now)), asked' = asked
  PROVE  SkipsOnlyRejectedStages'
<1> DEFINE new == Unexpired(t, now)
           selected == stages[index]
           q == RefreshedIndex(new)
<1>1. PICK s \in Schedules : Lists(stages, s, time)
  BY DEF TypeInv, FromSchedule
<1>2. PICK f \in [DOMAIN stages -> DOMAIN s] : Selects(f, stages, s, time)
  BY <1>1 DEF Lists
<1>3. /\ new \in Seq(Stages) /\ Lists(new, t, now)
      /\ \A n \in DOMAIN new : new[n].end >= now
  BY UnexpiredLists
<1>4. PICK g \in [DOMAIN new -> DOMAIN t] : Selects(g, new, t, now)
  BY <1>3 DEF Lists
<1>5. /\ stages' = new /\ index' = q
  BY DEF Adopt
<1>6. /\ stages \in Seq(Stages) /\ index \in DOMAIN stages
      /\ DOMAIN stages = 1 .. Len(stages) /\ Len(stages) \in Nat
  BY DEF TypeInv, TypeOK, FromSchedule
<1>7. new # <<>> /\ DOMAIN new = 1 .. Len(new) /\ Len(new) \in Nat
  BY <1>3
<1> HIDE DEF new
<1>8. /\ q \in DOMAIN new
      /\ \/ new[q].label = selected.label
         \/ /\ \A i \in DOMAIN new : new[i].label # selected.label
            /\ \A i \in 1 .. q - 1 : new[i].start < selected.start
  BY <1>3, <1>6, <1>7, RefreshedIndexFinds
<1> HIDE DEF q
<1> DEFINE p == f[index]
<1>9. p \in DOMAIN s /\ selected = s[p] /\ p \in Nat
  BY <1>2, <1>6, ScheduleType DEF Selects
<1>10. ASSUME NEW i \in 1 .. q - 1
      PROVE  new[i].label \in asked
  <2> DEFINE k == g[i]
  <2>1. i \in DOMAIN new /\ i < q
    BY <1>7, <1>8
  <2>2. k \in DOMAIN t /\ new[i] = t[k] /\ k \in Nat
    BY <1>4, <2>1, ScheduleType DEF Selects
  <2>3. k < p
    <3>1. CASE new[q].label = selected.label
      <4>1. g[q] \in DOMAIN t /\ new[q] = t[g[q]] /\ k < g[q]
        BY <1>4, <1>7, <1>8, <2>1 DEF Selects, Increasing
      <4>2. p = g[q]
        BY <1>9, <3>1, <4>1 DEF StableOrder
      <4> QED BY <4>1, <4>2
    <3>2. CASE new[i].label # selected.label /\ new[i].start < selected.start
      <4>1. k # p
        BY <1>9, <2>2, <3>2 DEF StableOrder
      <4>2. ~ (p < k)
        <5>1. p < k => s[p].start <= t[k].start
          BY <1>9, <2>2 DEF StableOrder
        <5>2. s[p].start \in Nat /\ t[k].start \in Nat /\ t[k].start < s[p].start
          BY <1>9, <2>2, <3>2, ScheduleType
        <5> QED BY <5>1, <5>2
      <4> QED BY <1>9, <2>2, <4>1, <4>2
    <3> QED BY <1>7, <1>8, <2>1, <3>1, <3>2
  <2>4. k \in DOMAIN s
    BY <1>9, <2>2, <2>3, ScheduleType
  <2>5. s[k].label = t[k].label /\ s[k].end = t[k].end
    BY <2>2, <2>4 DEF StableOrder
  <2>6. s[k].end >= time
    <3>1. t[k].end >= now /\ t[k].end \in Nat
      BY <1>3, <2>1, <2>2, ScheduleType
    <3>2. time \in Nat
      BY DEF TypeInv, TypeOK
    <3> QED BY <2>5, <3>1, <3>2
  <2>7. PICK j \in DOMAIN stages : f[j] = k
    BY <1>2, <2>4, <2>6 DEF Selects
  <2>8. j \in 1 .. index - 1
    <3>1. ~ (index < j) /\ index # j
      BY <1>2, <1>6, <1>9, <2>2, <2>3, <2>7 DEF Selects, Increasing
    <3> QED BY <1>6, <2>7, <3>1
  <2>9. stages[j].label \in asked /\ stages[j] = s[k]
    BY <1>2, <2>7, <2>8 DEF Selects, SkipsOnlyRejectedStages
  <2> QED BY <2>2, <2>5, <2>9
<1> QED BY <1>5, <1>10 DEF SkipsOnlyRejectedStages

\* A step to the next stage leaves a stage that has just been refused.
LEMMA AdvancePassesAsked ==
  ASSUME TypeInv, CursorInv, SkipsOnlyRejectedStages, AfterRejection
  PROVE  SkipsOnlyRejectedStages'
<1>1. asked' = asked /\ stages' = stages /\ stages[index].label \in asked /\ index \in Nat
  BY DEF AfterRejection, Advance, Defer, cursor, CursorInv, TypeInv, TypeOK, FromSchedule
<1>2. index' \in {index, index + 1}
  BY DEF AfterRejection, Advance, Defer, cursor
<1>3. ASSUME NEW i \in 1 .. index' - 1
      PROVE  i = index \/ i \in 1 .. index - 1
  <2>1. CASE index' = index
    BY <2>1
  <2>2. CASE index' = index + 1
    BY <1>1, <2>2
  <2> QED BY <1>2, <2>1, <2>2
<1> QED BY <1>1, <1>3 DEF SkipsOnlyRejectedStages

LEMMA SkipsStep ==
  ASSUME StableOrder, TypeInv, CursorInv, SkipsOnlyRejectedStages, [Next]_vars
  PROVE  SkipsOnlyRejectedStages'
<1>1. CASE Block
  <2>1. time' \in Nat /\ time <= time' /\ asked' = asked /\ channel \in Schedules
    BY <1>1, ConstantsAssumption DEF Block, TypeInv, TypeOK
  <2>2. CASE Unexpired(channel, time') # <<>> /\ Adopt(Unexpired(channel, time'))
    BY <2>1, <2>2, AdoptPassesAsked
  <2>3. CASE UNCHANGED cursor
    BY <2>1, <2>3 DEF cursor, SkipsOnlyRejectedStages
  <2> QED BY <1>1, <2>2, <2>3 DEF Block, ApplyUpdate
<1>2. CASE RefreshNow
  <2>1. time \in Nat /\ time <= time /\ asked' = asked /\ published \in Schedules
    BY <1>2 DEF RefreshNow, TypeInv, TypeOK
  <2>2. Unexpired(published, time) # <<>> /\ Adopt(Unexpired(published, time))
    BY <1>2 DEF RefreshNow
  <2> QED BY <2>1, <2>2, AdoptPassesAsked
<1>3. CASE AfterRejection
  BY <1>3, AdvancePassesAsked
<1>4. CASE Edit \/ SellOut \/ Poll \/ Send \/ Accepted \/ Unavailable \/ Denied
           \/ Rejected \/ SoldOut \/ UNCHANGED vars
  <2>1. UNCHANGED <<stages, index>> /\ asked \subseteq asked'
    BY <1>4 DEF Edit, SellOut, Poll, Send, Accepted, Unavailable, Denied, Rejected, SoldOut,
                vars, cursor
  <2> QED BY <2>1 DEF SkipsOnlyRejectedStages
<1> QED BY <1>1, <1>2, <1>3, <1>4 DEF Next, Done

\* Whatever is edited, fetched, sent, refused and retried, in any order and at any
\* time, the bot goes past an open stage only after a refusal there, as long as
\* OpenSea keeps the order of its stages.
THEOREM SkipsOnlyRejected ==
  ASSUME StableOrder
  PROVE  Spec => []SkipsOnlyRejectedStages
<1>1. Init => SkipsOnlyRejectedStages
  BY DEF Init, SkipsOnlyRejectedStages
<1>2. TypeInv /\ CursorInv /\ SkipsOnlyRejectedStages /\ [Next]_vars
         => SkipsOnlyRejectedStages'
  BY SkipsStep
<1> QED BY <1>1, <1>2, CursorInList, CursorKept, PTL DEF Spec
=============================================================================
