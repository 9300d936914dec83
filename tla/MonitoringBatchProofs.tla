----------------------- MODULE MonitoringBatchProofs -----------------------
(***************************************************************************)
(* Proofs about MonitoringBatch, for any monitors, worker instances, days, *)
(* slots, page limit, parallelism and attempt limit.  What is said of      *)
(* attempts rests on DistinctWorkers; types, collections and the           *)
(* refinement of MonitorPromise do not.                                    *)
(***************************************************************************)
EXTENDS MonitoringBatch, FiniteSetTheorems, TLAPS

-----------------------------------------------------------------------------
(* Pages: what the ORDER BY and the LIMIT of a query return *)

LEMMA LeastElement ==
  ASSUME NEW S \in SUBSET Nat, S # {}
  PROVE  \E m \in S : \A x \in S : m <= x
<1>1. PICK m \in S : \A x \in S : <<x, m>> \notin OpToRel(<, Nat)
  BY NatLessThanWellFounded, WFMin
<1>2. \A x \in S : ~(x < m)
  BY <1>1, Zenon DEF OpToRel
<1> QED
  BY <1>2

LEMMA GreatestElement ==
  ASSUME NEW S \in SUBSET Nat, IsFiniteSet(S), S # {}
  PROVE  \E m \in S : \A x \in S : x <= m
<1> DEFINE Above(m) == {x \in S : m < x}
           Counts == {n \in Nat : \E m \in S : n = Cardinality(Above(m))}
<1>1. \A m \in S : Above(m) \in SUBSET S /\ IsFiniteSet(Above(m)) /\ Cardinality(Above(m)) \in Nat
  BY FS_Subset, FS_CardinalityType
<1>2. PICK n \in Counts : \A c \in Counts : n <= c
  <2>1. Counts # {} /\ Counts \in SUBSET Nat
    BY <1>1
  <2> QED
    BY <2>1, LeastElement
<1>3. PICK m \in S : n = Cardinality(Above(m))
  BY <1>2
<1>4. ASSUME NEW y \in S, m < y PROVE FALSE
  <2>1. Above(y) \in SUBSET Above(m) /\ y \in Above(m) /\ y \notin Above(y)
    <3>1. \A x \in S : x \in Nat
      OBVIOUS
    <3>2. \A x \in S : y < x => m < x
      BY <1>4, <3>1
    <3>3. ~(y < y)
      BY <3>1
    <3> QED
      BY <1>4, <3>2, <3>3
  <2>2. Cardinality(Above(y)) < Cardinality(Above(m))
    <3>1. Cardinality(Above(y)) <= Cardinality(Above(m))
      BY <1>1, <2>1, FS_Subset
    <3>2. Cardinality(Above(y)) # Cardinality(Above(m))
      BY <1>1, <2>1, FS_Subset
    <3> QED
      BY <1>1, <3>1, <3>2
  <2>3. Cardinality(Above(y)) \in Counts
    BY <1>1
  <2> QED
    BY <1>1, <1>2, <1>3, <2>2, <2>3
<1> QED
  BY <1>4

\* The page is the beginning of the rows in the order of the index.
LEMMA FirstOfBegins ==
  ASSUME NEW S \in SUBSET Nat, IsFiniteSet(S), NEW n \in Nat
  PROVE  /\ FirstOf(S, n) \subseteq S
         /\ IsFiniteSet(FirstOf(S, n))
         /\ \A x \in FirstOf(S, n), y \in S : y <= x => y \in FirstOf(S, n)
<1>1. FirstOf(S, n) \in SUBSET S
  BY DEF FirstOf
<1>2. IsFiniteSet(FirstOf(S, n))
  BY <1>1, FS_Subset
<1>3. ASSUME NEW x \in FirstOf(S, n), NEW y \in S, y <= x
      PROVE  y \in FirstOf(S, n)
  <2>1. x \in S /\ Cardinality({z \in S : z <= x}) <= n
    BY DEF FirstOf
  <2>2. {z \in S : z <= x} \in SUBSET S /\ {z \in S : z <= y} \in SUBSET {z \in S : z <= x}
    <3>1. x \in Nat /\ y \in Nat /\ \A z \in S : z \in Nat
      BY <2>1
    <3>2. \A z \in S : z <= y => z <= x
      BY <1>3, <3>1
    <3> QED
      BY <3>2
  <2>3. IsFiniteSet({z \in S : z <= x}) /\ IsFiniteSet({z \in S : z <= y})
    BY <2>2, FS_Subset
  <2>4. Cardinality({z \in S : z <= y}) <= Cardinality({z \in S : z <= x})
    BY <2>2, <2>3, FS_Subset
  <2>5. Cardinality({z \in S : z <= y}) \in Nat /\ Cardinality({z \in S : z <= x}) \in Nat
    BY <2>3, FS_CardinalityType
  <2>6. Cardinality({z \in S : z <= y}) <= n
    BY <2>1, <2>4, <2>5
  <2> QED
    BY <2>6 DEF FirstOf
<1> QED
  BY <1>1, <1>2, <1>3

\* A page that is not full is all of the rows.
LEMMA ShortPageIsAll ==
  ASSUME NEW S \in SUBSET Nat, IsFiniteSet(S), NEW n \in Nat,
         Cardinality(FirstOf(S, n)) < n
  PROVE  FirstOf(S, n) = S
<1> DEFINE F == FirstOf(S, n)
<1>1. /\ F \in SUBSET S /\ IsFiniteSet(F)
      /\ \A x \in F, y \in S : y <= x => y \in F
  BY FirstOfBegins
<1> HIDE DEF F
<1> SUFFICES ASSUME S \ F # {} PROVE FALSE
  BY <1>1 DEF F
<1>2. PICK m \in S \ F : \A x \in S \ F : m <= x
  BY LeastElement, S \ F \in SUBSET Nat
<1>3. {x \in S : x <= m} = F \cup {m}
  <2>1. ASSUME NEW x \in S, x <= m, x # m PROVE x \in F
    BY <1>2, <2>1
  <2>2. ASSUME NEW x \in F PROVE x \in S /\ x <= m
    BY <1>1, <1>2
  <2> QED
    BY <1>2, <2>1, <2>2
<1>4. Cardinality(F \cup {m}) = Cardinality(F) + 1
  BY <1>1, <1>2, FS_AddElement
<1>5. Cardinality(F) \in Nat /\ Cardinality(F) < n
  BY <1>1, FS_CardinalityType DEF F
<1>6. Cardinality({x \in S : x <= m}) <= n
  BY <1>3, <1>4, <1>5
<1> QED
  BY <1>2, <1>6 DEF F, FirstOf

-----------------------------------------------------------------------------
(* What a run claims *)

RowsOf(p) ==
  [i \in Items |-> IF i[1] = day[p] /\ i[2] \in Page(p) /\ state[i] = "absent"
                   THEN "pending" ELSE state[i]]

\* What StartRun(p) changes, with the items it claims.
Claims(p, claimed) ==
  LET rows == RowsOf(p) IN
  /\ Collect(day[p], Page(p))
  /\ state' = [i \in Items |-> IF i \in claimed THEN "running" ELSE rows[i]]
  /\ attempt' = [i \in Items |-> IF i \in claimed THEN NextAttempt(i) ELSE attempt[i]]
  /\ holder' = [i \in Items |-> IF i \in claimed THEN WorkerOf[p] ELSE holder[i]]
  /\ leased' = [i \in Items |-> i \in claimed \/ leased[i]]
  /\ thread' = [thread EXCEPT ![p] = [i \in Items |->
                  IF i \in claimed
                  THEN [NoThread EXCEPT !.at = "claimed", !.attempt = NextAttempt(i)]
                  ELSE NoThread]]
  /\ pc' = [pc EXCEPT ![p] = "working"]
  /\ UNCHANGED <<calendarVars, monitorVars, due, ledgerVars, scheduled, day, quiet>>

LEMMA StartRunClaims ==
  ASSUME day \in [Procs -> Days], NEW p \in Procs, StartRun(p)
  PROVE  /\ pc[p] = "starting"
         /\ \E claimed \in SUBSET Items :
              /\ \A i \in claimed : Claimable(RowsOf(p), i)
              /\ Claims(p, claimed)
<1> DEFINE rows == RowsOf(p)
           ready == {m \in Monitors : Claimable(rows, <<day[p], m>>)}
           Claimed(locked) == {day[p]} \X FirstOf(ready \ locked, Parallelism)
<1>1. pc[p] = "starting"
  BY DEF StartRun
<1>2. PICK locked \in SUBSET ready : Claims(p, Claimed(locked))
  BY Zenon DEF StartRun, Claims, RowsOf
<1>3. \A m \in FirstOf(ready \ locked, Parallelism) : m \in ready
  BY DEF FirstOf
<1>4. \A i \in Claimed(locked) : \E m \in ready : i = <<day[p], m>>
  BY <1>3
<1>5. ASSUME NEW i \in Claimed(locked) PROVE i \in Items /\ Claimable(rows, i)
  <2>1. PICK m \in ready : i = <<day[p], m>>
    BY <1>4
  <2>2. m \in Monitors /\ Claimable(rows, <<day[p], m>>)
    BY <2>1
  <2>3. i \in Items
    BY <2>1, <2>2 DEF Items
  <2> QED
    BY <2>1, <2>2, <2>3, Zenon
<1> QED
  BY <1>1, <1>2, <1>5

-----------------------------------------------------------------------------
(* Type correctness.  That the new cursor is one of the page needs a finite *)
(* table of monitors; that an audit names an attempt needs claims to be     *)
(* counted from one.                                                        *)

ClaimsAreCounted ==
  \A p \in Procs, i \in Items : thread[p][i].at \in Busy => thread[p][i].attempt # 0

Typed == TypeOK /\ IsFiniteSet(monitors) /\ ClaimsAreCounted

LEMMA CalendarType ==
  ASSUME NEW t \in Days, NEW s \in 0..(Slots - 1)
  PROVE  /\ (t - 1) * Slots + s \in Nat
         /\ (t - 1) * Slots + s <= Slots * LastDay - 1
<1> USE MonitoringAssumption DEF Days
<1>1. /\ Slots \in Nat /\ LastDay \in Nat /\ t \in Nat /\ s \in Nat
      /\ t >= 1 /\ t <= LastDay /\ s <= Slots - 1
  OBVIOUS
<1>2. (t - 1) * Slots \in Nat
  BY <1>1
<1>3. (t - 1) * Slots <= (LastDay - 1) * Slots
  BY <1>1
<1>4. (LastDay - 1) * Slots = Slots * LastDay - Slots
  BY <1>1
<1> QED
  BY <1>1, <1>2, <1>3, <1>4

LEMMA NowType ==
  ASSUME today \in Days, slot \in 0..(Slots - 1)
  PROVE  Now \in Nat /\ Now <= Slots * LastDay - 1
BY CalendarType DEF Now

LEMMA DeadlineType == Slots * LastDay \in Nat
BY MonitoringAssumption

LEMMA NextAttemptType ==
  ASSUME TypeOK, NEW i \in Items
  PROVE  NextAttempt(i) \in 1..AttemptBound
BY MonitoringAssumption DEF TypeOK, NextAttempt, MinOf

LEMMA PageType ==
  ASSUME TypeOK, IsFiniteSet(monitors), NEW p \in Procs
  PROVE  /\ Page(p) \in SUBSET monitors
         /\ IsFiniteSet(Page(p))
         /\ Page(p) # {} => \E m \in Page(p) : \A x \in Page(p) : x <= m
<1>1. monitors \in SUBSET Nat
  BY MonitoringAssumption DEF TypeOK
<1> DEFINE S == {m \in DueAt(scheduled[p]) : m > cursor[day[p]]}
<1>2. S \in SUBSET monitors /\ S \in SUBSET Nat /\ IsFiniteSet(S)
  BY <1>1, FS_Subset DEF DueAt
<1>3. FirstOf(S, PageLimit) \subseteq S /\ IsFiniteSet(FirstOf(S, PageLimit))
  BY <1>2, FirstOfBegins, MonitoringAssumption
<1>4. Page(p) \in SUBSET S /\ IsFiniteSet(Page(p))
  BY <1>3, FS_EmptySet DEF Page
<1>5. Page(p) # {} => \E m \in Page(p) : \A x \in Page(p) : x <= m
  BY <1>2, <1>4, GreatestElement
<1> QED
  BY <1>2, <1>4, <1>5

LEMMA CollectType ==
  ASSUME TypeOK, IsFiniteSet(monitors), NEW p \in Procs, Collect(day[p], Page(p))
  PROVE  /\ status' \in [Days -> BatchStatus]
         /\ cursor' \in [Days -> {0} \cup Monitors]
         /\ collected' \in [Days -> BOOLEAN]
         /\ wanted' \in [Days -> SUBSET Monitors]
<1> DEFINE page == Page(p)
           d == day[p]
           last == CHOOSE m \in page : \A x \in page : x <= m
<1>1. d \in Days /\ page \in SUBSET Monitors
  BY PageType DEF TypeOK
<1>2. page # {} => last \in Monitors
  BY <1>1, PageType
<1>c. Collect(d, page)
  OBVIOUS
<1> HIDE DEF page, d
<1>3. cursor' = [cursor EXCEPT ![d] = IF page = {} THEN @ ELSE last]
  BY <1>c DEF Collect, last
<1> HIDE DEF last
<1>4. DueForAll(d) \in SUBSET Monitors
  BY DEF DueForAll, TypeOK
<1>5. cursor' \in [Days -> {0} \cup Monitors]
  BY <1>1, <1>2, <1>3 DEF TypeOK
<1>6. status' \in [Days -> BatchStatus]
  BY <1>1, <1>c DEF Collect, TypeOK, BatchStatus
<1>7. collected' \in [Days -> BOOLEAN]
  BY <1>1, <1>c DEF Collect, TypeOK, CompletesCollection
<1>8. wanted' \in [Days -> SUBSET Monitors]
  <2>1. wanted' = [wanted EXCEPT ![d] = IF status[d] = "absent" THEN DueForAll(d) ELSE @]
    BY <1>c, Zenon DEF Collect
  <2>2. wanted \in [Days -> SUBSET Monitors]
    BY DEF TypeOK
  <2> QED
    BY <1>1, <1>4, <2>1, <2>2
<1> QED
  BY <1>5, <1>6, <1>7, <1>8

\* A thread that sets the next check of its monitor changes what other days want.
LEMMA SetForType ==
  ASSUME TypeOK, NEW i \in Items, SetFor(i)
  PROVE  wanted' \in [Days -> SUBSET Monitors]
BY DEF SetFor, TypeOK

LEMMA InitTyped == Init => Typed
<1> SUFFICES ASSUME Init PROVE Typed
  OBVIOUS
<1> USE MonitoringAssumption
<1>1. NoThread \in Thread
  BY DeadlineType DEF NoThread, Thread, ThreadPc
<1>2. TypeOK
  <2>1. 0 \in Nat /\ 0 \in 0..(Slots - 1) /\ 0 \in 0..AttemptBound
    OBVIOUS
  <2> QED
    BY <1>1, <2>1 DEF Init, TypeOK, BatchStatus, ItemState, Open, Settled
<1>3. IsFiniteSet(monitors)
  BY FS_EmptySet DEF Init
<1>4. ClaimsAreCounted
  BY DEF Init, ClaimsAreCounted, NoThread, Busy
<1> QED
  BY <1>2, <1>3, <1>4 DEF Typed

\* The values a thread may be given.
LEMMA ThreadAt ==
  ASSUME NEW t \in Thread, NEW place \in ThreadPc
  PROVE  /\ [t EXCEPT !.at = place] \in Thread
         /\ [t EXCEPT !.at = place].attempt = t.attempt
         /\ [t EXCEPT !.at = place].at = place
BY DEF Thread

LEMMA ThreadLate ==
  ASSUME NEW t \in Thread, NEW b \in BOOLEAN
  PROVE  /\ [t EXCEPT !.late = b] \in Thread
         /\ [t EXCEPT !.late = b].attempt = t.attempt
         /\ [t EXCEPT !.late = b].at = t.at
BY DEF Thread

LEMMA ThreadSees ==
  ASSUME NEW t \in Thread, NEW time \in 0..(Slots * LastDay)
  PROVE  /\ [t EXCEPT !.seen = time] \in Thread
         /\ [t EXCEPT !.seen = time].attempt = t.attempt
         /\ [t EXCEPT !.seen = time].at = t.at
         /\ [t EXCEPT !.seen = time].seen = time
BY DEF Thread

LEMMA ThreadClaims ==
  ASSUME NEW t \in Thread, NEW n \in 0..AttemptBound
  PROVE  /\ [t EXCEPT !.at = "claimed", !.attempt = n] \in Thread
         /\ [t EXCEPT !.at = "claimed", !.attempt = n].attempt = n
BY DEF Thread, ThreadPc

LEMMA ThreadFails ==
  ASSUME NEW t \in Thread, NEW b \in BOOLEAN
  PROVE  /\ [t EXCEPT !.at = "failing", !.retryable = b] \in Thread
         /\ [t EXCEPT !.at = "failing", !.retryable = b].attempt = t.attempt
BY DEF Thread, ThreadPc

\* A thread of the pool moves on.
LEMMA ThreadMoves ==
  ASSUME thread \in [Procs -> [Items -> Thread]], ClaimsAreCounted,
         NEW p \in Procs, NEW i \in Items, NEW t \in Thread,
         t.at \in Busy => t.attempt # 0,
         thread' = [thread EXCEPT ![p][i] = t]
  PROVE  thread' \in [Procs -> [Items -> Thread]] /\ ClaimsAreCounted'
<1>1. thread' \in [Procs -> [Items -> Thread]]
  OBVIOUS
<1>2. ASSUME NEW q \in Procs, NEW j \in Items
      PROVE  thread'[q][j] = IF q = p /\ j = i THEN t ELSE thread[q][j]
  OBVIOUS
<1>3. ClaimsAreCounted'
  BY <1>2 DEF ClaimsAreCounted
<1> QED
  BY <1>1, <1>3

\* A thread that starts keeps the attempt of its claim and notes the time.
LEMMA StartItemMoves ==
  ASSUME thread \in [Procs -> [Items -> Thread]],
         NEW p \in Procs, NEW i \in Items, StartItem(p, i),
         leased[i] \in BOOLEAN, Now \in 0..(Slots * LastDay)
  PROVE  \E t \in Thread : /\ t.attempt = thread[p][i].attempt
                          /\ t.seen = Now
                          /\ t.at \in {"failing", "asking"}
                          /\ thread' = [thread EXCEPT ![p][i] = t]
<1>1. PICK old \in Thread : old = thread[p][i]
  OBVIOUS
<1>2. PICK place \in ThreadPc :
        /\ place = IF thread[p][i].attempt > MaxAttempts THEN "failing" ELSE "asking"
        /\ place \in {"failing", "asking"}
  BY DEF ThreadPc
<1>3. PICK late \in BOOLEAN : late = ~leased[i]
  OBVIOUS
<1> DEFINE Times == 0..(Slots * LastDay)
<1>4. PICK time \in Times : time = Now
  OBVIOUS
<1> HIDE DEF Times
<1>5. PICK t \in Thread : /\ t = [old EXCEPT !.at = place, !.late = late, !.seen = time]
                         /\ t.attempt = old.attempt
                         /\ t.seen = time
                         /\ t.at = place
  <2>1. PICK u \in Thread : /\ u = [old EXCEPT !.at = place]
                           /\ u.attempt = old.attempt
                           /\ u.at = place
    BY ThreadAt
  <2>2. PICK v \in Thread : /\ v = [u EXCEPT !.late = late]
                           /\ v.attempt = u.attempt
                           /\ v.at = u.at
    BY ThreadLate
  <2>3. PICK w \in Thread : /\ w = [v EXCEPT !.seen = time]
                           /\ w.attempt = v.attempt
                           /\ w.at = v.at
                           /\ w.seen = time
    BY ThreadSees DEF Times
  <2> QED
    BY <2>1, <2>2, <2>3
<1>6. thread' = [thread EXCEPT ![p][i].at = place, ![p][i].late = late, ![p][i].seen = time]
  BY <1>2, <1>3, <1>4 DEF StartItem
<1>7. thread' = [thread EXCEPT ![p][i] = t]
  BY <1>1, <1>5, <1>6
<1> QED
  BY <1>1, <1>2, <1>4, <1>5, <1>7

LEMMA StartItemMovesTyped ==
  ASSUME Typed, NEW p \in Procs, NEW i \in Items, StartItem(p, i)
  PROVE  \E t \in Thread : /\ t.attempt = thread[p][i].attempt
                          /\ t.seen = Now
                          /\ t.at \in {"failing", "asking"}
                          /\ thread' = [thread EXCEPT ![p][i] = t]
<1>1. /\ thread \in [Procs -> [Items -> Thread]]
      /\ leased \in [Items -> BOOLEAN]
      /\ today \in Days /\ slot \in 0..(Slots - 1)
  BY DEF Typed, TypeOK
<1>2. Now \in 0..(Slots * LastDay)
  BY <1>1, NowType, DeadlineType
<1> QED
  BY <1>1, <1>2, StartItemMoves

\* A run ends, or the process does: its threads are gone.
LEMMA ThreadsEnd ==
  ASSUME thread \in [Procs -> [Items -> Thread]], ClaimsAreCounted,
         NEW p \in Procs,
         thread' = [thread EXCEPT ![p] = [i \in Items |-> NoThread]]
  PROVE  thread' \in [Procs -> [Items -> Thread]] /\ ClaimsAreCounted'
<1>1. NoThread \in Thread
  BY DeadlineType, MonitoringAssumption DEF NoThread, Thread, ThreadPc
<1>2. ASSUME NEW q \in Procs, NEW j \in Items
      PROVE  thread'[q][j] = IF q = p THEN NoThread ELSE thread[q][j]
  OBVIOUS
<1>3. ClaimsAreCounted'
  BY <1>2 DEF ClaimsAreCounted, NoThread, Busy
<1> QED
  BY <1>1, <1>3

LEMMA StepTyped == Typed /\ [Next]_vars => Typed'
<1> SUFFICES ASSUME Typed, [Next]_vars PROVE Typed'
  OBVIOUS
<1>0. TypeOK /\ IsFiniteSet(monitors) /\ ClaimsAreCounted
  BY DEF Typed
<1>t. /\ today \in Days /\ slot \in 0..(Slots - 1) /\ Now \in Nat
      /\ Now <= Slots * LastDay - 1
  BY <1>0, NowType DEF TypeOK
<1>d. /\ Slots * LastDay \in Nat /\ Slots \in Nat \ {0} /\ LastDay \in Nat \ {0}
      /\ AttemptBound \in Nat /\ NoWorker \notin Workers /\ WorkerOf \in [Procs -> Workers]
  BY DeadlineType, MonitoringAssumption
<1> USE DEF calendarVars, monitorVars, batchVars, itemVars, ledgerVars, procVars
<1>1. ASSUME NEW m \in Monitors, AddMonitor(m) PROVE Typed'
  <2>2. nextCheck' \in [Monitors -> Nat]
    BY <1>0, <1>t, <1>1 DEF AddMonitor, TypeOK
  <2>3. IsFiniteSet(monitors')
    BY <1>0, <1>1, FS_AddElement DEF AddMonitor
  <2>4. TypeOK'
    BY <1>0, <1>1, <2>2 DEF AddMonitor, TypeOK
  <2> QED
    BY <1>0, <1>1, <2>3, <2>4 DEF AddMonitor, Typed, ClaimsAreCounted
<1>2. ASSUME NEW p \in Procs, StartRun(p) PROVE Typed'
  <2>1. PICK claimed \in SUBSET Items :
          /\ \A i \in claimed : Claimable(RowsOf(p), i)
          /\ Claims(p, claimed)
    BY <1>0, <1>2, StartRunClaims DEF TypeOK
  <2>2. /\ status' \in [Days -> BatchStatus]
        /\ cursor' \in [Days -> {0} \cup Monitors]
        /\ collected' \in [Days -> BOOLEAN]
        /\ wanted' \in [Days -> SUBSET Monitors]
    BY <1>0, <2>1, CollectType DEF Claims
  <2>3. /\ state' \in [Items -> ItemState]
        /\ attempt' \in [Items -> 0..AttemptBound]
        /\ holder' \in [Items -> Workers \cup {NoWorker}]
        /\ leased' \in [Items -> BOOLEAN]
    <3>1. RowsOf(p) \in [Items -> ItemState]
      BY <1>0 DEF RowsOf, TypeOK, ItemState, Open
    <3>2. \A i \in Items : NextAttempt(i) \in 0..AttemptBound
      BY <1>0, <1>d, NextAttemptType
    <3> QED
      BY <1>0, <1>d, <2>1, <3>1, <3>2 DEF Claims, TypeOK, ItemState, Open
  <2>4. thread' \in [Procs -> [Items -> Thread]] /\ ClaimsAreCounted'
    <3> DEFINE T(i) == IF i \in claimed
                       THEN [NoThread EXCEPT !.at = "claimed", !.attempt = NextAttempt(i)]
                       ELSE NoThread
    <3>1. ASSUME NEW i \in Items
          PROVE  T(i) \in Thread /\ (T(i).at \in Busy => T(i).attempt # 0)
      <4>1. NextAttempt(i) \in 1..AttemptBound
        BY <1>0, NextAttemptType
      <4>2. NoThread \in Thread /\ NoThread.at \notin Busy /\ "claimed" \in ThreadPc
        BY <1>d DEF NoThread, Thread, ThreadPc, Busy
      <4>3. CASE i \in claimed
        <5>1. T(i) = [NoThread EXCEPT !.at = "claimed", !.attempt = NextAttempt(i)]
          BY <4>3
        <5>2. NextAttempt(i) \in 0..AttemptBound /\ NextAttempt(i) # 0
          BY <1>d, <4>1
        <5>3. /\ [NoThread EXCEPT !.at = "claimed", !.attempt = NextAttempt(i)] \in Thread
              /\ [NoThread EXCEPT !.at = "claimed", !.attempt = NextAttempt(i)].attempt
                   = NextAttempt(i)
          BY <4>2, <5>2, ThreadClaims, Zenon
        <5> HIDE DEF T
        <5> QED
          BY <5>1, <5>2, <5>3, Zenon
      <4>4. CASE i \notin claimed
        BY <4>2, <4>4
      <4> QED
        BY <4>3, <4>4
    <3>2. thread' = [thread EXCEPT ![p] = [i \in Items |-> T(i)]]
      BY <2>1 DEF Claims
    <3> HIDE DEF T
    <3>3. thread \in [Procs -> [Items -> Thread]]
      BY <1>0 DEF TypeOK
    <3>4. ASSUME NEW q \in Procs, NEW j \in Items
          PROVE  thread'[q][j] = IF q = p THEN T(j) ELSE thread[q][j]
      BY <3>2, <3>3
    <3> QED
      BY <1>0, <3>1, <3>2, <3>3, <3>4 DEF ClaimsAreCounted
  <2>5. TypeOK'
    BY <1>0, <1>t, <2>1, <2>2, <2>3, <2>4 DEF Claims, TypeOK
  <2> QED
    BY <1>0, <2>1, <2>4, <2>5 DEF Claims, Typed
<1>3. ASSUME NEW p \in Procs, RunRaises(p) \/ Crash(p) PROVE Typed'
  <2>1. thread' = [thread EXCEPT ![p] = [i \in Items |-> NoThread]]
    BY <1>3 DEF RunRaises, Crash
  <2>2. thread' \in [Procs -> [Items -> Thread]] /\ ClaimsAreCounted'
    BY <1>0, <2>1, ThreadsEnd DEF TypeOK
  <2>3. TypeOK'
    BY <1>0, <1>3, <2>2 DEF RunRaises, Crash, TypeOK
  <2> QED
    BY <1>0, <1>3, <2>2, <2>3 DEF RunRaises, Crash, Typed
<1>b. ASSUME NEW p \in Procs, BeginRun(p) PROVE Typed'
  BY <1>0, <1>t, <1>b DEF BeginRun, Typed, TypeOK, ClaimsAreCounted
<1>4. ASSUME NEW p \in Procs, CountOpen(p) PROVE Typed'
  BY <1>0, <1>4 DEF CountOpen, Typed, TypeOK, ClaimsAreCounted
<1>5. ASSUME NEW p \in Procs, Finalize(p) PROVE Typed'
  BY <1>0, <1>5 DEF Finalize, Typed, TypeOK, ClaimsAreCounted, BatchStatus
<1>6. ASSUME NEW p \in Procs, NEW i \in Items, ThreadStep(p, i) PROVE Typed'
  <2> DEFINE old == thread[p][i]
  <2>0. /\ thread \in [Procs -> [Items -> Thread]]
        /\ old \in Thread /\ NoThread \in Thread
        /\ old.at \in Busy => old.attempt \in 1..AttemptBound
    BY <1>0, <1>d DEF TypeOK, ClaimsAreCounted, Thread, NoThread, ThreadPc
  <2>i. i[2] \in Monitors
    BY DEF Items
  <2>1. CASE StartItem(p, i)
    <3>1. old.at \in Busy /\ old.attempt # 0 /\ leased[i] \in BOOLEAN
      BY <1>0, <1>d, <2>0, <2>1 DEF StartItem, TypeOK, Busy
    <3>2. PICK t \in Thread : /\ t.attempt = old.attempt
                             /\ thread' = [thread EXCEPT ![p][i] = t]
      BY <2>1, StartItemMovesTyped
    <3>3. thread' \in [Procs -> [Items -> Thread]] /\ ClaimsAreCounted'
      BY <1>0, <2>0, <3>1, <3>2, ThreadMoves
    <3> QED
      BY <1>0, <2>1, <3>3 DEF StartItem, Typed, TypeOK
  <2>2. CASE RecordObservation(p, i)
    <3> DEFINE t == [old EXCEPT !.at = "recorded"]
    <3>1. t \in Thread /\ t.attempt # 0
      <4>1. old.at \in Busy /\ old.attempt # 0
        BY <1>d, <2>0, <2>2 DEF RecordObservation, Busy
      <4>2. "recorded" \in ThreadPc
        BY DEF ThreadPc
      <4> QED
        BY <2>0, <4>1, <4>2, ThreadAt
    <3>2. thread' = [thread EXCEPT ![p][i] = t]
      BY <2>0, <2>2 DEF RecordObservation, Thread
    <3>3. thread' \in [Procs -> [Items -> Thread]] /\ ClaimsAreCounted'
      BY <1>0, <2>0, <3>1, <3>2, ThreadMoves
    <3>4. old.seen + Slots \in Nat
      BY <1>d, <2>0 DEF Thread
    <3>5. nextCheck' \in [Monitors -> Nat]
      BY <1>0, <2>i, <2>2, <3>4 DEF RecordObservation, TypeOK
    <3>6. wanted' \in [Days -> SUBSET Monitors]
      <4>1. SetFor(i) \/ wanted' = wanted
        BY <2>2 DEF RecordObservation
      <4> QED
        BY <1>0, <4>1, SetForType DEF TypeOK
    <3> QED
      BY <1>0, <2>2, <3>3, <3>5, <3>6 DEF RecordObservation, Typed, TypeOK
  <2>3. CASE ObservationFails(p, i)
    <3>1. PICK b \in BOOLEAN :
            thread' = [thread EXCEPT ![p][i].at = "failing", ![p][i].retryable = b]
      BY <2>3 DEF ObservationFails
    <3> DEFINE t == [old EXCEPT !.at = "failing", !.retryable = b]
    <3>2. t \in Thread /\ t.attempt # 0
      <4>1. old.at \in Busy /\ old.attempt # 0
        BY <1>d, <2>0, <2>3 DEF ObservationFails, Busy
      <4> QED
        BY <2>0, <4>1, ThreadFails
    <3>3. thread' = [thread EXCEPT ![p][i] = t]
      BY <2>0, <3>1 DEF Thread
    <3>4. thread' \in [Procs -> [Items -> Thread]] /\ ClaimsAreCounted'
      BY <1>0, <2>0, <3>2, <3>3, ThreadMoves
    <3> QED
      BY <1>0, <2>3, <3>4 DEF ObservationFails, Typed, TypeOK
  <2>4. CASE Complete(p, i)
    <3>1. thread' \in [Procs -> [Items -> Thread]] /\ ClaimsAreCounted'
      BY <1>0, <2>0, <2>4, ThreadMoves DEF Complete, NoThread, Busy
    <3> QED
      BY <1>0, <2>4, <3>1 DEF Complete, Typed, TypeOK, ItemState, Settled
  <2>5. CASE CompletionRejected(p, i)
    <3> DEFINE t == [old EXCEPT !.at = "failing", !.retryable = FALSE]
    <3>1. t \in Thread /\ t.attempt # 0
      <4>1. old.at \in Busy /\ old.attempt # 0
        BY <1>d, <2>0, <2>5 DEF CompletionRejected, Busy
      <4> QED
        BY <2>0, <4>1, ThreadFails
    <3>2. thread' = [thread EXCEPT ![p][i] = t]
      BY <2>0, <2>5 DEF CompletionRejected, Thread
    <3>3. thread' \in [Procs -> [Items -> Thread]] /\ ClaimsAreCounted'
      BY <1>0, <2>0, <3>1, <3>2, ThreadMoves
    <3> QED
      BY <1>0, <2>5, <3>3 DEF CompletionRejected, Typed, TypeOK
  <2>6. CASE Fail(p, i)
    <3> DEFINE outcome == IF ShouldRetry(old.retryable, old.attempt)
                          THEN "retryable" ELSE "failed"
    <3>1. thread' \in [Procs -> [Items -> Thread]] /\ ClaimsAreCounted'
      BY <1>0, <2>0, <2>6, ThreadMoves DEF Fail, NoThread, Busy
    <3>2. [item |-> i, attempt |-> old.attempt, outcome |-> outcome]
            \in [item : Items, attempt : 1..AttemptBound, outcome : {"retryable", "failed"}]
      BY <2>0, <2>6 DEF Fail, Busy
    <3>3. audits' \subseteq [item : Items, attempt : 1..AttemptBound,
                             outcome : {"retryable", "failed"}]
      BY <1>0, <2>6, <3>2 DEF Fail, TypeOK
    <3>4. PICK time \in AvailableFrom(old.seen, outcome) : SetMonitorError(i[2], time)
      BY <2>6 DEF Fail
    <3>n. time \in Nat
      <4>1. old.seen \in Nat /\ Backoff \in Nat
        BY <1>d, <2>0, MonitoringAssumption DEF Thread
      <4> QED
        BY <3>4, <4>1 DEF AvailableFrom
    <3>5. nextCheck' \in [Monitors -> Nat] /\ inError' \subseteq Monitors
      BY <1>0, <2>i, <3>4, <3>n DEF SetMonitorError, TypeOK
    <3>w. wanted' \in [Days -> SUBSET Monitors]
      BY <1>0, <2>6, SetForType DEF Fail
    <3>6. /\ state' \in [Items -> ItemState]
          /\ holder' \in [Items -> Workers \cup {NoWorker}]
          /\ leased' \in [Items -> BOOLEAN]
          /\ due' \in [Items -> BOOLEAN]
      BY <1>0, <2>6 DEF Fail, FailItem, TypeOK, ItemState, Open, Settled
    <3> QED
      BY <1>0, <2>6, <3>1, <3>3, <3>5, <3>6, <3>w DEF Fail, Typed, TypeOK
  <2>7. CASE FailureRejected(p, i)
    <3> DEFINE t == [NoThread EXCEPT !.at = "raised"]
    <3>1. t \in Thread /\ t.at \notin Busy
      BY <2>0 DEF NoThread, Thread, ThreadPc, Busy
    <3>2. thread' \in [Procs -> [Items -> Thread]] /\ ClaimsAreCounted'
      BY <1>0, <2>0, <2>7, <3>1, ThreadMoves DEF FailureRejected
    <3> QED
      BY <1>0, <2>7, <3>2 DEF FailureRejected, Typed, TypeOK
  <2> QED
    BY <1>6, <2>1, <2>2, <2>3, <2>4, <2>5, <2>6, <2>7 DEF ThreadStep
<1>7. ASSUME NEW i \in Items, LeaseExpires(i) \/ BackoffEnds(i) PROVE Typed'
  BY <1>0, <1>7 DEF LeaseExpires, BackoffEnds, Typed, TypeOK, ClaimsAreCounted
<1>8. CASE Tick
  <2>1. slot' \in 0..(Slots - 1) /\ (slot' = 0 <=> slot = Slots - 1)
    BY <1>t, <1>d, <1>8 DEF Tick
  <2>2. today' \in Days
    <3>1. CASE slot' # 0
      BY <1>t, <1>8, <3>1 DEF Tick
    <3>2. CASE slot' = 0
      <4>1. today \in Nat /\ today >= 1 /\ today <= LastDay
        BY <1>t, <1>d DEF Days
      <4>2. Now = Slots * today - 1
        BY <1>d, <2>1, <3>2, <4>1 DEF Now
      <4>3. Slots * today < Slots * LastDay
        BY <1>t, <1>d, <1>8, <4>1, <4>2 DEF Tick
      <4>4. today # LastDay
        BY <1>d, <4>1, <4>3
      <4> QED
        BY <1>d, <1>8, <3>2, <4>1, <4>4 DEF Tick, Days
    <3> QED
      BY <3>1, <3>2
  <2> QED
    BY <1>0, <1>8, <2>1, <2>2 DEF Tick, Typed, TypeOK, ClaimsAreCounted
<1>9. CASE UNCHANGED vars
  BY <1>0, <1>9 DEF vars, Typed, TypeOK, ClaimsAreCounted
<1> QED
  BY <1>b, <1>1, <1>2, <1>3, <1>4, <1>5, <1>6, <1>7, <1>8, <1>9 DEF Next

\* Every reachable state has the values its columns, cursors and threads are
\* given: a cursor is a monitor of the table, a clock within its calendar, an
\* audited attempt one that was claimed.
THEOREM TypeCorrect == Spec => []TypeOK
<1>1. Init => Typed
  BY InitTyped
<1>2. Typed /\ [Next]_vars => Typed'
  BY StepTyped
<1>3. Typed => TypeOK
  BY DEF Typed
<1> QED
  BY <1>1, <1>2, <1>3, PTL DEF Spec

-----------------------------------------------------------------------------
(* A thread works on an item that exists, and has stored the item's         *)
(* observation before it completes it.                                      *)

ThreadsHaveItems ==
  \A p \in Procs, i \in Items :
    /\ thread[p][i].at \in Busy => state[i] # "absent"
    /\ thread[p][i].at = "recorded" => i \in recorded

LEMMA InitThreadsHaveItems == Init => ThreadsHaveItems
BY DEF Init, ThreadsHaveItems, NoThread, Busy

\* A thread that is busy after a step of the pool was busy before, with the
\* attempt it has.
LEMMA ThreadsKeepAttempts ==
  ASSUME TypeOK, NEW p \in Procs, NEW i \in Items, ThreadStep(p, i),
         NEW q \in Procs, NEW j \in Items, thread'[q][j].at \in Busy
  PROVE  thread[q][j].at \in Busy /\ thread'[q][j].attempt = thread[q][j].attempt
<1>0. thread \in [Procs -> [Items -> Thread]] /\ thread[p][i] \in Thread
  BY DEF TypeOK
<1>1. CASE StartItem(p, i)
  BY <1>0, <1>1 DEF StartItem, Thread, Busy
<1>2. CASE RecordObservation(p, i)
  BY <1>0, <1>2 DEF RecordObservation, Thread, Busy
<1>3. CASE ObservationFails(p, i)
  BY <1>0, <1>3 DEF ObservationFails, Thread, Busy
<1>4. CASE CompletionRejected(p, i)
  BY <1>0, <1>4 DEF CompletionRejected, Thread, Busy
<1>5. CASE Complete(p, i) \/ Fail(p, i)
  BY <1>0, <1>5 DEF Complete, Fail, NoThread, Busy
<1>6. CASE FailureRejected(p, i)
  BY <1>0, <1>6 DEF FailureRejected, NoThread, Busy
<1> QED
  BY <1>1, <1>2, <1>3, <1>4, <1>5, <1>6 DEF ThreadStep

\* No statement deletes an item or an observation.
LEMMA ItemsStay ==
  ASSUME Typed, Next, NEW i \in Items
  PROVE  /\ state[i] # "absent" => state'[i] # "absent"
         /\ recorded \subseteq recorded'
<1>0. state \in [Items -> ItemState] /\ day \in [Procs -> Days]
  BY DEF Typed, TypeOK
<1> USE DEF calendarVars, monitorVars, batchVars, itemVars, ledgerVars, procVars
<1>1. ASSUME NEW p \in Procs, StartRun(p)
      PROVE  (state[i] # "absent" => state'[i] # "absent") /\ recorded \subseteq recorded'
  <2>1. PICK claimed \in SUBSET Items : Claims(p, claimed)
    BY <1>0, <1>1, StartRunClaims
  <2>2. state' = [j \in Items |-> IF j \in claimed THEN "running" ELSE RowsOf(p)[j]]
    BY <2>1, Zenon DEF Claims
  <2>3. RowsOf(p)[i] = state[i] \/ RowsOf(p)[i] = "pending"
    BY DEF RowsOf
  <2>4. recorded' = recorded
    BY <1>1, Zenon DEF StartRun
  <2> QED
    BY <2>2, <2>3, <2>4
<1>2. ASSUME NEW p \in Procs, NEW j \in Items, ThreadStep(p, j)
      PROVE  (state[i] # "absent" => state'[i] # "absent") /\ recorded \subseteq recorded'
  <2>1. CASE Complete(p, j)
    BY <1>0, <2>1 DEF Complete
  <2>2. CASE Fail(p, j)
    BY <1>0, <2>2 DEF Fail, FailItem
  <2>3. CASE RecordObservation(p, j)
    BY <2>3 DEF RecordObservation
  <2>4. CASE StartItem(p, j) \/ ObservationFails(p, j) \/ CompletionRejected(p, j)
             \/ FailureRejected(p, j)
    BY <2>4 DEF StartItem, ObservationFails, CompletionRejected, FailureRejected
  <2> QED
    BY <1>2, <2>1, <2>2, <2>3, <2>4 DEF ThreadStep
<1>3. ASSUME NEW p \in Procs, BeginRun(p) \/ RunRaises(p) \/ CountOpen(p) \/ Finalize(p) \/ Crash(p)
      PROVE  UNCHANGED <<state, recorded>>
  BY <1>3 DEF BeginRun, RunRaises, CountOpen, Finalize, Crash
<1>4. ASSUME NEW j \in Items, LeaseExpires(j) \/ BackoffEnds(j)
      PROVE  UNCHANGED <<state, recorded>>
  BY <1>4 DEF LeaseExpires, BackoffEnds
<1>5. ASSUME Tick \/ \E m \in Monitors : AddMonitor(m)
      PROVE  UNCHANGED <<state, recorded>>
  BY <1>5 DEF Tick, AddMonitor
<1> QED
  BY <1>1, <1>2, <1>3, <1>4, <1>5 DEF Next

\* The pool a run starts with.
LEMMA ClaimedThreads ==
  ASSUME thread \in [Procs -> [Items -> Thread]], NEW p \in Procs,
         NEW claimed \in SUBSET Items, Claims(p, claimed),
         NEW q \in Procs, NEW j \in Items
  PROVE  /\ q # p => thread'[q][j] = thread[q][j]
         /\ q = p /\ j \notin claimed => thread'[q][j] = NoThread
         /\ q = p /\ j \in claimed => thread'[q][j].at = "claimed"
<1> DEFINE first(i) == [NoThread EXCEPT !.at = "claimed", !.attempt = NextAttempt(i)]
           pool == [i \in Items |-> IF i \in claimed THEN first(i) ELSE NoThread]
<1>1. thread' = [thread EXCEPT ![p] = pool]
  BY Zenon DEF Claims
<1>2. first(j).at = "claimed"
  BY DEF NoThread
<1> HIDE DEF first
<1>3. pool[j] = IF j \in claimed THEN first(j) ELSE NoThread
  OBVIOUS
<1> HIDE DEF pool
<1>4. thread'[q][j] = IF q = p THEN pool[j] ELSE thread[q][j]
  BY <1>1
<1> QED
  BY <1>2, <1>3, <1>4

LEMMA StepThreadsHaveItems ==
  Typed /\ ThreadsHaveItems /\ [Next]_vars => ThreadsHaveItems'
<1> SUFFICES ASSUME Typed, ThreadsHaveItems, [Next]_vars, NEW q \in Procs, NEW j \in Items
             PROVE  /\ thread'[q][j].at \in Busy => state'[j] # "absent"
                    /\ thread'[q][j].at = "recorded" => j \in recorded'
  BY DEF ThreadsHaveItems
<1>0. TypeOK /\ day \in [Procs -> Days] /\ thread \in [Procs -> [Items -> Thread]]
  BY DEF Typed, TypeOK
<1>h. /\ thread[q][j].at \in Busy => state[j] # "absent"
      /\ thread[q][j].at = "recorded" => j \in recorded
  BY DEF ThreadsHaveItems
<1> DEFINE Goal == /\ thread'[q][j].at \in Busy => state'[j] # "absent"
                   /\ thread'[q][j].at = "recorded" => j \in recorded'
<1> USE DEF calendarVars, monitorVars, batchVars, itemVars, ledgerVars, procVars
<1>1. CASE UNCHANGED vars
  BY <1>h, <1>1 DEF vars
<1>s. ASSUME Next,
             thread'[q][j].at \in Busy => thread[q][j].at \in Busy,
             thread'[q][j].at = "recorded" => thread[q][j].at = "recorded"
      PROVE  Goal
  BY <1>h, <1>s, ItemsStay
<1>2. ASSUME NEW p \in Procs, StartRun(p) PROVE Goal
  <2>1. PICK claimed \in SUBSET Items : Claims(p, claimed)
    BY <1>0, <1>2, StartRunClaims
  <2>2. CASE q # p \/ j \notin claimed
    <3>1. thread'[q][j] = thread[q][j] \/ thread'[q][j] = NoThread
      BY <1>0, <2>1, <2>2, ClaimedThreads
    <3>2. Next
      BY <1>2 DEF Next
    <3> QED
      BY <1>s, <3>1, <3>2 DEF NoThread, Busy
  <2>3. CASE q = p /\ j \in claimed
    <3>1. state' = [i \in Items |-> IF i \in claimed THEN "running" ELSE RowsOf(p)[i]]
      BY <2>1, Zenon DEF Claims
    <3>2. thread'[q][j].at = "claimed"
      BY <1>0, <2>1, <2>3, ClaimedThreads
    <3> QED
      BY <2>3, <3>1, <3>2
  <2> QED
    BY <2>2, <2>3
<1>3. ASSUME NEW p \in Procs, NEW i \in Items, ThreadStep(p, i) PROVE Goal
  <2>1. Next
    BY <1>3 DEF Next
  <2>2. thread'[q][j].at \in Busy => thread[q][j].at \in Busy
    BY <1>0, <1>3, ThreadsKeepAttempts
  <2>3. CASE RecordObservation(p, i)
    <3>1. CASE q = p /\ j = i
      BY <1>h, <2>1, <2>2, <2>3, <3>1, ItemsStay DEF RecordObservation
    <3>2. CASE ~(q = p /\ j = i)
      <4>1. thread'[q][j] = thread[q][j]
        BY <1>0, <2>3, <3>2 DEF RecordObservation
      <4> QED
        BY <1>s, <2>1, <4>1
    <3> QED
      BY <3>1, <3>2
  <2>4. CASE ~RecordObservation(p, i)
    <3>1. thread'[q][j].at = "recorded" => thread[q][j].at = "recorded"
      <4>1. CASE StartItem(p, i)
        <5>2. PICK t \in Thread : /\ t.at \in {"failing", "asking"}
                                 /\ thread' = [thread EXCEPT ![p][i] = t]
          BY <4>1, StartItemMovesTyped
        <5>3. thread'[q][j] = thread[q][j] \/ thread'[q][j] = t
          BY <1>0, <5>2
        <5> QED
          BY <5>2, <5>3
      <4>2. CASE ObservationFails(p, i)
        BY <1>0, <4>2 DEF ObservationFails, Thread
      <4>3. CASE Complete(p, i) \/ Fail(p, i)
        BY <1>0, <4>3 DEF Complete, Fail, NoThread
      <4>4. CASE CompletionRejected(p, i)
        BY <1>0, <4>4 DEF CompletionRejected, Thread
      <4>5. CASE FailureRejected(p, i)
        BY <1>0, <4>5 DEF FailureRejected, NoThread
      <4> QED
        BY <1>3, <2>4, <4>1, <4>2, <4>3, <4>4, <4>5 DEF ThreadStep
    <3> QED
      BY <1>s, <2>1, <2>2, <3>1
  <2> QED
    BY <2>3, <2>4
<1>4. ASSUME NEW p \in Procs, RunRaises(p) \/ Crash(p) PROVE Goal
  <2>1. thread'[q][j] = thread[q][j] \/ thread'[q][j] = NoThread
    BY <1>0, <1>4 DEF RunRaises, Crash
  <2>2. Next
    BY <1>4 DEF Next
  <2> QED
    BY <1>s, <2>1, <2>2 DEF NoThread, Busy
<1>5. ASSUME Next, thread' = thread PROVE Goal
  BY <1>s, <1>5
<1>6. ASSUME NEW p \in Procs, BeginRun(p) \/ CountOpen(p) \/ Finalize(p) PROVE thread' = thread
  BY <1>6 DEF BeginRun, CountOpen, Finalize
<1>7. ASSUME NEW i \in Items, LeaseExpires(i) \/ BackoffEnds(i) PROVE thread' = thread
  BY <1>7 DEF LeaseExpires, BackoffEnds
<1>8. ASSUME Tick \/ \E m \in Monitors : AddMonitor(m) PROVE thread' = thread
  BY <1>8 DEF Tick, AddMonitor
<1> QED
  BY <1>1, <1>2, <1>3, <1>4, <1>5, <1>6, <1>7, <1>8 DEF Next

-----------------------------------------------------------------------------
(* Complete collections.  The inductive invariant follows the cursor: of    *)
(* the monitors a batch wants those up to it have their item, and the       *)
(* others are still due, for every run of the batch that has read its       *)
(* clock: whoever moves their next check, be it by a back-off into a later  *)
(* slot, works for another batch and takes them off the history, or works   *)
(* on the item they already have.                                           *)

WantedAreDue ==
  \A d \in Days : \A m \in wanted[d] :
    /\ m \in monitors
    /\ state[<<d, m>>] = "absent" =>
         /\ nextCheck[m] <= Now
         /\ \A q \in Procs : pc[q] = "starting" /\ day[q] = d => nextCheck[m] <= scheduled[q]

CollectedSoFar ==
  \A d \in Days : \A m \in wanted[d] :
    collected[d] \/ m <= cursor[d] => state[<<d, m>>] # "absent"

UnopenedIsEmpty ==
  \A d \in Days : status[d] = "absent" => cursor[d] = 0 /\ ~collected[d]

ClocksInThePast == \A p \in Procs : scheduled[p] <= Now

CollectionInv ==
  /\ Typed /\ ThreadsHaveItems
  /\ WantedAreDue /\ CollectedSoFar /\ UnopenedIsEmpty /\ ClocksInThePast

LEMMA InitCollection == Init => CollectionInv
<1> SUFFICES ASSUME Init PROVE CollectionInv
  OBVIOUS
<1>1. Typed /\ ThreadsHaveItems
  BY InitTyped, InitThreadsHaveItems
<1>2. Now \in Nat
  BY <1>1, NowType DEF Typed, TypeOK
<1> QED
  BY <1>1, <1>2 DEF Init, CollectionInv, WantedAreDue, CollectedSoFar, UnopenedIsEmpty,
                    ClocksInThePast

LEMMA CursorType ==
  ASSUME TypeOK, NEW d \in Days
  PROVE  cursor[d] \in Nat
<1>1. cursor[d] \in {0} \cup Monitors
  BY DEF TypeOK
<1>2. CASE cursor[d] = 0
  BY <1>2
<1>3. CASE cursor[d] \in Monitors
  BY <1>3, MonitoringAssumption
<1> QED
  BY <1>1, <1>2, <1>3

\* The page continues after the cursor, and a page that is not full is the last.
LEMMA PageContinues ==
  ASSUME Typed, NEW p \in Procs, NEW m \in DueAt(scheduled[p]),
         ~collected[day[p]], m > cursor[day[p]],
         Collect(day[p], Page(p)), collected'[day[p]] \/ m <= cursor'[day[p]]
  PROVE  m \in Page(p)
<1> DEFINE d == day[p]
           S == {x \in DueAt(scheduled[p]) : x > cursor[d]}
           page == Page(p)
           last == CHOOSE x \in page : \A y \in page : y <= x
<1>1. /\ TypeOK /\ d \in Days /\ IsFiniteSet(monitors)
      /\ monitors \in SUBSET Monitors /\ Monitors \in SUBSET Nat /\ PageLimit \in Nat
  BY MonitoringAssumption DEF Typed, TypeOK
<1>2. S \in SUBSET monitors /\ S \in SUBSET Nat /\ IsFiniteSet(S)
  BY <1>1, FS_Subset DEF DueAt
<1>3. page = FirstOf(S, PageLimit)
  BY DEF Page
<1>4. m \in S /\ m \in Nat
  BY <1>1 DEF DueAt
<1>c. Collect(d, page) /\ (collected'[d] \/ m <= cursor'[d]) /\ ~collected[d] /\ m > cursor[d]
  OBVIOUS
<1>p. page \in SUBSET monitors /\ (page # {} => last \in page)
  BY <1>1, PageType
<1> HIDE DEF S, page, d
<1>5. CASE collected'[d]
  <2>1. Cardinality(page) < PageLimit
    BY <1>1, <1>c, <1>5 DEF Collect, TypeOK, CompletesCollection
  <2>2. FirstOf(S, PageLimit) = S
    BY <1>1, <1>2, <1>3, <2>1, ShortPageIsAll
  <2> QED
    BY <1>3, <1>4, <2>2 DEF page
<1>6. CASE m <= cursor'[d]
  <2>1. page # {} /\ cursor'[d] = last
    <3>1. cursor'[d] = IF page = {} THEN cursor[d] ELSE last
      BY <1>1, <1>c DEF Collect, TypeOK
    <3>2. cursor[d] \in Nat
      BY <1>1, CursorType
    <3> HIDE DEF last
    <3> QED
      BY <1>4, <1>6, <1>c, <3>1, <3>2
  <2>2. last \in page
    BY <1>p, <2>1
  <2> HIDE DEF last
  <2>3. \A x \in FirstOf(S, PageLimit), y \in S : y <= x => y \in FirstOf(S, PageLimit)
    BY <1>1, <1>2, FirstOfBegins
  <2> QED
    BY <1>3, <1>4, <1>6, <2>1, <2>2, <2>3 DEF page
<1> QED
  BY <1>5, <1>6, <1>c

LEMMA StepCollectedSoFar == CollectionInv /\ [Next]_vars => CollectedSoFar'
<1> SUFFICES ASSUME CollectionInv, [Next]_vars,
                    NEW d \in Days, NEW m \in wanted'[d], collected'[d] \/ m <= cursor'[d]
             PROVE  state'[<<d, m>>] # "absent"
  BY DEF CollectedSoFar
<1>0. /\ Typed /\ TypeOK /\ WantedAreDue /\ CollectedSoFar /\ UnopenedIsEmpty
      /\ day \in [Procs -> Days] /\ Monitors \subseteq Nat \ {0}
  BY MonitoringAssumption DEF CollectionInv, Typed, TypeOK
<1>m. \A e \in Days : \A x \in wanted[e] : x \in Monitors /\ <<e, x>> \in Items
  BY <1>0 DEF TypeOK, Items
<1> USE DEF calendarVars, monitorVars, batchVars, itemVars, ledgerVars, procVars
<1>1. CASE UNCHANGED <<status, collected, cursor, wanted, state>>
  BY <1>0, <1>1 DEF CollectedSoFar
<1>2. ASSUME NEW p \in Procs, StartRun(p) PROVE state'[<<d, m>>] # "absent"
  <2>1. PICK claimed \in SUBSET Items : Claims(p, claimed)
    BY <1>0, <1>2, StartRunClaims
  <2>2. \A i \in Items : state[i] # "absent" => state'[i] # "absent"
    BY <2>1 DEF Claims, RowsOf
  <2>3. \A i \in Items : i[1] = day[p] /\ i[2] \in Page(p) => state'[i] # "absent"
    BY <2>1 DEF Claims, RowsOf
  <2>4. CASE d # day[p]
    <3>1. wanted'[d] = wanted[d] /\ collected'[d] = collected[d] /\ cursor'[d] = cursor[d]
      BY <1>0, <2>1, <2>4 DEF Claims, Collect, TypeOK
    <3> QED
      BY <1>0, <1>m, <2>2, <3>1 DEF CollectedSoFar
  <2>5. CASE d = day[p]
    <3>1. wanted'[d] = IF status[d] = "absent" THEN DueForAll(d) ELSE wanted[d]
      BY <1>0, <2>1, <2>5 DEF Claims, Collect, TypeOK
    <3>2. m \in monitors /\ m \in Monitors /\ <<d, m>> \in Items
      BY <1>0, <3>1 DEF WantedAreDue, DueForAll, TypeOK, Items
    <3>s. SUFFICES ASSUME state[<<d, m>>] = "absent" PROVE state'[<<d, m>>] # "absent"
      BY <2>2, <3>2
    <3>p. pc[p] = "starting"
      BY <1>0, <1>2, StartRunClaims
    <3>d. m \in DueAt(scheduled[p])
      <4>1. nextCheck[m] <= scheduled[p]
        BY <2>5, <3>1, <3>p, <3>s, <1>0 DEF WantedAreDue, DueForAll
      <4> QED
        BY <3>2, <4>1 DEF DueAt
    <3>3. CASE collected[d] \/ m <= cursor[d]
      <4>0. m \in Nat /\ m # 0
        BY <1>0, <3>2
      <4>1. status[d] # "absent"
        <5>1. status[d] = "absent" => cursor[d] = 0 /\ ~collected[d]
          BY <1>0 DEF UnopenedIsEmpty
        <5> QED
          BY <3>3, <4>0, <5>1
      <4> QED
        BY <1>0, <2>2, <3>1, <3>2, <3>3, <4>1 DEF CollectedSoFar
    <3>4. CASE ~(collected[d] \/ m <= cursor[d])
      <4>1. cursor[d] \in Nat /\ m \in Nat
        BY <1>0, <3>2, CursorType
      <4>2. Collect(day[p], Page(p)) /\ m > cursor[day[p]] /\ ~collected[day[p]]
        <5>1. Collect(day[p], Page(p))
          BY <2>1 DEF Claims
        <5>2. ~collected[day[p]] /\ ~(m <= cursor[day[p]])
          BY <2>5, <3>4, Zenon
        <5> QED
          BY <2>5, <4>1, <5>1, <5>2
      <4>3. m \in Page(p)
        BY <1>0, <2>5, <3>d, <4>2, PageContinues
      <4> QED
        BY <2>3, <2>5, <3>2, <4>3
    <3> QED
      BY <3>3, <3>4
  <2> QED
    BY <2>4, <2>5
<1>3. ASSUME NEW p \in Procs, NEW i \in Items, RecordObservation(p, i)
      PROVE  state'[<<d, m>>] # "absent"
  <2>1. m \in wanted[d] /\ UNCHANGED <<state, collected, cursor>>
    BY <1>0, <1>3 DEF RecordObservation, SetFor
  <2> QED
    BY <1>0, <2>1 DEF CollectedSoFar
<1>4. ASSUME NEW p \in Procs, NEW i \in Items, Complete(p, i) \/ Fail(p, i)
      PROVE  state'[<<d, m>>] # "absent"
  <2>1. m \in wanted[d] /\ collected' = collected /\ cursor' = cursor
    BY <1>0, <1>4 DEF Complete, Fail, SetFor
  <2>2. \A j \in Items : state[j] # "absent" => state'[j] # "absent"
    BY <1>0, <1>4 DEF Complete, Fail, FailItem, TypeOK
  <2> QED
    BY <1>0, <1>m, <2>1, <2>2 DEF CollectedSoFar
<1>5. ASSUME NEW p \in Procs, Finalize(p) PROVE state'[<<d, m>>] # "absent"
  BY <1>0, <1>5 DEF Finalize, CollectedSoFar
<1>6. ASSUME NEW x \in Monitors, AddMonitor(x) PROVE UNCHANGED <<status, collected, cursor, wanted, state>>
  BY <1>6 DEF AddMonitor
<1>7. ASSUME NEW p \in Procs, BeginRun(p) \/ RunRaises(p) \/ CountOpen(p) \/ Crash(p)
      PROVE  UNCHANGED <<status, collected, cursor, wanted, state>>
  BY <1>7 DEF BeginRun, RunRaises, CountOpen, Crash
<1>8. ASSUME NEW p \in Procs, NEW i \in Items,
             \/ StartItem(p, i) \/ ObservationFails(p, i)
             \/ CompletionRejected(p, i) \/ FailureRejected(p, i)
      PROVE  UNCHANGED <<status, collected, cursor, wanted, state>>
  BY <1>8 DEF StartItem, ObservationFails, CompletionRejected, FailureRejected
<1>9. ASSUME NEW i \in Items, LeaseExpires(i) \/ BackoffEnds(i)
      PROVE  UNCHANGED <<status, collected, cursor, wanted, state>>
  BY <1>9 DEF LeaseExpires, BackoffEnds
<1>10. CASE Tick \/ UNCHANGED vars
  BY <1>1, <1>10 DEF Tick, vars
<1> QED
  BY <1>1, <1>2, <1>3, <1>4, <1>5, <1>6, <1>7, <1>8, <1>9, <1>10 DEF Next, ThreadStep

LEMMA TickGrows ==
  ASSUME Typed, Tick
  PROVE  Now \in Nat /\ Now' \in Nat /\ Now' >= Now
<1>1. Now \in Nat /\ Now' \in Nat
  <2>1. Typed'
    BY StepTyped DEF Next
  <2>2. today' \in Days /\ slot' \in 0..(Slots - 1)
    BY <2>1 DEF Typed, TypeOK
  <2>3. (today' - 1) * Slots + slot' \in Nat
    BY <2>2, CalendarType
  <2> QED
    BY <2>3, NowType DEF Typed, TypeOK, Now
<1>2. Slots \in Nat \ {0} /\ today \in Nat /\ slot \in Nat /\ slot <= Slots - 1
  BY MonitoringAssumption DEF Typed, TypeOK, Days
<1>3. CASE slot < Slots - 1
  <2>1. slot' = slot + 1 /\ today' = today
    BY <1>2, <1>3 DEF Tick
  <2> QED
    BY <1>1, <1>2, <2>1 DEF Now
<1>4. CASE slot = Slots - 1
  <2>1. slot' = 0 /\ today' = today + 1
    BY <1>2, <1>4 DEF Tick
  <2>2. today * Slots = (today - 1) * Slots + Slots
    BY <1>2
  <2> QED
    BY <1>1, <1>2, <1>4, <2>1, <2>2 DEF Now
<1> QED
  BY <1>2, <1>3, <1>4

\* A thread that sets its monitor's next check works on an item that exists,
\* so that the monitor is wanted by no batch that lacks it.
LEMMA SetForOthers ==
  ASSUME TypeOK, NEW i \in Items, SetFor(i) \/ wanted' = wanted,
         state[i] # "absent",
         nextCheck' = nextCheck \/ (SetFor(i) /\ \E n \in Nat : nextCheck' = [nextCheck EXCEPT ![i[2]] = n]),
         NEW d \in Days, NEW m \in wanted'[d], state[<<d, m>>] = "absent"
  PROVE  m \in wanted[d] /\ nextCheck'[m] = nextCheck[m]
<1>0. wanted \in [Days -> SUBSET Monitors] /\ nextCheck \in [Monitors -> Nat]
  BY DEF TypeOK
<1>1. m \in wanted[d] /\ m \in Monitors
  BY <1>0 DEF SetFor
<1>2. CASE nextCheck' = nextCheck
  BY <1>1, <1>2
<1>3. CASE SetFor(i) /\ \E n \in Nat : nextCheck' = [nextCheck EXCEPT ![i[2]] = n]
  <2>1. i = <<i[1], i[2]>>
    BY DEF Items
  <2>2. CASE d = i[1]
    <3>1. m # i[2]
      BY <2>1, <2>2
    <3> QED
      BY <1>0, <1>1, <1>3, <3>1
  <2>3. CASE d # i[1]
    <3>1. m # i[2]
      BY <1>0, <1>3, <2>3 DEF SetFor
    <3> QED
      BY <1>0, <1>1, <1>3, <3>1
  <2> QED
    BY <2>2, <2>3
<1> QED
  BY <1>2, <1>3

LEMMA StepWantedAreDue == CollectionInv /\ [Next]_vars => WantedAreDue'
<1> SUFFICES ASSUME CollectionInv, [Next]_vars, NEW d \in Days, NEW m \in wanted'[d]
             PROVE  /\ m \in monitors'
                    /\ state'[<<d, m>>] = "absent" =>
                         /\ nextCheck'[m] <= Now'
                         /\ \A q \in Procs : pc'[q] = "starting" /\ day'[q] = d
                                             => nextCheck'[m] <= scheduled'[q]
  BY DEF WantedAreDue
<1> DEFINE Due == /\ nextCheck'[m] <= Now'
                  /\ \A q \in Procs : pc'[q] = "starting" /\ day'[q] = d
                                      => nextCheck'[m] <= scheduled'[q]
           Goal == m \in monitors' /\ (state'[<<d, m>>] = "absent" => Due)
<1>0. /\ Typed /\ ThreadsHaveItems /\ TypeOK /\ today \in Days /\ slot \in 0..(Slots - 1)
      /\ Now \in Nat /\ nextCheck \in [Monitors -> Nat] /\ wanted \in [Days -> SUBSET Monitors]
      /\ day \in [Procs -> Days] /\ scheduled \in [Procs -> Nat] /\ monitors \in SUBSET Monitors
      /\ pc \in [Procs -> {"idle", "starting", "working", "finalizing"}]
      /\ state \in [Items -> ItemState]
      /\ \A q \in Procs : scheduled[q] <= Now
  BY NowType DEF CollectionInv, Typed, TypeOK, ClocksInThePast
<1>d. ASSUME NEW x \in wanted[d]
      PROVE  /\ x \in monitors
             /\ state[<<d, x>>] = "absent" =>
                  /\ nextCheck[x] <= Now
                  /\ \A q \in Procs : pc[q] = "starting" /\ day[q] = d => nextCheck[x] <= scheduled[q]
  BY DEF CollectionInv, WantedAreDue
<1> USE DEF calendarVars, monitorVars, batchVars, itemVars, ledgerVars, procVars
<1>1. CASE UNCHANGED <<calendarVars, monitorVars, wanted, state, pc, scheduled, day>>
  BY <1>d, <1>1 DEF Now
<1>2. ASSUME NEW x \in Monitors, AddMonitor(x) PROVE Goal
  <2>1. m \in wanted[d] /\ m \in monitors /\ m # x /\ Now' = Now
    BY <1>d, <1>2 DEF AddMonitor, Now
  <2>2. nextCheck'[m] = nextCheck[m] /\ m \in monitors'
    BY <1>0, <1>2, <2>1 DEF AddMonitor
  <2> QED
    BY <1>d, <1>2, <2>1, <2>2 DEF AddMonitor
<1>b. ASSUME NEW p \in Procs, BeginRun(p) PROVE Goal
  <2>1. /\ m \in wanted[d] /\ monitors' = monitors /\ nextCheck' = nextCheck
        /\ Now' = Now /\ state' = state
    BY <1>b DEF BeginRun, Now
  <2>2. ASSUME NEW q \in Procs, pc'[q] = "starting", day'[q] = d, state[<<d, m>>] = "absent"
        PROVE  nextCheck[m] <= scheduled'[q]
    <3>1. CASE q = p
      <4>1. scheduled'[q] = Now
        BY <1>0, <1>b, <3>1 DEF BeginRun
      <4> QED
        BY <1>d, <2>1, <2>2, <4>1
    <3>2. CASE q # p
      <4>1. pc'[q] = pc[q] /\ day'[q] = day[q] /\ scheduled'[q] = scheduled[q]
        BY <1>0, <1>b, <3>2 DEF BeginRun
      <4> QED
        BY <1>d, <2>1, <2>2, <4>1
    <3> QED
      BY <3>1, <3>2
  <2> QED
    BY <1>d, <2>1, <2>2
<1>3. ASSUME NEW p \in Procs, StartRun(p) PROVE Goal
  <2>1. PICK claimed \in SUBSET Items : Claims(p, claimed)
    BY <1>0, <1>3, StartRunClaims
  <2>2. /\ pc[p] = "starting" /\ pc' = [pc EXCEPT ![p] = "working"]
        /\ UNCHANGED <<calendarVars, monitorVars, scheduled, day>>
    BY <1>0, <1>3, <2>1, StartRunClaims DEF Claims
  <2>3. \A q \in Procs : pc'[q] = "starting" => pc[q] = "starting"
    BY <1>0, <2>2
  <2>4. state[<<d, m>>] # "absent" => state'[<<d, m>>] # "absent"
    <3>1. <<d, m>> \in Items
      BY <1>0, <2>1 DEF Items, Claims, Collect, DueForAll
    <3>2. Next
      BY <1>3 DEF Next
    <3> QED
      BY <1>0, <3>1, <3>2, ItemsStay
  <2>5. CASE m \in wanted[d]
    BY <1>d, <2>2, <2>3, <2>4, <2>5 DEF Now
  <2>6. CASE m \notin wanted[d]
    <3>1. d = day[p] /\ m \in DueForAll(d)
      BY <1>0, <2>1, <2>6 DEF Claims, Collect
    <3>2. /\ m \in monitors
          /\ \A q \in Procs : pc[q] = "starting" /\ day[q] = d => nextCheck[m] <= scheduled[q]
      BY <3>1 DEF DueForAll
    <3>3. nextCheck[m] <= scheduled[p] /\ scheduled[p] <= Now
      BY <1>0, <2>2, <3>1, <3>2
    <3>4. nextCheck[m] \in Nat /\ scheduled[p] \in Nat
      BY <1>0, <3>2
    <3>5. nextCheck[m] <= Now
      BY <1>0, <3>3, <3>4
    <3> QED
      BY <2>2, <2>3, <3>2, <3>5 DEF Now
  <2> QED
    BY <2>5, <2>6
<1>4. ASSUME NEW p \in Procs, NEW i \in Items, RecordObservation(p, i) \/ Fail(p, i)
      PROVE  Goal
  <2>1. state[i] # "absent" /\ i[2] \in Monitors /\ thread[p][i] \in Thread
    BY <1>0, <1>4 DEF ThreadsHaveItems, RecordObservation, Fail, Busy, Items, TypeOK
  <2>2. /\ UNCHANGED <<calendarVars, monitors, pc, scheduled, day>>
        /\ SetFor(i) \/ wanted' = wanted
    BY <1>4 DEF RecordObservation, Fail
  <2>3. nextCheck' = nextCheck \/ (SetFor(i) /\ \E n \in Nat : nextCheck' = [nextCheck EXCEPT ![i[2]] = n])
    <3>0. thread[p][i].seen \in Nat /\ Slots \in Nat /\ Backoff \in Nat
      BY <2>1, DeadlineType, MonitoringAssumption DEF Thread
    <3>1. CASE RecordObservation(p, i)
      BY <3>0, <3>1 DEF RecordObservation
    <3>2. CASE Fail(p, i)
      <4>1. PICK outcome \in {"retryable", "failed"} :
              \E time \in AvailableFrom(thread[p][i].seen, outcome) : SetMonitorError(i[2], time)
        BY <3>2 DEF Fail
      <4>2. PICK time \in AvailableFrom(thread[p][i].seen, outcome) : SetMonitorError(i[2], time)
        BY <4>1
      <4>3. time \in Nat
        BY <3>0, <4>2 DEF AvailableFrom
      <4> QED
        BY <3>2, <4>2, <4>3 DEF Fail, SetMonitorError
    <3> QED
      BY <1>4, <3>1, <3>2
  <2>4. m \in wanted[d]
    BY <1>0, <2>2 DEF SetFor
  <2>5. state'[<<d, m>>] = "absent" => state[<<d, m>>] = "absent"
    <3>1. <<d, m>> \in Items
      BY <1>0, <2>4 DEF Items
    <3>2. Next
      BY <1>4 DEF Next, ThreadStep
    <3> QED
      BY <1>0, <3>1, <3>2, ItemsStay
  <2>6. state[<<d, m>>] = "absent" => nextCheck'[m] = nextCheck[m]
    BY <1>0, <2>1, <2>2, <2>3, SetForOthers
  <2> QED
    BY <1>d, <2>2, <2>4, <2>5, <2>6 DEF Now
<1>5. ASSUME NEW p \in Procs, NEW i \in Items, Complete(p, i) PROVE Goal
  <2>1. /\ UNCHANGED <<calendarVars, monitorVars, wanted, pc, scheduled, day>>
        /\ state' = [state EXCEPT ![i] = "completed"]
    BY <1>5 DEF Complete
  <2>2. m \in wanted[d] /\ <<d, m>> \in Items
    BY <1>0, <2>1 DEF Items
  <2>3. state'[<<d, m>>] = "absent" => state[<<d, m>>] = "absent"
    BY <1>0, <2>1, <2>2
  <2> QED
    BY <1>d, <2>1, <2>2, <2>3 DEF Now
<1>6. CASE Tick
  <2>1. /\ Now' >= Now /\ Now' \in Nat
        /\ UNCHANGED <<monitorVars, wanted, state, pc, scheduled, day>>
    BY <1>0, <1>6, TickGrows DEF Tick
  <2>2. m \in monitors /\ nextCheck[m] \in Nat
    BY <1>0, <1>d, <2>1
  <2>3. nextCheck[m] <= Now => nextCheck'[m] <= Now'
    BY <1>0, <2>1, <2>2
  <2> QED
    BY <1>d, <2>1, <2>2, <2>3
<1>7. ASSUME NEW p \in Procs, RunRaises(p) \/ CountOpen(p) \/ Finalize(p) \/ Crash(p)
      PROVE  Goal
  <2>1. /\ UNCHANGED <<calendarVars, monitorVars, wanted, state, scheduled, day>>
        /\ pc' = [pc EXCEPT ![p] = "idle"] \/ pc' = [pc EXCEPT ![p] = "finalizing"]
    BY <1>7 DEF RunRaises, CountOpen, Finalize, Crash
  <2>2. \A q \in Procs : pc'[q] = "starting" => pc[q] = "starting"
    BY <1>0, <2>1
  <2> QED
    BY <1>d, <2>1, <2>2 DEF Now
<1>8. ASSUME NEW p \in Procs, NEW i \in Items,
             \/ StartItem(p, i) \/ ObservationFails(p, i)
             \/ CompletionRejected(p, i) \/ FailureRejected(p, i)
      PROVE  UNCHANGED <<calendarVars, monitorVars, wanted, state, pc, scheduled, day>>
  BY <1>8 DEF StartItem, ObservationFails, CompletionRejected, FailureRejected
<1>9. ASSUME NEW i \in Items, LeaseExpires(i) \/ BackoffEnds(i)
      PROVE  UNCHANGED <<calendarVars, monitorVars, wanted, state, pc, scheduled, day>>
  BY <1>9 DEF LeaseExpires, BackoffEnds
<1>10. CASE UNCHANGED vars
  BY <1>1, <1>10 DEF vars
<1> QED
  BY <1>b, <1>1, <1>2, <1>3, <1>4, <1>5, <1>6, <1>7, <1>8, <1>9, <1>10 DEF Next, ThreadStep

\* The clock a run has read is never ahead.
LEMMA StepClocksInThePast == Typed /\ ClocksInThePast /\ [Next]_vars => ClocksInThePast'
<1> SUFFICES ASSUME Typed, ClocksInThePast, [Next]_vars, NEW q \in Procs
             PROVE  scheduled'[q] <= Now'
  BY DEF ClocksInThePast
<1>0. Now \in Nat /\ scheduled \in [Procs -> Nat] /\ scheduled[q] <= Now
  BY NowType DEF Typed, TypeOK, ClocksInThePast
<1> USE DEF calendarVars, monitorVars, batchVars, itemVars, ledgerVars, procVars
<1>1. CASE UNCHANGED <<calendarVars, scheduled>>
  BY <1>0, <1>1 DEF Now
<1>2. ASSUME NEW p \in Procs, BeginRun(p) PROVE scheduled'[q] <= Now'
  <2>1. scheduled'[q] = scheduled[q] \/ scheduled'[q] = Now
    BY <1>0, <1>2 DEF BeginRun
  <2>2. Now' = Now
    BY <1>2 DEF BeginRun, Now
  <2> QED
    BY <1>0, <2>1, <2>2
<1>3. CASE Tick
  <2>1. Now' >= Now /\ Now' \in Nat /\ scheduled' = scheduled
    BY <1>3, TickGrows DEF Tick
  <2>2. scheduled[q] \in Nat
    BY <1>0
  <2> QED
    BY <1>0, <2>1, <2>2
<1>4. ASSUME NEW p \in Procs,
             StartRun(p) \/ RunRaises(p) \/ CountOpen(p) \/ Finalize(p) \/ Crash(p)
      PROVE  UNCHANGED <<calendarVars, scheduled>>
  BY <1>4 DEF StartRun, RunRaises, CountOpen, Finalize, Crash
<1>5. ASSUME NEW p \in Procs, NEW i \in Items, ThreadStep(p, i)
      PROVE  UNCHANGED <<calendarVars, scheduled>>
  BY <1>5 DEF ThreadStep, StartItem, RecordObservation, ObservationFails, Complete,
              CompletionRejected, Fail, FailureRejected
<1>6. ASSUME NEW i \in Items, LeaseExpires(i) \/ BackoffEnds(i)
      PROVE  UNCHANGED <<calendarVars, scheduled>>
  BY <1>6 DEF LeaseExpires, BackoffEnds
<1>7. ASSUME (\E m \in Monitors : AddMonitor(m)) \/ UNCHANGED vars
      PROVE  UNCHANGED <<calendarVars, scheduled>>
  BY <1>7 DEF AddMonitor, vars
<1> QED
  BY <1>1, <1>2, <1>3, <1>4, <1>5, <1>6, <1>7 DEF Next

LEMMA StepUnopened == Typed /\ UnopenedIsEmpty /\ [Next]_vars => UnopenedIsEmpty'
<1> SUFFICES ASSUME Typed, UnopenedIsEmpty, [Next]_vars,
                    NEW d \in Days, status'[d] = "absent"
             PROVE  cursor'[d] = 0 /\ ~collected'[d]
  BY DEF UnopenedIsEmpty
<1>0. TypeOK /\ day \in [Procs -> Days] /\ (status[d] = "absent" => cursor[d] = 0 /\ ~collected[d])
  BY DEF Typed, TypeOK, UnopenedIsEmpty
<1> USE DEF calendarVars, monitorVars, batchVars, itemVars, ledgerVars, procVars
<1>1. CASE UNCHANGED <<status, cursor, collected>>
  BY <1>0, <1>1
<1>2. ASSUME NEW p \in Procs, StartRun(p) PROVE cursor'[d] = 0 /\ ~collected'[d]
  <2>1. PICK claimed \in SUBSET Items : Claims(p, claimed)
    BY <1>0, <1>2, StartRunClaims
  <2>2. CASE d = day[p]
    <3>1. status'[d] = "absent" => collected[d] /\ status[d] = "absent"
      BY <1>0, <2>1, <2>2 DEF Claims, Collect, TypeOK
    <3> QED
      BY <1>0, <3>1
  <2>3. CASE d # day[p]
    BY <1>0, <2>1, <2>3 DEF Claims, Collect, TypeOK
  <2> QED
    BY <2>2, <2>3
<1>3. ASSUME NEW p \in Procs, Finalize(p) PROVE cursor'[d] = 0 /\ ~collected'[d]
  <2>1. status[d] = "absent"
    BY <1>0, <1>3 DEF Finalize, TypeOK
  <2> QED
    BY <1>0, <1>3, <2>1 DEF Finalize
<1>4. ASSUME NEW m \in Monitors, AddMonitor(m) PROVE UNCHANGED <<status, cursor, collected>>
  BY <1>4 DEF AddMonitor
<1>5. ASSUME NEW p \in Procs, BeginRun(p) \/ RunRaises(p) \/ CountOpen(p) \/ Crash(p)
      PROVE  UNCHANGED <<status, cursor, collected>>
  BY <1>5 DEF BeginRun, RunRaises, CountOpen, Crash
<1>6. ASSUME NEW p \in Procs, NEW i \in Items, ThreadStep(p, i)
      PROVE  UNCHANGED <<status, cursor, collected>>
  BY <1>6 DEF ThreadStep, StartItem, RecordObservation, ObservationFails, Complete,
              CompletionRejected, Fail, FailureRejected
<1>7. ASSUME NEW i \in Items, LeaseExpires(i) \/ BackoffEnds(i)
      PROVE  UNCHANGED <<status, cursor, collected>>
  BY <1>7 DEF LeaseExpires, BackoffEnds
<1>8. CASE Tick \/ UNCHANGED vars
  BY <1>1, <1>8 DEF Tick, vars
<1> QED
  BY <1>1, <1>2, <1>3, <1>4, <1>5, <1>6, <1>7, <1>8 DEF Next

\* Whoever was due when a batch was opened, for every run of it that had read
\* its clock, has an item in it once its collection is complete, however many
\* pages, runs and workers collected it (materialize_due_items); unless an
\* observation or a failure for another batch has set its next check since,
\* which may put it past the pages to come (_fail, set_monitor_error).
THEOREM CollectionsComplete == Spec => []CollectionIsExhaustive
<1>1. Init => CollectionInv
  BY InitCollection
<1>2. CollectionInv /\ [Next]_vars => CollectionInv'
  BY StepTyped, StepThreadsHaveItems, StepWantedAreDue, StepCollectedSoFar, StepUnopened,
     StepClocksInThePast
  DEF CollectionInv
<1>3. CollectionInv => CollectionIsExhaustive
  BY DEF CollectionInv, CollectedSoFar, CollectionIsExhaustive
<1> QED
  BY <1>1, <1>2, <1>3, PTL DEF Spec

-----------------------------------------------------------------------------
(* Attempts.  With a worker_id to each instance, the thread whose worker_id *)
(* a running item carries made the item's latest claim; an item that may be *)
(* claimed again has attempt numbers left.                                  *)

LatestClaim ==
  \A p \in Procs, i \in Items :
    thread[p][i].at \in Busy /\ state[i] = "running" /\ holder[i] = WorkerOf[p]
    => thread[p][i].attempt = attempt[i]

RetriesLeft ==
  \A i \in Items : state[i] \in {"absent", "pending", "retryable"} => attempt[i] < AttemptBound

AttemptInv == Typed /\ LatestClaim /\ RetriesLeft /\ AuditsMatchItems

LEMMA InitAttempts == Init => AttemptInv
<1> SUFFICES ASSUME Init PROVE AttemptInv
  OBVIOUS
<1>1. Typed
  BY InitTyped
<1> QED
  BY <1>1, MonitoringAssumption
  DEF Init, AttemptInv, LatestClaim, RetriesLeft, AuditsMatchItems, NoThread, Busy

LEMMA StepLatestClaim ==
  DistinctWorkers /\ Typed /\ LatestClaim /\ [Next]_vars => LatestClaim'
<1> SUFFICES ASSUME DistinctWorkers, Typed, LatestClaim, [Next]_vars,
                    NEW q \in Procs, NEW j \in Items, thread'[q][j].at \in Busy,
                    state'[j] = "running", holder'[j] = WorkerOf[q]
             PROVE  thread'[q][j].attempt = attempt'[j]
  BY DEF LatestClaim
<1>0. TypeOK /\ day \in [Procs -> Days] /\ thread \in [Procs -> [Items -> Thread]]
  BY DEF Typed, TypeOK
<1>l. /\ thread[q][j].at \in Busy /\ state[j] = "running" /\ holder[j] = WorkerOf[q]
      => thread[q][j].attempt = attempt[j]
  BY DEF LatestClaim
<1> USE DEF calendarVars, monitorVars, batchVars, itemVars, ledgerVars, procVars
<1>1. CASE UNCHANGED <<thread, state, holder, attempt>>
  BY <1>l, <1>1
<1>2. ASSUME NEW p \in Procs, StartRun(p) PROVE thread'[q][j].attempt = attempt'[j]
  <2>1. PICK claimed \in SUBSET Items : Claims(p, claimed)
    BY <1>0, <1>2, StartRunClaims
  <2>2. CASE q = p
    <3>1. thread'[q][j] = IF j \in claimed
                          THEN [NoThread EXCEPT !.at = "claimed", !.attempt = NextAttempt(j)]
                          ELSE NoThread
      BY <1>0, <2>1, <2>2 DEF Claims
    <3>2. j \in claimed
      BY <3>1 DEF NoThread, Busy
    <3>3. attempt'[j] = NextAttempt(j)
      BY <2>1, <3>2 DEF Claims
    <3>4. thread'[q][j].attempt = NextAttempt(j)
      BY <3>1, <3>2 DEF NoThread
    <3> QED
      BY <3>3, <3>4
  <2>3. CASE q # p
    <3>1. thread'[q] = thread[q] /\ WorkerOf[q] # WorkerOf[p]
      BY <1>0, <2>1, <2>3 DEF Claims, DistinctWorkers
    <3>2. j \notin claimed
      BY <2>1, <3>1 DEF Claims
    <3>3. state[j] = "running" /\ holder'[j] = holder[j] /\ attempt'[j] = attempt[j]
      BY <2>1, <3>2 DEF Claims, RowsOf
    <3> QED
      BY <1>l, <3>1, <3>3
  <2> QED
    BY <2>2, <2>3
<1>3. ASSUME NEW p \in Procs, RunRaises(p) \/ Crash(p)
      PROVE  thread'[q][j].attempt = attempt'[j]
  <2>1. thread'[q][j] = thread[q][j] \/ thread'[q][j] = NoThread
    BY <1>0, <1>3 DEF RunRaises, Crash
  <2> QED
    BY <1>l, <1>3, <2>1 DEF RunRaises, Crash, NoThread, Busy
<1>4. ASSUME NEW p \in Procs, NEW i \in Items, ThreadStep(p, i)
      PROVE  thread'[q][j].attempt = attempt'[j]
  <2>1. thread[q][j].at \in Busy /\ thread'[q][j].attempt = thread[q][j].attempt
    BY <1>0, <1>4, ThreadsKeepAttempts
  <2>2. attempt' = attempt
    BY <1>4 DEF ThreadStep, StartItem, RecordObservation, ObservationFails, Complete,
                CompletionRejected, Fail, FailureRejected
  <2>3. state[j] = "running" /\ holder[j] = holder'[j]
    <3>1. CASE Complete(p, i)
      BY <1>0, <3>1 DEF Complete, TypeOK
    <3>2. CASE Fail(p, i)
      BY <1>0, <3>2 DEF Fail, FailItem, TypeOK
    <3>3. CASE ~Complete(p, i) /\ ~Fail(p, i)
      BY <1>4, <3>3 DEF ThreadStep, StartItem, RecordObservation, ObservationFails,
                        CompletionRejected, FailureRejected
    <3> QED
      BY <3>1, <3>2, <3>3
  <2> QED
    BY <1>l, <2>1, <2>2, <2>3
<1>5. ASSUME NEW m \in Monitors, AddMonitor(m) PROVE UNCHANGED <<thread, state, holder, attempt>>
  BY <1>5 DEF AddMonitor
<1>6. ASSUME NEW p \in Procs, BeginRun(p) \/ CountOpen(p) \/ Finalize(p)
      PROVE  UNCHANGED <<thread, state, holder, attempt>>
  BY <1>6 DEF BeginRun, CountOpen, Finalize
<1>7. ASSUME NEW i \in Items, LeaseExpires(i) \/ BackoffEnds(i)
      PROVE  UNCHANGED <<thread, state, holder, attempt>>
  BY <1>7 DEF LeaseExpires, BackoffEnds
<1>8. CASE Tick \/ UNCHANGED vars
  BY <1>1, <1>8 DEF Tick, vars
<1> QED
  BY <1>1, <1>2, <1>3, <1>4, <1>5, <1>6, <1>7, <1>8 DEF Next

\* A thread that may settle its item made the item's latest claim.
LEMMA SettlesLatest ==
  ASSUME Typed, LatestClaim, NEW p \in Procs, NEW i \in Items,
         thread[p][i].at \in {"recorded", "failing"}, HoldsLease(p, i)
  PROVE  /\ state[i] = "running"
         /\ thread[p][i].attempt = attempt[i]
         /\ attempt[i] \in 1..AttemptBound
<1>1. state[i] = "running" /\ thread[p][i].attempt = attempt[i]
  BY DEF HoldsLease, LatestClaim, Busy
<1>2. attempt[i] \in 0..AttemptBound /\ thread[p][i].attempt # 0
  BY DEF Typed, TypeOK, ClaimsAreCounted, Busy
<1> QED
  BY <1>1, <1>2, MonitoringAssumption

LEMMA StepRetriesLeft == Typed /\ LatestClaim /\ RetriesLeft /\ [Next]_vars => RetriesLeft'
<1> SUFFICES ASSUME Typed, LatestClaim, RetriesLeft, [Next]_vars,
                    NEW j \in Items, state'[j] \in {"absent", "pending", "retryable"}
             PROVE  attempt'[j] < AttemptBound
  BY DEF RetriesLeft
<1>0. TypeOK /\ day \in [Procs -> Days]
  BY DEF Typed, TypeOK
<1>r. state[j] \in {"absent", "pending", "retryable"} => attempt[j] < AttemptBound
  BY DEF RetriesLeft
<1> USE DEF calendarVars, monitorVars, batchVars, itemVars, ledgerVars, procVars
<1>1. CASE UNCHANGED <<state, attempt>>
  BY <1>r, <1>1
<1>2. ASSUME NEW p \in Procs, StartRun(p) PROVE attempt'[j] < AttemptBound
  <2>1. PICK claimed \in SUBSET Items : Claims(p, claimed)
    BY <1>0, <1>2, StartRunClaims
  <2>2. j \notin claimed
    BY <2>1 DEF Claims
  <2>3. attempt'[j] = attempt[j] /\ (state'[j] = state[j] \/ state[j] = "absent")
    BY <2>1, <2>2 DEF Claims, RowsOf
  <2> QED
    BY <1>r, <2>3
<1>3. ASSUME NEW p \in Procs, NEW i \in Items, Complete(p, i) PROVE attempt'[j] < AttemptBound
  BY <1>0, <1>r, <1>3 DEF Complete, TypeOK
<1>4. ASSUME NEW p \in Procs, NEW i \in Items, Fail(p, i) PROVE attempt'[j] < AttemptBound
  <2>1. CASE j # i
    BY <1>0, <1>r, <1>4, <2>1 DEF Fail, FailItem, TypeOK
  <2>2. CASE j = i
    <3>1. thread[p][i].attempt = attempt[i] /\ attempt[i] \in 1..AttemptBound
      BY <1>4, SettlesLatest DEF Fail
    <3>2. ShouldRetry(thread[p][i].retryable, thread[p][i].attempt)
      BY <1>0, <1>4, <2>2 DEF Fail, FailItem, TypeOK
    <3>3. attempt[i] < MaxAttempts
      BY <3>1, <3>2 DEF ShouldRetry
    <3> QED
      BY <1>4, <2>2, <3>1, <3>3, MonitoringAssumption DEF Fail
  <2> QED
    BY <2>1, <2>2
<1>5. ASSUME NEW p \in Procs, NEW i \in Items, ThreadStep(p, i), ~Complete(p, i), ~Fail(p, i)
      PROVE  UNCHANGED <<state, attempt>>
  BY <1>5 DEF ThreadStep, StartItem, RecordObservation, ObservationFails,
              CompletionRejected, FailureRejected
<1>6. ASSUME NEW m \in Monitors, AddMonitor(m) PROVE UNCHANGED <<state, attempt>>
  BY <1>6 DEF AddMonitor
<1>7. ASSUME NEW p \in Procs, BeginRun(p) \/ RunRaises(p) \/ CountOpen(p) \/ Finalize(p) \/ Crash(p)
      PROVE  UNCHANGED <<state, attempt>>
  BY <1>7 DEF BeginRun, RunRaises, CountOpen, Finalize, Crash
<1>8. ASSUME NEW i \in Items, LeaseExpires(i) \/ BackoffEnds(i)
      PROVE  UNCHANGED <<state, attempt>>
  BY <1>8 DEF LeaseExpires, BackoffEnds
<1>9. CASE Tick \/ UNCHANGED vars
  BY <1>1, <1>9 DEF Tick, vars
<1> QED
  BY <1>1, <1>2, <1>3, <1>4, <1>5, <1>6, <1>7, <1>8, <1>9 DEF Next

LEMMA StepAudits ==
  Typed /\ LatestClaim /\ RetriesLeft /\ AuditsMatchItems /\ [Next]_vars => AuditsMatchItems'
<1> SUFFICES ASSUME Typed, LatestClaim, RetriesLeft, AuditsMatchItems, [Next]_vars
             PROVE  AuditsMatchItems'
  OBVIOUS
<1>0. /\ TypeOK /\ day \in [Procs -> Days]
      /\ state \in [Items -> ItemState] /\ attempt \in [Items -> 0..AttemptBound]
      /\ AttemptBound \in Nat
  BY MonitoringAssumption DEF Typed, TypeOK
<1>a. ASSUME NEW a \in audits
      PROVE  /\ a.item \in Items /\ a.attempt \in 1..AttemptBound
             /\ a.outcome \in {"retryable", "failed"}
             /\ a.attempt <= attempt[a.item]
             /\ a.attempt = attempt[a.item] => state[a.item] = a.outcome
             /\ a.outcome = "failed" <=> a.attempt = attempt[a.item] /\ state[a.item] = "failed"
  BY <1>0 DEF TypeOK, AuditsMatchItems
<1>i. ASSUME NEW i \in Items, state[i] \in {"retryable", "failed"}
      PROVE  [item |-> i, attempt |-> attempt[i], outcome |-> state[i]] \in audits
  BY <1>i DEF AuditsMatchItems
<1> USE DEF calendarVars, monitorVars, batchVars, itemVars, ledgerVars, procVars
<1>1. CASE UNCHANGED <<state, attempt, audits>>
  BY <1>1 DEF AuditsMatchItems
<1>2. ASSUME NEW p \in Procs, StartRun(p) PROVE AuditsMatchItems'
  <2>1. PICK claimed \in SUBSET Items :
          /\ \A i \in claimed : Claimable(RowsOf(p), i)
          /\ Claims(p, claimed)
    BY <1>0, <1>2, StartRunClaims
  <2>2. audits' = audits
    BY <2>1 DEF Claims
  <2>3. ASSUME NEW i \in Items, i \notin claimed
        PROVE  /\ attempt'[i] = attempt[i]
               /\ \/ state'[i] = state[i]
                  \/ state[i] = "absent" /\ state'[i] = "pending"
    BY <2>1, <2>3 DEF Claims, RowsOf
  <2>4. ASSUME NEW i \in claimed
        PROVE  /\ state[i] \notin {"completed", "failed"}
               /\ state'[i] = "running" /\ attempt'[i] = NextAttempt(i)
    <3>1. Claimable(RowsOf(p), i)
      BY <2>1
    <3>2. RowsOf(p)[i] \in {"pending", "retryable", "running"}
      BY <3>1 DEF Claimable
    <3>3. state[i] \notin {"completed", "failed"}
      BY <3>2 DEF RowsOf
    <3> QED
      BY <2>1, <3>3 DEF Claims
  <2>5. ASSUME NEW i \in Items, state'[i] \in {"retryable", "failed"}
        PROVE  [item |-> i, attempt |-> attempt'[i], outcome |-> state'[i]] \in audits'
    BY <1>i, <2>2, <2>3, <2>4, <2>5
  <2>6. ASSUME NEW a \in audits'
        PROVE  /\ a.attempt <= attempt'[a.item]
               /\ a.attempt = attempt'[a.item] => state'[a.item] = a.outcome
               /\ a.outcome = "failed" <=> a.attempt = attempt'[a.item] /\ state'[a.item] = "failed"
    <3>1. a \in audits /\ a.item \in Items
      BY <1>a, <2>2, <2>6
    <3>2. CASE a.item \in claimed
      <4> DEFINE i == a.item
      <4>1. a.attempt \in 1..AttemptBound /\ attempt[i] \in 0..AttemptBound
        BY <1>0, <1>a, <3>1
      <4>2. a.attempt < NextAttempt(i)
        <5>1. CASE state[i] \in {"absent", "pending", "retryable"}
          <6>1. attempt[i] < AttemptBound
            BY <3>1, <5>1 DEF RetriesLeft
          <6> QED
            BY <1>0, <1>a, <3>1, <4>1, <6>1 DEF NextAttempt, MinOf
        <5>2. CASE state[i] = "running"
          <6>1. a.attempt < attempt[i]
            BY <1>a, <3>1, <4>1, <5>2
          <6> QED
            BY <1>0, <4>1, <6>1 DEF NextAttempt, MinOf
        <5> QED
          BY <1>0, <2>4, <3>1, <3>2, <5>1, <5>2 DEF ItemState, Open, Settled
      <4>3. a.outcome # "failed"
        BY <1>a, <2>4, <3>1, <3>2
      <4>4. attempt'[i] = NextAttempt(i) /\ NextAttempt(i) \in 1..AttemptBound
        BY <1>0, <2>4, <3>1, <3>2, NextAttemptType
      <4> QED
        BY <1>0, <4>1, <4>2, <4>3, <4>4
    <3>3. CASE a.item \notin claimed
      BY <1>a, <2>3, <3>1, <3>3
    <3> QED
      BY <3>2, <3>3
  <2> QED
    BY <2>5, <2>6 DEF AuditsMatchItems
<1>3. ASSUME NEW p \in Procs, NEW i \in Items, Complete(p, i) PROVE AuditsMatchItems'
  <2>1. state[i] = "running" /\ state' = [state EXCEPT ![i] = "completed"]
    BY <1>3 DEF Complete, HoldsLease
  <2>2. audits' = audits /\ attempt' = attempt
    BY <1>3 DEF Complete
  <2>3. ASSUME NEW j \in Items, state'[j] \in {"retryable", "failed"}
        PROVE  [item |-> j, attempt |-> attempt'[j], outcome |-> state'[j]] \in audits'
    BY <1>0, <1>i, <2>1, <2>2, <2>3
  <2>4. ASSUME NEW a \in audits'
        PROVE  /\ a.attempt <= attempt'[a.item]
               /\ a.attempt = attempt'[a.item] => state'[a.item] = a.outcome
               /\ a.outcome = "failed" <=> a.attempt = attempt'[a.item] /\ state'[a.item] = "failed"
    BY <1>0, <1>a, <2>1, <2>2, <2>4
  <2> QED
    BY <2>3, <2>4 DEF AuditsMatchItems
<1>4. ASSUME NEW p \in Procs, NEW i \in Items, Fail(p, i) PROVE AuditsMatchItems'
  <2> DEFINE t == thread[p][i]
             outcome == IF ShouldRetry(t.retryable, t.attempt) THEN "retryable" ELSE "failed"
             new == [item |-> i, attempt |-> attempt[i], outcome |-> outcome]
  <2>1. state[i] = "running" /\ t.attempt = attempt[i] /\ attempt[i] \in 1..AttemptBound
    BY <1>4, SettlesLatest DEF Fail
  <2>2. /\ state' = [state EXCEPT ![i] = outcome] /\ attempt' = attempt
        /\ audits' = audits \cup {new}
    BY <1>4, <2>1 DEF Fail, FailItem
  <2>3. outcome \in {"retryable", "failed"}
    OBVIOUS
  <2> HIDE DEF outcome, t
  <2>4. ASSUME NEW j \in Items, state'[j] \in {"retryable", "failed"}
        PROVE  [item |-> j, attempt |-> attempt'[j], outcome |-> state'[j]] \in audits'
    BY <1>0, <1>i, <2>2, <2>3, <2>4
  <2>5. ASSUME NEW a \in audits'
        PROVE  /\ a.attempt <= attempt'[a.item]
               /\ a.attempt = attempt'[a.item] => state'[a.item] = a.outcome
               /\ a.outcome = "failed" <=> a.attempt = attempt'[a.item] /\ state'[a.item] = "failed"
    <3>1. CASE a = new
      BY <1>0, <2>1, <2>2, <2>3, <3>1
    <3>2. CASE a \in audits
      BY <1>0, <1>a, <2>1, <2>2, <2>3, <3>2
    <3> QED
      BY <2>2, <2>5, <3>1, <3>2
  <2> QED
    BY <2>4, <2>5 DEF AuditsMatchItems
<1>5. ASSUME NEW p \in Procs, NEW i \in Items, ThreadStep(p, i), ~Complete(p, i), ~Fail(p, i)
      PROVE  UNCHANGED <<state, attempt, audits>>
  BY <1>5 DEF ThreadStep, StartItem, RecordObservation, ObservationFails,
              CompletionRejected, FailureRejected
<1>6. ASSUME NEW m \in Monitors, AddMonitor(m) PROVE UNCHANGED <<state, attempt, audits>>
  BY <1>6 DEF AddMonitor
<1>7. ASSUME NEW p \in Procs, BeginRun(p) \/ RunRaises(p) \/ CountOpen(p) \/ Finalize(p) \/ Crash(p)
      PROVE  UNCHANGED <<state, attempt, audits>>
  BY <1>7 DEF BeginRun, RunRaises, CountOpen, Finalize, Crash
<1>8. ASSUME NEW i \in Items, LeaseExpires(i) \/ BackoffEnds(i)
      PROVE  UNCHANGED <<state, attempt, audits>>
  BY <1>8 DEF LeaseExpires, BackoffEnds
<1>9. CASE Tick \/ UNCHANGED vars
  BY <1>1, <1>9 DEF Tick, vars
<1> QED
  BY <1>1, <1>2, <1>3, <1>4, <1>5, <1>6, <1>7, <1>8, <1>9 DEF Next
LEMMA AttemptInvariant == DistinctWorkers => (Spec => []AttemptInv)
<1> SUFFICES ASSUME DistinctWorkers PROVE Spec => []AttemptInv
  OBVIOUS
<1>1. Init => AttemptInv
  BY InitAttempts
<1>2. AttemptInv /\ [Next]_vars => AttemptInv'
  BY StepTyped, StepLatestClaim, StepRetriesLeft, StepAudits DEF AttemptInv
<1> QED
  BY <1>1, <1>2, PTL DEF Spec

\* The audit log tells the story of every item: one outcome for each failed
\* attempt, the last one the row's, and none for an attempt that goes on or
\* succeeded (fail_item, set_monitor_error and the audit in one transaction).
THEOREM AuditsCorrect == DistinctWorkers => (Spec => []AuditsMatchItems)
<1>1. AttemptInv => AuditsMatchItems
  BY DEF AttemptInv
<1> QED
  BY <1>1, AttemptInvariant, PTL

\* However a lease expired, was claimed again and was lost, only the thread of
\* an item's latest claim settles it (complete_item, fail_item).
THEOREM StaleThreadHarmless == DistinctWorkers => (Spec => SettledByLatestClaim)
<1> SUFFICES ASSUME DistinctWorkers PROVE Spec => SettledByLatestClaim
  OBVIOUS
<1> DEFINE Settling ==
      \A i \in Items : state[i] = "running" /\ state'[i] # "running" =>
        \E p \in Procs : /\ thread[p][i].at \in {"recorded", "failing"}
                          /\ thread'[p][i] = NoThread
                          /\ thread[p][i].attempt = attempt[i]
<1>1. AttemptInv /\ [Next]_vars => [Settling]_vars
  <2> SUFFICES ASSUME AttemptInv, Next,
                      NEW j \in Items, state[j] = "running", state'[j] # "running"
               PROVE  \E p \in Procs : /\ thread[p][j].at \in {"recorded", "failing"}
                                       /\ thread'[p][j] = NoThread
                                       /\ thread[p][j].attempt = attempt[j]
    OBVIOUS
  <2>0. /\ Typed /\ LatestClaim /\ day \in [Procs -> Days]
        /\ thread \in [Procs -> [Items -> Thread]] /\ state \in [Items -> ItemState]
    BY DEF AttemptInv, Typed, TypeOK
  <2> USE DEF calendarVars, monitorVars, batchVars, itemVars, ledgerVars, procVars
  <2>1. ASSUME NEW p \in Procs, StartRun(p) PROVE FALSE
    <3>1. PICK claimed \in SUBSET Items : Claims(p, claimed)
      BY <2>0, <2>1, StartRunClaims
    <3>2. RowsOf(p)[j] = state[j]
      BY DEF RowsOf
    <3>3. state' = [i \in Items |-> IF i \in claimed THEN "running"
                                    ELSE RowsOf(p)[i]]
      BY <3>1, Zenon DEF Claims
    <3>4. state'[j] = "running" \/ state'[j] = RowsOf(p)[j]
      BY <3>3
    <3> QED
      BY <3>2, <3>4
  <2>2. ASSUME NEW p \in Procs, NEW i \in Items, Complete(p, i) \/ Fail(p, i)
        PROVE  /\ thread[p][j].at \in {"recorded", "failing"}
               /\ thread'[p][j] = NoThread
               /\ thread[p][j].attempt = attempt[j]
    <3>1. /\ thread[p][i].at \in {"recorded", "failing"} /\ HoldsLease(p, i)
          /\ thread' = [thread EXCEPT ![p][i] = NoThread]
      BY <2>2, Zenon DEF Complete, Fail
    <3>2. i = j
      BY <2>0, <2>2 DEF Complete, Fail, FailItem
    <3>3. thread[p][i].attempt = attempt[i]
      BY <2>0, <3>1, SettlesLatest
    <3> QED
      BY <2>0, <3>1, <3>2, <3>3
  <2>3. ASSUME NEW p \in Procs, NEW i \in Items, ThreadStep(p, i), ~Complete(p, i), ~Fail(p, i)
        PROVE  state' = state
    BY <2>3 DEF ThreadStep, StartItem, RecordObservation, ObservationFails,
                CompletionRejected, FailureRejected
  <2>4. ASSUME NEW p \in Procs, BeginRun(p) \/ RunRaises(p) \/ CountOpen(p) \/ Finalize(p) \/ Crash(p)
        PROVE  state' = state
    BY <2>4 DEF BeginRun, RunRaises, CountOpen, Finalize, Crash
  <2>5. ASSUME NEW i \in Items, LeaseExpires(i) \/ BackoffEnds(i) PROVE state' = state
    BY <2>5 DEF LeaseExpires, BackoffEnds
  <2>6. ASSUME Tick \/ \E m \in Monitors : AddMonitor(m) PROVE state' = state
    BY <2>6 DEF Tick, AddMonitor
  <2> QED
    BY <2>1, <2>2, <2>3, <2>4, <2>5, <2>6 DEF Next
<1>2. Spec => []AttemptInv
  BY AttemptInvariant
<1>3. Spec => [][Settling]_vars
  BY <1>1, <1>2, PTL DEF Spec
<1> QED
  BY <1>3 DEF SettledByLatestClaim
-----------------------------------------------------------------------------
(* The refinement of MonitorPromise.                                        *)

PromiseInv == Typed /\ ThreadsHaveItems

LEMMA InitMonitorPromise == Init => Promise!Init
BY DEF Init, Promise!Init

\* The first transaction of a run collects a page, or finds the batch collected.
LEMMA StartRunCollects ==
  ASSUME Typed, NEW p \in Procs, StartRun(p)
  PROVE  Promise!Collect(day[p], Page(p)) \/ UNCHANGED Promise!vars
<1> DEFINE page == Page(p)
           items == {i \in Items : state[i] # "absent"}
           closed == {d \in Days : collected[d]}
           inBatch == {day[p]} \X page
<1>0. /\ TypeOK /\ day \in [Procs -> Days] /\ state \in [Items -> ItemState]
      /\ collected \in [Days -> BOOLEAN] /\ page \in SUBSET Monitors
  BY PageType DEF Typed, TypeOK
<1>1. PICK claimed \in SUBSET Items :
        (\A i \in claimed : Claimable(RowsOf(p), i)) /\ Claims(p, claimed)
  BY <1>0, StartRunClaims
<1>2. state' = [i \in Items |-> IF i \in claimed THEN "running" ELSE RowsOf(p)[i]]
  BY <1>1, Zenon DEF Claims
<1>3. collected' = [collected EXCEPT ![day[p]] = @ \/ CompletesCollection(page)]
  BY <1>1, Zenon DEF Claims, Collect
<1>4. recorded' = recorded
  BY Zenon DEF StartRun, ledgerVars
<1>5. collected[day[p]] => page = {}
  BY DEF Page
<1> HIDE DEF page
<1>6. ASSUME NEW i \in Items
      PROVE  /\ state'[i] # "absent" <=> i \in items \/ i \in inBatch
             /\ state'[i] = "completed" <=> state[i] = "completed"
             /\ state'[i] = "failed" <=> state[i] = "failed"
  <2>1. i \in inBatch <=> i[1] = day[p] /\ i[2] \in page
    BY <1>0 DEF Items
  <2>2. CASE i \in claimed
    <3>1. RowsOf(p)[i] \in {"pending", "retryable", "running"}
      BY <1>1, <2>2 DEF Claimable
    <3>2. state[i] \notin {"completed", "failed"}
      BY <3>1 DEF RowsOf
    <3>3. state[i] # "absent" \/ i \in inBatch
      BY <2>1, <3>1 DEF RowsOf, page
    <3> QED
      BY <1>2, <2>2, <3>2, <3>3
  <2>3. CASE i \notin claimed
    BY <1>2, <2>1, <2>3 DEF RowsOf, page
  <2> QED
    BY <2>2, <2>3
<1>7. inBatch \subseteq Items
  BY <1>0 DEF Items
<1>8. {i \in Items : state'[i] # "absent"} = items \cup inBatch
  BY <1>6, <1>7
<1>9. /\ {i \in Items : state'[i] = "completed"} = {i \in Items : state[i] = "completed"}
      /\ {i \in Items : state'[i] = "failed"} = {i \in Items : state[i] = "failed"}
  BY <1>6
<1>10. CASE collected[day[p]]
  <2>1. inBatch = {}
    BY <1>5, <1>10
  <2>2. \A d \in Days : collected'[d] = collected[d]
    BY <1>0, <1>3, <1>10
  <2>3. {d \in Days : collected'[d]} = closed
    BY <2>2
  <2> QED
    BY <1>4, <1>8, <1>9, <2>1, <2>3 DEF Promise!vars
<1>11. CASE ~collected[day[p]]
  <2>1. day[p] \notin closed
    BY <1>11
  <2>2. {d \in Days : collected'[d]} \in {closed, closed \cup {day[p]}}
    <3>1. CASE CompletesCollection(page)
      <4>1. \A d \in Days : collected'[d] <=> collected[d] \/ d = day[p]
        BY <1>0, <1>3, <3>1
      <4>2. {d \in Days : collected'[d]} = closed \cup {day[p]}
        BY <1>0, <4>1
      <4> QED
        BY <4>2
    <3>2. CASE ~CompletesCollection(page)
      <4>1. \A d \in Days : collected'[d] <=> collected[d]
        BY <1>0, <1>3, <3>2
      <4>2. {d \in Days : collected'[d]} = closed
        BY <4>1
      <4> QED
        BY <4>2
    <3> QED
      BY <3>1, <3>2
  <2> QED
    BY <1>4, <1>8, <1>9, <2>1, <2>2 DEF Promise!Collect, page
<1> QED
  BY <1>10, <1>11

LEMMA StepMonitorPromise == PromiseInv /\ [Next]_vars => [Promise!Next]_(Promise!vars)
<1> SUFFICES ASSUME PromiseInv, [Next]_vars
             PROVE  Promise!Next \/ UNCHANGED Promise!vars
  OBVIOUS
<1>0. /\ Typed /\ ThreadsHaveItems /\ TypeOK /\ day \in [Procs -> Days]
      /\ state \in [Items -> ItemState]
      /\ \A p \in Procs : Page(p) \in SUBSET Monitors
  BY PageType DEF PromiseInv, Typed, TypeOK
<1>s. ASSUME UNCHANGED <<state, recorded, collected>> PROVE UNCHANGED Promise!vars
  BY <1>s DEF Promise!vars
<1> USE DEF calendarVars, monitorVars, batchVars, itemVars, ledgerVars, procVars
<1>1. ASSUME NEW p \in Procs, StartRun(p) PROVE Promise!Next \/ UNCHANGED Promise!vars
  <2>1. Promise!Collect(day[p], Page(p)) \/ UNCHANGED Promise!vars
    BY <1>0, <1>1, StartRunCollects
  <2>2. PICK d \in Days, S \in SUBSET Monitors : d = day[p] /\ S = Page(p)
    BY <1>0
  <2>3. Promise!Collect(d, S) \/ UNCHANGED Promise!vars
    BY <2>1, <2>2, Zenon DEF Promise!Collect
  <2> QED
    BY <2>3, Zenon DEF Promise!Next
<1>2. ASSUME NEW p \in Procs, NEW i \in Items, RecordObservation(p, i)
      PROVE  Promise!Next \/ UNCHANGED Promise!vars
  <2>1. recorded' = recorded \cup {i} /\ UNCHANGED <<state, collected>>
    BY <1>2 DEF RecordObservation
  <2>2. state[i] # "absent"
    BY <1>0, <1>2 DEF ThreadsHaveItems, RecordObservation, Busy
  <2>3. CASE i \in recorded
    BY <1>s, <2>1, <2>3
  <2>4. CASE i \notin recorded
    <3>1. Promise!Observe(i)
      BY <2>1, <2>2, <2>4 DEF Promise!Observe
    <3> QED
      BY <3>1 DEF Promise!Next, Items
  <2> QED
    BY <2>3, <2>4
<1>3. ASSUME NEW p \in Procs, NEW i \in Items, Complete(p, i) PROVE Promise!Next
  <2>1. /\ state[i] = "running" /\ state' = [state EXCEPT ![i] = "completed"]
        /\ UNCHANGED <<recorded, collected>>
    BY <1>3 DEF Complete, HoldsLease
  <2>2. i \in recorded
    BY <1>0, <1>3 DEF ThreadsHaveItems, Complete
  <2>3. ASSUME NEW j \in Items
        PROVE  /\ state'[j] # "absent" <=> state[j] # "absent"
               /\ state'[j] = "completed" <=> state[j] = "completed" \/ j = i
               /\ state'[j] = "failed" <=> state[j] = "failed"
    BY <1>0, <2>1
  <2>4. /\ {j \in Items : state'[j] # "absent"} = {j \in Items : state[j] # "absent"}
        /\ {j \in Items : state'[j] = "failed"} = {j \in Items : state[j] = "failed"}
    BY <2>3
  <2>5. {j \in Items : state'[j] = "completed"} = {j \in Items : state[j] = "completed"} \cup {i}
    BY <2>3
  <2>6. Promise!Complete(i)
    BY <2>1, <2>2, <2>4, <2>5 DEF Promise!Complete
  <2> QED
    BY <2>6 DEF Promise!Next, Items
<1>4. ASSUME NEW p \in Procs, NEW i \in Items, Fail(p, i)
      PROVE  Promise!Next \/ UNCHANGED Promise!vars
  <2> DEFINE outcome == IF ShouldRetry(thread[p][i].retryable, thread[p][i].attempt)
                        THEN "retryable" ELSE "failed"
  <2>1. /\ state[i] = "running" /\ state' = [state EXCEPT ![i] = outcome]
        /\ UNCHANGED <<recorded, collected>>
    BY <1>4 DEF Fail, FailItem, HoldsLease
  <2>2. outcome = "retryable" \/ outcome = "failed"
    OBVIOUS
  <2> HIDE DEF outcome
  <2>3. ASSUME NEW j \in Items
        PROVE  /\ state'[j] # "absent" <=> state[j] # "absent"
               /\ state'[j] = "completed" <=> state[j] = "completed"
               /\ state'[j] = "failed" <=> state[j] = "failed" \/ (j = i /\ outcome = "failed")
    BY <1>0, <2>1, <2>2
  <2>4. /\ {j \in Items : state'[j] # "absent"} = {j \in Items : state[j] # "absent"}
        /\ {j \in Items : state'[j] = "completed"} = {j \in Items : state[j] = "completed"}
    BY <2>3
  <2>5. CASE outcome = "failed"
    <3>1. {j \in Items : state'[j] = "failed"} = {j \in Items : state[j] = "failed"} \cup {i}
      BY <2>3, <2>5
    <3>2. Promise!Fail(i)
      BY <2>1, <2>4, <3>1 DEF Promise!Fail
    <3> QED
      BY <3>2 DEF Promise!Next, Items
  <2>6. CASE outcome # "failed"
    <3>1. {j \in Items : state'[j] = "failed"} = {j \in Items : state[j] = "failed"}
      BY <2>3, <2>6
    <3> QED
      BY <2>1, <2>4, <3>1 DEF Promise!vars
  <2> QED
    BY <2>5, <2>6
<1>5. ASSUME NEW p \in Procs, NEW i \in Items,
             \/ StartItem(p, i) \/ ObservationFails(p, i)
             \/ CompletionRejected(p, i) \/ FailureRejected(p, i)
      PROVE  UNCHANGED <<state, recorded, collected>>
  BY <1>5 DEF StartItem, ObservationFails, CompletionRejected, FailureRejected
<1>6. ASSUME NEW p \in Procs, BeginRun(p) \/ RunRaises(p) \/ CountOpen(p) \/ Finalize(p) \/ Crash(p)
      PROVE  UNCHANGED <<state, recorded, collected>>
  BY <1>6 DEF BeginRun, RunRaises, CountOpen, Finalize, Crash
<1>7. ASSUME NEW i \in Items, LeaseExpires(i) \/ BackoffEnds(i)
      PROVE  UNCHANGED <<state, recorded, collected>>
  BY <1>7 DEF LeaseExpires, BackoffEnds
<1>8. ASSUME Tick \/ (\E m \in Monitors : AddMonitor(m)) \/ UNCHANGED vars
      PROVE  UNCHANGED <<state, recorded, collected>>
  BY <1>8 DEF Tick, AddMonitor, vars
<1> QED
  BY <1>s, <1>1, <1>2, <1>3, <1>4, <1>5, <1>6, <1>7, <1>8 DEF Next, ThreadStep

\* The daily batches, with their retries, lost leases, crashes and workers of
\* several processes, keep what MonitorPromise says: a monitor enters only
\* while its batch is collected, an item is observed at most once and settled
\* for good, and completed only with its observation stored.
THEOREM MonitoringKeepsPromise == Spec => KeepsMonitorPromise
<1>1. Init => PromiseInv
  BY InitTyped, InitThreadsHaveItems DEF PromiseInv
<1>2. PromiseInv /\ [Next]_vars => PromiseInv'
  BY StepTyped, StepThreadsHaveItems DEF PromiseInv
<1> QED
  BY <1>1, <1>2, InitMonitorPromise, StepMonitorPromise, PTL
  DEF Spec, KeepsMonitorPromise, Promise!Spec

-----------------------------------------------------------------------------
(* What a completed batch has.  finalize_batch counts the open items before *)
(* it locks the batch, so that a batch may be written completed while items *)
(* of a page collected meanwhile are open.  Nobody is missing from it even  *)
(* then, and once nothing is open in it, it does not move again.            *)

CompletedIsCollected == \A d \in Days : status[d] = "completed" => collected[d]

LEMMA StepCompletedIsCollected ==
  Typed /\ CompletedIsCollected /\ [Next]_vars => CompletedIsCollected'
<1> SUFFICES ASSUME Typed, CompletedIsCollected, [Next]_vars,
                    NEW d \in Days, status'[d] = "completed"
             PROVE  collected'[d]
  BY DEF CompletedIsCollected
<1>0. TypeOK /\ day \in [Procs -> Days] /\ (status[d] = "completed" => collected[d])
  BY DEF Typed, TypeOK, CompletedIsCollected
<1>t. status \in [Days -> BatchStatus] /\ collected \in [Days -> BOOLEAN]
  BY <1>0 DEF TypeOK
<1>1. ASSUME NEW p \in Procs, StartRun(p) PROVE collected'[d]
  <2>1. Collect(day[p], Page(p))
    BY <1>1, Zenon DEF StartRun
  <2>2. collected[d] => collected'[d]
    BY <1>0, <1>t, <2>1 DEF Collect
  <2>3. d = day[p] /\ ~collected[d] => status'[d] \in {"running", "collecting"}
    BY <1>0, <1>t, <2>1 DEF Collect
  <2>4. d # day[p] => status'[d] = status[d]
    BY <1>0, <1>t, <2>1 DEF Collect
  <2> QED
    BY <1>0, <2>2, <2>3, <2>4
<1>2. ASSUME NEW p \in Procs, Finalize(p) PROVE collected'[d]
  BY <1>0, <1>t, <1>2 DEF Finalize
<1>3. CASE UNCHANGED <<status, collected>>
  BY <1>0, <1>3
<1> USE DEF calendarVars, monitorVars, batchVars, itemVars, ledgerVars, procVars
<1>4. ASSUME NEW p \in Procs, NEW i \in Items, ThreadStep(p, i)
      PROVE  UNCHANGED <<status, collected>>
  BY <1>4 DEF ThreadStep, StartItem, RecordObservation, ObservationFails, Complete,
              CompletionRejected, Fail, FailureRejected
<1>5. ASSUME NEW p \in Procs, BeginRun(p) \/ RunRaises(p) \/ CountOpen(p) \/ Crash(p)
      PROVE  UNCHANGED <<status, collected>>
  BY <1>5 DEF BeginRun, RunRaises, CountOpen, Crash
<1>6. ASSUME NEW i \in Items, LeaseExpires(i) \/ BackoffEnds(i)
      PROVE  UNCHANGED <<status, collected>>
  BY <1>6 DEF LeaseExpires, BackoffEnds
<1>7. ASSUME Tick \/ (\E m \in Monitors : AddMonitor(m)) \/ UNCHANGED vars
      PROVE  UNCHANGED <<status, collected>>
  BY <1>7 DEF Tick, AddMonitor, vars
<1> QED
  BY <1>1, <1>2, <1>3, <1>4, <1>5, <1>6, <1>7 DEF Next

CompletedMissesNobody ==
  \A d \in Days : status[d] = "completed" =>
    \A m \in wanted[d] : state[<<d, m>>] # "absent"

\* A batch that was written completed, be it too early, has an item for every
\* monitor that was due when it was opened, for every run under way, and whose
\* next check no other batch has set since: no monitor is skipped by the race of
\* collecting and counting.
THEOREM CompletionMissesNobody == Spec => []CompletedMissesNobody
<1>1. Init => CompletedIsCollected
  BY DEF Init, CompletedIsCollected
<1>2. Spec => [](Typed /\ CompletedIsCollected)
  BY <1>1, InitTyped, StepTyped, StepCompletedIsCollected, PTL DEF Spec
<1>3. CompletedIsCollected /\ CollectionIsExhaustive => CompletedMissesNobody
  BY DEF CompletedIsCollected, CollectionIsExhaustive, CompletedMissesNobody
<1> QED
  BY <1>2, <1>3, CollectionsComplete, PTL

\* Nothing is left to do in the batch of day d.
AllSettled(d) == collected[d] /\ OpenItems(d) = {}

\* It is written completed, and no run is about to write what it counted before.
Over(d) ==
  /\ AllSettled(d)
  /\ status[d] = "completed"
  /\ \A p \in Procs : pc[p] = "finalizing" /\ day[p] = d => quiet[p]

\* A collected batch takes no page, and what is settled is not claimed.
LEMMA SettledItemsRest ==
  ASSUME TypeOK, NEW p \in Procs, StartRun(p), NEW d \in Days, AllSettled(d),
         NEW i \in Items, i[1] = d
  PROVE  state'[i] = state[i]
<1>0. day \in [Procs -> Days]
  BY DEF TypeOK
<1>1. PICK claimed \in SUBSET Items :
        /\ \A j \in claimed : Claimable(RowsOf(p), j)
        /\ Claims(p, claimed)
  BY <1>0, StartRunClaims
<1>2. state[i] \notin Open
  BY DEF AllSettled, OpenItems
<1>3. RowsOf(p)[i] = state[i]
  <2>1. d = day[p] => Page(p) = {}
    BY DEF AllSettled, Page
  <2> QED
    BY <2>1 DEF RowsOf
<1>4. i \notin claimed
  <2>1. ~Claimable(RowsOf(p), i)
    BY <1>2, <1>3 DEF Claimable, Open
  <2> QED
    BY <1>1, <2>1
<1>5. state' = [j \in Items |-> IF j \in claimed THEN "running" ELSE RowsOf(p)[j]]
  BY <1>1, Zenon DEF Claims
<1> QED
  BY <1>3, <1>4, <1>5

LEMMA AllSettledStays ==
  ASSUME TypeOK, [Next]_vars, NEW d \in Days, AllSettled(d)
  PROVE  AllSettled(d)'
<1> SUFFICES /\ collected'[d]
             /\ \A i \in Items : i[1] = d => state'[i] \notin Open
  BY DEF AllSettled, OpenItems
<1>0. /\ collected[d] /\ \A i \in Items : i[1] = d => state[i] \notin Open
      /\ collected \in [Days -> BOOLEAN] /\ state \in [Items -> ItemState]
      /\ day \in [Procs -> Days]
  BY DEF AllSettled, OpenItems, TypeOK
<1> DEFINE Rests == collected'[d] /\ \A i \in Items : i[1] = d => state'[i] \notin Open
<1>1. ASSUME NEW p \in Procs, StartRun(p) PROVE Rests
  <2>1. Collect(day[p], Page(p))
    BY <1>1, Zenon DEF StartRun
  <2>2. collected'[d]
    BY <1>0, <2>1 DEF Collect
  <2> QED
    BY <1>0, <1>1, <2>2, SettledItemsRest
<1> USE DEF calendarVars, monitorVars, batchVars, itemVars, ledgerVars, procVars
<1>2. CASE UNCHANGED <<state, collected>>
  BY <1>0, <1>2
<1>3. ASSUME NEW p \in Procs, NEW j \in Items, Complete(p, j) \/ Fail(p, j) PROVE Rests
  <2>1. state[j] = "running" /\ UNCHANGED collected
    BY <1>3 DEF Complete, Fail, HoldsLease
  <2>2. j[1] # d
    BY <1>0, <2>1 DEF Open
  <2>3. \A i \in Items : i # j => state'[i] = state[i]
    BY <1>0, <1>3 DEF Complete, Fail, FailItem
  <2> QED
    BY <1>0, <2>1, <2>2, <2>3
<1>4. ASSUME NEW p \in Procs, NEW i \in Items,
             \/ StartItem(p, i) \/ RecordObservation(p, i) \/ ObservationFails(p, i)
             \/ CompletionRejected(p, i) \/ FailureRejected(p, i)
      PROVE  UNCHANGED <<state, collected>>
  BY <1>4 DEF StartItem, RecordObservation, ObservationFails, CompletionRejected,
              FailureRejected
<1>5. ASSUME NEW p \in Procs, BeginRun(p) \/ RunRaises(p) \/ CountOpen(p) \/ Finalize(p) \/ Crash(p)
      PROVE  UNCHANGED <<state, collected>>
  BY <1>5 DEF BeginRun, RunRaises, CountOpen, Finalize, Crash
<1>6. ASSUME NEW i \in Items, LeaseExpires(i) \/ BackoffEnds(i)
      PROVE  UNCHANGED <<state, collected>>
  BY <1>6 DEF LeaseExpires, BackoffEnds
<1>7. ASSUME Tick \/ (\E m \in Monitors : AddMonitor(m)) \/ UNCHANGED vars
      PROVE  UNCHANGED <<state, collected>>
  BY <1>7 DEF Tick, AddMonitor, vars
<1> QED
  BY <1>1, <1>2, <1>3, <1>4, <1>5, <1>6, <1>7 DEF Next, ThreadStep

LEMMA OverStays ==
  ASSUME TypeOK, [Next]_vars, NEW d \in Days, Over(d)
  PROVE  Over(d)'
<1> SUFFICES /\ status'[d] = "completed"
             /\ \A q \in Procs : pc'[q] = "finalizing" /\ day'[q] = d => quiet'[q]
  BY AllSettledStays DEF Over
<1>0. /\ collected[d] /\ OpenItems(d) = {} /\ status[d] = "completed"
      /\ \A q \in Procs : pc[q] = "finalizing" /\ day[q] = d => quiet[q]
  BY DEF Over, AllSettled
<1>t. /\ status \in [Days -> BatchStatus]
      /\ pc \in [Procs -> {"idle", "starting", "working", "finalizing"}]
      /\ day \in [Procs -> Days] /\ quiet \in [Procs -> BOOLEAN]
  BY DEF TypeOK
<1> DEFINE Rests == /\ status'[d] = "completed"
                    /\ \A q \in Procs : pc'[q] = "finalizing" /\ day'[q] = d => quiet'[q]
<1>1. ASSUME NEW p \in Procs, StartRun(p) PROVE Rests
  <2>1. /\ Collect(day[p], Page(p))
        /\ pc' = [pc EXCEPT ![p] = "working"] /\ day' = day /\ quiet' = quiet
    BY <1>1, Zenon DEF StartRun
  <2>2. status'[d] = "completed"
    BY <1>0, <1>t, <2>1 DEF Collect
  <2> QED
    BY <1>0, <1>t, <2>1, <2>2
<1> USE DEF calendarVars, monitorVars, batchVars, itemVars, ledgerVars, procVars
<1>b. ASSUME NEW p \in Procs, BeginRun(p) PROVE Rests
  BY <1>0, <1>t, <1>b DEF BeginRun
<1>2. ASSUME NEW p \in Procs, CountOpen(p) PROVE Rests
  BY <1>0, <1>t, <1>2 DEF CountOpen
<1>3. ASSUME NEW p \in Procs, Finalize(p) PROVE Rests
  BY <1>0, <1>t, <1>3 DEF Finalize
<1>4. ASSUME NEW p \in Procs, RunRaises(p) \/ Crash(p) PROVE Rests
  BY <1>0, <1>t, <1>4 DEF RunRaises, Crash
<1>5. CASE UNCHANGED <<status, pc, day, quiet>>
  BY <1>0, <1>5
<1>6. ASSUME NEW p \in Procs, NEW i \in Items, ThreadStep(p, i)
      PROVE  UNCHANGED <<status, pc, day, quiet>>
  BY <1>6 DEF ThreadStep, StartItem, RecordObservation, ObservationFails, Complete,
              CompletionRejected, Fail, FailureRejected
<1>7. ASSUME NEW i \in Items, LeaseExpires(i) \/ BackoffEnds(i)
      PROVE  UNCHANGED <<status, pc, day, quiet>>
  BY <1>7 DEF LeaseExpires, BackoffEnds
<1>8. ASSUME Tick \/ (\E m \in Monitors : AddMonitor(m)) \/ UNCHANGED vars
      PROVE  UNCHANGED <<status, pc, day, quiet>>
  BY <1>8 DEF Tick, AddMonitor, vars
<1> QED
  BY <1>b, <1>1, <1>2, <1>3, <1>4, <1>5, <1>6, <1>7, <1>8 DEF Next

BatchesRest ==
  [][\A d \in Days : (AllSettled(d) => AllSettled(d)') /\ (Over(d) => Over(d)')]_vars

\* The "for good" of BatchIsCompleted: a batch with nothing left to do gets
\* nothing to do again, and once it is written completed and nobody holds an
\* older count no run, crash or late thread writes anything else.
THEOREM OverForGood == Spec => BatchesRest
<1> DEFINE Rest == \A d \in Days : (AllSettled(d) => AllSettled(d)') /\ (Over(d) => Over(d)')
<1>1. TypeOK /\ [Next]_vars => [Rest]_vars
  BY AllSettledStays, OverStays
<1>2. Spec => [][Rest]_vars
  BY <1>1, TypeCorrect, PTL DEF Spec
<1> QED
  BY <1>2 DEF BatchesRest

-----------------------------------------------------------------------------
(* The pool of a run *)

\* The LIMIT of a query, of however many rows.
LEMMA FirstOfIsShort ==
  ASSUME NEW S \in SUBSET Nat, NEW n \in Nat
  PROVE  IsFiniteSet(FirstOf(S, n)) /\ Cardinality(FirstOf(S, n)) <= n
<1> DEFINE F == FirstOf(S, n)
           Below(m) == {x \in S : x <= m}
           Counts == {Cardinality(Below(m)) : m \in F}
<1>1. \A m \in F : m \in S /\ m \in Nat /\ Cardinality(Below(m)) <= n
  BY DEF FirstOf
<1>2. ASSUME NEW m \in Nat
      PROVE  IsFiniteSet(Below(m)) /\ Cardinality(Below(m)) \in Nat
  <2>1. Below(m) \in SUBSET Nat /\ \A x \in Below(m) : x <= m
    OBVIOUS
  <2>2. IsFiniteSet(Below(m))
    BY <2>1, FS_BoundedSetOfNaturals
  <2> QED
    BY <2>2, FS_CardinalityType
<1>3. CASE F = {}
  BY <1>3, FS_EmptySet
<1>4. CASE F # {}
  <2>1. Counts \in SUBSET Nat /\ Counts # {} /\ \A c \in Counts : c <= n
    BY <1>1, <1>2, <1>4
  <2>2. IsFiniteSet(Counts)
    BY <2>1, FS_BoundedSetOfNaturals
  <2>3. PICK c \in Counts : \A x \in Counts : x <= c
    BY <2>1, <2>2, GreatestElement
  <2>4. PICK m \in F : c = Cardinality(Below(m))
    OBVIOUS
  <2>n. m \in Nat /\ m \in S
    BY <1>1, <2>4
  <2>5. ASSUME NEW y \in F PROVE y \in Below(m)
    <3>0. y \in Nat /\ y \in S
      BY <1>1
    <3>c. CASE y <= m
      BY <3>0, <3>c
    <3> SUFFICES ASSUME ~(y <= m) PROVE FALSE
      BY <3>c
    <3>1. m < y
      BY <2>n, <3>0
    <3>2. Below(m) \in SUBSET Below(y) /\ y \in Below(y) /\ y \notin Below(m)
      <4>1. \A x \in S : x <= m => x <= y
        BY <2>n, <3>0, <3>1
      <4>2. y <= y
        BY <3>0
      <4> HIDE DEF F, Counts
      <4> QED
        BY <3>0, <4>1, <4>2, Zenon
    <3>3. Cardinality(Below(m)) <= Cardinality(Below(y))
          /\ Cardinality(Below(m)) # Cardinality(Below(y))
      BY <1>2, <2>n, <3>0, <3>2, FS_Subset
    <3>4. Cardinality(Below(y)) \in Counts
      OBVIOUS
    <3>5. Cardinality(Below(y)) <= Cardinality(Below(m))
      BY <2>3, <2>4, <3>4
    <3> QED
      BY <1>2, <2>n, <3>0, <3>3, <3>5
  <2>6. F \in SUBSET Below(m) /\ IsFiniteSet(Below(m))
    BY <1>1, <1>2, <2>5
  <2>7. IsFiniteSet(F) /\ Cardinality(F) <= Cardinality(Below(m))
    BY <2>6, FS_Subset
  <2>8. Cardinality(F) \in Nat /\ Cardinality(Below(m)) \in Nat /\ Cardinality(Below(m)) <= n
    BY <1>1, <1>2, <2>7, FS_CardinalityType
  <2> QED
    BY <2>7, <2>8
<1> QED
  BY <1>3, <1>4

\* What a run claims is one item each of max_parallelism monitors.
LEMMA StartRunFillsPool ==
  ASSUME NEW p \in Procs, StartRun(p)
  PROVE  \E S \in SUBSET Monitors : Claims(p, {day[p]} \X FirstOf(S, Parallelism))
<1> DEFINE rows == RowsOf(p)
           ready == {m \in Monitors : Claimable(rows, <<day[p], m>>)}
<1>1. PICK locked \in SUBSET ready : Claims(p, {day[p]} \X FirstOf(ready \ locked, Parallelism))
  BY Zenon DEF StartRun, Claims, RowsOf
<1>2. ready \ locked \in SUBSET Monitors
  OBVIOUS
<1> QED
  BY <1>1, <1>2

Pool(p) == {i \in Items : thread[p][i].at # "none"}

PoolsAreBounded ==
  \A p \in Procs :
    /\ IsFiniteSet(Pool(p)) /\ Cardinality(Pool(p)) <= Parallelism
    /\ \A i \in Pool(p) : i[1] = day[p]
    /\ pc[p] # "working" => Pool(p) = {}

\* A step that starts no run takes up no further item, and leaves a run with
\* items in hand at work.
LEMMA PoolsShrink ==
  ASSUME TypeOK, PoolsAreBounded, [Next]_vars, \A p \in Procs : ~StartRun(p),
         NEW q \in Procs, NEW j \in Items, thread'[q][j].at # "none"
  PROVE  thread[q][j].at # "none" /\ day'[q] = day[q] /\ pc'[q] = "working"
<1>0. /\ thread \in [Procs -> [Items -> Thread]] /\ day \in [Procs -> Days]
      /\ pc \in [Procs -> {"idle", "starting", "working", "finalizing"}]
  BY DEF TypeOK
<1>w. thread[q][j].at # "none" => pc[q] = "working"
  BY DEF PoolsAreBounded, Pool
<1> DEFINE Goal == thread[q][j].at # "none" /\ day'[q] = day[q] /\ pc'[q] = "working"
<1> USE DEF calendarVars, monitorVars, batchVars, itemVars, ledgerVars, procVars
<1>1. CASE UNCHANGED <<thread, day, pc>>
  BY <1>w, <1>1
<1>b. ASSUME NEW p \in Procs, BeginRun(p) PROVE Goal
  <2>1. thread[q][j].at # "none" /\ pc[p] = "idle"
    BY <1>b DEF BeginRun
  <2>2. q # p
    BY <1>w, <2>1
  <2> QED
    BY <1>0, <1>w, <1>b, <2>1, <2>2 DEF BeginRun
<1>2. ASSUME NEW p \in Procs, NEW i \in Items, ThreadStep(p, i) PROVE Goal
  <2>1. thread[p][i].at # "none" /\ day' = day /\ pc' = pc
    BY <1>2 DEF ThreadStep, StartItem, RecordObservation, ObservationFails, Complete,
                CompletionRejected, Fail, FailureRejected
  <2>2. ASSUME ~(q = p /\ j = i) PROVE thread'[q][j] = thread[q][j]
    <3>1. CASE StartItem(p, i)
      BY <1>0, <2>2, <3>1 DEF StartItem
    <3>2. CASE RecordObservation(p, i) \/ Complete(p, i) \/ Fail(p, i) \/ FailureRejected(p, i)
      BY <1>0, <2>2, <3>2 DEF RecordObservation, Complete, Fail, FailureRejected
    <3>3. CASE ObservationFails(p, i) \/ CompletionRejected(p, i)
      BY <1>0, <2>2, <3>3 DEF ObservationFails, CompletionRejected
    <3> QED
      BY <1>2, <3>1, <3>2, <3>3 DEF ThreadStep
  <2>3. thread[q][j].at # "none"
    BY <2>1, <2>2
  <2> QED
    BY <1>w, <2>1, <2>3
<1>3. ASSUME NEW p \in Procs, RunRaises(p) \/ Crash(p) PROVE Goal
  <2>1. /\ thread' = [thread EXCEPT ![p] = [i \in Items |-> NoThread]]
        /\ pc' = [pc EXCEPT ![p] = "idle"] /\ day' = day
    BY <1>3 DEF RunRaises, Crash
  <2>2. q # p
    BY <1>0, <2>1 DEF NoThread
  <2> QED
    BY <1>0, <1>w, <2>1, <2>2
<1>4. ASSUME NEW p \in Procs, CountOpen(p) \/ Finalize(p) PROVE Goal
  <2>1. /\ thread' = thread /\ day' = day
        /\ pc' = [pc EXCEPT ![p] = "finalizing"] \/ pc' = [pc EXCEPT ![p] = "idle"]
        /\ (\A i \in Items : thread[p][i].at = "none") \/ pc[p] = "finalizing"
    BY <1>4 DEF CountOpen, Finalize
  <2>2. q # p
    BY <1>w, <2>1
  <2> QED
    BY <1>0, <1>w, <2>1, <2>2
<1>5. ASSUME NEW i \in Items, LeaseExpires(i) \/ BackoffEnds(i)
      PROVE  UNCHANGED <<thread, day, pc>>
  BY <1>5 DEF LeaseExpires, BackoffEnds
<1>6. ASSUME Tick \/ (\E m \in Monitors : AddMonitor(m)) \/ UNCHANGED vars
      PROVE  UNCHANGED <<thread, day, pc>>
  BY <1>6 DEF Tick, AddMonitor, vars
<1> QED
  BY <1>b, <1>1, <1>2, <1>3, <1>4, <1>5, <1>6 DEF Next

LEMMA StepPools == TypeOK /\ PoolsAreBounded /\ [Next]_vars => PoolsAreBounded'
<1> SUFFICES ASSUME TypeOK, PoolsAreBounded, [Next]_vars, NEW q \in Procs
             PROVE  /\ IsFiniteSet(Pool(q)') /\ Cardinality(Pool(q)') <= Parallelism
                    /\ \A i \in Pool(q)' : i[1] = day'[q]
                    /\ pc'[q] # "working" => Pool(q)' = {}
  BY DEF PoolsAreBounded
<1> DEFINE After == {i \in Items : thread'[q][i].at # "none"}
<1>0. /\ thread \in [Procs -> [Items -> Thread]] /\ day \in [Procs -> Days]
      /\ Parallelism \in Nat
      /\ pc \in [Procs -> {"idle", "starting", "working", "finalizing"}]
  BY MonitoringAssumption DEF TypeOK
<1>b. /\ IsFiniteSet(Pool(q)) /\ Cardinality(Pool(q)) <= Parallelism
      /\ \A i \in Pool(q) : i[1] = day[q]
  BY DEF PoolsAreBounded
<1>a. Pool(q)' = After
  BY DEF Pool
<1> DEFINE Goal == /\ IsFiniteSet(After) /\ Cardinality(After) <= Parallelism
                   /\ \A i \in After : i[1] = day'[q]
                   /\ pc'[q] # "working" => After = {}
<1>1. ASSUME After \in SUBSET Pool(q), After # {} => day'[q] = day[q] /\ pc'[q] = "working"
      PROVE  Goal
  <2>1. IsFiniteSet(After) /\ Cardinality(After) <= Cardinality(Pool(q))
    BY <1>b, <1>1, FS_Subset
  <2>2. Cardinality(After) \in Nat /\ Cardinality(Pool(q)) \in Nat
    BY <1>b, <2>1, FS_CardinalityType
  <2> QED
    BY <1>0, <1>b, <1>1, <2>1, <2>2
<1>2. ASSUME NEW p \in Procs, StartRun(p) PROVE Goal
  <2>1. PICK S \in SUBSET Monitors : Claims(p, {day[p]} \X FirstOf(S, Parallelism))
    BY <1>2, StartRunFillsPool
  <2> DEFINE first == FirstOf(S, Parallelism)
             claimed == {day[p]} \X first
  <2>2. IsFiniteSet(first) /\ Cardinality(first) <= Parallelism /\ first \in SUBSET Monitors
    <3>1. S \in SUBSET Nat
      BY MonitoringAssumption
    <3>2. first \in SUBSET S
      BY DEF FirstOf
    <3> QED
      BY <1>0, <3>1, <3>2, FirstOfIsShort
  <2>c. Claims(p, claimed)
    BY <2>1
  <2> HIDE DEF first
  <2>3. claimed \in SUBSET Items
    BY <1>0, <2>2 DEF Items
  <2>4. IsFiniteSet(claimed) /\ Cardinality(claimed) <= Parallelism
    <3>1. IsFiniteSet({day[p]}) /\ Cardinality({day[p]}) = 1
      BY FS_Singleton
    <3>2. IsFiniteSet(claimed) /\ Cardinality(claimed) = 1 * Cardinality(first)
      BY <2>2, <3>1, FS_Product
    <3>3. Cardinality(first) \in Nat
      BY <2>2, FS_CardinalityType
    <3> QED
      BY <2>2, <3>2, <3>3
  <2>5. \A i \in claimed : i[1] = day[p]
    OBVIOUS
  <2>d. day' = day /\ pc' = [pc EXCEPT ![p] = "working"]
    BY <2>c, Zenon DEF Claims, procVars
  <2> HIDE DEF claimed
  <2>6. CASE q = p
    <3>1. After \in SUBSET claimed
      <4>1. ASSUME NEW j \in Items, thread'[q][j].at # "none" PROVE j \in claimed
        <5>1. j \notin claimed => thread'[q][j] = NoThread
          BY <1>0, <2>3, <2>c, <2>6, ClaimedThreads
        <5> QED
          BY <4>1, <5>1 DEF NoThread
      <4> QED
        BY <4>1
    <3>2. IsFiniteSet(After) /\ Cardinality(After) <= Cardinality(claimed)
      BY <2>4, <3>1, FS_Subset
    <3>3. Cardinality(After) \in Nat /\ Cardinality(claimed) \in Nat
      BY <2>4, <3>2, FS_CardinalityType
    <3>4. day'[q] = day[p] /\ pc'[q] = "working"
      BY <1>0, <2>6, <2>d
    <3> QED
      BY <1>0, <2>4, <2>5, <3>1, <3>2, <3>3, <3>4
  <2>7. CASE q # p
    <3>1. \A j \in Items : thread'[q][j] = thread[q][j]
      BY <1>0, <2>3, <2>c, <2>7, ClaimedThreads
    <3>2. day'[q] = day[q] /\ pc'[q] = pc[q]
      BY <1>0, <2>7, <2>d
    <3>3. After = Pool(q)
      BY <3>1 DEF Pool
    <3>4. After # {} => pc[q] = "working"
      BY <3>3 DEF PoolsAreBounded
    <3> HIDE DEF After
    <3> QED
      BY <1>1, <3>2, <3>3, <3>4
  <2> QED
    BY <2>6, <2>7
<1>3. ASSUME \A p \in Procs : ~StartRun(p) PROVE Goal
  <2>1. \A j \in After : thread[q][j].at # "none" /\ day'[q] = day[q] /\ pc'[q] = "working"
    BY <1>3, PoolsShrink
  <2>2. After \in SUBSET Pool(q)
    BY <2>1 DEF Pool
  <2>3. After # {} => day'[q] = day[q] /\ pc'[q] = "working"
    BY <2>1
  <2> HIDE DEF After
  <2> QED
    BY <1>1, <2>2, <2>3
<1>4. Goal
  BY <1>2, <1>3
<1> QED
  BY <1>a, <1>4

\* A worker instance has at most max_parallelism items in hand at any time, all
\* of the batch it works on and only while it works, however many runs, pages
\* and batches overlap and whatever was due (run_once, claim_items and their
\* limit).
THEOREM ParallelismHolds == Spec => []PoolsAreBounded
<1>1. Init => PoolsAreBounded
  <2> SUFFICES ASSUME Init, NEW p \in Procs PROVE Pool(p) = {}
    BY FS_EmptySet, MonitoringAssumption DEF PoolsAreBounded
  <2> QED
    BY DEF Init, Pool, NoThread
<1> QED
  BY <1>1, StepPools, TypeCorrect, PTL DEF Spec

=============================================================================
