------------------------ MODULE AlertEngine_proofs ------------------------
(***************************************************************************)
(* TLAPS proofs about AlertEngine, for every finite set of alerts and      *)
(* devices, every set of rules with any settings, and every limit.         *)
(***************************************************************************)
EXTENDS AlertEngine, RecursionLemmas, FiniteSetTheorems, TLAPS

\* Decisions exist only between Decide and the step that writes or drops them, and
\* the engine's session holds uncommitted rows only while it evaluates rules.
HalfDoneInv ==
    /\ pc \in {"sleep", "rule", "flush", "housekeeping", "purge", "dispatch"}
    /\ pc \in {"housekeeping", "purge", "dispatch", "sleep"} => txn = db
    /\ pc # "flush" => plan = NoPlan

LEMMA HalfDoneStays == HalfDoneInv /\ [Next]_vars => HalfDoneInv'
<1> SUFFICES ASSUME HalfDoneInv, [Next]_vars PROVE HalfDoneInv'
  OBVIOUS
<1> USE DEF HalfDoneInv, dbVars, cycleVars
<1>1. CASE Wake
  BY <1>1 DEF Wake
<1>2. CASE Decide
  BY <1>2 DEF Decide
<1>3. CASE StormCountFails
  BY <1>3 DEF StormCountFails
<1>4. CASE Flush
  BY <1>4 DEF Flush
<1>5. CASE RuleFails
  BY <1>5 DEF RuleFails
<1>6. CASE Commit
  BY <1>6 DEF Commit, AfterCycle
<1>7. CASE CommitFails
  BY <1>7 DEF CommitFails, AfterCycle
<1>8. CASE Housekeeping
  BY <1>8 DEF Housekeeping
<1>9. CASE Purge
  BY <1>9 DEF Purge
<1>10. CASE Dispatch
  BY <1>10 DEF Dispatch
<1>11. CASE Restart
  BY <1>11 DEF Restart
<1>12. CASE ApiRead
  BY <1>12 DEF ApiRead
<1>13. CASE ApiWrite
  <2>1. txn = db => txn' = db'
    BY <1>13 DEF ApiWrite
  <2> QED
    BY <2>1, <1>13 DEF ApiWrite
<1>14. CASE Polled \/ Reported
  BY <1>14 DEF Polled, Reported
<1>15. CASE ConditionChanges \/ PollsStop \/ MaintenanceChanges \/ RulesChange
  BY <1>15 DEF ConditionChanges, PollsStop, MaintenanceChanges, RulesChange
<1>16. CASE TimePasses
  <2>1. CASE \E x \in Alert : GateElapses(x) \/ ClearElapses(x)
    BY <2>1 DEF GateElapses, ClearElapses
  <2>2. CASE \E new : Later(new)
    BY <2>2 DEF Later
  <2> QED
    BY <1>16, <2>1, <2>2 DEF TimePasses, ReminderDue, GrowsOld, HourPasses
<1>17. CASE UNCHANGED vars
  BY <1>17 DEF vars
<1> QED
  BY <1>1, <1>2, <1>3, <1>4, <1>5, <1>6, <1>7, <1>8, <1>9, <1>10, <1>11, <1>12, <1>13,
     <1>14, <1>15, <1>16, <1>17 DEF Next, Engine, Cycle, Environment

----------------------------------------------------------------------------
\* GrowsOld writes one of two ages.
LEMMA GrowsOldIs ==
    ASSUME NEW x, GrowsOld(x)
    PROVE  \E v \in {"aged", "ancient"} : Later([db EXCEPT !.rows[x].age = v])
BY DEF GrowsOld

Columns == {"rows", "order", "recent", "storms", "storm", "status"}

\* The count of a device is below the limit, or a rule has taken it past the limit
\* by less than its own alerts there.
Within(d, n) == n < StormLimit \/ \E r \in Rule : n < StormLimit + Cardinality(Share(r, d))

Counted(s) ==
    /\ DOMAIN s = Columns
    /\ s.recent \in [Device -> Nat] /\ s.storms \in [Device -> Nat]
    /\ \A d \in Device : Within(d, s.recent[d])

\* While decisions wait to be written, the alerts to create belong to the rule in
\* turn, and their devices were below the limit when it was evaluated.
StormInv ==
    /\ Counted(db) /\ Counted(txn)
    /\ pc # "flush" => plan.created = {}
    /\ pc = "flush" => todo # <<>>
    /\ pc = "flush" => plan.created \subseteq AlertsOf(Head(todo))
    /\ pc = "flush" => \A x \in plan.created : txn.recent[DeviceOf[x]] < StormLimit

LEMMA ShareIsFinite ==
    ASSUME NEW r, NEW d
    PROVE  IsFiniteSet(Share(r, d)) /\ Cardinality(Share(r, d)) \in Nat
<1>1. Share(r, d) \subseteq Alert
  BY DEF Share, AlertsOf
<1> QED
  BY <1>1, SuppressionAssumption, FS_Subset, FS_CardinalityType

LEMMA BumpBounds ==
    ASSUME NEW n \in Nat, NEW k \in Nat
    PROVE  Bump(n, k) \in Nat /\ Bump(n, k) <= n + k
  BY EngineAssumption DEF Bump

\* Writing the decisions of the rule in turn adds at most its share to a device,
\* and nothing to a device it found full.
LEMMA FlushCounts ==
    ASSUME StormInv, StormLimit > 0, Flush
    PROVE  Counted(txn')
<1> DEFINE new(d) == {x \in plan.created : DeviceOf[x] = d}
<1>1. /\ DOMAIN txn' = Columns
      /\ txn'.recent = [d \in Device |-> Bump(txn.recent[d], Cardinality(new(d)))]
      /\ txn'.storms = [d \in Device |->
                           Bump(txn.storms[d], IF d \in plan.raised THEN 1 ELSE 0)]
  BY DEF Flush, StormInv, Counted, Columns
<1>2. pc = "flush" /\ plan.created \subseteq AlertsOf(Head(todo))
  BY DEF Flush, StormInv
<1>3. ASSUME NEW d \in Device
      PROVE  /\ new(d) \subseteq Share(Head(todo), d)
             /\ IsFiniteSet(new(d)) /\ Cardinality(new(d)) \in Nat
             /\ Cardinality(new(d)) <= Cardinality(Share(Head(todo), d))
  <2>1. new(d) \subseteq Share(Head(todo), d)
    BY <1>2 DEF Share
  <2> QED
    BY <2>1, ShareIsFinite, FS_Subset, FS_CardinalityType
<1> HIDE DEF new
<1>4. txn.recent \in [Device -> Nat] /\ txn.storms \in [Device -> Nat]
  BY DEF StormInv, Counted
<1>5. txn'.recent \in [Device -> Nat] /\ txn'.storms \in [Device -> Nat]
  <2>1. ASSUME NEW d \in Device
        PROVE  /\ Bump(txn.recent[d], Cardinality(new(d))) \in Nat
               /\ Bump(txn.storms[d], IF d \in plan.raised THEN 1 ELSE 0) \in Nat
    <3>1. txn.recent[d] \in Nat /\ txn.storms[d] \in Nat /\ Cardinality(new(d)) \in Nat
      BY <1>3, <1>4
    <3>2. (IF d \in plan.raised THEN 1 ELSE 0) \in Nat
      OBVIOUS
    <3> QED
      BY <3>1, <3>2, BumpBounds
  <2> QED
    BY <1>1, <2>1
<1>6. ASSUME NEW d \in Device PROVE Within(d, txn'.recent[d])
  <2> DEFINE n == txn.recent[d]
             k == Cardinality(new(d))
             share == Cardinality(Share(Head(todo), d))
  <2>1. n \in Nat /\ k \in Nat /\ share \in Nat /\ StormLimit \in Nat
    BY <1>3, <1>4, ShareIsFinite, EngineAssumption
  <2>2. txn'.recent[d] = Bump(n, k)
    BY <1>1
  <2>3. Bump(n, k) \in Nat /\ Bump(n, k) <= n + k
    BY <2>1, BumpBounds
  <2>4. CASE new(d) = {}
    <3>1. k = 0
      BY <2>4, FS_EmptySet
    <3>2. Within(d, n)
      BY DEF StormInv, Counted
    <3>3. \A r \in Rule : Cardinality(Share(r, d)) \in Nat
      BY ShareIsFinite
    <3> QED
      BY <2>1, <2>2, <2>3, <3>1, <3>2, <3>3 DEF Within
  <2>5. CASE new(d) # {}
    <3>1. PICK x \in new(d) : TRUE
      BY <2>5
    <3>2. x \in plan.created /\ DeviceOf[x] = d
      BY <3>1 DEF new
    <3>3. x \in Alert /\ RuleOf[x] = Head(todo)
      BY <3>2, <1>2 DEF AlertsOf
    <3>4. Head(todo) \in Rule
      BY <3>3, EngineAssumption
    <3>5. n < StormLimit
      BY <3>2, <1>2 DEF StormInv
    <3>6. k <= share
      BY <1>3
    <3>7. Bump(n, k) < StormLimit + share
      BY <2>1, <2>3, <3>5, <3>6
    <3> QED
      BY <2>2, <3>4, <3>7 DEF Within
  <2> QED
    BY <2>4, <2>5
<1> QED
  BY <1>1, <1>5, <1>6 DEF Counted

\* Changing anything but the counts, or lowering one, keeps a store counted.
LEMMA LowerCount ==
    ASSUME NEW s, Counted(s), NEW d \in Device, s.recent[d] > 0
    PROVE  Counted([s EXCEPT !.recent[d] = @ - 1])
<1> DEFINE t == [s EXCEPT !.recent[d] = @ - 1]
<1>1. /\ DOMAIN t = Columns /\ t.storms = s.storms
      /\ t.recent = [s.recent EXCEPT ![d] = @ - 1]
  BY DEF Counted, Columns
<1>2. s.recent \in [Device -> Nat] /\ s.storms \in [Device -> Nat]
  BY DEF Counted
<1> HIDE DEF t
<1>3. t.recent \in [Device -> Nat] /\ \A e \in Device : t.recent[e] <= s.recent[e]
  BY <1>1, <1>2
<1>4. ASSUME NEW e \in Device PROVE Within(e, t.recent[e])
  <2>1. Within(e, s.recent[e])
    BY DEF Counted
  <2>2. \A r \in Rule : Cardinality(Share(r, e)) \in Nat
    BY ShareIsFinite
  <2>3. t.recent[e] \in Nat /\ s.recent[e] \in Nat /\ t.recent[e] <= s.recent[e]
    BY <1>2, <1>3
  <2> QED
    BY <2>1, <2>2, <2>3, EngineAssumption DEF Within
<1>5. Counted(t)
  BY <1>1, <1>2, <1>3, <1>4 DEF Counted
<1> QED
  BY <1>5 DEF t

LEMMA LowerStorms ==
    ASSUME NEW s, Counted(s), NEW d \in Device, s.storms[d] > 0
    PROVE  Counted([s EXCEPT !.storms[d] = @ - 1])
<1> DEFINE t == [s EXCEPT !.storms[d] = @ - 1]
<1>1. /\ DOMAIN t = Columns /\ t.recent = s.recent
      /\ t.storms = [s.storms EXCEPT ![d] = @ - 1]
  BY DEF Counted, Columns
<1> HIDE DEF t
<1>2. t.storms \in [Device -> Nat]
  BY <1>1 DEF Counted
<1>3. Counted(t)
  BY <1>1, <1>2 DEF Counted
<1> QED
  BY <1>3 DEF t

\* Storm protection checks the count before it creates, once per evaluation: however
\* many rules a device has, its count stays below the limit plus one rule's share.
THEOREM StormOvershootBounded == Spec => []StormOvershootBound
<1>1. CASE StormLimit > 0
  <2>1. Init => StormInv
    <3> SUFFICES ASSUME Init PROVE StormInv
      OBVIOUS
    <3>1. /\ DOMAIN db = Columns
          /\ db.recent = [d \in Device |-> 0] /\ db.storms = [d \in Device |-> 0]
      BY DEF Init, Columns
    <3>2. Counted(db)
      BY <1>1, <3>1 DEF Counted, Within
    <3> QED
      BY <3>2 DEF Init, StormInv, NoPlan
  <2>2. StormInv /\ [Next]_vars => StormInv'
    <3> SUFFICES ASSUME StormInv, [Next]_vars PROVE StormInv'
      OBVIOUS
    <3> USE DEF StormInv, dbVars, cycleVars
    <3>0. ASSUME NEW s, NEW t, Counted(s), DOMAIN t = Columns,
                 t.recent = s.recent, t.storms = s.storms
          PROVE  Counted(t)
      BY <3>0 DEF Counted
    <3>1. CASE Wake
      BY <3>1 DEF Wake
    <3>2. CASE Decide
      <4>1. plan'.created = Created(Head(todo))
        BY <3>2 DEF Decide
      <4>2. UNCHANGED <<db, txn, todo>> /\ todo # <<>>
        BY <3>2 DEF Decide
      <4>3. ASSUME NEW x \in plan'.created
            PROVE  x \in AlertsOf(Head(todo)) /\ x \in Alert
        BY <4>1 DEF Created, Wanted, Idle, Firing, Breaches, AlertsOf
      <4>4. ASSUME NEW x \in plan'.created
            PROVE  txn.recent[DeviceOf[x]] < StormLimit
        <5>1. DeviceOf[x] \in Device
          BY <4>3, SuppressionAssumption
        <5>2. txn.recent[DeviceOf[x]] \in Nat /\ txn.storms[DeviceOf[x]] \in Nat
          BY <5>1 DEF Counted
        <5> QED
          BY <5>2, <4>1, <1>1, EngineAssumption DEF Created, StormFull
      <4>5. pc' = "flush"
        BY <3>2 DEF Decide
      <4> QED
        BY <4>2, <4>3, <4>4, <4>5
    <3>3. CASE StormCountFails
      BY <3>3 DEF StormCountFails
    <3>4. CASE Flush
      <4>1. Counted(txn')
        BY <3>4, <1>1, FlushCounts
      <4> QED
        BY <3>4, <4>1 DEF Flush, NoPlan
    <3>5. CASE RuleFails
      BY <3>5 DEF RuleFails, NoPlan
    <3>6. CASE Commit
      BY <3>6 DEF Commit, AfterCycle
    <3>7. CASE CommitFails
      BY <3>7 DEF CommitFails, AfterCycle
    <3>8. CASE Housekeeping
      <4>1. /\ DOMAIN db' = Columns
            /\ db'.recent = db.recent /\ db'.storms = db.storms
        BY <3>8 DEF Housekeeping, Counted, Columns
      <4>2. Counted(db')
        BY <4>1, <3>0
      <4> QED
        BY <3>8, <4>2 DEF Housekeeping
    <3>9. CASE Purge
      <4>1. /\ DOMAIN db' = Columns
            /\ db'.recent = db.recent /\ db'.storms = db.storms
        BY <3>9 DEF Purge, Counted, Columns
      <4>2. Counted(db')
        BY <4>1, <3>0
      <4> QED
        BY <3>9, <4>2 DEF Purge
    <3>10. CASE Dispatch
      BY <3>10 DEF Dispatch
    <3>11. CASE Restart
      BY <3>11 DEF Restart, NoPlan
    <3>12. CASE ApiRead
      BY <3>12 DEF ApiRead
    <3>13. CASE ApiWrite
      <4>1. /\ DOMAIN db' = Columns /\ DOMAIN txn' = Columns
            /\ db'.recent = db.recent /\ db'.storms = db.storms
            /\ txn'.recent = txn.recent /\ txn'.storms = txn.storms
        BY <3>13 DEF ApiWrite, Counted, Columns
      <4>2. Counted(db') /\ Counted(txn')
        BY <4>1, <3>0
      <4> QED
        BY <3>13, <4>1, <4>2 DEF ApiWrite
    <3>14. CASE Polled \/ Reported
      <4>1. /\ DOMAIN db' = Columns /\ DOMAIN txn' = Columns
            /\ db'.recent = db.recent /\ db'.storms = db.storms
            /\ txn'.recent = txn.recent /\ txn'.storms = txn.storms
        BY <3>14 DEF Polled, Reported, Counted, Columns
      <4>2. Counted(db') /\ Counted(txn')
        BY <4>1, <3>0
      <4> QED
        BY <3>14, <4>1, <4>2 DEF Polled, Reported
    <3>15. CASE ConditionChanges \/ PollsStop \/ MaintenanceChanges \/ RulesChange
      BY <3>15 DEF ConditionChanges, PollsStop, MaintenanceChanges, RulesChange
    <3>16. CASE TimePasses
      <4>1. ASSUME NEW new, Later(new), Counted(new) PROVE StormInv'
        BY <4>1 DEF Later
      <4>2. CASE \E x \in Alert : GateElapses(x) \/ ClearElapses(x)
        BY <4>2 DEF GateElapses, ClearElapses
      <4>3. ASSUME NEW x \in Alert, ReminderDue(x) PROVE StormInv'
        <5> DEFINE new == [db EXCEPT !.rows[x].notified = "due"]
        <5>1. DOMAIN new = Columns /\ new.recent = db.recent /\ new.storms = db.storms
          BY DEF Counted, Columns
        <5>2. Later(new)
          BY <4>3 DEF ReminderDue
        <5> HIDE DEF new
        <5>3. Counted(new)
          BY <5>1, <3>0
        <5> QED
          BY <5>2, <5>3, <4>1
      <4>4. ASSUME NEW x \in Alert, GrowsOld(x) PROVE StormInv'
        <5>0. PICK v \in {"aged", "ancient"} : Later([db EXCEPT !.rows[x].age = v])
          BY <4>4, GrowsOldIs
        <5> DEFINE new == [db EXCEPT !.rows[x].age = v]
        <5>1. DOMAIN new = Columns /\ new.recent = db.recent /\ new.storms = db.storms
          BY DEF Counted, Columns
        <5>2. Later(new)
          BY <5>0
        <5> HIDE DEF new
        <5>3. Counted(new)
          BY <5>1, <3>0
        <5> QED
          BY <5>2, <5>3, <4>1
      <4>5. ASSUME NEW d \in Device, HourPasses(d) PROVE StormInv'
        BY <4>5, <4>1, LowerCount, LowerStorms DEF HourPasses
      <4> QED
        BY <3>16, <4>2, <4>3, <4>4, <4>5 DEF TimePasses
    <3>17. CASE UNCHANGED vars
      BY <3>17 DEF vars
    <3> QED
      BY <3>1, <3>2, <3>3, <3>4, <3>5, <3>6, <3>7, <3>8, <3>9, <3>10, <3>11, <3>12, <3>13,
         <3>14, <3>15, <3>16, <3>17 DEF Next, Engine, Cycle, Environment
  <2>3. StormInv => StormOvershootBound
    BY DEF StormInv, Counted, StormOvershootBound, Within
  <2> QED
    BY <2>1, <2>2, <2>3, PTL DEF Spec
<1>2. CASE ~(StormLimit > 0)
  <2>1. StormOvershootBound
    BY <1>2 DEF StormOvershootBound
  <2> QED
    BY <2>1, PTL
<1> QED
  BY <1>1, <1>2

----------------------------------------------------------------------------
\* Every two members of `q` are members of `s`, in the same order.
Follows(q, s) ==
    /\ \A k \in DOMAIN q : \E i \in DOMAIN s : q[k] = s[i]
    /\ \A k, l \in DOMAIN q : k < l =>
         \E i, j \in DOMAIN s : i < j /\ q[k] = s[i] /\ q[l] = s[j]

\* Only returns a subsequence, of members that are in the set.
LEMMA OnlyIs ==
    ASSUME NEW X, NEW s \in Seq(X), NEW S
    PROVE  Only(s, S) \in Seq(X \cap S) /\ Follows(Only(s, S), s)
<1> DEFINE N == Len(s)
           Q == Seq(X \cap S)
           Take(i, q) == IF s[i] \in S THEN Append(q, s[i]) ELSE q
           h == [i \in 1..N |-> [q \in Q |-> Take(i, q)]]
           Steps(g) == g = [i \in 0..N |-> IF i = 0 THEN <<>> ELSE Take(i, g[i - 1])]
<1>1. N \in Nat /\ \A i \in 1..N : s[i] \in X
  OBVIOUS
<1>2. \A i \in 1..N : \A q \in Q : Take(i, q) \in Q
  BY <1>1
<1>3. h \in [1..N -> [Q -> Q]] /\ <<>> \in Q
  <2> HIDE DEF Take, N
  <2>1. <<>> \in Q
    OBVIOUS
  <2> HIDE DEF Q
  <2> QED BY <1>2, <2>1
<1>4. PICK g \in [0..N -> Q] : g[0] = <<>> /\ \A n \in 1..N : g[n] = h[n][g[n - 1]]
  <2> DEFINE empty == <<>>
  <2> HIDE DEF h, N, Q
  <2>1. N \in Nat /\ empty \in Q /\ h \in [1..N -> [Q -> Q]]
    BY <1>1, <1>3
  <2> HIDE DEF empty
  <2>2. \E g \in [0..N -> Q] : g[0] = empty /\ \A n \in 1..N : g[n] = h[n][g[n - 1]]
    BY <2>1, RecursionExists, SMTT(60)
  <2> QED BY <2>2 DEF empty
<1>5. \A n \in 1..N : n - 1 \in 0..N /\ n \in 0..N /\ n # 0
  BY <1>1
<1>6. \A n \in 1..N : g[n] = Take(n, g[n - 1])
  <2> HIDE DEF Take, Q, N
  <2> QED BY <1>4, <1>5
<1>7. Steps(g)
  <2> HIDE DEF N, Take, Q
  <2>1. \A n \in 0..N : n = 0 \/ n \in 1..N
    BY <1>1
  <2> QED BY <1>4, <1>6, <2>1
<1> DEFINE only == CHOOSE f : Steps(f)
<1>8. Only(s, S) = only[N]
  BY DEF Only
<1>9. Steps(only)
  <2> HIDE DEF Steps
  <2> QED BY <1>7
<1> HIDE DEF only, h
<1>10. only[0] = <<>> /\ \A n \in 1..N : only[n] = Take(n, only[n - 1])
  <2> HIDE DEF Take, N
  <2> QED BY <1>1, <1>5, <1>9
<1> DEFINE Upto(n, q) == /\ \A k \in DOMAIN q : \E i \in 1..n : q[k] = s[i]
                         /\ \A k, l \in DOMAIN q : k < l =>
                              \E i, j \in 1..n : i < j /\ q[k] = s[i] /\ q[l] = s[j]
           T == {n \in 0..N : only[n] \in Q /\ Upto(n, only[n])}
<1>11. 0 \in T
  <2>1. only[0] \in Q /\ DOMAIN only[0] = {} /\ 0 \in 0..N
    BY <1>1, <1>3, <1>10
  <2> HIDE DEF Q, N
  <2> QED BY <2>1
<1>12. ASSUME NEW n \in 1..N, n - 1 \in T PROVE n \in T
  <2> DEFINE q == only[n - 1]
  <2>1. q \in Q /\ Upto(n - 1, q) /\ only[n] = Take(n, q)
    BY <1>10, <1>12
  <2>2. n \in 0..N /\ n \in Nat /\ n - 1 \in Nat /\ \A i \in 1..(n - 1) : i \in 1..n /\ i < n
    BY <1>1
  <2> HIDE DEF q
  <2>3. CASE s[n] \notin S
    <3>1. only[n] = q
      BY <2>1, <2>3
    <3>2. Upto(n, q)
      BY <2>1, <2>2
    <3> HIDE DEF Upto, Q, N
    <3> QED BY <2>1, <2>2, <3>1, <3>2
  <2>4. CASE s[n] \in S
    <3>1. only[n] = Append(q, s[n]) /\ only[n] \in Q
      BY <2>1, <2>4, <1>2
    <3>2. /\ DOMAIN only[n] = 1..(Len(q) + 1) /\ DOMAIN q = 1..Len(q) /\ Len(q) \in Nat
          /\ only[n][Len(q) + 1] = s[n]
          /\ \A k \in 1..Len(q) : only[n][k] = q[k]
      BY <2>1, <3>1
    <3> HIDE DEF T
    <3>3. \A k \in DOMAIN only[n] : k \in DOMAIN q \/ k = Len(q) + 1
      BY <3>2
    <3>4. \A k \in DOMAIN only[n] : \E i \in 1..n : only[n][k] = s[i]
      BY <2>1, <2>2, <3>2, <3>3
    <3>5. ASSUME NEW k \in DOMAIN only[n], NEW l \in DOMAIN only[n], k < l
          PROVE  \E i, j \in 1..n : i < j /\ only[n][k] = s[i] /\ only[n][l] = s[j]
      <4>1. k \in DOMAIN q
        BY <3>2, <3>5
      <4>2. CASE l \in DOMAIN q
        <5>1. PICK i, j \in 1..(n - 1) : i < j /\ q[k] = s[i] /\ q[l] = s[j]
          BY <2>1, <3>5, <4>1, <4>2
        <5> QED BY <2>2, <3>2, <4>1, <4>2, <5>1
      <4>3. CASE l = Len(q) + 1
        BY <2>1, <2>2, <3>2, <4>1, <4>3
      <4> QED BY <3>3, <4>2, <4>3
    <3>6. Upto(n, only[n])
      BY <3>4, <3>5
    <3> QED BY <2>2, <3>1, <3>6 DEF T
  <2> QED BY <2>3, <2>4
<1>13. N \in T
  <2>1. N \in 0..N
    BY <1>1
  <2> HIDE DEF T, N
  <2> QED BY <1>1, <1>11, <1>12, <2>1, IntervalInduction
<1>14. DOMAIN s = 1..N
  OBVIOUS
<1>15. only[N] \in Q /\ Upto(N, only[N])
  BY <1>13
<1> HIDE DEF N, Q
<1>16. Follows(only[N], s)
  BY <1>14, <1>15 DEF Follows
<1> QED BY <1>8, <1>15, <1>16 DEF Q

----------------------------------------------------------------------------
\* The map of a cycle is a behaviour of SuppressionCycle: its network is the
\* topology with the alerts that are committed when the cycle starts.
Present == [i \in DOMAIN db.order |-> {x \in db.order[i] : Active(db.rows[x])}]
Ports   == {x \in InterfaceDowns : Standing(db.rows[x])}
Network == [adj |-> Topology, order |-> NonEmpty(Present), ifs |-> Ports]

Blame == INSTANCE SuppressionCycle_proofs
          WITH net <- Network, result <- smap,
               DownAlerts <- DeviceDowns, LinkAlerts <- InterfaceDowns

LEMMA InstanceIsSound ==
    /\ Blame!CycleAssumption /\ Blame!SuppressionAssumption
    /\ \A S : Blame!IsFiniteSet(S) = IsFiniteSet(S)
<1>1. Blame!CycleAssumption
  BY DEF Blame!CycleAssumption, DeviceDowns, InterfaceDowns
<1>2. \A S : Blame!IsFiniteSet(S) = IsFiniteSet(S)
  BY DEF Blame!IsFiniteSet, IsFiniteSet
<1>3. Blame!SuppressionAssumption
  BY <1>2, SuppressionAssumption DEF Blame!SuppressionAssumption
<1> QED BY <1>1, <1>2, <1>3

\* The instance computes what the engine computes.
LEMMA SameWalk == ASSUME NEW v PROVE Blame!DeviceRules(v) = DeviceRules(v)
BY DEF Blame!DeviceRules, DeviceRules, Blame!EmptyMap, EmptyMap, Blame!Own, Own,
       Blame!WalkFrom, WalkFrom, Blame!Attribute, Attribute, Blame!Casualties, Casualties,
       Blame!Spread, Spread, Blame!Visit, Visit, Blame!Eligible, Eligible, Blame!Time, Time,
       Blame!FirstAlert, FirstAlert, Blame!Rank, Rank, Blame!DownDevices, DownDevices,
       Blame!Unseen, Unseen, Blame!Cardinality, Cardinality, Blame!IsFiniteSet, IsFiniteSet

LEMMA SamePorts ==
    ASSUME NEW base, NEW rows
    PROVE  Blame!InterfaceRules(base, rows) = InterfaceRules(base, rows)
BY DEF Blame!InterfaceRules, InterfaceRules, Blame!ExplainPort, ExplainPort

LEMMA SameOrderings ==
    ASSUME NEW S PROVE Blame!Orderings(S) = Orderings(S)
BY DEF Blame!Orderings, Orderings, Blame!Cardinality, Cardinality

LEMMA SameLinearisations ==
    ASSUME NEW o PROVE Blame!Linearisations(o) = Linearisations(o)
BY DEF Blame!Linearisations, Linearisations, Blame!Cardinality, Cardinality, Blame!Rank, Rank

\* The device_downs by triggered_at: each is in one place only.
Placed(o) ==
    /\ o \in Seq(SUBSET DeviceDowns)
    /\ \A i, j \in DOMAIN o : i # j => o[i] \cap o[j] = {}

LEMMA NonEmptyKeeps ==
    ASSUME NEW o, Placed(o)
    PROVE  /\ Placed(NonEmpty(o))
           /\ \A k \in DOMAIN NonEmpty(o) : \E i \in DOMAIN o : NonEmpty(o)[k] = o[i]
<1> DEFINE S == SUBSET Alert \ {{}}
           X == SUBSET DeviceDowns
           q == Only(o, S)
<1>1. o \in Seq(X)
  BY DEF Placed
<1> HIDE DEF S, X
<1>2. q \in Seq(X \cap S) /\ Follows(q, o)
  BY <1>1, OnlyIs
<1> HIDE DEF q
<1>3. q \in Seq(X) /\ DOMAIN q \subseteq Nat
  BY <1>2
<1>4. ASSUME NEW k \in DOMAIN q, NEW l \in DOMAIN q, k < l PROVE q[k] \cap q[l] = {}
  BY <1>1, <1>2, <1>4 DEF Follows, Placed
<1>5. ASSUME NEW k \in DOMAIN q, NEW l \in DOMAIN q, k # l PROVE q[k] \cap q[l] = {}
  <2>1. k < l \/ l < k
    BY <1>3, <1>5
  <2>2. q[k] \cap q[l] = q[l] \cap q[k]
    OBVIOUS
  <2> QED BY <2>1, <2>2, <1>4
<1>6. \A k \in DOMAIN q : \E i \in DOMAIN o : q[k] = o[i]
  BY <1>2 DEF Follows
<1> QED BY <1>3, <1>5, <1>6 DEF Placed, NonEmpty, X, S, q

\* What a map may say of a device: its outage is explained by another device's
\* or by a port in front of it, its other alerts also by its own outage.
Behind(d) == {y \in InterfaceDowns : Remote[y] = d}
Sound(sm) ==
    /\ sm \in Maps
    /\ \A d \in Device :
         /\ sm.down[d] \in {NoAlert} \cup {y \in DeviceDowns : DeviceOf[y] # d} \cup Behind(d)
         /\ sm.other[d] \in {NoAlert} \cup DeviceDowns \cup Behind(d)

\* The alerts a map names.
Named(sm) == ({sm.down[d] : d \in Device} \cup {sm.other[d] : d \in Device}) \ {NoAlert}

LEMMA WakeMap ==
    ASSUME Placed(db.order), NEW sm \in SuppressionMaps(Topology, NonEmpty(Present), Ports)
    PROVE  Sound(sm) /\ \A y \in Named(sm) : Active(db.rows[y])
<1>1. PICK seq \in Linearisations(NonEmpty(Present)), rows \in Orderings(Ports) :
        sm = InterfaceRules(DeviceRules([adj |-> Topology, order |-> NonEmpty(Present),
                                         seq |-> seq]), rows)
  BY DEF SuppressionMaps
<1> DEFINE v == [adj |-> Topology, order |-> NonEmpty(Present), seq |-> seq]
<1>2. Placed(Present)
  BY DEF Placed, Present
<1>3. /\ Placed(NonEmpty(Present))
      /\ \A k \in DOMAIN NonEmpty(Present) :
           \E i \in DOMAIN Present : NonEmpty(Present)[k] = Present[i]
  BY <1>2, NonEmptyKeeps
<1> DEFINE Listed == Blame!All(NonEmpty(Present))
<1>4. Blame!Ordered(NonEmpty(Present))
  BY <1>3 DEF Blame!Ordered, Placed
<1>5. Blame!IsView(v)
  BY <1>4, EngineAssumption, SameLinearisations DEF Blame!IsView, Network
<1>6. Ports \in SUBSET InterfaceDowns /\ rows \in Blame!Orderings(Ports)
  BY SameOrderings DEF Ports
<1>7. sm = Blame!InterfaceRules(Blame!DeviceRules(v), rows)
  BY <1>1, SameWalk, SamePorts
<1> HIDE DEF v
<1>8. /\ sm \in Blame!Maps
      /\ \A d \in Device :
           /\ \/ sm.down[d] = NoAlert
              \/ sm.down[d] \in Listed /\ DeviceOf[sm.down[d]] # d
              \/ sm.down[d] \in Blame!Behind(d, Ports)
           /\ sm.other[d] \in Listed \cup {NoAlert} \cup Blame!Behind(d, Ports)
  BY <1>5, <1>6, <1>7, InstanceIsSound, SuppressionAssumption, Blame!MapIsSound DEF Network
<1>9. sm \in Maps
  BY <1>8 DEF Blame!Maps, Maps, Blame!Map, Map
<1>10. \A d \in Device : Blame!Behind(d, Ports) \subseteq Behind(d)
  BY DEF Blame!Behind, Behind, Ports
<1>11. \A y \in Listed : y \in DeviceDowns /\ Active(db.rows[y])
  <2>1. \A i \in DOMAIN Present : \A y \in Present[i] : Active(db.rows[y])
    BY DEF Present
  <2>2. \A k \in DOMAIN NonEmpty(Present) : NonEmpty(Present)[k] \subseteq DeviceDowns
    BY <1>3 DEF Placed
  <2> QED BY <1>3, <2>1, <2>2 DEF Blame!All
<1>12. \A d \in Device : \A y \in Blame!Behind(d, Ports) : Active(db.rows[y])
  BY DEF Blame!Behind, Ports, Standing, Active
<1> HIDE DEF Listed
<1>13. \A y \in Named(sm) : Active(db.rows[y])
  BY <1>8, <1>11, <1>12 DEF Named
<1> QED BY <1>8, <1>9, <1>10, <1>11, <1>13 DEF Sound

----------------------------------------------------------------------------
\* The parts of a decision, by the names Decide gives them.
Fired(r) == AfterFiring(r, OspfSuppressed(r))
Told(r)  == AfterReminders(r, Fired(r))
Calm(r)  == {x \in AlertsOf(r) \ Breaches(r) : AutoResolvable(Told(r)[x])}
Done(r)  == {x \in Calm(r) : Config[r].stable => clearSince[x] = "elapsed"}
Final(r) == [x \in Alert |-> IF x \in Done(r) THEN [Told(r)[x] EXCEPT !.st = "resolved"]
                             ELSE Told(r)[x]]
Fires(r) ==
    {x \in Created(r) : ~Hidden(x, OspfSuppressed(r))}
    \cup {x \in Firing(r) : txn.rows[x].st = "suppressed" /\ Fired(r)[x].st = "open"}
    \cup {x \in Alert : Told(r)[x] # Fired(r)[x]}
Quiet(r)  == IF Config[r].onResolve THEN {} ELSE Done(r)
Raised(r) == {d \in Device : txn.storm[d] = NoRule
                               /\ \E x \in Wanted(r) \ Created(r) : DeviceOf[x] = d}

LEMMA DecideIs ==
    ASSUME Decide
    PROVE  \E r \in {Head(todo)} :
             /\ pc = "rule" /\ todo # <<>> /\ pc' = "flush"
             /\ \E ended \in StormsEnded(r, Raised(r)) :
                  plan' = [old |-> txn.rows, new |-> Unsuppress(Final(r), Done(r)),
                           created |-> Created(r), raised |-> Raised(r), ended |-> ended,
                           unreachable |-> {DeviceOf[x] : x \in Firing(r) \cap DeviceDowns},
                           notes |-> (Fires(r) \X {"fire"})
                                       \cup ((Done(r) \ Quiet(r)) \X {"resolve"})]
             /\ breachSince' = [x \in Alert |->
                  IF x \in Breaches(r) THEN BreachTimer(Config[r], x)
                  ELSE IF x \in Done(r) THEN "unset" ELSE breachSince[x]]
             /\ clearSince' = [x \in Alert |->
                  IF x \in Breaches(r) \cup Done(r) THEN "unset"
                  ELSE IF x \in Calm(r) /\ clearSince[x] = "unset" THEN "running"
                  ELSE clearSince[x]]
             /\ suppressUntil' = (StillHeld(Breaches(r)) \cup ByHand(r)) \ Done(r)
             /\ lastClear' = Recorded(Cleared(r) \cup Done(r))
             /\ seen' = (seen \ AlertsOf(r)) \cup Breaches(r)
             /\ clearSeen' = SeenClear(r)
             /\ UNCHANGED <<dbVars, todo, smap, pending, cycles, envVars, request, faults,
                            announced>>
BY DEF Decide, Fired, Told, Calm, Done, Final, Fires, Quiet, Raised

----------------------------------------------------------------------------
\* Rows stay rows.
Rows == [Alert -> Row]

LEMMA NoRowTyped == NoRow \in Row
BY DEF NoRow, Row, Status

LEMMA AlertsAreTyped ==
    ASSUME NEW x \in Alert
    PROVE  DeviceOf[x] \in Device /\ RuleOf[x] \in Rule /\ Config[RuleOf[x]] \in RuleConfig
BY SuppressionAssumption, EngineAssumption

LEMMA ParentTyped ==
    ASSUME smap \in Maps, NEW x \in Alert PROVE Parent(x) \in Alert \cup {NoAlert}
BY AlertsAreTyped DEF Parent, ParentFor, Maps, Map

LEMMA NewRowTyped ==
    ASSUME smap \in Maps, NEW x \in Alert, NEW hidden PROVE NewRow(x, hidden) \in Row
<1>1. Parent(x) \in Alert \cup {NoAlert, Gone}
  BY ParentTyped
<1> QED BY <1>1, NoRowTyped DEF NewRow, Row, Status

LEMMA RevisitTyped ==
    ASSUME smap \in Maps, NEW x \in Alert, NEW row \in Row, NEW ospf
    PROVE  Revisit(row, x, ospf) \in Row
<1>1. Parent(x) \in Alert \cup {NoAlert, Gone}
  BY ParentTyped
<1> QED BY <1>1 DEF Revisit, Row, Status

LEMMA EscalateTyped ==
    ASSUME NEW c, NEW row \in Row PROVE Escalate(c, row) \in Row
BY DEF Escalate, Row

LEMMA RemindTyped ==
    ASSUME NEW c, NEW row \in Row PROVE Remind(c, row) \in Row
BY DEF Remind, Row

LEMMA FinalTyped ==
    ASSUME smap \in Maps, txn.rows \in Rows, NEW r
    PROVE  Fired(r) \in Rows /\ Told(r) \in Rows /\ Final(r) \in Rows
<1>1. Fired(r) \in Rows
  <2>1. ASSUME NEW x \in Alert PROVE Fired(r)[x] \in Row
    BY NewRowTyped, RevisitTyped DEF Fired, AfterFiring, Rows
  <2> QED BY <2>1 DEF Fired, AfterFiring, Rows
<1>2. Told(r) \in Rows
  <2>1. ASSUME NEW x \in Alert PROVE Told(r)[x] \in Row
    <3> DEFINE row == IF x \in AlertsOf(r) THEN Escalate(Config[r], Fired(r)[x]) ELSE Fired(r)[x]
    <3>1. row \in Row
      BY <1>1, EscalateTyped DEF Rows
    <3>2. Told(r)[x] = IF x \in Breaches(r) THEN Remind(Config[r], row) ELSE row
      BY DEF Told, AfterReminders
    <3> HIDE DEF row
    <3> QED BY <3>1, <3>2, RemindTyped
  <2> QED BY <2>1 DEF Told, AfterReminders, Rows
<1>3. ASSUME NEW x \in Alert PROVE Final(r)[x] \in Row
  <2>1. Told(r)[x] \in Row
    BY <1>2 DEF Rows
  <2>2. [Told(r)[x] EXCEPT !.st = "resolved"] \in Row
    BY <2>1 DEF Row, Status
  <2> QED BY <2>1, <2>2 DEF Final
<1> QED BY <1>1, <1>2, <1>3 DEF Final, Rows

LEMMA UnsuppressTyped ==
    ASSUME NEW rows \in Rows, NEW resolved PROVE Unsuppress(rows, resolved) \in Rows
<1>1. ASSUME NEW x \in Alert
      PROVE  [rows[x] EXCEPT !.st = "open", !.parent = NoAlert, !.notified = "null"] \in Row
  BY DEF Rows, Row, Status
<1> QED BY <1>1 DEF Unsuppress, Rows

LEMMA WriteTyped ==
    ASSUME plan.old \in Rows, plan.new \in Rows, txn.rows \in Rows, NEW x \in Alert
    PROVE  Write(x) \in Row
<1>1. plan.new[x] \in Row /\ plan.old[x] \in Row /\ txn.rows[x] \in Row
  BY DEF Rows
<1>2. CASE x \in plan.created
  BY <1>1, <1>2 DEF Write
<1>3. CASE x \notin plan.created
  <2> DEFINE n == plan.new[x]
             o == plan.old[x]
             t == txn.rows[x]
             Pick(col) == IF n[col] # o[col] THEN n[col] ELSE t[col]
  <2>1. DOMAIN NoRow = {"st", "parent", "notified", "manual", "escalated", "age"}
    BY DEF NoRow
  <2>2. Write(x) = [col \in DOMAIN NoRow |-> Pick(col)]
    BY <1>3 DEF Write
  <2>3. n \in Row /\ t \in Row
    BY <1>1
  <2> HIDE DEF n, o, t
  <2>4. Write(x) = [st |-> Pick("st"), parent |-> Pick("parent"), notified |-> Pick("notified"),
                    manual |-> Pick("manual"), escalated |-> Pick("escalated"),
                    age |-> Pick("age")]
    BY <2>1, <2>2
  <2>5. /\ Pick("st") \in Status /\ Pick("parent") \in Alert \cup {NoAlert, Gone}
        /\ Pick("notified") \in {"null", "recent", "due"}
    BY <2>3 DEF Row
  <2>6. Pick("manual") \in BOOLEAN
    BY <2>3 DEF Row
  <2>7. Pick("escalated") \in BOOLEAN
    BY <2>3 DEF Row
  <2>8. Pick("age") \in {"young", "aged", "ancient"}
    BY <2>3 DEF Row
  <2> HIDE DEF Pick
  <2> QED BY <2>4, <2>5, <2>6, <2>7, <2>8 DEF Row
<1> QED BY <1>2, <1>3

LEMMA RelinkTyped ==
    ASSUME NEW rows \in Rows, NEW replaced PROVE Relink(rows, replaced) \in Rows
<1>1. ASSUME NEW x \in Alert PROVE [rows[x] EXCEPT !.parent = Gone] \in Row
  BY DEF Rows, Row
<1> QED BY <1>1 DEF Relink, Rows

LEMMA UnlinkTyped ==
    ASSUME NEW rows \in Rows, NEW purged PROVE Unlink(rows, purged) \in Rows
<1>1. ASSUME NEW x \in Alert PROVE [rows[x] EXCEPT !.parent = NoAlert] \in Row
  BY DEF Rows, Row
<1> QED BY <1>1, NoRowTyped DEF Unlink, Rows

LEMMA ReorderKeeps ==
    ASSUME NEW o, Placed(o), NEW rows, NEW created PROVE Placed(Reorder(o, rows, created))
<1> DEFINE rest == [i \in DOMAIN o |-> {x \in o[i] \ created : rows[x].st # "none"}]
           last == created \cap DeviceDowns
           q == Append(rest, last)
<1>1. /\ o \in Seq(SUBSET DeviceDowns) /\ DOMAIN o = 1..Len(o) /\ Len(o) \in Nat
      /\ \A i, j \in DOMAIN o : i # j => o[i] \cap o[j] = {}
  BY DEF Placed
<1>2. /\ rest \in Seq(SUBSET DeviceDowns) /\ Len(rest) = Len(o)
      /\ \A i, j \in 1..Len(o) : i # j => rest[i] \cap rest[j] = {}
      /\ \A i \in 1..Len(o) : rest[i] \cap last = {}
  <2>1. \A i \in DOMAIN o : rest[i] \subseteq o[i] /\ rest[i] \cap created = {}
    OBVIOUS
  <2>2. rest \in [1..Len(o) -> SUBSET DeviceDowns]
    BY <1>1
  <2> QED BY <1>1, <2>1, <2>2
<1>3. last \in SUBSET DeviceDowns
  OBVIOUS
<1> HIDE DEF rest, last
<1>4. /\ q \in Seq(SUBSET DeviceDowns) /\ DOMAIN q = 1..(Len(o) + 1)
      /\ q[Len(o) + 1] = last /\ \A i \in 1..Len(o) : q[i] = rest[i]
  BY <1>1, <1>2, <1>3
<1> HIDE DEF q
<1>5. ASSUME NEW i \in DOMAIN q, NEW j \in DOMAIN q, i # j PROVE q[i] \cap q[j] = {}
  <2>1. \A k \in DOMAIN q : k \in 1..Len(o) \/ k = Len(o) + 1
    BY <1>1, <1>4
  <2>2. CASE i = Len(o) + 1
    BY <1>2, <1>4, <1>5, <2>1, <2>2
  <2>3. CASE j = Len(o) + 1
    BY <1>2, <1>4, <1>5, <2>1, <2>3
  <2> QED BY <1>2, <1>4, <1>5, <2>1, <2>2, <2>3
<1>6. Placed(q)
  BY <1>4, <1>5 DEF Placed
<1>7. Reorder(o, rows, created) = NonEmpty(q)
  BY DEF Reorder, q, rest, last
<1> QED BY <1>6, <1>7, NonEmptyKeeps

\* The engine's whole state has its types, a device_down has one place in the
\* order of failures, and the map of the cycle is a sound one.
EngineInv ==
    /\ TypeOK
    /\ Placed(db.order) /\ Placed(txn.order)
    /\ Sound(smap)

LEMMA DoneTyped ==
    ASSUME NEW r
    PROVE  /\ Done(r) \subseteq AlertsOf(r) \ Breaches(r) /\ Created(r) \subseteq Breaches(r)
           /\ Breaches(r) \subseteq AlertsOf(r) /\ AlertsOf(r) \subseteq Alert
           /\ Firing(r) \subseteq Breaches(r) /\ Wanted(r) \subseteq Firing(r)
           /\ ByHand(r) \subseteq Firing(r)
BY DEF Done, Calm, Created, Wanted, Idle, ByHand, Firing, Breaches, AlertsOf

LEMMA FiresTyped == ASSUME NEW r PROVE Fires(r) \subseteq Alert
BY DoneTyped DEF Fires

LEMMA DecideTypes ==
    ASSUME EngineInv, Decide PROVE EngineInv'
<1>1. PICK r : /\ r = Head(todo) /\ todo # <<>> /\ pc' = "flush"
               /\ \E ended \in StormsEnded(r, Raised(r)) :
                    plan' = [old |-> txn.rows, new |-> Unsuppress(Final(r), Done(r)),
                             created |-> Created(r), raised |-> Raised(r), ended |-> ended,
                             unreachable |-> {DeviceOf[x] : x \in Firing(r) \cap DeviceDowns},
                             notes |-> (Fires(r) \X {"fire"})
                                         \cup ((Done(r) \ Quiet(r)) \X {"resolve"})]
               /\ breachSince' = [x \in Alert |->
                    IF x \in Breaches(r) THEN BreachTimer(Config[r], x)
                    ELSE IF x \in Done(r) THEN "unset" ELSE breachSince[x]]
               /\ clearSince' = [x \in Alert |->
                    IF x \in Breaches(r) \cup Done(r) THEN "unset"
                    ELSE IF x \in Calm(r) /\ clearSince[x] = "unset" THEN "running"
                    ELSE clearSince[x]]
               /\ suppressUntil' = (StillHeld(Breaches(r)) \cup ByHand(r)) \ Done(r)
               /\ lastClear' = Recorded(Cleared(r) \cup Done(r))
               /\ seen' = (seen \ AlertsOf(r)) \cup Breaches(r)
               /\ clearSeen' = SeenClear(r)
               /\ UNCHANGED <<dbVars, todo, smap, pending, cycles, envVars, request, faults,
                              announced>>
  BY DecideIs
<1>2. PICK ended \in StormsEnded(r, Raised(r)) :
        plan' = [old |-> txn.rows, new |-> Unsuppress(Final(r), Done(r)),
                 created |-> Created(r), raised |-> Raised(r), ended |-> ended,
                 unreachable |-> {DeviceOf[x] : x \in Firing(r) \cap DeviceDowns},
                 notes |-> (Fires(r) \X {"fire"}) \cup ((Done(r) \ Quiet(r)) \X {"resolve"})]
  BY <1>1
<1>3. plan' \in Plans
  <2>1. txn.rows \in Rows /\ smap \in Maps
    BY DEF EngineInv, TypeOK, Store, Rows
  <2>2. Unsuppress(Final(r), Done(r)) \in Rows
    BY <2>1, FinalTyped, UnsuppressTyped
  <2>3. Raised(r) \in SUBSET Device /\ ended \in SUBSET Device
    BY DEF Raised, StormsEnded
  <2>4. {DeviceOf[x] : x \in Firing(r) \cap DeviceDowns} \in SUBSET Device
    BY AlertsAreTyped DEF DeviceDowns
  <2>5. (Fires(r) \X {"fire"}) \cup ((Done(r) \ Quiet(r)) \X {"resolve"}) \in SUBSET Note
    BY FiresTyped, DoneTyped DEF Note
  <2>6. Created(r) \in SUBSET Alert
    BY DoneTyped
  <2> QED BY <1>2, <2>1, <2>2, <2>3, <2>4, <2>5, <2>6 DEF Plans, Rows
<1>4. breachSince' \in [Alert -> Timer] /\ clearSince' \in [Alert -> Timer]
  <2>1. breachSince \in [Alert -> Timer] /\ clearSince \in [Alert -> Timer]
    BY DEF EngineInv, TypeOK
  <2> QED BY <1>1, <2>1 DEF BreachTimer, Timer
<1>5. /\ suppressUntil' \subseteq Alert /\ lastClear' \subseteq Alert
      /\ seen' \subseteq Alert /\ clearSeen' \subseteq Alert
  BY <1>1, DoneTyped DEF EngineInv, TypeOK, StillHeld, Cleared, SeenClear, Recorded
<1> QED BY <1>1, <1>3, <1>4, <1>5 DEF EngineInv, TypeOK, dbVars, envVars, Sound

LEMMA NoPlanTyped == NoPlan \in Plans
<1>1. [x \in Alert |-> NoRow] \in [Alert -> Row]
  BY NoRowTyped
<1> QED BY <1>1 DEF NoPlan, Plans

\* A count that was raised stays within its bound.
LEMMA BumpTyped ==
    ASSUME NEW n \in 0..MaxRecent, NEW k \in Nat PROVE Bump(n, k) \in 0..MaxRecent
BY EngineAssumption DEF Bump

LEMMA NewAlertsCounted ==
    ASSUME NEW S, S \subseteq Alert PROVE Cardinality(S) \in Nat
BY SuppressionAssumption, FS_Subset, FS_CardinalityType

LEMMA FlushTypes ==
    ASSUME EngineInv, Flush PROVE EngineInv'
<1> DEFINE rows == Relink([x \in Alert |-> Write(x)], plan.created)
           new(d) == {x \in plan.created : DeviceOf[x] = d}
           down == {DeviceOf[x] : x \in {y \in DeviceDowns :
                      plan.old[y].st # "resolved" /\ plan.new[y].st = "resolved"}}
           recent == [d \in Device |-> Bump(txn.recent[d], Cardinality(new(d)))]
           storms == [d \in Device |-> Bump(txn.storms[d], IF d \in plan.raised THEN 1 ELSE 0)]
           storm == [d \in Device |-> IF d \in plan.ended THEN NoRule
                                      ELSE IF d \in plan.raised THEN Head(todo) ELSE txn.storm[d]]
           status == StatusAfter(txn.status, plan.unreachable, down)
<1>1. /\ txn' = [txn EXCEPT !.rows = rows, !.order = Reorder(txn.order, rows, plan.created),
                            !.recent = recent, !.storms = storms, !.storm = storm,
                            !.status = status]
      /\ pending' = pending \cup plan.notes /\ plan' = NoPlan
      /\ todo' = Tail(todo) /\ pc = "flush" /\ pc' = "rule"
      /\ announced' = announced \ plan.created
      /\ UNCHANGED <<db, smap, cycles, memory, envVars, request, faults, seen, clearSeen>>
  BY DEF Flush
<1>2. /\ plan \in Plans /\ txn \in Store /\ todo \in Seq(Rule) /\ todo # <<>>
      /\ pending \subseteq Note /\ announced \subseteq Alert
  BY <1>1 DEF EngineInv, TypeOK
<1>3. rows \in Rows
  <2>1. plan.old \in Rows /\ plan.new \in Rows /\ txn.rows \in Rows
    BY <1>2 DEF Plans, Store, Rows
  <2>2. [x \in Alert |-> Write(x)] \in Rows
    BY <2>1, WriteTyped DEF Rows
  <2> QED BY <2>2, RelinkTyped
<1>4. Placed(Reorder(txn.order, rows, plan.created))
  BY ReorderKeeps DEF EngineInv
<1>5. recent \in [Device -> 0..MaxRecent] /\ storms \in [Device -> 0..MaxRecent]
  <2>1. ASSUME NEW d \in Device
        PROVE  /\ Bump(txn.recent[d], Cardinality(new(d))) \in 0..MaxRecent
               /\ Bump(txn.storms[d], IF d \in plan.raised THEN 1 ELSE 0) \in 0..MaxRecent
    <3>1. txn.recent[d] \in 0..MaxRecent /\ txn.storms[d] \in 0..MaxRecent
      BY <1>2 DEF Store
    <3>2. new(d) \subseteq Alert
      BY <1>2 DEF Plans
    <3>3. Cardinality(new(d)) \in Nat
      BY <3>2, NewAlertsCounted
    <3>4. (IF d \in plan.raised THEN 1 ELSE 0) \in Nat
      OBVIOUS
    <3> QED BY <3>1, <3>3, <3>4, BumpTyped
  <2> QED BY <2>1
<1>6. storm \in [Device -> Rule \cup {NoRule}]
  BY <1>2 DEF Store
<1>7. status \in [Device -> {"up", "unreachable", "reported", "unknown"}]
  BY <1>2 DEF Store, StatusAfter
<1>8. pending' \subseteq Note /\ plan' \in Plans /\ todo' \in Seq(Rule) /\ announced' \subseteq Alert
  BY <1>1, <1>2, NoPlanTyped DEF Plans
<1>9. Reorder(txn.order, rows, plan.created) \in Seq(SUBSET DeviceDowns)
  BY <1>4 DEF Placed
<1> HIDE DEF rows, recent, storms, storm, status
<1>10. txn' \in Store /\ txn'.order = Reorder(txn.order, rows, plan.created)
  BY <1>1, <1>2, <1>3, <1>5, <1>6, <1>7, <1>9 DEF Store, Rows
<1>11. TypeOK'
  BY <1>1, <1>8, <1>10 DEF EngineInv, TypeOK, memory, envVars
<1> QED BY <1>1, <1>4, <1>10, <1>11 DEF EngineInv, Sound

LEMMA HousekeepingTypes ==
    ASSUME EngineInv, Housekeeping \/ Purge PROVE EngineInv'
<1>1. db \in Store /\ Placed(db.order)
  BY DEF EngineInv, TypeOK
<1>2. db.rows \in Rows
  BY <1>1 DEF Store, Rows
<1>3. CASE Housekeeping
  <2>1. PICK closed : db' = [db EXCEPT
               !.rows  = [x \in Alert |->
                            IF Orphaned([y \in Alert |-> IF y \in closed
                                THEN [db.rows[y] EXCEPT !.st = "resolved"] ELSE db.rows[y]], x)
                            THEN [[y \in Alert |-> IF y \in closed
                                THEN [db.rows[y] EXCEPT !.st = "resolved"] ELSE db.rows[y]][x]
                                    EXCEPT !.st = "open", !.parent = NoAlert, !.notified = "null"]
                            ELSE [y \in Alert |-> IF y \in closed
                                THEN [db.rows[y] EXCEPT !.st = "resolved"] ELSE db.rows[y]][x]],
               !.storm = [d \in Device |-> IF db.recent[d] < StormLimit THEN NoRule
                                           ELSE db.storm[d]]]
    BY <1>3 DEF Housekeeping
  <2> DEFINE shut == [y \in Alert |-> IF y \in closed
                         THEN [db.rows[y] EXCEPT !.st = "resolved"] ELSE db.rows[y]]
             rows == [x \in Alert |-> IF Orphaned(shut, x)
                         THEN [shut[x] EXCEPT !.st = "open", !.parent = NoAlert,
                                              !.notified = "null"]
                         ELSE shut[x]]
             storm == [d \in Device |-> IF db.recent[d] < StormLimit THEN NoRule
                                        ELSE db.storm[d]]
  <2>2. db' = [db EXCEPT !.rows = rows, !.storm = storm]
    BY <2>1
  <2>3. shut \in Rows
    <3>1. ASSUME NEW x \in Alert PROVE [db.rows[x] EXCEPT !.st = "resolved"] \in Row
      BY <1>2 DEF Rows, Row, Status
    <3> QED BY <1>2, <3>1 DEF Rows
  <2> HIDE DEF shut
  <2>4. rows \in Rows
    <3>1. ASSUME NEW x \in Alert
          PROVE  [shut[x] EXCEPT !.st = "open", !.parent = NoAlert, !.notified = "null"] \in Row
      BY <2>3 DEF Rows, Row, Status
    <3> QED BY <2>3, <3>1 DEF Rows
  <2>5. storm \in [Device -> Rule \cup {NoRule}]
    BY <1>1 DEF Store
  <2> HIDE DEF rows, storm
  <2>6. db' \in Store /\ db'.order = db.order
    BY <1>1, <2>2, <2>4, <2>5 DEF Store, Rows
  <2> QED BY <1>1, <1>3, <2>6 DEF Housekeeping, EngineInv, TypeOK, cycleVars, memory, envVars,
                history, Sound
<1>4. CASE Purge
  <2>1. PICK purged : db' = [db EXCEPT !.rows = Unlink(db.rows, purged),
                                       !.order = Reorder(db.order, Unlink(db.rows, purged), {})]
    BY <1>4 DEF Purge
  <2>2. Unlink(db.rows, purged) \in Rows
    BY <1>2, UnlinkTyped
  <2>3. Placed(Reorder(db.order, Unlink(db.rows, purged), {}))
    BY <1>1, ReorderKeeps
  <2>4. db' \in Store /\ Placed(db'.order)
    BY <1>1, <2>1, <2>2, <2>3 DEF Store, Rows, Placed
  <2>5. /\ txn' = db' /\ pc' = "dispatch"
        /\ UNCHANGED <<cycleVars, pending, cycles, envVars, request, faults, history>>
    BY <1>4 DEF Purge
  <2>6. PICK pruned :
          /\ breachSince' = [x \in Alert |-> IF x \in pruned THEN "unset" ELSE breachSince[x]]
          /\ clearSince'  = [x \in Alert |-> IF x \in pruned THEN "unset" ELSE clearSince[x]]
          /\ suppressUntil' = suppressUntil \ pruned
          /\ lastClear' = lastClear \ pruned
    BY <1>4 DEF Purge
  <2>7. /\ breachSince' \in [Alert -> Timer] /\ clearSince' \in [Alert -> Timer]
        /\ suppressUntil' \subseteq Alert /\ lastClear' \subseteq Alert
    BY <2>6 DEF EngineInv, TypeOK, Timer
  <2> QED BY <2>4, <2>5, <2>7 DEF EngineInv, TypeOK, cycleVars, envVars, history, Sound
<1> QED BY <1>3, <1>4

\* The map of a cycle whose computation failed names nothing.
LEMMA EmptySound == Sound(NoMap) /\ Named(NoMap) = {}
BY DEF Sound, Maps, Map, EmptyMap, NoMap, Named

LEMMA WakeTypes ==
    ASSUME EngineInv, Wake PROVE EngineInv'
<1>1. Placed(db.order)
  BY DEF EngineInv
<1>2. smap' \in SuppressionMaps(Topology, NonEmpty(Present), Ports) \/ smap' = NoMap
  BY DEF Wake, Present, Ports
<1>3. \A sm \in SuppressionMaps(Topology, NonEmpty(Present), Ports) : Sound(sm)
  BY <1>1, WakeMap
<1>4. Sound(smap')
  BY <1>2, <1>3, EmptySound
<1>5. todo' \in Seq(Rule)
  <2>1. Only(RuleOrder, enabled) \in Seq(Rule \cap enabled)
    BY EngineAssumption, OnlyIs
  <2>2. Only(RuleOrder, enabled) \in Seq(Rule) /\ <<>> \in Seq(Rule)
    BY <2>1
  <2>3. todo' \in {Only(RuleOrder, enabled), <<>>}
    BY DEF Wake
  <2> QED BY <2>2, <2>3
<1>6. faults' \in 0..MaxFaults
  BY EngineAssumption DEF Wake, EngineInv, TypeOK
<1> QED BY <1>4, <1>5, <1>6 DEF Wake, EngineInv, TypeOK, Sound, dbVars, memory, envVars, history

LEMMA CountFailsTypes ==
    ASSUME EngineInv, StormCountFails PROVE EngineInv'
<1> DEFINE r == Head(todo)
<1>1. /\ breachSince' = [x \in Alert |-> IF x \in Breaches(r) THEN BreachTimer(Config[r], x)
                                          ELSE breachSince[x]]
      /\ clearSince' = [x \in Alert |-> IF x \in Breaches(r) THEN "unset" ELSE clearSince[x]]
      /\ \E begun \in SUBSET ByHand(r) : suppressUntil' = StillHeld(Breaches(r)) \cup begun
      /\ lastClear' = Recorded(Cleared(r))
      /\ seen' = (seen \ AlertsOf(r)) \cup Breaches(r)
      /\ clearSeen' = SeenClear(r)
      /\ pc = "rule" /\ todo # <<>> /\ todo' = Tail(todo)
      /\ UNCHANGED <<dbVars, pc, smap, plan, pending, cycles, envVars, request, faults,
                     announced>>
  BY DEF StormCountFails
<1>2. breachSince' \in [Alert -> Timer] /\ clearSince' \in [Alert -> Timer]
  BY <1>1 DEF EngineInv, TypeOK, BreachTimer, Timer
<1>3. /\ suppressUntil' \subseteq Alert /\ lastClear' \subseteq Alert
      /\ seen' \subseteq Alert /\ clearSeen' \subseteq Alert
  BY <1>1, DoneTyped DEF EngineInv, TypeOK, StillHeld, Cleared, SeenClear, Recorded
<1> HIDE DEF r
<1> QED BY <1>1, <1>2, <1>3 DEF EngineInv, TypeOK, dbVars, envVars, Sound

LEMMA ColumnWritten ==
    ASSUME NEW row \in Row
    PROVE  /\ [row EXCEPT !.notified = "due"] \in Row
           /\ \A v \in {"aged", "ancient"} : [row EXCEPT !.age = v] \in Row
           /\ [row EXCEPT !.st = "acknowledged"] \in Row
           /\ [row EXCEPT !.st = "resolved", !.manual = TRUE] \in Row
BY DEF Row, Status

\* A request writes one row, a poll or a report one status.
LEMMA RowWritten ==
    ASSUME NEW s \in Store, NEW x \in Alert, NEW row \in Row
    PROVE  [s EXCEPT !.rows[x] = row] \in Store
BY DEF Store

LEMMA StatusWritten ==
    ASSUME NEW s \in Store, NEW d, NEW v \in {"up", "reported"}
    PROVE  [s EXCEPT !.status[d] = v] \in Store
BY DEF Store

LEMMA RequestTypes ==
    ASSUME EngineInv, ApiRead \/ ApiWrite PROVE EngineInv'
<1>1. CASE ApiRead
  <2>1. PICK x \in Alert : \E k \in Events \cap {"acknowledge", "resolve"} :
          /\ request' = [kind |-> k, alert |-> x]
          /\ lastClear' = IF k = "resolve" THEN lastClear \ {x} ELSE lastClear
          /\ clearSeen' = IF k = "resolve" THEN clearSeen \ {x} ELSE clearSeen
    BY <1>1 DEF ApiRead
  <2>2. request' \in Requests /\ request'.alert \in Alert /\ request'.kind # "none"
    BY <2>1 DEF Requests
  <2>3. lastClear' \subseteq Alert /\ clearSeen' \subseteq Alert
    BY <2>1 DEF EngineInv, TypeOK
  <2> QED BY <1>1, <2>2, <2>3 DEF ApiRead, EngineInv, TypeOK, dbVars, cycleVars, envVars, Sound
<1>2. CASE ApiWrite
  <2> DEFINE x == request.alert
             assign(row) == IF request.kind = "acknowledge"
                            THEN [row EXCEPT !.st = "acknowledged"]
                            ELSE [row EXCEPT !.st = "resolved", !.manual = TRUE]
  <2>1. /\ db' \in {db, [db EXCEPT !.rows[x] = assign(db.rows[x])]}
        /\ txn' \in {txn, [txn EXCEPT !.rows[x] = assign(txn.rows[x])]}
    BY <1>2 DEF ApiWrite
  <2>2. x \in Alert /\ db \in Store /\ txn \in Store
    BY <1>2 DEF ApiWrite, EngineInv, TypeOK
  <2>3. assign(db.rows[x]) \in Row /\ assign(txn.rows[x]) \in Row
    <3>1. db.rows[x] \in Row /\ txn.rows[x] \in Row
      BY <2>2 DEF Store
    <3> QED BY <3>1, ColumnWritten
  <2> HIDE DEF x, assign
  <2>4. /\ [db EXCEPT !.rows[x] = assign(db.rows[x])] \in Store
        /\ [txn EXCEPT !.rows[x] = assign(txn.rows[x])] \in Store
    BY <2>2, <2>3, RowWritten
  <2>5. db' \in Store /\ txn' \in Store /\ db'.order = db.order /\ txn'.order = txn.order
    BY <2>1, <2>2, <2>4 DEF Store
  <2>6. request' \in Requests
    BY <1>2 DEF ApiWrite, Requests, NoRequest
  <2> QED BY <1>2, <2>5, <2>6 DEF ApiWrite, EngineInv, TypeOK, cycleVars, memory, envVars,
                history, Sound
<1> QED BY <1>1, <1>2

LEMMA EnvironmentTypes ==
    ASSUME EngineInv, Environment PROVE EngineInv'
<1> USE DEF dbVars, cycleVars, memory, envVars, history
<1>1. CASE ConditionChanges \/ PollsStop \/ MaintenanceChanges \/ RulesChange
  <2>1. /\ breach' \subseteq Alert /\ stale' \subseteq Device
        /\ maint' \subseteq Device /\ enabled' \subseteq Rule
    <3>1. \A x \in DeviceDowns : DeviceOf[x] \in Device
      BY AlertsAreTyped DEF DeviceDowns
    <3>2. CASE ConditionChanges
      BY <3>2 DEF ConditionChanges, Toggle, EngineInv, TypeOK
    <3>3. CASE PollsStop
      BY <3>1, <3>3 DEF PollsStop, EngineInv, TypeOK
    <3>4. CASE MaintenanceChanges
      BY <3>4 DEF MaintenanceChanges, Toggle, EngineInv, TypeOK
    <3>5. CASE RulesChange
      BY <3>5, EngineAssumption DEF RulesChange, Toggle, EngineInv, TypeOK
    <3> QED BY <1>1, <3>2, <3>3, <3>4, <3>5
  <2> QED BY <1>1, <2>1 DEF ConditionChanges, PollsStop, MaintenanceChanges, RulesChange,
                EngineInv, TypeOK, Sound
<1>2. CASE Polled \/ Reported
  <2>1. PICK d, v : /\ v \in {"up", "reported"}
                    /\ db' = [db EXCEPT !.status[d] = v] /\ txn' = [txn EXCEPT !.status[d] = v]
    <3>1. CASE Polled
      <4>1. PICK d : db' = [db EXCEPT !.status[d] = "up"] /\ txn' = [txn EXCEPT !.status[d] = "up"]
        BY <3>1 DEF Polled
      <4> QED BY <4>1
    <3>2. CASE Reported
      <4>1. PICK d : /\ db' = [db EXCEPT !.status[d] = "reported"]
                     /\ txn' = [txn EXCEPT !.status[d] = "reported"]
        BY <3>2 DEF Reported
      <4> QED BY <4>1
    <3> QED BY <1>2, <3>1, <3>2
  <2>2. db \in Store /\ txn \in Store
    BY DEF EngineInv, TypeOK
  <2>3. db' \in Store /\ txn' \in Store /\ db'.order = db.order /\ txn'.order = txn.order
    BY <2>1, <2>2, StatusWritten DEF Store
  <2>4. stale' \subseteq Device
    BY <1>2 DEF Polled, Reported, EngineInv, TypeOK
  <2> QED BY <1>2, <2>3, <2>4 DEF Polled, Reported, EngineInv, TypeOK, Sound
<1>3. CASE TimePasses
  <2>1. ASSUME NEW new, Later(new), new \in Store, new.order = db.order PROVE EngineInv'
    BY <2>1 DEF Later, EngineInv, TypeOK, Sound
  <2>2. db \in Store
    BY DEF EngineInv, TypeOK
  <2>3. ASSUME NEW x \in Alert, GateElapses(x) \/ ClearElapses(x) PROVE EngineInv'
    <3>1. breachSince' \in [Alert -> Timer] /\ clearSince' \in [Alert -> Timer]
      BY <2>3 DEF GateElapses, ClearElapses, EngineInv, TypeOK, Timer
    <3> QED BY <2>3, <3>1 DEF GateElapses, ClearElapses, EngineInv, TypeOK, Sound
  <2>4. ASSUME NEW x \in Alert, ReminderDue(x) PROVE EngineInv'
    <3>1. db.rows[x] \in Row
      BY <2>2 DEF Store
    <3>2. [db EXCEPT !.rows[x] = [db.rows[x] EXCEPT !.notified = "due"]] \in Store
      BY <2>2, <3>1, RowWritten, ColumnWritten
    <3> DEFINE new == [db EXCEPT !.rows[x].notified = "due"]
    <3>3. Later(new) /\ new \in Store /\ new.order = db.order
      BY <2>2, <2>4, <3>2 DEF ReminderDue, Store
    <3> HIDE DEF new
    <3> QED BY <2>1, <3>3
  <2>5. ASSUME NEW x \in Alert, GrowsOld(x) PROVE EngineInv'
    <3>1. db.rows[x] \in Row
      BY <2>2 DEF Store
    <3>0. PICK v \in {"aged", "ancient"} : Later([db EXCEPT !.rows[x].age = v])
      BY <2>5, GrowsOldIs
    <3>2. [db EXCEPT !.rows[x] = [db.rows[x] EXCEPT !.age = v]] \in Store
      BY <2>2, <3>1, RowWritten, ColumnWritten
    <3> DEFINE new == [db EXCEPT !.rows[x].age = v]
    <3>3. Later(new) /\ new \in Store /\ new.order = db.order
      BY <2>2, <3>0, <3>2 DEF Store
    <3> HIDE DEF new
    <3> QED BY <2>1, <3>3
  <2>6. ASSUME NEW d \in Device, HourPasses(d) PROVE EngineInv'
    <3>1. /\ db.recent \in [Device -> 0..MaxRecent] /\ db.storms \in [Device -> 0..MaxRecent]
          /\ MaxRecent \in Nat
      BY <2>2, EngineAssumption DEF Store
    <3>2. ASSUME db.recent[d] > 0, Later([db EXCEPT !.recent[d] = @ - 1]) PROVE EngineInv'
      <4> DEFINE new == [db EXCEPT !.recent[d] = @ - 1]
                 counts == [db.recent EXCEPT ![d] = @ - 1]
      <4>1. counts \in [Device -> 0..MaxRecent]
        BY <3>1, <3>2
      <4>2. new = [db EXCEPT !.recent = counts]
        BY <2>2 DEF Store
      <4> HIDE DEF counts
      <4>3. new \in Store /\ new.order = db.order
        BY <2>2, <4>1, <4>2 DEF Store
      <4> QED BY <2>1, <3>2, <4>3
    <3>3. ASSUME db.storms[d] > 0, Later([db EXCEPT !.storms[d] = @ - 1]) PROVE EngineInv'
      <4> DEFINE new == [db EXCEPT !.storms[d] = @ - 1]
                 counts == [db.storms EXCEPT ![d] = @ - 1]
      <4>1. counts \in [Device -> 0..MaxRecent]
        BY <3>1, <3>3
      <4>2. new = [db EXCEPT !.storms = counts]
        BY <2>2 DEF Store
      <4> HIDE DEF counts
      <4>3. new \in Store /\ new.order = db.order
        BY <2>2, <4>1, <4>2 DEF Store
      <4> QED BY <2>1, <3>3, <4>3
    <3> QED BY <2>6, <3>2, <3>3 DEF HourPasses
  <2> QED BY <1>3, <2>3, <2>4, <2>5, <2>6 DEF TimePasses
<1> QED BY <1>1, <1>2, <1>3 DEF Environment

LEMMA CommitTypes ==
    ASSUME EngineInv, RuleFails \/ Commit \/ CommitFails \/ Dispatch \/ Restart PROVE EngineInv'
<1> USE DEF dbVars, cycleVars, memory, envVars, history, EngineInv, TypeOK
<1>1. CASE RuleFails
  <2>1. faults' \in 0..MaxFaults
    BY <1>1, EngineAssumption DEF RuleFails
  <2> QED BY <1>1, <2>1, NoPlanTyped DEF RuleFails, Sound
<1>2. CASE Commit \/ CommitFails
  <2>1. cycles' \in 0..(HousekeepingEvery - 1)
    BY <1>2, EngineAssumption DEF Commit, CommitFails
  <2>2. faults' \in 0..MaxFaults
    BY <1>2, EngineAssumption DEF Commit, CommitFails
  <2> QED BY <1>2, <2>1, <2>2 DEF Commit, CommitFails, AfterCycle, Sound
<1>3. CASE Dispatch
  <2>1. smap' = NoMap /\ announced' \subseteq Alert
    BY <1>3 DEF Dispatch
  <2> QED BY <1>3, <2>1, EmptySound DEF Dispatch, Sound
<1>4. CASE Restart
  <2>1. smap' = NoMap /\ announced' \subseteq Alert
    BY <1>4 DEF Restart
  <2>2. faults' \in 0..MaxFaults /\ cycles' \in 0..(HousekeepingEvery - 1)
    BY <1>4, EngineAssumption DEF Restart
  <2>3. request' \in Requests /\ request' = NoRequest
    BY <1>4 DEF Restart, NoRequest, Requests
  <2>4. breachSince' \in [Alert -> Timer] /\ clearSince' \in [Alert -> Timer]
    BY <1>4 DEF Restart, Timer
  <2> QED BY <1>4, <2>1, <2>2, <2>3, <2>4, EmptySound, NoPlanTyped DEF Restart, Sound
<1> QED BY <1>1, <1>2, <1>3, <1>4

LEMMA EngineStarts == Init => EngineInv
<1> SUFFICES ASSUME Init PROVE EngineInv
  OBVIOUS
<1>1. db \in Store /\ db.order = <<>>
  BY NoRowTyped, EngineAssumption DEF Init, Store
<1>2. Placed(<<>>)
  BY DEF Placed
<1>3. request \in Requests /\ request = NoRequest
  BY DEF Init, NoRequest, Requests
<1>4. faults \in 0..MaxFaults /\ cycles \in 0..(HousekeepingEvery - 1)
  BY EngineAssumption DEF Init
<1>5. breachSince \in [Alert -> Timer] /\ clearSince \in [Alert -> Timer]
  BY DEF Init, Timer
<1>6. smap \in Maps /\ Sound(smap)
  BY EmptySound DEF Init, Sound
<1> QED BY <1>1, <1>2, <1>3, <1>4, <1>5, <1>6, NoPlanTyped DEF Init, EngineInv, TypeOK

LEMMA EngineStays == EngineInv /\ [Next]_vars => EngineInv'
<1> SUFFICES ASSUME EngineInv, [Next]_vars PROVE EngineInv'
  OBVIOUS
<1>1. CASE UNCHANGED vars
  BY <1>1 DEF vars, dbVars, cycleVars, memory, envVars, history, EngineInv, TypeOK, Sound
<1> QED BY <1>1, WakeTypes, DecideTypes, CountFailsTypes, FlushTypes, CommitTypes,
           HousekeepingTypes, RequestTypes, EnvironmentTypes
        DEF Next, Engine, Cycle

\* Every variable of the engine keeps its shape: an alert is always in one of its
\* states, its link leads to an alert or says that the alert is gone, and the map of
\* a cycle, computed by walking the committed topology, covers every device.
THEOREM EngineTypes == Spec => []TypeOK
<1>1. EngineInv => TypeOK
  BY DEF EngineInv
<1> QED BY <1>1, EngineStarts, EngineStays, PTL DEF Spec

----------------------------------------------------------------------------
\* The rows a decision asks for, before their columns are merged with what requests
\* have written meanwhile.
Decided(r) == Unsuppress(Final(r), Done(r))

\* The firing loop creates, revives or hides; nothing else touches the row.
LEMMA FiredIs ==
    ASSUME NEW r, NEW x \in Alert, txn.rows[x] \in Row
    PROVE  LET o == txn.rows[x]
               f == Fired(r)[x]
           IN  /\ x \in Created(r) => f = NewRow(x, Hidden(x, OspfSuppressed(r)))
               /\ x \notin Created(r) =>
                    \/ f = o
                    \/ /\ x \in Firing(r) /\ o.st = "suppressed" /\ f.st = "open"
                       /\ f.parent = NoAlert
                    \/ /\ x \in Firing(r) /\ o.st = "open" /\ f.st = "suppressed"
                       /\ Parent(x) # NoAlert /\ f.parent = Parent(x)
                       /\ f.notified = o.notified
BY DEF Fired, AfterFiring, Revisit, Row

\* Escalation and reminders only count as told, and are announced.
LEMMA ToldIs ==
    ASSUME NEW r, NEW x \in Alert, Fired(r)[x] \in Row
    PROVE  LET f == Fired(r)[x]
               t == Told(r)[x]
           IN  /\ t.st = f.st /\ t.parent = f.parent /\ t.manual = f.manual
               /\ t.notified # f.notified => x \in Fires(r)
<1> DEFINE f == Fired(r)[x]
           e == IF x \in AlertsOf(r) THEN Escalate(Config[r], f) ELSE f
<1>1. e.st = f.st /\ e.parent = f.parent /\ e.manual = f.manual /\ e \in Row
  BY EscalateTyped DEF Escalate, Row
<1>2. Told(r)[x] = IF x \in Breaches(r) THEN Remind(Config[r], e) ELSE e
  BY DEF Told, AfterReminders
<1> HIDE DEF e
<1>3. Told(r)[x].st = f.st /\ Told(r)[x].parent = f.parent /\ Told(r)[x].manual = f.manual
  BY <1>1, <1>2 DEF Remind, Row
<1>4. Told(r)[x] # f => x \in Fires(r)
  BY DEF Fires
<1> QED BY <1>3, <1>4

LEMMA DecidedIs ==
    ASSUME NEW r, NEW x \in Alert, txn.rows \in Rows, smap \in Maps
    PROVE  LET o == txn.rows[x]
               f == Fired(r)[x]
               n == Decided(r)[x]
           IN  /\ n.manual = f.manual
               /\ \/ /\ n.st = f.st /\ n.parent = f.parent /\ x \notin Done(r)
                     /\ n.notified # f.notified => x \in Fires(r)
                  \/ /\ x \in Done(r) /\ f.st = "open" /\ n.st = "resolved"
                     /\ n.notified # f.notified => x \in Fires(r)
                  \/ /\ f.st = "suppressed" /\ f.parent \in Done(r) /\ n.st = "open"
                     /\ n.parent = NoAlert /\ n.notified = "null" /\ x \notin Done(r)
<1> DEFINE f == Fired(r)[x]
           t == Told(r)[x]
           l == Final(r)[x]
           n == Decided(r)[x]
<1>1. Fired(r) \in Rows /\ Told(r) \in Rows /\ Final(r) \in Rows
  BY FinalTyped
<1>2. f \in Row /\ t \in Row /\ l \in Row
  BY <1>1 DEF Rows
<1>3. /\ t.st = f.st /\ t.parent = f.parent /\ t.manual = f.manual
      /\ t.notified # f.notified => x \in Fires(r)
  BY <1>2, ToldIs
<1>4. /\ x \in Done(r) => t.st = "open"
      /\ l = IF x \in Done(r) THEN [t EXCEPT !.st = "resolved"] ELSE t
  BY DEF Final, Done, Calm, AutoResolvable
<1>5. n = IF l.st = "suppressed" /\ l.parent \in Done(r)
          THEN [l EXCEPT !.st = "open", !.parent = NoAlert, !.notified = "null"] ELSE l
  BY DEF Decided, Unsuppress
<1> HIDE DEF f, t, l, n
<1>6. CASE x \in Done(r)
  <2>1. /\ l.st = "resolved" /\ l.notified = t.notified /\ l.manual = t.manual /\ n = l
    BY <1>2, <1>4, <1>5, <1>6 DEF Row
  <2> QED BY <1>3, <1>4, <1>6, <2>1 DEF f, n
<1>7. CASE x \notin Done(r) /\ l.st = "suppressed" /\ l.parent \in Done(r)
  <2>1. l = t
    BY <1>4, <1>7
  <2>2. /\ n.st = "open" /\ n.parent = NoAlert /\ n.notified = "null" /\ n.manual = l.manual
    BY <1>2, <1>5, <1>7 DEF Row
  <2> QED BY <1>3, <1>7, <2>1, <2>2 DEF f, n
<1>8. CASE x \notin Done(r) /\ ~(l.st = "suppressed" /\ l.parent \in Done(r))
  <2>1. n = t
    BY <1>4, <1>5, <1>8
  <2> QED BY <1>3, <1>8, <2>1 DEF f, n
<1> QED BY <1>6, <1>7, <1>8

----------------------------------------------------------------------------
\* What the steps outside a rule's evaluation do to the rows.
Kept(x)     == db'.rows[x] = db.rows[x] /\ txn'.rows[x] = txn.rows[x]
Alike(a, b) == /\ a.st = b.st /\ a.parent = b.parent /\ a.manual = b.manual
               /\ (a.notified = "null") <=> (b.notified = "null")

\* A request writes the row it read, and has to wait until nobody else has it.
LEMMA RequestWrites ==
    ASSUME EngineInv, ApiWrite
    PROVE  LET a == request.alert
               row == db.rows[a]
           IN  /\ a \in Alert /\ txn.rows[a] = row
               /\ \A y \in Alert \ {a} : Kept(y)
               /\ \/ Kept(a)
                  \/ /\ db'.rows[a] = txn'.rows[a]
                     /\ \/ /\ request.kind = "acknowledge"
                           /\ db'.rows[a] = [row EXCEPT !.st = "acknowledged"]
                        \/ /\ request.kind = "resolve"
                           /\ db'.rows[a] = [row EXCEPT !.st = "resolved", !.manual = TRUE]
<1> DEFINE a == request.alert
           row == db.rows[a]
           assign == IF request.kind = "acknowledge" THEN [row EXCEPT !.st = "acknowledged"]
                     ELSE [row EXCEPT !.st = "resolved", !.manual = TRUE]
<1>1. a \in Alert /\ txn.rows[a] = row /\ db \in Store /\ txn \in Store
  BY DEF ApiWrite, EngineInv, TypeOK
<1>2. \/ db' = db /\ txn' = txn
      \/ db' = [db EXCEPT !.rows[a] = assign] /\ txn' = [txn EXCEPT !.rows[a] = assign]
  BY <1>1 DEF ApiWrite
<1>3. request.kind \in {"acknowledge", "resolve"} \/ request.kind = "none"
  BY DEF EngineInv, TypeOK, Requests
<1>4. request.kind # "none"
  BY DEF ApiWrite, EngineInv, TypeOK
<1> HIDE DEF assign, a
<1>5. CASE db' = db /\ txn' = txn
  BY <1>1, <1>5 DEF Kept, a
<1>6. CASE db' = [db EXCEPT !.rows[a] = assign] /\ txn' = [txn EXCEPT !.rows[a] = assign]
  <2>1. \A y \in Alert \ {a} : Kept(y)
    BY <1>1, <1>6 DEF Kept, Store
  <2>2. db'.rows[a] = assign /\ txn'.rows[a] = assign
    BY <1>1, <1>6 DEF Store
  <2> QED BY <1>1, <1>3, <1>4, <2>1, <2>2, <1>5 DEF assign, a
<1> QED BY <1>2, <1>5, <1>6

\* Polls, reports and time never decide anything about an alert; while a cycle runs
\* they do not touch the rows at all.
LEMMA EnvironmentIsQuiet ==
    ASSUME EngineInv, HalfDoneInv, Environment
    PROVE  /\ \A x \in Alert : /\ Alike(db'.rows[x], db.rows[x])
                               /\ Alike(txn'.rows[x], txn.rows[x])
           /\ pc # "sleep" => db'.rows = db.rows /\ txn'.rows = txn.rows
           /\ UNCHANGED <<pc, cycleVars, pending, cycles, suppressUntil, lastClear, request,
                          faults, history>>
<1> USE DEF memory, history, cycleVars, dbVars
<1>1. db \in Store /\ txn \in Store
  BY DEF EngineInv, TypeOK
<1>2. CASE db'.rows = db.rows /\ txn'.rows = txn.rows
           /\ UNCHANGED <<pc, cycleVars, pending, cycles, suppressUntil, lastClear, request,
                          faults, history>>
  BY <1>2 DEF Alike
<1>3. CASE ConditionChanges \/ PollsStop \/ MaintenanceChanges \/ RulesChange
  BY <1>2, <1>3 DEF ConditionChanges, PollsStop, MaintenanceChanges, RulesChange
<1>4. CASE Polled \/ Reported
  <2>1. \E d, v : db' = [db EXCEPT !.status[d] = v] /\ txn' = [txn EXCEPT !.status[d] = v]
    <3>1. CASE Polled
      BY <3>1 DEF Polled
    <3>2. CASE Reported
      BY <3>2 DEF Reported
    <3> QED BY <1>4, <3>1, <3>2
  <2>2. db'.rows = db.rows /\ txn'.rows = txn.rows
    BY <1>1, <2>1 DEF Store
  <2> QED BY <1>2, <1>4, <2>2 DEF Polled, Reported
<1>5. CASE TimePasses
  <2>1. ASSUME NEW new, Later(new), \A x \in Alert : Alike(new.rows[x], db.rows[x])
        PROVE  /\ \A x \in Alert : /\ Alike(db'.rows[x], db.rows[x])
                                   /\ Alike(txn'.rows[x], txn.rows[x])
               /\ pc = "sleep"
               /\ UNCHANGED <<pc, cycleVars, pending, cycles, suppressUntil, lastClear, request,
                              faults, history>>
    BY <2>1 DEF Later, HalfDoneInv
  <2>2. ASSUME NEW x \in Alert, GateElapses(x) \/ ClearElapses(x)
        PROVE  /\ db'.rows = db.rows /\ txn'.rows = txn.rows
               /\ UNCHANGED <<pc, cycleVars, pending, cycles, suppressUntil, lastClear, request,
                              faults, history>>
    BY <2>2 DEF GateElapses, ClearElapses
  <2>3. ASSUME NEW x \in Alert, ReminderDue(x)
        PROVE  \E new : Later(new) /\ \A y \in Alert : Alike(new.rows[y], db.rows[y])
    <3> DEFINE new == [db EXCEPT !.rows[x].notified = "due"]
    <3>1. Later(new) /\ db.rows[x].notified = "recent"
      BY <2>3 DEF ReminderDue
    <3>2. \A y \in Alert : Alike(new.rows[y], db.rows[y])
      BY <1>1, <3>1 DEF Alike, Store, Row
    <3> QED BY <3>1, <3>2
  <2>4. ASSUME NEW x \in Alert, GrowsOld(x)
        PROVE  \E new : Later(new) /\ \A y \in Alert : Alike(new.rows[y], db.rows[y])
    <3>0. PICK v \in {"aged", "ancient"} : Later([db EXCEPT !.rows[x].age = v])
      BY <2>4, GrowsOldIs
    <3> DEFINE new == [db EXCEPT !.rows[x].age = v]
    <3>1. Later(new)
      BY <3>0
    <3>2. \A y \in Alert : Alike(new.rows[y], db.rows[y])
      BY <1>1 DEF Alike, Store, Row
    <3> QED BY <3>1, <3>2
  <2>5. ASSUME NEW d \in Device, HourPasses(d)
        PROVE  \E new : Later(new) /\ \A y \in Alert : Alike(new.rows[y], db.rows[y])
    <3>1. \E n : \/ Later([db EXCEPT !.recent[d] = n])
                 \/ Later([db EXCEPT !.storms[d] = n])
      <4>1. CASE db.recent[d] > 0 /\ Later([db EXCEPT !.recent[d] = @ - 1])
        <5>1. [db EXCEPT !.recent[d] = @ - 1] = [db EXCEPT !.recent[d] = db.recent[d] - 1]
          BY <1>1 DEF Store
        <5> QED BY <4>1, <5>1
      <4>2. CASE db.storms[d] > 0 /\ Later([db EXCEPT !.storms[d] = @ - 1])
        <5>1. [db EXCEPT !.storms[d] = @ - 1] = [db EXCEPT !.storms[d] = db.storms[d] - 1]
          BY <1>1 DEF Store
        <5> QED BY <4>2, <5>1
      <4> QED BY <2>5, <4>1, <4>2 DEF HourPasses
    <3>2. \A n : /\ [db EXCEPT !.recent[d] = n].rows = db.rows
                 /\ [db EXCEPT !.storms[d] = n].rows = db.rows
      BY <1>1 DEF Store
    <3> QED BY <3>1, <3>2 DEF Alike
  <2>6. CASE \E new : Later(new) /\ \A y \in Alert : Alike(new.rows[y], db.rows[y])
    BY <2>1, <2>6
  <2>7. CASE \E x \in Alert : GateElapses(x) \/ ClearElapses(x)
    BY <1>2, <2>2, <2>7
  <2> QED BY <1>5, <2>3, <2>4, <2>5, <2>6, <2>7 DEF TimePasses
<1> QED BY <1>3, <1>4, <1>5 DEF Environment

----------------------------------------------------------------------------
\* Between the decision and the write a row can only be acknowledged or resolved,
\* by a request of a kind that this instance has.
Merged(x) ==
    LET o == plan.old[x]
        t == txn.rows[x]
    IN  /\ t.parent = o.parent /\ t.notified = o.notified
        /\ t.st # o.st => \/ t.st = "acknowledged"
                          \/ t.st = "resolved" /\ "resolve" \in Events
        /\ t.manual # o.manual => "resolve" \in Events

MergeInv ==
    /\ request.kind # "none" => request.kind \in Events
    /\ pc = "flush" => /\ plan.created \subseteq AlertsOf(Head(todo))
                       /\ \A x \in Alert : Merged(x)

CoreInv == EngineInv /\ HalfDoneInv /\ MergeInv

\* In the middle of a rule's evaluation only requests move the rows.
LEMMA BetweenDecisionAndWrite ==
    ASSUME EngineInv, HalfDoneInv, [Next]_vars, pc' = "flush"
    PROVE  \/ Decide
           \/ /\ pc = "flush"
              /\ UNCHANGED <<plan, todo, smap, pending, announced, suppressUntil>>
              /\ ApiWrite \/ (db'.rows = db.rows /\ txn'.rows = txn.rows)
<1> USE DEF cycleVars, dbVars, memory, envVars, history
<1>1. CASE UNCHANGED vars
  BY <1>1 DEF vars
<1>2. CASE ApiRead \/ ApiWrite
  BY <1>2 DEF ApiRead, ApiWrite
<1>3. CASE Environment
  <2>1. pc = "flush" /\ pc # "sleep"
    BY <1>3, EnvironmentIsQuiet
  <2> QED BY <1>3, <2>1, EnvironmentIsQuiet
<1>4. CASE Engine
  BY <1>4 DEF Engine, Cycle, Wake, StormCountFails, Flush, Commit, AfterCycle, Housekeeping,
     Purge, Dispatch, RuleFails, CommitFails, Restart
<1> QED BY <1>1, <1>2, <1>3, <1>4 DEF Next

LEMMA RequestsComeFromOperators ==
    ASSUME EngineInv, HalfDoneInv, [Next]_vars
    PROVE  \/ request' = request
           \/ request' = NoRequest
           \/ ApiRead
<1> USE DEF cycleVars, dbVars, memory, envVars, history
<1>1. CASE UNCHANGED vars
  BY <1>1 DEF vars
<1>2. CASE ApiRead \/ ApiWrite
  BY <1>2 DEF ApiRead, ApiWrite
<1>3. CASE Environment
  BY <1>3, EnvironmentIsQuiet
<1>4. CASE Engine
  BY <1>4 DEF Engine, Cycle, Wake, Decide, StormCountFails, Flush, Commit, Housekeeping,
     Purge, Dispatch, RuleFails, CommitFails, Restart
<1> QED BY <1>1, <1>2, <1>3, <1>4 DEF Next

LEMMA MergeStarts == Init => MergeInv
BY DEF Init, MergeInv, NoRequest

LEMMA MergeStays ==
    ASSUME CoreInv, [Next]_vars PROVE MergeInv'
<1>1. request'.kind # "none" => request'.kind \in Events
  <2>1. CASE request' = request \/ request' = NoRequest
    BY <2>1 DEF CoreInv, MergeInv, NoRequest
  <2>2. CASE ApiRead
    BY <2>2 DEF ApiRead
  <2> QED BY <2>1, <2>2, RequestsComeFromOperators DEF CoreInv
<1>2. ASSUME pc' = "flush"
      PROVE  plan'.created \subseteq AlertsOf(Head(todo')) /\ \A x \in Alert : Merged(x)'
  <2>1. CASE Decide
    <3>1. plan'.created = Created(Head(todo)) /\ plan'.old = txn.rows /\ UNCHANGED <<txn, todo>>
      BY <2>1, DecideIs DEF dbVars
    <3>2. Created(Head(todo)) \subseteq AlertsOf(Head(todo))
      BY DoneTyped
    <3> QED BY <3>1, <3>2 DEF Merged
  <2>2. CASE /\ pc = "flush" /\ UNCHANGED <<plan, todo>>
             /\ ApiWrite \/ (db'.rows = db.rows /\ txn'.rows = txn.rows)
    <3>1. plan.created \subseteq AlertsOf(Head(todo)) /\ \A x \in Alert : Merged(x)
      BY <2>2 DEF CoreInv, MergeInv
    <3>2. CASE txn'.rows = txn.rows
      BY <2>2, <3>1, <3>2 DEF Merged
    <3>3. CASE ApiWrite
      <4>1. PICK a \in Alert :
              /\ txn.rows[a] = db.rows[a] /\ txn.rows[a] \in Row
              /\ \A y \in Alert \ {a} : Kept(y)
              /\ \/ Kept(a)
                 \/ /\ request.kind = "acknowledge"
                    /\ txn'.rows[a] = [txn.rows[a] EXCEPT !.st = "acknowledged"]
                 \/ /\ request.kind = "resolve"
                    /\ txn'.rows[a] = [txn.rows[a] EXCEPT !.st = "resolved", !.manual = TRUE]
        BY <3>3, RequestWrites DEF CoreInv, EngineInv, TypeOK, Store
      <4>2. \A x \in Alert \ {a} : Merged(x)'
        BY <2>2, <3>1, <4>1 DEF Kept, Merged
      <4>3. Merged(a)'
        <5>1. CASE Kept(a)
          BY <2>2, <3>1, <4>1, <5>1 DEF Kept, Merged
        <5>2. CASE txn'.rows[a] = [txn.rows[a] EXCEPT !.st = "acknowledged"]
          BY <2>2, <3>1, <4>1, <5>2 DEF Row, Merged
        <5>3. CASE /\ request.kind = "resolve"
                   /\ txn'.rows[a] = [txn.rows[a] EXCEPT !.st = "resolved", !.manual = TRUE]
          <6>1. "resolve" \in Events
            BY <5>3 DEF CoreInv, MergeInv
          <6> QED BY <2>2, <3>1, <4>1, <5>3, <6>1 DEF Row, Merged
        <5> QED BY <4>1, <5>1, <5>2, <5>3
      <4> QED BY <2>2, <3>1, <4>2, <4>3
    <3> QED BY <2>2, <3>2, <3>3
  <2> QED BY <1>2, <2>1, <2>2, BetweenDecisionAndWrite DEF CoreInv
<1> QED BY <1>1, <1>2 DEF MergeInv

LEMMA CoreHolds == Spec => []CoreInv
<1>1. Init => CoreInv
  <2>1. Init => HalfDoneInv
    BY DEF Init, HalfDoneInv
  <2> QED BY <2>1, EngineStarts, MergeStarts DEF CoreInv
<1>2. CoreInv /\ [Next]_vars => CoreInv'
  BY EngineStays, HalfDoneStays, MergeStays DEF CoreInv
<1> QED BY <1>1, <1>2, PTL DEF Spec

\* A write brings a row to what was decided, unless a request was faster and the
\* decision left that column alone.
LEMMA WrittenIs ==
    ASSUME CoreInv, Flush, NEW x \in Alert
    PROVE  LET n == plan.new[x]
               o == plan.old[x]
               t == txn.rows[x]
               w == txn'.rows[x]
           IN  /\ w.parent = IF x \notin plan.created /\ n.parent \in plan.created
                             THEN Gone ELSE n.parent
               /\ w.notified = n.notified
               /\ w.st = IF x \notin plan.created /\ n.st = o.st THEN t.st ELSE n.st
               /\ w.manual \in {n.manual, t.manual}
<1> DEFINE w == txn'.rows[x]
           n == plan.new[x]
           o == plan.old[x]
           t == txn.rows[x]
<1>1. txn \in Store /\ plan \in Plans /\ pc = "flush"
  BY DEF CoreInv, EngineInv, TypeOK, Flush
<1>2. txn'.rows = Relink([y \in Alert |-> Write(y)], plan.created)
  BY <1>1 DEF Flush, Store
<1>3. w = IF x \notin plan.created /\ Write(x).parent \in plan.created
          THEN [Write(x) EXCEPT !.parent = Gone] ELSE Write(x)
  BY <1>2 DEF Relink
<1>4. Write(x) \in Row
  BY <1>1, WriteTyped DEF Plans, Store, Rows
<1>5. /\ w.parent = IF x \notin plan.created /\ Write(x).parent \in plan.created
                    THEN Gone ELSE Write(x).parent
      /\ w.notified = Write(x).notified
      /\ w.st = Write(x).st /\ w.manual = Write(x).manual
  BY <1>3, <1>4 DEF Row
<1>6. x \notin plan.created =>
        /\ Write(x).st = (IF n.st # o.st THEN n.st ELSE t.st)
        /\ Write(x).parent = (IF n.parent # o.parent THEN n.parent ELSE t.parent)
        /\ Write(x).notified = (IF n.notified # o.notified THEN n.notified ELSE t.notified)
        /\ Write(x).manual = (IF n.manual # o.manual THEN n.manual ELSE t.manual)
  BY DEF Write, NoRow
<1>7. x \in plan.created => Write(x) = n
  BY DEF Write
<1>8. t.parent = o.parent /\ t.notified = o.notified
  BY <1>1 DEF CoreInv, MergeInv, Merged
<1> HIDE DEF w, n, o, t
<1> QED BY <1>5, <1>6, <1>7, <1>8 DEF w, n, o, t

LEMMA SweepIs ==
    ASSUME CoreInv, Housekeeping, NEW x \in Alert
    PROVE  LET d == db.rows[x]
               e == db'.rows[x]
           IN  /\ txn' = db' /\ e.manual = d.manual
               /\ \/ Alike(e, d)
                  \/ /\ AutoClose /\ Standing(d) /\ e.st = "resolved"
                     /\ e.parent = d.parent /\ e.notified = d.notified
                  \/ d.st = "suppressed" /\ e.st = "open" /\ e.notified = "null"
<1>1. db \in Store
  BY DEF CoreInv, EngineInv, TypeOK
<1>2. PICK closed \in SUBSET {y \in Alert : AutoClose /\ db.rows[y].age # "young" /\ Standing(db.rows[y])} :
        \E shut \in {[y \in Alert |-> IF y \in closed THEN [db.rows[y] EXCEPT !.st = "resolved"]
                                     ELSE db.rows[y]]} :
          db' = [db EXCEPT
            !.rows  = [y \in Alert |-> IF Orphaned(shut, y)
                         THEN [shut[y] EXCEPT !.st = "open", !.parent = NoAlert,
                                              !.notified = "null"]
                         ELSE shut[y]],
            !.storm = [d \in Device |-> IF db.recent[d] < StormLimit THEN NoRule
                                        ELSE db.storm[d]]]
  BY DEF Housekeeping
<1> DEFINE shut == [y \in Alert |-> IF y \in closed THEN [db.rows[y] EXCEPT !.st = "resolved"]
                                   ELSE db.rows[y]]
           s == shut[x]
           d == db.rows[x]
           e == db'.rows[x]
<1>3. e = IF Orphaned(shut, x)
          THEN [s EXCEPT !.st = "open", !.parent = NoAlert, !.notified = "null"] ELSE s
  <2> DEFINE rows == [y \in Alert |-> IF Orphaned(shut, y)
                         THEN [shut[y] EXCEPT !.st = "open", !.parent = NoAlert,
                                              !.notified = "null"]
                         ELSE shut[y]]
             storm == [f \in Device |-> IF db.recent[f] < StormLimit THEN NoRule
                                        ELSE db.storm[f]]
  <2>1. db' = [db EXCEPT !.rows = rows, !.storm = storm]
    BY <1>2
  <2> HIDE DEF storm, shut
  <2>2. db'.rows = rows
    <3> HIDE DEF rows
    <3> QED BY <1>1, <2>1 DEF Store
  <2> QED BY <2>2
<1>4. Orphaned(shut, x) => s.st = "suppressed"
  BY DEF Orphaned
<1>5. s = IF x \in closed THEN [d EXCEPT !.st = "resolved"] ELSE d
  OBVIOUS
<1>6. d \in Row /\ (x \in closed => AutoClose /\ Standing(d))
  BY <1>1 DEF Store
<1>7. txn' = db'
  BY DEF Housekeeping
<1> HIDE DEF s, shut, d, e
<1>8. CASE x \in closed
  <2>1. /\ s.st = "resolved" /\ s.manual = d.manual /\ s.parent = d.parent
        /\ s.notified = d.notified
    BY <1>5, <1>6, <1>8 DEF Row
  <2>2. e = s
    BY <1>3, <1>4, <2>1
  <2> QED BY <1>6, <1>7, <1>8, <2>1, <2>2 DEF d, e
<1>9. CASE x \notin closed
  <2>1. s = d
    BY <1>5, <1>9
  <2>2. CASE Orphaned(shut, x)
    <3>1. e.st = "open" /\ e.notified = "null" /\ e.manual = d.manual
      BY <1>3, <1>6, <2>1, <2>2 DEF Row
    <3> QED BY <1>4, <1>7, <2>1, <2>2, <3>1 DEF d, e
  <2>3. CASE ~Orphaned(shut, x)
    BY <1>3, <1>7, <2>1, <2>3 DEF d, e, Alike
  <2> QED BY <2>2, <2>3
<1> QED BY <1>8, <1>9

LEMMA PurgeIs ==
    ASSUME CoreInv, Purge, NEW x \in Alert
    PROVE  LET d == db.rows[x]
               e == db'.rows[x]
           IN  /\ txn' = db'
               /\ \/ e = d
                  \/ Retention /\ e = NoRow /\ d.st \in {"resolved", "suppressed"}
                  \/ Retention /\ e = [d EXCEPT !.parent = NoAlert]
<1>1. db \in Store
  BY DEF CoreInv, EngineInv, TypeOK
<1>2. PICK purged \in SUBSET {y \in Alert : Retention /\ db.rows[y].age # "young"
                                /\ db.rows[y].st \in {"resolved", "suppressed"}} :
        db' = [db EXCEPT !.rows = Unlink(db.rows, purged),
                         !.order = Reorder(db.order, Unlink(db.rows, purged), {})]
  BY DEF Purge
<1>3. db'.rows = Unlink(db.rows, purged)
  BY <1>1, <1>2 DEF Store
<1>4. txn' = db'
  BY DEF Purge
<1> QED BY <1>3, <1>4 DEF Unlink

\* The steps that touch a row.
LEMMA RowSteps ==
    ASSUME CoreInv, [Next]_vars
    PROVE  \/ Flush \/ Commit \/ CommitFails \/ Restart \/ Housekeeping \/ Purge \/ ApiWrite
           \/ \A x \in Alert : Alike(db'.rows[x], db.rows[x]) /\ Alike(txn'.rows[x], txn.rows[x])
<1> USE DEF dbVars, Alike
<1>1. CASE UNCHANGED vars
  BY <1>1 DEF vars
<1>2. CASE ApiRead
  BY <1>2 DEF ApiRead
<1>3. CASE Environment
  BY <1>3, EnvironmentIsQuiet DEF CoreInv
<1>4. CASE Wake \/ Decide \/ StormCountFails \/ RuleFails \/ Dispatch
  BY <1>4 DEF Wake, Decide, StormCountFails, RuleFails, Dispatch
<1> QED BY <1>1, <1>2, <1>3, <1>4 DEF Next, Engine, Cycle

----------------------------------------------------------------------------
\* What hides an alert, as its row says.
Caused(x, row) ==
    row.st = "suppressed" =>
        \/ row.parent \in ((DeviceDowns \cup InterfaceDowns) \ {x}) \cup {Gone}
        \/ row.parent = NoAlert /\ DeviceOf[x] \in Config[RuleOf[x]].neighbours

CauseInv ==
    \A x \in Alert : /\ Caused(x, db.rows[x]) /\ Caused(x, txn.rows[x])
                     /\ pc = "flush" => Caused(x, plan.new[x])

\* No interface leads to its own device.
NoSelfLink == \A x \in Alert : Remote[x] # DeviceOf[x]

\* The map names the alert of another device, or the port in front of this one, or,
\* for an alert that is not a device_down itself, the outage of the device.
LEMMA ParentIsAnother ==
    ASSUME NoSelfLink, Sound(smap), NEW x \in Alert, Parent(x) # NoAlert
    PROVE  Parent(x) \in (DeviceDowns \cup InterfaceDowns) \ {x}
<1>1. DeviceOf[x] \in Device
  BY AlertsAreTyped
<1>2. CASE x \in DeviceDowns
  <2>1. Parent(x) = smap.down[DeviceOf[x]]
    BY <1>2 DEF Parent, ParentFor
  <2>2. x \notin InterfaceDowns
    BY <1>2 DEF DeviceDowns, InterfaceDowns
  <2> QED BY <1>1, <1>2, <2>1, <2>2 DEF Sound, Behind
<1>3. CASE x \notin DeviceDowns
  <2>1. Parent(x) = smap.other[DeviceOf[x]]
    BY <1>3 DEF Parent, ParentFor
  <2> QED BY <1>1, <1>3, <2>1 DEF Sound, Behind, NoSelfLink
<1> QED BY <1>2, <1>3

LEMMA DecisionCaused ==
    ASSUME NoSelfLink, CoreInv, NEW r, NEW x \in Alert, Caused(x, txn.rows[x])
    PROVE  Caused(x, Decided(r)[x])
<1> DEFINE o == txn.rows[x]
           f == Fired(r)[x]
           n == Decided(r)[x]
<1>1. txn.rows \in Rows /\ smap \in Maps /\ Sound(smap) /\ o \in Row
  BY DEF CoreInv, EngineInv, TypeOK, Store, Rows
<1>2. n.st = "suppressed" => f.st = "suppressed" /\ n.parent = f.parent
  BY <1>1, DecidedIs
<1>3. Caused(x, f)
  <2>1. CASE x \in Created(r)
    <3>1. f = NewRow(x, Hidden(x, OspfSuppressed(r)))
      BY <1>1, <2>1, FiredIs
    <3>2. /\ f.st = "suppressed" => Hidden(x, OspfSuppressed(r))
          /\ f.parent = Parent(x)
      BY <3>1 DEF NewRow, NoRow
    <3>3. RuleOf[x] = r
      BY <2>1, DoneTyped DEF AlertsOf
    <3>4. OspfSuppressed(r) \subseteq Config[r].neighbours
      BY DEF OspfSuppressed
    <3>5. CASE Parent(x) = NoAlert
      BY <3>2, <3>3, <3>4, <3>5 DEF Hidden, Caused
    <3>6. CASE Parent(x) # NoAlert
      BY <1>1, <3>2, <3>6, ParentIsAnother DEF Caused
    <3> QED BY <3>5, <3>6
  <2>2. CASE x \notin Created(r)
    <3>1. \/ f = o
          \/ f.st = "open"
          \/ Parent(x) # NoAlert /\ f.parent = Parent(x)
      BY <1>1, <2>2, FiredIs
    <3> QED BY <1>1, <3>1, ParentIsAnother DEF Caused
  <2> QED BY <2>1, <2>2
<1> QED BY <1>2, <1>3 DEF Caused

\* Where old alerts are kept and no interface leads to its own device, a suppressed
\* alert always names what hides it: the link survives the merge with the requests,
\* the replacement of its parent, commits, rollbacks and restarts.
THEOREM SuppressedNamesItsCause ==
    ASSUME NoSelfLink, ~Retention
    PROVE  Spec => []SuppressedHasCause
<1>1. Init => CauseInv
  BY DEF Init, CauseInv, Caused, NoRow
<1>2. CoreInv /\ CauseInv /\ [Next]_vars => CauseInv'
  <2> SUFFICES ASSUME CoreInv, CauseInv, [Next]_vars, NEW x \in Alert
               PROVE  /\ Caused(x, db.rows[x])' /\ Caused(x, txn.rows[x])'
                      /\ pc' = "flush" => Caused(x, plan'.new[x])
    BY DEF CauseInv, Caused
  <2>1. Caused(x, db.rows[x]) /\ Caused(x, txn.rows[x])
    BY DEF CauseInv
  <2>2. pc' = "flush" => Caused(x, plan'.new[x])
    <3>1. CASE Decide
      <4>1. plan'.new = Decided(Head(todo))
        BY <3>1, DecideIs DEF Decided
      <4> QED BY <2>1, <4>1, DecisionCaused
    <3>2. CASE pc = "flush" /\ plan' = plan
      BY <3>2 DEF CauseInv
    <3> QED BY <3>1, <3>2, BetweenDecisionAndWrite DEF CoreInv
  <2>3. Caused(x, db'.rows[x]) /\ Caused(x, txn'.rows[x])
    <3>1. CASE Flush
      <4>1. db' = db /\ pc = "flush" /\ Caused(x, plan.new[x])
        BY <3>1 DEF Flush, CauseInv
      <4>2. Merged(x)
        BY <4>1 DEF CoreInv, MergeInv
      <4>3. txn'.rows[x].st = "suppressed" =>
              plan.new[x].st = "suppressed" /\ txn'.rows[x].parent \in {plan.new[x].parent, Gone}
        BY <3>1, <4>2, WrittenIs DEF Merged
      <4> QED BY <2>1, <4>1, <4>3 DEF Caused
    <3>2. CASE Commit \/ CommitFails \/ Restart
      BY <2>1, <3>2 DEF Commit, CommitFails, Restart, dbVars
    <3>3. CASE Housekeeping
      <4>1. Caused(x, db'.rows[x]) /\ txn' = db'
        BY <2>1, <3>3, SweepIs DEF Caused, Alike
      <4> QED BY <4>1
    <3>4. CASE Purge
      <4>1. Caused(x, db'.rows[x]) /\ txn' = db'
        BY <2>1, <3>4, PurgeIs
      <4> QED BY <4>1
    <3>5. CASE ApiWrite
      <4>1. \A y \in Alert : db.rows[y] \in Row
        BY DEF CoreInv, EngineInv, TypeOK, Store
      <4>2. \/ Kept(x)
            \/ /\ db'.rows[x] = txn'.rows[x]
               /\ \/ db'.rows[x] = [db.rows[x] EXCEPT !.st = "acknowledged"]
                  \/ db'.rows[x] = [db.rows[x] EXCEPT !.st = "resolved", !.manual = TRUE]
        BY <3>5, RequestWrites DEF CoreInv
      <4>3. Kept(x) \/ /\ db'.rows[x] = txn'.rows[x]
                       /\ db'.rows[x].st \in {"acknowledged", "resolved"}
        BY <4>1, <4>2 DEF Row
      <4> QED BY <2>1, <4>3 DEF Kept, Caused
    <3>6. CASE Alike(db'.rows[x], db.rows[x]) /\ Alike(txn'.rows[x], txn.rows[x])
      BY <2>1, <3>6 DEF Alike, Caused
    <3> QED BY <3>1, <3>2, <3>3, <3>4, <3>5, <3>6, RowSteps
  <2> QED BY <2>2, <2>3 DEF Caused
<1>3. CauseInv => SuppressedHasCause
  BY DEF CauseInv, Caused, SuppressedHasCause
<1> QED BY <1>1, <1>2, <1>3, CoreHolds, PTL DEF Spec

----------------------------------------------------------------------------
\* Links to active alerts.  The alerts a cycle's map names are active unless every
\* rule still to come is later than theirs; what a decision hides it hides behind an
\* alert that the same decision leaves active.
Past(y) == \A i \in DOMAIN todo : Before(RuleOf[y], todo[i])

Promised(x) ==
    LET n == plan.new[x]
    IN  /\ n.st = "suppressed" =>
             \/ n.parent = NoAlert
             \/ n.parent \in {p \in Alert \ plan.created : Active(plan.new[p])}
             \/ Overtaken(x, n)
        /\ n.st # plan.old[x].st => Active(n) \/ x \in AlertsOf(Head(todo))

LinkInv ==
    /\ \A x \in Alert : Backed(db.rows, x) /\ Backed(txn.rows, x)
    /\ \A k, l \in DOMAIN todo : k < l => Before(todo[k], todo[l])
    /\ pc \in {"rule", "flush"} => \A y \in Named(smap) : Active(txn.rows[y]) \/ Past(y)
    /\ pc = "flush" => \A x \in Alert : Promised(x)

LEMMA NamedTyped ==
    ASSUME Sound(smap)
    PROVE  /\ Named(smap) \subseteq DeviceDowns \cup InterfaceDowns
           /\ \A x \in Alert : Parent(x) # NoAlert => Parent(x) \in Named(smap)
<1>1. Named(smap) \subseteq DeviceDowns \cup InterfaceDowns
  BY DEF Named, Sound, Behind
<1>2. \A x \in Alert : DeviceOf[x] \in Device
  BY AlertsAreTyped
<1> QED BY <1>1, <1>2 DEF Named, Parent, ParentFor

LEMMA HeadAndTail ==
    ASSUME todo \in Seq(Rule), todo # <<>>
    PROVE  /\ Head(todo) \in Rule /\ 1 \in DOMAIN todo /\ Head(todo) = todo[1]
           /\ \A i \in DOMAIN Tail(todo) :
                i \in Nat /\ i + 1 \in DOMAIN todo /\ 1 < i + 1 /\ Tail(todo)[i] = todo[i + 1]
<1>1. /\ DOMAIN todo = 1..Len(todo) /\ Len(todo) \in Nat /\ Len(todo) > 0
      /\ DOMAIN Tail(todo) = 1..(Len(todo) - 1)
      /\ \A i \in 1..(Len(todo) - 1) : Tail(todo)[i] = todo[i + 1]
      /\ Head(todo) = todo[1] /\ Head(todo) \in Rule
  OBVIOUS
<1> QED BY <1>1

\* When a rule's turn is over, the map's alerts that its writes have not resolved
\* are as active as before, and those it has are of an earlier rule than the rest.
LEMMA NextTurn ==
    ASSUME todo \in Seq(Rule), todo # <<>>, LinkInv, todo' = Tail(todo), smap' = smap,
           pc \in {"rule", "flush"},
           \A y \in Named(smap) : Active(txn.rows[y]) =>
              Active(txn'.rows[y]) \/ RuleOf[y] = Head(todo)
    PROVE  /\ \A k, l \in DOMAIN todo' : k < l => Before(todo'[k], todo'[l])
           /\ \A y \in Named(smap') : Active(txn'.rows[y]) \/ Past(y)'
<1>1. /\ 1 \in DOMAIN todo /\ Head(todo) = todo[1]
      /\ \A i \in DOMAIN todo' :
           i \in Nat /\ i + 1 \in DOMAIN todo /\ 1 < i + 1 /\ todo'[i] = todo[i + 1]
  BY HeadAndTail
<1>2. \A k, l \in DOMAIN todo : k < l => Before(todo[k], todo[l])
  BY DEF LinkInv
<1>3. \A k, l \in DOMAIN todo' : k < l => k + 1 < l + 1
  BY <1>1
<1>4. \A i \in DOMAIN todo' : Before(Head(todo), todo'[i])
  BY <1>1, <1>2
<1>5. ASSUME NEW y \in Named(smap') PROVE Active(txn'.rows[y]) \/ Past(y)'
  <2>1. Active(txn.rows[y]) \/ Past(y)
    BY <1>5 DEF LinkInv
  <2>2. Past(y) => Past(y)'
    BY <1>1 DEF Past
  <2>3. RuleOf[y] = Head(todo) => Past(y)'
    BY <1>4 DEF Past
  <2> QED BY <1>5, <2>1, <2>2, <2>3
<1> QED BY <1>1, <1>2, <1>3, <1>5

\* What a decision leaves suppressed it hides behind no alert it resolves.
LEMMA HiddenBehindLiving ==
    ASSUME txn.rows \in Rows, smap \in Maps, NEW r, NEW x \in Alert,
           Decided(r)[x].st = "suppressed"
    PROVE  LET f == Fired(r)[x]
               n == Decided(r)[x]
           IN  f.st = "suppressed" /\ n.parent = f.parent /\ n.parent \notin Done(r)
<1> DEFINE f == Fired(r)[x]
           n == Decided(r)[x]
<1>1. f.st = "suppressed" /\ n.parent = f.parent
  BY DecidedIs
<1>2. Final(r)[x] \in Row
  BY FinalTyped DEF Rows
<1>3. ~(Final(r)[x].st = "suppressed" /\ Final(r)[x].parent \in Done(r))
  BY <1>2 DEF Decided, Unsuppress, Row
<1>4. n = Final(r)[x]
  BY <1>3 DEF Decided, Unsuppress
<1> QED BY <1>1, <1>3, <1>4

LEMMA DecisionPromises ==
    ASSUME CoreInv, LinkInv, pc = "rule", todo # <<>>, NEW r, r = Head(todo), NEW x \in Alert
    PROVE  LET n == Decided(r)[x]
           IN  /\ n.st = "suppressed" =>
                    \/ n.parent = NoAlert
                    \/ n.parent \in {p \in Alert \ Created(r) : Active(Decided(r)[p])}
                    \/ Overtaken(x, n)
               /\ n.st # txn.rows[x].st => Active(n) \/ x \in AlertsOf(r)
<1> DEFINE o == txn.rows[x]
           f == Fired(r)[x]
           n == Decided(r)[x]
<1>1. txn.rows \in Rows /\ smap \in Maps /\ Sound(smap) /\ o \in Row /\ todo \in Seq(Rule)
  BY DEF CoreInv, EngineInv, TypeOK, Store, Rows
<1>2. ASSUME n.st = "suppressed"
      PROVE  f.st = "suppressed" /\ n.parent = f.parent /\ n.parent \notin Done(r)
  BY <1>1, <1>2, HiddenBehindLiving
<1>3. ASSUME NEW p \in Alert, Active(txn.rows[p]), p \notin Done(r)
      PROVE  p \notin Created(r) /\ Active(Decided(r)[p])
  <2>1. p \notin Created(r)
    BY <1>3 DEF Created, Wanted, Idle
  <2>2. txn.rows[p] \in Row
    BY <1>1, <1>3 DEF Rows
  <2>3. Active(Fired(r)[p])
    BY <1>3, <2>1, <2>2, FiredIs DEF Active
  <2>4. Decided(r)[p].st = Fired(r)[p].st \/ Decided(r)[p].st = "open"
    BY <1>1, <1>3, DecidedIs
  <2> QED BY <2>1, <2>3, <2>4 DEF Active
<1>4. ASSUME f.st = "suppressed"
      PROVE  \/ f.parent = NoAlert
             \/ (f.parent \in Alert /\ Active(txn.rows[f.parent]))
             \/ Overtaken(x, f)
  <2>1. CASE f = o
    BY <1>4, <2>1 DEF LinkInv, Backed
  <2>2. CASE f.parent = Parent(x) /\ x \in AlertsOf(r)
    <3>1. CASE Parent(x) # NoAlert
      <4>1. Parent(x) \in Named(smap) /\ Parent(x) \in DeviceDowns \cup InterfaceDowns
        BY <1>1, <3>1, NamedTyped
      <4>2. Active(txn.rows[Parent(x)]) \/ Past(Parent(x))
        BY <4>1 DEF LinkInv
      <4>3. Past(Parent(x)) => Before(RuleOf[Parent(x)], RuleOf[x])
        BY <1>1, <2>2, HeadAndTail DEF Past, AlertsOf
      <4> QED BY <2>2, <4>1, <4>2, <4>3 DEF Overtaken, DeviceDowns, InterfaceDowns
    <3> QED BY <2>2, <3>1
  <2>3. CASE x \in Created(r)
    <3>1. f = NewRow(x, Hidden(x, OspfSuppressed(r)))
      BY <1>1, <2>3, FiredIs
    <3>2. f.parent = Parent(x)
      BY <3>1 DEF NewRow, NoRow
    <3> QED BY <2>2, <2>3, <3>2, DoneTyped
  <2>4. CASE x \notin Created(r) /\ f # o
    <3>1. x \in Firing(r) /\ f.parent = Parent(x)
      BY <1>1, <1>4, <2>4, FiredIs
    <3> QED BY <2>2, <3>1, DoneTyped
  <2> QED BY <2>1, <2>3, <2>4
<1>5. ASSUME n.st # o.st PROVE Active(n) \/ x \in AlertsOf(r)
  <2>1. CASE x \in Done(r) \cup Created(r) \cup Firing(r)
    BY <2>1, DoneTyped
  <2>2. CASE x \notin Done(r) \cup Created(r) \cup Firing(r)
    <3>1. f = o
      BY <1>1, <2>2, FiredIs
    <3>2. n.st = "open"
      BY <1>1, <1>5, <2>2, <3>1, DecidedIs
    <3> QED BY <3>2 DEF Active
  <2> QED BY <2>1, <2>2
<1>6. ASSUME n.st = "suppressed"
      PROVE  \/ n.parent = NoAlert
             \/ n.parent \in {p \in Alert \ Created(r) : Active(Decided(r)[p])}
             \/ Overtaken(x, n)
  <2>1. f.st = "suppressed" /\ n.parent = f.parent /\ n.parent \notin Done(r)
    BY <1>2, <1>6
  <2>2. Overtaken(x, f) => Overtaken(x, n)
    BY <2>1 DEF Overtaken
  <2> QED BY <1>3, <1>4, <2>1, <2>2
<1> QED BY <1>5, <1>6

LEMMA LinkDecides ==
    ASSUME CoreInv, LinkInv, Decide PROVE LinkInv'
<1>1. /\ pc = "rule" /\ todo # <<>> /\ pc' = "flush" /\ UNCHANGED <<db, txn, todo, smap>>
      /\ plan'.new = Decided(Head(todo)) /\ plan'.old = txn.rows
      /\ plan'.created = Created(Head(todo))
  BY DecideIs DEF Decided, dbVars
<1>2. ASSUME NEW x \in Alert PROVE Promised(x)'
  BY <1>1, DecisionPromises DEF Promised, Overtaken
<1>3. \A y \in Named(smap) : Active(txn.rows[y]) \/ Past(y)
  BY <1>1 DEF LinkInv
<1> QED BY <1>1, <1>2, <1>3 DEF LinkInv, Past, Backed, Overtaken

\* What a flush writes of a suppressed row, where requests only acknowledge.
LEMMA LinkFlushes ==
    ASSUME "resolve" \notin Events, CoreInv, LinkInv, Flush PROVE LinkInv'
<1>1. /\ pc = "flush" /\ pc' = "rule" /\ db' = db /\ smap' = smap
      /\ todo' = Tail(todo) /\ todo \in Seq(Rule) /\ todo # <<>>
      /\ plan \in Plans /\ plan.created \subseteq AlertsOf(Head(todo))
  BY DEF Flush, CoreInv, EngineInv, TypeOK, MergeInv
<1>2. ASSUME NEW x \in Alert
      PROVE  LET n == plan.new[x]
                 o == plan.old[x]
                 t == txn.rows[x]
                 w == txn'.rows[x]
             IN  /\ Promised(x)
                 /\ t.st # o.st => t.st = "acknowledged"
                 /\ w.parent = IF x \notin plan.created /\ n.parent \in plan.created
                               THEN Gone ELSE n.parent
                 /\ w.st = IF x \notin plan.created /\ n.st = o.st THEN t.st ELSE n.st
  BY <1>1, WrittenIs DEF LinkInv, CoreInv, MergeInv, Merged
<1>3. plan.created \subseteq Alert /\ NoAlert \notin Alert
  BY <1>1, SuppressionAssumption DEF AlertsOf
<1>4. ASSUME NEW p \in Alert \ plan.created, Active(plan.new[p]) PROVE Active(txn'.rows[p])
  BY <1>2, <1>4 DEF Active
<1>5. ASSUME NEW x \in Alert PROVE Backed(txn'.rows, x)
  <2> DEFINE n == plan.new[x]
             w == txn'.rows[x]
  <2> SUFFICES ASSUME w.st = "suppressed"
               PROVE  \/ w.parent = NoAlert
                      \/ w.parent \in {p \in Alert : Active(txn'.rows[p])}
                      \/ Overtaken(x, w)
    BY DEF Backed
  <2>1. n.st = "suppressed"
    BY <1>2
  <2>2. CASE n.parent = NoAlert
    BY <1>2, <1>3, <2>2
  <2>3. CASE n.parent \in {p \in Alert \ plan.created : Active(plan.new[p])}
    BY <1>2, <1>4, <2>3
  <2>4. CASE Overtaken(x, n)
    <3>1. w.parent \in {n.parent, Gone}
      BY <1>2
    <3> QED BY <2>4, <3>1 DEF Overtaken
  <2> QED BY <1>2, <2>1, <2>2, <2>3, <2>4 DEF Promised
<1>6. ASSUME NEW y \in Named(smap), Active(txn.rows[y])
      PROVE  Active(txn'.rows[y]) \/ RuleOf[y] = Head(todo)
  <2>1. y \in Alert
    BY NamedTyped DEF CoreInv, EngineInv, DeviceDowns, InterfaceDowns
  <2>2. Promised(y)
    BY <1>2, <2>1
  <2>3. CASE y \in AlertsOf(Head(todo))
    BY <2>3 DEF AlertsOf
  <2>4. CASE y \notin AlertsOf(Head(todo))
    <3>1. plan.new[y].st # plan.old[y].st => Active(plan.new[y])
      BY <2>2, <2>4 DEF Promised
    <3> QED BY <1>1, <1>2, <1>6, <2>1, <2>4, <3>1 DEF Active
  <2> QED BY <2>3, <2>4
<1>7. /\ \A k, l \in DOMAIN todo' : k < l => Before(todo'[k], todo'[l])
      /\ \A y \in Named(smap') : Active(txn'.rows[y]) \/ Past(y)'
  BY <1>1, <1>6, NextTurn
<1>8. \A x \in Alert : Backed(db'.rows, x)
  BY <1>1 DEF LinkInv
<1> QED BY <1>1, <1>5, <1>7, <1>8 DEF LinkInv, Backed, Overtaken

LEMMA LinkSkips ==
    ASSUME CoreInv, LinkInv, RuleFails \/ StormCountFails PROVE LinkInv'
<1>1. /\ pc \in {"rule", "flush"} /\ pc' = "rule" /\ UNCHANGED <<db, txn, smap>>
      /\ todo' = Tail(todo) /\ todo \in Seq(Rule) /\ todo # <<>>
  BY DEF RuleFails, StormCountFails, CoreInv, EngineInv, TypeOK, dbVars
<1>2. /\ \A k, l \in DOMAIN todo' : k < l => Before(todo'[k], todo'[l])
      /\ \A y \in Named(smap') : Active(txn'.rows[y]) \/ Past(y)'
  BY <1>1, NextTurn
<1> QED BY <1>1, <1>2 DEF LinkInv, Backed, Overtaken

LEMMA LinkWakes ==
    ASSUME CoreInv, LinkInv, Wake PROVE LinkInv'
<1>1. /\ pc' = "rule" /\ txn = db /\ UNCHANGED <<db, txn>>
      /\ todo' \in {Only(RuleOrder, enabled), <<>>} /\ Placed(db.order)
      /\ smap' \in SuppressionMaps(Topology, NonEmpty(Present), Ports) \/ smap' = NoMap
  BY DEF Wake, CoreInv, HalfDoneInv, EngineInv, dbVars, Present, Ports
<1>2. \A y \in Named(smap') : Active(db.rows[y])
  BY <1>1, WakeMap, EmptySound
<1>3. Only(RuleOrder, enabled) \in Seq(Rule \cap enabled)
      /\ Follows(Only(RuleOrder, enabled), RuleOrder)
  BY EngineAssumption, OnlyIs
<1>4. \A k, l \in DOMAIN todo' : k < l => Before(todo'[k], todo'[l])
  BY <1>1, <1>3 DEF Follows, Before
<1> QED BY <1>1, <1>2, <1>4 DEF LinkInv, Backed, Overtaken

\* The orphan sweep, from the rows as the closing sweep leaves them.
LEMMA SweepRows ==
    ASSUME CoreInv, Housekeeping
    PROVE  \E shut \in Rows : \A x \in Alert :
             db'.rows[x] = IF Orphaned(shut, x)
                           THEN [shut[x] EXCEPT !.st = "open", !.parent = NoAlert,
                                                !.notified = "null"]
                           ELSE shut[x]
<1>1. db \in Store
  BY DEF CoreInv, EngineInv, TypeOK
<1>2. PICK closed \in SUBSET {y \in Alert : AutoClose /\ db.rows[y].age # "young" /\ Standing(db.rows[y])} :
        \E shut \in {[y \in Alert |-> IF y \in closed THEN [db.rows[y] EXCEPT !.st = "resolved"]
                                     ELSE db.rows[y]]} :
          db' = [db EXCEPT
            !.rows  = [y \in Alert |-> IF Orphaned(shut, y)
                         THEN [shut[y] EXCEPT !.st = "open", !.parent = NoAlert,
                                              !.notified = "null"]
                         ELSE shut[y]],
            !.storm = [d \in Device |-> IF db.recent[d] < StormLimit THEN NoRule
                                        ELSE db.storm[d]]]
  BY DEF Housekeeping
<1> DEFINE shut == [y \in Alert |-> IF y \in closed THEN [db.rows[y] EXCEPT !.st = "resolved"]
                                   ELSE db.rows[y]]
           rows == [y \in Alert |-> IF Orphaned(shut, y)
                      THEN [shut[y] EXCEPT !.st = "open", !.parent = NoAlert,
                                           !.notified = "null"]
                      ELSE shut[y]]
           storm == [d \in Device |-> IF db.recent[d] < StormLimit THEN NoRule ELSE db.storm[d]]
<1>3. shut \in Rows
  <2>1. \A row \in Row : [row EXCEPT !.st = "resolved"] \in Row
    BY DEF Row, Status
  <2>2. \A y \in Alert : db.rows[y] \in Row
    BY <1>1 DEF Store
  <2> QED BY <2>1, <2>2 DEF Rows
<1>4. db' = [db EXCEPT !.rows = rows, !.storm = storm]
  BY <1>2
<1> HIDE DEF shut, storm
<1>5. db'.rows = rows
  <2> HIDE DEF rows
  <2> QED BY <1>1, <1>4 DEF Store
<1> QED BY <1>3, <1>5

LEMMA NoOrphanIsLeft ==
    ASSUME CoreInv, Housekeeping, NEW x \in Alert, db'.rows[x].st = "suppressed"
    PROVE  LET p == db'.rows[x].parent
           IN  p = NoAlert \/ (p \in Alert /\ Standing(db'.rows[p]))
<1>1. PICK shut \in Rows : \A y \in Alert :
        db'.rows[y] = IF Orphaned(shut, y)
                      THEN [shut[y] EXCEPT !.st = "open", !.parent = NoAlert,
                                           !.notified = "null"]
                      ELSE shut[y]
  BY SweepRows
<1>2. \A y \in Alert : shut[y] \in Row
  BY DEF Rows
<1>3. ~Orphaned(shut, x) /\ db'.rows[x] = shut[x]
  BY <1>1, <1>2 DEF Row
<1> DEFINE p == shut[x].parent
<1>4. p = NoAlert \/ (p \in Alert /\ Standing(shut[p]))
  <2>1. shut[x].st = "suppressed" /\ p \in Alert \cup {NoAlert, Gone}
    BY <1>2, <1>3 DEF Row
  <2> HIDE DEF p
  <2>2. p # NoAlert => p # Gone /\ Standing(shut[p])
    BY <1>3, <2>1 DEF Orphaned, p
  <2> QED BY <2>1, <2>2
<1>5. ASSUME NEW y \in Alert, Standing(shut[y]) PROVE db'.rows[y] = shut[y]
  <2>1. ~Orphaned(shut, y)
    BY <1>5 DEF Orphaned, Standing
  <2> QED BY <1>1, <2>1
<1> HIDE DEF p
<1> QED BY <1>3, <1>4, <1>5 DEF p

LEMMA LinkSweeps ==
    ASSUME CoreInv, LinkInv, Housekeeping \/ Purge PROVE LinkInv'
<1>1. /\ pc' \notin {"rule", "flush"} /\ todo' = todo /\ txn' = db'
  BY DEF Housekeeping, Purge, cycleVars
<1>2. ASSUME NEW x \in Alert PROVE Backed(db'.rows, x)
  <2>1. CASE Housekeeping
    BY <2>1, NoOrphanIsLeft DEF Backed, Active, Standing
  <2>2. CASE Purge
    <3>1. db \in Store /\ \A y \in Alert : db.rows[y] \in Row
      BY DEF CoreInv, EngineInv, TypeOK, Store
    <3>2. PICK purged \in SUBSET {y \in Alert : Retention /\ db.rows[y].age # "young"
                                    /\ db.rows[y].st \in {"resolved", "suppressed"}} :
            db' = [db EXCEPT !.rows = Unlink(db.rows, purged),
                             !.order = Reorder(db.order, Unlink(db.rows, purged), {})]
      BY <2>2 DEF Purge
    <3>3. db'.rows = Unlink(db.rows, purged)
      BY <3>1, <3>2 DEF Store
    <3> DEFINE d == db.rows[x]
               e == db'.rows[x]
    <3> SUFFICES ASSUME e.st = "suppressed" PROVE Backed(db'.rows, x)
      BY DEF Backed
    <3>4. x \notin purged
      BY <3>3 DEF Unlink, NoRow
    <3>5. d.st = "suppressed" /\ e = IF d.parent \in purged THEN [d EXCEPT !.parent = NoAlert] ELSE d
      BY <3>1, <3>3, <3>4 DEF Unlink, Row
    <3>6. ASSUME NEW p \in Alert \ purged, Active(db.rows[p]) PROVE Active(db'.rows[p])
      BY <3>1, <3>3, <3>6 DEF Unlink, Active, Row
    <3>7. CASE d.parent \in purged
      BY <3>1, <3>5, <3>7 DEF Backed, Row
    <3>8. CASE d.parent \notin purged
      <4>1. e = d
        BY <3>5, <3>8
      <4>2. \/ d.parent = NoAlert
            \/ d.parent \in {p \in Alert : Active(db.rows[p])}
            \/ Overtaken(x, d)
        BY <3>5 DEF LinkInv, Backed
      <4> QED BY <3>6, <3>8, <4>1, <4>2 DEF Backed
    <3> QED BY <3>7, <3>8
  <2> QED BY <2>1, <2>2
<1>3. \A k, l \in DOMAIN todo : k < l => Before(todo[k], todo[l])
  BY DEF LinkInv
<1> QED BY <1>1, <1>2, <1>3 DEF LinkInv, Backed, Overtaken

\* Steps that leave the alerts' states and links alone, or acknowledge an alert.
Lasts(old, new) ==
    \A x \in Alert :
        /\ new[x].st = "suppressed" => old[x].st = "suppressed" /\ new[x].parent = old[x].parent
        /\ Active(old[x]) => Active(new[x])

LEMMA LastsBacks ==
    ASSUME NEW old, NEW new, Lasts(old, new), NEW x \in Alert, Backed(old, x)
    PROVE  Backed(new, x)
BY DEF Lasts, Backed, Overtaken

LEMMA LinkWaits ==
    ASSUME LinkInv, Lasts(db.rows, db'.rows), Lasts(txn.rows, txn'.rows), Sound(smap),
           UNCHANGED <<pc, todo, smap, plan>>
    PROVE  LinkInv'
<1>1. \A x \in Alert : Backed(db'.rows, x) /\ Backed(txn'.rows, x)
  BY LastsBacks DEF LinkInv
<1>2. ASSUME pc \in {"rule", "flush"}, NEW y \in Named(smap)
      PROVE  Active(txn'.rows[y]) \/ Past(y)'
  <2>1. y \in Alert
    BY NamedTyped DEF DeviceDowns, InterfaceDowns
  <2>2. Active(txn.rows[y]) \/ Past(y)
    BY <1>2 DEF LinkInv
  <2> QED BY <2>1, <2>2 DEF Lasts, Past
<1>3. ASSUME pc = "flush", NEW x \in Alert PROVE Promised(x)'
  <2>1. Promised(x)
    BY <1>3 DEF LinkInv
  <2> QED BY <2>1 DEF Promised, Overtaken
<1>4. \A k, l \in DOMAIN todo : k < l => Before(todo[k], todo[l])
  BY DEF LinkInv
<1> QED BY <1>1, <1>2, <1>3, <1>4 DEF LinkInv, Backed, Overtaken

LEMMA LinkRequests ==
    ASSUME "resolve" \notin Events, CoreInv, LinkInv, ApiWrite PROVE LinkInv'
<1>1. db \in Store /\ txn \in Store /\ Sound(smap)
  BY DEF CoreInv, EngineInv, TypeOK
<1>2. PICK a \in Alert :
        /\ txn.rows[a] = db.rows[a]
        /\ \A y \in Alert \ {a} : Kept(y)
        /\ \/ Kept(a)
           \/ /\ db'.rows[a] = txn'.rows[a]
              /\ db'.rows[a] = [db.rows[a] EXCEPT !.st = "acknowledged"]
  <2>1. request.kind = "resolve" => "resolve" \in Events
    BY DEF CoreInv, MergeInv
  <2> QED BY <2>1, RequestWrites DEF CoreInv
<1>3. Kept(a) \/ (db'.rows[a].st = "acknowledged" /\ txn'.rows[a].st = "acknowledged")
  <2>1. db.rows[a] \in Row
    BY <1>1 DEF Store
  <2> QED BY <1>2, <2>1 DEF Row
<1>4. Lasts(db.rows, db'.rows) /\ Lasts(txn.rows, txn'.rows)
  <2>1. ASSUME NEW x \in Alert
        PROVE  \/ Kept(x)
               \/ (db'.rows[x].st = "acknowledged" /\ txn'.rows[x].st = "acknowledged")
    BY <1>2, <1>3
  <2> QED BY <2>1 DEF Lasts, Kept, Active
<1>5. UNCHANGED <<pc, todo, smap, plan>>
  BY DEF ApiWrite, cycleVars
<1> QED BY <1>1, <1>4, <1>5, LinkWaits

LEMMA LinkStays ==
    ASSUME "resolve" \notin Events, CoreInv, LinkInv, [Next]_vars PROVE LinkInv'
<1> USE DEF cycleVars, dbVars
<1>1. CASE Decide \/ Flush \/ RuleFails \/ StormCountFails \/ Wake \/ Housekeeping \/ Purge
           \/ ApiWrite
  BY <1>1, LinkDecides, LinkFlushes, LinkSkips, LinkWakes, LinkSweeps, LinkRequests
<1>2. CASE Commit \/ CommitFails \/ Restart \/ Dispatch
  <2>1. /\ pc' \notin {"rule", "flush"}
        /\ db' = db \/ db' = txn
        /\ txn' = db \/ txn' = txn
        /\ todo' = todo \/ todo' = <<>>
    BY <1>2 DEF Commit, CommitFails, Restart, Dispatch, AfterCycle
  <2>2. \A x \in Alert : Backed(db'.rows, x) /\ Backed(txn'.rows, x)
    BY <2>1 DEF LinkInv
  <2>3. \A k, l \in DOMAIN todo' : k < l => Before(todo'[k], todo'[l])
    BY <2>1 DEF LinkInv
  <2> QED BY <2>1, <2>2, <2>3 DEF LinkInv, Backed, Overtaken
<1>3. CASE UNCHANGED vars \/ ApiRead \/ Environment
  <2>1. /\ \A x \in Alert : /\ Alike(db'.rows[x], db.rows[x])
                            /\ Alike(txn'.rows[x], txn.rows[x])
        /\ UNCHANGED <<pc, todo, smap, plan>>
    <3>1. CASE UNCHANGED vars \/ ApiRead
      BY <3>1 DEF vars, ApiRead, Alike
    <3>2. CASE Environment
      BY <3>2, EnvironmentIsQuiet DEF CoreInv
    <3> QED BY <1>3, <3>1, <3>2
  <2>2. Lasts(db.rows, db'.rows) /\ Lasts(txn.rows, txn'.rows)
    BY <2>1 DEF Lasts, Alike, Active
  <2> QED BY <2>1, <2>2, LinkWaits DEF CoreInv, EngineInv
<1> QED BY <1>1, <1>2, <1>3 DEF Next, Engine, Cycle

\* While operators only acknowledge, a suppressed alert that names its cause names an
\* active one: no interleaving of a rule's decision with its writes, of requests,
\* faults, restarts, closing and purging leaves a link to a resolved alert, but for
\* the parent that a rule evaluated earlier in the same cycle resolved.
THEOREM LinkedParentIsActive ==
    ASSUME "resolve" \notin Events
    PROVE  Spec => []ParentIsActive
<1>1. Init => LinkInv
  BY DEF Init, LinkInv, Backed, NoRow
<1>2. CoreInv /\ LinkInv /\ [Next]_vars => LinkInv'
  BY LinkStays
<1>3. LinkInv => ParentIsActive
  BY DEF LinkInv, ParentIsActive
<1> QED BY <1>1, <1>2, <1>3, CoreHolds, PTL DEF Spec

----------------------------------------------------------------------------
\* Steps that may not leave anything behind: the part of the liveness properties
\* that a single step has to do.

\* The sweep opens every alert whose parent is not open or acknowledged, those
\* hidden behind alerts that it closes or opens in the same pass included; so that
\* the exception of ParentIsActive ends with the next housekeeping.
THEOREM SweepLeavesNoOrphan ==
    Spec => [][Housekeeping =>
                 \A x \in Alert : db'.rows[x].st = "suppressed" =>
                    \/ db'.rows[x].parent = NoAlert
                    \/ db'.rows[x].parent \in {p \in Alert : Standing(db'.rows[p])}]_vars
<1>1. CoreInv /\ [Next]_vars =>
        [Housekeeping =>
           \A x \in Alert : db'.rows[x].st = "suppressed" =>
              \/ db'.rows[x].parent = NoAlert
              \/ db'.rows[x].parent \in {p \in Alert : Standing(db'.rows[p])}]_vars
  BY NoOrphanIsLeft
<1> QED BY <1>1, CoreHolds, PTL DEF Spec

\* The alerts that the evaluation under way resolves (Flush calls their devices
\* resolvedDown), and what it hides.
Ends(p) == plan.old[p].st # "resolved" /\ plan.new[p].st = "resolved"

CascadeInv ==
    pc = "flush" =>
        \A x, p \in Alert : plan.new[x].st = "suppressed" /\ Ends(p) => plan.new[x].parent # p

LEMMA CascadeStays ==
    ASSUME CoreInv, CascadeInv, [Next]_vars PROVE CascadeInv'
<1> SUFFICES ASSUME pc' = "flush", NEW x \in Alert, NEW p \in Alert,
                    plan'.new[x].st = "suppressed", Ends(p)'
             PROVE  plan'.new[x].parent # p
  BY DEF CascadeInv
<1>1. CASE Decide
  <2> DEFINE r == Head(todo)
  <2>1. plan'.new = Decided(r) /\ plan'.old = txn.rows
    BY <1>1, DecideIs DEF Decided
  <2>2. txn.rows \in Rows /\ smap \in Maps /\ txn.rows[p] \in Row
    BY DEF CoreInv, EngineInv, TypeOK, Store, Rows
  <2> HIDE DEF r
  <2>3. Decided(r)[p].st = "resolved" /\ txn.rows[p].st # "resolved"
    BY <2>1 DEF Ends
  <2>4. Fired(r)[p].st # "resolved"
    <3>1. CASE p \in Created(r)
      <4>1. Fired(r)[p] = NewRow(p, Hidden(p, OspfSuppressed(r)))
        BY <2>2, <3>1, FiredIs
      <4> QED BY <4>1 DEF NewRow, NoRow
    <3>2. CASE p \notin Created(r)
      BY <2>2, <2>3, <3>2, FiredIs
    <3> QED BY <3>1, <3>2
  <2>5. p \in Done(r)
    BY <2>2, <2>3, <2>4, DecidedIs
  <2>6. Decided(r)[x].parent \notin Done(r)
    BY <2>1, <2>2, HiddenBehindLiving
  <2> QED BY <2>1, <2>5, <2>6
<1>2. CASE pc = "flush" /\ plan' = plan
  BY <1>2 DEF CascadeInv, Ends
<1> QED BY <1>1, <1>2, BetweenDecisionAndWrite DEF CoreInv

\* The cascade misses no child: when the writes of an evaluation are done, no alert
\* is suppressed under one that the evaluation resolved, although its row may have
\* been hidden by the same evaluation, or written by a request after the decision.
THEOREM CascadeIsComplete ==
    Spec => [][Flush => \A x, p \in Alert :
                 (Ends(p) /\ txn'.rows[x].st = "suppressed") => txn'.rows[x].parent # p]_vars
<1>1. Init => CascadeInv
  BY DEF Init, CascadeInv
<1>2. CoreInv /\ CascadeInv /\ [Next]_vars => CascadeInv'
  BY CascadeStays
<1>3. CoreInv /\ CascadeInv /\ [Next]_vars =>
        [Flush => \A x, p \in Alert :
           (Ends(p) /\ txn'.rows[x].st = "suppressed") => txn'.rows[x].parent # p]_vars
  <2> SUFFICES ASSUME CoreInv, CascadeInv, Flush, NEW x \in Alert, NEW p \in Alert,
                      Ends(p), txn'.rows[x].st = "suppressed"
               PROVE  txn'.rows[x].parent # p
    OBVIOUS
  <2>1. pc = "flush" /\ Merged(x)
    BY DEF Flush, CoreInv, MergeInv
  <2>2. plan.new[x].st = "suppressed"
    BY <2>1, WrittenIs DEF Merged
  <2>3. txn'.rows[x].parent \in {plan.new[x].parent, Gone}
    BY WrittenIs
  <2> QED BY <2>1, <2>2, <2>3, EngineAssumption DEF CascadeInv
<1> QED BY <1>1, <1>2, <1>3, CoreHolds, PTL DEF Spec

\* An evaluation that takes its decisions answers every breach that is past its
\* gate: afterwards there is an active alert, or a manual resolve holds it back, or
\* the device is at the limit of storm protection.  There is no fourth outcome.
THEOREM EveryBreachIsAnswered ==
    Spec => [][Decide => \A x \in Firing(Head(todo)) :
                 Active(plan'.new[x]) \/ x \in suppressUntil' \/ StormFull(DeviceOf[x])]_vars
<1>1. CoreInv /\ [Next]_vars =>
        [Decide => \A x \in Firing(Head(todo)) :
           Active(plan'.new[x]) \/ x \in suppressUntil' \/ StormFull(DeviceOf[x])]_vars
  <2> SUFFICES ASSUME CoreInv, Decide, NEW x \in Firing(Head(todo)),
                      x \notin suppressUntil', ~StormFull(DeviceOf[x])
               PROVE  Active(plan'.new[x])
    OBVIOUS
  <2> DEFINE r == Head(todo)
  <2>1. /\ plan'.new = Decided(r)
        /\ suppressUntil' = (StillHeld(Breaches(r)) \cup ByHand(r)) \ Done(r)
    BY DecideIs DEF Decided
  <2>2. txn.rows \in Rows /\ smap \in Maps
    BY DEF CoreInv, EngineInv, TypeOK, Store, Rows
  <2>3. x \in Firing(r)
    OBVIOUS
  <2> HIDE DEF r
  <2>4. x \in Alert /\ x \notin Done(r)
    BY <2>3, DoneTyped
  <2>5. x \notin StillHeld(Breaches(r)) /\ x \notin ByHand(r)
    BY <2>1, <2>4
  <2>6. Active(Fired(r)[x])
    <3>1. CASE Active(txn.rows[x])
      <4>1. x \notin Created(r)
        BY <3>1 DEF Created, Wanted, Idle
      <4> QED BY <2>2, <2>4, <3>1, <4>1, FiredIs DEF Rows, Active
    <3>2. CASE ~Active(txn.rows[x])
      <4>1. x \in Created(r)
        BY <2>3, <2>5, <3>2 DEF Created, Wanted, Idle
      <4>2. Fired(r)[x] = NewRow(x, Hidden(x, OspfSuppressed(r)))
        BY <2>2, <2>4, <4>1, FiredIs DEF Rows
      <4> QED BY <4>2 DEF NewRow, NoRow, Active
    <3> QED BY <3>1, <3>2
  <2>7. Decided(r)[x].st = Fired(r)[x].st \/ Decided(r)[x].st = "open"
    BY <2>2, <2>4, DecidedIs
  <2>8. Decided(r)[x].st \in {"open", "acknowledged", "suppressed"}
    BY <2>6, <2>7 DEF Active
  <2>9. plan'.new[x] = Decided(r)[x]
    BY <2>1
  <2> QED BY <2>8, <2>9 DEF Active
<1> QED BY <1>1, CoreHolds, PTL DEF Spec

----------------------------------------------------------------------------
\* Who knows of an alert: the notifier, or the list that goes out after the commit.
Noted(row) == row.notified # "null"
Listed(x)  == <<x, "fire">> \in pending
Known(x)   == x \in announced \/ Listed(x)
AckOn(x)   == request.kind = "acknowledge" /\ request.alert = x
Queued(r)  == \E i \in DOMAIN todo : todo[i] = r

\* Between cycles.  An acknowledgement in flight may still revive the row.
Settled(x) ==
    (Noted(db.rows[x]) /\ (Active(db.rows[x]) \/ AckOn(x)))
        => IF pc = "sleep" THEN x \in announced ELSE Known(x)

\* In a cycle.  What is committed was announced before; what the engine has noted
\* is listed; and a rule whose turn is still to come has resolved nothing.
Underway(x) ==
    /\ AckOn(x) => Active(db.rows[x])
    /\ Noted(db.rows[x]) /\ Active(db.rows[x]) => x \in announced
    /\ Noted(txn.rows[x]) /\ (Active(txn.rows[x]) \/ Active(db.rows[x])) => Known(x)
    /\ Queued(RuleOf[x]) /\ Active(db.rows[x]) => Active(txn.rows[x])

\* A decision lists whatever it notes, and creates only what is not committed active.
Foreseen(x) ==
    LET o == plan.old[x]
        n == plan.new[x]
    IN  /\ x \in plan.created => ~Active(db.rows[x])
        /\ Noted(o) /\ Active(o) => Known(x)
        /\ Noted(n) /\ (x \in plan.created \/ n.notified # o.notified)
             => <<x, "fire">> \in plan.notes
        /\ x \notin plan.created /\ Active(n) /\ n.st # o.st => Active(o)
        /\ RuleOf[x] # Head(todo) /\ n.st # o.st => n.st = "open"

Distinct == \A i, j \in DOMAIN todo : i # j => todo[i] # todo[j]

AnnounceInv ==
    /\ Distinct
    /\ \A x \in Alert :
         IF pc \in {"rule", "flush"} THEN Underway(x) /\ (pc = "flush" => Foreseen(x))
         ELSE Settled(x)

\* A rule has one turn in a cycle.
LEMMA TurnIsOver ==
    ASSUME todo \in Seq(Rule), todo # <<>>, Distinct, todo' = Tail(todo)
    PROVE  /\ Distinct'
           /\ \A r : Queued(r)' => Queued(r) /\ r # Head(todo)
<1>1. /\ DOMAIN todo = 1..Len(todo) /\ Len(todo) \in Nat /\ Len(todo) > 0
      /\ DOMAIN todo' = 1..(Len(todo) - 1)
      /\ \A i \in 1..(Len(todo) - 1) : todo'[i] = todo[i + 1]
      /\ Head(todo) = todo[1]
  OBVIOUS
<1>2. \A i \in 1..(Len(todo) - 1) : i + 1 \in 1..Len(todo) /\ i + 1 # 1 /\ 1 \in 1..Len(todo)
  BY <1>1
<1>3. \A i, j \in 1..(Len(todo) - 1) : i # j => i + 1 # j + 1
  BY <1>1
<1>4. Distinct'
  BY <1>1, <1>2, <1>3 DEF Distinct
<1>5. ASSUME NEW r, Queued(r)' PROVE Queued(r) /\ r # Head(todo)
  BY <1>1, <1>2, <1>5 DEF Queued, Distinct
<1> QED BY <1>4, <1>5

LEMMA DecisionForesees ==
    ASSUME CoreInv, NEW r, NEW x \in Alert
    PROVE  LET o == txn.rows[x]
               n == Decided(r)[x]
           IN  /\ Noted(n) /\ (x \in Created(r) \/ n.notified # o.notified) => x \in Fires(r)
               /\ x \notin Created(r) /\ Active(n) /\ n.st # o.st => Active(o)
               /\ x \notin AlertsOf(r) /\ n.st # o.st => n.st = "open"
<1> DEFINE o == txn.rows[x]
           f == Fired(r)[x]
           n == Decided(r)[x]
<1>1. txn.rows \in Rows /\ smap \in Maps /\ o \in Row
  BY DEF CoreInv, EngineInv, TypeOK, Store, Rows
<1>2. \/ /\ n.st = f.st /\ x \notin Done(r)
         /\ n.notified # f.notified => x \in Fires(r)
      \/ /\ x \in Done(r) /\ n.st = "resolved"
         /\ n.notified # f.notified => x \in Fires(r)
      \/ /\ f.st = "suppressed" /\ n.st = "open" /\ n.notified = "null"
  BY <1>1, DecidedIs
<1>3. CASE x \in Created(r)
  <2>1. f = NewRow(x, Hidden(x, OspfSuppressed(r)))
    BY <1>1, <1>3, FiredIs
  <2>2. f.notified # "null" => ~Hidden(x, OspfSuppressed(r))
    BY <2>1 DEF NewRow, NoRow
  <2>3. f.notified # "null" => x \in Fires(r)
    BY <1>3, <2>2 DEF Fires
  <2>4. x \in AlertsOf(r)
    BY <1>3, DoneTyped
  <2> HIDE DEF f, n, o
  <2> QED BY <1>2, <1>3, <2>3, <2>4 DEF Noted, n, o
<1>4. CASE x \notin Created(r)
  <2>1. \/ f = o
        \/ /\ x \in Firing(r) /\ o.st = "suppressed" /\ f.st = "open"
        \/ /\ x \in Firing(r) /\ o.st = "open" /\ f.st = "suppressed"
           /\ f.notified = o.notified
    BY <1>1, <1>4, FiredIs
  <2>2. x \in Firing(r) /\ o.st = "suppressed" /\ f.st = "open" => x \in Fires(r)
    BY DEF Fires
  <2>3. x \notin AlertsOf(r) => x \notin Firing(r) /\ x \notin Done(r)
    BY DoneTyped
  <2> HIDE DEF f, n, o
  <2> QED BY <1>2, <1>4, <2>1, <2>2, <2>3 DEF Noted, Active, n, o
<1> QED BY <1>3, <1>4

LEMMA AnnounceDecides ==
    ASSUME CoreInv, AnnounceInv, Decide PROVE AnnounceInv'
<1> DEFINE r == Head(todo)
<1>1. /\ pc = "rule" /\ todo # <<>> /\ pc' = "flush"
      /\ plan'.old = txn.rows /\ plan'.new = Decided(r) /\ plan'.created = Created(r)
      /\ plan'.notes = (Fires(r) \X {"fire"}) \cup ((Done(r) \ Quiet(r)) \X {"resolve"})
      /\ UNCHANGED <<db, txn, todo, pending, request, announced>>
  BY DecideIs DEF dbVars, Decided
<1>2. Distinct' /\ \A x \in Alert : Underway(x)' /\ Underway(x)
  BY <1>1 DEF AnnounceInv, Distinct, Underway, AckOn, Known, Listed, Queued
<1>3. ASSUME NEW x \in Alert PROVE Foreseen(x)'
  <2>1. x \in Created(r) => ~Active(db.rows[x])
    <3>1. ASSUME x \in Created(r) PROVE ~Active(txn.rows[x]) /\ RuleOf[x] = r
      BY <3>1 DEF Created, Wanted, Idle, Firing, Breaches, AlertsOf
    <3>2. 1 \in DOMAIN todo /\ todo[1] = r
      BY <1>1 DEF CoreInv, EngineInv, TypeOK
    <3> QED BY <1>2, <3>1, <3>2 DEF Underway, Queued
  <2>2. Noted(txn.rows[x]) /\ Active(txn.rows[x]) => Known(x)'
    BY <1>1, <1>2 DEF Underway, Known, Listed
  <2>3. RuleOf[x] # r => x \notin AlertsOf(r)
    BY DEF AlertsOf
  <2>4. x \in Fires(r) => <<x, "fire">> \in plan'.notes
    BY <1>1
  <2> QED BY <1>1, <2>1, <2>2, <2>3, <2>4, DecisionForesees DEF Foreseen
<1> QED BY <1>1, <1>2, <1>3 DEF AnnounceInv

LEMMA AnnounceFlushes ==
    ASSUME CoreInv, AnnounceInv, Flush PROVE AnnounceInv'
<1>1. /\ pc = "flush" /\ pc' = "rule" /\ todo # <<>> /\ todo \in Seq(Rule)
      /\ todo' = Tail(todo) /\ pending' = pending \cup plan.notes
      /\ announced' = announced \ plan.created /\ UNCHANGED <<db, request>>
  BY DEF Flush, CoreInv, EngineInv, TypeOK
<1>2. Distinct' /\ \A r : Queued(r)' => Queued(r) /\ r # Head(todo)
  BY <1>1, TurnIsOver DEF AnnounceInv
<1>3. ASSUME NEW x \in Alert PROVE Underway(x)'
  <2> DEFINE n == plan.new[x]
             o == plan.old[x]
             t == txn.rows[x]
             w == txn'.rows[x]
  <2>1. Underway(x) /\ Foreseen(x)
    BY <1>1 DEF AnnounceInv
  <2>2. /\ t.notified = o.notified
        /\ t.st # o.st => t.st \in {"acknowledged", "resolved"}
        /\ x \in plan.created => RuleOf[x] = Head(todo)
    BY <1>1 DEF CoreInv, MergeInv, Merged, AlertsOf
  <2>3. /\ w.notified = n.notified
        /\ w.st = IF x \notin plan.created /\ n.st = o.st THEN t.st ELSE n.st
    BY WrittenIs
  <2>4. AckOn(x)' = AckOn(x) /\ db'.rows[x] = db.rows[x]
    BY <1>1 DEF AckOn
  <2>5. Noted(db.rows[x]) /\ Active(db.rows[x]) => x \in announced'
    BY <1>1, <2>1 DEF Underway, Foreseen
  <2>6. Known(x) /\ x \notin plan.created => Known(x)'
    BY <1>1 DEF Known, Listed
  <2>7. <<x, "fire">> \in plan.notes => Known(x)'
    BY <1>1 DEF Known, Listed
  <2> HIDE DEF n, o, t, w
  <2>8. Noted(w) /\ (Active(w) \/ Active(db.rows[x])) => Known(x)'
    <3>1. CASE x \in plan.created
      BY <2>1, <2>3, <2>7, <3>1 DEF Foreseen, Noted, n
    <3>2. CASE x \notin plan.created /\ n.notified # o.notified
      BY <2>1, <2>3, <2>7, <3>2 DEF Foreseen, Noted, n, o
    <3>3. CASE x \notin plan.created /\ n.notified = o.notified
      <4>1. ASSUME Noted(w) PROVE Noted(o) /\ Noted(t)
        BY <2>2, <2>3, <3>3, <4>1 DEF Noted
      <4>2. Active(w) => Active(o) \/ Active(t)
        BY <2>1, <2>3, <3>3 DEF Active, Foreseen, n, o
      <4> QED BY <2>1, <2>6, <3>3, <4>1, <4>2 DEF Underway, Foreseen, o, t
    <3> QED BY <3>1, <3>2, <3>3
  <2>9. Queued(RuleOf[x])' /\ Active(db.rows[x]) => Active(w)
    <3> SUFFICES ASSUME Queued(RuleOf[x])', Active(db.rows[x]) PROVE Active(w)
      OBVIOUS
    <3>1. RuleOf[x] # Head(todo) /\ Active(t)
      BY <1>2, <2>1 DEF Underway, t
    <3>2. n.st # o.st => n.st = "open"
      BY <2>1, <3>1 DEF Foreseen, n, o
    <3>3. x \notin plan.created
      BY <2>2, <3>1
    <3> QED BY <2>3, <3>1, <3>2, <3>3 DEF Active
  <2> QED BY <2>1, <2>4, <2>5, <2>8, <2>9 DEF Underway, w
<1> QED BY <1>1, <1>2, <1>3 DEF AnnounceInv

LEMMA AnnounceSkips ==
    ASSUME CoreInv, AnnounceInv, RuleFails \/ StormCountFails PROVE AnnounceInv'
<1>1. /\ pc \in {"rule", "flush"} /\ pc' = "rule" /\ todo # <<>> /\ todo \in Seq(Rule)
      /\ todo' = Tail(todo) /\ UNCHANGED <<db, txn, pending, announced, request>>
  BY DEF RuleFails, StormCountFails, CoreInv, EngineInv, TypeOK, dbVars, history
<1>2. Distinct' /\ \A r : Queued(r)' => Queued(r)
  BY <1>1, TurnIsOver DEF AnnounceInv
<1>3. ASSUME NEW x \in Alert PROVE Underway(x)'
  <2>1. Underway(x)
    BY <1>1 DEF AnnounceInv
  <2>2. (Queued(RuleOf[x]))' => Queued(RuleOf[x])
    BY <1>2
  <2>3. AckOn(x)' = AckOn(x) /\ Known(x)' = Known(x)
    BY <1>1 DEF AckOn, Known, Listed
  <2> QED BY <1>1, <2>1, <2>2, <2>3 DEF Underway
<1> QED BY <1>1, <1>2, <1>3 DEF AnnounceInv

LEMMA AnnounceWakes ==
    ASSUME CoreInv, AnnounceInv, Wake PROVE AnnounceInv'
<1>1. /\ pc = "sleep" /\ pc' = "rule" /\ request = NoRequest /\ txn = db
      /\ todo' \in {Only(RuleOrder, enabled), <<>>}
      /\ UNCHANGED <<db, txn, pending, announced, request>>
  BY DEF Wake, CoreInv, HalfDoneInv, dbVars, history
<1>2. Distinct'
  <2>0. CASE todo' = <<>>
    BY <2>0 DEF Distinct
  <2> SUFFICES ASSUME todo' = Only(RuleOrder, enabled) PROVE Distinct'
    BY <1>1, <2>0
  <2>1. /\ Only(RuleOrder, enabled) \in Seq(Rule \cap enabled)
        /\ Follows(Only(RuleOrder, enabled), RuleOrder)
    BY EngineAssumption, OnlyIs
  <2> DEFINE q == Only(RuleOrder, enabled)
  <2> HIDE DEF q
  <2>2. q \in Seq(Rule \cap enabled) /\ Follows(q, RuleOrder) /\ todo' = q
    BY <1>1, <2>1 DEF q
  <2>3. \A i, j \in DOMAIN RuleOrder : i < j => RuleOrder[i] # RuleOrder[j]
    <3>1. DOMAIN RuleOrder \subseteq Nat
      BY EngineAssumption
    <3> QED BY <3>1, EngineAssumption
  <2>4. \A k, l \in DOMAIN q : k < l => q[k] # q[l]
    BY <2>2, <2>3 DEF Follows
  <2>5. \A k, l \in DOMAIN q : k # l => k < l \/ l < k
    <3>1. DOMAIN q \subseteq Nat
      BY <2>2
    <3> QED BY <3>1
  <2> QED BY <2>2, <2>4, <2>5 DEF Distinct
<1>3. ASSUME NEW x \in Alert PROVE Underway(x)'
  <2>1. Settled(x) /\ ~AckOn(x) /\ ~AckOn(x)'
    BY <1>1 DEF AnnounceInv, AckOn, NoRequest
  <2> QED BY <1>1, <2>1 DEF Underway, Settled, Known
<1> QED BY <1>1, <1>2, <1>3 DEF AnnounceInv

LEMMA AnnounceCommits ==
    ASSUME CoreInv, AnnounceInv, Commit \/ CommitFails PROVE AnnounceInv'
<1>1. /\ pc = "rule" /\ pc' \in {"housekeeping", "dispatch"}
      /\ UNCHANGED <<todo, request, announced>>
      /\ \/ db' = txn /\ pending' = pending
         \/ db' = db
  BY DEF Commit, CommitFails, AfterCycle, cycleVars, history
<1>2. ASSUME NEW x \in Alert PROVE Settled(x)'
  <2>1. Underway(x) /\ AckOn(x)' = AckOn(x)
    BY <1>1 DEF AnnounceInv, AckOn
  <2> QED BY <1>1, <2>1 DEF Underway, Settled, Known, Listed
<1> QED BY <1>1, <1>2 DEF AnnounceInv, Distinct

LEMMA AnnounceEnds ==
    ASSUME CoreInv, AnnounceInv, Housekeeping \/ Purge \/ Dispatch \/ Restart
    PROVE  AnnounceInv'
<1> USE DEF dbVars, cycleVars, history
<1>1. CASE Housekeeping \/ Purge
  <2>1. /\ pc \in {"housekeeping", "purge"} /\ pc' \in {"purge", "dispatch"}
        /\ UNCHANGED <<todo, request, pending, announced>>
    BY <1>1 DEF Housekeeping, Purge
  <2>2. ASSUME NEW x \in Alert PROVE Settled(x)'
    <3> SUFFICES \/ ~Noted(db'.rows[x])
                 \/ Noted(db.rows[x]) /\ (Active(db'.rows[x]) => Active(db.rows[x]))
      <4>1. Settled(x) /\ AckOn(x)' = AckOn(x) /\ Known(x)' = Known(x)
        BY <2>1 DEF AnnounceInv, AckOn, Known, Listed
      <4> QED BY <2>1, <4>1 DEF Settled
    <3>1. db.rows[x] \in Row
      BY DEF CoreInv, EngineInv, TypeOK, Store
    <3>2. CASE Housekeeping
      <4>1. \/ Alike(db'.rows[x], db.rows[x])
            \/ ~Active(db'.rows[x]) /\ Active(db.rows[x]) /\ db'.rows[x].notified = db.rows[x].notified
            \/ db'.rows[x].notified = "null"
        BY <3>2, SweepIs DEF Active, Standing
      <4> QED BY <4>1 DEF Alike, Noted, Active
    <3>3. CASE Purge
      <4>1. \/ db'.rows[x] = db.rows[x]
            \/ db'.rows[x] = NoRow
            \/ db'.rows[x] = [db.rows[x] EXCEPT !.parent = NoAlert]
        BY <3>3, PurgeIs
      <4> QED BY <3>1, <4>1 DEF Row, NoRow, Noted, Active
    <3> QED BY <1>1, <3>2, <3>3
  <2> QED BY <2>1, <2>2 DEF AnnounceInv, Distinct
<1>2. CASE Dispatch
  <2>1. \A x \in Alert : Settled(x) /\ (Known(x) => x \in announced')
    BY <1>2 DEF Dispatch, AnnounceInv, Known, Listed
  <2> QED BY <1>2, <2>1 DEF Dispatch, AnnounceInv, Settled, AckOn, Distinct
<1>3. CASE Restart
  <2>1. pc' = "sleep" /\ db' = db /\ request' = NoRequest /\ todo' = <<>>
    BY <1>3 DEF Restart
  <2>2. ASSUME NEW x \in Alert, Noted(db.rows[x]), Active(db.rows[x]) PROVE x \in announced'
    <3>1. x \in announced => x \in announced'
      BY <1>3 DEF Restart
    <3>2. Listed(x) /\ pc \in {"housekeeping", "purge", "dispatch"} => x \in announced'
      BY <1>3 DEF Restart, Listed
    <3>3. CASE pc \in {"rule", "flush"}
      BY <2>2, <3>1, <3>3 DEF AnnounceInv, Underway
    <3>4. CASE pc \notin {"rule", "flush"}
      <4>1. pc \in {"sleep", "housekeeping", "purge", "dispatch"}
        BY <3>4 DEF CoreInv, HalfDoneInv
      <4> QED BY <2>2, <3>1, <3>2, <3>4, <4>1 DEF AnnounceInv, Settled, Known
    <3> QED BY <3>3, <3>4
  <2>3. \A x \in Alert : ~AckOn(x)'
    BY <2>1 DEF AckOn, NoRequest
  <2> QED BY <2>1, <2>2, <2>3 DEF AnnounceInv, Settled, Distinct
<1> QED BY <1>1, <1>2, <1>3

LEMMA AnnounceRequests ==
    ASSUME CoreInv, AnnounceInv, ApiRead \/ ApiWrite PROVE AnnounceInv'
<1>1. UNCHANGED <<pc, todo, plan, pending, announced>>
  BY DEF ApiRead, ApiWrite, cycleVars, history
<1>2. Distinct' /\ \A x \in Alert : /\ Known(x)' = Known(x)
                                  /\ Queued(RuleOf[x])' = Queued(RuleOf[x])
  BY <1>1 DEF AnnounceInv, Distinct, Known, Listed, Queued
<1>3. CASE ApiRead
  <2>1. db' = db /\ txn' = txn /\ request = NoRequest
    BY <1>3 DEF ApiRead, dbVars
  <2>2. \A x \in Alert : AckOn(x)' => Active(db.rows[x])
    BY <1>3 DEF ApiRead, AckOn, Active
  <2> QED BY <1>1, <1>2, <2>1, <2>2 DEF AnnounceInv, Underway, Settled, Foreseen
<1>4. CASE ApiWrite
  <2>1. \A x \in Alert : ~AckOn(x)'
    BY <1>4 DEF ApiWrite, AckOn, NoRequest
  <2>2. PICK a \in Alert :
          /\ txn.rows[a] = db.rows[a] /\ db.rows[a] \in Row
          /\ \A y \in Alert \ {a} : Kept(y)
          /\ \/ Kept(a)
             \/ /\ txn'.rows[a] = db'.rows[a]
                /\ \/ AckOn(a) /\ db'.rows[a] = [db.rows[a] EXCEPT !.st = "acknowledged"]
                   \/ db'.rows[a] = [db.rows[a] EXCEPT !.st = "resolved", !.manual = TRUE]
    BY <1>4, RequestWrites DEF CoreInv, EngineInv, TypeOK, Store, AckOn
  <2>3. ASSUME NEW x \in Alert, Kept(x)
        PROVE  IF pc \in {"rule", "flush"} THEN Underway(x)' /\ (pc = "flush" => Foreseen(x)')
               ELSE Settled(x)'
    BY <1>1, <1>2, <2>1, <2>3 DEF AnnounceInv, Underway, Settled, Foreseen, Kept
  <2>4. ASSUME txn'.rows[a] = db'.rows[a], AckOn(a), txn.rows[a] = db.rows[a],
               db'.rows[a] = [db.rows[a] EXCEPT !.st = "acknowledged"]
        PROVE  IF pc \in {"rule", "flush"} THEN Underway(a)' /\ (pc = "flush" => Foreseen(a)')
               ELSE Settled(a)'
    <3>1. Active(db'.rows[a]) /\ (Noted(db'.rows[a]) <=> Noted(db.rows[a]))
      BY <2>2, <2>4 DEF Row, Active, Noted
    <3>2. CASE pc \in {"rule", "flush"}
      <4>1. Underway(a) /\ Active(db.rows[a]) /\ (pc = "flush" => Foreseen(a))
        BY <2>4, <3>2 DEF AnnounceInv, Underway
      <4>2. Underway(a)'
        BY <1>1, <1>2, <2>1, <2>4, <3>1, <4>1 DEF Underway, Known
      <4>3. pc = "flush" => Foreseen(a)'
        BY <1>1, <1>2, <4>1 DEF Foreseen
      <4> QED BY <3>2, <4>2, <4>3
    <3>3. CASE pc \notin {"rule", "flush"}
      <4>1. Settled(a)
        BY <3>3 DEF AnnounceInv
      <4> QED BY <1>1, <1>2, <2>4, <3>1, <3>3, <4>1 DEF Settled
    <3> QED BY <3>2, <3>3
  <2>5. ASSUME txn'.rows[a] = db'.rows[a],
               db'.rows[a] = [db.rows[a] EXCEPT !.st = "resolved", !.manual = TRUE]
        PROVE  IF pc \in {"rule", "flush"} THEN Underway(a)' /\ (pc = "flush" => Foreseen(a)')
               ELSE Settled(a)'
    <3>1. ~Active(db'.rows[a])
      BY <2>2, <2>5 DEF Row, Active
    <3>2. pc = "flush" => Foreseen(a)'
      BY <1>1, <1>2, <3>1 DEF AnnounceInv, Foreseen
    <3> QED BY <2>1, <2>5, <3>1, <3>2 DEF Underway, Settled
  <2>6. \A x \in Alert : IF pc \in {"rule", "flush"}
                        THEN Underway(x)' /\ (pc = "flush" => Foreseen(x)') ELSE Settled(x)'
    BY <2>2, <2>3, <2>4, <2>5
  <2> QED BY <1>1, <1>2, <2>6 DEF AnnounceInv
<1> QED BY <1>3, <1>4

LEMMA AnnounceWaits ==
    ASSUME CoreInv, AnnounceInv, Environment \/ UNCHANGED vars PROVE AnnounceInv'
<1>1. CASE UNCHANGED vars
  BY <1>1 DEF vars, dbVars, cycleVars, history, AnnounceInv, Distinct, Underway, Settled,
     Foreseen, AckOn, Known, Listed, Queued
<1>2. CASE Environment
  <2>1. /\ UNCHANGED <<pc, todo, plan, pending, announced, request>>
        /\ pc # "sleep" => db'.rows = db.rows /\ txn'.rows = txn.rows
        /\ \A x \in Alert : Alike(db'.rows[x], db.rows[x])
    BY <1>2, EnvironmentIsQuiet DEF CoreInv, cycleVars, history
  <2>2. \A x \in Alert : /\ Known(x)' = Known(x) /\ AckOn(x)' = AckOn(x)
                        /\ Queued(RuleOf[x])' = Queued(RuleOf[x])
    BY <2>1 DEF Known, Listed, AckOn, Queued
  <2>3. ASSUME NEW x \in Alert, pc \in {"rule", "flush"}
        PROVE  Underway(x)' /\ (pc = "flush" => Foreseen(x)')
    BY <2>1, <2>2, <2>3 DEF AnnounceInv, Underway, Foreseen
  <2>4. ASSUME NEW x \in Alert, pc \notin {"rule", "flush"} PROVE Settled(x)'
    <3>1. /\ Noted(db'.rows[x]) <=> Noted(db.rows[x])
          /\ Active(db'.rows[x]) <=> Active(db.rows[x])
      BY <2>1 DEF Alike, Noted, Active
    <3> QED BY <2>1, <2>2, <2>4, <3>1 DEF AnnounceInv, Settled
  <2> QED BY <2>1, <2>3, <2>4 DEF AnnounceInv, Distinct
<1> QED BY <1>1, <1>2

\* An alert that counts as notified was handed to the notifier: a notification is
\* listed in the same evaluation that sets last_notified_at, the list survives
\* housekeeping, and a failed commit takes both back.
THEOREM NotedWasAnnounced == Spec => []OpenWasAnnounced
<1>1. Init => AnnounceInv
  BY DEF Init, AnnounceInv, Distinct, Settled, Noted, NoRow
<1>2. CoreInv /\ AnnounceInv /\ [Next]_vars => AnnounceInv'
  BY AnnounceDecides, AnnounceFlushes, AnnounceSkips, AnnounceWakes, AnnounceCommits,
     AnnounceEnds, AnnounceRequests, AnnounceWaits DEF Next, Engine, Cycle
<1>3. AnnounceInv => OpenWasAnnounced
  BY DEF AnnounceInv, Settled, OpenWasAnnounced, Noted, Active, Standing
<1> QED BY <1>1, <1>2, <1>3, CoreHolds, PTL DEF Spec

----------------------------------------------------------------------------
\* What a list of notifications says of a row: one that fired is noted and is not
\* hidden, one that was resolved has not been reopened.
Tells(x, row) ==
    /\ <<x, "fire">> \in pending => Noted(row) /\ row.st # "suppressed"
    /\ <<x, "resolve">> \in pending => row.st \in {"resolved", "acknowledged"}

InList(x) == <<x, "fire">> \in pending \/ <<x, "resolve">> \in pending

\* A decision lists alerts of the rule in turn, as it decided them; of the others it
\* only opens hidden ones.
Intends(x) ==
    LET o == plan.old[x]
        n == plan.new[x]
    IN  /\ <<x, "fire">> \in plan.notes =>
             RuleOf[x] = Head(todo) /\ Noted(n) /\ n.st # "suppressed"
        /\ <<x, "resolve">> \in plan.notes =>
             RuleOf[x] = Head(todo) /\ x \notin plan.created /\ n.st = "resolved" /\ o.st = "open"
        /\ RuleOf[x] # Head(todo) /\ (n.st # o.st \/ n.notified # o.notified)
             => o.st = "suppressed"

StoredInv ==
    /\ pc = "sleep" => pending = {}
    /\ pc \in {"rule", "flush"} => \A x \in Alert :
         /\ Tells(x, txn.rows[x])
         /\ InList(x) => ~Queued(RuleOf[x])
         /\ pc = "flush" => Intends(x) /\ (InList(x) => plan.old[x].st # "suppressed")
    /\ pc \in {"housekeeping", "purge", "dispatch"} => \A x \in Alert :
         Tells(x, db.rows[x]) \/ (Retention /\ db.rows[x].st = "none")

\* Escalation and reminders touch visible alerts of the rule, and note them.
LEMMA ToldNotes ==
    ASSUME NEW r, NEW x \in Alert, Fired(r)[x] \in Row
    PROVE  LET f == Fired(r)[x]
               t == Told(r)[x]
           IN  t = f \/ (x \in AlertsOf(r) /\ Noted(t) /\ t.st \in {"open", "acknowledged"})
<1> DEFINE f == Fired(r)[x]
           e == IF x \in AlertsOf(r) THEN Escalate(Config[r], f) ELSE f
<1>1. e \in Row /\ (e = f \/ (x \in AlertsOf(r) /\ Noted(e) /\ e.st = "open"))
  BY EscalateTyped DEF Escalate, Row, Noted
<1>2. Told(r)[x] = IF x \in Breaches(r) THEN Remind(Config[r], e) ELSE e
  BY DEF Told, AfterReminders
<1>3. x \in Breaches(r) => x \in AlertsOf(r)
  BY DEF Breaches
<1> HIDE DEF e
<1>4. Remind(Config[r], e) = e
      \/ (Noted(Remind(Config[r], e)) /\ Remind(Config[r], e).st \in {"open", "acknowledged"})
  BY <1>1 DEF Remind, Row, Noted, Standing
<1> QED BY <1>1, <1>2, <1>3, <1>4

LEMMA DecisionIntends ==
    ASSUME CoreInv, NEW r, NEW x \in Alert
    PROVE  LET o == txn.rows[x]
               n == Decided(r)[x]
           IN  /\ x \in Fires(r) => x \in AlertsOf(r) /\ Noted(n) /\ n.st # "suppressed"
               /\ x \in Done(r) => /\ x \in AlertsOf(r) /\ x \notin Created(r)
                                   /\ n.st = "resolved" /\ o.st = "open"
               /\ x \notin AlertsOf(r) /\ (n.st # o.st \/ n.notified # o.notified)
                    => o.st = "suppressed"
<1> DEFINE o == txn.rows[x]
           f == Fired(r)[x]
           t == Told(r)[x]
           l == Final(r)[x]
           n == Decided(r)[x]
<1>1. txn.rows \in Rows /\ smap \in Maps /\ o \in Row
  BY DEF CoreInv, EngineInv, TypeOK, Store, Rows
<1>2. f \in Row /\ t \in Row /\ l \in Row
  BY <1>1, FinalTyped DEF Rows
<1>3. l = IF x \in Done(r) THEN [t EXCEPT !.st = "resolved"] ELSE t
  BY DEF Final
<1>4. n = IF l.st = "suppressed" /\ l.parent \in Done(r)
          THEN [l EXCEPT !.st = "open", !.parent = NoAlert, !.notified = "null"] ELSE l
  BY DEF Decided, Unsuppress
<1>5. t = f \/ (x \in AlertsOf(r) /\ Noted(t) /\ t.st \in {"open", "acknowledged"})
  BY <1>2, ToldNotes
<1>6. x \in Created(r) => f = NewRow(x, Hidden(x, OspfSuppressed(r)))
  BY <1>1, FiredIs
<1>7. x \notin Created(r) =>
        \/ f = o
        \/ x \in Firing(r) /\ o.st = "suppressed" /\ f.st = "open" /\ f.notified = "recent"
        \/ x \in Firing(r) /\ o.st = "open" /\ f.st = "suppressed"
  BY <1>1 DEF Fired, AfterFiring, Revisit, Row
<1>8. /\ x \in Done(r) => x \in AlertsOf(r) /\ x \notin Firing(r) /\ x \notin Created(r)
      /\ x \in Done(r) => t.st = "open"
      /\ x \in Firing(r) => x \in AlertsOf(r)
      /\ x \in Created(r) => x \in AlertsOf(r)
  <2>1. x \in Done(r) => t.st = "open"
    BY DEF Done, Calm, AutoResolvable
  <2> QED BY <2>1, DoneTyped
<1>9. /\ x \in Done(r) => l.st = "resolved" /\ l.notified = t.notified
      /\ x \notin Done(r) => l = t
  BY <1>2, <1>3 DEF Row
<1>10. /\ l.st # "suppressed" => n = l
       /\ n.st # l.st \/ n.notified # l.notified => l.st = "suppressed"
  BY <1>4
<1> HIDE DEF t, l, n
<1>11. ASSUME x \in Fires(r) PROVE x \in AlertsOf(r) /\ Noted(n) /\ n.st # "suppressed"
  <2>1. x \in AlertsOf(r) /\ Noted(t) /\ t.st # "suppressed"
    <3>1. CASE x \in Created(r) /\ ~Hidden(x, OspfSuppressed(r))
      <4>1. Noted(f) /\ f.st = "open"
        BY <1>6, <3>1 DEF NewRow, NoRow, Noted
      <4> HIDE DEF f
      <4> QED BY <1>5, <1>8, <3>1, <4>1
    <3>2. CASE x \in Firing(r) /\ o.st = "suppressed" /\ f.st = "open"
      <4>1. x \notin Created(r)
        BY <3>2 DEF Created, Wanted, Idle, Active
      <4>2. Noted(f)
        BY <1>7, <3>2, <4>1 DEF Noted
      <4> HIDE DEF f, o
      <4> QED BY <1>5, <1>8, <3>2, <4>2
    <3>3. CASE t # f
      BY <1>5, <3>3
    <3> QED BY <1>11, <3>1, <3>2, <3>3 DEF Fires, t
  <2>2. Noted(l) /\ l.st # "suppressed"
    BY <1>9, <2>1 DEF Noted
  <2> QED BY <1>10, <2>1, <2>2
<1>12. ASSUME x \in Done(r)
       PROVE  x \in AlertsOf(r) /\ x \notin Created(r) /\ n.st = "resolved" /\ o.st = "open"
  <2>1. n.st = "resolved"
    BY <1>9, <1>10, <1>12
  <2>2. t.st = f.st
    BY <1>2, ToldIs DEF t
  <2> HIDE DEF f, o
  <2>3. f.st = "open"
    BY <1>8, <1>12, <2>2
  <2>4. f = o
    BY <1>7, <1>8, <1>12
  <2> QED BY <1>8, <1>12, <2>1, <2>3, <2>4
<1>13. ASSUME x \notin AlertsOf(r), n.st # o.st \/ n.notified # o.notified
       PROVE  o.st = "suppressed"
  <2> HIDE DEF f, o
  <2>1. f = o
    BY <1>7, <1>8, <1>13
  <2>2. l = o
    BY <1>5, <1>8, <1>9, <1>13, <2>1
  <2> QED BY <1>10, <1>13, <2>2
<1> QED BY <1>11, <1>12, <1>13 DEF n

LEMMA StoredDecides ==
    ASSUME CoreInv, StoredInv, Decide PROVE StoredInv'
<1> DEFINE r == Head(todo)
<1>1. /\ pc = "rule" /\ todo # <<>> /\ pc' = "flush"
      /\ plan'.old = txn.rows /\ plan'.new = Decided(r) /\ plan'.created = Created(r)
      /\ plan'.notes = (Fires(r) \X {"fire"}) \cup ((Done(r) \ Quiet(r)) \X {"resolve"})
      /\ UNCHANGED <<txn, todo, pending>>
  BY DecideIs DEF dbVars, Decided
<1>2. ASSUME NEW x \in Alert
      PROVE  /\ Tells(x, txn.rows[x]) /\ (InList(x) => ~Queued(RuleOf[x]))
             /\ InList(x) => txn.rows[x].st # "suppressed"
  BY <1>1 DEF StoredInv, Tells, InList
<1>3. ASSUME NEW x \in Alert PROVE Intends(x)'
  <2>1. /\ <<x, "fire">> \in plan'.notes => x \in Fires(r)
        /\ <<x, "resolve">> \in plan'.notes => x \in Done(r)
    BY <1>1
  <2>2. x \in AlertsOf(r) <=> RuleOf[x] = r
    BY DEF AlertsOf
  <2> HIDE DEF r
  <2> QED BY <1>1, <2>1, <2>2, DecisionIntends DEF Intends, r
<1> QED BY <1>1, <1>2, <1>3 DEF StoredInv, Tells, InList, Queued

LEMMA StoredFlushes ==
    ASSUME CoreInv, AnnounceInv, StoredInv, Flush PROVE StoredInv'
<1>1. /\ pc = "flush" /\ pc' = "rule" /\ todo # <<>> /\ todo \in Seq(Rule)
      /\ todo' = Tail(todo) /\ pending' = pending \cup plan.notes
  BY DEF Flush, CoreInv, EngineInv, TypeOK
<1>2. Queued(Head(todo)) /\ \A r : Queued(r)' => Queued(r) /\ r # Head(todo)
  <2>1. 1 \in DOMAIN todo /\ todo[1] = Head(todo)
    BY <1>1
  <2> QED BY <1>1, <2>1, TurnIsOver DEF AnnounceInv, Queued
<1>3. ASSUME NEW x \in Alert
      PROVE  Tells(x, txn.rows[x])' /\ (InList(x)' => ~(Queued(RuleOf[x]))')
  <2> DEFINE n == plan.new[x]
             o == plan.old[x]
             t == txn.rows[x]
             w == txn'.rows[x]
  <2>1. /\ Tells(x, t) /\ (InList(x) => ~Queued(RuleOf[x]))
        /\ Intends(x) /\ (InList(x) => o.st # "suppressed")
    BY <1>1 DEF StoredInv
  <2>2. /\ t.notified = o.notified
        /\ t.st # o.st => t.st \in {"acknowledged", "resolved"}
        /\ x \in plan.created => RuleOf[x] = Head(todo)
    BY <1>1 DEF CoreInv, MergeInv, Merged, AlertsOf
  <2>3. /\ w.notified = n.notified
        /\ w.st = IF x \notin plan.created /\ n.st = o.st THEN t.st ELSE n.st
    BY WrittenIs
  <2>4. CASE RuleOf[x] = Head(todo)
    <3>1. ~InList(x) /\ ~(Queued(RuleOf[x]))'
      BY <1>2, <2>1, <2>4
    <3>2. /\ <<x, "fire">> \in pending' => <<x, "fire">> \in plan.notes
          /\ <<x, "resolve">> \in pending' => <<x, "resolve">> \in plan.notes
      BY <1>1, <3>1 DEF InList
    <3>3. <<x, "fire">> \in plan.notes => Noted(n) /\ n.st # "suppressed"
      BY <2>1 DEF Intends
    <3>4. <<x, "resolve">> \in plan.notes => n.st = "resolved" /\ o.st = "open"
      BY <2>1 DEF Intends
    <3> HIDE DEF n, o, t, w
    <3>5. <<x, "fire">> \in pending' => Noted(w) /\ w.st # "suppressed"
      BY <2>2, <2>3, <3>2, <3>3 DEF Noted
    <3>6. <<x, "resolve">> \in pending' => w.st \in {"resolved", "acknowledged"}
      BY <2>3, <3>2, <3>4
    <3> QED BY <3>1, <3>5, <3>6 DEF Tells, Noted, w
  <2>5. CASE RuleOf[x] # Head(todo)
    <3>1. InList(x)' = InList(x) /\ ~(<<x, "fire">> \in plan.notes) /\ ~(<<x, "resolve">> \in plan.notes)
      BY <1>1, <2>1, <2>5 DEF Intends, InList
    <3>2. ASSUME InList(x) PROVE w.notified = t.notified /\ w.st = t.st
      <4>1. n.st = o.st /\ n.notified = o.notified
        BY <2>1, <2>5, <3>2 DEF Intends
      <4>2. x \notin plan.created
        BY <2>2, <2>5
      <4> HIDE DEF n, o, t, w
      <4> QED BY <2>2, <2>3, <4>1, <4>2
    <3>3. (Queued(RuleOf[x]))' => Queued(RuleOf[x])
      BY <1>2
    <3> QED BY <1>1, <2>1, <3>1, <3>2, <3>3 DEF Tells, InList, Noted
  <2> QED BY <2>4, <2>5
<1> QED BY <1>1, <1>3 DEF StoredInv

LEMMA StoredSkips ==
    ASSUME CoreInv, AnnounceInv, StoredInv, RuleFails \/ StormCountFails \/ Wake
    PROVE  StoredInv'
<1>1. CASE RuleFails \/ StormCountFails
  <2>1. /\ pc \in {"rule", "flush"} /\ pc' = "rule" /\ todo # <<>> /\ todo \in Seq(Rule)
        /\ todo' = Tail(todo) /\ UNCHANGED <<txn, pending>>
    BY <1>1 DEF RuleFails, StormCountFails, CoreInv, EngineInv, TypeOK, dbVars
  <2>2. \A r : Queued(r)' => Queued(r)
    BY <2>1, TurnIsOver DEF AnnounceInv
  <2>3. ASSUME NEW x \in Alert
        PROVE  Tells(x, txn.rows[x])' /\ (InList(x)' => ~(Queued(RuleOf[x]))')
    <3>1. Tells(x, txn.rows[x]) /\ (InList(x) => ~Queued(RuleOf[x]))
      BY <2>1 DEF StoredInv
    <3>2. (Queued(RuleOf[x]))' => Queued(RuleOf[x])
      BY <2>2
    <3> QED BY <2>1, <3>1, <3>2 DEF Tells, InList
  <2> QED BY <2>1, <2>3 DEF StoredInv
<1>2. CASE Wake
  BY <1>2 DEF Wake, StoredInv, Tells, InList
<1> QED BY <1>1, <1>2

LEMMA StoredEnds ==
    ASSUME CoreInv, StoredInv,
           Commit \/ CommitFails \/ Housekeeping \/ Purge \/ Dispatch \/ Restart
    PROVE  StoredInv'
<1>1. CASE Commit
  BY <1>1 DEF Commit, AfterCycle, StoredInv, Tells
<1>2. CASE CommitFails
  BY <1>2 DEF CommitFails, AfterCycle, StoredInv, Tells
<1>3. CASE Housekeeping \/ Purge
  <2>1. /\ pc \in {"housekeeping", "purge"} /\ pc' \in {"purge", "dispatch"}
        /\ pending' = pending
    BY <1>3 DEF Housekeeping, Purge
  <2>2. ASSUME NEW x \in Alert
        PROVE  (Tells(x, db.rows[x]) \/ (Retention /\ db.rows[x].st = "none"))'
    <3>1. Tells(x, db.rows[x]) \/ (Retention /\ db.rows[x].st = "none")
      BY <2>1 DEF StoredInv
    <3>2. db.rows[x] \in Row
      BY DEF CoreInv, EngineInv, TypeOK, Store
    <3>3. CASE Housekeeping
      <4>1. \/ Alike(db'.rows[x], db.rows[x])
            \/ /\ Standing(db.rows[x]) /\ db'.rows[x].st = "resolved"
               /\ db'.rows[x].notified = db.rows[x].notified
            \/ db.rows[x].st = "suppressed"
        BY <3>3, SweepIs
      <4>2. db.rows[x].st = "suppressed" => ~InList(x)
        BY <3>1 DEF Tells, InList
      <4>3. CASE InList(x)
        BY <2>1, <3>1, <4>1, <4>2, <4>3 DEF Tells, Alike, Noted, Standing
      <4>4. CASE ~InList(x)
        BY <2>1, <4>4 DEF Tells, InList
      <4> QED BY <4>3, <4>4
    <3>4. CASE Purge
      <4>1. \/ db'.rows[x] = db.rows[x]
            \/ Retention /\ db'.rows[x] = NoRow
            \/ db'.rows[x] = [db.rows[x] EXCEPT !.parent = NoAlert]
        BY <3>4, PurgeIs
      <4> QED BY <2>1, <3>1, <3>2, <4>1 DEF Tells, Noted, Row, NoRow
    <3> QED BY <1>3, <3>3, <3>4
  <2> QED BY <2>1, <2>2 DEF StoredInv
<1>4. CASE Dispatch \/ Restart
  BY <1>4 DEF Dispatch, Restart, StoredInv
<1> QED BY <1>1, <1>2, <1>3, <1>4

LEMMA StoredRequests ==
    ASSUME CoreInv, StoredInv, ApiRead \/ ApiWrite PROVE StoredInv'
<1>1. UNCHANGED <<pc, todo, plan, pending>>
  BY DEF ApiRead, ApiWrite, cycleVars
<1>2. \A x \in Alert : /\ InList(x)' = InList(x) /\ Intends(x)' = Intends(x)
                       /\ Queued(RuleOf[x])' = Queued(RuleOf[x])
  BY <1>1 DEF InList, Intends, Queued
<1>3. CASE ApiRead
  BY <1>1, <1>2, <1>3 DEF ApiRead, dbVars, StoredInv, Tells
<1>4. CASE ApiWrite
  <2>1. ASSUME NEW x \in Alert
        PROVE  \/ Kept(x)
               \/ /\ txn.rows[x] = db.rows[x] /\ txn'.rows[x] = db'.rows[x]
                  /\ db.rows[x].st # "none"
                  /\ db'.rows[x].notified = db.rows[x].notified
                  /\ db'.rows[x].st \in {"acknowledged", "resolved"}
    <3>1. db.rows[x] \in Row
      BY DEF CoreInv, EngineInv, TypeOK, Store
    <3>2. CASE x = request.alert
      <4>1. db.rows[x].st = "none" => Kept(x)
        BY <1>4, <3>2 DEF ApiWrite, Kept
      <4> QED BY <1>4, <3>1, <3>2, <4>1, RequestWrites DEF CoreInv, Row
    <3>3. CASE x # request.alert
      BY <1>4, <3>3, RequestWrites DEF CoreInv
    <3> QED BY <3>2, <3>3
  <2>2. ASSUME NEW x \in Alert
        PROVE  /\ Tells(x, txn.rows[x]) => Tells(x, txn.rows[x])'
               /\ Tells(x, db.rows[x]) => Tells(x, db.rows[x])'
               /\ db.rows[x].st = "none" => db'.rows[x].st = "none"
    BY <1>1, <2>1 DEF Tells, Noted, Kept
  <2> QED BY <1>1, <1>2, <2>2 DEF StoredInv
<1> QED BY <1>3, <1>4

LEMMA StoredWaits ==
    ASSUME CoreInv, StoredInv, Environment \/ UNCHANGED vars PROVE StoredInv'
<1>1. CASE UNCHANGED vars
  BY <1>1 DEF vars, dbVars, cycleVars, StoredInv, Tells, InList, Intends, Queued
<1>2. CASE Environment
  <2>1. /\ UNCHANGED <<pc, todo, plan, pending>>
        /\ pc # "sleep" => db'.rows = db.rows /\ txn'.rows = txn.rows
    BY <1>2, EnvironmentIsQuiet DEF CoreInv, cycleVars
  <2>2. \A x \in Alert : /\ InList(x)' = InList(x) /\ Intends(x)' = Intends(x)
                         /\ Queued(RuleOf[x])' = Queued(RuleOf[x])
    BY <2>1 DEF InList, Intends, Queued
  <2> QED BY <2>1, <2>2 DEF StoredInv, Tells
<1> QED BY <1>1, <1>2

\* What goes out after a cycle is true of what was committed, for any rules and any
\* interleaving of requests with decisions and writes: the columns a late request
\* wrote are merged, a failed rule takes its notifications with its rows, a failed
\* commit takes all of them, and the sweeps before the dispatch undo none.
THEOREM AnnouncedIsStored == Spec => []AnnouncesWhatIsStored
<1>1. Init => AnnounceInv /\ StoredInv
  BY DEF Init, AnnounceInv, Distinct, Settled, Noted, NoRow, StoredInv
<1>2. CoreInv /\ (AnnounceInv /\ StoredInv) /\ [Next]_vars => (AnnounceInv /\ StoredInv)'
  <2>1. CoreInv /\ AnnounceInv /\ [Next]_vars => AnnounceInv'
    BY AnnounceDecides, AnnounceFlushes, AnnounceSkips, AnnounceWakes, AnnounceCommits,
       AnnounceEnds, AnnounceRequests, AnnounceWaits DEF Next, Engine, Cycle
  <2>2. CoreInv /\ AnnounceInv /\ StoredInv /\ [Next]_vars => StoredInv'
    BY StoredDecides, StoredFlushes, StoredSkips, StoredEnds, StoredRequests, StoredWaits
       DEF Next, Engine, Cycle
  <2> QED BY <2>1, <2>2
<1>3. AnnounceInv /\ StoredInv => AnnouncesWhatIsStored
  BY DEF StoredInv, AnnouncesWhatIsStored, Tells, Noted
<1> QED BY <1>1, <1>2, <1>3, CoreHolds, PTL DEF Spec

----------------------------------------------------------------------------
\* Where operators never resolve, no row is resolved by hand and nothing is held back.
NoHand ==
    /\ suppressUntil = {}
    /\ \A x \in Alert : ~db.rows[x].manual /\ ~txn.rows[x].manual
    /\ pc = "flush" => \A x \in Alert : ~plan.new[x].manual

LEMMA DecidedManual ==
    ASSUME CoreInv, NEW r, NEW x \in Alert, ~txn.rows[x].manual PROVE ~Decided(r)[x].manual
<1>1. txn.rows \in Rows /\ smap \in Maps
  BY DEF CoreInv, EngineInv, TypeOK, Store, Rows
<1>2. Decided(r)[x].manual = Fired(r)[x].manual
  BY <1>1, DecidedIs
<1>3. txn.rows[x] \in Row
  BY <1>1 DEF Rows
<1>4. Fired(r)[x] = IF x \in Created(r) THEN NewRow(x, Hidden(x, OspfSuppressed(r)))
                    ELSE IF x \in Firing(r)
                         THEN Revisit(txn.rows[x], x, DeviceOf[x] \in OspfSuppressed(r))
                         ELSE txn.rows[x]
  BY DEF Fired, AfterFiring
<1>5. \A h : ~NewRow(x, h).manual
  BY DEF NewRow, NoRow
<1>6. \A h : Revisit(txn.rows[x], x, h).manual = txn.rows[x].manual
  BY <1>3 DEF Revisit, Row
<1> QED BY <1>2, <1>4, <1>5, <1>6

\* Which steps change the holds.
LEMMA HoldSteps ==
    ASSUME CoreInv, [Next]_vars
    PROVE  \/ UNCHANGED <<suppressUntil, lastClear, clearSeen>>
           \/ Decide \/ StormCountFails \/ Purge \/ Restart \/ ApiRead
<1> USE DEF memory, history
<1>1. CASE UNCHANGED vars
  BY <1>1 DEF vars
<1>2. CASE ApiWrite
  BY <1>2 DEF ApiWrite
<1>3. CASE Environment
  BY <1>3, EnvironmentIsQuiet DEF CoreInv
<1>4. CASE Engine
  BY <1>4 DEF Engine, Cycle, Wake, Flush, Commit, Housekeeping, Dispatch, RuleFails, CommitFails
<1> QED BY <1>1, <1>2, <1>3, <1>4 DEF Next

LEMMA NoHandHolds ==
    ASSUME "resolve" \notin Events PROVE Spec => []NoHand
<1>1. Init => NoHand
  BY DEF Init, NoHand, NoRow
<1>2. CoreInv /\ NoHand /\ [Next]_vars => NoHand'
  <2> SUFFICES ASSUME CoreInv, NoHand, [Next]_vars PROVE NoHand'
    OBVIOUS
  <2>1. suppressUntil' = {}
    <3>1. \A r : ByHand(r) = {} /\ StillHeld(Breaches(r)) = {}
      BY DEF NoHand, ByHand, Idle, Firing, Breaches, AlertsOf, ResolvedByHand, StillHeld
    <3>2. CASE Decide
      BY <3>1, <3>2, DecideIs
    <3>3. CASE StormCountFails
      <4>1. PICK begun \in SUBSET ByHand(Head(todo)) :
              suppressUntil' = StillHeld(Breaches(Head(todo))) \cup begun
        BY <3>3 DEF StormCountFails
      <4> QED BY <3>1, <4>1
    <3>4. CASE Purge \/ Restart
      BY <3>4 DEF Purge, Restart, NoHand
    <3>5. CASE UNCHANGED suppressUntil \/ ApiRead
      BY <3>5 DEF ApiRead, NoHand
    <3> QED BY <3>2, <3>3, <3>4, <3>5, HoldSteps
  <2>2. ASSUME NEW x \in Alert, pc' = "flush" PROVE ~plan'.new[x].manual
    <3>1. CASE Decide
      BY <3>1, DecideIs, DecidedManual DEF Decided, NoHand
    <3>2. CASE pc = "flush" /\ plan' = plan
      BY <3>2 DEF NoHand
    <3> QED BY <2>2, <3>1, <3>2, BetweenDecisionAndWrite DEF CoreInv
  <2>3. ASSUME NEW x \in Alert PROVE ~db'.rows[x].manual /\ ~txn'.rows[x].manual
    <3>1. ~db.rows[x].manual /\ ~txn.rows[x].manual /\ db.rows[x] \in Row
      BY DEF NoHand, CoreInv, EngineInv, TypeOK, Store
    <3>2. CASE Flush
      <4>1. db' = db /\ ~plan.new[x].manual
        BY <3>2 DEF Flush, NoHand
      <4> QED BY <3>1, <3>2, <4>1, WrittenIs
    <3>3. CASE Commit \/ CommitFails \/ Restart
      BY <3>1, <3>3 DEF Commit, CommitFails, Restart
    <3>4. CASE Housekeeping
      BY <3>1, <3>4, SweepIs
    <3>5. CASE Purge
      <4>1. /\ txn' = db'
            /\ \/ db'.rows[x] = db.rows[x]
               \/ db'.rows[x] = NoRow
               \/ db'.rows[x] = [db.rows[x] EXCEPT !.parent = NoAlert]
        BY <3>5, PurgeIs
      <4> QED BY <3>1, <4>1 DEF NoRow, Row
    <3>6. CASE ApiWrite
      <4>1. request.kind # "resolve"
        BY DEF CoreInv, MergeInv
      <4>2. Kept(x) \/ /\ db'.rows[x] = txn'.rows[x]
                       /\ db'.rows[x] = [db.rows[x] EXCEPT !.st = "acknowledged"]
        BY <3>6, <4>1, RequestWrites DEF CoreInv
      <4> QED BY <3>1, <4>2 DEF Kept, Row
    <3>7. CASE Alike(db'.rows[x], db.rows[x]) /\ Alike(txn'.rows[x], txn.rows[x])
      BY <3>1, <3>7 DEF Alike
    <3> QED BY <3>2, <3>3, <3>4, <3>5, <3>6, <3>7, RowSteps
  <2> QED BY <2>1, <2>2, <2>3 DEF NoHand
<1> QED BY <1>1, <1>2, CoreHolds, PTL DEF Spec

----------------------------------------------------------------------------
\* The status column follows the device's only device_down alert.
Marked(s) == \A x \in DeviceDowns : s.status[DeviceOf[x]] = "unreachable" => Active(s.rows[x])

Marking(x) ==
    LET o == plan.old[x]
        n == plan.new[x]
    IN  /\ DeviceOf[x] \in plan.unreachable \/ x \in plan.created => Active(n)
        /\ n.st # o.st => Active(n) \/ n.st = "resolved"

MarkInv ==
    /\ Marked(db) /\ Marked(txn)
    /\ pc = "flush" => \A x \in DeviceDowns : Marking(x)

\* At most one device_down rule watches a device.
OneDownEach == \A x, y \in DeviceDowns : DeviceOf[x] = DeviceOf[y] => x = y

LEMMA DecisionMarks ==
    ASSUME CoreInv, NoHand, StormLimit = 0, OneDownEach, Decide, NEW x \in DeviceDowns
    PROVE  Marking(x)'
<1> DEFINE r == Head(todo)
           o == txn.rows[x]
           f == Fired(r)[x]
           n == Decided(r)[x]
<1>1. /\ plan'.old = txn.rows /\ plan'.new = Decided(r) /\ plan'.created = Created(r)
      /\ plan'.unreachable = {DeviceOf[y] : y \in Firing(r) \cap DeviceDowns}
  BY DecideIs DEF Decided
<1>2. x \in Alert /\ txn.rows \in Rows /\ smap \in Maps /\ o \in Row
  BY DEF CoreInv, EngineInv, TypeOK, Store, Rows, DeviceDowns
<1>3. \/ n.st = f.st /\ x \notin Done(r)
      \/ x \in Done(r) /\ n.st = "resolved"
      \/ n.st = "open" /\ x \notin Done(r)
  BY <1>2, DecidedIs
<1>4. /\ x \in Created(r) => f.st \in {"open", "suppressed"}
      /\ x \notin Created(r) => f.st = o.st \/ f.st \in {"open", "suppressed"}
  <2>1. x \in Created(r) => f = NewRow(x, Hidden(x, OspfSuppressed(r)))
    BY <1>2, FiredIs
  <2>2. \A h : NewRow(x, h).st \in {"open", "suppressed"}
    BY DEF NewRow, NoRow
  <2>3. x \notin Created(r) => f = o \/ f.st \in {"open", "suppressed"}
    BY <1>2, FiredIs
  <2> QED BY <2>1, <2>2, <2>3
<1>5. x \in Created(r) => x \in Firing(r)
  BY DEF Created, Wanted, Idle
<1>6. DeviceOf[x] \in plan'.unreachable => x \in Firing(r)
  BY <1>1 DEF OneDownEach
<1>7. x \in Firing(r) => Active(n)
  <2>1. ASSUME x \in Firing(r) PROVE x \notin Done(r)
    BY <2>1, DoneTyped
  <2>2. ASSUME x \in Firing(r), ~Active(o) PROVE x \in Created(r)
    <3>1. x \in Idle(r) /\ ~ResolvedByHand(o)
      BY <1>2, <2>2 DEF Idle, NoHand, StillHeld, ResolvedByHand
    <3>2. ~StormFull(DeviceOf[x])
      BY EngineAssumption DEF StormFull
    <3> QED BY <3>1, <3>2 DEF Created, Wanted, ByHand
  <2> HIDE DEF r, o, f, n
  <2> QED BY <1>3, <1>4, <2>1, <2>2 DEF Active
<1>8. n.st # o.st => Active(n) \/ n.st = "resolved"
  <2> HIDE DEF r, o, f, n
  <2> QED BY <1>3, <1>4, <1>5, <1>7 DEF Active
<1> QED BY <1>1, <1>5, <1>6, <1>7, <1>8 DEF Marking

LEMMA EnvironmentNeverMarks ==
    ASSUME CoreInv, Environment, NEW d \in Device
    PROVE  /\ db'.status[d] = "unreachable" => db.status[d] = "unreachable"
           /\ txn'.status[d] = "unreachable" => txn.status[d] = "unreachable"
<1>1. db \in Store /\ txn \in Store
  BY DEF CoreInv, EngineInv, TypeOK
<1>2. CASE ConditionChanges \/ PollsStop \/ MaintenanceChanges \/ RulesChange
  BY <1>2 DEF ConditionChanges, PollsStop, MaintenanceChanges, RulesChange, dbVars
<1>3. CASE Polled \/ Reported
  <2>1. \E e, v : /\ v \in {"up", "reported"}
                  /\ db' = [db EXCEPT !.status[e] = v] /\ txn' = [txn EXCEPT !.status[e] = v]
    <3>1. CASE Polled
      <4>1. PICK e : db' = [db EXCEPT !.status[e] = "up"] /\ txn' = [txn EXCEPT !.status[e] = "up"]
        BY <3>1 DEF Polled
      <4> QED BY <4>1
    <3>2. CASE Reported
      <4>1. PICK e : /\ db' = [db EXCEPT !.status[e] = "reported"]
                     /\ txn' = [txn EXCEPT !.status[e] = "reported"]
        BY <3>2 DEF Reported
      <4> QED BY <4>1
    <3> QED BY <1>3, <3>1, <3>2
  <2> QED BY <1>1, <2>1 DEF Store
<1>4. CASE TimePasses
  <2>1. ASSUME NEW new, Later(new), new.status = db.status
        PROVE  db'.status = db.status /\ txn'.status = txn.status
    BY <2>1 DEF Later, CoreInv, HalfDoneInv
  <2>2. ASSUME NEW x \in Alert, GateElapses(x) \/ ClearElapses(x) PROVE db' = db /\ txn' = txn
    BY <2>2 DEF GateElapses, ClearElapses, dbVars
  <2>3. /\ \A x, v : [db EXCEPT !.rows[x].notified = v].status = db.status
        /\ \A x, v : [db EXCEPT !.rows[x].age = v].status = db.status
        /\ [db EXCEPT !.recent[d] = @ - 1].status = db.status
        /\ [db EXCEPT !.storms[d] = @ - 1].status = db.status
    BY <1>1 DEF Store
  <2>4. \A e : /\ [db EXCEPT !.recent[e] = @ - 1].status = db.status
               /\ [db EXCEPT !.storms[e] = @ - 1].status = db.status
    BY <1>1 DEF Store
  <2>5. CASE \E x \in Alert : GateElapses(x) \/ ClearElapses(x)
    BY <2>2, <2>5
  <2>6. CASE \E x \in Alert : ReminderDue(x) \/ GrowsOld(x)
    BY <2>1, <2>3, <2>6 DEF ReminderDue, GrowsOld
  <2>7. CASE \E e \in Device : HourPasses(e)
    BY <2>1, <2>4, <2>7 DEF HourPasses
  <2> QED BY <1>4, <2>5, <2>6, <2>7 DEF TimePasses
<1> QED BY <1>2, <1>3, <1>4 DEF Environment

LEMMA FlushMarks ==
    ASSUME CoreInv, MarkInv, "resolve" \notin Events, Flush PROVE Marked(txn')
<1> SUFFICES ASSUME NEW x \in DeviceDowns, txn'.status[DeviceOf[x]] = "unreachable"
             PROVE  Active(txn'.rows[x])
  BY DEF Marked
<1> DEFINE d == DeviceOf[x]
           n == plan.new[x]
           o == plan.old[x]
           t == txn.rows[x]
           w == txn'.rows[x]
           down == {DeviceOf[y] : y \in {y \in DeviceDowns :
                      plan.old[y].st # "resolved" /\ plan.new[y].st = "resolved"}}
<1>1. x \in Alert /\ d \in Device /\ pc = "flush" /\ txn \in Store
  BY AlertsAreTyped DEF Flush, DeviceDowns, CoreInv, EngineInv, TypeOK
<1>2. txn'.status = StatusAfter(txn.status, plan.unreachable, down)
  BY <1>1 DEF Flush, Store
<1>3. Marking(x) /\ (t.st # o.st => t.st = "acknowledged")
  BY <1>1 DEF MarkInv, CoreInv, MergeInv, Merged
<1>4. w.st = IF x \notin plan.created /\ n.st = o.st THEN t.st ELSE n.st
  BY <1>1, WrittenIs
<1>5. d \in plan.unreachable \/ (txn.status[d] = "unreachable" /\ d \notin down)
  BY <1>1, <1>2 DEF StatusAfter
<1>6. d \notin down => ~(o.st # "resolved" /\ n.st = "resolved")
  OBVIOUS
<1>7. txn.status[d] = "unreachable" => Active(t)
  BY DEF MarkInv, Marked
<1> HIDE DEF d, n, o, t, w, down
<1>8. /\ d \in plan.unreachable \/ x \in plan.created => Active(n)
      /\ n.st # o.st => Active(n) \/ n.st = "resolved"
  BY <1>3 DEF Marking, d, n, o
<1>9. Active(w)
  <2>1. CASE x \notin plan.created /\ n.st = o.st
    BY <1>3, <1>4, <1>5, <1>7, <1>8, <2>1 DEF Active
  <2>2. CASE ~(x \notin plan.created /\ n.st = o.st)
    <3>1. Active(n)
      BY <1>5, <1>6, <1>8, <2>2 DEF Active
    <3> QED BY <1>4, <2>2, <3>1 DEF Active
  <2> QED BY <2>1, <2>2
<1> QED BY <1>9 DEF w

\* Without manual resolves, storm protection and the sweeps that close or delete
\* alerts, a device watched by one device_down rule is left marked unreachable only
\* while that alert is active: a failed rule, commit or process takes back the mark
\* and the alert together, and a poll that slips in between only takes back the mark.
THEOREM MarkedHasAlert ==
    ASSUME StormLimit = 0, "resolve" \notin Events, ~AutoClose, ~Retention, OneDownEach
    PROVE  Spec => []UnreachableHasAlert
<1>1. Init => MarkInv
  <2>1. Init => \A x \in DeviceDowns : db.status[DeviceOf[x]] = "up"
    BY AlertsAreTyped DEF Init, DeviceDowns
  <2> QED BY <2>1 DEF Init, MarkInv, Marked
<1>2. CoreInv /\ NoHand /\ MarkInv /\ [Next]_vars => MarkInv'
  <2> SUFFICES ASSUME CoreInv, NoHand, MarkInv, [Next]_vars PROVE MarkInv'
    OBVIOUS
  <2>1. ASSUME NEW x \in DeviceDowns, pc' = "flush" PROVE Marking(x)'
    <3>1. CASE Decide
      BY <3>1, DecisionMarks
    <3>2. CASE pc = "flush" /\ plan' = plan
      BY <3>2 DEF MarkInv, Marking
    <3> QED BY <2>1, <3>1, <3>2, BetweenDecisionAndWrite DEF CoreInv
  <2>2. CASE Flush
    BY <2>1, <2>2, FlushMarks DEF Flush, MarkInv, Marked
  <2>3. CASE Commit \/ CommitFails \/ Restart
    BY <2>1, <2>3 DEF Commit, CommitFails, Restart, MarkInv, Marked
  <2>4. ASSUME \A x \in DeviceDowns :
                 /\ Active(db.rows[x]) => Active(db'.rows[x])
                 /\ Active(txn.rows[x]) => Active(txn'.rows[x])
                 /\ db'.status[DeviceOf[x]] = "unreachable"
                      => db.status[DeviceOf[x]] = "unreachable"
                 /\ txn'.status[DeviceOf[x]] = "unreachable"
                      => txn.status[DeviceOf[x]] = "unreachable"
        PROVE  MarkInv'
    BY <2>1, <2>4 DEF MarkInv, Marked
  <2>5. \A x \in DeviceDowns : x \in Alert /\ DeviceOf[x] \in Device
    BY AlertsAreTyped DEF DeviceDowns
  <2>6. CASE Environment
    <3>1. \A x \in Alert : /\ Active(db.rows[x]) => Active(db'.rows[x])
                           /\ Active(txn.rows[x]) => Active(txn'.rows[x])
      BY <2>6, EnvironmentIsQuiet DEF CoreInv, Alike, Active
    <3> QED BY <2>4, <2>5, <2>6, <3>1, EnvironmentNeverMarks
  <2>7. CASE Housekeeping \/ Purge
    <3>1. \A x \in Alert : Active(db.rows[x]) => Active(db'.rows[x])
      <4>1. CASE Housekeeping
        BY <4>1, SweepIs DEF Alike, Active
      <4>2. CASE Purge
        BY <4>2, PurgeIs
      <4> QED BY <2>7, <4>1, <4>2
    <3>2. txn = db /\ txn' = db'
      BY <2>7 DEF Housekeeping, Purge, CoreInv, HalfDoneInv
    <3>3. db'.status = db.status
      <4>1. db \in Store
        BY DEF CoreInv, EngineInv, TypeOK
      <4>2. CASE Housekeeping
        <5>1. \E rows, storm : db' = [db EXCEPT !.rows = rows, !.storm = storm]
          BY <4>2 DEF Housekeeping
        <5> QED BY <4>1, <5>1 DEF Store
      <4>3. CASE Purge
        <5>1. \E rows, order : db' = [db EXCEPT !.rows = rows, !.order = order]
          BY <4>3 DEF Purge
        <5> QED BY <4>1, <5>1 DEF Store
      <4> QED BY <2>7, <4>2, <4>3
    <3> QED BY <2>4, <2>5, <3>1, <3>2, <3>3
  <2>8. CASE ApiWrite
    <3>1. db'.status = db.status /\ txn'.status = txn.status
      <4>1. db \in Store /\ txn \in Store
        BY DEF CoreInv, EngineInv, TypeOK
      <4>2. \/ db' = db /\ txn' = txn
            \/ \E x, v : db' = [db EXCEPT !.rows[x] = v] /\ \E u : txn' = [txn EXCEPT !.rows[x] = u]
        BY <2>8 DEF ApiWrite
      <4> QED BY <4>1, <4>2 DEF Store
    <3>2. request.kind # "resolve"
      BY DEF CoreInv, MergeInv
    <3>3. ASSUME NEW x \in Alert
          PROVE  /\ Active(db.rows[x]) => Active(db'.rows[x])
                 /\ Active(txn.rows[x]) => Active(txn'.rows[x])
      <4>1. db.rows[x] \in Row
        BY DEF CoreInv, EngineInv, TypeOK, Store
      <4>2. \/ Kept(x)
            \/ /\ db'.rows[x] = txn'.rows[x]
               /\ db'.rows[x] = [db.rows[x] EXCEPT !.st = "acknowledged"]
        BY <2>8, <3>2, RequestWrites DEF CoreInv
      <4> QED BY <4>1, <4>2 DEF Kept, Active, Row
    <3> QED BY <2>4, <2>5, <3>1, <3>3
  <2>9. CASE UNCHANGED <<db, txn>>
    BY <2>4, <2>9
  <2>10. CASE Wake \/ Decide \/ StormCountFails \/ RuleFails \/ Dispatch \/ ApiRead \/ UNCHANGED vars
    BY <2>9, <2>10 DEF Wake, Decide, StormCountFails, RuleFails, Dispatch, ApiRead, vars, dbVars
  <2> QED BY <2>2, <2>3, <2>6, <2>7, <2>8, <2>10 DEF Next, Engine, Cycle
<1>3. MarkInv => UnreachableHasAlert
  BY DEF MarkInv, Marked, UnreachableHasAlert
<1>4. Spec => []NoHand
  BY NoHandHolds
<1> QED BY <1>1, <1>2, <1>3, <1>4, CoreHolds, PTL DEF Spec
=============================================================================
