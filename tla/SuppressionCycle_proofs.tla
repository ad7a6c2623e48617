----------------------- MODULE SuppressionCycle_proofs -----------------------
(***************************************************************************)
(* Proofs about the suppression map, for every network, every order of     *)
(* failures and every set of open interface alerts.                        *)
(***************************************************************************)
EXTENDS SuppressionCycle, RecursionLemmas, FiniteSetTheorems, TLAPS

All(o) == UNION {o[i] : i \in DOMAIN o}

(* A sequence of disjoint sets of device_down alerts.                      *)
Ordered(o) ==
    /\ \E n \in Nat : DOMAIN o = 1..n
    /\ \A i \in DOMAIN o : o[i] \subseteq DownAlerts
    /\ \A i, j \in DOMAIN o : i # j => o[i] \cap o[j] = {}

LEMMA OrderShape ==
    ASSUME NEW o, Ordered(o)
    PROVE  All(o) \subseteq DownAlerts /\ IsFiniteSet(All(o))
<1>1. All(o) \subseteq DownAlerts
  BY DEF Ordered, All
<1> QED BY <1>1, CycleAssumption, SuppressionAssumption, FS_Subset

LEMMA OrdersAreOrdered ==
    ASSUME NEW S \in SUBSET DownAlerts, NEW o \in Orders(S) PROVE Ordered(o)
<1>1. IsFiniteSet(S) /\ Cardinality(S) \in Nat
  BY CycleAssumption, SuppressionAssumption, FS_Subset, FS_CardinalityType
<1>2. /\ \A i, j \in DOMAIN o : i # j => o[i] \cap o[j] = {}
      /\ \E n \in 0..Cardinality(S) : o \in [1..n -> SUBSET S \ {{}}]
  BY DEF Orders
<1> QED BY <1>1, <1>2 DEF Ordered

LEMMA RankIs ==
    ASSUME NEW o, Ordered(o), NEW i \in DOMAIN o, NEW x \in o[i] PROVE Rank(o, x) = i
<1>1. \A j \in DOMAIN o : x \in o[j] => j = i
  BY DEF Ordered
<1> QED BY <1>1 DEF Rank

(* The rows of the database: every alert once, in the order of the ranks.  *)
LEMMA SeqShape ==
    ASSUME NEW o, Ordered(o), NEW s \in Linearisations(o)
    PROVE  /\ s \in Seq(DownAlerts) /\ DOMAIN s = 1..Len(s)
           /\ Len(s) = Cardinality(All(o)) /\ Len(s) \in Nat
           /\ \A i \in DOMAIN s : s[i] \in All(o)
           /\ \A x \in All(o) : \E i \in DOMAIN s : s[i] = x
           /\ \A i, j \in DOMAIN s : i < j => Rank(o, s[i]) <= Rank(o, s[j])
<1> DEFINE N == Cardinality(All(o))
<1>1. IsFiniteSet(All(o)) /\ All(o) \subseteq DownAlerts /\ N \in Nat
  BY OrderShape, FS_CardinalityType
<1>2. /\ s \in [1..N -> All(o)]
      /\ \A i, j \in DOMAIN s : s[i] = s[j] => i = j
      /\ \A i, j \in DOMAIN s : i < j => Rank(o, s[i]) <= Rank(o, s[j])
  BY DEF Linearisations, All
<1> HIDE DEF N
<1>3. s \in Seq(All(o)) /\ Len(s) = N
  BY <1>1, <1>2
<1>4. Cardinality(1..N) = N /\ IsFiniteSet(1..N)
  BY <1>1, FS_Interval
<1>5. s \in Injection(1..N, All(o))
  BY <1>2 DEF Injection, IsInjective
<1>6. s \in Surjection(1..N, All(o))
  BY <1>1, <1>4, <1>5, FS_Injection DEF N
<1> QED BY <1>1, <1>2, <1>3, <1>6 DEF Surjection, N
-----------------------------------------------------------------------------
(* The view of one evaluation of the network.                              *)
IsView(v) ==
    /\ net.adj \in [Device -> SUBSET Device] /\ Ordered(net.order)
    /\ v = [adj |-> net.adj, order |-> net.order, seq |-> v.seq]
    /\ v.seq \in Linearisations(net.order)

LEMMA ViewShape ==
    ASSUME NEW v, IsView(v)
    PROVE  /\ v.order = net.order /\ v.adj = net.adj
           /\ Ordered(net.order) /\ net.adj \in [Device -> SUBSET Device]
           /\ v.seq \in Seq(DownAlerts) /\ DOMAIN v.seq = 1..Len(v.seq)
           /\ Len(v.seq) \in Nat
           /\ Failed \subseteq Device /\ DownDevices(v) = Failed
<1>1. /\ v.order = net.order /\ v.adj = net.adj
      /\ Ordered(net.order) /\ net.adj \in [Device -> SUBSET Device]
      /\ v.seq \in Linearisations(net.order)
  BY DEF IsView
<1>2. /\ v.seq \in Seq(DownAlerts) /\ DOMAIN v.seq = 1..Len(v.seq) /\ Len(v.seq) \in Nat
      /\ \A i \in DOMAIN v.seq : v.seq[i] \in All(net.order)
      /\ \A x \in All(net.order) : \E i \in DOMAIN v.seq : v.seq[i] = x
  BY <1>1, SeqShape
<1>3. Failed = {DeviceOf[x] : x \in All(net.order)}
  BY DEF Failed, All
<1>4. DownDevices(v) = Failed
  BY <1>2, <1>3 DEF DownDevices
<1>5. Failed \subseteq Device
  BY <1>1, <1>3, OrderShape, CycleAssumption, SuppressionAssumption
<1> QED BY <1>1, <1>2, <1>4, <1>5

LEMMA FirstAlertIs ==
    ASSUME NEW v, IsView(v), NEW d \in Failed
    PROVE  \E i \in DOMAIN v.seq :
             /\ FirstAlert(v, d) = v.seq[i] /\ DeviceOf[v.seq[i]] = d
             /\ \A j \in 1..(i - 1) : DeviceOf[v.seq[j]] # d
<1> DEFINE T == {i \in DOMAIN v.seq : DeviceOf[v.seq[i]] = d}
           First(i) == DeviceOf[v.seq[i]] = d /\ \A j \in 1..(i - 1) : DeviceOf[v.seq[j]] # d
<1>1. T \subseteq Nat /\ T # {}
  BY ViewShape DEF DownDevices
<1>2. PICK i \in T : \A j \in T : i <= j
  <2> HIDE DEF T
  <2> QED BY <1>1, LeastNatural
<1>3. i \in DOMAIN v.seq /\ First(i)
  <2>1. \A j \in 1..(i - 1) : j \in DOMAIN v.seq /\ j < i
    BY ViewShape, <1>1
  <2> QED BY <1>1, <1>2, <2>1
<1>4. First(CHOOSE k \in DOMAIN v.seq : First(k))
      /\ (CHOOSE k \in DOMAIN v.seq : First(k)) \in DOMAIN v.seq
  <2> HIDE DEF First
  <2> QED BY <1>3
<1>5. FirstAlert(v, d) = v.seq[CHOOSE k \in DOMAIN v.seq : First(k)]
  BY DEF FirstAlert
<1> QED BY <1>4, <1>5

(* What the code compares, the time of a device's first row, is the rank   *)
(* of the device's earliest alert.                                         *)
LEMMA TimeIsWhen ==
    ASSUME NEW v, IsView(v), NEW d \in Failed PROVE Time(v, d) = When(d)
<1> DEFINE W == {i \in DOMAIN net.order : \E x \in net.order[i] : DeviceOf[x] = d}
<1>1. PICK i \in DOMAIN v.seq :
        /\ FirstAlert(v, d) = v.seq[i] /\ DeviceOf[v.seq[i]] = d
        /\ \A j \in 1..(i - 1) : DeviceOf[v.seq[j]] # d
  BY FirstAlertIs
<1>2. /\ Ordered(net.order) /\ v.order = net.order /\ v.seq \in Linearisations(net.order)
      /\ DOMAIN v.seq = 1..Len(v.seq) /\ Len(v.seq) \in Nat
  BY ViewShape DEF IsView
<1>3. /\ \A k \in DOMAIN v.seq : v.seq[k] \in All(net.order)
      /\ \A x \in All(net.order) : \E k \in DOMAIN v.seq : v.seq[k] = x
      /\ \A j, k \in DOMAIN v.seq :
            j < k => Rank(net.order, v.seq[j]) <= Rank(net.order, v.seq[k])
  BY <1>2, SeqShape
<1>4. PICK t \in DOMAIN net.order : v.seq[i] \in net.order[t]
  BY <1>1, <1>3 DEF All
<1>5. t \in W /\ Time(v, d) = t
  BY <1>1, <1>2, <1>4, RankIs DEF Time
<1>6. W \subseteq Nat
  BY <1>2 DEF Ordered
<1>7. ASSUME NEW u \in W PROVE t <= u
  <2>1. PICK y \in net.order[u] : DeviceOf[y] = d
    OBVIOUS
  <2>2. PICK j \in DOMAIN v.seq : v.seq[j] = y
    BY <1>3, <2>1 DEF All
  <2>3. i = j \/ i < j
    BY <1>1, <1>2, <2>1, <2>2
  <2>4. Rank(net.order, v.seq[j]) = u /\ Rank(net.order, v.seq[i]) = t
    BY <1>2, <1>4, <2>1, <2>2, RankIs
  <2> QED BY <1>3, <1>5, <1>6, <2>3, <2>4
<1>8. Min(W) = t
  <2>1. \A x \in W : (\A y \in W : x <= y) => x = t
    BY <1>5, <1>6, <1>7
  <2> HIDE DEF W
  <2> QED BY <1>5, <1>7, <2>1 DEF Min
<1> QED BY <1>5, <1>8 DEF When
-----------------------------------------------------------------------------
(* The breadth-first walk: the function behind Casualties satisfies the    *)
(* equation that defines it.                                               *)
LEMMA DeviceCount == Cardinality(Device) \in Nat
BY SuppressionAssumption, FS_CardinalityType

LEMMA CasualtiesLayers ==
    ASSUME NEW v, NEW root, NEW seen
    PROVE  \E lost \in [0..Cardinality(Device) -> SUBSET Device] :
             /\ lost[0] = {} /\ Casualties(v, root, seen) = lost[Cardinality(Device)]
             /\ \A n \in 1..Cardinality(Device) : lost[n] = Spread(v, root, seen, lost[n - 1])
<1> DEFINE N == Cardinality(Device)
           h == [n \in 1..N |-> [L \in SUBSET Device |-> Spread(v, root, seen, L)]]
           Layers(g) == g = [n \in 0..N |-> IF n = 0 THEN {} ELSE Spread(v, root, seen, g[n - 1])]
<1>1. N \in Nat
  BY DeviceCount
<1>2. \A L \in SUBSET Device : Spread(v, root, seen, L) \in SUBSET Device
  BY DEF Spread, Unseen
<1>3. h \in [1..N -> [SUBSET Device -> SUBSET Device]]
  BY <1>2
<1>4. PICK g \in [0..N -> SUBSET Device] :
          g[0] = {} /\ \A n \in 1..N : g[n] = h[n][g[n - 1]]
  <2> DEFINE Sets == SUBSET Device
  <2>1. {} \in Sets /\ h \in [1..N -> [Sets -> Sets]]
    BY <1>3
  <2> HIDE DEF h, N, Sets
  <2>2. \E g \in [0..N -> Sets] : g[0] = {} /\ \A n \in 1..N : g[n] = h[n][g[n - 1]]
    BY <1>1, <2>1, RecursionExists
  <2> QED BY <2>2 DEF Sets
<1>5. \A n \in 1..N : n - 1 \in 0..N /\ n \in 0..N
  BY <1>1
<1>6. \A n \in 1..N : g[n] = Spread(v, root, seen, g[n - 1])
  BY <1>4, <1>5
<1>7. Layers(g)
  <2> HIDE DEF N
  <2>1. \A n \in 0..N : n = 0 \/ n \in 1..N
    BY <1>1
  <2> QED BY <1>4, <1>6, <2>1
<1> DEFINE lost == CHOOSE f : Layers(f)
<1>8. Casualties(v, root, seen) = lost[N]
  BY DEF Casualties
<1>9. Layers(lost)
  <2> HIDE DEF Layers
  <2> QED BY <1>7
<1>10. lost = g
  <2> HIDE DEF lost, h
  <2> DEFINE T == {n \in 0..N : lost[n] = g[n]}
  <2>1. 0 \in T
    BY <1>1, <1>4, <1>9
  <2>2. ASSUME NEW n \in 1..N, n - 1 \in T PROVE n \in T
    <3>1. lost[n - 1] = g[n - 1] /\ n \in 0..N /\ n # 0
      BY <1>1, <1>5, <2>2
    <3> HIDE DEF N
    <3>2. lost[n] = Spread(v, root, seen, lost[n - 1])
      BY <1>9, <3>1
    <3> QED BY <1>6, <3>1, <3>2
  <2>3. \A n \in 0..N : n \in T
    <3> HIDE DEF T, N
    <3> QED BY <1>1, <2>1, <2>2, IntervalInduction
  <2> QED BY <1>4, <1>9, <2>3
<1> QED BY <1>4, <1>6, <1>8, <1>10

(* A path of n devices from the root.                                      *)
LEMMA PathGrows ==
    ASSUME NEW root \in Failed, NEW cur, NEW n \in Nat, NEW p \in [0..n -> Failed],
           Leads(p, n, root, cur), NEW d \in Failed, d \in net.adj[cur],
           net.adj[d] \subseteq Failed, When(d) >= When(root)
    PROVE  \E q \in [0..(n + 1) -> Failed] : Leads(q, n + 1, root, d)
<1> DEFINE q == [i \in 0..(n + 1) |-> IF i = n + 1 THEN d ELSE p[i]]
<1>1. \A i \in 0..(n + 1) : i = n + 1 \/ (i \in 0..n /\ i # n + 1)
  OBVIOUS
<1>2. q \in [0..(n + 1) -> Failed]
  BY <1>1
<1>3. n + 1 \in 0..(n + 1) /\ n \in 0..(n + 1) /\ 0 \in 0..(n + 1) /\ n # n + 1 /\ 0 # n + 1
  OBVIOUS
<1>4. q[n + 1] = d /\ q[n] = cur /\ q[0] = root
  BY <1>3 DEF Leads
<1>5. ASSUME NEW i \in 1..(n + 1)
      PROVE  /\ q[i] \in net.adj[q[i - 1]] /\ net.adj[q[i]] \subseteq Failed
             /\ When(q[i]) >= When(root)
  <2>1. CASE i = n + 1
    <3>1. i - 1 = n
      BY <2>1
    <3> HIDE DEF q
    <3> QED BY <1>4, <2>1, <3>1
  <2>2. CASE i # n + 1
    <3>1. i \in 1..n /\ i \in 0..(n + 1) /\ i - 1 \in 0..(n + 1) /\ i - 1 # n + 1
      BY <2>2
    <3>2. q[i] = p[i] /\ q[i - 1] = p[i - 1]
      BY <2>2, <3>1
    <3> HIDE DEF q
    <3> QED BY <3>1, <3>2 DEF Leads
  <2> QED BY <2>1, <2>2
<1> HIDE DEF q
<1>6. Leads(q, n + 1, root, d)
  BY <1>4, <1>5 DEF Leads
<1> QED BY <1>2, <1>6

(* Whatever a root makes a casualty is a failed device nobody visited yet, *)
(* and a path explains it.                                                 *)
LEMMA CasualtiesExplained ==
    ASSUME NEW v, IsView(v), NEW root \in Failed, NEW seen,
           NEW d \in Casualties(v, root, seen)
    PROVE  d \in Failed /\ d \notin seen /\ Explains(root, d)
<1> DEFINE N == Cardinality(Device)
           Reached(n, e) == /\ e \in Failed /\ e \notin seen
                            /\ \E k \in 1..n : \E p \in [0..k -> Failed] : Leads(p, k, root, e)
<1>1. PICK lost \in [0..N -> SUBSET Device] :
        /\ lost[0] = {} /\ Casualties(v, root, seen) = lost[N]
        /\ \A n \in 1..N : lost[n] = Spread(v, root, seen, lost[n - 1])
  BY CasualtiesLayers
<1> DEFINE T == {n \in 0..N : \A e \in lost[n] : Reached(n, e)}
<1>2. N \in Nat
  BY DeviceCount
<1>3. 0 \in T
  BY <1>1, <1>2
<1>4. ASSUME NEW n \in 1..N, n - 1 \in T PROVE n \in T
  <2>1. n - 1 \in 0..N /\ n \in 0..N /\ n - 1 \in Nat /\ n \in Nat /\ (n - 1) + 1 = n
    BY <1>2
  <2> SUFFICES ASSUME NEW e \in lost[n] PROVE Reached(n, e)
    BY <2>1
  <2>2. \A f \in lost[n - 1] : Reached(n - 1, f)
    BY <1>4
  <2>3. CASE e \in lost[n - 1]
    <3>1. PICK k \in 1..(n - 1) : \E p \in [0..k -> Failed] : Leads(p, k, root, e)
      BY <2>2, <2>3
    <3>2. k \in 1..n
      BY <2>1
    <3> QED BY <2>2, <2>3, <3>1, <3>2
  <2>4. CASE e \notin lost[n - 1]
    <3>1. /\ e \in Unseen(seen) /\ Eligible(v, root, e)
          /\ \E c \in lost[n - 1] \cup {root} : e \in v.adj[c]
      BY <1>1, <2>4 DEF Spread
    <3>2. PICK c \in lost[n - 1] \cup {root} : e \in net.adj[c]
      BY <3>1, ViewShape
    <3>3. /\ e \in Failed /\ e \notin seen /\ net.adj[e] \subseteq Failed
          /\ When(e) >= When(root)
      BY <3>1, ViewShape, TimeIsWhen DEF Eligible, Unseen
    <3>4. PICK k \in 0..(n - 1) : \E p \in [0..k -> Failed] : Leads(p, k, root, c)
      <4>1. CASE c = root
        <5> DEFINE p == [i \in 0..0 |-> root]
        <5>1. p \in [0..0 -> Failed] /\ p[0] = root
          OBVIOUS
        <5>2. Leads(p, 0, root, c)
          BY <4>1, <5>1 DEF Leads
        <5>3. 0 \in 0..(n - 1)
          BY <2>1
        <5> HIDE DEF p
        <5> QED BY <5>1, <5>2, <5>3
      <4>2. CASE c \in lost[n - 1]
        <5>1. PICK k \in 1..(n - 1) : \E p \in [0..k -> Failed] : Leads(p, k, root, c)
          BY <2>2, <4>2
        <5>2. k \in 0..(n - 1)
          BY <2>1
        <5> QED BY <5>1, <5>2
      <4> QED BY <4>1, <4>2, <3>2
    <3>5. PICK p \in [0..k -> Failed] : Leads(p, k, root, c)
      BY <3>4
    <3>6. k \in Nat /\ k + 1 \in 1..n
      BY <2>1
    <3>7. \E q \in [0..(k + 1) -> Failed] : Leads(q, k + 1, root, e)
      BY <3>2, <3>3, <3>5, <3>6, PathGrows
    <3> QED BY <3>3, <3>6, <3>7
  <2> QED BY <2>3, <2>4
<1>5. N \in T
  <2>1. N \in 0..N
    BY <1>2
  <2> HIDE DEF T, N
  <2> QED BY <1>2, <1>3, <1>4, <2>1, IntervalInduction
<1> QED BY <1>1, <1>5 DEF Explains
-----------------------------------------------------------------------------
(* Rules 1 and 2 as a walk over the rows, one step per row.                *)
Walks == [visited : SUBSET Device, down : Map, other : Map]
Start(v) == [visited |-> {}, down |-> EmptyMap, other |-> Own(v)]
Root(v, i) == DeviceOf[v.seq[i]]

LEMMA RootFailed ==
    ASSUME NEW v, IsView(v), NEW i \in 1..Len(v.seq) PROVE Root(v, i) \in Failed
BY ViewShape DEF Root, DownDevices

LEMMA OwnIs ==
    ASSUME NEW v, IsView(v)
    PROVE  /\ Own(v) \in Map
           /\ \A d \in Failed : /\ Own(v)[d] \in All(net.order) \cap DownAlerts
                                /\ DeviceOf[Own(v)[d]] = d
<1>1. \A d \in Failed : /\ FirstAlert(v, d) \in All(net.order) \cap DownAlerts
                        /\ DeviceOf[FirstAlert(v, d)] = d
  <2>1. All(net.order) \subseteq DownAlerts /\ \A i \in DOMAIN v.seq : v.seq[i] \in All(net.order)
    BY SeqShape, OrderShape DEF IsView
  <2> QED BY <2>1, ViewShape, FirstAlertIs
<1>2. DownDevices(v) = Failed /\ Failed \subseteq Device /\ DownAlerts \subseteq Alert
  BY ViewShape, CycleAssumption
<1> QED BY <1>1, <1>2 DEF Own, Map

LEMMA StepTyped ==
    ASSUME NEW v, IsView(v), NEW root \in Failed, NEW sm \in Walks
    PROVE  WalkFrom(v, root, sm) \in Walks
<1>1. Own(v)[root] \in Alert /\ root \in Device
  BY OwnIs, ViewShape, CycleAssumption
<1>2. Casualties(v, root, Visit(sm.visited, root)) \subseteq Device
  BY CasualtiesExplained, ViewShape
<1>3. CASE root \in sm.visited
  BY <1>3 DEF WalkFrom
<1>4. CASE root \notin sm.visited
  <2> DEFINE lost == Casualties(v, root, Visit(sm.visited, root))
             Blame(m) == [d \in Device |-> IF d \in lost THEN Own(v)[root] ELSE m[d]]
  <2>1. WalkFrom(v, root, sm) = [visited |-> Visit(sm.visited, root) \cup lost,
                                 down |-> Blame(sm.down), other |-> Blame(sm.other)]
    BY <1>4 DEF WalkFrom, Attribute
  <2>2. \A m \in Map : Blame(m) \in Map
    BY <1>1 DEF Map
  <2>3. Visit(sm.visited, root) \cup lost \in SUBSET Device
    BY <1>1, <1>2 DEF Visit, Walks
  <2> HIDE DEF lost, Blame
  <2> QED BY <2>1, <2>2, <2>3 DEF Walks
<1> QED BY <1>3, <1>4

LEMMA WalkSteps ==
    ASSUME NEW v, IsView(v)
    PROVE  \E walk \in [0..Len(v.seq) -> Walks] :
             /\ walk[0] = Start(v) /\ DeviceRules(v) = walk[Len(v.seq)]
             /\ \A i \in 1..Len(v.seq) : walk[i] = WalkFrom(v, Root(v, i), walk[i - 1])
<1> DEFINE N == Len(v.seq)
           h == [i \in 1..N |-> [sm \in Walks |-> WalkFrom(v, Root(v, i), sm)]]
           Steps(g) == g = [i \in 0..N |-> IF i = 0 THEN Start(v)
                                           ELSE WalkFrom(v, Root(v, i), g[i - 1])]
<1>1. N \in Nat
  BY ViewShape
<1>2. Start(v) \in Walks
  BY OwnIs DEF Start, Walks, EmptyMap, Map
<1>3. h \in [1..N -> [Walks -> Walks]]
  BY StepTyped, RootFailed
<1>4. PICK g \in [0..N -> Walks] :
          g[0] = Start(v) /\ \A n \in 1..N : g[n] = h[n][g[n - 1]]
  <2> HIDE DEF h, N
  <2> QED BY <1>1, <1>2, <1>3, RecursionExists
<1>5. \A n \in 1..N : n - 1 \in 0..N /\ n \in 0..N /\ n # 0
  BY <1>1
<1>6. \A n \in 1..N : g[n] = WalkFrom(v, Root(v, n), g[n - 1])
  BY <1>4, <1>5
<1>7. Steps(g)
  <2> HIDE DEF N
  <2>1. \A n \in 0..N : n = 0 \/ n \in 1..N
    BY <1>1
  <2> QED BY <1>4, <1>6, <2>1
<1> DEFINE walk == CHOOSE f : Steps(f)
<1>8. DeviceRules(v) = walk[N]
  BY DEF DeviceRules, Start, Root
<1>9. Steps(walk)
  <2> HIDE DEF Steps
  <2> QED BY <1>7
<1>10. walk = g
  <2> HIDE DEF walk, h
  <2> DEFINE T == {n \in 0..N : walk[n] = g[n]}
  <2>1. 0 \in T
    BY <1>1, <1>4, <1>9
  <2>2. ASSUME NEW n \in 1..N, n - 1 \in T PROVE n \in T
    <3>1. walk[n - 1] = g[n - 1] /\ n \in 0..N /\ n # 0
      BY <1>5, <2>2
    <3> HIDE DEF N
    <3>2. walk[n] = WalkFrom(v, Root(v, n), walk[n - 1])
      BY <1>9, <3>1
    <3> QED BY <1>6, <3>1, <3>2
  <2>3. \A n \in 0..N : n \in T
    <3> HIDE DEF T, N
    <3> QED BY <1>1, <2>1, <2>2, IntervalInduction
  <2> QED BY <1>4, <1>9, <2>3
<1> QED BY <1>4, <1>6, <1>8, <1>10

(* What the walk keeps: every blamed device is visited, and blamed on a    *)
(* visited device that is itself blamed on nothing, by an alert of the     *)
(* order of failures.                                                      *)
Blamed(sm, d) ==
    LET r == DeviceOf[sm.down[d]]
    IN  /\ sm.down[d] \in All(net.order) \cap DownAlerts /\ d \in Failed /\ d \in sm.visited
        /\ r # d /\ r \in sm.visited /\ sm.down[r] = NoAlert /\ Explains(r, d)
WalkInv(sm) ==
    /\ \A d \in Device : sm.down[d] = NoAlert \/ Blamed(sm, d)
    /\ \A d \in Device : sm.other[d] \in (All(net.order) \cap DownAlerts) \cup {NoAlert}

LEMMA StepKeepsWalkInv ==
    ASSUME NEW v, IsView(v), NEW root \in Failed, NEW sm \in Walks, WalkInv(sm)
    PROVE  LET next == WalkFrom(v, root, sm)
           IN  /\ WalkInv(next) /\ sm.visited \cup {root} \subseteq next.visited
               /\ \A d \in sm.visited : next.down[d] = sm.down[d]
               /\ root \in sm.visited \/ next.down[root] = NoAlert
<1> DEFINE next == WalkFrom(v, root, sm)
           lost == Casualties(v, root, Visit(sm.visited, root))
<1>1. CASE root \in sm.visited
  BY <1>1 DEF WalkFrom
<1>2. CASE root \notin sm.visited
  <2>1. /\ next.visited = sm.visited \cup {root} \cup lost
        /\ next.down = [d \in Device |-> IF d \in lost THEN Own(v)[root] ELSE sm.down[d]]
        /\ next.other = [d \in Device |-> IF d \in lost THEN Own(v)[root] ELSE sm.other[d]]
    BY <1>2 DEF WalkFrom, Attribute, Visit
  <2>2. \A d \in lost : d \in Failed /\ d \notin sm.visited /\ d # root /\ Explains(root, d)
    BY CasualtiesExplained DEF Visit
  <2>3. root \in Device /\ sm.visited \subseteq Device
    BY ViewShape DEF Walks
  <2> HIDE DEF next, lost
  <2>4. \A d \in sm.visited \cup {root} : next.down[d] = sm.down[d]
    BY <2>1, <2>2, <2>3
  <2>5. sm.down[root] = NoAlert
    BY <1>2, <2>3 DEF WalkInv, Blamed
  <2>6. ASSUME NEW d \in Device PROVE next.down[d] = NoAlert \/ Blamed(next, d)
    <3>1. CASE d \in lost
      <4>1. next.down[d] = Own(v)[root]
        BY <2>1, <3>1
      <4>2. /\ next.down[d] \in All(net.order) \cap DownAlerts
            /\ DeviceOf[next.down[d]] = root
        BY <4>1, OwnIs
      <4> QED BY <2>1, <2>2, <2>4, <2>5, <3>1, <4>2 DEF Blamed
    <3>2. CASE d \notin lost
      <4>1. next.down[d] = sm.down[d]
        BY <2>1, <3>2
      <4>2. CASE sm.down[d] = NoAlert
        BY <4>1, <4>2
      <4>3. CASE Blamed(sm, d)
        BY <2>1, <2>4, <4>1, <4>3 DEF Blamed
      <4> QED BY <4>2, <4>3 DEF WalkInv
    <3> QED BY <3>1, <3>2
  <2>7. ASSUME NEW d \in Device
        PROVE  next.other[d] \in (All(net.order) \cap DownAlerts) \cup {NoAlert}
    BY <2>1, OwnIs DEF WalkInv
  <2> QED BY <2>1, <2>4, <2>5, <2>6, <2>7 DEF WalkInv, next
<1> QED BY <1>1, <1>2

(* After the walk; the device of the first row is a root for good.         *)
LEMMA DeviceRulesKeep ==
    ASSUME NEW v, IsView(v)
    PROVE  /\ DeviceRules(v) \in Walks /\ WalkInv(DeviceRules(v))
           /\ Len(v.seq) >= 1 => DeviceRules(v).down[Root(v, 1)] = NoAlert
<1> DEFINE N == Len(v.seq)
           First(sm) == Root(v, 1) \in sm.visited /\ sm.down[Root(v, 1)] = NoAlert
<1>1. PICK walk \in [0..N -> Walks] :
        /\ walk[0] = Start(v) /\ DeviceRules(v) = walk[N]
        /\ \A i \in 1..N : walk[i] = WalkFrom(v, Root(v, i), walk[i - 1])
  BY WalkSteps
<1> DEFINE T == {i \in 0..N : WalkInv(walk[i]) /\ (i >= 1 => First(walk[i]))}
<1>2. N \in Nat
  BY ViewShape
<1>3. 0 \in T
  <2>1. WalkInv(Start(v))
    <3>1. \A d \in Device : Own(v)[d] \in (All(net.order) \cap DownAlerts) \cup {NoAlert}
      BY OwnIs, ViewShape DEF Own
    <3> QED BY <3>1 DEF WalkInv, Start, EmptyMap
  <2> QED BY <1>1, <1>2, <2>1
<1>4. ASSUME NEW i \in 1..N, i - 1 \in T PROVE i \in T
  <2>1. i \in 0..N /\ i - 1 \in 0..N /\ (i = 1 \/ i - 1 >= 1)
    BY <1>2
  <2>2. /\ walk[i - 1] \in Walks /\ WalkInv(walk[i - 1]) /\ Root(v, i) \in Failed
        /\ walk[i] = WalkFrom(v, Root(v, i), walk[i - 1])
        /\ i - 1 >= 1 => First(walk[i - 1])
    BY <1>1, <1>4, <2>1, RootFailed
  <2>3. /\ WalkInv(walk[i]) /\ walk[i - 1].visited \cup {Root(v, i)} \subseteq walk[i].visited
        /\ \A d \in walk[i - 1].visited : walk[i].down[d] = walk[i - 1].down[d]
        /\ Root(v, i) \in walk[i - 1].visited \/ walk[i].down[Root(v, i)] = NoAlert
    BY <2>2, StepKeepsWalkInv
  <2>4. CASE i = 1
    <3>1. walk[i - 1].visited = {}
      BY <1>1, <2>4 DEF Start
    <3> QED BY <2>1, <2>3, <2>4, <3>1
  <2>5. CASE i - 1 >= 1
    BY <2>1, <2>2, <2>3, <2>5
  <2> QED BY <2>1, <2>4, <2>5
<1>5. N \in T
  <2>1. N \in 0..N
    BY <1>2
  <2> HIDE DEF T, N
  <2> QED BY <1>2, <1>3, <1>4, <2>1, IntervalInduction
<1>6. DeviceRules(v) \in Walks
  BY <1>1, <1>2
<1> QED BY <1>1, <1>5, <1>6
-----------------------------------------------------------------------------
(* Rule 3 only adds interface alerts where nothing was blamed.             *)
Maps == [down : Map, other : Map]
Behind(d, ifs) == {x \in ifs : Remote[x] = d}
Adds(base, ifs, sm) ==
    \A d \in Device :
        /\ \/ sm.down[d] = base.down[d]
           \/ base.down[d] = NoAlert /\ sm.down[d] \in Behind(d, ifs)
        /\ sm.other[d] \in {base.other[d]} \cup Behind(d, ifs)

LEMMA PortTyped ==
    ASSUME NEW sm \in Maps, NEW row \in Alert PROVE ExplainPort(sm, row) \in Maps
<1>1. Remote[row] = NoDevice \/ Remote[row] \in Device
  BY SuppressionAssumption
<1> QED BY <1>1 DEF ExplainPort, Maps, Map

LEMMA PortAdds ==
    ASSUME NEW base, NEW ifs, NEW sm \in Maps, NEW row \in ifs, Adds(base, ifs, sm)
    PROVE  Adds(base, ifs, ExplainPort(sm, row))
<1>1. CASE ExplainPort(sm, row) = sm
  BY <1>1
<1>2. CASE ExplainPort(sm, row) # sm
  <2>1. sm.down[Remote[row]] = NoAlert
    BY <1>2 DEF ExplainPort
  <2>2. /\ ExplainPort(sm, row).down = [sm.down EXCEPT ![Remote[row]] = row]
        /\ ExplainPort(sm, row).other =
              [sm.other EXCEPT ![Remote[row]] = IF @ = NoAlert THEN row ELSE @]
    BY <1>2 DEF ExplainPort
  <2>3. sm.down \in [Device -> Alert \cup {NoAlert}]
        /\ sm.other \in [Device -> Alert \cup {NoAlert}]
    BY DEF Maps, Map
  <2> QED BY <2>1, <2>2, <2>3 DEF Adds, Behind
<1> QED BY <1>1, <1>2

LEMMA InterfaceRulesAdd ==
    ASSUME NEW base \in Walks, NEW ifs \in SUBSET LinkAlerts, NEW rows \in Orderings(ifs)
    PROVE  /\ InterfaceRules(base, rows) \in Maps /\ Adds(base, ifs, InterfaceRules(base, rows))
           /\ ifs = {} => InterfaceRules(base, rows).down = base.down
<1> DEFINE N == Len(rows)
           first == [down |-> base.down, other |-> base.other]
           h == [i \in 1..N |-> [sm \in Maps |-> ExplainPort(sm, rows[i])]]
           Steps(g) == g = [i \in 0..N |-> IF i = 0 THEN first
                                           ELSE ExplainPort(g[i - 1], rows[i])]
<1>1. IsFiniteSet(ifs) /\ Cardinality(ifs) \in Nat /\ ifs \subseteq Alert
  BY CycleAssumption, SuppressionAssumption, FS_Subset, FS_CardinalityType
<1>2. rows \in [1..Cardinality(ifs) -> ifs]
  BY DEF Orderings
<1>3. N \in Nat /\ N = Cardinality(ifs) /\ \A i \in 1..N : rows[i] \in ifs
  BY <1>1, <1>2
<1>4. first \in Maps
  BY DEF Walks, Maps
<1>5. h \in [1..N -> [Maps -> Maps]]
  <2>1. \A i \in 1..N : rows[i] \in Alert
    BY <1>1, <1>3
  <2> QED BY <2>1, PortTyped
<1>6. PICK g \in [0..N -> Maps] : g[0] = first /\ \A n \in 1..N : g[n] = h[n][g[n - 1]]
  <2>1. N \in Nat
    BY <1>3
  <2> HIDE DEF h, N, first
  <2> QED BY <1>4, <1>5, <2>1, RecursionExists
<1>7. \A n \in 1..N : n - 1 \in 0..N /\ n \in 0..N /\ n # 0
  BY <1>3
<1>8. \A n \in 1..N : g[n] = ExplainPort(g[n - 1], rows[n])
  BY <1>6, <1>7
<1>9. Steps(g)
  <2> HIDE DEF N, first
  <2>1. \A n \in 0..N : n = 0 \/ n \in 1..N
    BY <1>3
  <2> QED BY <1>6, <1>8, <2>1
<1> DEFINE step == CHOOSE f : Steps(f)
<1>10. InterfaceRules(base, rows) = step[N]
  BY DEF InterfaceRules
<1>11. Steps(step)
  <2> HIDE DEF Steps
  <2> QED BY <1>9
<1> HIDE DEF step, h
<1> DEFINE T == {n \in 0..N : step[n] \in Maps /\ Adds(base, ifs, step[n])}
<1>12. step[0] = first /\ 0 \in T
  <2>1. step[0] = first
    BY <1>3, <1>11
  <2>2. Adds(base, ifs, first)
    BY DEF Adds
  <2> QED BY <1>3, <1>4, <2>1, <2>2
<1>13. ASSUME NEW n \in 1..N, n - 1 \in T PROVE n \in T
  <2>1. step[n] = ExplainPort(step[n - 1], rows[n])
    <3> HIDE DEF N
    <3> QED BY <1>7, <1>11
  <2>2. rows[n] \in ifs /\ rows[n] \in Alert /\ n \in 0..N
    BY <1>1, <1>3, <1>7
  <2> QED BY <1>13, <2>1, <2>2, PortTyped, PortAdds
<1>14. N \in T
  <2>1. N \in 0..N
    BY <1>3
  <2> HIDE DEF T, N
  <2> QED BY <1>3, <1>12, <1>13, <2>1, IntervalInduction
<1>15. ASSUME ifs = {} PROVE InterfaceRules(base, rows).down = base.down
  <2>1. N = 0
    BY <1>3, <1>15, FS_EmptySet
  <2> QED BY <1>10, <1>12, <2>1
<1> QED BY <1>10, <1>14, <1>15

(* What explains a device, whatever the network and the open alerts: a     *)
(* device_down of another device or a down port in front of it for its     *)
(* outage, and one of these or its own device_down for its other alerts.   *)
(* The device_downs named are among those the order lists.                 *)
LEMMA MapIsSound ==
    ASSUME NEW v, IsView(v), NEW ifs \in SUBSET LinkAlerts, NEW rows \in Orderings(ifs)
    PROVE  LET sm == InterfaceRules(DeviceRules(v), rows)
           IN  /\ sm \in Maps
               /\ \A d \in Device :
                    /\ \/ sm.down[d] = NoAlert
                       \/ sm.down[d] \in All(net.order) /\ DeviceOf[sm.down[d]] # d
                       \/ sm.down[d] \in Behind(d, ifs)
                    /\ sm.other[d] \in All(net.order) \cup {NoAlert} \cup Behind(d, ifs)
<1> DEFINE base == DeviceRules(v)
           sm == InterfaceRules(base, rows)
<1>1. base \in Walks /\ WalkInv(base)
  BY DeviceRulesKeep
<1>2. sm \in Maps /\ Adds(base, ifs, sm)
  BY <1>1, InterfaceRulesAdd
<1> HIDE DEF base, sm
<1>3. ASSUME NEW d \in Device
      PROVE  /\ \/ sm.down[d] = NoAlert
                \/ sm.down[d] \in All(net.order) /\ DeviceOf[sm.down[d]] # d
                \/ sm.down[d] \in Behind(d, ifs)
             /\ sm.other[d] \in All(net.order) \cup {NoAlert} \cup Behind(d, ifs)
  BY <1>1, <1>2 DEF WalkInv, Blamed, Adds
<1> QED BY <1>2, <1>3 DEF base, sm
-----------------------------------------------------------------------------
(* The state of a behaviour: a network, and a map the code can return.     *)
CycleInv ==
    /\ net \in Nets
    /\ \/ result = Pending
       \/ \E v, rows : /\ IsView(v) /\ rows \in Orderings(net.ifs)
                       /\ result = InterfaceRules(DeviceRules(v), rows)

LEMMA CycleInvHolds == Spec => []CycleInv
<1>1. Init => CycleInv
  BY DEF Init, CycleInv
<1>2. CycleInv /\ [Compute]_<<net, result>> => CycleInv'
  <2> SUFFICES ASSUME CycleInv, [Compute]_<<net, result>> PROVE CycleInv'
    OBVIOUS
  <2>1. CASE UNCHANGED <<net, result>>
    BY <2>1 DEF CycleInv, IsView
  <2>2. CASE Compute
    <3>1. PICK seq \in Linearisations(net.order), rows \in Orderings(net.ifs) :
            result' = InterfaceRules(DeviceRules([adj |-> net.adj, order |-> net.order,
                                                  seq |-> seq]), rows)
      BY <2>2 DEF Compute, SuppressionMaps
    <3> DEFINE v == [adj |-> net.adj, order |-> net.order, seq |-> seq]
    <3>2. net' = net /\ net \in Nets
      BY <2>2 DEF Compute, CycleInv
    <3>3. net.adj \in [Device -> SUBSET Device] /\ Ordered(net.order)
      BY <3>2, OrdersAreOrdered DEF Nets, Symmetric
    <3>4. IsView(v)'
      BY <3>2, <3>3 DEF IsView
    <3> QED BY <3>1, <3>2, <3>4 DEF CycleInv
  <2> QED BY <2>1, <2>2
<1> QED BY <1>1, <1>2, PTL DEF Spec

(* What a computed map adds to the walk's.                                 *)
LEMMA Computed ==
    ASSUME CycleInv, result # Pending
    PROVE  \E v : /\ IsView(v) /\ DeviceRules(v) \in Walks
                  /\ Adds(DeviceRules(v), net.ifs, result)
                  /\ net.ifs = {} => result.down = DeviceRules(v).down
<1>1. PICK v, rows : /\ IsView(v) /\ rows \in Orderings(net.ifs)
                     /\ result = InterfaceRules(DeviceRules(v), rows)
  BY DEF CycleInv
<1>2. net.ifs \in SUBSET LinkAlerts
  BY DEF CycleInv, Nets
<1> QED BY <1>1, <1>2, DeviceRulesKeep, InterfaceRulesAdd

LEMMA PendingBlamesNothing == \A d \in Device : Pending.down[d] \notin DownAlerts
BY CycleAssumption, SuppressionAssumption DEF Pending, EmptyMap

(* A device blamed for an outage in the result is blamed by the walk.      *)
LEMMA BlamedByWalk ==
    ASSUME CycleInv, NEW v, IsView(v), Adds(DeviceRules(v), net.ifs, result), NEW d \in Device,
           result.down[d] \in DownAlerts
    PROVE  result.down[d] = DeviceRules(v).down[d] /\ Blamed(DeviceRules(v), d)
<1>1. result.down[d] = DeviceRules(v).down[d] /\ result.down[d] # NoAlert
  BY CycleAssumption, SuppressionAssumption DEF Adds, Behind, CycleInv, Nets
<1> QED BY <1>1, DeviceRulesKeep DEF WalkInv

(* An outage is blamed on another device only along a path of failed       *)
(* devices without a surviving uplink, none down for longer than the root. *)
THEOREM CascadesAreExplained == Spec => []CascadeIsExplained
<1>1. CycleInv => CascadeIsExplained
  <2> SUFFICES ASSUME CycleInv, NEW d \in Device, result.down[d] \in DownAlerts
               PROVE  /\ d \in Failed /\ DeviceOf[result.down[d]] # d
                      /\ Explains(DeviceOf[result.down[d]], d)
    BY DEF CascadeIsExplained
  <2>1. result # Pending
    BY PendingBlamesNothing
  <2> QED BY <2>1, Computed, BlamedByWalk DEF Blamed
<1> QED BY <1>1, CycleInvHolds, PTL

(* Whatever is blamed for another device's outage is blamed on no device,  *)
(* so that blame forms neither a chain nor a cycle.                        *)
THEOREM NoBlameChains == Spec => []RootsAreNotCasualties
<1>1. CycleInv => RootsAreNotCasualties
  <2> SUFFICES ASSUME CycleInv, NEW d \in Device, NEW e \in Device,
                      result.down[d] \in DownAlerts, DeviceOf[result.down[d]] = e,
                      result.down[e] \in DownAlerts
               PROVE  FALSE
    BY DEF RootsAreNotCasualties
  <2>1. result # Pending
    BY PendingBlamesNothing
  <2>2. PICK v : IsView(v) /\ Adds(DeviceRules(v), net.ifs, result)
    BY <2>1, Computed
  <2>3. DeviceRules(v).down[e] = NoAlert
    BY <2>2, BlamedByWalk DEF Blamed
  <2>4. DeviceRules(v).down[e] \in DownAlerts
    BY <2>2, BlamedByWalk
  <2> QED BY <2>3, <2>4, CycleAssumption, SuppressionAssumption
<1> QED BY <1>1, CycleInvHolds, PTL

(* However many devices are down, one of them is blamed on nothing: the    *)
(* incident keeps a visible root cause.                                    *)
THEOREM RootCauseRemains == Spec => []SomeRootCauseRemains
<1>1. CycleInv => SomeRootCauseRemains
  <2> SUFFICES ASSUME CycleInv, result # Pending, Failed # {}, net.ifs = {}
               PROVE  \E d \in Failed : result.down[d] = NoAlert
    BY DEF SomeRootCauseRemains
  <2>1. PICK v : IsView(v) /\ result.down = DeviceRules(v).down
    BY Computed
  <2>2. Len(v.seq) >= 1
    BY <2>1, ViewShape DEF DownDevices
  <2>3. Root(v, 1) \in Failed
    BY <2>1, <2>2, ViewShape, RootFailed
  <2> QED BY <2>1, <2>2, <2>3, DeviceRulesKeep
<1> QED BY <1>1, CycleInvHolds, PTL
=============================================================================
