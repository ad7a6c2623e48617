------------------------- MODULE TopologyMap_proofs -------------------------
(***************************************************************************)
(* Proofs about the topology page, for any devices, answers and traces.    *)
(***************************************************************************)
EXTENDS TopologyMap, RecursionLemmas, FiniteSetTheorems, TLAPS

(* MapShowsWhatIsChosen is almost inductive: what is missing is that the    *)
(* page's topology is an answer of the API, so that a device one can hide   *)
(* is never None and hiding it changes `selected`, a dependency.            *)
MapInv == data \in Snapshots /\ MapShowsWhatIsChosen

(* A redraw draws exactly the devices the controls choose.                  *)
LEMMA PlacedDraws == ASSUME NEW ns, NEW before, NEW layout
                     PROVE  DOMAIN Placed(ns, before, layout) = ns
BY DEF Placed

LEMMA RedrawShowsAll == ASSUME Redraw PROVE MapShowsWhatIsChosen'
BY PlacedDraws DEF Redraw, MapShowsWhatIsChosen

(* When the effect does not run and the hidden devices are the same, the    *)
(* controls choose the same devices.                                        *)
LEMMA EffectShows ==
    ASSUME MapShowsWhatIsChosen, Effect, hiddenIds' = hiddenIds
    PROVE  MapShowsWhatIsChosen'
<1>1. CASE Dependencies' # Dependencies
  BY <1>1, RedrawShowsAll DEF Effect
<1>2. CASE Dependencies' = Dependencies
  <2>1. UNCHANGED <<data, hiddenTypes, isolated, path, drawn>>
    BY <1>2 DEF Effect, Dependencies
  <2>2. Visible' = Visible
    BY <2>1 DEF Visible
  <2> QED BY <2>1, <2>2 DEF MapShowsWhatIsChosen
<1> QED BY <1>1, <1>2

LEMMA MapInvInit == Init => MapInv
<1> SUFFICES ASSUME Init PROVE MapInv
  OBVIOUS
<1>1. DOMAIN drawn = Visible
  BY PlacedDraws DEF Init
<1> QED BY <1>1 DEF Init, MapInv, MapShowsWhatIsChosen

LEMMA MapInvNext == MapInv /\ [Next]_vars => MapInv'
<1> SUFFICES ASSUME MapInv, [Next]_vars PROVE MapInv'
  OBVIOUS
<1> USE DEF MapInv
<1>1. ASSUME NEW d \in Snapshots, TopologyAnswer(d) PROVE MapInv'
  BY <1>1, EffectShows DEF TopologyAnswer, controls
<1>2. CASE Restyle
  BY <1>2, RedrawShowsAll DEF Restyle
<1>3. ASSUME NEW n \in Device, ToggleType(TypeOf[n]) PROVE MapInv'
  BY <1>3, EffectShows DEF ToggleType
<1>4. ASSUME NEW n \in Device, ClickDevice(n) PROVE MapInv'
  BY <1>4, EffectShows DEF ClickDevice, controls
<1>5. ASSUME NEW n \in Device, Drag(n) PROVE MapInv'
  <2>1. DOMAIN drawn' = DOMAIN drawn /\ UNCHANGED <<data, hiddenTypes, hiddenIds, isolated, path>>
    BY <1>5 DEF Drag, controls
  <2> QED BY <2>1 DEF MapShowsWhatIsChosen, Visible
<1>6. CASE ShowAllTypes
  BY <1>6, EffectShows DEF ShowAllTypes
<1>7. CASE ToggleIsolated
  BY <1>7, EffectShows DEF ToggleIsolated
<1>8. CASE ClearPath
  BY <1>8, EffectShows DEF ClearPath
<1>9. ASSUME NEW l \in data.links, ClickLink(l) PROVE MapInv'
  BY <1>9, EffectShows DEF ClickLink, controls
<1>10. CASE ClickPane
  BY <1>10, EffectShows DEF ClickPane, controls
<1>11. CASE Hide
  (* Hiding changes `selected`, so the effect runs.                         *)
  <2>1. selected \in Device
    BY <1>11, SnapshotAssumption DEF Hide
  <2>2. selected' # selected
    BY <1>11, <2>1, DeviceAssumption DEF Hide, None
  <2>3. Redraw
    BY <1>11, <2>2 DEF Hide, Effect, Dependencies
  <2> QED BY <1>11, <2>3, RedrawShowsAll DEF Hide
<1>12. CASE ShowHidden
  (* Nothing is hidden any more: more devices may be chosen than drawn.     *)
  <2>1. CASE Dependencies' # Dependencies
    BY <1>12, <2>1, RedrawShowsAll DEF ShowHidden, Effect
  <2>2. CASE Dependencies' = Dependencies
    <3>1. UNCHANGED <<data, hiddenTypes, isolated, path, drawn>> /\ hiddenIds' = {}
      BY <1>12, <2>2 DEF ShowHidden, Effect
    <3>2. Visible \subseteq Visible'
      BY <3>1 DEF Visible, Chosen
    <3> QED BY <3>1, <3>2 DEF MapShowsWhatIsChosen
  <2> QED BY <2>1, <2>2
<1>13. CASE Measure \/ SaveTimer
  BY <1>13 DEF Measure, SaveTimer, controls, MapShowsWhatIsChosen, Visible
<1>14. CASE Reset
  <2>1. DOMAIN drawn' = DOMAIN drawn /\ UNCHANGED <<data, hiddenTypes, hiddenIds, isolated, path>>
    BY <1>14 DEF Reset, controls
  <2> QED BY <2>1 DEF MapShowsWhatIsChosen, Visible
<1>15. ASSUME NEW p \in Paths, Return(p) PROVE MapInv'
  BY <1>15, PlacedDraws DEF Return, MapShowsWhatIsChosen
<1>16. CASE UNCHANGED vars
  BY <1>16 DEF vars, MapShowsWhatIsChosen, Visible
<1> QED
  BY <1>1, <1>2, <1>3, <1>4, <1>5, <1>6, <1>7, <1>8, <1>9, <1>10, <1>11, <1>12, <1>13,
     <1>14, <1>15, <1>16 DEF Next

(* The map never shows a device its controls leave out, and shows all they  *)
(* choose while devices are hidden.                                         *)
THEOREM MapIsWhatIsChosen == Spec => []MapShowsWhatIsChosen
<1>1. MapInv => MapShowsWhatIsChosen
  BY DEF MapInv
<1> QED BY MapInvInit, MapInvNext, <1>1, PTL DEF Spec
-----------------------------------------------------------------------------
(* A redraw leaves every device where it is drawn: answers, controls and    *)
(* clicks move nothing.                                                     *)
Still == \A n \in DOMAIN drawn \cap DOMAIN drawn' : drawn'[n] = drawn[n]

LEMMA RedrawStill == ASSUME Redraw PROVE Still
BY DEF Redraw, Placed, Still

LEMMA EffectStill == ASSUME Effect PROVE Still
BY RedrawStill DEF Effect, Still

THEOREM RedrawsAreStill == Spec => RedrawMovesNothing
<1> DEFINE Moves == \/ \E n \in Device : Drag(n)
                    \/ Reset
                    \/ \E p \in Paths : Return(p)
<1>1. [Next]_vars => [Moves \/ Still]_vars
  <2> SUFFICES ASSUME Next PROVE Moves \/ Still
    OBVIOUS
  <2>1. CASE \/ \E d \in Snapshots : TopologyAnswer(d)
             \/ \E n \in Device : ToggleType(TypeOf[n]) \/ ClickDevice(n)
             \/ ShowAllTypes \/ ToggleIsolated \/ ClearPath
             \/ \E l \in data.links : ClickLink(l)
             \/ ClickPane \/ Hide \/ ShowHidden
    <3>1. Effect
      BY <2>1 DEF TopologyAnswer, ToggleType, ClickDevice, ShowAllTypes, ToggleIsolated,
                  ClearPath, ClickLink, ClickPane, Hide, ShowHidden
    <3> QED BY <3>1, EffectStill
  <2>2. CASE Restyle
    BY <2>2, RedrawStill DEF Restyle
  <2>3. CASE Measure \/ SaveTimer
    BY <2>3 DEF Measure, SaveTimer, Still
  <2>4. CASE Moves
    BY <2>4
  <2> QED BY <2>1, <2>2, <2>3, <2>4 DEF Next
<1> QED BY <1>1, PTL DEF Spec, RedrawMovesNothing, Still
-----------------------------------------------------------------------------
(* Distances on the drawn map.  The function behind Ball satisfies the     *)
(* equation that defines it.                                               *)
Grow(b, ns, d) == b \cup {m \in ns : Peers(m, ns, d) \cap b # {}}

LEMMA DrawnIsFinite ==
    ASSUME NEW ns \in SUBSET Device PROVE IsFiniteSet(ns) /\ Cardinality(ns) \in Nat
BY DeviceAssumption, FS_Subset, FS_CardinalityType

LEMMA BallSteps ==
    ASSUME NEW ns \in SUBSET Device, NEW n \in ns, NEW d
    PROVE  /\ Ball(n, ns, d) \in [0..Cardinality(ns) -> SUBSET ns]
           /\ Ball(n, ns, d)[0] = {n}
           /\ \A k \in 1..Cardinality(ns) :
                 Ball(n, ns, d)[k] = Grow(Ball(n, ns, d)[k - 1], ns, d)
<1> DEFINE N == Cardinality(ns)
           Sets == SUBSET ns
           h == [k \in 1..N |-> [b \in Sets |-> Grow(b, ns, d)]]
           Steps(g) == g = [k \in 0..N |-> IF k = 0 THEN {n} ELSE Grow(g[k - 1], ns, d)]
<1>1. N \in Nat
  BY DrawnIsFinite
<1>2. {n} \in Sets /\ h \in [1..N -> [Sets -> Sets]]
  BY DEF Grow
<1>3. PICK g \in [0..N -> Sets] : g[0] = {n} /\ \A k \in 1..N : g[k] = h[k][g[k - 1]]
  <2> HIDE DEF h, N, Sets
  <2> QED BY <1>1, <1>2, RecursionExists
<1>4. \A k \in 1..N : k - 1 \in 0..N /\ k \in 0..N /\ k # 0
  BY <1>1
<1>5. \A k \in 1..N : g[k] = Grow(g[k - 1], ns, d)
  BY <1>3, <1>4
<1>6. Steps(g)
  <2> HIDE DEF N, Sets
  <2>1. \A k \in 0..N : k = 0 \/ k \in 1..N
    BY <1>1
  <2> QED BY <1>3, <1>5, <2>1
<1> DEFINE ball == CHOOSE f : Steps(f)
<1>7. Ball(n, ns, d) = ball
  BY DEF Ball, Grow
<1>8. Steps(ball)
  <2> HIDE DEF Steps
  <2> QED BY <1>6
<1>9. ball = g
  <2> HIDE DEF ball, h
  <2> DEFINE T == {k \in 0..N : ball[k] = g[k]}
  <2>1. 0 \in T
    BY <1>1, <1>3, <1>8
  <2>2. ASSUME NEW k \in 1..N, k - 1 \in T PROVE k \in T
    <3>1. ball[k - 1] = g[k - 1] /\ k \in 0..N /\ k # 0
      BY <1>4, <2>2
    <3> HIDE DEF N
    <3>2. ball[k] = Grow(ball[k - 1], ns, d)
      BY <1>8, <3>1
    <3> QED BY <1>5, <3>1, <3>2
  <2>3. \A k \in 0..N : k \in T
    <3> HIDE DEF T, N
    <3> QED BY <1>1, <2>1, <2>2, IntervalInduction
  <2> QED BY <1>3, <1>8, <2>3
<1> QED BY <1>3, <1>5, <1>7, <1>9

(* The drawn devices connected to one: the last ball, which grows no more, *)
(* because until it stops growing every step adds a device.                *)
Tree(n, ns, d) == Ball(n, ns, d)[Cardinality(ns)]
IsClosed(b, ns, d) == \A m \in ns : Peers(m, ns, d) \cap b # {} => m \in b

LEMMA TreeIsClosed ==
    ASSUME NEW ns \in SUBSET Device, NEW n \in ns, NEW d
    PROVE  /\ Tree(n, ns, d) \subseteq ns /\ n \in Tree(n, ns, d)
           /\ IsClosed(Tree(n, ns, d), ns, d)
<1> DEFINE N == Cardinality(ns)
           ball == Ball(n, ns, d)
           T == {k \in 0..N : /\ n \in ball[k]
                              /\ Cardinality(ball[k]) >= k + 1 \/ IsClosed(ball[k], ns, d)}
<1>1. N \in Nat /\ IsFiniteSet(ns)
  BY DrawnIsFinite
<1>2. /\ ball \in [0..N -> SUBSET ns] /\ ball[0] = {n}
      /\ \A k \in 1..N : ball[k] = Grow(ball[k - 1], ns, d)
  BY BallSteps
<1> HIDE DEF ball
<1>3. 0 \in T
  <2>1. Cardinality(ball[0]) = 1 /\ n \in ball[0]
    BY <1>2, FS_Singleton
  <2>2. Cardinality(ball[0]) >= 0 + 1 /\ 0 \in 0..N
    BY <1>1, <2>1
  <2> QED BY <2>1, <2>2
<1>4. ASSUME NEW k \in 1..N, k - 1 \in T PROVE k \in T
  <2>1. k \in 0..N /\ k - 1 \in 0..N /\ k \in Nat /\ (k - 1) + 1 = k
    BY <1>1
  <2>2. /\ ball[k] \subseteq ns /\ ball[k - 1] \subseteq ns
        /\ ball[k] = Grow(ball[k - 1], ns, d)
    BY <1>2, <2>1
  <2>3. n \in ball[k]
    BY <1>4, <2>2 DEF Grow
  <2>4. CASE IsClosed(ball[k - 1], ns, d)
    <3>1. ball[k] = ball[k - 1]
      BY <2>2, <2>4 DEF Grow, IsClosed
    <3> QED BY <2>1, <2>3, <2>4, <3>1
  <2>5. CASE ~IsClosed(ball[k - 1], ns, d)
    <3>1. ball[k - 1] \subseteq ball[k] /\ ball[k - 1] # ball[k]
      BY <2>2, <2>5 DEF Grow, IsClosed
    <3>2. IsFiniteSet(ball[k]) /\ Cardinality(ball[k]) \in Nat
      BY <1>1, <2>2, FS_Subset, FS_CardinalityType
    <3>3. IsFiniteSet(ball[k - 1]) /\ Cardinality(ball[k - 1]) \in Nat
      BY <1>1, <2>2, FS_Subset, FS_CardinalityType
    <3>4. /\ Cardinality(ball[k - 1]) <= Cardinality(ball[k])
          /\ Cardinality(ball[k - 1]) # Cardinality(ball[k])
      BY <3>1, <3>2, FS_Subset
    <3>5. Cardinality(ball[k - 1]) >= k
      BY <1>4, <2>1, <2>5
    <3>6. Cardinality(ball[k]) >= k + 1
      BY <2>1, <3>2, <3>3, <3>4, <3>5
    <3> QED BY <2>1, <2>3, <3>6
  <2> QED BY <2>4, <2>5
<1>5. N \in 0..N
  BY <1>1
<1>6. N \in T
  <2> HIDE DEF T, N
  <2> QED BY <1>1, <1>3, <1>4, <1>5, IntervalInduction
<1>7. Cardinality(ball[N]) <= N /\ Cardinality(ball[N]) \in Nat /\ ball[N] \subseteq ns
  BY <1>1, <1>2, <1>5, FS_Subset, FS_CardinalityType
<1>8. ~(Cardinality(ball[N]) >= N + 1)
  BY <1>1, <1>7
<1> QED BY <1>6, <1>7, <1>8 DEF Tree, ball

LEMMA TreeIsLeast ==
    ASSUME NEW ns \in SUBSET Device, NEW n \in ns, NEW d,
           NEW C, n \in C, IsClosed(C, ns, d)
    PROVE  Tree(n, ns, d) \subseteq C
<1> DEFINE N == Cardinality(ns)
           ball == Ball(n, ns, d)
           T == {k \in 0..N : ball[k] \subseteq C}
<1>1. N \in Nat /\ N \in 0..N
  BY DrawnIsFinite
<1>2. ball[0] = {n} /\ \A k \in 1..N : ball[k] = Grow(ball[k - 1], ns, d)
  BY BallSteps
<1> HIDE DEF ball
<1>3. 0 \in T
  BY <1>1, <1>2
<1>4. ASSUME NEW k \in 1..N, k - 1 \in T PROVE k \in T
  <2>1. k \in 0..N /\ ball[k - 1] \subseteq C
    BY <1>1, <1>4
  <2>2. ball[k] \subseteq C
    BY <1>2, <2>1 DEF Grow, IsClosed
  <2> QED BY <2>1, <2>2
<1>5. N \in T
  <2> HIDE DEF T, N
  <2> QED BY <1>1, <1>3, <1>4, IntervalInduction
<1> QED BY <1>5 DEF Tree, ball

(* Connected devices have the same tree.                                   *)
LEMMA PeersAreMutual ==
    ASSUME NEW ns, NEW d, NEW x \in ns, NEW y \in ns
    PROVE  x \in Peers(y, ns, d) <=> y \in Peers(x, ns, d)
BY DEF Peers

LEMMA TreesAgree ==
    ASSUME NEW ns \in SUBSET Device, NEW n \in ns, NEW d, NEW m \in Tree(n, ns, d)
    PROVE  Tree(m, ns, d) = Tree(n, ns, d)
<1> DEFINE C == {x \in ns : n \in Tree(x, ns, d)}
<1>1. n \in C
  BY TreeIsClosed
<1>2. ASSUME NEW y \in ns, NEW x \in C, x \in Peers(y, ns, d) PROVE y \in C
  <2>1. x \in ns /\ y \in Peers(x, ns, d)
    BY <1>2, PeersAreMutual
  <2>2. x \in Tree(y, ns, d)
    BY <2>1, TreeIsClosed DEF IsClosed
  <2>3. Tree(x, ns, d) \subseteq Tree(y, ns, d)
    BY <2>1, <2>2, TreeIsClosed, TreeIsLeast
  <2> QED BY <2>3
<1>3. IsClosed(C, ns, d)
  BY <1>2 DEF IsClosed
<1>4. Tree(n, ns, d) \subseteq C
  <2> HIDE DEF C
  <2> QED BY <1>1, <1>3, TreeIsLeast
<1>5. m \in ns /\ n \in Tree(m, ns, d)
  BY <1>4
<1>6. Tree(n, ns, d) \subseteq Tree(m, ns, d)
  BY <1>5, TreeIsClosed, TreeIsLeast
<1>7. Tree(m, ns, d) \subseteq Tree(n, ns, d)
  BY <1>5, TreeIsClosed, TreeIsLeast
<1> QED BY <1>6, <1>7

(* A device without drawn peers is alone in its tree.                      *)
LEMMA AloneWithoutPeers ==
    ASSUME NEW ns \in SUBSET Device, NEW n \in ns, NEW d, Peers(n, ns, d) = {}
    PROVE  Tree(n, ns, d) = {n}
<1>1. IsClosed({n}, ns, d)
  BY PeersAreMutual DEF IsClosed
<1>2. Tree(n, ns, d) \subseteq {n}
  BY <1>1, TreeIsLeast
<1> QED BY <1>2, TreeIsClosed
-----------------------------------------------------------------------------
(* The order of the scores is total, so that every tree has one root.      *)
LEMMA DegreeIs ==
    ASSUME NEW d \in Snapshots, NEW ns \in SUBSET Device, NEW n
    PROVE  /\ Degree(n, ns, d) \in Nat /\ Degree(n, ns, d) <= Cardinality(d.links)
           /\ Cardinality(d.links) \in Nat
           /\ n \in ns /\ Peers(n, ns, d) # {} => Degree(n, ns, d) >= 1
<1> DEFINE L == {l \in d.links : n \in {l[1], l[2]} /\ {l[1], l[2]} \subseteq ns}
<1>1. d.links \subseteq Device \X Device
  BY SnapshotAssumption
<1>2. IsFiniteSet(d.links)
  BY <1>1, DeviceAssumption, FS_Product, FS_Subset
<1>3. /\ IsFiniteSet(L) /\ Cardinality(L) <= Cardinality(d.links)
      /\ Cardinality(L) \in Nat /\ Cardinality(d.links) \in Nat
  BY <1>2, FS_Subset, FS_CardinalityType
<1>4. Degree(n, ns, d) = Cardinality(L)
  BY DEF Degree
<1>5. ASSUME n \in ns, Peers(n, ns, d) # {} PROVE L # {}
  <2>1. PICK m \in ns : <<n, m>> \in d.links \/ <<m, n>> \in d.links
    BY <1>5 DEF Peers
  <2>2. <<n, m>> \in L \/ <<m, n>> \in L
    BY <1>5, <2>1
  <2> QED BY <2>2
<1>6. L # {} => Cardinality(L) >= 1
  BY <1>3, FS_EmptySet
<1> QED BY <1>3, <1>4, <1>5, <1>6

LEMMA ScoreIs ==
    ASSUME NEW d \in Snapshots, NEW ns \in SUBSET Device, NEW n \in Device
    PROVE  /\ RootPrio[TypeOf[n]] \in 0..5
           /\ Score(n, ns, d) = RootPrio[TypeOf[n]] * 20 + Degree(n, ns, d)
           /\ Score(n, ns, d) \in Nat /\ Score(n, ns, d) <= 100 + Cardinality(d.links)
<1>1. TypeOf[n] \in Types
  BY DeviceAssumption
<1>2. RootPrio[TypeOf[n]] \in 0..5
  BY <1>1 DEF RootPrio, Types
<1> DEFINE p == RootPrio[TypeOf[n]]
           g == Degree(n, ns, d)
<1>3. Score(n, ns, d) = p * 20 + g
  BY DEF Score
<1>4. p \in 0..5 /\ g \in Nat /\ g <= Cardinality(d.links) /\ Cardinality(d.links) \in Nat
  BY <1>2, DegreeIs
<1>5. p * 20 + g \in Nat /\ p * 20 + g <= 100 + Cardinality(d.links)
  <2> HIDE DEF p, g
  <2> QED BY <1>4
<1> QED BY <1>2, <1>3, <1>5

LEMMA BestExists ==
    ASSUME NEW d \in Snapshots, NEW ns \in SUBSET Device, NEW tree \in SUBSET Device,
           tree # {}
    PROVE  \E r \in tree : \A m \in tree \ {r} : Better(r, m, ns, d)
<1> DEFINE S == {Score(n, ns, d) : n \in tree}
           b == 100 + Cardinality(d.links)
<1>1. b \in Nat /\ S \subseteq Nat /\ S # {} /\ \A x \in S : x <= b
  BY ScoreIs, DegreeIs
<1>2. PICK top \in S : \A x \in S : x <= top
  <2> HIDE DEF S, b
  <2> QED BY <1>1, GreatestNatural
<1> DEFINE Heads == {n \in tree : Score(n, ns, d) = top}
<1>3. Heads \subseteq Nat /\ Heads # {}
  BY DeviceAssumption
<1>4. PICK r \in Heads : \A m \in Heads : r <= m
  <2> HIDE DEF Heads
  <2> QED BY <1>3, LeastNatural
<1>5. ASSUME NEW m \in tree \ {r} PROVE Better(r, m, ns, d)
  <2>1. m \in Nat /\ r \in Nat /\ Score(m, ns, d) \in Nat /\ top \in Nat
    BY DeviceAssumption, <1>1
  <2>2. Score(r, ns, d) = top /\ Score(m, ns, d) <= top
    BY <1>2
  <2>3. Score(m, ns, d) = top => r <= m
    BY <1>4
  <2> QED BY <2>1, <2>2, <2>3 DEF Better
<1> QED BY <1>5

(* The root of a device's tree, and the layer as the distance from it.     *)
Head(n, ns, d) == CHOOSE r \in Tree(n, ns, d) :
                    \A m \in Tree(n, ns, d) \ {r} : Better(r, m, ns, d)

LEMMA HeadIs ==
    ASSUME NEW d \in Snapshots, NEW ns \in SUBSET Device, NEW n \in ns
    PROVE  /\ Head(n, ns, d) \in Tree(n, ns, d)
           /\ \A m \in Tree(n, ns, d) \ {Head(n, ns, d)} : Better(Head(n, ns, d), m, ns, d)
<1>1. Tree(n, ns, d) \in SUBSET Device /\ Tree(n, ns, d) # {}
  BY TreeIsClosed
<1> QED BY <1>1, BestExists DEF Head

LEMMA LayerIs ==
    ASSUME NEW d \in Snapshots, NEW ns \in SUBSET Device, NEW n \in ns
    PROVE  /\ Layer(n, ns, d) \in Nat
           /\ Head(n, ns, d) = n => Layer(n, ns, d) = 0
<1> DEFINE N == Cardinality(ns)
           K == {k \in 0..N : Head(n, ns, d) \in Ball(n, ns, d)[k]}
<1>1. N \in Nat /\ 0 \in 0..N /\ N \in 0..N
  BY DrawnIsFinite
<1>2. Layer(n, ns, d) = Min(K)
  BY DEF Layer, Head, Tree
<1>3. N \in K /\ K \subseteq Nat
  BY <1>1, HeadIs DEF Tree
<1>4. Head(n, ns, d) = n => 0 \in K
  BY <1>1, BallSteps
<1> HIDE DEF K
<1>5. PICK k \in K : \A j \in K : k <= j
  BY <1>3, LeastNatural
<1>6. Min(K) \in K /\ \A j \in K : Min(K) <= j
  BY <1>5 DEF Min
<1> DEFINE x == Min(K)
<1>7. x \in Nat /\ (0 \in K => x <= 0)
  BY <1>3, <1>6
<1>8. x \in Nat /\ (0 \in K => x = 0)
  <2> HIDE DEF x
  <2> QED BY <1>7
<1> QED BY <1>2, <1>4, <1>8
-----------------------------------------------------------------------------
(* The cloud hangs on a border device of the lowest layer.                 *)
Borders(ns, d) == {n \in ns : TypeOf[n] \in Border /\ Peers(n, d.nodes, d) # {}}

LEMMA GatewayIs ==
    ASSUME NEW d \in Snapshots, NEW ns \in SUBSET Device
    PROVE  LET g == Gateway[d][ns]
           IN  \/ g = None /\ Borders(ns, d) = {}
               \/ /\ g \in Borders(ns, d)
                  /\ \A n \in Borders(ns, d) : Layer(g, ns, d) <= Layer(n, ns, d)
<1> DEFINE B == Borders(ns, d)
           L == {Layer(n, ns, d) : n \in B}
           H == {n \in B : Layer(n, ns, d) = Min(L)}
<1>1. Gateway[d][ns] = IF B = {} THEN None ELSE Min(H)
  <2> DEFINE G(e, ms) ==
               IF Borders(ms, e) = {} THEN None
               ELSE Min({n \in Borders(ms, e) :
                          Layer(n, ms, e) = Min({Layer(m, ms, e) : m \in Borders(ms, e)})})
  <2>1. Gateway = [e \in Snapshots |-> [ms \in SUBSET Device |-> G(e, ms)]]
    BY DEF Gateway, Borders
  <2>2. G(d, ns) = IF B = {} THEN None ELSE Min(H)
    OBVIOUS
  <2> HIDE DEF G
  <2> QED BY <2>1, <2>2
<1>2. CASE B = {}
  BY <1>1, <1>2
<1>3. CASE B # {}
  <2>1. L \subseteq Nat /\ L # {} /\ B \subseteq Nat
    <3>1. B \subseteq ns /\ B \subseteq Nat
      BY DeviceAssumption DEF Borders
    <3>2. \A n \in B : Layer(n, ns, d) \in Nat
      BY <3>1, LayerIs
    <3> HIDE DEF B
    <3> QED BY <1>3, <3>1, <3>2
  <2>2. Min(L) \in L /\ \A x \in L : Min(L) <= x
    <3> HIDE DEF L
    <3>1. PICK x \in L : \A y \in L : x <= y
      BY <2>1, LeastNatural
    <3> QED BY <3>1 DEF Min
  <2>3. H \subseteq Nat /\ H # {}
    BY <2>1, <2>2
  <2>4. Min(H) \in H
    <3> HIDE DEF H
    <3>1. PICK x \in H : \A y \in H : x <= y
      BY <2>3, LeastNatural
    <3> QED BY <3>1 DEF Min
  <2> QED BY <1>1, <1>3, <2>2, <2>4
<1> QED BY <1>2, <1>3

(* With at most 20 links a device's links never outweigh its type.         *)
FewLinks == \A d \in Snapshots, ns \in SUBSET Device, n \in Device : Degree(n, ns, d) <= 20

LEMMA BorderHeads ==
    ASSUME FewLinks, NEW d \in Snapshots, NEW ns \in SUBSET d.nodes, NEW g \in Borders(ns, d)
    PROVE  Head(g, ns, d) \in Borders(ns, d)
<1> DEFINE r == Head(g, ns, d)
<1>1. ns \in SUBSET Device /\ g \in ns /\ TypeOf[g] \in Border
  BY SnapshotAssumption DEF Borders
<1>2. r \in Tree(g, ns, d) /\ r \in ns
  BY <1>1, HeadIs, TreeIsClosed
<1>3. CASE r = g
  BY <1>3
<1>4. CASE r # g
  <2>1. Better(r, g, ns, d)
    BY <1>1, <1>4, HeadIs, TreeIsClosed
  <2>2. Peers(g, ns, d) # {}
    BY <1>1, <1>2, <1>4, AloneWithoutPeers
  <2>3. Peers(r, ns, d) # {}
    BY <1>1, <1>2, <1>4, AloneWithoutPeers, TreesAgree, TreeIsClosed
  <2>4. /\ Score(g, ns, d) \in Nat /\ Score(r, ns, d) \in Nat
        /\ Score(r, ns, d) >= Score(g, ns, d)
    BY <1>1, <1>2, <2>1, ScoreIs DEF Better
  <2>5. RootPrio[TypeOf[g]] >= 4
    BY <1>1, DeviceAssumption DEF RootPrio, Border, Types
  <2>6. Score(g, ns, d) >= 81
    BY <1>1, <2>2, <2>5, ScoreIs, DegreeIs
  <2>7. RootPrio[TypeOf[r]] >= 4
    <3>1. /\ Degree(r, ns, d) <= 20 /\ Degree(r, ns, d) \in Nat
          /\ RootPrio[TypeOf[r]] \in 0..5
          /\ Score(r, ns, d) = RootPrio[TypeOf[r]] * 20 + Degree(r, ns, d)
      BY <1>1, <1>2, ScoreIs, DegreeIs DEF FewLinks
    <3> QED BY <2>4, <2>6, <3>1
  <2>8. TypeOf[r] \in Border
    <3>1. TypeOf[r] \in Types
      BY <1>1, <1>2, DeviceAssumption
    <3> QED BY <2>7, <3>1 DEF RootPrio, Border, Types
  <2>9. Peers(r, d.nodes, d) # {}
    BY <2>3 DEF Peers
  <2> QED BY <1>2, <2>8, <2>9 DEF Borders
<1> QED BY <1>3, <1>4

LEMMA GatewayOnTop ==
    ASSUME FewLinks, NEW d \in Snapshots, NEW ns \in SUBSET d.nodes, Gateway[d][ns] # None
    PROVE  Layer(Gateway[d][ns], ns, d) = 0
<1> DEFINE g == Gateway[d][ns]
           r == Head(g, ns, d)
<1>1. ns \in SUBSET Device
  BY SnapshotAssumption
<1>2. g \in Borders(ns, d) /\ \A n \in Borders(ns, d) : Layer(g, ns, d) <= Layer(n, ns, d)
  BY <1>1, GatewayIs
<1>3. g \in ns /\ r \in Borders(ns, d) /\ r \in ns /\ r \in Tree(g, ns, d)
  BY <1>1, <1>2, BorderHeads, HeadIs DEF Borders
<1>4. Tree(r, ns, d) = Tree(g, ns, d)
  BY <1>1, <1>3, TreesAgree
<1>5. Head(r, ns, d) = r
  BY <1>4 DEF Head
<1>6. Layer(r, ns, d) = 0
  BY <1>1, <1>3, <1>5, LayerIs
<1> DEFINE x == Layer(g, ns, d)
<1>7. x <= 0 /\ x \in Nat
  BY <1>1, <1>2, <1>3, <1>6, LayerIs
<1>8. x = 0
  <2> HIDE DEF x
  <2> QED BY <1>7
<1> QED BY <1>8
-----------------------------------------------------------------------------
(* The cloud always hangs where the drawn devices put it: every redraw     *)
(* computes it anew, and nothing else changes what is drawn.               *)
CloudInv == wan = Gateway[data][DOMAIN drawn]

LEMMA RedrawHangs == ASSUME Redraw PROVE CloudInv'
BY PlacedDraws DEF Redraw, CloudInv

LEMMA EffectHangs == ASSUME CloudInv, Effect PROVE CloudInv'
<1>1. CASE Dependencies' # Dependencies
  BY <1>1, RedrawHangs DEF Effect
<1>2. CASE Dependencies' = Dependencies
  BY <1>2 DEF Effect, Dependencies, CloudInv
<1> QED BY <1>1, <1>2

LEMMA CloudInvNext == CloudInv /\ [Next]_vars => CloudInv'
<1> SUFFICES ASSUME CloudInv, [Next]_vars PROVE CloudInv'
  OBVIOUS
<1>1. CASE \/ \E d \in Snapshots : TopologyAnswer(d)
           \/ \E n \in Device : ToggleType(TypeOf[n]) \/ ClickDevice(n)
           \/ ShowAllTypes \/ ToggleIsolated \/ ClearPath
           \/ \E l \in data.links : ClickLink(l)
           \/ ClickPane \/ Hide \/ ShowHidden
  <2>1. Effect
    BY <1>1 DEF TopologyAnswer, ToggleType, ClickDevice, ShowAllTypes, ToggleIsolated,
                ClearPath, ClickLink, ClickPane, Hide, ShowHidden
  <2> QED BY <2>1, EffectHangs
<1>2. CASE Restyle
  BY <1>2, RedrawHangs DEF Restyle
<1>3. CASE Measure \/ SaveTimer \/ Reset \/ \E n \in Device : Drag(n)
  <2>1. UNCHANGED <<data, wan>> /\ DOMAIN drawn' = DOMAIN drawn
    BY <1>3 DEF Measure, SaveTimer, Reset, Drag
  <2> QED BY <2>1 DEF CloudInv
<1>4. ASSUME NEW p \in Paths, Return(p) PROVE CloudInv'
  BY <1>4, PlacedDraws DEF Return, CloudInv
<1>5. CASE UNCHANGED vars
  BY <1>5 DEF vars, CloudInv
<1> QED BY <1>1, <1>2, <1>3, <1>4, <1>5 DEF Next

LEMMA CloudHangs == Spec => [](MapInv /\ CloudInv)
<1>1. Init => CloudInv
  BY PlacedDraws DEF Init, CloudInv
<1> QED BY <1>1, CloudInvNext, MapInvInit, MapInvNext, PTL DEF Spec

LEMMA DrawnIsListed == ASSUME MapInv PROVE DOMAIN drawn \in SUBSET data.nodes
BY DEF MapInv, MapShowsWhatIsChosen, Visible, Chosen

(* The device the Internet cloud hangs on heads its tree, whatever the     *)
(* controls hide, as long as no device has more than 20 links.             *)
THEOREM CloudIsOnTop == FewLinks => (Spec => []GatewayIsOnTop)
<1> SUFFICES ASSUME FewLinks PROVE Spec => []GatewayIsOnTop
  OBVIOUS
<1>1. MapInv /\ CloudInv => GatewayIsOnTop
  BY DrawnIsListed, GatewayOnTop DEF MapInv, CloudInv, GatewayIsOnTop
<1> QED BY <1>1, CloudHangs, PTL
-----------------------------------------------------------------------------
(* Type correctness; where the cloud hangs follows from CloudInv.          *)
TypeInv ==
    /\ data \in Snapshots
    /\ hiddenIds \subseteq Device /\ hiddenTypes \subseteq {TypeOf[n] : n \in Device}
    /\ isolated \in BOOLEAN /\ path \in Paths \cup {{}}
    /\ selected \in Device \cup {None}
    /\ drawn \in Positions /\ mounted \in Positions /\ saved \in Positions
    /\ pending \in Positions /\ acts \in 0..MaxActs

LEMMA IsPosition ==
    \A f : f \in Positions <=> /\ DOMAIN f \subseteq Device
                               /\ f = [n \in DOMAIN f |-> f[n]]
                               /\ \A n \in DOMAIN f : f[n] \in {"auto", "dragged"}
<1>1. ASSUME NEW f, DOMAIN f \subseteq Device, f = [n \in DOMAIN f |-> f[n]],
             \A n \in DOMAIN f : f[n] \in {"auto", "dragged"}
      PROVE  f \in Positions
  <2>1. f \in [DOMAIN f -> {"auto", "dragged"}]
    BY <1>1
  <2> QED BY <1>1, <2>1 DEF Positions
<1>2. ASSUME NEW f \in Positions
      PROVE  /\ DOMAIN f \subseteq Device /\ f = [n \in DOMAIN f |-> f[n]]
             /\ \A n \in DOMAIN f : f[n] \in {"auto", "dragged"}
  <2>1. PICK S \in SUBSET Device : f \in [S -> {"auto", "dragged"}]
    BY DEF Positions
  <2> QED BY <2>1
<1> QED BY <1>1, <1>2

LEMMA NowhereIsPosition == Nowhere \in Positions
<1>1. Nowhere \in [{} -> {"auto", "dragged"}]
  BY DEF Nowhere
<1> QED BY <1>1 DEF Positions

LEMMA PlacedIsPosition ==
    ASSUME NEW ns \in SUBSET Device, NEW before \in Positions, NEW layout \in Positions
    PROVE  Placed(ns, before, layout) \in Positions
<1>1. /\ \A n \in DOMAIN before : before[n] \in {"auto", "dragged"}
      /\ \A n \in DOMAIN layout : layout[n] \in {"auto", "dragged"}
  BY IsPosition
<1>2. Placed(ns, before, layout) \in [ns -> {"auto", "dragged"}]
  BY <1>1 DEF Placed
<1> QED BY <1>2 DEF Positions

LEMMA VisibleIsDevices == ASSUME data \in Snapshots PROVE Visible \in SUBSET Device
BY SnapshotAssumption DEF Visible, Chosen

LEMMA RedrawTyped ==
    ASSUME TypeInv, data' \in Snapshots, Redraw PROVE drawn' \in Positions
<1>1. Visible' \in SUBSET Device
  BY SnapshotAssumption DEF Visible, Chosen
<1> QED BY <1>1, PlacedIsPosition DEF Redraw, TypeInv

LEMMA EffectTyped ==
    ASSUME TypeInv, data' \in Snapshots, Effect PROVE drawn' \in Positions
BY RedrawTyped DEF Effect, TypeInv

LEMMA ActTyped == ASSUME TypeInv, Act PROVE acts' \in 0..MaxActs
BY BoundAssumption DEF TypeInv, Act

LEMMA TypeInvInit == Init => TypeInv
<1> SUFFICES ASSUME Init PROVE TypeInv
  OBVIOUS
<1>1. drawn \in Positions
  BY VisibleIsDevices, NowhereIsPosition, PlacedIsPosition DEF Init
<1>2. acts \in 0..MaxActs
  BY BoundAssumption DEF Init
<1> QED BY <1>1, <1>2, NowhereIsPosition DEF Init, TypeInv

LEMMA TypeInvNext == TypeInv /\ [Next]_vars => TypeInv'
<1> SUFFICES ASSUME TypeInv, [Next]_vars PROVE TypeInv'
  OBVIOUS
<1>1. ASSUME NEW d \in Snapshots, TopologyAnswer(d) PROVE TypeInv'
  BY <1>1, EffectTyped, ActTyped DEF TopologyAnswer, controls, storage, TypeInv
<1>2. CASE Restyle
  BY <1>2, RedrawTyped, ActTyped DEF Restyle, controls, storage, TypeInv
<1>3. ASSUME NEW n \in Device, ToggleType(TypeOf[n]) PROVE TypeInv'
  BY <1>3, EffectTyped, ActTyped DEF ToggleType, storage, TypeInv
<1>4. ASSUME NEW n \in Device, ClickDevice(n) PROVE TypeInv'
  BY <1>4, EffectTyped, ActTyped DEF ClickDevice, controls, storage, TypeInv
<1>5. ASSUME NEW n \in Device, Drag(n) PROVE TypeInv'
  <2>1. drawn' = [drawn EXCEPT ![n] = "dragged"] /\ n \in DOMAIN drawn
    BY <1>5 DEF Drag
  <2>2. PICK S \in SUBSET Device : drawn \in [S -> {"auto", "dragged"}]
    BY DEF TypeInv, Positions
  <2>3. drawn' \in [S -> {"auto", "dragged"}]
    BY <2>1, <2>2
  <2>4. drawn' \in Positions
    BY <2>3 DEF Positions
  <2> QED BY <1>5, <2>4, ActTyped DEF Drag, controls, TypeInv
<1>6. CASE ShowAllTypes
  BY <1>6, EffectTyped, ActTyped DEF ShowAllTypes, storage, TypeInv
<1>7. CASE ToggleIsolated
  BY <1>7, EffectTyped, ActTyped DEF ToggleIsolated, storage, TypeInv
<1>8. CASE ClearPath
  BY <1>8, EffectTyped, ActTyped DEF ClearPath, storage, TypeInv
<1>9. ASSUME NEW l \in data.links, ClickLink(l) PROVE TypeInv'
  BY <1>9, EffectTyped, ActTyped DEF ClickLink, controls, storage, TypeInv
<1>10. CASE ClickPane
  BY <1>10, EffectTyped, ActTyped DEF ClickPane, controls, storage, TypeInv
<1>11. CASE Hide
  <2>1. selected \in Device
    BY <1>11, SnapshotAssumption DEF Hide, TypeInv
  <2> QED BY <1>11, <2>1, EffectTyped, ActTyped DEF Hide, storage, TypeInv
<1>12. CASE ShowHidden
  BY <1>12, EffectTyped, ActTyped DEF ShowHidden, storage, TypeInv
<1>13. CASE Measure \/ SaveTimer
  BY <1>13, NowhereIsPosition DEF Measure, SaveTimer, controls, TypeInv
<1>14. CASE Reset
  <2>1. DOMAIN drawn \in SUBSET Device /\ \A n \in DOMAIN drawn : drawn[n] \in {"auto", "dragged"}
    BY IsPosition DEF TypeInv
  <2>2. drawn' \in [DOMAIN drawn -> {"auto", "dragged"}]
    BY <1>14, <2>1 DEF Reset
  <2>3. drawn' \in Positions
    BY <2>1, <2>2 DEF Positions
  <2> QED BY <1>14, <2>3, NowhereIsPosition, ActTyped DEF Reset, controls, TypeInv
<1>15. ASSUME NEW p \in Paths, Return(p) PROVE TypeInv'
  <2>1. Visible' \in SUBSET Device
    BY <1>15, SnapshotAssumption DEF Return, TypeInv, Visible, Chosen
  <2>2. mounted' \in Positions /\ drawn' = Placed(Visible', Nowhere, mounted')
    BY <1>15 DEF Return, TypeInv
  <2>3. drawn' \in Positions
    BY <2>1, <2>2, NowhereIsPosition, PlacedIsPosition
  <2> QED BY <1>15, <2>2, <2>3, ActTyped DEF Return, TypeInv
<1>16. CASE UNCHANGED vars
  BY <1>16 DEF vars, TypeInv
<1> QED
  BY <1>1, <1>2, <1>3, <1>4, <1>5, <1>6, <1>7, <1>8, <1>9, <1>10, <1>11, <1>12, <1>13,
     <1>14, <1>15, <1>16 DEF Next

(* Every state of the topology page is a state of its type; in particular  *)
(* the cloud hangs on a device that is drawn.                              *)
THEOREM TopologyTypes == Spec => []TypeOK
<1>1. TypeInv /\ MapInv /\ CloudInv => TypeOK
  <2> SUFFICES ASSUME TypeInv, MapInv, CloudInv PROVE TypeOK
    OBVIOUS
  <2>1. DOMAIN drawn \in SUBSET Device
    BY IsPosition DEF TypeInv
  <2>2. wan \in DOMAIN drawn \cup {None}
    BY <2>1, GatewayIs DEF CloudInv, TypeInv, Borders
  <2> QED BY <2>2 DEF TypeInv, TypeOK
<1> QED BY <1>1, TypeInvInit, TypeInvNext, CloudHangs, PTL DEF Spec
=============================================================================
