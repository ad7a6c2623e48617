----------------------- MODULE PollerManager_proofs -----------------------
(***************************************************************************)
(* TLAPS proofs about PollerManager, for every finite set of devices,      *)
(* every set of goroutines, every limit and every number of list edits.    *)
(***************************************************************************)
EXTENDS PollerManager, FiniteSetTheorems, TLAPS

\* The started goroutines of a Reconcile step each get back their own device.
LEMMA StartedDevice ==
    ASSUME NEW S, NEW go \in [S -> Free],
           \A d, e \in S : go[d] = go[e] => d = e,
           NEW d \in S
    PROVE  (CHOOSE e \in S : go[e] = go[d]) = d
  OBVIOUS

\* Every variable keeps its type, and only a free goroutine slot has no device.
THEOREM TypeCorrect == Spec => []TypeOK
<1>1. Init => TypeOK
  <2> SUFFICES ASSUME Init PROVE TypeOK
    OBVIOUS
  <2> USE DEF Init
  <2>1. edits \in 0..MaxEdits
    BY ConstantsAssumption
  <2>2. pc \in [Goroutine -> Control] /\ due \in [Goroutine -> SUBSET Ticker]
    BY DEF Control
  <2>3. running \in [Device -> Goroutine \cup {NoGoroutine}]
    OBVIOUS
  <2>4. /\ dev \in [Goroutine -> Device \cup {NoDevice}]
        /\ cancelled \in [Goroutine -> BOOLEAN]
        /\ \A g \in Goroutine : pc[g] = "free" <=> dev[g] = NoDevice
    OBVIOUS
  <2> QED
    BY <2>1, <2>2, <2>3, <2>4 DEF TypeOK, Manager
<1>2. TypeOK /\ [Next]_vars => TypeOK'
  <2> SUFFICES ASSUME TypeOK, [Next]_vars PROVE TypeOK'
    OBVIOUS
  <2> USE ConstantsAssumption DEF TypeOK, Manager, Control, Ticker
  <2>1. CASE EditList
    BY <2>1 DEF EditList, mgrVars, taskVars
  <2>2. CASE LoadDevices
    BY <2>2 DEF LoadDevices, listVars, taskVars
  <2>3. CASE Reconcile
    <3> PICK S \in StartSets : \E go \in Launches(S) : ReconcileWith(S, go)
      BY <2>3 DEF Reconcile
    <3> PICK go \in [S -> Free] : (\A d, e \in S : go[d] = go[e] => d = e)
                                   /\ ReconcileWith(S, go)
      BY DEF Launches
    <3> USE DEF ReconcileWith, StartedWithDevice
    <3>1. S \subseteq Device
      BY DEF StartSets
    <3>2. \A d \in S : go[d] \in Goroutine
      BY DEF Free
    <3>3. \A g \in {go[d] : d \in S} : (CHOOSE d \in S : go[d] = g) \in Device
      BY <3>1
    <3>4. running' \in [Device -> Goroutine \cup {NoGoroutine}]
      BY <3>2
    <3>5. dev' \in [Goroutine -> Device \cup {NoDevice}]
      <4>1. dev' = [g \in Goroutine |-> IF g \in {go[d] : d \in S}
                                       THEN CHOOSE d \in S : go[d] = g ELSE dev[g]]
        BY Zenon
      <4>2. \A g \in Goroutine \ {go[d] : d \in S} : dev[g] \in Device \cup {NoDevice}
        OBVIOUS
      <4> HIDE DEF ReconcileWith, StartedWithDevice, TypeOK
      <4> QED
        BY <3>3, <4>1, <4>2
    <3>6. pc' \in [Goroutine -> Control]
      OBVIOUS
    <3>7. cancelled' \in [Goroutine -> BOOLEAN]
      OBVIOUS
    <3>8. \A g \in Goroutine : pc'[g] = "free" <=> dev'[g] = NoDevice
      <4> SUFFICES ASSUME NEW g \in Goroutine PROVE pc'[g] = "free" <=> dev'[g] = NoDevice
        OBVIOUS
      <4>1. CASE g \in {go[d] : d \in S}
        <5>1. dev'[g] = (CHOOSE d \in S : go[d] = g) /\ pc'[g] = "decode"
          BY <4>1
        <5>2. (CHOOSE d \in S : go[d] = g) # NoDevice
          <6> HIDE DEF ReconcileWith, StartedWithDevice, TypeOK
          <6> QED
            BY <3>3, <4>1
        <5> HIDE DEF ReconcileWith, StartedWithDevice, TypeOK
        <5> QED
          BY <5>1, <5>2
      <4>2. CASE g \notin {go[d] : d \in S}
        BY <4>2
      <4> QED
        BY <4>1, <4>2
    <3> QED
      BY <2>3, <3>4, <3>5, <3>6, <3>7, <3>8 DEF Reconcile, listVars
  <2>4. CASE Signal
    BY <2>4 DEF Signal, listVars
  <2>5. CASE StopAll
    BY <2>5 DEF StopAll, listVars
  <2>6. ASSUME NEW g \in Goroutine, RunDevice(g) PROVE TypeOK'
    <3> USE DEF listVars, mgrVars, Goto
    <3>1. CASE DecodeCred(g)
      BY <3>1 DEF DecodeCred
    <3>2. CASE SleepOver(g)
      BY <3>2 DEF SleepOver
    <3>3. CASE SleepCancelled(g)
      BY <3>3 DEF SleepCancelled
    <3>4. CASE Connect(g)
      BY <3>4 DEF Connect
    <3>5. CASE PollTick(g)
      BY <3>5 DEF PollTick
    <3>6. CASE ProbeTick(g)
      BY <3>6 DEF ProbeTick
    <3>7. CASE PollDone(g)
      BY <3>7 DEF PollDone
    <3>8. CASE Exit(g)
      BY <3>8 DEF Exit, RemoveEntry
    <3>9. ASSUME NEW t \in Ticker, Tick(g, t) PROVE TypeOK'
      BY <3>9 DEF Tick
    <3> QED
      BY <2>6, <3>1, <3>2, <3>3, <3>4, <3>5, <3>6, <3>7, <3>8, <3>9 DEF RunDevice
  <2>7. CASE UNCHANGED vars
    BY <2>7 DEF vars, listVars, mgrVars, taskVars
  <2> QED
    BY <2>1, <2>2, <2>3, <2>4, <2>5, <2>6, <2>7 DEF Next
<1> QED
  BY <1>1, <1>2, PTL DEF Spec

\* An entry of the running map is a goroutine polling that device and, until the
\* process is signalled, not cancelled.  The type invariant is what makes this
\* inductive: a free slot has no device, so a new goroutine is in no other entry.
THEOREM EntriesArePollers == Spec => []EntryIsAPoller
<1>1. Init => EntryIsAPoller
  BY DEF Init, EntryIsAPoller, Entries
<1>2. TypeOK /\ EntryIsAPoller /\ [Next]_vars => EntryIsAPoller'
  <2> SUFFICES ASSUME TypeOK, EntryIsAPoller, [Next]_vars PROVE EntryIsAPoller'
    OBVIOUS
  <2> USE ConstantsAssumption DEF TypeOK, EntryIsAPoller, Entries
  <2>1. CASE EditList
    BY <2>1 DEF EditList, mgrVars, taskVars
  <2>2. CASE LoadDevices
    BY <2>2 DEF LoadDevices, listVars, taskVars
  <2>3. CASE Reconcile
    <3> PICK S \in StartSets : \E go \in Launches(S) : ReconcileWith(S, go)
      BY <2>3 DEF Reconcile
    <3> PICK go \in [S -> Free] : (\A d, e \in S : go[d] = go[e] => d = e)
                                   /\ ReconcileWith(S, go)
      BY DEF Launches
    <3> USE DEF ReconcileWith, StartedWithDevice
    <3>0. ctxDone' = ctxDone
      BY <2>3 DEF Reconcile
    <3>1. S \subseteq Device /\ \A d \in S : go[d] \in Goroutine /\ pc[go[d]] = "free"
      BY DEF StartSets, Free, Live
    <3>2. ASSUME NEW d \in S
          PROVE  dev'[running'[d]] = d /\ (ctxDone' \/ ~cancelled'[running'[d]])
      BY <3>0, <3>1, StartedDevice
    <3>3. ASSUME NEW d \in Device \ S, running'[d] # NoGoroutine
          PROVE  dev'[running'[d]] = d /\ (ctxDone' \/ ~cancelled'[running'[d]])
      <4>1. running'[d] = running[d] /\ d \in Entries /\ d \in snapshot
        BY <3>3
      <4>2. running[d] \in Goroutine /\ dev[running[d]] = d
        BY <4>1
      <4>3. running[d] \notin {go[e] : e \in S}
        <5> HIDE DEF ReconcileWith, StartedWithDevice, EntryIsAPoller
        <5>1. pc[running[d]] # "free"
          BY <4>2
        <5> QED
          BY <3>1, <5>1
      <4>4. \A e \in Entries \ snapshot : running[e] # running[d]
        BY <4>1, <4>2
      <4> QED
        BY <3>0, <4>1, <4>2, <4>3, <4>4
    <3> QED
      BY <3>2, <3>3
  <2>4. CASE Signal
    BY <2>4 DEF Signal, listVars
  <2>5. CASE StopAll
    BY <2>5 DEF StopAll, listVars
  <2>6. ASSUME NEW g \in Goroutine, RunDevice(g) PROVE EntryIsAPoller'
    <3>1. CASE Exit(g)
      BY <3>1 DEF Exit, RemoveEntry, mgrVars
    <3>2. CASE ~Exit(g)
      BY <2>6, <3>2 DEF RunDevice, DecodeCred, SleepOver, SleepCancelled, Connect,
                        PollTick, ProbeTick, PollDone, Tick, mgrVars
    <3> QED
      BY <3>1, <3>2
  <2>7. CASE UNCHANGED vars
    BY <2>7 DEF vars, listVars, mgrVars, taskVars
  <2> QED
    BY <2>1, <2>2, <2>3, <2>4, <2>5, <2>6, <2>7 DEF Next
<1> QED
  BY <1>1, <1>2, TypeCorrect, PTL DEF Spec

\* What sync may start fits into the room the present entries leave.
LEMMA StartsFit ==
    ASSUME TypeOK, LimitRespected, NEW S \in StartSets
    PROVE  Cardinality(Entries \cup S) <= MaxConcurrentDevices
<1> USE ConstantsAssumption
<1>1. IsFiniteSet(Entries) /\ Cardinality(Entries) \in Nat
  BY FS_Subset, FS_CardinalityType DEF Entries
<1>2. S \subseteq snapshot \ Entries /\ snapshot \subseteq Device
  BY DEF StartSets, TypeOK
<1>3. IsFiniteSet(S) /\ Cardinality(S) \in Nat
  BY <1>2, FS_Subset, FS_CardinalityType
<1>4. Entries \cap S = {}
  BY <1>2
<1>5. Cardinality(Entries \cup S) = Cardinality(Entries) + Cardinality(S)
  <2>1. Cardinality(Entries \cup S) =
           Cardinality(Entries) + Cardinality(S) - Cardinality(Entries \cap S)
    BY <1>1, <1>3, FS_Union
  <2>2. Cardinality(Entries \cap S) = 0
    BY <1>4, FS_EmptySet
  <2> QED
    BY <1>1, <1>3, <2>1, <2>2
<1>6. Cardinality(snapshot \ Entries) \in Nat
  BY <1>2, FS_Subset, FS_CardinalityType
<1>7. Cardinality(Entries) + Cardinality(S) <= MaxConcurrentDevices
  BY <1>1, <1>3, <1>6 DEF StartSets, Room, LimitRespected
<1> QED
  BY <1>5, <1>7

\* The running map never outgrows the configured limit.
THEOREM LimitHolds == Spec => []LimitRespected
<1> USE ConstantsAssumption
<1>1. Init => LimitRespected
  <2> SUFFICES ASSUME Init PROVE LimitRespected
    OBVIOUS
  <2>1. Entries = {}
    BY DEF Init, Entries
  <2> QED
    BY <2>1, FS_EmptySet DEF LimitRespected
<1>2. TypeOK /\ LimitRespected /\ [Next]_vars => LimitRespected'
  <2> SUFFICES ASSUME TypeOK, LimitRespected, [Next]_vars PROVE LimitRespected'
    OBVIOUS
  <2>1. \A B : B \subseteq Device => IsFiniteSet(B) /\ Cardinality(B) \in Nat
    BY FS_Subset, FS_CardinalityType
  <2>2. \A A, B : A \subseteq B /\ B \subseteq Device => Cardinality(A) <= Cardinality(B)
    BY <2>1, FS_Subset
  <2>3. CASE Reconcile
    <3>1. PICK S \in StartSets : Entries' \subseteq Entries \cup S
      <4>1. PICK S \in StartSets : \E go \in Launches(S) : ReconcileWith(S, go)
        BY <2>3 DEF Reconcile
      <4>2. Entries' \subseteq Entries \cup S
        BY <4>1 DEF ReconcileWith, Entries, TypeOK
      <4> QED
        BY <4>2
    <3>2. Entries \cup S \subseteq Device
      BY DEF Entries, StartSets, TypeOK
    <3>3. Cardinality(Entries \cup S) <= MaxConcurrentDevices
      BY StartsFit
    <3>4. Cardinality(Entries') <= Cardinality(Entries \cup S)
      BY <2>2, <3>1, <3>2
    <3>5. Cardinality(Entries') \in Nat /\ Cardinality(Entries \cup S) \in Nat
      BY <2>1, <3>1, <3>2
    <3> QED
      BY <3>3, <3>4, <3>5 DEF LimitRespected
  <2>4. CASE ~Reconcile
    <3>1. Entries' \subseteq Entries
      <4>1. CASE \E g \in Goroutine : Exit(g)
        BY <4>1 DEF Exit, RemoveEntry, Entries, TypeOK
      <4>2. CASE ~\E g \in Goroutine : Exit(g)
        <5>1. running' = running
          BY <4>2, <2>4 DEF Next, EditList, LoadDevices, Signal, StopAll, RunDevice,
                DecodeCred, SleepOver, SleepCancelled, Connect, PollTick, ProbeTick,
                PollDone, Tick, vars
        <5> QED
          BY <5>1 DEF Entries
      <4> QED
        BY <4>1, <4>2
    <3>2. Entries \subseteq Device
      BY DEF Entries
    <3>3. Cardinality(Entries') <= Cardinality(Entries)
      BY <2>2, <3>1, <3>2
    <3>4. Cardinality(Entries') \in Nat /\ Cardinality(Entries) \in Nat
      BY <2>1, <3>1, <3>2
    <3> QED
      BY <3>3, <3>4 DEF LimitRespected
  <2> QED
    BY <2>3, <2>4
<1> QED
  BY <1>1, <1>2, TypeCorrect, PTL DEF Spec

\* A signal cancels every started goroutine, and every goroutine that the manager
\* starts before it sees the signal: what is left for the fairness is that each
\* goroutine looks at its context.
THEOREM SignalIsHeard == Spec => []SignalReachesAll
<1>1. Init => SignalReachesAll
  BY DEF Init, SignalReachesAll
<1>2. TypeOK /\ SignalReachesAll /\ [Next]_vars => SignalReachesAll'
  <2> SUFFICES ASSUME TypeOK, SignalReachesAll, [Next]_vars PROVE SignalReachesAll'
    OBVIOUS
  <2> USE DEF TypeOK, SignalReachesAll, Live
  <2>1. CASE Reconcile
    <3> PICK S \in StartSets : \E go \in Launches(S) : ReconcileWith(S, go)
      BY <2>1 DEF Reconcile
    <3> PICK go \in Launches(S) : ReconcileWith(S, go)
      OBVIOUS
    <3>1. ctxDone' = ctxDone
      BY <2>1 DEF Reconcile
    <3> QED
      BY <3>1 DEF ReconcileWith
  <2>2. CASE Signal
    BY <2>2 DEF Signal, DerivedContexts
  <2>3. CASE StopAll
    BY <2>3 DEF StopAll
  <2>4. CASE EditList \/ LoadDevices
    BY <2>4 DEF EditList, LoadDevices, mgrVars, taskVars
  <2>5. ASSUME NEW g \in Goroutine, RunDevice(g) PROVE SignalReachesAll'
    <3> USE DEF mgrVars, Goto
    <3>1. CASE Exit(g)
      BY <3>1 DEF Exit
    <3>2. CASE ~Exit(g)
      BY <2>5, <3>2 DEF RunDevice, DecodeCred, SleepOver, SleepCancelled, Connect,
                        PollTick, ProbeTick, PollDone, Tick
    <3> QED
      BY <3>1, <3>2
  <2>6. CASE UNCHANGED vars
    BY <2>6 DEF vars, mgrVars, taskVars
  <2> QED
    BY <2>1, <2>2, <2>3, <2>4, <2>5, <2>6 DEF Next
<1> QED
  BY <1>1, <1>2, TypeCorrect, PTL DEF Spec

\* Once the manager has stopped no goroutine is started, so that those that return
\* leave the process with fewer and fewer (Run returns after stopAll).
THEOREM NothingStartsAfterStop ==
    Spec => [][manager = "stopped" => manager' = "stopped" /\ Live' \subseteq Live]_vars
<1>1. TypeOK /\ [Next]_vars =>
        [manager = "stopped" => manager' = "stopped" /\ Live' \subseteq Live]_vars
  <2> SUFFICES ASSUME TypeOK, Next, manager = "stopped"
               PROVE  manager' = "stopped" /\ Live' \subseteq Live
    OBVIOUS
  <2> USE DEF TypeOK, Live
  <2>1. CASE EditList \/ Signal
    BY <2>1 DEF EditList, Signal, mgrVars, taskVars
  <2>2. CASE LoadDevices \/ Reconcile \/ StopAll
    BY <2>2 DEF LoadDevices, Reconcile, StopAll
  <2>3. ASSUME NEW g \in Goroutine, RunDevice(g)
        PROVE  manager' = "stopped" /\ Live' \subseteq Live
    <3> USE DEF mgrVars, Goto
    <3> QED
      BY <2>3 DEF RunDevice, DecodeCred, SleepOver, SleepCancelled, Connect, PollTick,
                  ProbeTick, PollDone, Tick, Exit
  <2> QED
    BY <2>1, <2>2, <2>3 DEF Next
<1> QED
  BY <1>1, TypeCorrect, PTL DEF Spec

\* A sync leaves a listed device without a goroutine only at the limit, which it
\* counts with the entries it is about to remove: that a device is skipped although
\* there is room, because of an entry or of a place in the list, does not happen.
\* ListedDevicesArePolled needs this of every sync.
THEOREM SyncServesOrIsFull ==
    Spec => [][Reconcile =>
                 snapshot \subseteq Entries'
                   \/ Cardinality(Entries \cup Entries') >= MaxConcurrentDevices]_vars
<1> USE ConstantsAssumption
<1>1. TypeOK /\ [Next]_vars =>
        [Reconcile =>
           snapshot \subseteq Entries'
             \/ Cardinality(Entries \cup Entries') >= MaxConcurrentDevices]_vars
  <2> SUFFICES ASSUME TypeOK, Reconcile
               PROVE  \/ snapshot \subseteq Entries'
                      \/ Cardinality(Entries \cup Entries') >= MaxConcurrentDevices
    OBVIOUS
  <2> DEFINE new == snapshot \ Entries
  <2> PICK S \in StartSets : \E go \in Launches(S) : ReconcileWith(S, go)
    BY DEF Reconcile
  <2> PICK go \in [S -> Free] : ReconcileWith(S, go)
    BY DEF Launches
  <2>1. /\ S \subseteq new
        /\ new \subseteq Device
        /\ Cardinality(S) = IF Cardinality(new) < Room THEN Cardinality(new) ELSE Room
    BY DEF StartSets, TypeOK
  <2>2. \A d \in S : go[d] \in Goroutine
    BY DEF Free
  <2>3. \A d \in Device : running'[d] = IF d \in S THEN go[d]
                                        ELSE IF d \in Entries \ snapshot THEN NoGoroutine
                                        ELSE running[d]
    BY DEF ReconcileWith
  <2>4. /\ Entries \cup Entries' = Entries \cup S
        /\ snapshot \cap Entries \subseteq Entries'
        /\ S \subseteq Entries'
    BY <2>1, <2>2, <2>3 DEF Entries, TypeOK
  <2>5. /\ IsFiniteSet(S) /\ Cardinality(S) \in Nat
        /\ IsFiniteSet(new) /\ Cardinality(new) \in Nat
        /\ IsFiniteSet(Entries) /\ Cardinality(Entries) \in Nat
    BY <2>1, FS_Subset, FS_CardinalityType DEF Entries
  <2>6. CASE Cardinality(S) = Cardinality(new)
    <3>1. S = new
      BY <2>1, <2>5, <2>6, FS_Subset
    <3> QED BY <2>4, <3>1
  <2>7. CASE Cardinality(S) = Room
    <3>1. Cardinality(Entries \cap S) = 0
      BY <2>1, FS_EmptySet
    <3>2. Cardinality(Entries \cup S) = Cardinality(Entries) + Cardinality(S)
      <4>1. Cardinality(Entries \cup S) =
               Cardinality(Entries) + Cardinality(S) - Cardinality(Entries \cap S)
        BY <2>5, FS_Union
      <4> QED BY <2>5, <3>1, <4>1
    <3>3. Cardinality(Entries) + Room >= MaxConcurrentDevices
      BY <2>5 DEF Room
    <3> QED BY <2>4, <2>7, <3>2, <3>3
  <2> QED BY <2>1, <2>6, <2>7
<1> QED BY <1>1, TypeCorrect, PTL DEF Spec
=============================================================================
