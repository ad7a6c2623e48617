--------------------------- MODULE PollerManager ---------------------------
(***************************************************************************)
(* The device-poller manager of the SNMP collector                         *)
(* (collectors/snmp/internal/poller/poller.go).  One manager goroutine     *)
(* reconciles the set of per-device polling goroutines with the device     *)
(* list in PostgreSQL; every device goroutine connects, polls on tickers,  *)
(* reconnects with backoff, and removes its own entry of the shared        *)
(* `running` map in a deferred call when it returns.                       *)
(*                                                                         *)
(* Abstracted: SNMP itself (a connect or a poll succeeds or fails), the    *)
(* durations (a timer may fire whenever it is armed).  The interface and   *)
(* the health ticker drive the same control and are one ticker, "snmp".    *)
(***************************************************************************)
EXTENDS Naturals, FiniteSets

CONSTANTS
    Device,                \* devices the database may list
    Goroutine,             \* goroutine identities, numbered, reused once a goroutine has returned
    MaxConcurrentDevices,  \* cfg.Polling.MaxConcurrentDevices
    MaxEdits,              \* bound: how often the device list changes
    NoDevice, NoGoroutine  \* "no value"

ASSUME ConstantsAssumption ==
    /\ IsFiniteSet(Device)
    /\ NoDevice \notin Device
    /\ Goroutine \subseteq Nat
    /\ NoGoroutine \notin Goroutine
    /\ MaxConcurrentDevices \in Nat
    /\ MaxEdits \in Nat

VARIABLES
    listed,     \* devices LoadDevices would return now
    edits,      \* number of device-list changes so far (bounded by MaxEdits)
    snapshot,   \* result of the LoadDevices call in progress, or {} outside one
    manager,    \* program counter of the manager goroutine
    ctxDone,    \* the process context is cancelled
    running,    \* Manager.running: device -> the goroutine whose cancel func it holds
    dev,        \* goroutine -> the device it polls
    pc,         \* goroutine -> program counter of runDevice
    cancelled,  \* goroutine -> its own context is cancelled
    due         \* goroutine -> tickers with a tick in their channel (capacity one)

listVars == <<listed, edits>>
mgrVars  == <<snapshot, manager, ctxDone>>
taskVars == <<dev, pc, cancelled, due>>
vars     == <<listVars, mgrVars, running, taskVars>>

Ticker  == {"snmp", "probe"}
Control == {"free", "decode", "stagger", "connect", "backoff", "select", "exit"}
Manager == {"idle", "loaded", "stopped"}

\* Goroutines that have been started and have not returned.
Live      == {g \in Goroutine : pc[g] # "free"}
Free      == Goroutine \ Live
Entries   == {d \in Device : running[d] # NoGoroutine}
\* Goroutines that poll, or will: started, not cancelled, not on their way out.
Pollers   == {g \in Live : ~cancelled[g] /\ pc[g] # "exit"}
\* Tickers exist from the end of the start-up stagger to the return.
Ticking   == {g \in Live : pc[g] \in {"connect", "backoff", "select"}}

----------------------------------------------------------------------------
Init ==
    /\ listed \in SUBSET Device
    /\ edits = 0
    /\ snapshot = {}
    /\ manager = "idle"
    /\ ctxDone = FALSE
    /\ running = [d \in Device |-> NoGoroutine]
    /\ dev = [g \in Goroutine |-> NoDevice]
    /\ pc = [g \in Goroutine |-> "free"]
    /\ cancelled = [g \in Goroutine |-> FALSE]
    /\ due = [g \in Goroutine |-> {}]

\* An operator adds, removes, or moves a device to or from a remote collector.
EditList ==
    /\ edits < MaxEdits
    /\ \E d \in Device :
         listed' = IF d \in listed THEN listed \ {d} ELSE listed \cup {d}
    /\ edits' = edits + 1
    /\ UNCHANGED <<mgrVars, running, taskVars>>

\* sync: the query.  It fails, with nothing changed, once ctx is cancelled.
LoadDevices ==
    /\ manager = "idle"
    /\ ~ctxDone
    /\ snapshot' = listed
    /\ manager' = "loaded"
    /\ UNCHANGED <<ctxDone, listVars, running, taskVars>>

\* Entries sync may still add; those it is about to remove still count.
MutRoomOffByOne ==
    LET used == Cardinality(Entries)
    IN  IF used > MaxConcurrentDevices THEN 0 ELSE MaxConcurrentDevices - used + 1

Room ==
    LET used == Cardinality(Entries)
    IN  IF used >= MaxConcurrentDevices THEN 0 ELSE MaxConcurrentDevices - used

\* The devices sync starts: it walks the list, skips a device with an entry,
\* and breaks off at the limit.
StartSets ==
    LET new == snapshot \ Entries
    IN  {S \in SUBSET new :
            Cardinality(S) = IF Cardinality(new) < Room THEN Cardinality(new) ELSE Room}

\* Each started goroutine is handed its device's row.
MutStartedWithoutDevice(S, go) == dev

StartedWithDevice(S, go) ==
    [g \in Goroutine |-> IF g \in {go[d] : d \in S}
                        THEN CHOOSE d \in S : go[d] = g ELSE dev[g]]

\* Ways to give each started device a new goroutine.  Which free identities they
\* take makes no difference to the code: the lowest.
Launches(S) ==
    {go \in [S -> Free] :
        /\ \A d, e \in S : go[d] = go[e] => d = e
        /\ \A d \in S, g \in Free : g < go[d] => \E e \in S : go[e] = g}

\* sync: reconcile under the lock.  `go` gives each started device a goroutine;
\* an entry of a device no longer listed is cancelled and deleted.
ReconcileWith(S, go) ==
    LET gone    == Entries \ snapshot
        started == {go[d] : d \in S}
    IN  /\ running' = [d \in Device |->
                         IF d \in S THEN go[d]
                         ELSE IF d \in gone THEN NoGoroutine
                         ELSE running[d]]
        /\ dev' = StartedWithDevice(S, go)
        /\ pc'  = [g \in Goroutine |-> IF g \in started THEN "decode" ELSE pc[g]]
        /\ cancelled' = [g \in Goroutine |->
                           IF g \in started THEN ctxDone
                           ELSE cancelled[g] \/ \E d \in gone : running[d] = g]

Reconcile ==
    /\ manager = "loaded"
    /\ \E S \in StartSets : \E go \in Launches(S) : ReconcileWith(S, go)
    /\ snapshot' = {}
    /\ manager' = "idle"
    /\ UNCHANGED <<ctxDone, listVars, due>>

\* Every device context is derived from the process context.
MutDerivedFromBackground == {g \in Goroutine : \E d \in Device : running[d] = g}

DerivedContexts == Live

\* SIGINT or SIGTERM: the process context, and with it every context derived
\* from it, is cancelled, whether or not `running` still holds its cancel func.
Signal ==
    /\ ~ctxDone
    /\ ctxDone' = TRUE
    /\ cancelled' = [g \in Goroutine |-> cancelled[g] \/ g \in DerivedContexts]
    /\ UNCHANGED <<snapshot, manager, listVars, running, dev, pc, due>>

\* Run: ctx.Done is received; stopAll cancels every goroutine in `running`.
StopAll ==
    /\ manager = "idle"
    /\ ctxDone
    /\ manager' = "stopped"
    /\ cancelled' = [g \in Goroutine |->
                       cancelled[g] \/ \E d \in Device : running[d] = g]
    /\ UNCHANGED <<snapshot, ctxDone, listVars, running, dev, pc, due>>

----------------------------------------------------------------------------
(* runDevice *)

Goto(g, label) == pc' = [pc EXCEPT ![g] = label]

\* decodeCred: an undecodable credential makes the goroutine return.
DecodeCred(g) ==
    /\ pc[g] = "decode"
    /\ \E ok \in BOOLEAN : Goto(g, IF ok THEN "stagger" ELSE "exit")
    /\ UNCHANGED <<listVars, mgrVars, running, dev, cancelled, due>>

\* The start-up stagger and the reconnect backoff end by their timer ...
SleepOver(g) ==
    /\ pc[g] \in {"stagger", "backoff"}
    /\ Goto(g, "connect")
    /\ UNCHANGED <<listVars, mgrVars, running, dev, cancelled, due>>

\* ... or, SleepOrCancel, by the context, and the goroutine returns.
SleepCancelled(g) ==
    /\ pc[g] \in {"stagger", "backoff"}
    /\ cancelled[g]
    /\ Goto(g, "exit")
    /\ UNCHANGED <<listVars, mgrVars, running, dev, cancelled, due>>

\* connectAndSysInfo: one attempt.  A session that cannot be built ends the
\* goroutine; a failed connect or sysinfo poll backs off; neither looks at ctx.
Connect(g) ==
    /\ pc[g] = "connect"
    /\ \E next \in {"select", "backoff", "exit"} : Goto(g, next)
    /\ UNCHANGED <<listVars, mgrVars, running, dev, cancelled, due>>

Tick(g, t) ==
    /\ g \in Ticking
    /\ t \notin due[g]
    /\ due' = [due EXCEPT ![g] = @ \cup {t}]
    /\ UNCHANGED <<listVars, mgrVars, running, dev, pc, cancelled>>

\* The interface or the health ticker: an error closes the session and reconnects.
PollTick(g) ==
    /\ pc[g] = "select"
    /\ "snmp" \in due[g]
    /\ due' = [due EXCEPT ![g] = @ \ {"snmp"}]
    /\ \E ok \in BOOLEAN : Goto(g, IF ok THEN "select" ELSE "connect")
    /\ UNCHANGED <<listVars, mgrVars, running, dev, cancelled>>

ProbeTick(g) ==
    /\ pc[g] = "select"
    /\ "probe" \in due[g]
    /\ due' = [due EXCEPT ![g] = @ \ {"probe"}]
    /\ UNCHANGED <<listVars, mgrVars, running, dev, pc, cancelled>>

PollDone(g) ==
    /\ pc[g] = "select"
    /\ cancelled[g]
    /\ Goto(g, "exit")
    /\ UNCHANGED <<listVars, mgrVars, running, dev, cancelled, due>>

\* The deferred call: whatever entry the device has is deleted.
MutRemoveEntryOnlyIfCancelled(g) ==
    IF cancelled[g] THEN [running EXCEPT ![dev[g]] = NoGoroutine] ELSE running

RemoveEntry(g) == [running EXCEPT ![dev[g]] = NoGoroutine]

Exit(g) ==
    /\ pc[g] = "exit"
    /\ running' = RemoveEntry(g)
    /\ Goto(g, "free")
    /\ dev' = [dev EXCEPT ![g] = NoDevice]
    /\ cancelled' = [cancelled EXCEPT ![g] = FALSE]
    /\ due' = [due EXCEPT ![g] = {}]
    /\ UNCHANGED <<listVars, mgrVars>>

RunDevice(g) ==
    \/ DecodeCred(g) \/ SleepOver(g) \/ SleepCancelled(g) \/ Connect(g)
    \/ PollTick(g) \/ ProbeTick(g) \/ PollDone(g) \/ Exit(g)
    \/ \E t \in Ticker : Tick(g, t)

Next ==
    \/ EditList \/ LoadDevices \/ Reconcile \/ Signal \/ StopAll
    \/ \E g \in Goroutine : RunDevice(g)

Spec == Init /\ [][Next]_vars

(***************************************************************************)
(* Fairness: the manager loop and every goroutine keep running.  Where a   *)
(* select has several ready cases Go picks one at random, so a case that   *)
(* is ready again and again is taken: strong fairness for ctx.Done.        *)
(* Nothing is assumed about the devices: a connect or a poll may fail for  *)
(* ever.                                                                   *)
(***************************************************************************)
Advance(g) == DecodeCred(g) \/ SleepOver(g) \/ Connect(g) \/ Exit(g)
CtxCase(g) == SleepCancelled(g) \/ PollDone(g)

Fairness ==
    /\ WF_vars(LoadDevices \/ Reconcile \/ StopAll)
    /\ \A g \in Goroutine : WF_vars(Advance(g)) /\ SF_vars(CtxCase(g))

FairSpec == Spec /\ Fairness

----------------------------------------------------------------------------
(* Properties *)

\* Types, and the shape of a free goroutine slot.
TypeOK ==
    /\ listed \in SUBSET Device
    /\ edits \in 0..MaxEdits
    /\ snapshot \in SUBSET Device
    /\ manager \in Manager
    /\ ctxDone \in BOOLEAN
    /\ running \in [Device -> Goroutine \cup {NoGoroutine}]
    /\ dev \in [Goroutine -> Device \cup {NoDevice}]
    /\ pc \in [Goroutine -> Control]
    /\ cancelled \in [Goroutine -> BOOLEAN]
    /\ due \in [Goroutine -> SUBSET Ticker]
    /\ \A g \in Goroutine : pc[g] = "free" <=> dev[g] = NoDevice

\* The running map never holds more entries than the configured maximum,
\* although sync adds before it removes and goroutines remove on their own.
LimitRespected == Cardinality(Entries) <= MaxConcurrentDevices

\* An entry of the running map always belongs to a goroutine that polls that
\* very device and has not been cancelled while the process runs: sync never
\* skips a listed device because of an entry left behind by a goroutine that
\* is stopping or gone.
EntryIsAPoller ==
    \A d \in Entries :
        /\ dev[running[d]] = d
        /\ ctxDone \/ ~cancelled[running[d]]

\* The signal reaches every device goroutine: also one whose cancel func has dropped
\* out of the running map, and one that the sync in progress starts afterwards.
\* stopAll alone (poller.go:140) would reach neither.
SignalReachesAll == ctxDone => \A g \in Live : cancelled[g]

\* After the process is signalled every device goroutine returns, including
\* one whose cancel func has dropped out of the running map.
ShutdownStopsPollers == ctxDone ~> (Live = {})

\* Once the device list stops changing and the process is not signalled, a
\* listed device that fits under the limit is polled again and again, whatever
\* happened before: removal and re-adding, exits on their own, a full map.
ListedDevicesArePolled ==
    \A d \in Device :
        (d \in listed /\ edits = MaxEdits /\ Cardinality(listed) <= MaxConcurrentDevices)
            ~> (ctxDone \/ \E g \in Pollers : dev[g] = d)
=============================================================================
