--------------------------- MODULE MCAlertEngine ---------------------------
(***************************************************************************)
(* Small instances of AlertEngine.  Two linked devices `a` and `b`; the    *)
(* alerts are device_down (downA, downB), interface_down at the two ends   *)
(* of the link (portA, portB) and threshold alerts (cpuA, memA, cpuB).     *)
(* A .cfg picks its alerts and rules from the definitions below.           *)
(***************************************************************************)
EXTENDS AlertEngine, TLC

CONSTANTS a, b, downA, downB, portA, portB, cpuA, memA, cpuB,
          downRule, portRule, cpuRule, memRule

DeviceOfDef == [x \in Alert |-> IF x \in {downB, portB, cpuB} THEN b ELSE a]
RemoteDef   == [x \in Alert |-> CASE x = portA -> b [] x = portB -> a [] OTHER -> NoDevice]

ByKind == [x \in Alert |-> CASE x \in {downA, downB} -> downRule
                             [] x \in {portA, portB} -> portRule
                             [] x \in {memA}         -> memRule
                             [] OTHER                -> cpuRule]
OneCpuRule == [x \in Alert |-> cpuRule]

InOrder == SelectSeq(<<cpuRule, downRule, memRule, portRule>>, LAMBDA r : r \in Rule)

Linked   == [d \in Device |-> Device \ {d}]
Unlinked == [d \in Device |-> {}]

Metric(r) == CASE r = downRule -> "device_down" [] r = portRule -> "interface_down"
               [] OTHER -> "other"

Plain(r) == [metric |-> Metric(r), gated |-> FALSE, stable |-> FALSE, renotify |-> FALSE,
             escalates |-> FALSE, onResolve |-> TRUE, severe |-> TRUE,
             severeEscalated |-> TRUE, parent |-> NoDevice, neighbours |-> {}]

PlainConfig  == [r \in Rule |-> Plain(r)]
\* Reminders and escalation, for the alert that is also hidden and revived.
RemindConfig == [r \in Rule |-> [Plain(r) EXCEPT !.renotify = (r = downRule),
                                                 !.escalates = (r = downRule)]]
\* Only the mem rule waits, before it fires and before it clears.
SlowConfig   == [r \in Rule |-> [Plain(r) EXCEPT !.gated = (r = memRule),
                                                 !.stable = (r = memRule)]]

\* Two alerts of one rule on one device can be exchanged.
Twins == Permutations({cpuA, memA})
=============================================================================
