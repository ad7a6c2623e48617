-------------------------- MODULE AnswerRegisters --------------------------
(***************************************************************************)
(* What the dashboard expects of its answer cache: one register per query  *)
(* key.  A register holds at most one answer, every answer is as old as    *)
(* some number of writes to the API, and a register never goes back to an  *)
(* older answer than the one it holds.                                     *)
(***************************************************************************)
EXTENDS Naturals

VARIABLES
    now,     \* writes the API has applied so far
    known    \* the answers held: [key, asof] records, one per key

Holds(k)   == {a \in known : a.key = k}
Init       == now = 0 /\ known = {}

(* The API applies a write; no answer changes by itself.                   *)
Write      == now' = now + 1 /\ known' = known

(* A register takes an answer no older than its own.                       *)
Learn(k, n) ==
    /\ n <= now
    /\ \A a \in Holds(k) : a.asof <= n
    /\ known' = (known \ Holds(k)) \cup {[key |-> k, asof |-> n]}
    /\ now' = now

(* An answer nobody looks at is dropped.                                   *)
Drop(a)    == a \in known /\ known' = known \ {a} /\ now' = now

Next ==
    \/ Write
    \/ \E a \in known' : Learn(a.key, a.asof)
    \/ \E a \in known : Drop(a)

Spec == Init /\ [][Next]_<<now, known>>
=============================================================================
