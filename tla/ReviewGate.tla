------------------------------ MODULE ReviewGate ------------------------------
(***************************************************************************)
(* What the safety loop promises about human review, without files,        *)
(* processes, snapshots or a database: an action that its policy holds     *)
(* back touches nothing before somebody has approved it, whatever happens  *)
(* in between.  FileActions is shown to implement this specification.      *)
(***************************************************************************)
CONSTANTS Requests,      \* every action that can be submitted
          Held           \* those a policy holds back (review, or block)

VARIABLES recorded,      \* actions the log has a row for
          granted,       \* actions a human has approved at least once
          entered        \* actions that were let through to the file system

gateVars == <<recorded, granted, entered>>

Init == recorded = {} /\ granted = {} /\ entered = {}

\* A row is written; an action that is not held may be let through with it.
Record(a) == /\ recorded' = recorded \cup {a}
             /\ UNCHANGED <<granted, entered>>

Grant(a) == /\ a \in recorded
            /\ granted' = granted \cup {a}
            /\ UNCHANGED <<recorded, entered>>

LetThrough(a) == /\ a \in Held => a \in granted
                 /\ recorded' = recorded \cup {a}
                 /\ entered' = entered \cup {a}
                 /\ UNCHANGED granted

Next == \E a \in Requests : Record(a) \/ Grant(a) \/ LetThrough(a)

Spec == Init /\ [][Next]_gateVars

===============================================================================
