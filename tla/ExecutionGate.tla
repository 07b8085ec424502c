---------------------------- MODULE ExecutionGate -----------------------------
(***************************************************************************)
(* What `act --execute` promises about the outside world, without plans,   *)
(* policies, configuration files or databases: a request leaves at most    *)
(* once, only once somebody has enabled execution, is answered at most     *)
(* once, and what the log says about it, once, is what was answered.  A    *)
(* request that got no answer is not in the log.  What the service did is  *)
(* not part of the promise: a redirect that is not followed is an answer   *)
(* without an effect, an error of a gateway may come after one.            *)
(* MapExecution is shown to implement this specification.                  *)
(***************************************************************************)
EXTENDS Naturals

CONSTANTS Commands, DryRuns     \* DryRuns: those that have nothing to send

VARIABLES enabled,   \* somebody has enabled execution
          remote,    \* of each command, the requests that have left
          answer,    \* of each command, what was answered
          row        \* of each command, what the log has

gateVars == <<enabled, remote, answer, row>>

Init == /\ enabled \in BOOLEAN
        /\ remote = [c \in Commands |-> 0]
        /\ answer = [c \in Commands |-> "none"]
        /\ row = [c \in Commands |-> "none"]

Enable == enabled' = TRUE /\ UNCHANGED <<remote, answer, row>>

Send(c) == /\ enabled /\ c \notin DryRuns
           /\ remote[c] = 0 /\ row[c] = "none"
           /\ remote' = [remote EXCEPT ![c] = 1]
           /\ UNCHANGED <<enabled, answer, row>>

Answer(c, status) == /\ remote[c] = 1 /\ answer[c] = "none" /\ row[c] = "none"
                     /\ answer' = [answer EXCEPT ![c] = status]
                     /\ UNCHANGED <<enabled, remote, row>>

Report(c, r) == /\ row[c] = "none"
                /\ r = "success" => answer[c] = "accepted" \/ c \in DryRuns
                /\ r = "failed"  => answer[c] = "rejected" \/ remote[c] = 0
                /\ row' = [row EXCEPT ![c] = r]
                /\ UNCHANGED <<enabled, remote, answer>>

Next == \/ Enable
        \/ \E c \in Commands : \/ Send(c)
                               \/ \E status \in {"accepted", "rejected"} : Answer(c, status)
                               \/ \E r \in {"success", "failed"} : Report(c, r)

Spec == Init /\ [][Next]_gateVars

===============================================================================
