--------------------------- MODULE GroupDecision ---------------------------
(***************************************************************************)
(* The decision ValidateTaskGroup (src/service/validate_task.go) takes on  *)
(* the three tasks of a validation group, and the statuses and abort       *)
(* reasons the decision is expressed in (src/models/inference_task.go).    *)
(*                                                                         *)
(* The scores themselves are abstracted to the relation "same" that        *)
(* compareTaskScore computes on them: a set of pairs of positions in the   *)
(* sequence of finished tasks.  The relation need not be transitive, for   *)
(* image scores are compared by Hamming distance below a threshold.        *)
(***************************************************************************)
EXTENDS Naturals, Sequences

ActiveStatus ==
    {"Queued", "Started", "ScoreReady", "ErrorReported", "Validated", "GroupValidated"}
TerminalStatus ==
    {"EndInvalidated", "EndSuccess", "EndAborted", "EndGroupRefund", "EndGroupSuccess"}
\* "Absent" is a task that has not been created.  TaskParametersUploaded is
\* left out: no code path assigns it.
Status == {"Absent"} \cup ActiveStatus \cup TerminalStatus
\* The statuses in which a node holds the task as its current task.
RunningStatus == ActiveStatus \ {"Queued"}

AbortReason ==
    {"None", "Timeout", "IncorrectResult", "GroupTimeout", "ErrorReported",
     "CreatorCancelled", "CreatorValidationTimeout", "ResultUploadTimeout",
     "NodeSlashed", "ModelNotAllowed"}

Pairs == {<<1, 2>>, <<1, 3>>, <<2, 3>>}

(***************************************************************************)
(* compareTaskScore: tasks of different status never match, two reported   *)
(* errors always do, two scores may or may not.  st[i] is the status of    *)
(* the i-th finished task.                                                 *)
(***************************************************************************)
compareTaskScore(st, same) ==
    \A p \in Pairs : p[2] <= Len(st) =>
        /\ p \in same => st[p[1]] = st[p[2]]
        /\ st[p[1]] = "ErrorReported" /\ st[p[2]] = "ErrorReported" => p \in same

\* The first matching pair, in the order in which the code tries same1, same2, same3.
FirstMatch(same) ==
    IF <<1, 2>> \in same THEN <<1, 2>> ELSE IF <<1, 3>> \in same THEN <<1, 3>> ELSE <<2, 3>>

(***************************************************************************)
(* nextStatusMap, for the i-th finished task.  Every task the comparison   *)
(* does not settle keeps the default, TaskEndAborted.                      *)
(***************************************************************************)
NextStatus(st, same, i) ==
    LET p == FirstMatch(same)
        matched == IF st[p[1]] = "ScoreReady"
                   THEN IF i = p[1] THEN "GroupValidated" ELSE "EndGroupRefund"
                   ELSE "EndAborted"
    IN  IF Len(st) = 2 THEN IF <<1, 2>> \in same THEN matched ELSE "EndAborted"
        ELSE IF Len(st) = 3 /\ same # {}
        THEN IF i \in {p[1], p[2]} THEN matched
             ELSE IF {<<1, 2>>, <<1, 3>>} \subseteq same THEN "EndGroupRefund"
             ELSE "EndInvalidated"
        ELSE "EndAborted"

\* The abort reason of a finished task that stays in the default state.
GroupAbortReason(st) == IF Len(st) < 2 THEN "GroupTimeout" ELSE "IncorrectResult"

=============================================================================
