-------------------------- MODULE MCTaskLifecycle --------------------------
(***************************************************************************)
(* Instances of TaskLifecycle for TLC.                                     *)
(***************************************************************************)
EXTENDS TaskLifecycle, TLC

CONSTANTS a, b, c, d, n1, n2, n3, w1, w2

\* The TaskIDs of tasks validated one by one, of one validation group, and of a
\* validation group beside the single task d.
SingleTaskID == [t \in Tasks |-> t]
SharedTaskID == [t \in Tasks |-> "group"]
GroupAndSingleTaskID == [t \in Tasks |-> IF t = d THEN "single" ELSE "group"]

\* The requests of an instance.
AllTasks == Tasks
AllOps == TaskOps \cup NodeOps
OpsWithoutNodeSlash == AllOps \ {"TriggerNodeSlash"}
RaceOps == AllOps \ {"NodePause", "NodeResume"}
GroupOps == TaskOps \ {"AbortTask", "ModelNotAllowed", "ValidateSingleTask"}
GroupAndQuitOps == GroupOps \cup {"NodeQuit"}
NodeSlashOps == {"StartTask", "SubmitScore", "ValidateSingleTask", "UploadResult", "Timeout",
                 "NodeQuit", "TriggerNodeSlash"}
PendingSlashOps == {"StartTask", "SubmitScore", "Timeout"}

\* Which member of the only group is sampled makes no difference, as long as no
\* member is validated alone.
Symmetry == Permutations(Tasks) \cup Permutations(Nodes) \cup Permutations(Workers)
SymmetryBesideA == Permutations(Tasks \ {a}) \cup Permutations(Nodes)
SymmetryBesideD == Permutations(Tasks \ {d}) \cup Permutations(Nodes)

=============================================================================
