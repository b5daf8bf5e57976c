------------------------- MODULE MCExportScheduler -------------------------
(* Instances of ExportScheduler for TLC.                                   *)
EXTENDS ExportScheduler, TLC

CONSTANTS A, B, Exports, Wide

MCTasks == 1..Exports
OneSubsystem == [t \in MCTasks |-> A]
TwoSubsystems == [t \in MCTasks |-> IF t = 2 THEN B ELSE A]

(* Task 3 was created while its export allowed Wide tasks at a time.       *)
MCLimit == [t \in MCTasks |-> IF t = 3 THEN Wide ELSE 1]

WorkerSymmetry == Permutations(Workers) \cup Permutations(Clients)
=============================================================================
