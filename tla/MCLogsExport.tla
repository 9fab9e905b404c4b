---------------------------- MODULE MCLogsExport ----------------------------
(* Three invocations, two of them for the same log group. *)
EXTENDS LogsExport

CONSTANTS p1, p2, p3

MCProcesses == {p1, p2, p3}
MCGroupOf   == [p \in MCProcesses |-> IF p = p3 THEN "image" ELSE "cluster"]
=============================================================================
