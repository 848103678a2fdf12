-------------------------- MODULE MCAirflowMetadata --------------------------
(***************************************************************************)
(* AirflowMetadata for TLC: a task is met on two ways, one of them through *)
(* a mapped task, and two tasks of one chain may both fail.                *)
(***************************************************************************)
EXTENDS AirflowMetadata

CONSTANTS a, b, m, f

MCEdges == {<<a, b>>, <<b, f>>, <<a, m>>, <<m, f>>}

MCLimits == {-1, 1, 20}

MCHistories == {<<>>} \cup [1 .. 3 -> {"success", "failed"}]
=============================================================================
