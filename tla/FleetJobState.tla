---------------------------- MODULE FleetJobState ----------------------------
(***************************************************************************)
(* The state machine of a fleet job: which states exist, who may move a    *)
(* job from one to another, and which states mean "active", "a runner      *)
(* holds it" and "over".  Translated from fleet/jobs/job-state.ts.         *)
(***************************************************************************)

\* Not yet dispatched: no row exists.
NotCreated == "NONE"

ActiveStates   == {"QUEUED", "ASSIGNED", "RUNNING", "UPLOADING"}
HeldStates     == {"ASSIGNED", "RUNNING", "UPLOADING"}
TerminalStates == {"COMPLETED", "FAILED", "ESCALATED", "CRASHED", "CANCELLED"}
JobStates      == {NotCreated} \cup ActiveStates \cup TerminalStates

ServerMoves ==
  {<<"QUEUED", "ASSIGNED">>, <<"QUEUED", "CANCELLED">>,
   <<"ASSIGNED", "CANCELLED">>, <<"ASSIGNED", "CRASHED">>,
   <<"RUNNING", "CRASHED">>, <<"UPLOADING", "CRASHED">>,
   <<"CRASHED", "QUEUED">>, <<"FAILED", "QUEUED">>, <<"CANCELLED", "QUEUED">>}

RunnerMoves ==
  {<<"ASSIGNED", "RUNNING">>, <<"ASSIGNED", "FAILED">>, <<"ASSIGNED", "CANCELLED">>,
   <<"RUNNING", "UPLOADING">>, <<"RUNNING", "CANCELLED">>}
  \cup ({"UPLOADING"} \X {"COMPLETED", "FAILED", "ESCALATED", "CANCELLED"})

CanTransition(from, to, by) ==
  <<from, to>> \in IF by = "server" THEN ServerMoves ELSE RunnerMoves

\* Where one report, a row of events applied in one transaction, can take a job.
ReportMoves ==
  RunnerMoves \cup {<<"ASSIGNED", "UPLOADING">>}
  \cup ({"ASSIGNED", "RUNNING"} \X {"COMPLETED", "FAILED", "ESCALATED", "CANCELLED"})

\* The states a runner's event may ask for.
ReportStates == {"RUNNING", "UPLOADING"} \cup (TerminalStates \ {"CRASHED"})
=============================================================================
