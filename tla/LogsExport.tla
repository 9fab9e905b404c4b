----------------------------- MODULE LogsExport -----------------------------
(***************************************************************************)
(* CloudWatchLogsExporter: invocations of export-cluster-logs and          *)
(* export-image-logs export a log group to S3, download the objects and    *)
(* remove them.  CloudWatch runs one export task per account; an           *)
(* invocation that meets a task of its own log group attaches to it.       *)
(*                                                                         *)
(* A task and its output are named after the invocation that created it.   *)
(***************************************************************************)
CONSTANTS
  Processes,              \* invocations
  GroupOf                 \* the log group each one exports

NONE == "NONE"

ASSUME ProcessesAssumption == NONE \notin Processes

VARIABLES
  task,                   \* status of the task each invocation created
  dest,                   \* the prefix that task writes to
  objects,                \* tasks whose output is in the bucket
  pc,                     \* where each invocation is
  prefix,                 \* bucket_prefix
  wide,                   \* delete_everything_under_prefix
  keep,                   \* keep_s3_objects
  tid,                    \* the task it follows
  got,                    \* whether it has downloaded that task's output
  result                  \* how it ended

serviceVars == <<task, dest, objects>>
ownVars     == <<prefix, wide, keep, tid, got>>
vars        == <<serviceVars, ownVars, pc, result>>

OtherGroup(p) == "other"                                         \* mutant

\* A default prefix is made of the resource and the minute: it is the same for
\* the invocations of a log group, which all begin within one minute.
Default(p) == GroupOf[p]
Custom     == "custom"

Init ==
  /\ objects = {}
  /\ task   = [p \in Processes |-> "none"]
  /\ dest   = [p \in Processes |-> Custom]
  /\ pc     = [p \in Processes |-> "start"]
  /\ prefix = [p \in Processes |-> Custom]
  /\ wide   = [p \in Processes |-> FALSE]
  /\ keep   = [p \in Processes |-> FALSE]
  /\ tid    = [p \in Processes |-> NONE]
  /\ got    = [p \in Processes |-> FALSE]
  /\ result = [p \in Processes |-> "none"]

Goto(p, label) == pc' = [pc EXCEPT ![p] = label] /\ UNCHANGED result

End(p, how) == pc' = [pc EXCEPT ![p] = "done"] /\ result' = [result EXCEPT ![p] = how]

Active == {t \in Processes : task[t] = "running"}

Under(x) == {t \in objects : dest[t] = x}

\* __init__: a prefix given by the user, or the default one, under which
\* everything may be deleted if nothing is there yet.
Start(p) ==
  /\ pc[p] = "start"
  /\ \E k \in BOOLEAN, x \in {Custom, Default(p)} :
       /\ prefix' = [prefix EXCEPT ![p] = x]
       /\ wide'   = [wide EXCEPT ![p] = x # Custom /\ Under(x) = {}]
       /\ keep'   = [keep EXCEPT ![p] = k]
  /\ Goto(p, "list")
  /\ UNCHANGED <<serviceVars, tid, got>>

KeepAsAsked(p) == UNCHANGED keep                                 \* mutant

\* "Do not delete S3 objects from an adopted task".
AdoptedIsKept(p) == keep' = [keep EXCEPT ![p] = TRUE]

\* _attach_to_in_progress_export, up to the wait.
Attach(p, t) ==
  /\ prefix' = [prefix EXCEPT ![p] = dest[t]]
  /\ wide'   = [wide EXCEPT ![p] = FALSE]
  /\ AdoptedIsKept(p)
  /\ tid'    = [tid EXCEPT ![p] = t]
  /\ Goto(p, "wait")
  /\ UNCHANGED got

\* _get_active_export_tasks and _handle_active_export_tasks, before the task is
\* created and again when CloudWatch has refused it. A listing that fails
\* counts as empty.
ListTasks(p) ==
  /\ pc[p] \in {"list", "relist"}
  /\ \/ \E t \in Active : GroupOf[t] = GroupOf[p] /\ Attach(p, t)
     \/ /\ \E t \in Active : GroupOf[t] # GroupOf[p]
        /\ End(p, "busy")
        /\ UNCHANGED ownVars
     \/ /\ pc[p] = "list" /\ Goto(p, "create")
        /\ UNCHANGED ownVars
     \/ /\ pc[p] = "relist" /\ End(p, "busy")
        /\ UNCHANGED ownVars
  /\ UNCHANGED serviceVars

\* create_export_task: one task per account. The answer may be lost, and then
\* the call fails, or the SDK repeats it and is refused for the very task that
\* it has created.
CreateTask(p) ==
  /\ pc[p] = "create"
  /\ Active = {}
  /\ task' = [task EXCEPT ![p] = "running"]
  /\ dest' = [dest EXCEPT ![p] = prefix[p]]
  /\ \/ tid' = [tid EXCEPT ![p] = p] /\ Goto(p, "wait")
     \/ UNCHANGED tid /\ (Goto(p, "relist") \/ End(p, "failed"))
  /\ UNCHANGED <<objects, prefix, wide, keep, got>>

LimitExceeded(p) ==
  /\ pc[p] = "create"
  /\ Active # {}
  /\ Goto(p, "relist")
  /\ UNCHANGED <<serviceVars, ownVars>>

PolledForever(p) == task[tid[p]] \in {"running", "failed"}       \* mutant
StillRunning(p)  == task[tid[p]] = "running"

PollOnce(p) ==                                                   \* mutant
  pc[p] = "wait" /\ Goto(p, "download") /\ UNCHANGED <<serviceVars, ownVars>>

\* _wait_for_task_completion: the status is asked every second, without limit.
Poll(p) ==
  /\ pc[p] = "wait"
  /\ ~StillRunning(p)
  /\ \/ task[tid[p]] = "completed" /\ Goto(p, "download")
     \/ task[tid[p]] = "failed" /\ End(p, "failed")
  /\ UNCHANGED <<serviceVars, ownVars>>

\* _download_s3_objects_with_prefix lists the objects and then fetches them;
\* a listing without objects is no error, an object that is gone is one.
ListObjects(p) ==
  /\ pc[p] = "download"
  /\ Goto(p, IF tid[p] \in objects THEN "fetch" ELSE "cleanup")
  /\ UNCHANGED <<serviceVars, ownVars>>

Fetch(p) ==
  /\ pc[p] = "fetch"
  /\ \/ /\ tid[p] \in objects
        /\ got' = [got EXCEPT ![p] = TRUE]
        /\ Goto(p, "cleanup")
     \/ Goto(p, "cleanup_failed") /\ UNCHANGED got
  /\ UNCHANGED <<serviceVars, prefix, wide, keep, tid>>

NoTask(p)    == IF wide[p] THEN Under(prefix[p]) ELSE {}       \* mutant

\* The delete_key of execute: the whole prefix, or the task's folder.
Deletable(p) == IF wide[p] THEN Under(prefix[p]) ELSE {tid[p]}

\* The finally clause of execute; a deletion that fails is an error.
Cleanup(p) ==
  /\ pc[p] \in {"cleanup", "cleanup_failed"}
  /\ \/ /\ objects' = IF keep[p] THEN objects ELSE objects \ Deletable(p)
        /\ End(p, IF pc[p] = "cleanup" THEN "ok" ELSE "failed")
     \/ /\ ~keep[p] /\ UNCHANGED objects
        /\ End(p, "failed")
  /\ UNCHANGED <<task, dest, ownVars>>

\* The user interrupts: the task goes on, and only a download is cleaned up.
Interrupt(p) ==
  /\ pc[p] \notin {"start", "done"}
  /\ IF pc[p] \in {"download", "fetch"} THEN Goto(p, "cleanup_failed") ELSE End(p, "failed")
  /\ UNCHANGED <<serviceVars, ownVars>>

\* CloudWatch
TaskEnds(t) ==
  /\ task[t] = "running"
  /\ \/ task' = [task EXCEPT ![t] = "completed"] /\ objects' = objects \cup {t}
     \/ task' = [task EXCEPT ![t] = "failed"] /\ UNCHANGED objects
  /\ UNCHANGED <<dest, ownVars, pc, result>>

Step(p) ==
  \/ ListTasks(p) \/ CreateTask(p) \/ LimitExceeded(p) \/ Poll(p)
  \/ ListObjects(p) \/ Fetch(p) \/ Cleanup(p)

Next ==
  \E p \in Processes : Start(p) \/ Step(p) \/ Interrupt(p) \/ TaskEnds(p)

Spec == Init /\ [][Next]_vars

\* A process that is not interrupted goes on, and CloudWatch ends its tasks.
LiveSpec == Spec /\ \A p \in Processes : WF_vars(Step(p)) /\ WF_vars(TaskEnds(p))

-----------------------------------------------------------------------------
(* Properties *)

TypeOK ==
  /\ task \in [Processes -> {"none", "running", "completed", "failed"}]
  /\ objects \subseteq Processes
  /\ pc \in [Processes -> {"start", "list", "relist", "create", "wait", "download", "fetch",
                           "cleanup", "cleanup_failed", "done"}]
  /\ prefix \in [Processes -> {Custom} \cup {GroupOf[p] : p \in Processes}]
  /\ dest \in [Processes -> {Custom} \cup {GroupOf[p] : p \in Processes}]
  /\ \A p \in Processes : prefix[p] \in {Custom, GroupOf[p]} /\ dest[p] \in {Custom, GroupOf[p]}
  /\ wide \in [Processes -> BOOLEAN]
  /\ keep \in [Processes -> BOOLEAN]
  /\ tid \in [Processes -> Processes \cup {NONE}] /\ got \in [Processes -> BOOLEAN]
  /\ result \in [Processes -> {"none", "ok", "busy", "failed"}]

\* The output of a task is removed by the invocation that created the task, or
\* by one that found its default prefix empty, and by no other: "they belong to
\* the earlier invocation", which may still be downloading them.
OnlyOwnerDeletes ==
  [][\A t \in objects \ objects' :
       \E p \in Processes :
         /\ pc[p] \in {"cleanup", "cleanup_failed"} /\ pc'[p] = "done"
         /\ p = t \/ (wide[p] /\ prefix[p] = dest[t] /\ prefix[p] # Custom)]_vars

\* An invocation that exported its own task and reports success has left none of
\* its objects in the bucket, under either kind of prefix, unless its keep is
\* set: by the user, or because it met its own task and took it for another's.
NothingLeftBehind ==
  \A p \in Processes :
    result[p] = "ok" /\ tid[p] = p /\ ~keep[p] => p \notin objects

\* An invocation that created its task and reports success has the data: only
\* an invocation that found the same default prefix empty can have removed it
\* before, never one that attached to the task and finished first.
OwnDataDelivered ==
  \A p \in Processes :
    result[p] = "ok" /\ tid[p] = p =>
      got[p] \/ \E q \in Processes \ {p} : wide[q] /\ prefix[q] = dest[p]

\* An invocation that is not interrupted ends, attached to another's task or
\* refused by the limit on tasks, even though the wait has no time limit.
EveryExportEnds == <>[](\A p \in Processes : pc[p] \in {"start", "done"})

=============================================================================
