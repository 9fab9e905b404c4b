--------------------------- MODULE ClusterLifecycle ---------------------------
(***************************************************************************)
(* Creation, update and deletion of the cluster of one name.               *)
(*                                                                         *)
(* Each request is one call of the API (or of the CLI): it runs            *)
(* Cluster.create, Cluster.update or Cluster.delete in a process of its    *)
(* own, and nothing but CloudFormation and S3 is shared between requests.  *)
(* A cluster has one artifact directory in the bucket; its configuration   *)
(* objects are versioned and the versions are written into the template,   *)
(* while the template and the change set live under one key each.          *)
(*                                                                         *)
(* A directory is named after the request that generated it, a             *)
(* configuration version and a template after the request that uploaded    *)
(* them.                                                                   *)
(***************************************************************************)
EXTENDS Naturals

CONSTANT Requests   \* requests made for this cluster name

NONE == "NONE"

ASSUME RequestsAssumption == NONE \notin Requests

VARIABLES
  status,         \* status of the stack, or NONE
  home,           \* artifact directory generated for the stack
  tmpl,           \* template the stack runs, or is moving to
  prev,           \* template a failing update goes back to
  resources,      \* resources of the stack that exist
  nodes,          \* whether compute nodes run under this cluster name
  versions,       \* configuration versions in the bucket: <<directory, request>>
  template,       \* what the template key of each directory holds
  changeSet,      \* what the change set key of each directory holds
  swept,          \* whether the artifacts of each directory were deleted, and
                  \* whether an update has written into it since (history)
  guarded,        \* directories that some stack undertook to delete, and did
                  \* not exchange for another one (history)
  pc,             \* where each request is
  op,             \* create, update or delete
  dir,            \* artifact directory the request works in
  view,           \* the cached description of the stack: its status and template
  result          \* how the request ended

templateVars == <<home, tmpl, prev>>
stackVars   == <<status, templateVars, resources, nodes, guarded>>
bucketVars  == <<versions, template, changeSet, swept>>
requestVars == <<pc, op, dir, view, result>>
vars == <<stackVars, bucketVars, requestVars>>

NoTemplate == [by |-> NONE, dir |-> NONE]

Owner == Requests \cup {NONE}

Templates == [by : Owner, dir : Owner]

InProgressStatuses ==
  {"CREATE_IN_PROGRESS", "ROLLBACK_IN_PROGRESS", "UPDATE_IN_PROGRESS",
   "UPDATE_ROLLBACK_IN_PROGRESS", "DELETE_IN_PROGRESS"}

WorkingStatuses == {"CREATE_COMPLETE", "UPDATE_COMPLETE", "UPDATE_ROLLBACK_COMPLETE"}

\* The stack still uses its artifacts: it is not being torn down.
LiveStatuses ==
  WorkingStatuses \cup
    {"CREATE_IN_PROGRESS", "CREATE_FAILED", "UPDATE_IN_PROGRESS",
     "UPDATE_ROLLBACK_IN_PROGRESS", "UPDATE_ROLLBACK_FAILED"}

StackStatuses ==
  LiveStatuses \cup InProgressStatuses
    \cup {"ROLLBACK_COMPLETE", "ROLLBACK_FAILED", "DELETE_FAILED"}

\* The resources that matter here: the head node, the custom resource that
\* terminates the compute nodes, the one that deletes the artifacts.
Resources == {"head_node", "terminate_fleet", "s3_cleanup"}

Init ==
  /\ status = NONE /\ home = NONE /\ tmpl = NoTemplate /\ prev = NoTemplate
  /\ resources = {} /\ nodes = FALSE /\ guarded = {}
  /\ versions = {}
  /\ template  = [d \in Requests |-> NONE]
  /\ changeSet = [d \in Requests |-> NONE]
  /\ swept     = [d \in Requests |-> "no"]
  /\ pc     = [r \in Requests |-> "new"]
  /\ op     = [r \in Requests |-> NONE]
  /\ dir    = [r \in Requests |-> NONE]
  /\ view   = [r \in Requests |-> [status |-> NONE, tmpl |-> NoTemplate]]
  /\ result = [r \in Requests |-> "none"]

-----------------------------------------------------------------------------
(* Steps shared by the requests *)

Goto(r, label) == pc' = [pc EXCEPT ![r] = label] /\ UNCHANGED result

End(r, how) ==
  /\ pc' = [pc EXCEPT ![r] = "done"]
  /\ result' = [result EXCEPT ![r] = how]

\* Only create cleans up after itself.
Fail(r) == IF op[r] = "create" THEN Goto(r, "cleanup") ELSE End(r, "failed")

\* The current objects under a directory are removed, then all versions.
WipeCurrent(d) ==
  /\ template'  = [e \in Requests |-> IF e = d THEN NONE ELSE template[e]]
  /\ changeSet' = [e \in Requests |-> IF e = d THEN NONE ELSE changeSet[e]]
VersionOfCreator(d) == versions' = versions \ {<<d, d>>}          \* mutant
WipeVersions(d) == versions' = {v \in versions : v[1] # d}
Wipe(d) ==
  /\ WipeCurrent(d)
  /\ WipeVersions(d)
  /\ swept' = [e \in Requests |-> IF e = d THEN "clean" ELSE swept[e]]

\* An upload to a directory; that of an update may come after its deletion.
Written(r) ==
  swept' = [swept EXCEPT ![dir[r]] = IF op[r] = "update" /\ @ # "no" THEN "late" ELSE @]

Describe(r) ==
  view' = [view EXCEPT ![r] = [status |-> status, tmpl |-> tmpl]]

(***************************************************************************)
(* _upload_config and _upload_instance_types_data, then, for an update,    *)
(* _upload_change_set, then _upload_artifacts with the template built from *)
(* the uploaded versions.  An upload that fails may still have left its    *)
(* object in the bucket.                                                   *)
(***************************************************************************)
ConfigOverwritten(r) ==                                          \* mutant
  versions' = {v \in versions : v[1] # dir[r]} \cup {<<dir[r], r>>}
PutConfig(r) == versions' = versions \cup {<<dir[r], r>>}

PutTemplate(r) == template' = [template EXCEPT ![dir[r]] = r]

UploadConfig(r) ==
  /\ pc[r] = "upload_config"
  /\ PutConfig(r) /\ Written(r)
  /\ \/ Goto(r, IF op[r] = "update" THEN "upload_change_set" ELSE "upload_artifacts")
     \/ Fail(r)
  /\ UNCHANGED <<stackVars, template, changeSet, op, dir, view>>

UploadChangeSet(r) ==
  /\ pc[r] = "upload_change_set"
  /\ changeSet' = [changeSet EXCEPT ![dir[r]] = r] /\ Written(r)
  /\ Goto(r, "upload_artifacts") \/ Fail(r)
  /\ UNCHANGED <<stackVars, versions, template, op, dir, view>>

UploadArtifacts(r) ==
  /\ pc[r] = "upload_artifacts"
  /\ PutTemplate(r) /\ Written(r)
  /\ Goto(r, "call_cloudformation") \/ Fail(r)
  /\ UNCHANGED <<stackVars, versions, changeSet, op, dir, view>>

UploadFails(r) ==
  /\ pc[r] \in {"upload_config", "upload_change_set", "upload_artifacts"}
  /\ Fail(r)
  /\ UNCHANGED <<stackVars, bucketVars, op, dir, view>>

\* The process dies, or the caller interrupts it, between two calls to AWS.
Crash(r) ==
  /\ pc[r] \notin {"new", "done"}
  /\ End(r, "crashed")
  /\ UNCHANGED <<stackVars, bucketVars, op, dir, view>>

-----------------------------------------------------------------------------
(* Cluster.create *)

\* _generate_artifact_dir draws a random name.
NotGenerated(r) == NONE                                          \* mutant
ArtifactDir(r) == r

\* validate_create_request fails when the stack exists or when the
\* configuration is invalid; neither leaves anything behind.
CreateBegin(r) ==
  /\ pc[r] = "new"
  /\ op' = [op EXCEPT ![r] = "create"]
  /\ \/ status # NONE /\ End(r, "refused") /\ UNCHANGED dir
     \/ status = NONE /\ End(r, "refused") /\ UNCHANGED dir
     \/ /\ status = NONE
        /\ dir' = [dir EXCEPT ![r] = ArtifactDir(r)]
        /\ Goto(r, "upload_config")
  /\ UNCHANGED <<stackVars, bucketVars, view>>

\* CloudFormation takes a name that is free and reads the template at once.
StackCreated(r) ==
  /\ status = NONE
  /\ template[dir[r]] # NONE
  /\ status' = "CREATE_IN_PROGRESS"
  /\ home' = dir[r]
  /\ tmpl' = [by |-> template[dir[r]], dir |-> dir[r]]
  /\ prev' = NoTemplate
  /\ UNCHANGED <<resources, nodes, guarded>>

CreateStack(r) ==
  /\ pc[r] = "call_cloudformation" /\ op[r] = "create"
  /\ StackCreated(r)
  /\ End(r, "created")
  /\ UNCHANGED <<bucketVars, op, dir, view>>

\* The name was taken in the meantime, or the call failed.
CreateStackFails(r) ==
  /\ pc[r] = "call_cloudformation" /\ op[r] = "create"
  /\ Fail(r)
  /\ UNCHANGED <<stackVars, bucketVars, op, dir, view>>

\* The stack is created but creation_result stays None: the call timed out,
\* or its retry by the SDK found the name taken.
CreateStackAnswerLost(r) ==
  /\ pc[r] = "call_cloudformation" /\ op[r] = "create"
  /\ StackCreated(r)
  /\ Fail(r)
  /\ UNCHANGED <<bucketVars, op, dir, view>>

\* delete_s3_artifacts swallows the errors of S3, of either of its two calls.
Cleanup(r) ==
  /\ pc[r] = "cleanup"
  /\ \/ Wipe(dir[r]) /\ End(r, "failed")
     \/ WipeCurrent(dir[r]) /\ UNCHANGED <<versions, swept>> /\ End(r, "leaked")
     \/ UNCHANGED bucketVars /\ End(r, "leaked")
  /\ UNCHANGED <<stackVars, op, dir, view>>

-----------------------------------------------------------------------------
(* Cluster.update *)

\* check_cluster_version describes the stack; the description is cached.
UpdateBegin(r) ==
  /\ pc[r] = "new"
  /\ op' = [op EXCEPT ![r] = "update"]
  /\ \/ status = NONE /\ End(r, "not_found") /\ UNCHANGED <<dir, view>>
     \/ /\ status # NONE
        /\ Describe(r)
        /\ dir' = [dir EXCEPT ![r] = tmpl.dir]
        /\ Goto(r, "validate")
  /\ UNCHANGED <<stackVars, bucketVars>>

\* The configuration the patch is computed from: the version the cached
\* template names.
BaseConfig(r) == <<dir[r], view[r].tmpl.by>>

\* validate_update_request.  The existence of the stack is checked anew, its
\* status is the cached one; the configuration or the patch may be refused.
UpdateValidate(r) ==
  /\ pc[r] = "validate"
  /\ \/ status = NONE /\ End(r, "not_found")
     \/ status # NONE /\ view[r].status \in InProgressStatuses /\ End(r, "conflict")
     \/ status # NONE /\ view[r].status \notin InProgressStatuses /\ End(r, "refused")
     \/ /\ status # NONE
        /\ view[r].status \notin InProgressStatuses
        /\ BaseConfig(r) \in versions
        /\ Goto(r, "upload_config")
  /\ UNCHANGED <<stackVars, bucketVars, op, dir, view>>

\* The custom resource that deletes the artifacts follows the template.
MoveGuard == guarded' = (guarded \ {tmpl.dir}) \cup {tmpl'.dir}

\* CloudFormation reads the template from the URL, whoever has uploaded it,
\* and rejects an update that changes nothing or that comes at a bad moment.
StackUpdated(r) ==
  LET new == [by |-> template[dir[r]], dir |-> dir[r]] IN
  /\ status \in WorkingStatuses
  /\ new.by # NONE
  /\ new # tmpl
  /\ status' = "UPDATE_IN_PROGRESS"
  /\ tmpl' = new
  /\ prev' = tmpl
  /\ MoveGuard
  /\ UNCHANGED <<home, resources, nodes>>

\* A failure after the call, such as one of the final description, is
\* reported although the update runs.
UpdateStack(r) ==
  /\ pc[r] = "call_cloudformation" /\ op[r] = "update"
  /\ StackUpdated(r)
  /\ \E how \in {"updated", "failed"} : End(r, how)
  /\ UNCHANGED <<bucketVars, op, dir, view>>

UpdateStackFails(r) ==
  /\ pc[r] = "call_cloudformation" /\ op[r] = "update"
  /\ Fail(r)
  /\ UNCHANGED <<stackVars, bucketVars, op, dir, view>>

-----------------------------------------------------------------------------
(* Cluster.delete *)

\* delete_cluster describes the stack and does nothing more when the deletion
\* is already in progress.
DeleteBegin(r) ==
  /\ pc[r] = "new"
  /\ op' = [op EXCEPT ![r] = "delete"]
  /\ Describe(r)
  /\ \/ status = NONE /\ End(r, "not_found")
     \/ status = "DELETE_IN_PROGRESS" /\ End(r, "deleting")
     \/ status \notin {NONE, "DELETE_IN_PROGRESS"} /\ Goto(r, "call_cloudformation")
  /\ UNCHANGED <<stackVars, bucketVars, dir>>

\* terminate_nodes: the compute nodes found are terminated, or EC2 fails.
TerminateNodes == nodes' \in {FALSE, nodes}

\* delete_stack is accepted for any stack, and for none at all; the
\* description that follows tells the two apart.  Any failure on the way,
\* even one that comes after the deletion has begun, terminates the nodes.
DeleteStack(r) ==
  /\ pc[r] = "call_cloudformation" /\ op[r] = "delete"
  /\ status' \in IF status = NONE THEN {NONE} ELSE {status, "DELETE_IN_PROGRESS"}
  /\ \/ status' = "DELETE_IN_PROGRESS" /\ End(r, "deleting") /\ UNCHANGED nodes
     \/ status' = NONE /\ End(r, "not_found") /\ UNCHANGED nodes
     \/ End(r, "failed") /\ TerminateNodes
  /\ UNCHANGED <<templateVars, resources, guarded, bucketVars, op, dir, view>>

-----------------------------------------------------------------------------
(* CloudFormation, the custom resources and the head node *)

\* The head node is created after the compute fleet resources, hence deleted
\* before them.
Unordered(x) == {}                                               \* mutant
DependsOn(x) == IF x = "head_node" THEN {"terminate_fleet"} ELSE {}

StackSteps ==
  {<<"CREATE_IN_PROGRESS", "CREATE_FAILED">>,
   <<"CREATE_IN_PROGRESS", "ROLLBACK_IN_PROGRESS">>,
   <<"UPDATE_IN_PROGRESS", "UPDATE_COMPLETE">>,
   <<"UPDATE_ROLLBACK_IN_PROGRESS", "UPDATE_ROLLBACK_COMPLETE">>,
   <<"UPDATE_ROLLBACK_IN_PROGRESS", "UPDATE_ROLLBACK_FAILED">>,
   <<"ROLLBACK_IN_PROGRESS", "ROLLBACK_FAILED">>,
   <<"DELETE_IN_PROGRESS", "DELETE_FAILED">>}
  \cup (IF resources = Resources
        THEN {<<"CREATE_IN_PROGRESS", "CREATE_COMPLETE">>} ELSE {})
  \cup (IF resources = {}
        THEN {<<"ROLLBACK_IN_PROGRESS", "ROLLBACK_COMPLETE">>} ELSE {})

StackStep ==
  /\ \E s \in StackStatuses : <<status, s>> \in StackSteps /\ status' = s
  /\ UNCHANGED <<templateVars, resources, nodes, guarded, bucketVars, requestVars>>

UpdateRollsBack ==
  /\ status = "UPDATE_IN_PROGRESS"
  /\ status' = "UPDATE_ROLLBACK_IN_PROGRESS"
  /\ tmpl' = prev
  /\ MoveGuard
  /\ UNCHANGED <<home, prev, resources, nodes, bucketVars, requestVars>>

StackDeleted ==
  /\ status = "DELETE_IN_PROGRESS" /\ resources = {}
  /\ status' = NONE
  /\ home' = NONE /\ tmpl' = NoTemplate /\ prev' = NoTemplate
  /\ UNCHANGED <<resources, nodes, guarded, bucketVars, requestVars>>

ResourceCreated(x) ==
  /\ status = "CREATE_IN_PROGRESS"
  /\ x \notin resources /\ DependsOn(x) \subseteq resources
  /\ resources' = resources \cup {x}
  /\ guarded' = IF x = "s3_cleanup" THEN guarded \cup {home} ELSE guarded
  /\ UNCHANGED <<status, templateVars, nodes, bucketVars, requestVars>>

\* The delete handler of the custom resources: _delete_s3_artifacts and
\* _terminate_cluster_nodes either do their work or raise, and then the
\* deletion of the stack fails.
DeleteHandler(x) ==
  IF x = "terminate_fleet" THEN nodes' = FALSE ELSE UNCHANGED nodes

ResourceDeleted(x) ==
  /\ status \in {"ROLLBACK_IN_PROGRESS", "DELETE_IN_PROGRESS"}
  /\ x \in resources /\ \A y \in resources : x \notin DependsOn(y)
  /\ resources' = resources \ {x}
  /\ DeleteHandler(x)
  /\ IF x = "s3_cleanup" THEN Wipe(tmpl.dir) ELSE UNCHANGED bucketVars
  /\ UNCHANGED <<status, templateVars, guarded, requestVars>>

\* _delete_s3_artifacts fails after the current objects are gone.
ArtifactsPartlyDeleted ==
  /\ status \in {"ROLLBACK_IN_PROGRESS", "DELETE_IN_PROGRESS"}
  /\ "s3_cleanup" \in resources
  /\ WipeCurrent(tmpl.dir)
  /\ status' = IF status = "DELETE_IN_PROGRESS" THEN "DELETE_FAILED" ELSE "ROLLBACK_FAILED"
  /\ UNCHANGED <<templateVars, resources, nodes, guarded, versions, swept, requestVars>>

\* clustermgtd launches compute nodes for as long as the head node exists.
LaunchNodes ==
  /\ "head_node" \in resources
  /\ ~nodes /\ nodes' = TRUE
  /\ UNCHANGED <<status, templateVars, resources, guarded, bucketVars, requestVars>>

-----------------------------------------------------------------------------
Create(r) ==
  CreateBegin(r) \/ CreateStack(r) \/ CreateStackFails(r)
    \/ CreateStackAnswerLost(r) \/ Cleanup(r)

Update(r) ==
  UpdateBegin(r) \/ UpdateValidate(r) \/ UpdateStack(r) \/ UpdateStackFails(r)

Delete(r) == DeleteBegin(r) \/ DeleteStack(r)

Upload(r) ==
  UploadConfig(r) \/ UploadChangeSet(r) \/ UploadArtifacts(r) \/ UploadFails(r)

CloudFormation ==
  \/ StackStep \/ UpdateRollsBack \/ StackDeleted \/ ArtifactsPartlyDeleted
  \/ \E x \in Resources : ResourceCreated(x) \/ ResourceDeleted(x)

Next ==
  \/ \E r \in Requests :
       Create(r) \/ Update(r) \/ Delete(r) \/ Upload(r) \/ Crash(r)
  \/ CloudFormation
  \/ LaunchNodes

Spec == Init /\ [][Next]_vars

-----------------------------------------------------------------------------
(* Properties *)

PcLabels ==
  {"new", "validate", "upload_config", "upload_change_set", "upload_artifacts",
   "call_cloudformation", "cleanup", "done"}

Results ==
  {"none", "refused", "created", "failed", "leaked", "crashed", "not_found",
   "conflict", "updated", "deleting"}

\* The stack, the bucket and the requests have their types.
TypeOK ==
  /\ status \in StackStatuses \cup {NONE}
  /\ home \in Owner /\ tmpl \in Templates /\ prev \in Templates
  /\ resources \subseteq Resources /\ nodes \in BOOLEAN /\ guarded \subseteq Requests
  /\ versions \in SUBSET (Requests \X Requests)
  /\ template \in [Requests -> Owner] /\ changeSet \in [Requests -> Owner]
  /\ swept \in [Requests -> {"no", "clean", "late"}]
  /\ pc \in [Requests -> PcLabels]
  /\ op \in [Requests -> {NONE, "create", "update", "delete"}]
  /\ dir \in [Requests -> Owner]
  /\ view \in [Requests -> [status : StackStatuses \cup {NONE}, tmpl : Templates]]
  /\ result \in [Requests -> Results]

\* The configuration version the running template names is in the bucket for
\* as long as the stack is live: through failed, interrupted and concurrent
\* creations and updates, and after an update was rolled back.  Without it
\* neither the head node nor a later update can read the configuration.
\* Two things are out of the scope of this promise: a stack whose creator did
\* not get the answer of create_stack, and so deletes its artifacts, and a
\* template that an update brought over from a deleted cluster of the same name.
DeployedConfigAvailable ==
  status \in LiveStatuses /\ result[home] = "created" /\ tmpl.dir = home
    => <<tmpl.dir, tmpl.by>> \in versions

InUse(d) == status # NONE /\ d \in {home, tmpl.dir, prev.dir}

HasObjects(d) ==
  template[d] # NONE \/ changeSet[d] # NONE \/ \E v \in versions : v[1] = d

\* A directory that holds objects belongs to a stack, or to a create that is
\* still running, or there is a reason for the leak: the create was
\* interrupted or could not clean up; the stack failed before it had the
\* resource that deletes its artifacts, or was moved to another directory by
\* an update that began with an earlier cluster of this name; or an update
\* has written into the directory after the custom resource, or the cleanup of
\* the create, had deleted what was there.  An update that was refused, or was
\* over before the deletion, explains nothing: what it uploaded goes with the
\* stack.
OrphansExplained ==
  \A d \in Requests :
    HasObjects(d) =>
      \/ InUse(d)
      \/ pc[d] # "done"
      \/ result[d] \in {"crashed", "leaked"}
      \/ result[d] = "created" /\ d \notin guarded
      \/ swept[d] = "late"

\* No compute node outlives its cluster: when the stack is gone the nodes are
\* gone, whatever the head node launched while the deletion was under way,
\* was retried after a failure, or came in the middle of the creation.
NoNodeOutlivesStack == status = NONE => ~nodes

=============================================================================
