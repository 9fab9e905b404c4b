------------------------ MODULE ClusterLifecycle_proofs ------------------------
(***************************************************************************)
(* Proofs about ClusterLifecycle, for any set of requests.                 *)
(*                                                                         *)
(* The first invariant (Typed) says where directories are known and ties   *)
(* the compute nodes to the resource that terminates them.  The second     *)
(* (Config) is about the artifacts: a directory is private to its create   *)
(* until the stack exists, and from then on every configuration version    *)
(* that the stack, its template key or a running update may bring in is in *)
(* the bucket.                                                             *)
(***************************************************************************)
EXTENDS ClusterLifecycle, TLAPS

-----------------------------------------------------------------------------
(* Types and nodes *)

Working(r) ==
  \/ pc[r] \in {"validate", "upload_config", "upload_change_set",
                "upload_artifacts", "cleanup"}
  \/ pc[r] = "call_cloudformation" /\ op[r] # "delete"

DirectoriesKnown ==
  /\ \A r \in Requests : Working(r) => dir[r] \in Requests
  /\ status # NONE => home \in Requests /\ tmpl.dir \in Requests
  /\ status = "UPDATE_IN_PROGRESS" => prev.dir \in Requests

NodesTied ==
  /\ nodes => "terminate_fleet" \in resources
  /\ "head_node" \in resources => "terminate_fleet" \in resources
  /\ resources # {} => status # NONE

Typed == TypeOK /\ DirectoriesKnown /\ NodesTied

\* Before the first request nothing exists.
LEMMA TypedInit == Init => Typed
<1> SUFFICES ASSUME Init PROVE Typed
  OBVIOUS
<1> USE DEF Init
<1>1. view \in [Requests -> [status : StackStatuses \cup {NONE}, tmpl : Templates]]
  BY DEF NoTemplate, Templates, Owner
<1>2. TypeOK
  BY <1>1 DEF TypeOK, Owner, Templates, NoTemplate, PcLabels, Results
<1>3. DirectoriesKnown /\ NodesTied
  BY DEF DirectoriesKnown, NodesTied, Working, NONE
<1>4. QED BY <1>2, <1>3 DEF Typed

USE DEF stackVars, templateVars, bucketVars, requestVars

\* delete_s3_artifacts of a directory leaves a well-typed bucket.
LEMMA WipeTyped ==
  ASSUME TypeOK, NEW d, Wipe(d) \/ (WipeCurrent(d) /\ UNCHANGED <<versions, swept>>)
  PROVE  /\ versions' \in SUBSET (Requests \X Requests)
         /\ template' \in [Requests -> Owner] /\ changeSet' \in [Requests -> Owner]
         /\ swept' \in [Requests -> {"no", "clean", "late"}]
<1>1. versions' \subseteq versions
  BY DEF Wipe, WipeVersions
<1>2. template' \in [Requests -> Owner] /\ changeSet' \in [Requests -> Owner]
  BY DEF Wipe, WipeCurrent, TypeOK, Owner
<1>3. swept' \in [Requests -> {"no", "clean", "late"}]
  BY DEF Wipe, TypeOK
<1>4. QED BY <1>1, <1>2, <1>3 DEF TypeOK

\* An upload keeps the marks of the directories.
LEMMA WrittenTyped ==
  ASSUME TypeOK, NEW r \in Requests, Written(r)
  PROVE  swept' \in [Requests -> {"no", "clean", "late"}]
  BY DEF Written, TypeOK

\* The uploads write under the directory of the request.
LEMMA TypedUpload ==
  ASSUME Typed, NEW r \in Requests, Upload(r) \/ Crash(r)
  PROVE  Typed'
<1> USE RequestsAssumption DEF Typed, Goto, End, Fail
<1>1. CASE UploadConfig(r)
  <2> USE <1>1 DEF UploadConfig
  <2>1. dir[r] \in Requests
    BY DEF DirectoriesKnown, Working
  <2>2. versions' \in SUBSET (Requests \X Requests)
    BY <2>1 DEF PutConfig, TypeOK
  <2>s. swept' \in [Requests -> {"no", "clean", "late"}]
    BY WrittenTyped
  <2>3. pc' \in [Requests -> PcLabels] /\ result' \in [Requests -> Results]
    BY DEF TypeOK, PcLabels, Results
  <2>4. TypeOK'
    BY <2>2, <2>3, <2>s DEF TypeOK
  <2>5. DirectoriesKnown' /\ NodesTied'
    BY <2>1 DEF DirectoriesKnown, NodesTied, Working, TypeOK
  <2>6. QED BY <2>4, <2>5
<1>2. CASE UploadChangeSet(r)
  <2> USE <1>2 DEF UploadChangeSet
  <2>1. swept' \in [Requests -> {"no", "clean", "late"}]
    BY WrittenTyped
  <2>2. pc' \in [Requests -> PcLabels] /\ result' \in [Requests -> Results]
    BY DEF TypeOK, PcLabels, Results
  <2>3. TypeOK'
    BY <2>1, <2>2 DEF TypeOK, Owner
  <2>4. DirectoriesKnown' /\ NodesTied'
    BY DEF DirectoriesKnown, NodesTied, Working, TypeOK
  <2>5. QED BY <2>3, <2>4
<1>3. CASE UploadArtifacts(r)
  <2> USE <1>3 DEF UploadArtifacts, PutTemplate
  <2>1. swept' \in [Requests -> {"no", "clean", "late"}]
    BY WrittenTyped
  <2>2. pc' \in [Requests -> PcLabels] /\ result' \in [Requests -> Results]
    BY DEF TypeOK, PcLabels, Results
  <2>3. TypeOK'
    BY <2>1, <2>2 DEF TypeOK, Owner
  <2>4. DirectoriesKnown' /\ NodesTied'
    BY DEF DirectoriesKnown, NodesTied, Working, TypeOK
  <2>5. QED BY <2>3, <2>4
<1>4. CASE UploadFails(r)
  <2> USE <1>4 DEF UploadFails
  <2>2. pc' \in [Requests -> PcLabels] /\ result' \in [Requests -> Results]
    BY DEF TypeOK, PcLabels, Results
  <2>3. TypeOK'
    BY <2>2 DEF TypeOK
  <2>4. DirectoriesKnown' /\ NodesTied'
    BY DEF DirectoriesKnown, NodesTied, Working, TypeOK
  <2>5. QED BY <2>3, <2>4
<1>5. CASE Crash(r)
  <2> USE <1>5 DEF Crash
  <2>2. pc' \in [Requests -> PcLabels] /\ result' \in [Requests -> Results]
    BY DEF TypeOK, PcLabels, Results
  <2>3. TypeOK'
    BY <2>2 DEF TypeOK
  <2>4. DirectoriesKnown' /\ NodesTied'
    BY DEF DirectoriesKnown, NodesTied, Working, TypeOK
  <2>5. QED BY <2>3, <2>4
<1>6. QED BY <1>1, <1>2, <1>3, <1>4, <1>5 DEF Upload

\* The steps of Cluster.create.
LEMMA TypedCreate ==
  ASSUME Typed, NEW r \in Requests, Create(r)
  PROVE  Typed'
<1> USE RequestsAssumption DEF Typed, Goto, End, Fail
<1>1. CASE CreateBegin(r)
  <2> USE <1>1 DEF CreateBegin, ArtifactDir
  <2>1. pc' \in [Requests -> PcLabels] /\ result' \in [Requests -> Results]
    BY DEF TypeOK, PcLabels, Results
  <2>2. dir' \in [Requests -> Owner] /\ op' \in [Requests -> {NONE, "create", "update", "delete"}]
    BY DEF TypeOK, Owner
  <2>3. TypeOK'
    BY <2>1, <2>2 DEF TypeOK
  <2>4. DirectoriesKnown' /\ NodesTied'
    BY DEF DirectoriesKnown, NodesTied, Working, TypeOK
  <2>5. QED BY <2>3, <2>4
<1>2. ASSUME StackCreated(r), pc[r] = "call_cloudformation", op[r] = "create",
             \/ End(r, "created")
             \/ Fail(r),
             UNCHANGED <<bucketVars, op, dir, view>>
      PROVE  Typed'
  BY <1>2 DEF StackCreated, TypeOK, DirectoriesKnown, NodesTied, Working,
              PcLabels, Results, Owner, Templates, NoTemplate, StackStatuses, LiveStatuses
<1>3. CASE CreateStackFails(r)
  BY <1>3 DEF CreateStackFails, TypeOK, DirectoriesKnown, NodesTied, Working,
              PcLabels, Results, Owner
<1>4. CASE Cleanup(r)
  <2> USE <1>4 DEF Cleanup
  <2>1. /\ versions' \in SUBSET (Requests \X Requests)
        /\ template' \in [Requests -> Owner] /\ changeSet' \in [Requests -> Owner]
        /\ swept' \in [Requests -> {"no", "clean", "late"}]
    BY WipeTyped DEF TypeOK
  <2>2. pc' \in [Requests -> PcLabels] /\ result' \in [Requests -> Results]
    BY DEF TypeOK, PcLabels, Results
  <2>3. TypeOK'
    BY <2>1, <2>2 DEF TypeOK
  <2>4. DirectoriesKnown' /\ NodesTied'
    BY DEF DirectoriesKnown, NodesTied, Working, TypeOK
  <2>5. QED BY <2>3, <2>4
<1>5. QED BY <1>1, <1>2, <1>3, <1>4 DEF Create, CreateStack, CreateStackAnswerLost

\* The steps of Cluster.update: the directory comes from the running template.
LEMMA TypedUpdate ==
  ASSUME Typed, NEW r \in Requests, Update(r)
  PROVE  Typed'
<1> USE RequestsAssumption DEF Typed, Goto, End, Fail
<1>1. CASE UpdateBegin(r)
  <2> USE <1>1 DEF UpdateBegin
  <2>1. pc' \in [Requests -> PcLabels] /\ result' \in [Requests -> Results]
    BY DEF TypeOK, PcLabels, Results
  <2>2. dir' \in [Requests -> Owner] /\ op' \in [Requests -> {NONE, "create", "update", "delete"}]
    BY DEF TypeOK, DirectoriesKnown, Owner
  <2>3. view' \in [Requests -> [status : StackStatuses \cup {NONE}, tmpl : Templates]]
    BY DEF TypeOK, Describe
  <2>4. TypeOK'
    BY <2>1, <2>2, <2>3 DEF TypeOK
  <2>5. DirectoriesKnown' /\ NodesTied'
    BY DEF DirectoriesKnown, NodesTied, Working, TypeOK
  <2>6. QED BY <2>4, <2>5
<1>2. CASE UpdateValidate(r)
  <2> USE <1>2 DEF UpdateValidate
  <2>1. pc' \in [Requests -> PcLabels] /\ result' \in [Requests -> Results]
    BY DEF TypeOK, PcLabels, Results
  <2>2. TypeOK'
    BY <2>1 DEF TypeOK
  <2>3. DirectoriesKnown' /\ NodesTied'
    BY DEF DirectoriesKnown, NodesTied, Working, TypeOK
  <2>4. QED BY <2>2, <2>3
<1>3. CASE UpdateStack(r)
  BY <1>3 DEF UpdateStack, StackUpdated, MoveGuard, TypeOK, DirectoriesKnown, NodesTied, Working,
              PcLabels, Results, Owner, Templates, StackStatuses, LiveStatuses,
              WorkingStatuses, NONE
<1>4. CASE UpdateStackFails(r)
  BY <1>4 DEF UpdateStackFails, TypeOK, DirectoriesKnown, NodesTied, Working,
              PcLabels, Results, Owner
<1>5. QED BY <1>1, <1>2, <1>3, <1>4 DEF Update

\* The steps of Cluster.delete.
LEMMA TypedDelete ==
  ASSUME Typed, NEW r \in Requests, Delete(r)
  PROVE  Typed'
<1> USE RequestsAssumption DEF Typed, Goto, End
<1>1. CASE DeleteBegin(r)
  <2> USE <1>1 DEF DeleteBegin
  <2>1. /\ op' \in [Requests -> {NONE, "create", "update", "delete"}]
        /\ view' \in [Requests -> [status : StackStatuses \cup {NONE}, tmpl : Templates]]
    BY DEF TypeOK, Describe
  <2>2. pc' \in [Requests -> PcLabels] /\ result' \in [Requests -> Results]
    BY DEF TypeOK, PcLabels, Results
  <2>3. TypeOK'
    BY <2>1, <2>2 DEF TypeOK, Owner
  <2>4. DirectoriesKnown' /\ NodesTied'
    BY DEF DirectoriesKnown, NodesTied, Working, TypeOK
  <2>5. QED BY <2>3, <2>4
<1>2. CASE DeleteStack(r)
  <2> USE <1>2 DEF DeleteStack
  <2>1. status' \in StackStatuses \cup {NONE} /\ (status' = NONE <=> status = NONE)
    BY DEF TypeOK, StackStatuses, InProgressStatuses, NONE
  <2>2. pc' \in [Requests -> PcLabels] /\ result' \in [Requests -> Results]
    BY DEF TypeOK, PcLabels, Results
  <2>3. nodes' \in BOOLEAN /\ (nodes' => nodes)
    <3>1. nodes \in BOOLEAN
      BY DEF TypeOK
    <3>2. nodes' = FALSE \/ nodes' = nodes
      BY DEF TerminateNodes
    <3>3. CASE nodes' = FALSE
      BY <3>3
    <3>4. CASE nodes' = nodes
      BY <3>1, <3>4
    <3>5. QED BY <3>2, <3>3, <3>4
  <2>4. TypeOK'
    BY <2>1, <2>2, <2>3 DEF TypeOK
  <2>5. status' = "UPDATE_IN_PROGRESS" => status = "UPDATE_IN_PROGRESS"
    BY DEF NONE
  <2>6. DirectoriesKnown' /\ NodesTied'
    BY <2>1, <2>3, <2>5 DEF DirectoriesKnown, NodesTied, Working, TypeOK
  <2>7. QED BY <2>4, <2>6
<1>3. QED BY <1>1, <1>2 DEF Delete

\* CloudFormation, the custom resources and the head node.
LEMMA TypedCloudFormation ==
  ASSUME Typed, CloudFormation \/ LaunchNodes
  PROVE  Typed'
<1> USE RequestsAssumption DEF Typed
<1>1. CASE StackStep
  BY <1>1 DEF StackStep, StackSteps, StackStatuses, LiveStatuses, WorkingStatuses,
              InProgressStatuses, TypeOK, DirectoriesKnown, NodesTied, Working, NONE
<1>2. CASE UpdateRollsBack
  BY <1>2 DEF UpdateRollsBack, MoveGuard, StackStatuses, LiveStatuses, TypeOK, DirectoriesKnown,
              NodesTied, Working, NONE
<1>3. CASE StackDeleted
  BY <1>3 DEF StackDeleted, NoTemplate, Templates, Owner, TypeOK, DirectoriesKnown,
              NodesTied, Working, NONE
<1>4. ASSUME NEW x \in Resources, ResourceCreated(x) PROVE Typed'
  BY <1>4 DEF ResourceCreated, DependsOn, Resources, TypeOK, DirectoriesKnown, NodesTied,
              Working, NONE
<1>5. ASSUME NEW x \in Resources, ResourceDeleted(x) PROVE Typed'
  <2> USE <1>5 DEF ResourceDeleted
  <2>1. TypeOK'
    <3>1. /\ versions' \in SUBSET (Requests \X Requests)
          /\ template' \in [Requests -> Owner] /\ changeSet' \in [Requests -> Owner]
          /\ swept' \in [Requests -> {"no", "clean", "late"}]
      BY WipeTyped DEF TypeOK
    <3>2. QED BY <3>1 DEF DeleteHandler, TypeOK
  <2>2. DirectoriesKnown'
    BY DEF DirectoriesKnown, Working
  <2>3. NodesTied'
    BY DEF DeleteHandler, DependsOn, Resources, NodesTied, TypeOK, NONE
  <2>4. QED BY <2>1, <2>2, <2>3
<1>6. CASE ArtifactsPartlyDeleted
  <2>1. /\ versions' \in SUBSET (Requests \X Requests)
        /\ template' \in [Requests -> Owner] /\ changeSet' \in [Requests -> Owner]
        /\ swept' \in [Requests -> {"no", "clean", "late"}]
    BY <1>6, WipeTyped DEF ArtifactsPartlyDeleted, TypeOK
  <2>2. QED
    BY <1>6, <2>1 DEF ArtifactsPartlyDeleted, StackStatuses, TypeOK, DirectoriesKnown, NodesTied,
                      Working, NONE
<1>7. CASE LaunchNodes
  BY <1>7 DEF LaunchNodes, TypeOK, DirectoriesKnown, NodesTied, Working
<1>8. QED BY <1>1, <1>2, <1>3, <1>4, <1>5, <1>6, <1>7 DEF CloudFormation

\* Typed is inductive.
LEMMA TypedNext == Typed /\ [Next]_vars => Typed'
<1> SUFFICES ASSUME Typed, [Next]_vars PROVE Typed'
  OBVIOUS
<1>1. CASE UNCHANGED vars
  BY <1>1 DEF vars, Typed, TypeOK, DirectoriesKnown, NodesTied, Working
<1>2. QED
  BY <1>1, TypedUpload, TypedCreate, TypedUpdate, TypedDelete, TypedCloudFormation DEF Next

\* Types, the directories requests and stack refer to, and the order of the
\* resources that own compute nodes, in every reachable state.
THEOREM TypedInvariance == Spec => []Typed
  BY TypedInit, TypedNext, PTL DEF Spec

\* The types of the stack, the bucket and the requests are invariant, whatever
\* create_stack answers.
THEOREM TypeCorrect == Spec => []TypeOK
  BY TypedInvariance, PTL DEF Typed

\* No compute node is left once the stack is gone: the head node, which launches
\* them, is deleted before the custom resource that terminates them.
THEOREM NodesTerminated == Spec => []NoNodeOutlivesStack
<1>1. Typed => NoNodeOutlivesStack
  BY DEF Typed, TypeOK, NodesTied, NoNodeOutlivesStack, NONE
<1>2. QED BY <1>1, TypedInvariance, PTL

-----------------------------------------------------------------------------
(* Artifacts *)

\* A request that has not asked for a stack in its directory yet.
Private(r) ==
  \/ pc[r] = "new"
  \/ op[r] = "create" /\ pc[r] \in {"upload_config", "upload_artifacts", "call_cloudformation"}

PrivateDirectories ==
  \A r \in Requests : Private(r) =>
    /\ home # r /\ tmpl.dir # r /\ prev.dir # r
    /\ \A u \in Requests : u # r => dir[u] # r
    /\ template[r] \in {NONE, r}
    /\ pc[r] # "new" => dir[r] = r
    /\ pc[r] \in {"upload_artifacts", "call_cloudformation"} => <<r, r>> \in versions

Uploaded(u) ==
  op[u] = "update"
    /\ pc[u] \in {"upload_change_set", "upload_artifacts", "call_cloudformation"}

LiveConfigs ==
  status \in LiveStatuses /\ result[home] = "created" =>
    /\ tmpl.dir = home => <<home, tmpl.by>> \in versions
    /\ status = "UPDATE_IN_PROGRESS" /\ prev.dir = home => <<home, prev.by>> \in versions
    /\ template[home] # NONE => <<home, template[home]>> \in versions
    /\ \A u \in Requests : Uploaded(u) /\ dir[u] = home => <<home, u>> \in versions

StepsOfOps ==
  \A r \in Requests :
    /\ pc[r] \in {"upload_config", "upload_artifacts"} => op[r] \in {"create", "update"}
    /\ pc[r] \in {"validate", "upload_change_set"} => op[r] = "update"
    /\ pc[r] = "cleanup" => op[r] = "create"
    /\ op[r] = "create" /\ pc[r] \notin {"new", "done"} => dir[r] = r
    /\ pc[r] # "done" => result[r] = "none"

Config == StepsOfOps /\ PrivateDirectories /\ LiveConfigs

\* Nothing is deployed and nothing uploaded at first.
LEMMA ConfigInit == Init => Config
  BY RequestsAssumption
     DEF Init, Config, StepsOfOps, PrivateDirectories, LiveConfigs, Private, NoTemplate,
         LiveStatuses, WorkingStatuses, NONE

\* Each label belongs to the operations that can reach it.
LEMMA StepsOfOpsNext ==
  ASSUME Typed, StepsOfOps, Next
  PROVE  StepsOfOps'
<1> USE DEF StepsOfOps, Goto, End, Fail
<1>0. /\ pc \in [Requests -> PcLabels] /\ result \in [Requests -> Results]
      /\ DOMAIN op = Requests /\ DOMAIN pc = Requests /\ DOMAIN dir = Requests
  BY DEF Typed, TypeOK
<1>1. ASSUME NEW r \in Requests, Create(r) PROVE StepsOfOps'
  BY <1>0, <1>1 DEF ArtifactDir, Create, CreateBegin, CreateStack, CreateStackFails, CreateStackAnswerLost,
                    Cleanup
<1>2. ASSUME NEW r \in Requests, Update(r) PROVE StepsOfOps'
  BY <1>0, <1>2 DEF Update, UpdateBegin, UpdateValidate, UpdateStack, UpdateStackFails
<1>3. ASSUME NEW r \in Requests, Delete(r) PROVE StepsOfOps'
  BY <1>0, <1>3 DEF Delete, DeleteBegin, DeleteStack
<1>4. ASSUME NEW r \in Requests, Upload(r) \/ Crash(r) PROVE StepsOfOps'
  BY <1>0, <1>4 DEF Upload, UploadConfig, UploadChangeSet, UploadArtifacts, UploadFails, Crash
<1>5. CASE CloudFormation \/ LaunchNodes
  BY <1>5 DEF CloudFormation, LaunchNodes, StackStep, UpdateRollsBack, StackDeleted,
              ResourceCreated, ResourceDeleted, ArtifactsPartlyDeleted
<1>6. QED BY <1>1, <1>2, <1>3, <1>4, <1>5 DEF Next

\* The directory of a create that has not reached CloudFormation stays its own.
\* A lost answer of create_stack ends the privacy as a success does: the stack
\* exists in the directory that the create is about to clean up.
LEMMA PrivateNext ==
  ASSUME Typed, Config, Next
  PROVE  PrivateDirectories'
<1> USE RequestsAssumption DEF Config, Typed, PrivateDirectories, Private, Goto, End, Fail
<1>1. ASSUME NEW r \in Requests, UploadConfig(r) PROVE PrivateDirectories'
  BY <1>1 DEF UploadConfig, PutConfig, TypeOK, StepsOfOps
<1>2. ASSUME NEW r \in Requests, UploadChangeSet(r) \/ UploadFails(r) \/ Crash(r)
      PROVE PrivateDirectories'
  BY <1>2 DEF UploadChangeSet, UploadFails, Crash, TypeOK, StepsOfOps
<1>3. ASSUME NEW r \in Requests, UploadArtifacts(r) PROVE PrivateDirectories'
  BY <1>3 DEF UploadArtifacts, PutTemplate, TypeOK, StepsOfOps
<1>4. ASSUME NEW r \in Requests, CreateBegin(r) PROVE PrivateDirectories'
  BY <1>4 DEF CreateBegin, ArtifactDir, TypeOK
<1>5. ASSUME NEW r \in Requests, CreateStack(r) \/ CreateStackAnswerLost(r)
      PROVE PrivateDirectories'
  BY <1>5 DEF CreateStack, CreateStackAnswerLost, StackCreated, TypeOK, NoTemplate
<1>6. ASSUME NEW r \in Requests, CreateStackFails(r) PROVE PrivateDirectories'
  BY <1>6 DEF CreateStackFails, TypeOK
<1>7. ASSUME NEW r \in Requests, Cleanup(r) PROVE PrivateDirectories'
  BY <1>7 DEF Cleanup, Wipe, WipeVersions, WipeCurrent, TypeOK, StepsOfOps
<1>8. ASSUME NEW r \in Requests, UpdateBegin(r) PROVE PrivateDirectories'
  BY <1>8 DEF UpdateBegin, TypeOK
<1>9. ASSUME NEW r \in Requests, UpdateValidate(r) \/ UpdateStackFails(r)
      PROVE PrivateDirectories'
  BY <1>9 DEF UpdateValidate, UpdateStackFails, TypeOK, StepsOfOps
<1>10. ASSUME NEW r \in Requests, UpdateStack(r) PROVE PrivateDirectories'
  BY <1>10 DEF UpdateStack, StackUpdated, TypeOK
<1>11. ASSUME NEW r \in Requests, Delete(r) PROVE PrivateDirectories'
  BY <1>11 DEF Delete, DeleteBegin, DeleteStack, TypeOK
<1>12. CASE StackStep \/ UpdateRollsBack \/ StackDeleted \/ LaunchNodes
  BY <1>12 DEF StackStep, UpdateRollsBack, StackDeleted, LaunchNodes, NoTemplate
<1>13. ASSUME NEW x \in Resources, ResourceCreated(x) PROVE PrivateDirectories'
  BY <1>13 DEF ResourceCreated
<1>14. ASSUME NEW x \in Resources, ResourceDeleted(x) PROVE PrivateDirectories'
  BY <1>14 DEF ResourceDeleted, Wipe, WipeVersions, WipeCurrent, TypeOK
<1>15. CASE ArtifactsPartlyDeleted
  BY <1>15 DEF ArtifactsPartlyDeleted, WipeCurrent, TypeOK
<1>16. QED
  BY <1>1, <1>2, <1>3, <1>4, <1>5, <1>6, <1>7, <1>8, <1>9, <1>10, <1>11, <1>12, <1>13, <1>14,
     <1>15
     DEF Next, Create, Update, Upload, CloudFormation

\* The configurations a live stack can run, now or after a rollback or an update
\* that is about to be submitted, stay in the bucket.
LEMMA LiveNext ==
  ASSUME Typed, Config, Next
  PROVE  LiveConfigs'
<1> USE RequestsAssumption DEF Config, Typed, LiveConfigs, Uploaded, Goto, End, Fail
<1> DEFINE CreatedKept == \A h \in Requests : result'[h] = "created" => result[h] = "created"
<1>0. pc \in [Requests -> PcLabels] /\ DOMAIN op = Requests /\ result \in [Requests -> Results]
  BY DEF TypeOK
<1>h. status \in LiveStatuses => home \in Requests
  BY DEF DirectoriesKnown, LiveStatuses, WorkingStatuses, NONE
<1>00. ASSUME \A u \in Requests : Uploaded(u)' => Uploaded(u) /\ dir'[u] = dir[u],
              UNCHANGED <<stackVars, versions, template>>, CreatedKept
       PROVE  LiveConfigs'
  BY <1>00, <1>h
<1>1. ASSUME NEW r \in Requests, UploadConfig(r) PROVE LiveConfigs'
  <2>1. CreatedKept
    BY <1>0, <1>1 DEF UploadConfig
  <2>2. QED BY <1>1, <1>h, <2>1 DEF UploadConfig, PutConfig, TypeOK
<1>2. ASSUME NEW r \in Requests, UploadChangeSet(r) \/ UploadFails(r) \/ Crash(r)
      PROVE LiveConfigs'
  <2>1. \A u \in Requests : Uploaded(u)' => Uploaded(u) /\ dir'[u] = dir[u]
    BY <1>0, <1>2 DEF UploadChangeSet, UploadFails, Crash
  <2>2. CreatedKept
    BY <1>0, <1>2 DEF UploadChangeSet, UploadFails, Crash
  <2>3. QED BY <1>00, <1>2, <2>1, <2>2 DEF UploadChangeSet, UploadFails, Crash
<1>3. ASSUME NEW r \in Requests, UploadArtifacts(r) PROVE LiveConfigs'
  <2> USE <1>3 DEF UploadArtifacts
  <2>1. \A u \in Requests : Uploaded(u)' => Uploaded(u) /\ dir'[u] = dir[u]
    BY <1>0
  <2>2. status \in LiveStatuses /\ result[home] = "created" /\ dir[r] = home
          => <<home, r>> \in versions
    BY DEF StepsOfOps, PrivateDirectories, Private
  <2>3. CreatedKept
    BY <1>0
  <2>4. status \in LiveStatuses /\ result[home] = "created" /\ template'[home] # NONE
          => <<home, template'[home]>> \in versions
    BY <1>h, <2>2 DEF PutTemplate, TypeOK
  <2>5. QED BY <1>h, <2>1, <2>3, <2>4
<1>4. ASSUME NEW r \in Requests, CreateBegin(r) PROVE LiveConfigs'
  <2>1. CreatedKept
    BY <1>0, <1>4 DEF CreateBegin
  <2>2. QED BY <1>4, <1>h, <2>1 DEF CreateBegin, TypeOK
<1>5. ASSUME NEW r \in Requests, CreateStack(r) PROVE LiveConfigs'
  <2> USE <1>5 DEF CreateStack
  <2>1. home' = r /\ tmpl' = [by |-> r, dir |-> r] /\ status' = "CREATE_IN_PROGRESS"
        /\ template[r] = r /\ <<r, r>> \in versions
    BY DEF StackCreated, PrivateDirectories, Private
  <2>2. \A u \in Requests : u # r => dir[u] # r
    BY DEF PrivateDirectories, Private
  <2>3. ~Uploaded(r)'
    BY <1>0
  <2>4. QED BY <2>1, <2>2, <2>3
<1>6. ASSUME NEW r \in Requests, CreateStackFails(r) PROVE LiveConfigs'
  BY <1>6 DEF CreateStackFails, TypeOK
<1>17. ASSUME NEW r \in Requests, CreateStackAnswerLost(r) PROVE LiveConfigs'
  <2>1. home' = r
    BY <1>17 DEF CreateStackAnswerLost, StackCreated, PrivateDirectories, Private
  <2>2. result'[r] = "none"
    BY <1>17 DEF CreateStackAnswerLost, StepsOfOps
  <2>3. QED BY <2>1, <2>2
<1>7. ASSUME NEW r \in Requests, Cleanup(r) PROVE LiveConfigs'
  <2>1. dir[r] = r
    BY <1>7 DEF Cleanup, StepsOfOps
  <2>2. status \in LiveStatuses /\ result'[home] = "created" => result[home] = "created" /\ home # r
    BY <1>0, <1>h, <1>7 DEF Cleanup
  <2>3. \A u \in Requests : Uploaded(u)' => Uploaded(u) /\ dir'[u] = dir[u]
    BY <1>0, <1>7 DEF Cleanup
  <2>4. home # r => \A q : <<home, q>> \in versions => <<home, q>> \in versions'
    BY <1>7, <2>1 DEF Cleanup, Wipe, WipeVersions
  <2>5. status \in LiveStatuses /\ home # r => template'[home] = template[home]
    BY <1>7, <2>1 DEF Cleanup, Wipe, WipeCurrent, DirectoriesKnown, LiveStatuses,
                      WorkingStatuses, NONE
  <2>6. UNCHANGED stackVars
    BY <1>7 DEF Cleanup
  <2>7. QED BY <2>2, <2>3, <2>4, <2>5, <2>6 DEF stackVars, templateVars
<1>8. ASSUME NEW r \in Requests, UpdateBegin(r) PROVE LiveConfigs'
  <2>1. CreatedKept
    BY <1>0, <1>8 DEF UpdateBegin
  <2>2. QED BY <1>8, <1>h, <2>1 DEF UpdateBegin, TypeOK
<1>9. ASSUME NEW r \in Requests, UpdateValidate(r) \/ UpdateStackFails(r)
      PROVE LiveConfigs'
  <2>1. \A u \in Requests : Uploaded(u)' => Uploaded(u) /\ dir'[u] = dir[u]
    BY <1>0, <1>9 DEF UpdateValidate, UpdateStackFails
  <2>2. CreatedKept
    BY <1>0, <1>9 DEF UpdateValidate, UpdateStackFails
  <2>3. QED BY <1>00, <1>9, <2>1, <2>2 DEF UpdateValidate, UpdateStackFails
<1>10. ASSUME NEW r \in Requests, UpdateStack(r) PROVE LiveConfigs'
  <2>1. CreatedKept
    BY <1>0, <1>10 DEF UpdateStack
  <2>2. QED
    BY <1>10, <1>h, <2>1 DEF UpdateStack, StackUpdated, TypeOK, LiveStatuses, WorkingStatuses
<1>11. ASSUME NEW r \in Requests, Delete(r) PROVE LiveConfigs'
  <2>1. \A u \in Requests : Uploaded(u)' => Uploaded(u) /\ dir'[u] = dir[u]
    BY <1>0, <1>11 DEF Delete, DeleteBegin, DeleteStack
  <2>2. UNCHANGED <<home, tmpl, prev, versions, template>>
    BY <1>11 DEF Delete, DeleteBegin, DeleteStack
  <2>3. status' = status \/ status' = "DELETE_IN_PROGRESS" \/ status' = NONE
    BY <1>11 DEF Delete, DeleteBegin, DeleteStack
  <2>4. CreatedKept
    BY <1>0, <1>11 DEF Delete, DeleteBegin, DeleteStack
  <2>5. QED BY <1>h, <2>1, <2>2, <2>3, <2>4 DEF LiveStatuses, WorkingStatuses, NONE
<1>12. CASE StackStep
  BY <1>12 DEF StackStep, StackSteps, LiveStatuses, WorkingStatuses
<1>13. CASE UpdateRollsBack \/ StackDeleted \/ LaunchNodes
  BY <1>13 DEF UpdateRollsBack, StackDeleted, LaunchNodes, LiveStatuses, WorkingStatuses, NONE
<1>14. ASSUME NEW x \in Resources, ResourceCreated(x) \/ ResourceDeleted(x)
       PROVE LiveConfigs'
  BY <1>14 DEF ResourceCreated, ResourceDeleted, LiveStatuses, WorkingStatuses
<1>15. CASE ArtifactsPartlyDeleted
  BY <1>15 DEF ArtifactsPartlyDeleted, LiveStatuses, WorkingStatuses
<1>16. QED
  BY <1>1, <1>2, <1>3, <1>4, <1>5, <1>6, <1>7, <1>8, <1>9, <1>10, <1>11, <1>12, <1>13, <1>14,
     <1>15, <1>17
     DEF Next, Create, Update, Upload, CloudFormation

\* Config is inductive.
LEMMA ConfigNext == Typed /\ Config /\ [Next]_vars => Config'
<1> SUFFICES ASSUME Typed, Config, [Next]_vars PROVE Config'
  OBVIOUS
<1>1. CASE UNCHANGED vars
  BY <1>1 DEF vars, Config, StepsOfOps, PrivateDirectories, LiveConfigs, Private, Uploaded
<1>2. CASE Next
  <2>1. StepsOfOps'
    BY <1>2, StepsOfOpsNext DEF Config
  <2>2. QED BY <1>2, <2>1, PrivateNext, LiveNext DEF Config
<1>3. QED BY <1>1, <1>2

\* The configuration version that the running template names is in the bucket,
\* through any number of failed, interrupted and concurrent requests, for every
\* stack whose creator was told of it.
THEOREM ConfigAvailable == Spec => []DeployedConfigAvailable
<1>1. Config => DeployedConfigAvailable
  BY DEF Config, LiveConfigs, DeployedConfigAvailable
<1>2. Typed /\ Config /\ [Next]_vars => Config'
  BY ConfigNext
<1>3. QED BY <1>1, <1>2, ConfigInit, TypedInvariance, PTL DEF Spec

-----------------------------------------------------------------------------
(***************************************************************************)
(* The proof of OrphansExplained, for any set of requests.  A directory is *)
(* followed from nothing (Untouched) through its creator (Creators) to the *)
(* stack that undertook to delete it (Guards).  A directory that was wiped *)
(* is empty until an update writes into it (Swept), and a stack that       *)
(* undertook to delete a directory holds on to it until it has wiped it.   *)
(***************************************************************************)

\* A request that has not begun has no operation.
Fresh == \A r \in Requests : pc[r] = "new" => op[r] = NONE

\* Until its request has generated it, nothing refers to a directory.
Untouched ==
  \A d \in Requests : dir[d] # d =>
    /\ ~HasObjects(d)
    /\ home # d /\ tmpl.dir # d /\ prev.dir # d
    /\ \A u \in Requests : dir[u] # d

\* A directory is generated by a create, and wiped when that has failed.
Creators ==
  \A d \in Requests : dir[d] = d =>
    /\ op[d] = "create" /\ pc[d] # "new"
    /\ pc[d] = "done" => result[d] \in {"created", "failed", "leaked", "crashed"}
    /\ pc[d] = "done" /\ result[d] = "failed" => swept[d] # "no"

\* Nobody wipes a private directory, and nothing but an update brings objects
\* into one that was wiped.
Swept ==
  \A d \in Requests :
    /\ Private(d) => swept[d] = "no"
    /\ swept[d] = "clean" => ~HasObjects(d)

HeldByStack(d) == status # NONE /\ tmpl.dir = d /\ "s3_cleanup" \in resources

\* The stack that undertook to delete a directory still has the resource that
\* does it, pointed at that directory, or the resource has done its work.
Guards ==
  /\ status = "CREATE_IN_PROGRESS" => tmpl.dir = home
  /\ status \in WorkingStatuses \cup {"UPDATE_IN_PROGRESS", "UPDATE_ROLLBACK_IN_PROGRESS"}
       => "s3_cleanup" \in resources
  /\ \A d \in guarded : HeldByStack(d) \/ swept[d] # "no"

Orphans == Fresh /\ Untouched /\ Creators /\ Swept /\ Guards

\* No directory exists at first.
LEMMA OrphansInit == Init => Orphans
  BY RequestsAssumption
     DEF Init, Orphans, Fresh, Untouched, Creators, Swept, Guards, HasObjects,
         NoTemplate, WorkingStatuses, NONE

USE DEF stackVars, templateVars, bucketVars, requestVars

-----------------------------------------------------------------------------
(* What a step may do to a directory *)

\* No request begins twice.
LEMMA FreshNext ==
  ASSUME Typed, Fresh, Next
  PROVE  Fresh'
<1> USE DEF Fresh, Goto, End, Fail
<1>0. pc \in [Requests -> PcLabels] /\ op \in [Requests -> {NONE, "create", "update", "delete"}]
  BY DEF Typed, TypeOK
<1>1. ASSUME NEW r \in Requests, Create(r) \/ Update(r) \/ Delete(r) PROVE Fresh'
  BY <1>0, <1>1 DEF Create, CreateBegin, CreateStack, CreateStackFails, CreateStackAnswerLost,
     Cleanup, Update, UpdateBegin, UpdateValidate, UpdateStack, UpdateStackFails, Delete,
     DeleteBegin, DeleteStack
<1>2. ASSUME NEW r \in Requests, Upload(r) \/ Crash(r) PROVE Fresh'
  BY <1>0, <1>2
     DEF Upload, UploadConfig, UploadChangeSet, UploadArtifacts, UploadFails, Crash
<1>3. CASE CloudFormation \/ LaunchNodes
  BY <1>3 DEF CloudFormation, LaunchNodes, StackStep, UpdateRollsBack, StackDeleted,
              ResourceCreated, ResourceDeleted, ArtifactsPartlyDeleted
<1>4. QED BY <1>1, <1>2, <1>3 DEF Next

\* A request that has begun keeps its operation and its directory.
LEMMA RequestKept ==
  ASSUME Typed, Next, NEW u \in Requests, pc[u] # "new"
  PROVE  op'[u] = op[u] /\ dir'[u] = dir[u]
<1>0. DOMAIN op = Requests /\ DOMAIN dir = Requests
  BY DEF Typed, TypeOK
<1>1. ASSUME NEW r \in Requests, CreateBegin(r) \/ UpdateBegin(r) \/ DeleteBegin(r)
      PROVE  op'[u] = op[u] /\ dir'[u] = dir[u]
  BY <1>0, <1>1 DEF CreateBegin, UpdateBegin, DeleteBegin
<1>2. CASE UNCHANGED <<op, dir>>
  BY <1>2
<1>3. QED
  BY <1>1, <1>2
     DEF Next, Create, CreateStack, CreateStackFails, CreateStackAnswerLost, Cleanup, Update,
         UpdateValidate, UpdateStack, UpdateStackFails, Delete, DeleteStack, Upload, UploadConfig,
         UploadChangeSet, UploadArtifacts, UploadFails, Crash, CloudFormation, LaunchNodes,
         StackStep, UpdateRollsBack, StackDeleted, ResourceCreated, ResourceDeleted,
         ArtifactsPartlyDeleted

\* What a step does to the bucket: an upload, a deletion, or nothing.
LEMMA BucketSteps ==
  ASSUME Next
  PROVE  \/ \E r \in Requests : UploadConfig(r) \/ UploadChangeSet(r) \/ UploadArtifacts(r)
         \/ \E r \in Requests : Cleanup(r)
         \/ \E x \in Resources : ResourceDeleted(x) /\ x = "s3_cleanup"
         \/ ArtifactsPartlyDeleted
         \/ UNCHANGED bucketVars
  BY DEF Next, Create, CreateBegin, CreateStack, CreateStackFails, CreateStackAnswerLost, Update,
         UpdateBegin, UpdateValidate, UpdateStack, UpdateStackFails, Delete, DeleteBegin,
         DeleteStack, Upload, UploadFails, Crash, CloudFormation, LaunchNodes, StackStep,
         UpdateRollsBack, StackDeleted, ResourceCreated, ResourceDeleted

\* A deletion brings no object into any directory.
LEMMA DeletionsOnlyDelete ==
  ASSUME NEW d \in Requests, NEW e,
         Wipe(e) \/ (WipeCurrent(e) /\ UNCHANGED <<versions, swept>>), HasObjects(d)'
  PROVE  HasObjects(d)
  BY DEF HasObjects, Wipe, WipeCurrent, WipeVersions

\* What was wiped stays marked, and a mark is only set by a wipe.
LEMMA SweptStays ==
  ASSUME Typed, Config, Next, NEW d \in Requests, swept[d] # "no"
  PROVE  swept'[d] # "no"
<1>1. ASSUME NEW r \in Requests, UploadConfig(r) \/ UploadChangeSet(r) \/ UploadArtifacts(r)
      PROVE  swept'[d] # "no"
  BY <1>1 DEF UploadConfig, UploadChangeSet, UploadArtifacts, Written, Typed, TypeOK
<1>2. ASSUME NEW e, Wipe(e) PROVE swept'[d] # "no"
  BY <1>2 DEF Wipe
<1>3. CASE UNCHANGED swept
  BY <1>3
<1>4. ASSUME NEW r \in Requests, Cleanup(r) PROVE swept'[d] # "no"
  BY <1>2, <1>3, <1>4 DEF Cleanup
<1>5. ASSUME NEW x \in Resources, ResourceDeleted(x), x = "s3_cleanup" PROVE swept'[d] # "no"
  BY <1>2, <1>5 DEF ResourceDeleted
<1>6. QED BY <1>1, <1>3, <1>4, <1>5, BucketSteps DEF ArtifactsPartlyDeleted

\* An empty directory is written to by an update, or by its own create before
\* that has called CloudFormation.
LEMMA ObjectsWritten ==
  ASSUME Typed, Config, Next, NEW d \in Requests, ~HasObjects(d), HasObjects(d)'
  PROVE  \/ \E u \in Requests : op[u] = "update" /\ dir[u] = d /\ Written(u)
         \/ dir[d] = d /\ Private(d)
<1>1. ASSUME NEW r \in Requests, UploadConfig(r) \/ UploadChangeSet(r) \/ UploadArtifacts(r)
      PROVE  \/ \E u \in Requests : op[u] = "update" /\ dir[u] = d /\ Written(u)
             \/ dir[d] = d /\ Private(d)
  <2>1. dir[r] = d /\ Written(r)
    BY <1>1 DEF UploadConfig, UploadChangeSet, UploadArtifacts, PutConfig, PutTemplate,
                HasObjects, Typed, TypeOK
  <2>2. op[r] = "update" \/ (op[r] = "create" /\ dir[r] = r)
    BY <1>1 DEF UploadConfig, UploadChangeSet, UploadArtifacts, Config, StepsOfOps
  <2>3. pc[r] \in {"upload_config", "upload_artifacts"} \/ op[r] = "update"
    BY <1>1 DEF UploadConfig, UploadChangeSet, UploadArtifacts, Config, StepsOfOps
  <2>4. QED BY <2>1, <2>2, <2>3 DEF Private
<1>2. ASSUME UNCHANGED bucketVars PROVE FALSE
  BY <1>2 DEF HasObjects
<1>3. ASSUME NEW r \in Requests, Cleanup(r) PROVE FALSE
  BY <1>2, <1>3, DeletionsOnlyDelete DEF Cleanup
<1>4. ASSUME NEW x \in Resources, ResourceDeleted(x), x = "s3_cleanup" PROVE FALSE
  BY <1>4, DeletionsOnlyDelete DEF ResourceDeleted
<1>5. CASE ArtifactsPartlyDeleted
  BY <1>5, DeletionsOnlyDelete DEF ArtifactsPartlyDeleted
<1>6. QED BY <1>1, <1>2, <1>3, <1>4, <1>5, BucketSteps

-----------------------------------------------------------------------------
(* The invariant *)

\* What the stack and the requests refer to are directories that exist: a new
\* reference copies an old one or is the request's own.
LEMMA UntouchedNext ==
  ASSUME Typed, Config, Orphans, Next
  PROVE  Untouched'
<1> SUFFICES ASSUME NEW d \in Requests, dir'[d] # d
             PROVE  /\ ~HasObjects(d)'
                    /\ home' # d /\ tmpl'.dir # d /\ prev'.dir # d
                    /\ \A u \in Requests : dir'[u] # d
  BY DEF Untouched
<1>0. DOMAIN dir = Requests
  BY DEF Typed, TypeOK
<1>1. dir[d] # d
  BY RequestKept DEF Orphans, Creators
<1>2. /\ ~HasObjects(d)
      /\ home # d /\ tmpl.dir # d /\ prev.dir # d
      /\ \A u \in Requests : dir[u] # d
  BY <1>1 DEF Orphans, Untouched
<1>3. \A u \in Requests : dir'[u] # d
  <2>1. ASSUME NEW r \in Requests, CreateBegin(r) \/ UpdateBegin(r) \/ DeleteBegin(r)
        PROVE  \A u \in Requests : dir'[u] # d
    BY <1>0, <1>2, <2>1 DEF CreateBegin, ArtifactDir, UpdateBegin, DeleteBegin
  <2>2. CASE UNCHANGED dir
    BY <1>2, <2>2
  <2>3. QED
    BY <2>1, <2>2
       DEF Next, Create, CreateStack, CreateStackFails, CreateStackAnswerLost, Cleanup, Update,
           UpdateValidate, UpdateStack, UpdateStackFails, Delete, DeleteStack, Upload,
           UploadConfig, UploadChangeSet, UploadArtifacts, UploadFails, Crash, CloudFormation,
           LaunchNodes, StackStep, UpdateRollsBack, StackDeleted, ResourceCreated,
           ResourceDeleted, ArtifactsPartlyDeleted
<1>4. ~HasObjects(d)'
  BY <1>1, <1>2, ObjectsWritten
<1>5. home' # d /\ tmpl'.dir # d /\ prev'.dir # d
  <2>1. ASSUME NEW r \in Requests, StackCreated(r) \/ StackUpdated(r)
        PROVE  home' # d /\ tmpl'.dir # d /\ prev'.dir # d
    BY <1>2, <2>1, RequestsAssumption DEF StackCreated, StackUpdated, NoTemplate
  <2>2. CASE UpdateRollsBack \/ StackDeleted
    BY <1>2, <2>2, RequestsAssumption DEF UpdateRollsBack, StackDeleted, NoTemplate
  <2>3. CASE UNCHANGED templateVars
    BY <1>2, <2>3
  <2>4. QED
    BY <2>1, <2>2, <2>3
       DEF Next, Create, CreateBegin, CreateStack, CreateStackFails, CreateStackAnswerLost,
           Cleanup, Update, UpdateBegin, UpdateValidate, UpdateStack, UpdateStackFails, Delete,
           DeleteBegin, DeleteStack, Upload, UploadConfig, UploadChangeSet, UploadArtifacts,
           UploadFails, Crash, CloudFormation, LaunchNodes, StackStep, ResourceCreated,
           ResourceDeleted, ArtifactsPartlyDeleted
<1>6. QED BY <1>3, <1>4, <1>5

\* How a create ends, and that it ends in failure only after its cleanup has
\* wiped the directory.
LEMMA CreateEnds ==
  ASSUME Typed, Config, Orphans, Next, NEW d \in Requests,
         dir[d] = d, pc[d] # "done", pc'[d] = "done"
  PROVE  /\ result'[d] \in {"created", "failed", "leaked", "crashed"}
         /\ result'[d] = "failed" => swept'[d] # "no"
<1> USE DEF Goto, End, Fail
<1>0. op[d] = "create" /\ pc[d] # "new" /\ DOMAIN pc = Requests /\ DOMAIN result = Requests
  BY DEF Orphans, Creators, Typed, TypeOK
<1>1. ASSUME NEW r \in Requests, Cleanup(r)
      PROVE  /\ result'[d] \in {"created", "failed", "leaked", "crashed"}
             /\ result'[d] = "failed" => swept'[d] # "no"
  <2>1. r = d
    BY <1>0, <1>1 DEF Cleanup
  <2>2. QED
    BY <1>0, <1>1, <2>1 DEF Cleanup, Wipe
<1>2. ASSUME NEW r \in Requests,
             Create(r) \/ Update(r) \/ Delete(r) \/ Upload(r) \/ Crash(r), ~Cleanup(r)
      PROVE  result'[d] \in {"created", "crashed"}
  BY <1>0, <1>2
     DEF Create, CreateBegin, CreateStack, CreateStackFails, CreateStackAnswerLost, Update,
         UpdateBegin, UpdateValidate, UpdateStack, UpdateStackFails, Delete, DeleteBegin,
         DeleteStack, Upload, UploadConfig, UploadChangeSet, UploadArtifacts, UploadFails, Crash,
         Config, StepsOfOps
<1>3. ~(CloudFormation \/ LaunchNodes)
  BY DEF CloudFormation, LaunchNodes, StackStep, UpdateRollsBack, StackDeleted,
         ResourceCreated, ResourceDeleted, ArtifactsPartlyDeleted
<1>4. QED BY <1>1, <1>2, <1>3 DEF Next

\* A request that is done stays as it is.
LEMMA DoneKept ==
  ASSUME Typed, Next, NEW d \in Requests, pc[d] = "done"
  PROVE  pc'[d] = "done" /\ result'[d] = result[d]
<1> USE DEF Goto, End, Fail
<1>0. DOMAIN pc = Requests /\ DOMAIN result = Requests
  BY DEF Typed, TypeOK
<1>1. ASSUME NEW r \in Requests, Create(r) \/ Update(r) \/ Delete(r)
      PROVE  pc'[d] = "done" /\ result'[d] = result[d]
  BY <1>0, <1>1
     DEF Create, CreateBegin, CreateStack, CreateStackFails, CreateStackAnswerLost, Cleanup,
         Update, UpdateBegin, UpdateValidate, UpdateStack, UpdateStackFails, Delete, DeleteBegin,
         DeleteStack
<1>2. ASSUME NEW r \in Requests, Upload(r) \/ Crash(r)
      PROVE  pc'[d] = "done" /\ result'[d] = result[d]
  BY <1>0, <1>2
     DEF Upload, UploadConfig, UploadChangeSet, UploadArtifacts, UploadFails, Crash
<1>3. CASE CloudFormation \/ LaunchNodes
  BY <1>3 DEF CloudFormation, LaunchNodes, StackStep, UpdateRollsBack, StackDeleted,
              ResourceCreated, ResourceDeleted, ArtifactsPartlyDeleted
<1>4. QED BY <1>1, <1>2, <1>3 DEF Next

\* A directory is generated by the request it is named after, which is a create.
LEMMA CreatorsNext ==
  ASSUME Typed, Config, Orphans, Next
  PROVE  Creators'
<1> SUFFICES ASSUME NEW d \in Requests, dir'[d] = d
             PROVE  /\ op'[d] = "create" /\ pc'[d] # "new"
                    /\ pc'[d] = "done" => result'[d] \in {"created", "failed", "leaked", "crashed"}
                    /\ pc'[d] = "done" /\ result'[d] = "failed" => swept'[d] # "no"
  BY DEF Creators
<1>1. CASE dir[d] # d
  <2>1. pc[d] = "new" /\ tmpl.dir # d
    BY <1>1, RequestKept DEF Orphans, Untouched
  <2>2. CreateBegin(d) /\ pc'[d] = "upload_config" /\ op'[d] = "create"
    <3>0. DOMAIN dir = Requests /\ DOMAIN pc = Requests /\ DOMAIN op = Requests
      BY DEF Typed, TypeOK
    <3>1. ASSUME NEW r \in Requests, CreateBegin(r) \/ UpdateBegin(r) \/ DeleteBegin(r)
          PROVE  CreateBegin(d) /\ pc'[d] = "upload_config" /\ op'[d] = "create"
      BY <1>1, <2>1, <3>0, <3>1
         DEF CreateBegin, UpdateBegin, DeleteBegin, ArtifactDir, Goto, End
    <3>2. dir' # dir
      BY <1>1
    <3>3. QED
      BY <3>1, <3>2
         DEF Next, Create, CreateStack, CreateStackFails, CreateStackAnswerLost, Cleanup, Update,
             UpdateValidate, UpdateStack, UpdateStackFails, Delete, DeleteStack, Upload,
             UploadConfig, UploadChangeSet, UploadArtifacts, UploadFails, Crash, CloudFormation,
             LaunchNodes, StackStep, UpdateRollsBack, StackDeleted, ResourceCreated,
             ResourceDeleted, ArtifactsPartlyDeleted
  <2>3. QED BY <2>2
<1>2. CASE dir[d] = d
  <2>1. op[d] = "create" /\ pc[d] # "new"
    BY <1>2 DEF Orphans, Creators
  <2>2. op'[d] = "create"
    BY <2>1, RequestKept
  <2>3. pc'[d] # "new"
    BY <2>2, FreshNext DEF Orphans, Fresh, NONE
  <2>4. CASE pc[d] # "done"
    BY <1>2, <2>2, <2>3, <2>4, CreateEnds
  <2>5. CASE pc[d] = "done"
    <3>1. pc'[d] = "done" /\ result'[d] = result[d]
      BY <2>5, DoneKept
    <3>2. result[d] = "failed" => swept'[d] # "no"
      BY <1>2, <2>5, SweptStays DEF Orphans, Creators
    <3>3. QED BY <1>2, <2>2, <2>3, <2>5, <3>1, <3>2 DEF Orphans, Creators
  <2>6. QED BY <2>4, <2>5
<1>3. QED BY <1>1, <1>2

\* Once a create has called CloudFormation its directory is never private again.
LEMMA PrivacyEnds ==
  ASSUME Typed, Config, Orphans, Next, NEW d \in Requests, ~Private(d)
  PROVE  ~Private(d)'
<1> USE DEF Goto, End, Fail
<1>0. /\ pc[d] # "new" /\ op'[d] = op[d] /\ pc \in [Requests -> PcLabels]
      /\ op[d] # "create" \/ pc[d] \in {"cleanup", "done"}
  BY RequestKept DEF Private, Typed, TypeOK, Config, StepsOfOps, PcLabels
<1>1. ASSUME NEW r \in Requests, Create(r) \/ Update(r) \/ Delete(r) PROVE ~Private(d)'
  BY <1>0, <1>1
     DEF Private, Create, CreateBegin, CreateStack, CreateStackFails, CreateStackAnswerLost,
         Cleanup, Update, UpdateBegin, UpdateValidate, UpdateStack, UpdateStackFails, Delete,
         DeleteBegin, DeleteStack
<1>2. ASSUME NEW r \in Requests, Upload(r) \/ Crash(r) PROVE ~Private(d)'
  BY <1>0, <1>2
     DEF Private, Upload, UploadConfig, UploadChangeSet, UploadArtifacts, UploadFails, Crash
<1>3. CASE CloudFormation \/ LaunchNodes
  BY <1>0, <1>3 DEF Private, CloudFormation, LaunchNodes, StackStep, UpdateRollsBack,
              StackDeleted, ResourceCreated, ResourceDeleted, ArtifactsPartlyDeleted
<1>4. QED BY <1>1, <1>2, <1>3 DEF Next

\* Only the own cleanup and a stack that refers to a directory wipe it.
LEMMA SweptNext ==
  ASSUME Typed, Config, Orphans, Next
  PROVE  Swept'
<1> SUFFICES ASSUME NEW d \in Requests
             PROVE  /\ Private(d)' => swept'[d] = "no"
                    /\ swept'[d] = "clean" => ~HasObjects(d)'
  BY DEF Swept
<1>0. swept \in [Requests -> {"no", "clean", "late"}]
  BY DEF Typed, TypeOK
<1>1. ASSUME NEW e, Wipe(e) \/ (WipeCurrent(e) /\ UNCHANGED <<versions, swept>>),
             Private(d) => e # d
      PROVE  /\ Private(d)' => swept'[d] = "no"
             /\ swept'[d] = "clean" => ~HasObjects(d)'
  <2>1. Private(d)' => swept'[d] = "no"
    BY <1>1, PrivacyEnds DEF Wipe, Orphans, Swept
  <2>2. CASE Wipe(e) /\ e = d
    <3>1. ~HasObjects(d)'
      BY <2>2 DEF Wipe, WipeCurrent, WipeVersions, HasObjects
    <3>2. QED BY <2>1, <3>1
  <2>3. CASE ~(Wipe(e) /\ e = d)
    <3>1. swept'[d] = swept[d]
      BY <1>1, <2>3 DEF Wipe
    <3>2. QED BY <1>1, <2>1, <3>1, DeletionsOnlyDelete DEF Orphans, Swept
  <2>4. QED BY <2>2, <2>3
<1>2. ASSUME NEW r \in Requests, UploadConfig(r) \/ UploadChangeSet(r) \/ UploadArtifacts(r)
      PROVE  /\ Private(d)' => swept'[d] = "no"
             /\ swept'[d] = "clean" => ~HasObjects(d)'
  <2>1. Written(r) /\ (swept'[d] = swept[d] \/ (swept[d] # "no" /\ swept'[d] = "late"))
    BY <1>0, <1>2 DEF UploadConfig, UploadChangeSet, UploadArtifacts, Written
  <2>2. Private(d)' => swept'[d] = "no"
    BY <2>1, PrivacyEnds DEF Orphans, Swept
  <2>3. ASSUME swept'[d] = "clean", HasObjects(d)' PROVE FALSE
    <3>1. swept[d] = "clean" /\ ~HasObjects(d) /\ ~Private(d)
      BY <2>1, <2>3 DEF Orphans, Swept
    <3>2. PICK u \in Requests : op[u] = "update" /\ dir[u] = d /\ Written(u)
      BY <2>3, <3>1, ObjectsWritten
    <3>3. swept'[d] = "late"
      BY <1>0, <3>1, <3>2 DEF Written
    <3>4. QED BY <2>3, <3>3
  <2>4. QED BY <2>2, <2>3
<1>3. CASE UNCHANGED bucketVars
  <2>1. Private(d)' => swept'[d] = "no"
    BY <1>3, PrivacyEnds DEF Orphans, Swept
  <2>2. QED BY <1>3, <2>1 DEF Orphans, Swept, HasObjects
<1>4. ASSUME NEW r \in Requests, Cleanup(r)
      PROVE  /\ Private(d)' => swept'[d] = "no"
             /\ swept'[d] = "clean" => ~HasObjects(d)'
  <2>1. dir[r] = r /\ ~Private(r)
    BY <1>4 DEF Cleanup, Config, StepsOfOps, Private
  <2>2. QED BY <1>1, <1>3, <1>4, <2>1 DEF Cleanup
<1>5. ASSUME NEW x \in Resources, ResourceDeleted(x), x = "s3_cleanup"
      PROVE  /\ Private(d)' => swept'[d] = "no"
             /\ swept'[d] = "clean" => ~HasObjects(d)'
  <2>1. Private(d) => tmpl.dir # d
    BY DEF Config, PrivateDirectories
  <2>2. QED BY <1>1, <1>5, <2>1 DEF ResourceDeleted
<1>6. CASE ArtifactsPartlyDeleted
  <2>1. Private(d) => tmpl.dir # d
    BY DEF Config, PrivateDirectories
  <2>2. QED BY <1>1, <1>6, <2>1 DEF ArtifactsPartlyDeleted
<1>7. QED BY <1>2, <1>3, <1>4, <1>5, <1>6, BucketSteps

\* The cleanup resource goes only by wiping the directory it stands for, and
\* changes directory only together with the undertaking.
LEMMA GuardsNext ==
  ASSUME Typed, Config, Orphans, Next
  PROVE  Guards'
<1>0. \A d \in guarded : swept[d] # "no" => swept'[d] # "no"
  BY SweptStays DEF Typed, TypeOK
<1>1. ASSUME status' # NONE \/ status = NONE, tmpl' = tmpl, resources \subseteq resources',
             guarded' = guarded
      PROVE  \A d \in guarded' : HeldByStack(d)' \/ swept'[d] # "no"
  BY <1>0, <1>1 DEF Orphans, Guards, HeldByStack
<1>2. ASSUME NEW r \in Requests, StackCreated(r) PROVE Guards'
  BY <1>0, <1>2 DEF StackCreated, Orphans, Guards, HeldByStack, WorkingStatuses, NONE
<1>3. ASSUME status \in WorkingStatuses \cup {"UPDATE_IN_PROGRESS"},
             status' \in {"UPDATE_IN_PROGRESS", "UPDATE_ROLLBACK_IN_PROGRESS"},
             MoveGuard, UNCHANGED <<home, resources>>
      PROVE  Guards'
  <2>1. "s3_cleanup" \in resources
    BY <1>3 DEF Orphans, Guards
  <2>2. \A d \in guarded' : HeldByStack(d)' \/ swept'[d] # "no"
    BY <1>0, <1>3, <2>1 DEF MoveGuard, Orphans, Guards, HeldByStack, NONE
  <2>3. QED BY <1>3, <2>1, <2>2 DEF Guards
<1>4. CASE StackDeleted
  BY <1>0, <1>4 DEF StackDeleted, Orphans, Guards, HeldByStack, WorkingStatuses, NONE
<1>5. ASSUME NEW x \in Resources, ResourceCreated(x) PROVE Guards'
  <2>1. tmpl.dir = home
    BY <1>5 DEF ResourceCreated, Orphans, Guards
  <2>2. \A d \in guarded' : HeldByStack(d)' \/ swept'[d] # "no"
    BY <1>0, <1>5, <2>1 DEF ResourceCreated, Orphans, Guards, HeldByStack, NONE
  <2>3. QED BY <1>5, <2>1, <2>2 DEF ResourceCreated, Guards, WorkingStatuses
<1>6. ASSUME NEW x \in Resources, ResourceDeleted(x) PROVE Guards'
  <2>1. \A d \in guarded : HeldByStack(d)' \/ swept'[d] # "no"
    <3>1. CASE x = "s3_cleanup"
      <4>1. Wipe(tmpl.dir)
        BY <1>6, <3>1 DEF ResourceDeleted
      <4>2. \A d \in guarded : tmpl.dir = d => swept'[d] # "no"
        BY <4>1 DEF Wipe, Typed, TypeOK
      <4>3. QED BY <1>0, <4>2 DEF Orphans, Guards, HeldByStack
    <3>2. CASE x # "s3_cleanup"
      BY <1>0, <1>6, <3>2 DEF ResourceDeleted, Orphans, Guards, HeldByStack
    <3>3. QED BY <3>1, <3>2
  <2>2. QED BY <1>6, <2>1 DEF ResourceDeleted, Guards, WorkingStatuses
<1>7. CASE ArtifactsPartlyDeleted
  BY <1>1, <1>7 DEF ArtifactsPartlyDeleted, Orphans, Guards, WorkingStatuses, NONE
<1>8. CASE StackStep
  BY <1>1, <1>8 DEF StackStep, StackSteps, Resources, Orphans, Guards, WorkingStatuses, NONE
<1>9. ASSUME NEW r \in Requests, DeleteStack(r) PROVE Guards'
  <2>1. status' = status \/ (status # NONE /\ status' = "DELETE_IN_PROGRESS")
    BY <1>9 DEF DeleteStack
  <2>2. QED
    BY <1>1, <1>9, <2>1 DEF DeleteStack, Orphans, Guards, WorkingStatuses, NONE
<1>10. CASE UNCHANGED <<status, templateVars, resources, guarded>>
  BY <1>1, <1>10 DEF Orphans, Guards
<1>11. ASSUME NEW r \in Requests, UpdateStack(r) PROVE Guards'
  BY <1>3, <1>11 DEF UpdateStack, StackUpdated
<1>12. CASE UpdateRollsBack
  BY <1>3, <1>12 DEF UpdateRollsBack
<1>13. QED
  BY <1>2, <1>4, <1>5, <1>6, <1>7, <1>8, <1>9, <1>10, <1>11, <1>12
     DEF Next, Create, CreateBegin, CreateStack, CreateStackFails, CreateStackAnswerLost, Cleanup,
         Update, UpdateBegin, UpdateValidate, UpdateStackFails, Delete, DeleteBegin,
         Upload, UploadConfig, UploadChangeSet, UploadArtifacts, UploadFails, Crash,
         CloudFormation, LaunchNodes

\* Orphans is inductive.
LEMMA OrphansNext == Typed /\ Config /\ Orphans /\ [Next]_vars => Orphans'
<1> SUFFICES ASSUME Typed, Config, Orphans, [Next]_vars PROVE Orphans'
  OBVIOUS
<1>1. CASE UNCHANGED vars
  BY <1>1 DEF vars, Orphans, Fresh, Untouched, Creators, Swept, Guards, HeldByStack,
              HasObjects, Private
<1>2. CASE Next
  <2>1. Fresh'
    BY <1>2, FreshNext DEF Orphans
  <2>2. QED
    BY <1>2, <2>1, UntouchedNext, CreatorsNext, SweptNext, GuardsNext DEF Orphans
<1>3. QED BY <1>1, <1>2

\* Whatever is in the bucket belongs to a stack or to a running create, or was
\* left by one of the known causes, for any number of requests: in particular
\* nothing that an update uploaded before the deletion survives it.
THEOREM OrphansHaveReasons == Spec => []OrphansExplained
<1>1. Typed /\ Config /\ Orphans => OrphansExplained
  <2> SUFFICES ASSUME Typed, Orphans, NEW d \in Requests, HasObjects(d), pc[d] = "done",
                      result[d] \notin {"crashed", "leaked"}, swept[d] # "late"
               PROVE  InUse(d) \/ (result[d] = "created" /\ d \notin guarded)
    BY DEF OrphansExplained
  <2>1. dir[d] = d
    BY DEF Orphans, Untouched
  <2>2. swept[d] = "no"
    BY DEF Orphans, Swept, Typed, TypeOK
  <2>3. result[d] = "created"
    BY <2>1, <2>2 DEF Orphans, Creators
  <2>4. d \in guarded => HeldByStack(d)
    BY <2>2 DEF Orphans, Guards
  <2>5. QED BY <2>3, <2>4 DEF InUse, HeldByStack
<1>2. QED
  BY <1>1, OrphansInit, OrphansNext, ConfigInit, ConfigNext, TypedInvariance, PTL DEF Spec

=============================================================================
