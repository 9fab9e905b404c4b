------------------------------ MODULE ImageBuild ------------------------------
(***************************************************************************)
(* Creation and deletion of the custom image of one image id.              *)
(*                                                                         *)
(* build-image uploads the artifacts of the build and creates a stack; EC2 *)
(* Image Builder makes the AMI, and its notification runs the Lambda of    *)
(* the stack, which tags the AMI as available and deletes the stack.       *)
(* delete-image removes whatever it finds under the id: the stack, the AMI *)
(* (the available one, or else one a failed build has left), its           *)
(* snapshots, the artifacts and the log group.                             *)
(*                                                                         *)
(* A build, its AMI, its snapshots and its artifact directory are named    *)
(* after the request that started it.                                      *)
(***************************************************************************)
CONSTANTS
  Creators,       \* build-image requests for this image id
  Deleters,       \* delete-image requests for this image id
  Neighbours      \* finished builds of ids that begin with this id

NONE == "NONE"

ASSUME BuildsAssumption ==
  /\ NONE \notin Creators \cup Neighbours
  /\ Creators \cap Neighbours = {} /\ Creators \cap Deleters = {}

Requests == Creators \cup Deleters
Builds   == Creators \cup Neighbours

VARIABLES
  status,         \* status of the build stack, or NONE
  build,          \* the request whose build the stack runs, or NONE
  making,         \* status of the stack's ParallelClusterImage resource
  ami,            \* for each build: none, made or available
  snapshots,      \* builds whose snapshots exist
  objects,        \* what the artifact directory of each build holds
  logGroup,       \* whether the log group of the id exists
  note,           \* notification of each build: none, sent, tagged, handled
  mistagged,      \* builds whose AMI could not be tagged (history)
  removers,       \* for each build: the deletes that began to remove its stack
                  \* or its AMI (history)
  unanswered,     \* builds whose create_stack was carried out although the
                  \* request never had its answer (history)
  pc,             \* where each request is
  image,          \* the AMI a delete has looked up
  view,           \* the stack a delete has described: its build and whether it builds
  result          \* how the request ended

stackVars   == <<status, build, making>>
amiVars     == <<ami, snapshots, note, mistagged>>
storeVars   == <<objects, logGroup>>
historyVars == <<removers, unanswered>>
requestVars == <<pc, image, view, result>>
vars == <<stackVars, amiVars, storeVars, historyVars, requestVars>>

NoView == [build |-> NONE, building |-> FALSE]

Files == {"config", "template"}

Init ==
  /\ status = NONE /\ build = NONE /\ making = NONE
  /\ ami       = [b \in Builds |-> IF b \in Neighbours THEN "available" ELSE "none"]
  /\ snapshots = Neighbours
  /\ objects   = [b \in Builds |-> IF b \in Neighbours THEN Files ELSE {}]
  /\ logGroup = FALSE
  /\ note = [b \in Builds |-> "none"]
  /\ mistagged = {} /\ unanswered = {}
  /\ removers = [b \in Builds |-> {}]
  /\ pc     = [r \in Requests |-> "new"]
  /\ image  = [r \in Requests |-> NONE]
  /\ view   = [r \in Requests |-> NoView]
  /\ result = [r \in Requests |-> "none"]

Goto(r, label) == pc' = [pc EXCEPT ![r] = label] /\ UNCHANGED result

End(r, how) ==
  /\ pc' = [pc EXCEPT ![r] = "done"]
  /\ result' = [result EXCEPT ![r] = how]

\* The process dies, or its caller interrupts it, between two calls.
Crash(r) ==
  /\ pc[r] \notin {"new", "done"}
  /\ End(r, "crashed")
  /\ UNCHANGED <<stackVars, amiVars, storeVars, historyVars, image, view>>

\* A call of the request fails and the request ends with the error.
Abort(r) ==
  /\ pc[r] \in {"check_stack", "find_stack", "check_use", "check_building", "delete_stack",
                "find_ami", "snapshots"}
  /\ End(r, "failed")
  /\ UNCHANGED <<stackVars, amiVars, storeVars, historyVars, image, view>>

-----------------------------------------------------------------------------
(* The AMIs that EC2 finds *)

\* describe_image_by_id_tag: tagged with the image id and as available.
ByIdTag == {b \in Creators : ami[b] = "available"}

\* describe_image_by_imagebuilder_arn_tag: a pattern that ends in the name of
\* the id and a star, so that longer names match too.
ByArnTag == {b \in Builds : ami[b] # "none"}

-----------------------------------------------------------------------------
(* ImageBuilder.create *)

\* _validate_no_existing_image asks EC2 and then CloudFormation; the
\* configuration is validated last.
CheckImage(r) ==
  /\ pc[r] = "new"
  /\ \/ ByIdTag # {} /\ End(r, "refused")
     \/ ByIdTag = {} /\ Goto(r, "check_stack")
  /\ UNCHANGED <<stackVars, amiVars, storeVars, historyVars, image, view>>

CheckStack(r) ==
  /\ pc[r] = "check_stack"
  /\ \/ status # NONE /\ End(r, "refused")
     \/ status = NONE /\ (Goto(r, "upload_config") \/ End(r, "refused"))
  /\ UNCHANGED <<stackVars, amiVars, storeVars, historyVars, image, view>>

\* An upload that fails may have left its object; nothing is cleaned up then,
\* because artifacts_uploaded is not set.
Upload(r, file, next) ==
  LET put == [objects EXCEPT ![r] = @ \cup {file}] IN
  /\ \/ objects' = put /\ Goto(r, next)
     \/ objects' \in {put, objects} /\ End(r, "not_uploaded")
  /\ UNCHANGED <<stackVars, amiVars, logGroup, historyVars, image, view>>

UploadConfig(r) == pc[r] = "upload_config" /\ Upload(r, "config", "upload_artifacts")

UploadArtifacts(r) == pc[r] = "upload_artifacts" /\ Upload(r, "template", "create_stack")

StackCreated(r) ==
  /\ status = NONE
  /\ status' = "CREATE_IN_PROGRESS" /\ build' = r /\ making' = NONE

CleanupAnyway(r) ==                                              \* mutant
  /\ pc[r] = "create_stack"
  /\ StackCreated(r)
  /\ End(r, "created") \/ Goto(r, "cleanup")
  /\ UNCHANGED <<amiVars, storeVars, historyVars, image, view>>

\* A description that fails after the creation is reported, not undone.
CreateStack(r) ==
  /\ pc[r] = "create_stack"
  /\ StackCreated(r)
  /\ \E how \in {"created", "failed"} : End(r, how)
  /\ UNCHANGED <<amiVars, storeVars, historyVars, image, view>>

NoCleanup(r) ==                                                  \* mutant
  /\ pc[r] = "create_stack"
  /\ End(r, "failed")
  /\ UNCHANGED <<stackVars, amiVars, storeVars, historyVars, image, view>>

CreateStackFails(r) ==
  /\ pc[r] = "create_stack"
  /\ Goto(r, "cleanup")
  /\ UNCHANGED <<stackVars, amiVars, storeVars, historyVars, image, view>>

\* The stack is created but the answer is lost: creation_result is None.
CreateStackAnswerLost(r) ==
  /\ pc[r] = "create_stack"
  /\ StackCreated(r)
  /\ unanswered' = unanswered \cup {r}
  /\ Goto(r, "cleanup")
  /\ UNCHANGED <<amiVars, storeVars, removers, image, view>>

\* delete_s3_artifacts, which swallows the errors of S3.
Wipe(b) == objects' = [objects EXCEPT ![b] = {}]

Cleanup(r) ==
  /\ pc[r] = "cleanup"
  /\ \/ Wipe(r) /\ End(r, "failed")
     \/ UNCHANGED objects /\ End(r, "leaked")
  /\ UNCHANGED <<stackVars, amiVars, logGroup, historyVars, image, view>>

-----------------------------------------------------------------------------
(* delete_image and ImageBuilder.delete *)

\* _get_underlying_image_or_stack. What EC2 lists is cached for the rest of the
\* request, an empty list too: describe_images raises anew each time, but on
\* the answer that _describe_images_with_pagination has cached.
FindImage(r) ==
  /\ pc[r] = "new"
  /\ \/ /\ \E b \in ByIdTag : image' = [image EXCEPT ![r] = b]
        /\ Goto(r, "check_use")
     \/ ByIdTag = {} /\ Goto(r, "find_stack") /\ UNCHANGED image
  /\ UNCHANGED <<stackVars, amiVars, storeVars, historyVars, view>>

\* ImageBuilderStack: the stack and the status of its image resource. When that
\* resource cannot be described the image is taken for not building.
StackViews ==
  {[build |-> build, building |-> b] : b \in {making = "CREATE_IN_PROGRESS", FALSE}}

FindStack(r) ==
  /\ pc[r] = "find_stack"
  /\ \/ /\ status # NONE /\ Goto(r, "check_use")
        /\ \E v \in StackViews : view' = [view EXCEPT ![r] = v]
     \/ status = NONE /\ End(r, "refused") /\ UNCHANGED view
  /\ UNCHANGED <<stackVars, amiVars, storeVars, historyVars, image>>

\* Without --force an image that is in use or shared is kept.
CheckUse(r) ==
  /\ pc[r] = "check_use"
  /\ \/ Goto(r, "check_building")
     \/ image[r] # NONE /\ End(r, "refused")
  /\ UNCHANGED <<stackVars, amiVars, storeVars, historyVars, image, view>>

\* stack_exists asks anew, self.stack is described once per request.
CheckBuilding(r) ==
  /\ pc[r] = "check_building"
  /\ \/ status = NONE /\ Goto(r, "find_ami") /\ UNCHANGED view
     \/ \E v \in IF view[r] = NoView THEN StackViews ELSE {view[r]} :
          /\ status # NONE
          /\ view' = [view EXCEPT ![r] = v]
          /\ \/ v.building /\ End(r, "refused")
             \/ ~v.building /\ Goto(r, "delete_stack")
  /\ UNCHANGED <<stackVars, amiVars, storeVars, historyVars, image>>

\* The delete r begins to remove the stack or the AMI of the build b.
Removes(r, b) ==
  removers' = [c \in Builds |-> IF c = b THEN removers[c] \cup {r} ELSE removers[c]]

BlindDelete(r) ==                                                \* mutant
  /\ pc[r] = "delete_stack"
  /\ status' = "DELETE_IN_PROGRESS"
  /\ Removes(r, build)
  /\ Goto(r, "find_ami")
  /\ UNCHANGED <<build, making, amiVars, storeVars, unanswered, image, view>>

\* cfn.delete_stack by name: whatever stack now has the name.
DeleteStack(r) ==
  /\ pc[r] = "delete_stack"
  /\ status' = IF status = NONE THEN NONE ELSE "DELETE_IN_PROGRESS"
  /\ Removes(r, build)
  /\ Goto(r, "find_ami")
  /\ UNCHANGED <<build, making, amiVars, storeVars, unanswered, image, view>>

\* The image found first, or else one that failed_image finds.
Candidates(r) == IF image[r] # NONE THEN {image[r]} ELSE ByArnTag

DeregisterImage(r) ==
  /\ pc[r] = "find_ami"
  /\ \/ \E b \in Candidates(r) :
          /\ ami[b] # "none"
          /\ ami' = [ami EXCEPT ![b] = "none"]
          /\ image' = [image EXCEPT ![r] = b]
          /\ Removes(r, b)
          /\ Goto(r, "snapshots")
     \/ /\ \E b \in Candidates(r) : ami[b] = "none"
        /\ End(r, "failed")
        /\ UNCHANGED <<ami, image, removers>>
     \/ /\ Candidates(r) = {}
        /\ Goto(r, "artifacts")
        /\ UNCHANGED <<ami, image, removers>>
  /\ UNCHANGED <<stackVars, snapshots, note, mistagged, storeVars, unanswered, view>>

KeepSnapshots(r) ==                                              \* mutant
  /\ pc[r] = "snapshots"
  /\ Goto(r, "artifacts")
  /\ UNCHANGED <<stackVars, amiVars, storeVars, historyVars, image, view>>

DeleteSnapshots(r) ==
  /\ pc[r] = "snapshots"
  /\ snapshots' = snapshots \ {image[r]}
  /\ Goto(r, "artifacts")
  /\ UNCHANGED <<stackVars, ami, note, mistagged, storeVars, historyVars, image, view>>

\* _get_artifact_dir: the tag of the image, or else of the stack.
ArtifactDir(r) == IF image[r] # NONE THEN image[r] ELSE view[r].build

\* An error of S3 is logged, and the delete goes on.
DeleteArtifacts(r) ==
  /\ pc[r] = "artifacts"
  /\ \/ Wipe(ArtifactDir(r)) /\ Goto(r, "log_group")
     \/ UNCHANGED objects /\ Goto(r, "log_group_leaked")
  /\ UNCHANGED <<stackVars, amiVars, logGroup, historyVars, image, view>>

DeleteLogGroup(r) ==
  /\ pc[r] \in {"log_group", "log_group_leaked"}
  /\ logGroup' = FALSE \/ UNCHANGED logGroup
  /\ End(r, IF pc[r] = "log_group" THEN "deleted" ELSE "leaked")
  /\ UNCHANGED <<stackVars, amiVars, objects, historyVars, image, view>>

-----------------------------------------------------------------------------
(* EC2 Image Builder, CloudFormation and the notification *)

BuildStarts ==
  /\ status = "CREATE_IN_PROGRESS" /\ making = NONE
  /\ making' = "CREATE_IN_PROGRESS"
  /\ logGroup' = TRUE
  /\ UNCHANGED <<status, build, amiVars, objects, historyVars, requestVars>>

ImageMade ==
  /\ status = "CREATE_IN_PROGRESS" /\ making = "CREATE_IN_PROGRESS"
  /\ ami[build] = "none" /\ removers[build] = {}
  /\ ami' = [ami EXCEPT ![build] = "made"]
  /\ snapshots' = snapshots \cup {build}
  /\ UNCHANGED <<stackVars, note, mistagged, storeVars, historyVars, requestVars>>

\* The image is AVAILABLE, which the topic of the stack is told.
Notify ==
  /\ status = "CREATE_IN_PROGRESS" /\ making = "CREATE_IN_PROGRESS"
  /\ ami[build] = "made" /\ note[build] = "none"
  /\ note' = [note EXCEPT ![build] = "sent"]
  /\ UNCHANGED <<stackVars, ami, snapshots, mistagged, storeVars, historyVars, requestVars>>

BuildSucceeds ==
  /\ status = "CREATE_IN_PROGRESS" /\ making = "CREATE_IN_PROGRESS"
  /\ note[build] # "none"
  /\ status' = "CREATE_COMPLETE" /\ making' = "CREATE_COMPLETE"
  /\ UNCHANGED <<build, amiVars, storeVars, historyVars, requestVars>>

\* A build may fail after its AMI was made. Rollback is disabled by default
\* and keeps the AMI and the stack in any case.
BuildFails ==
  /\ status = "CREATE_IN_PROGRESS" /\ note[build] = "none"
  /\ status' = "CREATE_FAILED"
  /\ making' = IF making = NONE THEN NONE ELSE "CREATE_FAILED"
  /\ UNCHANGED <<build, amiVars, storeVars, historyVars, requestVars>>

BuildCancelled ==
  /\ status = "DELETE_IN_PROGRESS" /\ making = "CREATE_IN_PROGRESS"
  /\ making' = "CREATE_FAILED"
  /\ UNCHANGED <<status, build, amiVars, storeVars, historyVars, requestVars>>

StackDeleted ==
  /\ status = "DELETE_IN_PROGRESS" /\ making # "CREATE_IN_PROGRESS"
  /\ status' = NONE /\ build' = NONE /\ making' = NONE
  /\ UNCHANGED <<amiVars, storeVars, historyVars, requestVars>>

StackDeletionFails ==
  /\ status = "DELETE_IN_PROGRESS"
  /\ status' = "DELETE_FAILED"
  /\ UNCHANGED <<build, making, amiVars, storeVars, historyVars, requestVars>>

TagNothing(b) ==                                                 \* mutant
  /\ note[b] = "sent"
  /\ note' = [note EXCEPT ![b] = "tagged"]
  /\ UNCHANGED <<stackVars, ami, snapshots, mistagged, storeVars, historyVars, requestVars>>

\* delete_image_stack.handler, first half: _tag_ami logs what fails.
TagAmi(b) ==
  /\ note[b] = "sent"
  /\ note' = [note EXCEPT ![b] = "tagged"]
  /\ \/ /\ ami[b] # "none"
        /\ ami' = [ami EXCEPT ![b] = "available"]
        /\ UNCHANGED mistagged
     \/ mistagged' = mistagged \cup {b} /\ UNCHANGED ami
  /\ UNCHANGED <<stackVars, snapshots, storeVars, historyVars, requestVars>>

\* Second half: the stack is deleted by its ARN, so that a later stack of the
\* same name is left alone.
ByName(b)   == status # NONE                                     \* mutant
OwnStack(b) == build = b

DeleteOwnStack(b) ==
  /\ note[b] = "tagged"
  /\ note' = [note EXCEPT ![b] = "handled"]
  /\ status' = IF OwnStack(b) THEN "DELETE_IN_PROGRESS" ELSE status
  /\ UNCHANGED <<build, making, ami, snapshots, mistagged, storeVars, historyVars, requestVars>>

\* The handler raises and is invoked again, or the retries are used up, or the
\* notification comes twice; the function disappears with its stack.
Redeliver(b) ==
  /\ note[b] \in {"tagged", "handled"} /\ build = b
  /\ note' = [note EXCEPT ![b] = "sent"]
  /\ UNCHANGED <<stackVars, ami, snapshots, mistagged, storeVars, historyVars, requestVars>>

Drop(b) ==
  /\ note[b] \in {"sent", "tagged"}
  /\ note' = [note EXCEPT ![b] = "handled"]
  /\ UNCHANGED <<stackVars, ami, snapshots, mistagged, storeVars, historyVars, requestVars>>

-----------------------------------------------------------------------------

Create(r) ==
  \/ CheckImage(r) \/ CheckStack(r) \/ UploadConfig(r) \/ UploadArtifacts(r)
  \/ CreateStack(r) \/ CreateStackFails(r) \/ CreateStackAnswerLost(r) \/ Cleanup(r)

Delete(r) ==
  \/ FindImage(r) \/ FindStack(r) \/ CheckUse(r) \/ CheckBuilding(r) \/ DeleteStack(r)
  \/ DeregisterImage(r) \/ DeleteSnapshots(r) \/ DeleteArtifacts(r) \/ DeleteLogGroup(r)

Services ==
  \/ BuildStarts \/ ImageMade \/ Notify \/ BuildSucceeds \/ BuildFails
  \/ BuildCancelled \/ StackDeleted \/ StackDeletionFails

Handler(b) == TagAmi(b) \/ DeleteOwnStack(b) \/ Redeliver(b) \/ Drop(b)

Next ==
  \/ \E r \in Creators : Create(r)
  \/ \E r \in Deleters : Delete(r)
  \/ \E r \in Requests : Crash(r) \/ Abort(r)
  \/ Services
  \/ \E b \in Creators : Handler(b)

Spec == Init /\ [][Next]_vars

-----------------------------------------------------------------------------
(* Properties *)

TypeOK ==
  /\ status \in {NONE, "CREATE_IN_PROGRESS", "CREATE_COMPLETE", "CREATE_FAILED",
                 "DELETE_IN_PROGRESS", "DELETE_FAILED"}
  /\ build \in Creators \cup {NONE} /\ (build = NONE <=> status = NONE)
  /\ making \in {NONE, "CREATE_IN_PROGRESS", "CREATE_COMPLETE", "CREATE_FAILED"}
  /\ ami \in [Builds -> {"none", "made", "available"}]
  /\ snapshots \subseteq Builds
  /\ objects \in [Builds -> SUBSET Files]
  /\ logGroup \in BOOLEAN
  /\ note \in [Builds -> {"none", "sent", "tagged", "handled"}]
  /\ mistagged \subseteq Creators /\ unanswered \subseteq Creators
  /\ removers \in [Builds -> SUBSET Deleters]
  /\ pc \in [Requests -> {"new", "check_stack", "upload_config", "upload_artifacts",
                          "create_stack", "cleanup", "find_stack", "check_use",
                          "check_building", "delete_stack", "find_ami", "snapshots",
                          "artifacts", "log_group", "log_group_leaked", "done"}]
  /\ image \in [Requests -> Builds \cup {NONE}]
  /\ view \in [Requests -> [build : Creators \cup {NONE}, building : BOOLEAN]]
  /\ result \in [Requests -> {"none", "created", "refused", "not_uploaded", "failed",
                             "leaked", "deleted", "crashed"}]

\* An AMI of this id that is not tagged as available can be found through the
\* stack of its build, unless the Lambda could not tag it or a delete-image
\* request has begun to remove it: _get_underlying_image_or_stack answers "not
\* found" for any other, whatever AMIs failed builds have left.
ImagesReachable ==
  \A b \in Creators : ami[b] = "made" => build = b \/ b \in mistagged \/ removers[b] # {}

\* Snapshots outlive their AMI only through a delete-image request that is
\* about to remove them or that ended, by an error or a crash, between
\* deregister_image and delete_snapshot.
SnapshotsOwned ==
  \A b \in Builds :
    b \in snapshots /\ ami[b] = "none" =>
      \E r \in Deleters :
        image[r] = b /\ (pc[r] = "snapshots" \/ result[r] \in {"failed", "crashed"})

\* The artifacts of a build are complete for as long as its AMI is available,
\* and while it has a stack that is neither being deleted nor robbed of its AMI
\* by a delete-image that took it for one left by a failed build.  Hence the
\* cleanup of build-image runs only when there is no stack, and delete-image
\* removes the artifacts after the stack and the AMI, never before.  The one
\* exception is a build whose create_stack was carried out although its answer
\* was lost: the request takes the stack for not created.
ArtifactsKept ==
  \A b \in Creators : objects[b] # Files =>
    /\ ami[b] = "available" => b \in unanswered
    /\ build = b => \/ b \in unanswered
                    \/ status \in {"DELETE_IN_PROGRESS", "DELETE_FAILED"}
                    \/ ami[b] = "none" /\ \E r \in Deleters : image[r] = b

\* What delete r has not yet, or never, removed of the directory of b.
Unfinished(r, b) ==
  pc[r] # "done" \/ result[r] \in {"failed", "crashed", "leaked"} \/ ArtifactDir(r) # b

\* Artifacts have a stack or an AMI by which delete-image finds them, once their
\* build-image is over, or they were left behind for a reason: build-image was
\* interrupted, or failed before all was uploaded, or could not clean up; or
\* the delete-image that removed the stack or the AMI has not come to the
\* artifacts yet, stopped before it did, could not delete them, or had looked
\* up another build of the id.  In particular a build that fails between its
\* uploads and its stack leaves nothing.
ArtifactsOwned ==
  \A b \in Creators : objects[b] # {} /\ pc[b] = "done" =>
    \/ build = b \/ ami[b] # "none"
    \/ result[b] \in {"crashed", "leaked", "not_uploaded"}
    \/ \E r \in removers[b] : Unfinished(r, b)

\* A stack begins to be deleted only by a delete-image request or by the
\* Lambda of its own build, however late or often its notification comes.
StackDeletedByOwner ==
  [][status # "DELETE_IN_PROGRESS" /\ status' = "DELETE_IN_PROGRESS" =>
       \/ note[build] = "tagged" /\ note'[build] = "handled"
       \/ \E r \in Deleters : pc[r] = "delete_stack" /\ pc'[r] = "find_ami"]_vars

\* delete-image removes images of the id it is given: "Return failed image
\* object", of that id.
NeighbourSpared == \A b \in Neighbours : ami[b] = "available" /\ objects[b] = Files

=============================================================================
