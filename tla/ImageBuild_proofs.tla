--------------------------- MODULE ImageBuild_proofs ---------------------------
(***************************************************************************)
(* Proofs about ImageBuild, for any number of creations, deletions and     *)
(* neighbours.                                                             *)
(*                                                                         *)
(* An AMI stays reachable because a stack goes away only after its Lambda  *)
(* has tagged the AMI or a delete has begun to remove it (Tagged).  For    *)
(* the artifacts the requests have to be followed: a build has a stack, an *)
(* AMI or a delete that knows of it only when its build-image has called   *)
(* CloudFormation (Placed), and a delete reaches the artifacts only after  *)
(* stack and AMI (Stages).  Hence artifacts are complete until their build *)
(* is over for good (Kept), and those of a build that has neither stack    *)
(* nor AMI left have somebody to blame (Owned).                            *)
(***************************************************************************)
EXTENDS ImageBuild, TLAPS

\* A request that has ended takes no further step.
Ended == \A r \in Requests : result[r] # "none" => pc[r] = "done"

Excused(b) == b \in mistagged \/ removers[b] # {}

Tagged ==
  \A b \in Creators :
    /\ note[b] # "none" => ami[b] # "none" \/ removers[b] # {}
    /\ note[b] = "tagged" => ami[b] # "made" \/ Excused(b)
    /\ status = "DELETE_IN_PROGRESS" /\ build = b => ami[b] # "made" \/ Excused(b)

Inv == TypeOK /\ Ended /\ Tagged /\ ImagesReachable /\ SnapshotsOwned

USE DEF stackVars, amiVars, storeVars, historyVars, requestVars, Upload

-----------------------------------------------------------------------------
(* Types *)

\* Only finished builds of other ids exist at first.
LEMMA InvInit == Init => Inv
<1> SUFFICES ASSUME Init PROVE Inv
  OBVIOUS
<1> USE BuildsAssumption DEF Init, Builds, Requests
<1>1. TypeOK
  BY DEF TypeOK, NoView, Files
<1>2. Ended /\ Tagged /\ ImagesReachable /\ SnapshotsOwned
  BY DEF Ended, Tagged, ImagesReachable, SnapshotsOwned
<1>3. QED BY <1>1, <1>2 DEF Inv

LEMMA Sorts ==
  /\ Creators \subseteq Builds /\ Creators \subseteq Requests /\ Deleters \subseteq Requests
  /\ NONE \notin Builds /\ Creators \cap Deleters = {}
  BY BuildsAssumption DEF Builds, Requests

\* The type invariant in parts, which different actions disturb.
Labels  == {"new", "check_stack", "upload_config", "upload_artifacts", "create_stack", "cleanup",
            "find_stack", "check_use", "check_building", "delete_stack", "find_ami", "snapshots",
            "artifacts", "log_group", "log_group_leaked", "done"}
Results == {"none", "created", "refused", "not_uploaded", "failed", "leaked", "deleted",
            "crashed"}
Views   == [build : Creators \cup {NONE}, building : BOOLEAN]

RequestTyped == pc \in [Requests -> Labels] /\ result \in [Requests -> Results]
LookupTyped  == image \in [Requests -> Builds \cup {NONE}] /\ view \in [Requests -> Views]
StoreTyped   == objects \in [Builds -> SUBSET Files] /\ logGroup \in BOOLEAN
AmiTyped ==
  /\ ami \in [Builds -> {"none", "made", "available"}]
  /\ note \in [Builds -> {"none", "sent", "tagged", "handled"}]
  /\ snapshots \subseteq Builds /\ mistagged \subseteq Creators
  /\ removers \in [Builds -> SUBSET Deleters]
StackTyped ==
  /\ unanswered \subseteq Creators
  /\ status \in {NONE, "CREATE_IN_PROGRESS", "CREATE_COMPLETE", "CREATE_FAILED",
                 "DELETE_IN_PROGRESS", "DELETE_FAILED"}
  /\ build \in Creators \cup {NONE} /\ (build = NONE <=> status = NONE)
  /\ making \in {NONE, "CREATE_IN_PROGRESS", "CREATE_COMPLETE", "CREATE_FAILED"}

LEMMA TypeParts ==
  TypeOK <=> RequestTyped /\ LookupTyped /\ StoreTyped /\ AmiTyped /\ StackTyped
  BY Zenon DEF TypeOK, RequestTyped, LookupTyped, StoreTyped, AmiTyped, StackTyped, Labels, Results,
            Views

\* A step of the services or of the Lambda leaves the requests alone; any other
\* moves one request, and gives it a result exactly when it is done.
Moves(r) ==
  \E l \in Labels, how \in Results :
    /\ pc[r] # "done" /\ pc' = [pc EXCEPT ![r] = l]
    /\ \/ l # "done" /\ result' = result
       \/ l = "done" /\ result' = [result EXCEPT ![r] = how]

LEMMA MovesOne ==
  ASSUME NEW r, Create(r) \/ Delete(r) \/ Crash(r) \/ Abort(r)
  PROVE  Moves(r)
<1>1. ASSUME NEW l \in Labels \ {"done"}, Goto(r, l), pc[r] # "done" PROVE Moves(r)
  BY <1>1 DEF Goto, Moves, Results
<1>2. ASSUME NEW how \in Results, End(r, how), pc[r] # "done" PROVE Moves(r)
  BY <1>2 DEF End, Moves, Labels
<1> USE <1>1, <1>2 DEF Labels, Results
<1>3. CASE CheckImage(r) \/ CheckStack(r) \/ UploadConfig(r) \/ UploadArtifacts(r)
  BY <1>3 DEF CheckImage, CheckStack, UploadConfig, UploadArtifacts
<1>4. CASE CreateStack(r) \/ CreateStackFails(r) \/ CreateStackAnswerLost(r) \/ Cleanup(r)
  BY <1>4 DEF CreateStack, CreateStackFails, CreateStackAnswerLost, Cleanup
<1>5. CASE FindImage(r) \/ FindStack(r) \/ CheckUse(r) \/ CheckBuilding(r) \/ DeleteStack(r)
  BY <1>5 DEF FindImage, FindStack, CheckUse, CheckBuilding, DeleteStack
<1>6. CASE DeregisterImage(r) \/ DeleteSnapshots(r) \/ DeleteArtifacts(r) \/ DeleteLogGroup(r)
  BY <1>6 DEF DeregisterImage, DeleteSnapshots, DeleteArtifacts, DeleteLogGroup
<1>7. CASE Crash(r) \/ Abort(r)
  BY <1>7 DEF Crash, Abort
<1>8. QED BY <1>3, <1>4, <1>5, <1>6, <1>7 DEF Create, Delete

LEMMA RequestNext ==
  ASSUME RequestTyped, Ended, Next
  PROVE  RequestTyped' /\ Ended'
<1>1. ASSUME NEW r \in Requests, Moves(r) PROVE RequestTyped' /\ Ended'
  BY <1>1 DEF Moves, RequestTyped, Ended
<1>2. CASE UNCHANGED <<pc, result>>
  BY <1>2 DEF RequestTyped, Ended
<1>3. CASE Services \/ \E b \in Creators : Handler(b)
  BY <1>2, <1>3 DEF Services, BuildStarts, ImageMade, Notify, BuildSucceeds, BuildFails,
     BuildCancelled, StackDeleted, StackDeletionFails, Handler, TagAmi, DeleteOwnStack, Redeliver,
     Drop
<1>4. QED BY <1>1, <1>3, MovesOne, Sorts DEF Next

\* What a delete has looked up changes only by its own lookups.
LEMMA LookupsKept ==
  ASSUME Next
  PROVE  \/ UNCHANGED <<image, view>>
         \/ \E r \in Deleters :
              FindImage(r) \/ FindStack(r) \/ CheckBuilding(r) \/ DeregisterImage(r)
  BY DEF Next, Create, CheckImage, CheckStack, UploadConfig, UploadArtifacts, CreateStack,
     CreateStackFails, CreateStackAnswerLost, Cleanup, Delete, CheckUse, DeleteStack,
     DeleteSnapshots, DeleteArtifacts, DeleteLogGroup, Crash, Abort, Services, BuildStarts,
     ImageMade, Notify, BuildSucceeds, BuildFails, BuildCancelled, StackDeleted,
     StackDeletionFails, Handler, TagAmi, DeleteOwnStack, Redeliver, Drop

LEMMA CandidatesTyped ==
  ASSUME LookupTyped, NEW r \in Requests
  PROVE  Candidates(r) \subseteq Builds
  BY DEF LookupTyped, Candidates, ByArnTag

LEMMA LookupNext ==
  ASSUME TypeOK, Next
  PROVE  LookupTyped'
<1>0. LookupTyped /\ StackViews \subseteq Views
  <2>1. LookupTyped /\ build \in Creators \cup {NONE}
    BY TypeParts DEF StackTyped
  <2>2. \A b \in {making = "CREATE_IN_PROGRESS", FALSE} : b \in BOOLEAN
    BY Zenon
  <2>3. ASSUME NEW v \in StackViews PROVE v \in Views
    <3>1. PICK f \in {making = "CREATE_IN_PROGRESS", FALSE} : v = [build |-> build, building |-> f]
      BY Zenon DEF StackViews
    <3>2. f \in BOOLEAN
      BY <2>2, <3>1, Zenon
    <3>3. QED BY <2>1, <3>1, <3>2, Zenon DEF Views
  <2>4. QED BY <2>1, <2>3
<1>1. ASSUME NEW r \in Deleters, FindImage(r) PROVE LookupTyped'
  BY <1>0, <1>1, Sorts DEF LookupTyped, FindImage, ByIdTag
<1>2. ASSUME NEW r \in Deleters, FindStack(r) \/ CheckBuilding(r) PROVE LookupTyped'
  <2>1. image' = image /\ (view' = view \/ \E w \in Views : view' = [view EXCEPT ![r] = w])
    BY <1>0, <1>2, Sorts DEF LookupTyped, FindStack, CheckBuilding
  <2>2. QED BY <1>0, <2>1 DEF LookupTyped
<1>3. ASSUME NEW r \in Deleters, DeregisterImage(r) PROVE LookupTyped'
  BY <1>0, <1>3, Sorts, CandidatesTyped DEF LookupTyped, DeregisterImage
<1>4. CASE UNCHANGED <<image, view>>
  BY <1>0, <1>4 DEF LookupTyped
<1>5. QED BY <1>1, <1>2, <1>3, <1>4, LookupsKept

\* Artifacts are uploaded by their build-image request, and removed by its
\* cleanup and by delete-image.
LEMMA ObjectsKept ==
  ASSUME Next
  PROVE  \/ UNCHANGED objects
         \/ \E r \in Creators : UploadConfig(r) \/ UploadArtifacts(r) \/ Cleanup(r)
         \/ \E r \in Deleters : DeleteArtifacts(r)
  BY DEF Next, Create, CheckImage, CheckStack, CreateStack, CreateStackFails,
     CreateStackAnswerLost, Delete, FindImage, FindStack, CheckUse, CheckBuilding, DeleteStack,
     DeregisterImage, DeleteSnapshots, DeleteLogGroup, Crash, Abort, Services, BuildStarts,
     ImageMade, Notify, BuildSucceeds, BuildFails, BuildCancelled, StackDeleted,
     StackDeletionFails, Handler, TagAmi, DeleteOwnStack, Redeliver, Drop

LEMMA StoreNext ==
  ASSUME StoreTyped, Next
  PROVE  StoreTyped'
<1>1. objects' \in [Builds -> SUBSET Files]
  <2>1. ASSUME NEW r \in Creators, UploadConfig(r) \/ UploadArtifacts(r)
        PROVE  objects' \in [Builds -> SUBSET Files]
    BY <2>1 DEF StoreTyped, UploadConfig, UploadArtifacts, Files
  <2>2. ASSUME NEW r, Cleanup(r) \/ DeleteArtifacts(r)
        PROVE  objects' \in [Builds -> SUBSET Files]
    BY <2>2 DEF StoreTyped, Cleanup, DeleteArtifacts, Wipe
  <2>3. QED BY <2>1, <2>2, ObjectsKept DEF StoreTyped
<1>2. logGroup' \in BOOLEAN
  BY DEF StoreTyped, Next, Create, CheckImage, CheckStack, UploadConfig, UploadArtifacts,
     CreateStack, CreateStackFails, CreateStackAnswerLost, Cleanup, Delete, FindImage, FindStack,
     CheckUse, CheckBuilding, DeleteStack, DeregisterImage, DeleteSnapshots, DeleteArtifacts,
     DeleteLogGroup, Crash, Abort, Services, BuildStarts, ImageMade, Notify, BuildSucceeds,
     BuildFails, BuildCancelled, StackDeleted, StackDeletionFails, Handler, TagAmi,
     DeleteOwnStack, Redeliver, Drop
<1>3. QED BY <1>1, <1>2 DEF StoreTyped

\* AMIs, snapshots and notifications.
LEMMA AmisKept ==
  ASSUME Next
  PROVE  \/ UNCHANGED <<ami, snapshots, note, mistagged, removers>>
         \/ \E r \in Deleters : DeleteStack(r) \/ DeregisterImage(r) \/ DeleteSnapshots(r)
         \/ ImageMade \/ Notify
         \/ \E b \in Creators : TagAmi(b) \/ DeleteOwnStack(b) \/ Redeliver(b) \/ Drop(b)
  BY DEF Next, Create, CheckImage, CheckStack, UploadConfig, UploadArtifacts, CreateStack,
     CreateStackFails, CreateStackAnswerLost, Cleanup, Delete, FindImage, FindStack, CheckUse,
     CheckBuilding, DeleteArtifacts, DeleteLogGroup, Crash, Abort, Services, BuildStarts,
     BuildSucceeds, BuildFails, BuildCancelled, StackDeleted, StackDeletionFails, Handler

\* A delete that has begun to remove a build has done so for ever.
LEMMA RemoversGrow ==
  ASSUME TypeOK, Next, NEW b \in Builds
  PROVE  removers[b] \subseteq removers'[b]
  BY AmisKept
     DEF DeleteStack, DeregisterImage, Removes, DeleteSnapshots, ImageMade, Notify, TagAmi,
         DeleteOwnStack, Redeliver, Drop

LEMMA AmiNext ==
  ASSUME TypeOK, Next
  PROVE  AmiTyped'
<1>0. AmiTyped /\ StackTyped /\ LookupTyped
  BY TypeParts
<1> USE <1>0, Sorts DEF AmiTyped
<1>1. ASSUME NEW r \in Deleters, DeleteStack(r) \/ DeleteSnapshots(r) PROVE AmiTyped'
  BY <1>1 DEF DeleteStack, Removes, DeleteSnapshots, StackTyped
<1>2. ASSUME NEW r \in Deleters, DeregisterImage(r) PROVE AmiTyped'
  BY <1>2, CandidatesTyped DEF DeregisterImage, Removes
<1>3. CASE ImageMade \/ Notify
  BY <1>3 DEF ImageMade, Notify, StackTyped, NONE
<1>4. ASSUME NEW b \in Creators, TagAmi(b) \/ DeleteOwnStack(b) \/ Redeliver(b) \/ Drop(b)
      PROVE  AmiTyped'
  BY <1>4 DEF TagAmi, DeleteOwnStack, Redeliver, Drop
<1>5. CASE UNCHANGED <<ami, snapshots, note, mistagged, removers>>
  BY <1>5
<1>6. QED BY <1>1, <1>2, <1>3, <1>4, <1>5, AmisKept

\* The stack is created once, deleted by name or by its Lambda, and otherwise
\* moved by CloudFormation.
LEMMA StackKept ==
  ASSUME Next
  PROVE  \/ UNCHANGED <<status, build, making, unanswered>>
         \/ \E r \in Creators : CreateStack(r) \/ CreateStackAnswerLost(r)
         \/ \E r \in Deleters : DeleteStack(r)
         \/ \E b \in Creators : DeleteOwnStack(b)
         \/ BuildStarts \/ BuildSucceeds \/ BuildFails
         \/ BuildCancelled \/ StackDeleted \/ StackDeletionFails
  BY DEF Next, Create, CheckImage, CheckStack, UploadConfig, UploadArtifacts, CreateStackFails,
     Cleanup, Delete, FindImage, FindStack, CheckUse, CheckBuilding, DeregisterImage,
     DeleteSnapshots, DeleteArtifacts, DeleteLogGroup, Crash, Abort, Services, ImageMade, Notify,
     Handler, TagAmi, Redeliver, Drop

LEMMA StackNext ==
  ASSUME StackTyped, Next
  PROVE  StackTyped'
<1> USE BuildsAssumption DEF StackTyped, NONE
<1>1. ASSUME NEW r \in Creators, CreateStack(r) \/ CreateStackAnswerLost(r) PROVE StackTyped'
  BY <1>1 DEF CreateStack, CreateStackAnswerLost, StackCreated
<1>2. ASSUME NEW r \in Deleters, DeleteStack(r) PROVE StackTyped'
  BY <1>2 DEF DeleteStack
<1>3. ASSUME NEW b \in Creators, DeleteOwnStack(b) PROVE StackTyped'
  BY <1>3 DEF DeleteOwnStack, OwnStack
<1>4. CASE \/ BuildStarts \/ BuildSucceeds \/ BuildFails \/ BuildCancelled \/ StackDeleted
           \/ StackDeletionFails
  BY <1>4 DEF BuildStarts, BuildSucceeds, BuildFails, BuildCancelled, StackDeleted,
              StackDeletionFails
<1>5. CASE UNCHANGED <<status, build, making, unanswered>>
  BY <1>5
<1>6. QED BY <1>1, <1>2, <1>3, <1>4, <1>5, StackKept

LEMMA TypeNext ==
  ASSUME TypeOK, Ended, Next
  PROVE  TypeOK' /\ Ended'
<1>1. RequestTyped' /\ Ended'
  BY TypeParts, RequestNext
<1>2. LookupTyped' /\ StoreTyped' /\ AmiTyped' /\ StackTyped'
  BY TypeParts, LookupNext, StoreNext, AmiNext, StackNext
<1>3. TypeOK'
  BY <1>1, <1>2, TypeParts, PTL
<1>4. QED BY <1>1, <1>3

-----------------------------------------------------------------------------
(* AMIs that can be found *)

\* A stack begins to go only when its AMI is tagged, mistagged or given up, and
\* an AMI is made only by a stack that builds.
LEMMA ReachNext ==
  ASSUME TypeOK, Tagged, ImagesReachable, Next
  PROVE  Tagged' /\ ImagesReachable'
<1>0. AmiTyped /\ StackTyped /\ AmiTyped'
  BY TypeParts, AmiNext
<1> USE <1>0, Sorts DEF Tagged, ImagesReachable, Excused
<1>1. CASE UNCHANGED <<ami, snapshots, note, mistagged, removers>>
  <2>1. ASSUME NEW r \in Creators, CreateStack(r) \/ CreateStackAnswerLost(r)
        PROVE  Tagged' /\ ImagesReachable'
    BY <1>1, <2>1 DEF CreateStack, CreateStackAnswerLost, StackCreated, StackTyped
  <2>2. CASE BuildStarts \/ BuildSucceeds \/ BuildFails \/ BuildCancelled \/ StackDeletionFails
    BY <1>1, <2>2 DEF BuildStarts, BuildSucceeds, BuildFails, BuildCancelled, StackDeletionFails
  <2>3. CASE StackDeleted
    BY <1>1, <2>3 DEF StackDeleted, StackTyped, NONE
  <2>4. CASE UNCHANGED <<status, build, making>>
    BY <1>1, <2>4
  <2>5. ASSUME NEW r \in Deleters, DeleteStack(r) PROVE Tagged' /\ ImagesReachable'
    <3>1. build \in Creators => removers[build] # {}
      BY <1>1, <2>5 DEF DeleteStack, Removes
    <3>2. QED BY <1>1, <2>5, <3>1 DEF DeleteStack
  <2>6. ASSUME NEW b \in Creators, DeleteOwnStack(b) PROVE Tagged' /\ ImagesReachable'
    BY <1>1, <2>6 DEF DeleteOwnStack, OwnStack
  <2>7. QED BY <2>1, <2>2, <2>3, <2>4, <2>5, <2>6, StackKept
<1>2. ASSUME NEW r \in Deleters, DeleteStack(r) PROVE Tagged' /\ ImagesReachable'
  <2>1. /\ UNCHANGED <<build, ami, note, mistagged>>
        /\ \A b \in Creators : removers[b] # {} => removers'[b] # {}
    BY <1>2, RemoversGrow DEF DeleteStack
  <2>2. build \in Creators => removers'[build] # {}
    BY <1>2 DEF DeleteStack, Removes
  <2>3. QED BY <2>1, <2>2
<1>3. ASSUME NEW r \in Deleters, DeregisterImage(r) PROVE Tagged' /\ ImagesReachable'
  <2>1. /\ UNCHANGED <<status, build, note, mistagged>>
        /\ \A b \in Creators : removers[b] # {} => removers'[b] # {}
    BY <1>3, RemoversGrow DEF DeregisterImage
  <2>2. \A b \in Creators : ami'[b] = ami[b] \/ (ami'[b] = "none" /\ removers'[b] # {})
    BY <1>3 DEF DeregisterImage, Removes, AmiTyped
  <2>3. QED BY <2>1, <2>2
<1>4. ASSUME NEW r \in Deleters, DeleteSnapshots(r) PROVE Tagged' /\ ImagesReachable'
  BY <1>4 DEF DeleteSnapshots
<1>5. CASE ImageMade
  <2>1. /\ build \in Creators /\ removers[build] = {} /\ ami[build] = "none"
        /\ status = "CREATE_IN_PROGRESS" /\ UNCHANGED <<status, build, note, mistagged, removers>>
        /\ \A b \in Creators \ {build} : ami'[b] = ami[b]
    BY <1>5 DEF ImageMade, StackTyped, AmiTyped, NONE
  <2>2. note[build] = "none" /\ ami'[build] = "made"
    BY <1>5, <2>1 DEF ImageMade, AmiTyped
  <2>3. QED BY <2>1, <2>2
<1>6. CASE Notify
  <2>1. /\ build \in Creators /\ ami[build] = "made"
        /\ UNCHANGED <<status, build, ami, mistagged, removers>>
        /\ note'[build] = "sent" /\ \A b \in Creators \ {build} : note'[b] = note[b]
    BY <1>6 DEF Notify, StackTyped, AmiTyped, NONE
  <2>2. QED BY <2>1
<1>7. ASSUME NEW b \in Creators, TagAmi(b) PROVE Tagged' /\ ImagesReachable'
  <2>1. /\ UNCHANGED <<status, build, removers>> /\ mistagged \subseteq mistagged'
        /\ note[b] = "sent" /\ \A c \in Creators \ {b} : note'[c] = note[c] /\ ami'[c] = ami[c]
    BY <1>7 DEF TagAmi, AmiTyped
  <2>2. \/ ami[b] # "none" /\ ami'[b] = "available"
        \/ ami'[b] = ami[b] /\ b \in mistagged'
    BY <1>7 DEF TagAmi, AmiTyped
  <2>3. QED BY <2>1, <2>2
<1>8. ASSUME NEW b \in Creators, DeleteOwnStack(b) PROVE Tagged' /\ ImagesReachable'
  <2>1. /\ UNCHANGED <<build, ami, mistagged, removers>>
        /\ note[b] = "tagged" /\ note'[b] = "handled"
        /\ \A c \in Creators \ {b} : note'[c] = note[c]
        /\ status' = status \/ build = b
    BY <1>8 DEF DeleteOwnStack, OwnStack, AmiTyped
  <2>2. QED BY <2>1
<1>9. ASSUME NEW b \in Creators, Redeliver(b) \/ Drop(b) PROVE Tagged' /\ ImagesReachable'
  <2>1. /\ UNCHANGED <<status, build, ami, mistagged, removers>>
        /\ note[b] # "none" /\ note'[b] \in {"sent", "handled"}
        /\ \A c \in Creators \ {b} : note'[c] = note[c]
    BY <1>9 DEF Redeliver, Drop, AmiTyped
  <2>2. QED BY <2>1
<1>10. QED BY <1>1, <1>2, <1>3, <1>4, <1>5, <1>6, <1>7, <1>8, <1>9, AmisKept

-----------------------------------------------------------------------------
(* Requests that others leave alone *)

LEMMA OthersKept ==
  ASSUME TypeOK, Next, NEW r \in Requests
  PROVE  \/ pc'[r] = pc[r] /\ result'[r] = result[r]
         \/ r \in Creators /\ Create(r)
         \/ r \in Deleters /\ Delete(r)
         \/ Crash(r) \/ Abort(r)
<1>0. RequestTyped
  BY TypeParts
<1>1. ASSUME NEW q \in Requests, Moves(q), q # r
      PROVE  pc'[r] = pc[r] /\ result'[r] = result[r]
  BY <1>0, <1>1 DEF Moves, RequestTyped
<1>2. CASE Services \/ \E b \in Creators : Handler(b)
  BY <1>2 DEF Services, BuildStarts, ImageMade, Notify, BuildSucceeds, BuildFails,
     BuildCancelled, StackDeleted, StackDeletionFails, Handler, TagAmi, DeleteOwnStack, Redeliver,
     Drop
<1>3. QED BY <1>1, <1>2, MovesOne, Sorts DEF Next

LEMMA OwnLookups ==
  ASSUME TypeOK, Next, NEW r \in Requests
  PROVE  \/ image'[r] = image[r] /\ view'[r] = view[r]
         \/ FindImage(r) \/ FindStack(r) \/ CheckBuilding(r) \/ DeregisterImage(r)
<1>0. LookupTyped
  BY TypeParts
<1>1. ASSUME NEW q \in Deleters, q # r,
             FindImage(q) \/ FindStack(q) \/ CheckBuilding(q) \/ DeregisterImage(q)
      PROVE  image'[r] = image[r] /\ view'[r] = view[r]
  BY <1>0, <1>1 DEF LookupTyped, FindImage, FindStack, CheckBuilding, DeregisterImage
<1>2. QED BY <1>1, LookupsKept

\* A request that is done stays as it is.
LEMMA DoneKept ==
  ASSUME TypeOK, Next, NEW r \in Requests, pc[r] = "done"
  PROVE  UNCHANGED <<pc[r], result[r], image[r], view[r]>>
<1>1. ~(Create(r) \/ Delete(r) \/ Crash(r) \/ Abort(r))
  BY MovesOne DEF Moves
<1>2. QED BY <1>1, OthersKept, OwnLookups DEF Delete

-----------------------------------------------------------------------------
(* Snapshots *)

Owner(r, b) == image[r] = b /\ (pc[r] = "snapshots" \/ result[r] \in {"failed", "crashed"})

\* Who owes the removal of snapshots owes it until it has removed them.
LEMMA OwnerStays ==
  ASSUME TypeOK, Ended, Next, NEW r \in Deleters, NEW b, Owner(r, b)
  PROVE  Owner(r, b)' \/ DeleteSnapshots(r)
<1>0. r \in Requests /\ r \notin Creators
  BY Sorts
<1>1. CASE result[r] \in {"failed", "crashed"}
  <2>1. pc[r] = "done"
    BY <1>0, <1>1 DEF Ended
  <2>2. QED BY <1>0, <1>1, <2>1, DoneKept DEF Owner
<1>2. CASE pc[r] = "snapshots"
  <2>1. image'[r] = image[r]
    BY <1>0, <1>2, OwnLookups DEF FindImage, FindStack, CheckBuilding, DeregisterImage
  <2>2. \/ pc'[r] = pc[r] \/ DeleteSnapshots(r) \/ Crash(r) \/ Abort(r)
    BY <1>0, <1>2, OthersKept
       DEF Delete, FindImage, FindStack, CheckUse, CheckBuilding, DeleteStack, DeregisterImage,
           DeleteArtifacts, DeleteLogGroup
  <2>3. ASSUME Crash(r) \/ Abort(r) PROVE result'[r] \in {"failed", "crashed"}
    BY <1>0, <2>3 DEF Crash, Abort, End, TypeOK
  <2>4. QED BY <1>2, <2>1, <2>2, <2>3 DEF Owner
<1>3. QED BY <1>1, <1>2 DEF Owner

LEMMA SnapshotsNext ==
  ASSUME TypeOK, Ended, SnapshotsOwned, Next
  PROVE  SnapshotsOwned'
<1>0. AmiTyped /\ StackTyped /\ LookupTyped /\ RequestTyped
  BY TypeParts
<1>1. SUFFICES ASSUME NEW b \in Builds, b \in snapshots', ami'[b] = "none"
               PROVE  \E r \in Deleters : Owner(r, b)'
  BY DEF SnapshotsOwned, Owner
<1>2. CASE b \in snapshots /\ ami[b] = "none"
  <2>1. PICK r \in Deleters : Owner(r, b)
    BY <1>2 DEF SnapshotsOwned, Owner
  <2>2. ~DeleteSnapshots(r)
    BY <1>1, <2>1 DEF DeleteSnapshots, Owner
  <2>3. QED BY <2>1, <2>2, OwnerStays
<1>3. CASE ~(b \in snapshots /\ ami[b] = "none")
  <2>1. PICK r \in Deleters : DeregisterImage(r)
    BY <1>0, <1>1, <1>3, AmisKept, Sorts
       DEF AmiTyped, StackTyped, DeleteStack, DeleteSnapshots, ImageMade, Notify, TagAmi,
           DeleteOwnStack, Redeliver, Drop, NONE
  <2>2. image'[r] = b /\ pc'[r] = "snapshots"
    BY <1>0, <1>1, <1>3, <2>1, Sorts
       DEF DeregisterImage, AmiTyped, LookupTyped, RequestTyped, Goto
  <2>3. QED BY <2>2 DEF Owner
<1>4. QED BY <1>2, <1>3

-----------------------------------------------------------------------------
(***************************************************************************)
(* Artifacts: the invariants.                                              *)
(***************************************************************************)

\* The build-image request has called CloudFormation, or is over.
Begun(b) == pc[b] \in {"cleanup", "done"}

\* The build will have no stack any more, or one that is only deleted.
Torn(b) == Begun(b) /\ (build # b \/ status \in {"DELETE_IN_PROGRESS", "DELETE_FAILED"})

\* Something other than its own request refers to the build.
Known(b) ==
  \/ build = b \/ ami[b] # "none" \/ note[b] # "none" \/ removers[b] # {}
  \/ \E r \in Deleters : image[r] = b \/ view[r].build = b

Placed ==
  \A b \in Creators :
    /\ Known(b) => Begun(b)
    /\ pc[b] = "cleanup" /\ b \notin unanswered => build # b /\ ami[b] = "none"

Late == {"find_ami", "snapshots", "artifacts", "log_group", "log_group_leaked", "done"}

\* What is gone when a delete comes to a step, for the build that it removes.
StageOf(r, b) ==
  /\ r \in removers[b] => pc[r] \in Late
  /\ image[r] = b /\ pc[r] \in {"snapshots", "artifacts"} => ami[b] = "none" /\ removers[b] # {}
  /\ image[r] = NONE /\ view[r].build = b =>
       /\ pc[r] \in {"find_ami", "artifacts"} => Torn(b)
       /\ pc[r] = "artifacts" => ami[b] = "none"
  /\ pc[r] = "log_group" /\ ArtifactDir(r) = b => objects[b] = {}

Stages ==
  \A r \in Deleters :
    /\ pc[r] = "new" => image[r] = NONE
    /\ pc[r] = "snapshots" => image[r] # NONE
    /\ \A b \in Creators : StageOf(r, b)

\* The build is over: its AMI will not come back.
Over(b) ==
  ami[b] = "none" /\ (Torn(b) \/ (removers[b] # {} /\ \E r \in Deleters : image[r] = b))

KeptOf(b) ==
  /\ pc[b] \in {"new", "check_stack", "upload_config", "upload_artifacts", "create_stack",
                "cleanup", "done"}
  /\ pc[b] \in {"new", "check_stack", "upload_config"} => objects[b] = {}
  /\ pc[b] = "upload_artifacts" => "config" \in objects[b]
  /\ pc[b] \in {"create_stack", "cleanup", "done"} /\ b \notin unanswered
       => objects[b] = Files \/ Over(b)

Kept == \A b \in Creators : KeptOf(b)

Gone(b) == objects[b] = {} \/ \E r \in removers[b] : Unfinished(r, b)

OwnedOf(b) ==
  /\ note[b] # "none" => ami[b] # "none" \/ Gone(b)
  /\ status = "DELETE_IN_PROGRESS" /\ build = b => ami[b] # "none" \/ Gone(b)
  /\ pc[b] = "done" => \/ build = b \/ ami[b] # "none"
                       \/ result[b] \in {"crashed", "leaked", "not_uploaded"}
                       \/ Gone(b)

Owned == \A b \in Creators : OwnedOf(b)

Story == Placed /\ Stages /\ Kept /\ Owned

\* No request has begun.
LEMMA StoryInit == Init => Story
<1> SUFFICES ASSUME Init PROVE Story
  OBVIOUS
<1> USE BuildsAssumption, Sorts DEF Init, Builds, Requests
<1>1. Placed
  BY DEF Placed, Known, NoView
<1>2. Stages
  BY DEF Stages, StageOf, NoView
<1>3. Kept /\ Owned
  BY DEF Kept, KeptOf, Owned, OwnedOf, Gone
<1>4. QED BY <1>1, <1>2, <1>3 DEF Story

-----------------------------------------------------------------------------
(* What a step may do to one build *)

\* A stack appears by the create_stack of its own request.
LEMMA BuildAppears ==
  ASSUME TypeOK, Next, NEW b \in Creators, build' = b, build # b
  PROVE  pc[b] = "create_stack" /\ Begun(b)' /\ status' = "CREATE_IN_PROGRESS"
<1>0. RequestTyped /\ b # NONE /\ b \in Requests
  BY TypeParts, Sorts
<1>1. PICK r \in Creators : CreateStack(r) \/ CreateStackAnswerLost(r)
  BY <1>0, StackKept
     DEF DeleteStack, DeleteOwnStack, BuildStarts, BuildSucceeds, BuildFails, BuildCancelled,
         StackDeleted, StackDeletionFails
<1>2. r = b
  BY <1>1 DEF CreateStack, CreateStackAnswerLost, StackCreated
<1>3. QED
  BY <1>0, <1>1, <1>2
     DEF CreateStack, CreateStackAnswerLost, StackCreated, Begun, Goto, End, RequestTyped

\* An AMI appears in a stack that builds and that no delete has begun to remove.
LEMMA AmiAppears ==
  ASSUME TypeOK, Next, NEW b \in Creators, ami[b] = "none", ami'[b] # "none"
  PROVE  build = b /\ status = "CREATE_IN_PROGRESS" /\ removers[b] = {}
<1>0. AmiTyped /\ StackTyped /\ b \in Builds
  BY TypeParts, Sorts
<1>1. ASSUME NEW c \in Creators, TagAmi(c) PROVE FALSE
  BY <1>0, <1>1 DEF TagAmi, AmiTyped
<1>2. ImageMade
  BY <1>0, <1>1, AmisKept
     DEF DeleteStack, DeregisterImage, DeleteSnapshots, Notify, DeleteOwnStack, Redeliver, Drop,
         AmiTyped
<1>3. QED BY <1>0, <1>2 DEF ImageMade, AmiTyped

\* An AMI goes by the deregistration of a delete, which then owes the rest.
LEMMA AmiGoes ==
  ASSUME TypeOK, Next, NEW b \in Creators, ami[b] # "none", ami'[b] = "none"
  PROVE  \E r \in Deleters : r \in removers'[b] /\ pc'[r] = "snapshots"
<1>0. AmiTyped /\ RequestTyped /\ LookupTyped /\ b \in Builds /\ Deleters \subseteq Requests
  BY TypeParts, Sorts
<1>1. PICK r \in Deleters : DeregisterImage(r)
  BY <1>0, AmisKept
     DEF DeleteStack, DeleteSnapshots, ImageMade, Notify, TagAmi, DeleteOwnStack, Redeliver, Drop,
         AmiTyped
<1>2. QED BY <1>0, <1>1 DEF DeregisterImage, Removes, Goto, AmiTyped, RequestTyped

\* The first notification tells of an AMI.
LEMMA NoteAppears ==
  ASSUME TypeOK, Next, NEW b \in Creators, note[b] = "none", note'[b] # "none"
  PROVE  ami[b] # "none" /\ ami'[b] # "none"
<1>0. AmiTyped /\ b \in Builds
  BY TypeParts, Sorts
<1>1. ASSUME NEW c \in Creators, TagAmi(c) \/ DeleteOwnStack(c) \/ Redeliver(c) \/ Drop(c)
      PROVE  FALSE
  BY <1>0, <1>1 DEF TagAmi, DeleteOwnStack, Redeliver, Drop, AmiTyped
<1>2. Notify
  BY <1>0, <1>1, AmisKept
     DEF DeleteStack, DeregisterImage, DeleteSnapshots, ImageMade, AmiTyped
<1>3. QED BY <1>0, <1>2 DEF Notify, AmiTyped

\* A delete begins to remove a build by its stack or by its AMI.
LEMMA RemoverAppears ==
  ASSUME TypeOK, Next, NEW b \in Creators, NEW r, r \in removers'[b], r \notin removers[b]
  PROVE  r \in Deleters /\ Known(b) /\ pc'[r] \in {"find_ami", "snapshots"}
<1>0. AmiTyped /\ RequestTyped /\ b \in Builds /\ Deleters \subseteq Requests
  BY TypeParts, Sorts
<1>1. PICK q \in Deleters : DeleteStack(q) \/ DeregisterImage(q)
  BY <1>0, AmisKept
     DEF DeleteSnapshots, ImageMade, Notify, TagAmi, DeleteOwnStack, Redeliver, Drop
<1>2. r = q
  BY <1>0, <1>1 DEF DeleteStack, DeregisterImage, Removes
<1>3. CASE DeleteStack(q)
  BY <1>0, <1>2, <1>3 DEF DeleteStack, Removes, Goto, RequestTyped, Known
<1>4. CASE DeregisterImage(q)
  <2>1. ami[b] # "none" /\ pc'[q] = "snapshots"
    BY <1>0, <1>2, <1>4 DEF DeregisterImage, Removes, Goto, RequestTyped
  <2>2. QED BY <1>2, <2>1 DEF Known
<1>5. QED BY <1>1, <1>3, <1>4

\* A delete looks up what exists.
LEMMA LookupAppears ==
  ASSUME TypeOK, Next, NEW b \in Creators, NEW r \in Deleters,
         \/ image'[r] = b /\ image[r] # b
         \/ view'[r].build = b /\ view[r].build # b
  PROVE  build = b \/ ami[b] # "none"
<1>0. LookupTyped /\ r \in Requests /\ b # NONE
  BY TypeParts, Sorts
<1>1. CASE FindImage(r)
  BY <1>0, <1>1 DEF FindImage, ByIdTag, LookupTyped
<1>2. CASE DeregisterImage(r)
  BY <1>0, <1>2 DEF DeregisterImage, LookupTyped
<1>3. ASSUME FindStack(r) \/ CheckBuilding(r) PROVE build = b
  <2>1. image' = image
    BY <1>3 DEF FindStack, CheckBuilding
  <2>2. \E v : view' = [view EXCEPT ![r] = v] /\ (v = view[r] \/ v \in StackViews)
    BY <1>0, <1>3, <2>1 DEF FindStack, CheckBuilding
  <2>3. \A v \in StackViews : v.build = build
    BY DEF StackViews
  <2>4. QED BY <1>0, <2>1, <2>2, <2>3 DEF LookupTyped
<1>4. QED BY <1>0, <1>1, <1>2, <1>3, OwnLookups

\* Artifacts are uploaded before the stack, and disappear by the cleanup of
\* their own request or by a delete that has looked the build up.
LEMMA ObjectsChange ==
  ASSUME TypeOK, Next, NEW b \in Creators, objects'[b] # objects[b]
  PROVE  \/ UploadConfig(b) \/ UploadArtifacts(b)
         \/ Cleanup(b) /\ objects'[b] = {}
         \/ /\ objects'[b] = {}
            /\ \E r \in Deleters : pc[r] = "artifacts" /\ ArtifactDir(r) = b
<1>0. StoreTyped /\ b \in Builds
  BY TypeParts, Sorts
<1>1. ASSUME NEW r \in Creators, UploadConfig(r) \/ UploadArtifacts(r) PROVE r = b
  BY <1>0, <1>1 DEF UploadConfig, UploadArtifacts, StoreTyped
<1>2. ASSUME NEW r \in Creators, Cleanup(r) PROVE r = b /\ objects'[b] = {}
  BY <1>0, <1>2 DEF Cleanup, Wipe, StoreTyped
<1>3. ASSUME NEW r \in Deleters, DeleteArtifacts(r)
      PROVE  pc[r] = "artifacts" /\ ArtifactDir(r) = b /\ objects'[b] = {}
  BY <1>0, <1>3 DEF DeleteArtifacts, Wipe, StoreTyped
<1>4. QED BY <1>1, <1>2, <1>3, ObjectsKept

\* A delete that nobody moves keeps what it has looked up.
LEMMA DeleterSteps ==
  ASSUME TypeOK, Next, NEW r \in Deleters
  PROVE  \/ pc'[r] = pc[r] /\ result'[r] = result[r] /\ image'[r] = image[r] /\ view'[r] = view[r]
         \/ Delete(r) \/ Crash(r) \/ Abort(r)
<1>1. r \in Requests /\ r \notin Creators
  BY Sorts
<1>2. QED BY <1>1, OthersKept, OwnLookups DEF Delete

LEMMA BegunStays ==
  ASSUME TypeOK, Next, NEW b \in Creators, Begun(b)
  PROVE  Begun(b)'
<1>0. RequestTyped /\ b \in Requests /\ b \notin Deleters
  BY TypeParts, Sorts
<1>1. CASE pc[b] = "done"
  BY <1>0, <1>1, DoneKept DEF Begun
<1>2. CASE pc[b] = "cleanup"
  <2>1. pc'[b] = pc[b] \/ Cleanup(b) \/ Crash(b)
    BY <1>0, <1>2, OthersKept
       DEF Abort, Create, CheckImage, CheckStack, UploadConfig, UploadArtifacts, CreateStack,
           CreateStackFails, CreateStackAnswerLost
  <2>2. QED BY <1>0, <1>2, <2>1 DEF Begun, Cleanup, Crash, End, RequestTyped
<1>3. QED BY <1>1, <1>2 DEF Begun

LEMMA TornStays ==
  ASSUME TypeOK, Next, NEW b \in Creators, Torn(b)
  PROVE  Torn(b)'
<1>0. Begun(b)' /\ StackTyped /\ b # NONE
  BY BegunStays, TypeParts, Sorts DEF Torn
<1>1. CASE build # b
  BY <1>0, <1>1, BuildAppears DEF Torn, Begun
<1>2. CASE build = b /\ status \in {"DELETE_IN_PROGRESS", "DELETE_FAILED"}
  <2>1. build' # b \/ status' \in {"DELETE_IN_PROGRESS", "DELETE_FAILED"}
    BY <1>0, <1>2, StackKept
       DEF CreateStack, CreateStackAnswerLost, StackCreated, DeleteStack, DeleteOwnStack,
           BuildStarts, BuildSucceeds, BuildFails, BuildCancelled, StackDeleted,
           StackDeletionFails, NONE
  <2>2. QED BY <1>0, <2>1 DEF Torn
<1>3. QED BY <1>1, <1>2 DEF Torn

LEMMA UnansweredStays ==
  ASSUME Next
  PROVE  unanswered \subseteq unanswered'
  BY StackKept
     DEF CreateStack, CreateStackAnswerLost, DeleteStack, DeleteOwnStack, BuildStarts,
         BuildSucceeds, BuildFails, BuildCancelled, StackDeleted, StackDeletionFails

-----------------------------------------------------------------------------
(* Artifacts: the steps *)

\* Whatever refers to a build comes after its create_stack.
LEMMA PlacedNext ==
  ASSUME TypeOK, Placed, Next
  PROVE  Placed'
<1>1. SUFFICES ASSUME NEW b \in Creators
               PROVE  /\ Known(b)' => Begun(b)'
                      /\ pc'[b] = "cleanup" /\ b \notin unanswered'
                           => build' # b /\ ami'[b] = "none"
  BY DEF Placed
<1>0. RequestTyped /\ b \in Requests /\ b \notin Deleters /\ b \in Builds
  BY TypeParts, Sorts
<1>2. Known(b)' => Begun(b)'
  <2>1. CASE Known(b)
    BY <2>1, BegunStays DEF Placed
  <2>2. CASE ~Known(b)
    <3>1. build' = b => Begun(b)'
      BY <2>2, BuildAppears DEF Known
    <3>2. ami'[b] = "none"
      BY <2>2, AmiAppears DEF Known
    <3>3. note'[b] = "none"
      BY <2>2, NoteAppears DEF Known
    <3>4. removers'[b] = {}
      BY <2>2, RemoverAppears DEF Known
    <3>5. \A r \in Deleters : image'[r] # b /\ view'[r].build # b
      BY <2>2, LookupAppears DEF Known
    <3>6. QED BY <3>1, <3>2, <3>3, <3>4, <3>5 DEF Known
  <2>3. QED BY <2>1, <2>2
<1>3. ASSUME pc'[b] = "cleanup", b \notin unanswered' PROVE build' # b /\ ami'[b] = "none"
  <2>1. CASE pc[b] = "cleanup"
    <3>1. build # b /\ ami[b] = "none"
      BY <1>3, <2>1, UnansweredStays DEF Placed
    <3>2. QED BY <2>1, <3>1, BuildAppears, AmiAppears
  <2>2. CASE pc[b] # "cleanup"
    <3>1. CreateStackFails(b) \/ CreateStackAnswerLost(b)
      BY <1>0, <1>3, <2>2, OthersKept
         DEF Crash, Abort, Create, CheckImage, CheckStack, UploadConfig, UploadArtifacts,
             CreateStack, Cleanup, Goto, End, RequestTyped
    <3>2. CreateStackFails(b)
      BY <1>3, <3>1 DEF CreateStackAnswerLost
    <3>3. ~Known(b)
      BY <3>2 DEF CreateStackFails, Placed, Begun
    <3>4. QED BY <3>2, <3>3 DEF CreateStackFails, Known
  <2>3. QED BY <2>1, <2>2
<1>4. QED BY <1>2, <1>3

\* A delete removes the stack first, then the AMI, then the artifacts.
LEMMA StagesNext ==
  ASSUME TypeOK, Ended, Placed, Stages, Next
  PROVE  Stages'
<1>1. SUFFICES ASSUME NEW r \in Deleters
               PROVE  /\ pc'[r] = "new" => image'[r] = NONE
                      /\ pc'[r] = "snapshots" => image'[r] # NONE
                      /\ \A b \in Creators : StageOf(r, b)'
  BY DEF Stages
<1>0. /\ RequestTyped /\ LookupTyped /\ StackTyped /\ AmiTyped /\ StoreTyped
      /\ r \in Requests /\ r \notin Creators /\ Creators \subseteq Builds /\ NONE \notin Builds
  BY TypeParts, Sorts
<1>2. (pc'[r] = "new" => image'[r] = NONE) /\ (pc'[r] = "snapshots" => image'[r] # NONE)
  <2>1. CASE Delete(r)
    BY <1>0, <2>1, CandidatesTyped
       DEF Delete, FindImage, FindStack, CheckUse, CheckBuilding, DeleteStack, DeregisterImage,
           DeleteSnapshots, DeleteArtifacts, DeleteLogGroup, Goto, End, RequestTyped, LookupTyped
  <2>2. CASE Crash(r) \/ Abort(r)
    BY <1>0, <2>2 DEF Crash, Abort, End, RequestTyped
  <2>3. QED BY <2>1, <2>2, DeleterSteps DEF Stages
<1>3. ASSUME NEW b \in Creators, r \in removers'[b] PROVE pc'[r] \in Late
  <2>1. CASE r \notin removers[b]
    BY <1>3, <2>1, RemoverAppears DEF Late
  <2>2. CASE r \in removers[b]
    <3>1. pc[r] \in Late
      BY <2>2 DEF Stages, StageOf
    <3>2. CASE Delete(r)
      BY <1>0, <3>1, <3>2
         DEF Late, Delete, FindImage, FindStack, CheckUse, CheckBuilding, DeleteStack,
             DeregisterImage, DeleteSnapshots, DeleteArtifacts, DeleteLogGroup, Goto, End,
             RequestTyped
    <3>3. CASE Crash(r) \/ Abort(r)
      BY <1>0, <3>3 DEF Crash, Abort, End, RequestTyped, Late
    <3>4. QED BY <3>1, <3>2, <3>3, DeleterSteps
  <2>3. QED BY <2>1, <2>2
<1>4. ASSUME NEW b \in Creators, image'[r] = b, pc'[r] \in {"snapshots", "artifacts"}
      PROVE  ami'[b] = "none" /\ removers'[b] # {}
  <2>1. CASE DeregisterImage(r)
    <3>1. pc'[r] # "done" /\ b # NONE
      BY <1>0, <1>4
    <3>2. CASE Candidates(r) = {} /\ image' = image
      BY <1>4, <3>1, <3>2 DEF Candidates
    <3>3. CASE ~(Candidates(r) = {} /\ image' = image)
      <4>1. PICK c \in Candidates(r) :
              /\ ami' = [ami EXCEPT ![c] = "none"] /\ image' = [image EXCEPT ![r] = c]
              /\ Removes(r, c)
        BY <1>0, <2>1, <3>1, <3>3 DEF DeregisterImage, End, RequestTyped
      <4>2. c = b
        BY <1>0, <1>4, <4>1 DEF LookupTyped
      <4>3. ami'[b] = "none"
        BY <1>0, <4>1, <4>2 DEF AmiTyped
      <4>4. r \in removers'[b]
        BY <1>0, <4>1, <4>2 DEF Removes
      <4>5. QED BY <4>3, <4>4
    <3>4. QED BY <3>2, <3>3
  <2>2. CASE ~DeregisterImage(r)
    <3>1. image[r] = b /\ pc[r] \in {"snapshots", "artifacts"}
      <4>1. CASE Delete(r)
        BY <1>0, <1>4, <2>2, <4>1
           DEF Delete, FindImage, FindStack, CheckUse, CheckBuilding, DeleteStack,
               DeleteSnapshots, DeleteArtifacts, DeleteLogGroup, Goto, End, RequestTyped
      <4>2. CASE Crash(r) \/ Abort(r)
        BY <1>0, <1>4, <4>2 DEF Crash, Abort, End, RequestTyped
      <4>3. QED BY <1>4, <4>1, <4>2, DeleterSteps
    <3>2. ami[b] = "none" /\ removers[b] # {}
      BY <3>1 DEF Stages, StageOf
    <3>3. QED BY <1>0, <3>2, AmiAppears, RemoversGrow
  <2>3. QED BY <2>1, <2>2
<1>5. ASSUME NEW b \in Creators, image'[r] = NONE, view'[r].build = b,
             pc'[r] \in {"find_ami", "artifacts"}
      PROVE  Torn(b)' /\ (pc'[r] = "artifacts" => ami'[b] = "none")
  <2>1. CASE CheckBuilding(r)
    <3>1. view'[r] = view[r] /\ status = NONE /\ UNCHANGED stackVars /\ pc'[r] = "find_ami"
      BY <1>0, <1>5, <2>1 DEF CheckBuilding, Goto, End, RequestTyped
    <3>2. Torn(b)
      BY <1>0, <1>5, <3>1 DEF Placed, Known, Torn, StackTyped
    <3>3. QED BY <3>1, <3>2, TornStays
  <2>2. CASE DeleteStack(r)
    <3>1. view' = view /\ pc'[r] = "find_ami" /\ build' = build
          /\ (build = b => status' = "DELETE_IN_PROGRESS")
      BY <1>0, <2>2 DEF DeleteStack, Goto, RequestTyped, StackTyped
    <3>2. Begun(b)'
      BY <1>5, <3>1, BegunStays DEF Placed, Known
    <3>3. QED BY <3>1, <3>2 DEF Torn
  <2>3. CASE DeregisterImage(r)
    <3>1. /\ pc[r] = "find_ami" /\ image[r] = NONE /\ view' = view /\ ByArnTag = {}
          /\ ami' = ami
      BY <1>0, <1>5, <2>3, CandidatesTyped
         DEF DeregisterImage, Candidates, Goto, End, RequestTyped, LookupTyped
    <3>2. Torn(b) /\ ami[b] = "none"
      BY <1>0, <1>5, <3>1 DEF Stages, StageOf, ByArnTag
    <3>3. QED BY <3>1, <3>2, TornStays
  <2>4. CASE ~CheckBuilding(r) /\ ~DeleteStack(r) /\ ~DeregisterImage(r)
    <3>1. pc'[r] = pc[r] /\ image'[r] = image[r] /\ view'[r] = view[r]
      <4>1. CASE Delete(r)
        BY <1>0, <1>5, <2>4, <4>1
           DEF Delete, FindImage, FindStack, CheckUse, DeleteSnapshots, DeleteArtifacts,
               DeleteLogGroup, Goto, End, RequestTyped, Stages
      <4>2. CASE Crash(r) \/ Abort(r)
        BY <1>0, <1>5, <4>2 DEF Crash, Abort, End, RequestTyped
      <4>3. QED BY <4>1, <4>2, DeleterSteps
    <3>2. Torn(b) /\ (pc[r] = "artifacts" => ami[b] = "none")
      BY <1>5, <3>1 DEF Stages, StageOf
    <3>3. QED BY <3>1, <3>2, TornStays, AmiAppears DEF Torn
  <2>5. QED BY <2>1, <2>2, <2>3, <2>4
<1>6. ASSUME NEW b \in Creators, pc'[r] = "log_group", ArtifactDir(r)' = b
      PROVE  objects'[b] = {}
  <2>1. CASE DeleteArtifacts(r)
    <3>1. UNCHANGED <<image, view>> /\ Wipe(ArtifactDir(r))
      BY <1>0, <1>6, <2>1 DEF DeleteArtifacts, Goto, RequestTyped
    <3>2. ArtifactDir(r) = b
      BY <1>6, <3>1 DEF ArtifactDir
    <3>3. QED BY <1>0, <3>1, <3>2 DEF Wipe, StoreTyped
  <2>2. CASE ~DeleteArtifacts(r)
    <3>1. pc[r] = "log_group" /\ image'[r] = image[r] /\ view'[r] = view[r]
      <4>1. CASE Delete(r)
        BY <1>0, <1>6, <2>2, <4>1
           DEF Delete, FindImage, FindStack, CheckUse, CheckBuilding, DeleteStack,
               DeregisterImage, DeleteSnapshots, DeleteLogGroup, Goto, End, RequestTyped
      <4>2. CASE Crash(r) \/ Abort(r)
        BY <1>0, <1>6, <4>2 DEF Crash, Abort, End, RequestTyped
      <4>3. QED BY <1>6, <4>1, <4>2, DeleterSteps
    <3>2. ArtifactDir(r) = b
      BY <1>6, <3>1 DEF ArtifactDir
    <3>3. objects[b] = {} /\ Known(b)
      BY <3>1, <3>2 DEF Stages, StageOf, Known, ArtifactDir
    <3>4. Begun(b)
      BY <3>3 DEF Placed
    <3>5. QED
      BY <3>3, <3>4, ObjectsChange DEF Begun, UploadConfig, UploadArtifacts
  <2>3. QED BY <2>1, <2>2
<1>7. ASSUME NEW b \in Creators PROVE StageOf(r, b)'
  BY <1>3, <1>4, <1>5, <1>6 DEF StageOf
<1>8. QED BY <1>2, <1>7

LEMMA OverStays ==
  ASSUME TypeOK, Stages, Next, NEW b \in Creators, Over(b)
  PROVE  Over(b)'
<1>0. LookupTyped /\ b \in Builds /\ b # NONE /\ Deleters \subseteq Requests
  BY TypeParts, Sorts
<1>1. CASE Torn(b)
  BY <1>1, TornStays, AmiAppears DEF Over, Torn
<1>2. CASE removers[b] # {} /\ \E r \in Deleters : image[r] = b
  <2>1. PICK r \in Deleters : image[r] = b
    BY <1>2
  <2>2. image'[r] = b
    <3>1. ~FindImage(r)
      BY <1>0, <2>1 DEF FindImage, Stages
    <3>2. DeregisterImage(r) => image'[r] = b
      BY <1>0, <2>1 DEF DeregisterImage, Candidates, LookupTyped
    <3>3. QED BY <1>0, <2>1, <3>1, <3>2, OwnLookups DEF FindStack, CheckBuilding
  <2>3. ami'[b] = "none" /\ removers'[b] # {}
    BY <1>0, <1>2, AmiAppears, RemoversGrow DEF Over
  <2>4. QED BY <2>2, <2>3 DEF Over
<1>3. QED BY <1>1, <1>2 DEF Over

\* The artifacts are complete when the stack is asked for, and are removed only
\* when the build is over.
LEMMA KeptNext ==
  ASSUME TypeOK, Ended, Placed, Stages, Kept, Next
  PROVE  Kept'
<1>1. SUFFICES ASSUME NEW b \in Creators PROVE KeptOf(b)'
  BY DEF Kept
<1>0. /\ RequestTyped /\ StoreTyped /\ b \in Builds /\ b \in Requests /\ b \notin Deleters
      /\ b # NONE
  BY TypeParts, Sorts
<1>2. ~Begun(b) => \/ objects'[b] = objects[b] \/ UploadConfig(b) \/ UploadArtifacts(b)
  <2>1. ~Begun(b) => \A r \in Deleters : ArtifactDir(r) # b
    BY DEF Placed, Known, ArtifactDir
  <2>2. QED BY <2>1, ObjectsChange DEF Begun, Cleanup
<1>3. ASSUME pc'[b] \in {"new", "check_stack", "upload_config"} PROVE objects'[b] = {}
  <2>1. /\ pc[b] \in {"new", "check_stack", "upload_config"}
        /\ ~UploadConfig(b) /\ ~UploadArtifacts(b)
    BY <1>0, <1>3, OthersKept
       DEF Crash, Abort, Create, CheckImage, CheckStack, UploadConfig, UploadArtifacts, CreateStack,
           CreateStackFails, CreateStackAnswerLost, Cleanup, Goto, End, RequestTyped
  <2>2. QED BY <1>2, <2>1 DEF Begun, Kept, KeptOf
<1>4. ASSUME pc'[b] = "upload_artifacts" PROVE "config" \in objects'[b]
  <2>1. CASE UploadConfig(b)
    BY <1>0, <1>4, <2>1 DEF UploadConfig, StoreTyped, End, RequestTyped
  <2>2. CASE ~UploadConfig(b)
    <3>1. pc[b] = "upload_artifacts" /\ ~UploadArtifacts(b)
      BY <1>0, <1>4, <2>2, OthersKept
         DEF Crash, Abort, Create, CheckImage, CheckStack, UploadArtifacts, CreateStack,
             CreateStackFails, CreateStackAnswerLost, Cleanup, Goto, End, RequestTyped
    <3>2. QED BY <1>2, <2>2, <3>1 DEF Begun, Kept, KeptOf
  <2>3. QED BY <2>1, <2>2
<1>5. ASSUME pc'[b] \in {"create_stack", "cleanup", "done"}, b \notin unanswered'
      PROVE  objects'[b] = Files \/ Over(b)'
  <2>0. b \notin unanswered
    BY <1>5, UnansweredStays
  <2>1. CASE pc[b] \notin {"create_stack", "cleanup", "done"}
    <3>1. ~Known(b)
      BY <2>1 DEF Placed, Begun
    <3>2. CASE pc'[b] = "create_stack"
      <4>1. UploadArtifacts(b)
        BY <1>0, <2>1, <3>2, OthersKept
           DEF Crash, Abort, Create, CheckImage, CheckStack, UploadConfig, CreateStack,
               CreateStackFails, CreateStackAnswerLost, Cleanup, Goto, End, RequestTyped
      <4>2. "config" \in objects[b]
        BY <4>1 DEF UploadArtifacts, Kept, KeptOf
      <4>3. objects'[b] = objects[b] \cup {"template"}
        BY <1>0, <3>2, <4>1 DEF UploadArtifacts, StoreTyped, End, RequestTyped
      <4>4. QED BY <1>0, <4>2, <4>3 DEF StoreTyped, Files
    <3>3. CASE pc'[b] # "create_stack"
      <4>1. build' # b /\ ami'[b] = "none"
        BY <2>1, <3>1, BuildAppears, AmiAppears DEF Known
      <4>2. QED BY <1>5, <3>3, <4>1 DEF Over, Torn, Begun
    <3>4. QED BY <3>2, <3>3
  <2>2. CASE pc[b] \in {"create_stack", "cleanup", "done"} /\ Over(b)
    BY <2>2, OverStays
  <2>3. CASE pc[b] \in {"create_stack", "cleanup", "done"} /\ ~Over(b)
    <3>1. objects[b] = Files
      BY <2>0, <2>3 DEF Kept, KeptOf
    <3>2. ~UploadConfig(b) /\ ~UploadArtifacts(b)
      BY <2>3 DEF UploadConfig, UploadArtifacts
    <3>3. ASSUME Cleanup(b) PROVE Over(b)
      BY <2>0, <3>3 DEF Cleanup, Placed, Over, Torn, Begun
    <3>4. ASSUME NEW r \in Deleters, pc[r] = "artifacts", ArtifactDir(r) = b PROVE Over(b)
      <4>1. CASE image[r] = b
        BY <3>4, <4>1 DEF Stages, StageOf, Over
      <4>2. CASE image[r] # b
        BY <1>0, <3>4, <4>2 DEF Stages, StageOf, Over, ArtifactDir
      <4>3. QED BY <4>1, <4>2
    <3>5. QED BY <2>3, <3>1, <3>2, <3>3, <3>4, ObjectsChange
  <2>4. QED BY <2>1, <2>2, <2>3
<1>6. pc'[b] \in {"new", "check_stack", "upload_config", "upload_artifacts", "create_stack",
                  "cleanup", "done"}
  <2>1. CASE pc'[b] = pc[b]
    BY <2>1 DEF Kept, KeptOf
  <2>2. CASE pc'[b] # pc[b]
    BY <1>0, <2>2, OthersKept
       DEF Crash, Abort, Create, CheckImage, CheckStack, UploadConfig, UploadArtifacts, CreateStack,
           CreateStackFails, CreateStackAnswerLost, Cleanup, Goto, End, RequestTyped
  <2>3. QED BY <2>1, <2>2
<1>7. QED BY <1>3, <1>4, <1>5, <1>6 DEF KeptOf

\* A delete that owes the artifacts owes them until it has removed them.
LEMMA GoneStays ==
  ASSUME TypeOK, Ended, Placed, Stages, Next, NEW b \in Creators, Gone(b), Begun(b)
  PROVE  Gone(b)'
<1>0. RequestTyped /\ AmiTyped /\ b \in Builds /\ Deleters \subseteq Requests
  BY TypeParts, Sorts
<1>1. CASE objects[b] = {}
  BY <1>1, ObjectsChange DEF Begun, UploadConfig, UploadArtifacts, Gone
<1>2. ASSUME NEW r \in removers[b], Unfinished(r, b) PROVE Gone(b)'
  <2>1. r \in Deleters /\ r \in Requests /\ r \in removers'[b]
    BY <1>0, RemoversGrow DEF AmiTyped
  <2>2. pc[r] \in Late
    BY <2>1 DEF Stages, StageOf
  <2>3. CASE pc[r] = "done"
    BY <1>2, <2>1, <2>3, DoneKept DEF Gone, Unfinished, ArtifactDir
  <2>4. CASE pc[r] # "done" /\ pc'[r] # "done"
    BY <2>1, <2>4 DEF Gone, Unfinished
  <2>5. CASE pc[r] # "done" /\ pc'[r] = "done"
    <3>1. CASE DeleteLogGroup(r)
      <4>1. UNCHANGED <<objects, image, view>>
        BY <3>1 DEF DeleteLogGroup
      <4>2. CASE pc[r] = "log_group"
        <5>1. ArtifactDir(r) # b \/ objects[b] = {}
          BY <2>1, <4>2 DEF Stages, StageOf
        <5>2. QED BY <2>1, <4>1, <5>1 DEF Gone, Unfinished, ArtifactDir
      <4>3. CASE pc[r] # "log_group"
        BY <1>0, <2>1, <3>1, <4>3 DEF DeleteLogGroup, End, RequestTyped, Gone, Unfinished
      <4>4. QED BY <4>2, <4>3
    <3>2. CASE ~DeleteLogGroup(r)
      <4>1. result'[r] \in {"failed", "crashed"}
        <5>1. CASE Delete(r)
          BY <1>0, <2>1, <2>2, <2>5, <3>2, <5>1
             DEF Late, Delete, FindImage, FindStack, CheckUse, CheckBuilding, DeleteStack,
                 DeregisterImage, DeleteSnapshots, DeleteArtifacts, Goto, End, RequestTyped
        <5>2. CASE Crash(r) \/ Abort(r)
          BY <1>0, <2>1, <5>2 DEF Crash, Abort, End, RequestTyped
        <5>3. QED BY <2>1, <2>5, <5>1, <5>2, DeleterSteps
      <4>2. QED BY <2>1, <4>1 DEF Gone, Unfinished
    <3>3. QED BY <3>1, <3>2
  <2>6. QED BY <2>3, <2>4, <2>5
<1>3. QED BY <1>1, <1>2 DEF Gone

\* When neither stack nor AMI is left, some request answers for the artifacts.
LEMMA OwnedNext ==
  ASSUME TypeOK, Ended, Placed, Stages, Kept, Owned, Next
  PROVE  Owned'
<1>1. SUFFICES ASSUME NEW b \in Creators PROVE OwnedOf(b)'
  BY DEF Owned
<1>0. /\ RequestTyped /\ StackTyped /\ StoreTyped /\ AmiTyped
      /\ b \in Builds /\ b \in Requests /\ b \notin Deleters /\ b # NONE
  BY TypeParts, Sorts
<1>2. Known(b) => Begun(b)
  BY DEF Placed
<1>3. ASSUME Known(b), ami[b] # "none" \/ Gone(b) PROVE ami'[b] # "none" \/ Gone(b)'
  <2>1. CASE Gone(b)
    BY <1>2, <1>3, <2>1, GoneStays
  <2>2. CASE ami[b] # "none" /\ ami'[b] = "none"
    BY <2>2, AmiGoes DEF Gone, Unfinished
  <2>3. QED BY <1>3, <2>1, <2>2
<1>4. ASSUME note'[b] # "none" PROVE ami'[b] # "none" \/ Gone(b)'
  <2>1. CASE note[b] = "none"
    BY <1>4, <2>1, NoteAppears
  <2>2. CASE note[b] # "none"
    BY <1>3, <2>2 DEF Known, Owned, OwnedOf
  <2>3. QED BY <2>1, <2>2
<1>5. ASSUME status' = "DELETE_IN_PROGRESS", build' = b PROVE ami'[b] # "none" \/ Gone(b)'
  <2>1. build = b
    BY <1>5, BuildAppears
  <2>2. CASE status = "DELETE_IN_PROGRESS"
    BY <1>3, <2>1, <2>2 DEF Known, Owned, OwnedOf
  <2>3. ASSUME NEW r \in Deleters, DeleteStack(r) PROVE Gone(b)'
    <3>1. r \in removers'[b] /\ pc'[r] # "done"
      BY <1>0, <2>1, <2>3, Sorts DEF DeleteStack, Removes, Goto, RequestTyped
    <3>2. QED BY <3>1 DEF Gone, Unfinished
  <2>4. ASSUME NEW c \in Creators, DeleteOwnStack(c), status # "DELETE_IN_PROGRESS"
        PROVE  ami'[b] # "none" \/ Gone(b)'
    <3>1. c = b /\ note[b] # "none"
      BY <1>5, <2>1, <2>4 DEF DeleteOwnStack, OwnStack
    <3>2. QED BY <1>3, <2>1, <3>1 DEF Known, Owned, OwnedOf
  <2>5. QED
    BY <1>5, <2>2, <2>3, <2>4, StackKept
       DEF CreateStack, CreateStackAnswerLost, StackCreated, BuildStarts, BuildSucceeds,
           BuildFails, BuildCancelled, StackDeleted, StackDeletionFails, NONE
<1>6. ASSUME pc'[b] = "done"
      PROVE  \/ build' = b \/ ami'[b] # "none"
             \/ result'[b] \in {"crashed", "leaked", "not_uploaded"}
             \/ Gone(b)'
  <2>1. CASE pc[b] = "done"
    <3>1. result'[b] = result[b]
      BY <1>0, <2>1, DoneKept
    <3>2. CASE build = b /\ build' # b
      <4>1. status = "DELETE_IN_PROGRESS"
        BY <1>0, <3>2, StackKept
           DEF CreateStack, CreateStackAnswerLost, StackCreated, DeleteStack, DeleteOwnStack,
               BuildStarts, BuildSucceeds, BuildFails, BuildCancelled, StackDeleted,
               StackDeletionFails, StackTyped
      <4>2. QED BY <1>3, <3>2, <4>1 DEF Known, Owned, OwnedOf
    <3>3. CASE ami[b] # "none"
      BY <1>3, <3>3 DEF Known
    <3>4. CASE Gone(b)
      BY <2>1, <3>4, GoneStays DEF Begun
    <3>5. QED BY <2>1, <3>1, <3>2, <3>3, <3>4 DEF Owned, OwnedOf
  <2>2. CASE pc[b] # "done"
    <3>1. \/ Crash(b) \/ Abort(b) \/ CheckImage(b) \/ CheckStack(b) \/ UploadConfig(b)
          \/ UploadArtifacts(b) \/ CreateStack(b) \/ Cleanup(b)
      BY <1>0, <1>6, <2>2, OthersKept
         DEF Create, CreateStackFails, CreateStackAnswerLost, Goto, RequestTyped
    <3>2. CASE Crash(b) \/ UploadConfig(b) \/ UploadArtifacts(b)
      BY <1>0, <1>6, <3>2 DEF Crash, UploadConfig, UploadArtifacts, Goto, End, RequestTyped
    <3>3. CASE CreateStack(b)
      BY <3>3 DEF CreateStack, StackCreated
    <3>4. CASE Cleanup(b)
      BY <1>0, <3>4 DEF Cleanup, Wipe, End, Gone, RequestTyped, StoreTyped
    <3>5. CASE CheckImage(b) \/ CheckStack(b)
      BY <3>5 DEF CheckImage, CheckStack, Kept, KeptOf, Gone
    <3>6. CASE Abort(b)
      <4>1. objects' = objects
        BY <3>6 DEF Abort
      <4>2. pc[b] = "check_stack"
        BY <3>6 DEF Abort, Kept, KeptOf
      <4>3. QED BY <4>1, <4>2 DEF Kept, KeptOf, Gone
    <3>7. QED BY <3>1, <3>2, <3>3, <3>4, <3>5, <3>6
  <2>3. QED BY <2>1, <2>2
<1>7. QED BY <1>4, <1>5, <1>6 DEF OwnedOf

-----------------------------------------------------------------------------
(* Theorems *)

\* Every step of the requests, of the services and of the Lambda keeps Inv.
THEOREM Invariance == Spec => []Inv
<1>1. Inv /\ [Next]_vars => Inv'
  <2>1. ASSUME Inv, Next PROVE Inv'
    BY <2>1, TypeNext, ReachNext, SnapshotsNext DEF Inv
  <2>2. ASSUME Inv, UNCHANGED vars PROVE Inv'
    <3>1. TypeOK' /\ Ended'
      BY <2>2 DEF vars, Inv, TypeOK, Ended
    <3>2. Tagged' /\ ImagesReachable' /\ SnapshotsOwned'
      BY <2>2 DEF vars, Inv, Tagged, Excused, ImagesReachable, SnapshotsOwned
    <3>3. QED BY <3>1, <3>2 DEF Inv
  <2>3. QED BY <2>1, <2>2
<1>2. QED BY <1>1, InvInit, PTL DEF Spec

\* The stack, the AMIs, the bucket and the requests keep their types.
THEOREM TypeCorrect == Spec => []TypeOK
<1>1. Inv => TypeOK
  BY DEF Inv
<1>2. QED BY <1>1, Invariance, PTL

\* delete-image finds every AMI that a build has made, unless the Lambda failed
\* to tag it or another delete has begun to remove it.
THEOREM Reachable == Spec => []ImagesReachable
<1>1. Inv => ImagesReachable
  BY DEF Inv
<1>2. QED BY <1>1, Invariance, PTL

\* Snapshots without an AMI are those of a delete that is about to remove them
\* or has failed to.
THEOREM SnapshotsHaveOwners == Spec => []SnapshotsOwned
<1>1. Inv => SnapshotsOwned
  BY DEF Inv
<1>2. QED BY <1>1, Invariance, PTL

\* Every step keeps the story of the artifacts.
LEMMA StoryInvariance == Spec => []Story
<1>1. Inv /\ Story /\ [Next]_vars => Story'
  <2>1. ASSUME Inv, Story, Next PROVE Story'
    BY <2>1, PlacedNext, StagesNext, KeptNext, OwnedNext DEF Inv, Story
  <2>2. ASSUME Story, UNCHANGED vars PROVE Story'
    <3>1. Placed' /\ Stages'
      BY <2>2 DEF vars, Story, Placed, Known, Begun, Stages, StageOf, Torn, ArtifactDir
    <3>2. Kept'
      BY <2>2 DEF vars, Story, Kept, KeptOf, Over, Torn, Begun
    <3>3. Owned'
      BY <2>2 DEF vars, Story, Owned, OwnedOf, Gone, Unfinished, ArtifactDir
    <3>4. QED BY <3>1, <3>2, <3>3 DEF Story
  <2>3. QED BY <2>1, <2>2
<1>2. QED BY <1>1, StoryInit, Invariance, PTL DEF Spec

\* The artifacts of a build are complete as long as its AMI is available or its
\* stack is neither deleted nor robbed of the AMI, unless the answer of
\* create_stack was lost.
THEOREM ArtifactsStay == Spec => []ArtifactsKept
<1>1. Story => ArtifactsKept
  <2> SUFFICES ASSUME Placed, Kept, NEW b \in Creators, objects[b] # Files, b \notin unanswered
               PROVE  /\ ami[b] # "available"
                      /\ build = b => \/ status \in {"DELETE_IN_PROGRESS", "DELETE_FAILED"}
                                      \/ ami[b] = "none" /\ \E r \in Deleters : image[r] = b
    BY DEF Story, ArtifactsKept
  <2>1. Known(b) => Over(b)
    BY DEF Placed, Begun, Kept, KeptOf
  <2>2. QED BY <2>1 DEF Known, Over, Torn
<1>2. QED BY <1>1, StoryInvariance, PTL

\* Artifacts without a stack and without an AMI are those of a build-image or a
\* delete-image that was interrupted, failed on the way or could not delete
\* them, for any number of requests.
THEOREM ArtifactsHaveOwners == Spec => []ArtifactsOwned
<1>1. Story => ArtifactsOwned
  BY DEF Story, Owned, OwnedOf, Gone, ArtifactsOwned
<1>2. QED BY <1>1, StoryInvariance, PTL

\* The stack of a later build is never deleted by the Lambda of an earlier one.
THEOREM DeletedByOwner == Spec => StackDeletedByOwner
<1>1. ASSUME TypeOK, [Next]_vars,
             status # "DELETE_IN_PROGRESS", status' = "DELETE_IN_PROGRESS"
      PROVE  \/ note[build] = "tagged" /\ note'[build] = "handled"
             \/ \E r \in Deleters : pc[r] = "delete_stack" /\ pc'[r] = "find_ami"
  <2>0. Next /\ AmiTyped /\ RequestTyped
    BY <1>1, TypeParts DEF vars
  <2>1. (\E r \in Deleters : DeleteStack(r)) \/ \E b \in Creators : DeleteOwnStack(b)
    BY <1>1, <2>0, StackKept
       DEF CreateStack, CreateStackAnswerLost, StackCreated, BuildStarts, BuildSucceeds,
           BuildFails, BuildCancelled, StackDeleted, StackDeletionFails, NONE
  <2>2. ASSUME NEW r \in Deleters, DeleteStack(r)
        PROVE  pc[r] = "delete_stack" /\ pc'[r] = "find_ami"
    BY <2>0, <2>2, Sorts DEF DeleteStack, Goto, RequestTyped
  <2>3. ASSUME NEW b \in Creators, DeleteOwnStack(b)
        PROVE  note[build] = "tagged" /\ note'[build] = "handled"
    BY <1>1, <2>0, <2>3, Sorts DEF DeleteOwnStack, OwnStack, AmiTyped
  <2>4. QED BY <2>1, <2>2, <2>3
<1>2. QED BY <1>1, TypeCorrect, PTL DEF Spec, StackDeletedByOwner

-----------------------------------------------------------------------------
(* Neighbours *)

\* A neighbour of which no delete has deregistered the AMI has everything, and
\* no delete has it in its hands.
Intact(b) ==
  /\ ami[b] = "available" /\ b \in snapshots /\ objects[b] = Files
  /\ \A r \in Requests : image[r] # b

NeighboursIntact == \A b \in Neighbours : removers[b] = {} => Intact(b)

LEMMA IntactNext ==
  ASSUME TypeOK, NeighboursIntact, Next
  PROVE  NeighboursIntact'
<1>0. AmiTyped /\ StackTyped /\ LookupTyped /\ StoreTyped
  BY TypeParts
<1>1. SUFFICES ASSUME NEW b \in Neighbours, removers'[b] = {} PROVE Intact(b)'
  BY DEF NeighboursIntact
<1>2. b \in Builds /\ b \notin Creators /\ b # NONE
  BY BuildsAssumption DEF Builds
<1>3. removers[b] = {} /\ Intact(b)
  BY <1>1, <1>2, RemoversGrow DEF NeighboursIntact
<1>4. ami'[b] = "available"
  <2>1. ASSUME NEW r \in Deleters, DeregisterImage(r) PROVE ami'[b] = ami[b]
    BY <1>0, <1>1, <1>2, <2>1 DEF DeregisterImage, Removes, AmiTyped
  <2>2. ASSUME ImageMade \/ \E c \in Creators : TagAmi(c) PROVE ami'[b] = ami[b]
    BY <1>0, <1>2, <2>2 DEF ImageMade, TagAmi, AmiTyped, StackTyped, NONE
  <2>3. ami'[b] = ami[b]
    BY <2>1, <2>2, AmisKept DEF DeleteStack, DeleteSnapshots, Notify, DeleteOwnStack, Redeliver, Drop
  <2>4. QED BY <1>3, <2>3 DEF Intact
<1>5. b \in snapshots'
  <2>1. ASSUME NEW r \in Deleters, DeleteSnapshots(r) PROVE b \in snapshots'
    BY <1>3, <2>1, Sorts DEF DeleteSnapshots, Intact
  <2>2. QED BY <1>3, <2>1, AmisKept
              DEF Intact, DeleteStack, DeregisterImage, ImageMade, Notify, TagAmi, DeleteOwnStack,
                  Redeliver, Drop
<1>6. objects'[b] = Files
  <2>1. ASSUME NEW r \in Creators, UploadConfig(r) \/ UploadArtifacts(r) \/ Cleanup(r)
        PROVE  objects'[b] = objects[b]
    BY <1>0, <1>2, <2>1 DEF UploadConfig, UploadArtifacts, Cleanup, Wipe, StoreTyped
  <2>2. ASSUME NEW r \in Deleters, DeleteArtifacts(r) PROVE objects'[b] = objects[b]
    <3>1. r \in Requests /\ view[r].build \in Creators \cup {NONE}
      BY <1>0, Sorts DEF LookupTyped, Views
    <3>2. ArtifactDir(r) # b
      BY <1>2, <1>3, <3>1 DEF ArtifactDir, Intact
    <3>3. QED BY <1>0, <1>2, <2>2, <3>2 DEF DeleteArtifacts, Wipe, StoreTyped
  <2>3. QED BY <1>3, <2>1, <2>2, ObjectsKept DEF Intact
<1>7. ASSUME NEW r \in Requests PROVE image'[r] # b
  <2>1. ASSUME NEW q \in Deleters, FindImage(q) PROVE image'[r] # b
    BY <1>0, <1>2, <1>3, <2>1, Sorts DEF FindImage, ByIdTag, Intact, LookupTyped
  <2>2. ASSUME NEW q \in Deleters, DeregisterImage(q) PROVE image'[r] # b
    BY <1>0, <1>1, <1>2, <1>3, <2>2, Sorts DEF DeregisterImage, Removes, Intact, LookupTyped
  <2>3. QED BY <1>3, <2>1, <2>2, LookupsKept DEF Intact, FindStack, CheckBuilding
<1>8. QED BY <1>4, <1>5, <1>6, <1>7 DEF Intact

\* A build of another id keeps its AMI, snapshots and artifacts as long as no
\* delete-image request has deregistered its AMI.
THEOREM NeighboursKept == Spec => []NeighboursIntact
<1>1. Init => NeighboursIntact
  BY BuildsAssumption DEF Init, NeighboursIntact, Intact, Builds, Requests
<1>2. TypeOK /\ NeighboursIntact /\ [Next]_vars => NeighboursIntact'
  <2>1. ASSUME NeighboursIntact, UNCHANGED vars PROVE NeighboursIntact'
    BY <2>1 DEF vars, NeighboursIntact, Intact
  <2>2. QED BY <2>1, IntactNext
<1>3. QED BY <1>1, <1>2, TypeCorrect, PTL DEF Spec

\* The one step that lays hands on a neighbour is the deregistration after the
\* lookup by the ARN pattern: neither the lookup by the id tag, nor the deletion
\* of the stack, nor a cleanup or the Lambda ever does.
THEOREM LostByPattern ==
  Spec => [][\A b \in Neighbours :
               removers[b] = {} /\ removers'[b] # {} =>
                 \E r \in Deleters : image[r] = NONE /\ b \in ByArnTag /\ DeregisterImage(r)]_vars
<1> DEFINE Pattern == \A b \in Neighbours :
             removers[b] = {} /\ removers'[b] # {} =>
               \E r \in Deleters : image[r] = NONE /\ b \in ByArnTag /\ DeregisterImage(r)
<1>1. ASSUME TypeOK, NeighboursIntact, [Next]_vars PROVE [Pattern]_vars
  <2>1. SUFFICES ASSUME Next, NEW b \in Neighbours, removers[b] = {} /\ removers'[b] # {}
                 PROVE  \E r \in Deleters : image[r] = NONE /\ b \in ByArnTag /\ DeregisterImage(r)
    BY <1>1
  <2>2. b \notin Creators /\ StackTyped /\ \A r \in Requests : image[r] # b
    BY <1>1, <2>1, TypeParts, BuildsAssumption DEF NeighboursIntact, Intact
  <2>3. PICK r \in Deleters : DeregisterImage(r)
    BY <2>1, <2>2, AmisKept, BuildsAssumption
       DEF DeleteStack, Removes, DeleteSnapshots, ImageMade, Notify, TagAmi, DeleteOwnStack,
           Redeliver, Drop, StackTyped, Builds
  <2>4. b \in Candidates(r)
    BY <2>1, <2>3 DEF DeregisterImage, Removes, Builds
  <2>5. image[r] = NONE /\ b \in ByArnTag
    BY <2>2, <2>4, Sorts DEF Candidates
  <2>6. QED BY <2>3, <2>5
<1>2. QED BY <1>1, TypeCorrect, NeighboursKept, PTL DEF Spec

=============================================================================
