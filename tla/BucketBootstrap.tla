--------------------------- MODULE BucketBootstrap ---------------------------
(***************************************************************************)
(* The regional bucket of ParallelCluster, shared by every cluster and     *)
(* every image of an account: S3BucketFactory creates and configures it on *)
(* first use.  Several processes may do so at the same time, any of them   *)
(* may fail or be interrupted between two calls, and the bucket may have   *)
(* been configured by an older version.  The bootstrapped file is the only *)
(* record of what was done.                                                *)
(***************************************************************************)
CONSTANT Processes        \* invocations that need the default bucket

VARIABLES
  exists,                 \* whether the bucket exists
  settings,               \* what has been configured on it
  bootstrapped,           \* the features listed in the bootstrapped file
  pc                      \* where each invocation is

vars == <<exists, settings, bootstrapped, pc>>

\* PCLUSTER_BUCKET_REQUIRED_BOOTSTRAP_FEATURES
Features == {"basic", "export-logs"}

Settings == {"versioning", "encryption", "policy", "export-policy"}

\* What a feature in the file stands for.
Requires(f) ==
  IF f = "basic" THEN {"versioning", "encryption", "policy"} ELSE {"export-policy"}

\* No bucket yet, or one left by a version that knew the basic feature only.
Init ==
  /\ \/ exists = FALSE /\ settings = {} /\ bootstrapped = {}
     \/ exists = TRUE /\ settings = Requires("basic") /\ bootstrapped = {"basic"}
  /\ pc = [p \in Processes |-> "start"]

Goto(p, label) == pc' = [pc EXCEPT ![p] = label]

\* check_bucket_exists
CheckExists(p) ==
  /\ pc[p] = "start"
  /\ Goto(p, IF exists THEN "check" ELSE "create")
  /\ UNCHANGED <<exists, settings, bootstrapped>>

\* _create_bucket: a bucket that another process has created in the meantime
\* is as good as its own.
CreateBucket(p) ==
  /\ pc[p] = "create"
  /\ exists' = TRUE
  /\ Goto(p, "check")
  /\ UNCHANGED <<settings, bootstrapped>>

\* check_bucket_is_bootstrapped: a file in the old format counts as the basic
\* feature, a missing one as none.
FileFound      == bootstrapped # {}                              \* mutant
IsBootstrapped == Features \subseteq bootstrapped

CheckBootstrapped(p) ==
  /\ pc[p] = "check"
  /\ Goto(p, IF IsBootstrapped THEN "ready" ELSE "versioning")
  /\ UNCHANGED <<exists, settings, bootstrapped>>

\* mutant: the file is uploaded before the policy is in place
FileBeforePolicy ==
  [versioning |-> "encryption", encryption |-> "file", file |-> "policy", policy |-> "ready"]

\* configure_s3_bucket, then upload_bootstrapped_file.
ConfigureOrder ==
  [versioning |-> "encryption", encryption |-> "policy", policy |-> "file", file |-> "ready"]

\* The policy covers the export of logs too, and replaces the one found.
Configured(step) == IF step = "policy" THEN {"policy", "export-policy"} ELSE {step}

Configure(p) ==
  /\ pc[p] \in {"versioning", "encryption", "policy"}
  /\ settings' = settings \cup Configured(pc[p])
  /\ Goto(p, ConfigureOrder[pc[p]])
  /\ UNCHANGED <<exists, bootstrapped>>

\* mutant: the file lists a feature the check does not know
Misnamed         == {"basic", "logs"}
RequiredFeatures == Features

UploadBootstrappedFile(p) ==
  /\ pc[p] = "file"
  /\ bootstrapped' = RequiredFeatures
  /\ Goto(p, ConfigureOrder["file"])
  /\ UNCHANGED <<exists, settings>>

\* Any call may fail, or the process be interrupted; the invocation is over,
\* and the next one starts afresh.
Fail(p) ==
  /\ pc[p] # "start"
  /\ Goto(p, "start")
  /\ UNCHANGED <<exists, settings, bootstrapped>>

Next ==
  \E p \in Processes :
    \/ CheckExists(p) \/ CreateBucket(p) \/ CheckBootstrapped(p)
    \/ Configure(p) \/ UploadBootstrappedFile(p) \/ Fail(p)

Spec == Init /\ [][Next]_vars

-----------------------------------------------------------------------------
(* Properties *)

Steps == {"start", "create", "check", "versioning", "encryption", "policy", "file", "ready"}

\* The bucket and the invocations have their types.
TypeOK ==
  /\ exists \in BOOLEAN
  /\ settings \subseteq Settings
  /\ bootstrapped \subseteq Features
  /\ pc \in [Processes -> Steps]

\* The bootstrapped file never promises more than the bucket has, whoever
\* wrote it and wherever the others failed: a later invocation that believes
\* it skips the configuration for good.
FileIsHonest == \A f \in bootstrapped : Requires(f) \subseteq settings

\* Nobody goes on to upload to a bucket that lacks a setting.  Versioning in
\* particular: clusters refer to their configuration by object version.
ReadyIsConfigured == \A p \in Processes : pc[p] = "ready" => settings = Settings

=============================================================================
