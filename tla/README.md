# A TLA+ model of AWS ParallelCluster's control logic

AWS ParallelCluster is a command line tool and a REST API that create, update
and delete HPC clusters. It keeps no state of its own: every invocation is a
process (or a Lambda) that reads and writes CloudFormation, S3, DynamoDB and EC2
and then exits. What can go wrong is therefore between invocations, and between
an invocation and the services: two requests for the same cluster, a description
that is out of date when it is used, a call whose answer is lost, a process that
dies between two calls, a cleanup that fails half way. These are the behaviours
this project models, checks with TLC and, where it can, proves with TLAPS.

Paths below are relative to `src/cli/src/pcluster/`.

## 1. Inventory

| Component | State | Operations | Interacts with | What is hard | What makes it correct |
|---|---|---|---|---|---|
| Compute fleet status (`models/compute_fleet_status_manager.py`, `Cluster.start/stop`) | the `COMPUTE_FLEET` item in DynamoDB | read, conditional write, wait for the transition | clustermgtd serves the request; the stack owns the table | read and write are separate calls; lost answers; the table may be deleted in between | a request is atomic, is never made twice, never recreates a deleted item; waiting calls return |
| Cluster lifecycle (`models/cluster.py`, `aws/cfn.py`) | the stack: status, template, resources | create, update, delete | uploads to S3, calls CloudFormation, terminates nodes on failure | concurrent requests of one name, cached descriptions, crashes, lost answers | the deployed configuration stays readable; leftovers have a reason; no node outlives the cluster |
| Cluster artifacts (`models/s3_bucket.py`) | a directory per cluster: versioned configurations, one template key, one change set key | upload, delete all | used by the lifecycle and by the stack's cleanup resource | two keys shared by concurrent updates; deletion in two calls | nobody deletes or overwrites what a live stack refers to |
| Account bootstrap (`S3BucketFactory`, `ensure_default_build_image_stack_cleanup_role`) | the regional bucket with its settings and the bootstrapped file; the cleanup role with its policies and its tag | create, configure, record | shared by every cluster and image | concurrent first use, interruption, what an older version left | a record never promises what is missing; retries complete everything |
| Update policies (`config/update_policy.py`) | the report, two cached answers on `Cluster` | check each change, decide | asks `Cluster` about fleet and login nodes | the cluster moves during the check; differences of counts with defaults | the report is about one state; an accepted resize removes no running node |
| Configuration comparison (`config/config_patch.py`, `schemas/cluster_schema.py`) | the list of changes | walk both configurations along the schema | feeds the update policies | sections that appear, lists matched by key, two forms of custom actions, nearly a hundred schema classes | every difference is a change with a policy; no change is made up |
| Stack cleanup resources (`resources/custom_resources/.../cleanup_resources.py`) | none | delete artifacts, terminate nodes, delete DNS records | run by CloudFormation when the stack is deleted | order against the head node; pages; partial failure; Lambda time limit | success means that nothing is left; the wait fits the time limit |
| Image builds (`models/imagebuilder.py`, `delete_image_stack.py`) | a stack, artifacts, the AMI and its tags, snapshots, a log group | build, delete, the Lambda that ends the build | S3, CloudFormation, EC2, EC2 Image Builder | two builds of one id; a stack that deletes itself; late and repeated notifications; AMIs of failed builds | no AMI, snapshot or artifact is lost sight of; a notification deletes only its own stack |
| Log export (`models/common.py`, `aws/logs.py`) | at most one CloudWatch export task per account; objects in a bucket | start, attach, wait, download, clean up | CloudWatch Logs, S3 | another invocation's task, a shared prefix, interruption, a wait without limit | data reaches who asked for it; nobody deletes what is not theirs |
| Asynchronous validators (`config/common.py`, `validators/s3_validators.py`, `utils.py`) | futures cached for the life of the process | one event loop per validation, timeouts | URLs in S3 and on the web | a future shared by validators and by event loops; cancellation by a timeout | no bad URL is overlooked in a fresh validation; every validation ends |
| AWS client layer (`aws/common.py`) | a per-process cache of answers | cached call, error translation | every other component | stale answers | not modelled by itself; its effects (an error, a stale description) are part of the models |
| Stateless validators, templates, API routing, generated client | none | validation, generation | – | – | not modelled, see section 6 |

`PROJECT.json` lists these components with their sources, and the hazards, each
at the line where it bites, with the properties that cover it.

## 2. Modules

| Module | What it is |
|---|---|
| `FleetRegister` | abstract specification: the fleet status as an atomic register |
| `ComputeFleet` | `update-compute-fleet` with its separate read, write and wait steps; implements `FleetRegister` |
| `ClusterLifecycle` | create, update and delete of one cluster name, the artifacts, the stack |
| `UpdateCheck` | the check of a patch by the update policies, against a moving cluster |
| `ConfigPatch`, `ItemMatching`, `ClusterSchemas` | where the patch comes from: the comparison, how it pairs the items of two lists, and the schema it walks along |
| `BucketBootstrap`, `CleanupRole`, `AccountBootstrap` | first use of the shared bucket, of the shared role, and the two composed |
| `ImageBuild` | build and deletion of one image id, and the Lambda that ends a build |
| `StackCleanup` | the loops of the Lambda that empties a cluster |
| `LogsExport` | export of log groups by several invocations |
| `UrlValidation` | the asynchronous validators and their cache |
| `MC*` | small instances for TLC |
| `*_proofs` | theorems, checked by TLAPS |

Every module states the control of the code in full (each call to AWS is a step
of its own, with the outcomes the code distinguishes) and reduces the data to
what the properties tell apart. Operators marked `\* mutant` are plausible bugs
of the definition that follows them; no specification uses them. They show that
each property would notice.

### ComputeFleet

The state shared by the callers is `stack` (a CloudFormation status) and `fleet`
(the status in the item, or `NONE`). Each caller has a program counter and the
locals of `update_status`: `op`, `waits` (`wait_transition`), `seen` (the status
read last), `polls` (time spent in the current wait loop) and `result`.

| Action | Code |
|---|---|
| `Begin` | `update_compute_fleet` and the `is_working_status` test of `Cluster.start`/`stop`, which use one cached description of the stack |
| `ReadStatus` | `get_status` and the early returns of `update_status`; every failure of the read is `UNKNOWN` |
| `PutStatus`, `PutConflict`, `PutError` | `_put_status` with its condition on the status that was read |
| `PutAnswerLost` | the write happened, the caller sees a conflict (from the SDK's retry) or an error |
| `WaitPoll` | `_wait_for_status_transition`, for the request status and then the in progress status |
| `Respond` | the controller's answer |
| `StackStep` ... `EnterProtected` | CloudFormation, head node and clustermgtd (external) |

`FleetRegister` has the same `fleet` but only one step per call: `Join` (already
on its way), `Submit`, or `Refuse`. `Register == INSTANCE FleetRegister WITH
outcome <- told`; the mapping `told` computes the register's outcome from each
caller's program counter and result. `Refuse` may change the register: a caller
whose write took effect and whose answer was lost is told that it failed. The
abstract specification says so rather than hiding it.

### ClusterLifecycle

The state is the stack (`status`, `home`, `tmpl`, `prev`, `resources`), the
bucket (`versions`, `template`, `changeSet`), `nodes` (compute nodes that run
under this name), two history variables (`guarded`: the directories whose stack
got as far as having its cleanup resource; `swept`: for each directory, whether
it was deleted, and whether an update has written into it since), and for each
request `pc`, `op`, `dir`,
`view` (the cached description) and `result`.

Names: a directory is named after the request that generated it (the code draws
it at random), a configuration version and a template after the request that
uploaded them. A template names the configuration version it was built with, so
"the configuration of the running template" is `<<tmpl.dir, tmpl.by>>`.

| Action | Code |
|---|---|
| `CreateBegin` | `validate_create_request`, `_generate_artifact_dir` |
| `UploadConfig`, `UploadChangeSet`, `UploadArtifacts`, `UploadFails` | the uploads of `create` and `update`, each of which may fail with or without its effect |
| `CreateStack`, `CreateStackFails`, `CreateStackAnswerLost` | `create_from_url` |
| `Cleanup` | the exception handler of `create`, whose `delete_s3_artifacts` swallows errors of its two calls |
| `UpdateBegin`, `UpdateValidate` | `check_cluster_version` and `validate_update_request` |
| `UpdateStack`, `UpdateStackFails` | `update_stack_from_url` and what follows |
| `DeleteBegin`, `DeleteStack` | `delete_cluster`, `Cluster.delete` with `terminate_nodes` on failure |
| `Crash` | the process ends between two calls |
| `StackStep`, `UpdateRollsBack`, `StackDeleted`, `ResourceCreated`, `ResourceDeleted`, `ArtifactsPartlyDeleted` | CloudFormation (external) and the delete handlers of the custom resources |
| `LaunchNodes` | clustermgtd on the head node (external) |

### UpdateCheck

`running` and `loginNodes` are the cluster, `patch`, `strategy` and `force` the
request, `results` the report so far, `capacity` and `login` the two cached
answers of `Cluster`. A change carries its policy, its place, the kind of edit
and the one fact about the two configurations its policy looks at (for example
"a managed placement group goes"); counts are kept as numbers. `Allows`
translates the condition checkers of all policies that a schema uses
(`HEAD_NODE_STOP` and `UNKNOWN` are used by none), `AsksCapacity` and
`AsksLogin` which cached answers they fill. Actions: `Compare`
(`ConfigPatch.__init__`, any patch may come out), `CheckChange` (one iteration
of `ConfigPatch.check`), `ValidatePatch` (`_validate_patch`), `Submit` (uploads
and `update_stack_from_url`), and `FleetMoves` and `LoginNodesMove` for the rest
of the world. `Disturbances` says which of these happen, and whether status
reads may fail, so that each finding is shown with the fewest assumptions.

### ConfigPatch, ItemMatching and ClusterSchemas

`ClusterSchemas` has one definition per class of `schemas/cluster_schema.py` (and
the sections it shares), with the class's name: for every key its kind
(parameter, section, list of sections), its update policy, the update key of a
list, the name of the nested class and whether the key is required.
`SchemaClasses` is the table of these classes by name. `ConfigPatch` walks two
configurations along such a table, its constant `Schemas`.

One step is one call of `_compare_section`: it compares the fields of one
section, adds to `changes` (a set: the order of the report is left out) and puts
the calls it makes in its turn into `pending`. In the code a nested call runs
before the next field is compared. It shares nothing with its caller but the list
of changes, and its path is a copy, so the model may run it later. An exception
leaves `__init__`, so that no patch exists, whenever it occurs.

| Operator | Code |
|---|---|
| `GetValue` | `_get_value_from_section`, with `Sequence` as the second form of `Script` |
| `CompareParam` | the last branch of `_compare_section`, and the `pop` from the path when the form of a custom action changes |
| `CompareSingle`, `NestedCalls` | `_compare_section` for nested sections: both there, one there (compared field by field if the policy is `IGNORED`), none there |
| `CompareList`, `ItemCalls` | `_compare_list`: additions and removals, and the call for every pair of items |
| `Matches`, `NotVisited` (`ItemMatching`) | the pairing inside `_compare_list`: the first deployed item with the same update key, and the deployed items that were not visited |
| `Raises` | the `AttributeError` of `_compare_list` on a section that is `None` |
| `PathAt` | the path at a field, which a field before it may have cut |
| `CompareSection`, `CompareRaises` | the loop over the fields |

The reference it is checked against is a configuration as a set of facts,
addresses with values, defined from the schema alone: `NodesOf` are the sections
that are reached from the root, `FactsAt` what one of them says. `Differences` is
the set of addresses where the two sets of facts differ.

### BucketBootstrap, CleanupRole, AccountBootstrap

`exists`, `settings` and `bootstrapped` (the features in the file) are the
bucket, `pc` is where each invocation is. One action per call of
`S3BucketFactory._generate_bucket` and `configure_s3_bucket`; `Fail` ends an
invocation at any point and lets another begin. `CleanupRole` has one action per
call of `ensure_default_build_image_stack_cleanup_role` (`GetRole`,
`CreateRole` or `RoleExists`, `AttachVpcPolicy`, `PutPolicy`, `TagRole`), the
role's `policies` and its tag; `saw` is the local `already_bootstrapped`.

`AccountBootstrap` composes the two as the code does: `build-image` completes
the role (`RoleStep`), then the bucket (`BucketStep`), then goes on (`Proceed`);
cluster operations need the bucket only. A failure anywhere sends the invocation
back to its first call.

### ImageBuild

A build, its AMI, its snapshots and its artifact directory are named after the
request that started it. `status`, `build` and `making` are the stack, `ami` is
"made" until the Lambda has tagged it "available", `note` is the notification of
each build. `removers` and `unanswered` are history: the deletions that have begun
to remove the stack or the AMI of a build, and the builds whose `create_stack`
was carried out without an answer.

| Action | Code |
|---|---|
| `CheckImage`, `CheckStack` | `_validate_no_existing_image`, `_validate_id` and the validation of the configuration |
| `UploadConfig`, `UploadArtifacts` (`Upload`) | the uploads of `ImageBuilder.create`; a failure leaves what was uploaded |
| `CreateStack`, `CreateStackFails`, `CreateStackAnswerLost`, `Cleanup` | `create_from_url` and the exception handler |
| `FindImage`, `FindStack` | `_get_underlying_image_or_stack` of the controller. The answers are cached: the stack on the object, the AMIs by `_describe_images_with_pagination` (`aws/ec2.py:145`), an empty list too |
| `CheckUse`, `CheckBuilding`, `DeleteStack` | `_check_instance_using_image` and `_check_image_is_shared`, and the stack half of `ImageBuilder.delete`; an image resource that cannot be described counts as not building (`StackViews`) |
| `DeregisterImage`, `DeleteSnapshots`, `DeleteArtifacts`, `DeleteLogGroup` | the rest of `ImageBuilder.delete`, with `failed_image` as the fallback |
| `TagAmi`, `DeleteOwnStack` | the two halves of `delete_image_stack.handler` |
| `Redeliver`, `Drop` | the retries of an asynchronous Lambda invocation (external) |
| `BuildStarts` ... `StackDeletionFails` | CloudFormation and EC2 Image Builder (external) |
| `Abort`, `Crash` | a call fails, or the process ends, between two steps |

### StackCleanup

One module for the two handlers with loops, `_terminate_cluster_nodes` and
`_delete_dns_records`, which have the same shape: `RemovePage` or
`RemovePageFails` for every page, `Sleep` and start over while a call has
failed, then (for nodes) `Wait` while instances shut down and the limit is not
reached. `ListingFails` is an exception of a paginator, `Killed` the timeout of
the Lambda. Time counts sleeps.

### LogsExport

`Start` is `CloudWatchLogsExporter.__init__` (prefix, whether everything under it
may be deleted), `ListTasks` is `_get_active_export_tasks` with
`_handle_active_export_tasks` and `Attach`, `CreateTask` and `LimitExceeded` are
`create_export_task` (an answer that is lost ends the invocation, or makes the SDK
repeat the call, which is then refused because of the task it has created; the
model lets the repetition come before that task ends), `Poll` is `_wait_for_task_completion`, `ListObjects` and
`Fetch` are the download, `Cleanup` is the `finally` clause of `execute`.
`Interrupt` is the user's Ctrl-C. `TaskEnds` is CloudWatch (external).

### UrlValidation

`Begin` is a top-level `Resource.validate`, whose event loop is numbered by
`request`; `Lookup` is the wrapper of `async_timeout_cache`, which stores a
future and the time until which it is shared; `CallReturns` and `LateReturn` are
the end of the call in its thread, `TimedOut` is `asyncio.wait_for`, `Resume` the
end of an await, `GatherEnds` and `GatherFails` the end of
`_await_async_validators`. `silent` are the URLs whose server takes the connection
and never answers: `urlopen` is called without a timeout
(`validators/s3_validators.py:87`), so nothing but a timed validator ends such a
wait. Threads are assumed to be enough: the pool of `AsyncUtils` has at least
five, and more than 32 silent servers would exhaust it.

## 3. Runs

Each is `tlc -config X.cfg M`; the config is named after the module without MC.

| Run | Module | Checks | Instance |
|---|---|---|---|
| `compute_fleet` | `MCComputeFleet` | `TypeOK`, `NeverRequestedTwice`, `NeverResurrected`, `AtomicRegister`, `EveryCallReturns` | 2 callers, `MaxPolls` 2, `FairSpec` |
| `cluster_lifecycle` | `MCClusterLifecycle` | `TypeOK`, `OrphansExplained`, `NoNodeOutlivesStack`, `DeployedConfigAvailable` | 3 requests |
| `update_check` | `MCUpdateCheck` | `TypeOK`, `ReportOfOneFleet`, `DynamicNodesKept` | 2 pools, 2 compute resources, patches of up to 2 changes, all disturbances |
| `config_patch` | `MCConfigPatch` | `PatchTypeOK`, `PatchIsComplete`, `PatchIsExact`, `RaisesOnlyOnLustre` | 27 000 pairs of configurations, `Depth` 5 |
| `account_bootstrap` | `MCAccountBootstrap` | `AccountTypeOK`, `FileIsHonest`, `ReadyIsConfigured`, `TagIsHonest`, `ReadyIsComplete`, `EventuallyBootstrapped` | 3 image builds, one in a VPC, and 1 cluster creation, `LiveSpec` |
| `image_build` | `MCImageBuild` | `TypeOK`, `ImagesReachable`, `SnapshotsOwned`, `ArtifactsKept`, `ArtifactsOwned`, `StackDeletedByOwner` | 2 builds, 1 deletion |
| `stack_cleanup` | `MCStackCleanup` | `TypeOK`, `SuccessMeansRemoved`, `WaitFitsTimeout` | 3 items on 2 pages, limit 4 and timeout 8 sleeps |
| `logs_export` | `MCLogsExport` | `TypeOK`, `NothingLeftBehind`, `OwnDataDelivered`, `OnlyOwnerDeletes`, `EveryExportEnds` | 3 invocations, 2 of one log group, `LiveSpec` |
| `url_validation` | `MCUrlValidation` | `TypeOK`, `SoundWhenFresh`, `OneCallPerUrl`, `ValidationEnds` | 3 validators, 2 of one URL, 3 validations, `LiveSpec` |

All nine pass. Three more runs state what a comment of the code says and find it
violated (section 4).

What the properties say:

- **`AtomicRegister`**: read, decision and conditional write look like one step.
  With it come **`NeverRequestedTwice`** (a fleet that is already starting is
  never put back to `START_REQUESTED`) and **`NeverResurrected`** (no late write
  brings back the item of a deleted table).
- **`EveryCallReturns`**: also when clustermgtd is down, and also with
  `wait_transition`, which no caller in the repository passes today.
- **`DeployedConfigAvailable`**: the configuration version of the running
  template is in the bucket while the stack is live, through racing creations
  and updates, rollbacks and crashes. Two cases are excluded. An update that was
  validated against a deleted cluster may find a new cluster of the same name
  and give it a template of the old directory; and a creation whose answer was
  lost deletes its own artifacts (section 4).
- **`OrphansExplained`**: objects in the bucket that no stack uses are left by
  one of four known causes and no other: an interrupted create; a cleanup of the
  create that failed; a stack that never had its cleanup resource, or was moved
  to another directory; an update that wrote into the directory after it had been
  deleted. An update that was refused, or was over before, is no excuse: what it
  wrote has to go with the stack.
- **`NoNodeOutlivesStack`**: no compute node remains when the stack is gone.
- **`ReportOfOneFleet`**: all results about the fleet belong to one answer.
  **`DynamicNodesKept`**: an accepted resize of a running fleet takes no dynamic
  node away.
- **`PatchIsComplete`**: every difference lies under a change whose policy is
  checked, whichever key of the schema it is about. **`PatchIsExact`**: every
  change is about a difference. **`RaisesOnlyOnLustre`**: the comparison raises
  in one known case only.
- **`FileIsHonest`**, **`TagIsHonest`**: the two records promise nothing that is
  missing. **`ReadyIsConfigured`**, **`ReadyIsComplete`**: nobody goes on without
  what it needs. **`EventuallyBootstrapped`**: once calls stop failing, retries
  complete everything an interrupted invocation has left out.
- **`ImagesReachable`**: an AMI that is not tagged can be found through its stack,
  or its tagging failed, or its deletion has begun. **`SnapshotsOwned`**:
  snapshots outlive their AMI only through a deletion that is about to remove
  them or has failed. **`ArtifactsKept`**: the artifacts of a build are complete
  while its AMI is available, and while it has a stack that is not being deleted
  and whose AMI no deletion has taken for one of a failed build. So the cleanup of
  `build-image` may run only when there is no stack (`not creation_result`), and
  `delete-image` comes to the artifacts after the stack and the AMI. The exception
  is a `create_stack` whose answer was lost. **`ArtifactsOwned`**: the converse.
  Artifacts without stack or AMI come from a `build-image` that was interrupted,
  did not upload everything or could not clean up, or from a `delete-image` that
  has not come to them, stopped before, failed on them or had looked up another
  build; a build that fails between its uploads and its stack leaves nothing.
  **`StackDeletedByOwner`**: a notification that is late or
  repeated does not delete the stack of a later build.
- **`SuccessMeansRemoved`**: CloudFormation goes on to delete security groups and
  hosted zone only when every item was removed. **`WaitFitsTimeout`**: the wait
  is bounded so that the function returns in time.
- **`OnlyOwnerDeletes`**, **`NothingLeftBehind`**, **`OwnDataDelivered`**: who
  creates a task gets its data and cleans up after it; attaching changes nothing
  for the owner. An invocation that met its own task and took it for
  another's has the data too, but its `keep` is set like that of any who attaches.
  **`EveryExportEnds`**: no invocation waits for anything but a task that runs.
- **`SoundWhenFresh`**: sharing futures and cancelling them overlooks no bad URL
  in a validation that meets no older future. **`OneCallPerUrl`**: what the cache
  is for. **`ValidationEnds`**: also when a validator meets a future of an event
  loop that is gone, and when servers never answer, provided that each such URL
  has a validator with a timeout (`SilenceTimed`): its timeout ends the wait of
  all that share the URL. Without that condition the property is false (section
  4).

### Bounds

- Two callers are enough for a read of one between the read and the write of the
  other, and for two requests in opposite directions; callers start over after
  `Respond`, so sequences of calls are unbounded. `MaxPolls` (how many polls fit
  in the timeout) is 2 so that a loop iterates.
- A request of `ClusterLifecycle` runs once. Three give every pair of racing
  operations on a cluster that a third one created. Requests are used up and a
  stack may rest in its status, hence `CHECK_DEADLOCK FALSE`.
- Two changes show every interaction between changes that the policies have: a
  cached answer filled by one and used by the other, and `MinCount` next to
  `MaxCount`. Counts are 1 and 3 around a default of 2 (in the code 10), which
  gives every order of old, new and default. A checked request ends, hence
  `CHECK_DEADLOCK FALSE`.
- The pairs of `config_patch` are of two kinds. Every key of the whole schema is
  set, changed and removed against every other key of the same top-level
  section, on a minimal configuration. And all small variants of the parts with
  a case of their own: custom actions in both forms, `S3Access` with repeated
  buckets, queues with lists of compute resources in any order, storages with
  and without Lustre settings and data repository associations. `Depth` is
  how deep sections are nested in these configurations, which `PairsAssumption`
  checks: no section lies below it. Each pair is compared once, hence
  `CHECK_DEADLOCK FALSE`.
- Three builders: one fails, one configures, one believes the record; one of them
  needs the VPC policy, which the tag does not promise. A cluster creation shares
  the bucket and not the role. Invocations begin again for ever.
- Two builds and one deletion of an image id give a deletion between any two
  steps of a build, and a build between any two steps of a deletion; requests are
  used up, hence `CHECK_DEADLOCK FALSE`.
- Three items on two pages: a page with two items, one of which fails; the limit
  of 4 sleeps, the last sleep of 2 and the timeout of 8 keep the order of the
  code's 840, 30 and 900 seconds. A handler returns once.
- Three invocations of an export: an owner, one that attaches, one of another log
  group. They end, hence `CHECK_DEADLOCK FALSE`.
- Three validators, two with one URL and a timeout; either server may be silent or
  deserve an error. Three validations, and a clock that passes both the timeout
  and the lifetime of a cached future; a validation begins only when its timeouts
  fit under `MaxTime`. The bounds on both end the behaviour, hence
  `CHECK_DEADLOCK FALSE`.

Requests, pools, compute resources and image requests are interchangeable in the
specifications and in the properties, so those safety runs use symmetry. The runs
with liveness properties do not.

### Fairness

Always weak, and of a component's own steps:

- `ComputeFleet!FairSpec`: the steps of a call that has begun; its process runs
  and each request to AWS is answered or times out. Nothing is asked of
  clustermgtd, CloudFormation or the user, so `EveryCallReturns` rests on the
  timeouts of the code alone.
- `AccountBootstrap!LiveSpec`: the steps of an invocation, and that failures stop
  at some time. "Future invocations will keep retrying" promises something only
  then.
- `LogsExport!LiveSpec`: the steps of an invocation that has begun, and that
  CloudWatch ends its tasks. The wait of the code has no limit, so it depends on
  that.
- `UrlValidation!LiveSpec`: the event loop runs what is ready, timeouts included,
  time passes, and the calls return whose server answers (those to AWS have
  timeouts in the SDK). Nothing is asked of a silent server, so `ValidationEnds`
  rests on the timeouts of the validators there.

## 4. Findings

| Run | What the code says | What it does |
|---|---|---|
| `update_static_nodes` (`UpdateStaticNodes.cfg`) | "Check if MinCount is increased and MaxCount is increased of at least the same amount" (`config/update_policy.py:370`) | compares the differences only; a decrease of MinCount passes whenever MaxCount changes too and does not shrink |
| `update_login_pools` (`UpdateLoginPools.cfg`) | "Check if login nodes are running in the pool in which update was requested" (`config/update_policy.py:481`) | one cached answer serves all pools |
| `image_neighbour` (`ImageNeighbour.cfg`) | "Return failed image object." (`models/imagebuilder.py:293`), of this image id | the filter ends in the name and a star and matches every id that begins with this one; deleting a failed image can remove a good image of a longer name |

None of the three needs concurrency or a failing service (a failed build, for the
third).

Other things the models show, where the code makes no claim that a run could
refute. The properties above are stated around them:

- `Cluster.create` decides by `creation_result` whether to delete the artifacts
  (`models/cluster.py:423`); when the answer of `create_stack` is lost the stack
  exists and loses them.
- An update is checked against the description and configuration read when it
  began; another update may have run since. The fleet may be started between the
  check and `update_stack_from_url`.
- Two builds of one image id that both passed `_validate_no_existing_image` leave
  two AMIs of the id. When the second upload of a build fails, the first object
  stays.
- The first loop of `_terminate_cluster_nodes` has no limit: an error that persists
  ends with the timeout of the function.
- An export that attaches to a task whose owner finishes first reports success
  without data; with the default prefix, an invocation that found it empty also
  deletes what another one was asked to keep. When the answer of
  `create_export_task` is lost and the SDK repeats the call, the invocation
  attaches to its own task and leaves its objects in the bucket.
- A delete whose artifacts come from the AMI found by the id deletes whatever stack
  has the name; when that is another build's, the artifacts of that build stay.
- A failure of a URL is recorded by the validator that started the future. A later
  validation within the lifetime of the cache sees a completed future and no
  failure. A timeout cancels the shared future: another validator of the URL gets
  a `CancelledError`, which no handler of the request expects. A validation with a
  URL that only untimed validators check (a cookbook, the settings file of Slurm)
  does not end when its server takes the connection and stays silent.
- A storage that gains `FsxLustreSettings` with data repository associations, or
  loses `FsxLustreSettings`, makes the comparison raise `AttributeError`. After a
  change between `Script` and `Sequence` the path reported for `Args` lacks the
  action. Repeated buckets in `S3Access` are all compared with the first.

## 5. Proofs

`tlapm M.tla` on each `*_proofs` module. The theorems hold for any sets of
callers, requests, pools, resources and invocations, any timeout, any patch
length, any counts, any pages and any log groups, under the named assumptions of
the modules (`MaxPollsAssumption`, `RequestsAssumption`, `CountsAssumption`,
`MaxChangesAssumption`, `DisturbancesAssumption`, `BuildersAssumption`,
`PagesAssumption`, `TimesAssumption`, `ProcessesAssumption`, `BuildsAssumption`,
`BoundsAssumption`, `SchemasAssumption`, `PairsAssumption`).

**ComputeFleet** (`TypeCorrect`, `RequestedOnce`, `NoResurrection`,
`Implementation`). The inductive invariant is `TypeOK /\ PutInv`. `PutInv` says
of a caller that is about to write that the status it has read is a real one and
not one already heading where the caller wants the fleet. Together with the
condition of the write this gives all three action results: what is overwritten
is the status that was read. `Implementation` shows that the initial state maps
to the register's and that each action maps to one of its steps or to a stutter.

**ClusterLifecycle** (`TypeCorrect`, `NodesTerminated`, `ConfigAvailable`).
- `Typed` is `TypeOK`, `DirectoriesKnown` (a request past validation has a
  directory, a stack has a template) and `NodesTied`: nodes imply that the
  terminating resource exists, and so does the head node. Since CloudFormation
  removes the head node first, `NoNodeOutlivesStack` follows.
- `Config` is `StepsOfOps` (which step belongs to which operation),
  `PrivateDirectories` (a directory in the hands of a creation is referred to by
  nobody else) and `LiveConfigs` (the versions named by the templates of a live
  stack, by the template it would roll back to and by its template key exist, and
  so does the one of every update that has uploaded its own). It is
  needed because an update may submit a template somebody else uploaded, and a
  rollback returns to the previous one. It is about stacks whose creation was
  reported, since a creation that lost the answer deletes its artifacts.

**UpdateCheck** (in `ConfigUpdate_proofs`: `TypeCorrect`, `OneFleet`, `DynamicNodesSafe`). The invariant is
`TypeOK`, `Report` (every result about the fleet is the checker's answer for the
cached capacity, and while nothing is cached it is the answer for both) and `Decision`
(an accepted patch without `force` has all results succeeded). `DynamicNodesSafe`
then is arithmetic on the two counts, for all values and defaults.

**ItemMatching** (in `ConfigUpdate_proofs`: `ItemsAccountedFor`). For lists of any
length: a wanted item finds a partner exactly when its key is deployed, and the
partner has that key; every deployed item whose key is no longer wanted is
reported as gone; and when the deployed keys are distinct nothing else is. With
repeated keys the last part is false, which is the exception of `PatchIsExact`.
The first item with a key is a smallest index, and that it exists is taken from
the library's theorem that the natural numbers are well founded.

**ConfigPatch** (in `ConfigUpdate_proofs`: `PatchTypeCorrect`, `PatchComplete`,
`PatchExact`, `RaisedByLustre`). The theorems hold for every table of schema
classes and every set of pairs of configurations, of any depth and with lists of
any length, that satisfy the two assumptions of the module; TLC evaluates both on
the real schema and the pairs of the run. The invariant is `PatchInv`:
- `CallsPlaced`: the sections of a pending call are sections of the two
  configurations at the path of the call, or one of them is missing. Where a
  missing section meets a class with a list, the call is the one for
  `FsxLustreSettings` of a storage that gains or loses them; this is all that
  `RaisedByLustre` needs.
- `NothingLost`: a fact of one configuration alone is under a change already
  made, or is a difference below a pending call. When nothing is pending any more
  this is `PatchIsComplete`. A step hands each difference below its call either
  to a change or to exactly those calls it makes itself; for lists this is
  `PairedItems`, the lemma about `ItemMatching`.
- `NothingInvented`: while update keys are unique, a pending call is the only pair
  of sections at its path (`Sole`) and every change made is about a fact of one
  configuration alone (`Justified`). It needs that two sections at one address
  are the same section.

`NodesOf` is the value of a recursive function of the depth. That this function
exists, and what holds at every depth, is shown without an induction theorem with
an operator parameter: a property that fails at some depth fails at a least one
(natural numbers are well founded), and there the definition refutes it.

`SchemasAssumption` states what the argument uses of the schema: keys of a class
are distinct; a list has one of the update keys of `Update_key`, which is a
parameter of its items; custom actions are classes of `Script` and `Args` alone,
under the three keys of actions; `IGNORED` is the policy of sections and of
`QueueUpdateStrategy` only; and the one section with a list that may be entered
from one side is `FsxLustreSettings`. `PairsAssumption` says that a list is a list
whose items have their update key, which loading by the schema guarantees, and
that no section lies below `Depth`. A new list in a section with the policy
`IGNORED`, or an `IGNORED` parameter, makes TLC report `SchemasAssumption` as
false: the comparison could then raise elsewhere or let a change pass.

**BucketBootstrap** (in `AccountBootstrap_proofs`: `HonestFile`, `ConfiguredWhenReady`). The invariant is
`TypeOK`, `FileIsHonest` and `ProgressMade`: an invocation at a given step has
everything before that step in place. Settings are never taken back, so other
invocations cannot disturb it.

**AccountBootstrap** (`ImplementsBucket`, `ImplementsRole`,
`AccountTypeCorrect`, `HonestTag`, `CompleteWhenReady`, `BucketShared`). The
composition implements both of its components: a step of an invocation is a step
of the bucket's bootstrap, of the role's, or of neither. `BucketShared` carries
the two results about the bucket over. The invariant of the role adds
`PoliciesMade`, what an invocation has attached so far, to the properties.

**StackCleanup** (`TypeCorrect`, `RemovedOnSuccess`, `WaitInTime`). `PassDone`
says what a pass without a failed call has achieved up to the current page,
`AllAsked` what is left of the items after the first loop, and `OnTime` where the
clock may be at each step. `TimesAssumption` is the relation between the limit,
the last sleep and the timeout of the function.

**ClusterLifecycle, orphans** (`ClusterLifecycle_proofs`: `OrphansHaveReasons`). On
top of `Typed` and `Config`, the invariant `Orphans` follows a directory from
nothing (`Untouched`) through its creator (`Creators`: one that failed has wiped
it) to the stack that undertook to delete it (`Guards`: the stack still has the
cleanup resource and its template points at the directory, or the directory was
wiped). `Swept` ties the history to the bucket: a directory that was wiped, and
into which no update has written since, is empty; and nobody wipes a directory
while it is private to its creator. `PrivateDirectories` of `Config` is needed
here, because only an update, and none that runs while a directory is private,
can write into a directory that is not its own.

**LogsExport** (`TypeCorrect`, `NothingLeft`, `DataDelivered`, `OwnersOnly`).
`TasksFollowed` says at which steps an invocation has a task and that past the
wait it is completed, `AdoptedKept` that who follows another's task keeps its
objects and who follows its own still has the prefix it was created with, and `Removed` why output that is missing is missing: an invocation that
found the same default prefix empty is over and has swept it.

**ImageBuild** (`TypeCorrect`, `Reachable`, `SnapshotsHaveOwners`,
`ArtifactsStay`, `ArtifactsHaveOwners`, `DeletedByOwner`, `NeighboursKept`,
`LostByPattern`).
- `Tagged` says that a stack is deleted only after its AMI was tagged, or its
  tagging failed, or a deletion has begun, and that a notification stands for an
  AMI. With it `ImagesReachable` is inductive.
- The two results about artifacts share the invariant `Story`. `Placed`: nothing
  but its own request knows of a build before that has called CloudFormation, and
  a request in its cleanup has no stack unless the answer was lost. `Stages`: what
  is gone when a delete comes to a step: the AMI it found before the snapshots,
  stack and AMI before the artifacts. `Kept`: artifacts are complete from the last
  upload on, or the build is over and its AMI will not come back. `Owned`: a build
  that has neither stack nor AMI and whose artifacts are left has a request to
  blame. `Kept` rests on `Stages`, which rests on `Placed`; `Ended` is needed
  because the result of a request that has ended does not change any more.
- `NeighboursKept` and `LostByPattern` narrow the finding `image_neighbour`: the
  AMI, the snapshots and the artifacts of another image id are complete as long
  as no deletion has deregistered that AMI, and the only step that begins to is
  the deregistration after the lookup by the ARN pattern. The lookup by the id
  tag, the deletion of the stack, the cleanups and the Lambda never do.

**UrlValidation** (`TypeCorrect`, `AskedOnce`, `FreshIsSound`). `Shared` says that
the future started in a validation is still shared while a coroutine has yet to
look its URL up, hence one call for each URL; the code guarantees it by
starting every coroutine before any of them awaits. `Fresh` ties what a validator
has waited for to the future of this validation, `Told` says that a future that
ended on a bad URL has recorded a failure with its owner, and `Outcomes` that an
accepted validation has only validators that came to an end. The theorems hold
for any timeouts and any lifetime of the cache.

Only model-checked: the liveness properties (`EveryCallReturns`,
`EventuallyBootstrapped`, `EveryExportEnds`, `ValidationEnds`), which are beyond
the prover. Every invariant and every action property of a passing run is a
theorem. That the real schema satisfies `SchemasAssumption` is evaluated by TLC,
not proved.

## 6. What is not modelled

- The several hundred synchronous validators, the generation of templates, API
  routing, argument parsing, the mapping of exceptions to HTTP codes, the
  configuration wizard and the converter of old configurations: no state, one
  input and one output each. In the models a configuration is accepted or
  refused, a call fails or not.
- Generated code: the API client and the API's model classes, almost half of the
  lines of the repository's implementation. What the map covers is therefore a
  small share of all lines, and most of those that change state.
- clustermgtd and the node software live in other repositories; CloudFormation,
  DynamoDB, EC2, IAM, CloudWatch and S3 are services. Of these the models contain
  what this code relies on, marked external in the map.
- The AWS client layer by itself: its cache and its error translation appear as
  stale views and as failing calls.
- In `ClusterLifecycle`: deletion with `keep_logs` (no caller passes it),
  `DeleteClusterInstances`, dry runs, a bucket provided by the user.
- In `ImageBuild`: listings and descriptions, which change nothing; the contents
  of recipes and components; several regions.
- In `LogsExport`: stack events, the archive and the messages.
- In `ConfigPatch`: the order of the report and its wording.
- Real time: a timeout is a number of polls or sleeps.

## 7. Plan

Done, in this order: `FleetRegister` and `ComputeFleet`, `ClusterLifecycle`,
`UpdateCheck`, `BucketBootstrap` and their proofs; `CleanupRole` and
`AccountBootstrap`, `ImageBuild`, `StackCleanup`, `LogsExport`, `UrlValidation`,
`ConfigPatch` and `ClusterSchemas`; the proofs about `AccountBootstrap`,
`StackCleanup`, `LogsExport` and `OrphansExplained`; `ItemMatching` and the proofs
about it, `ImageBuild` and `UrlValidation`; `ConfigPatch` as a machine of single
calls and the proofs about it. Every safety property of a passing run is now a
theorem. Next:

1. Composition of `UpdateCheck` with `ComputeFleet` and `ClusterLifecycle`: an
   update and a fleet request on the same cluster.
2. `ClientCache`: the cache decorator and the error translation, as the source of
   the stale views above.
