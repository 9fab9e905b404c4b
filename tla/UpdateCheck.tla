----------------------------- MODULE UpdateCheck -----------------------------
(***************************************************************************)
(* The check of a configuration patch against the running cluster, made by *)
(* update-cluster: ConfigPatch.check applies to each change the update     *)
(* policy of its parameter, and the policies ask the cluster whether its   *)
(* compute fleet and its login nodes run.  Cluster answers from caches     *)
(* that are filled the first time it is asked.  Fleet and login nodes move *)
(* while the check and the uploads that follow it are under way.           *)
(*                                                                         *)
(* A change is abstracted to its policy, where it is, the kind of edit and *)
(* the one fact about the two configurations its policy looks at.          *)
(***************************************************************************)
EXTENDS Integers, Sequences

CONSTANTS
  Pools,              \* login node pools
  ComputeResources,   \* compute resources of the Slurm queues
  Counts,             \* values of MinCount and MaxCount
  DefaultMaxCount,    \* MaxCount of a compute resource that does not set it
  MaxChanges,         \* bound on the changes of one patch
  Disturbances        \* what may go on: fleet, login, reads

ASSUME CountsAssumption == Counts \subseteq Nat /\ DefaultMaxCount \in Nat
ASSUME MaxChangesAssumption == MaxChanges \in Nat
ASSUME DisturbancesAssumption == Disturbances \subseteq {"fleet", "login", "reads"}

VARIABLES
  running,            \* whether the fleet status differs from STOPPED
  loginNodes,         \* whether each pool has login nodes
  pc,                 \* progress of the update request
  patch,              \* the changes, in the order of the schema
  strategy,           \* QueueUpdateStrategy of the target configuration
  force,              \* the force-update flag
  results,            \* the result of each change checked so far
  capacity,           \* the cached answer of has_running_capacity
  login               \* the cached answer of has_running_login_nodes

vars == <<running, loginNodes, pc, patch, strategy, force, results, capacity, login>>

clusterVars == <<running, loginNodes>>
requestVars == <<patch, strategy, force>>
cacheVars   == <<capacity, login>>

NONE == "NONE"

\* A count that is not set in the configuration.
Unset == -1

DefaultMinCount == 0

Strategies == {"COMPUTE_FLEET_STOP", "DRAIN", "TERMINATE"}

-----------------------------------------------------------------------------
(* Changes *)

Change(policy, edit, at, fact) ==
  [policy |-> policy, edit |-> edit, at |-> at, fact |-> fact, old |-> Unset, new |-> Unset]

\* Policies whose checker asks nothing of the cluster; the fact is its answer.
FixedPolicies ==
  {"SUPPORTED", "IGNORED", "UNSUPPORTED", "READ_ONLY_RESOURCE_BUCKET",
   "EXTRA_CHEF_ATTRIBUTES", "SUPPORTED_UNLESS_ADC"}

FixedChanges ==
  {Change(p, "modify", NONE, TRUE) :
     p \in FixedPolicies \ {"UNSUPPORTED", "READ_ONLY_RESOURCE_BUCKET"}}
  \cup {Change(p, "modify", NONE, FALSE) :
          p \in FixedPolicies \ {"SUPPORTED", "IGNORED"}}

OnRemovePolicies == {"RESIZE_UPDATE_STRATEGY_ON_REMOVE", "COMPUTE_FLEET_STOP_ON_REMOVE"}

\* The fact: the change is under SlurmQueues.
FleetChanges ==
  {Change("COMPUTE_FLEET_STOP", "modify", NONE, FALSE)}
  \cup {Change("QUEUE_UPDATE_STRATEGY", "modify", NONE, f) : f \in BOOLEAN}
  \cup {Change(p, "add", NONE, TRUE) : p \in OnRemovePolicies}
  \cup {Change(p, "remove", NONE, TRUE) : p \in OnRemovePolicies}

\* MinCount and MaxCount of a compute resource.
CountChanges ==
  {c \in [policy : {"RESIZE_UPDATE_STRATEGY_ON_REMOVE"}, edit : {"MinCount", "MaxCount"},
          at : ComputeResources, fact : {TRUE},
          old : Counts \cup {Unset}, new : Counts \cup {Unset}] : c.old # c.new}

\* The fact: a managed placement group goes; a managed FSx stays; the storage
\* can be mounted and unmounted live.
ManagedChanges ==
  {Change("MANAGED_PLACEMENT_GROUP", "modify", NONE, f) : f \in BOOLEAN}
  \cup {Change("MANAGED_FSX", e, NONE, f) : e \in {"add", "modify"}, f \in BOOLEAN}
  \cup {Change("SHARED_STORAGE_UPDATE_POLICY", e, NONE, f) : e \in {"home", "mount"}, f \in BOOLEAN}

LoginChanges ==
  {Change("LOGIN_NODES_POOLS", e, NONE, FALSE) : e \in {"add", "remove"}}
  \cup {Change(p, "modify", NONE, FALSE) : p \in {"LOGIN_NODES_STOP", "COMPUTE_AND_LOGIN_NODES_STOP"}}
  \cup {Change("LOGIN_NODES_POOL_STOP", "modify", p, FALSE) : p \in Pools}

Changes == FixedChanges \cup FleetChanges \cup CountChanges \cup ManagedChanges \cup LoginChanges

\* A parameter changes once.
Patches ==
  {p \in UNION {[1..n -> Changes] : n \in 0..MaxChanges} :
     \A i, j \in DOMAIN p :
       i # j => <<p[i].policy, p[i].edit, p[i].at>> # <<p[j].policy, p[j].edit, p[j].at>>}

-----------------------------------------------------------------------------
(* The condition checkers.  v and w are the answers of has_running_capacity  *)
(* and has_running_login_nodes, t the strategy.                              *)

StrategySet(t) == t # "COMPUTE_FLEET_STOP"

IntMin(x) == IF x = Unset THEN DefaultMinCount ELSE x
IntMax(x) == IF x = Unset THEN DefaultMaxCount ELSE x

MaxCountGrows(c) == c.edit = "MaxCount" /\ IntMax(c.new) >= IntMax(c.old)

\* mutant: the MaxCount of any compute resource will do
AnyMaxCount(c, p) ==
  /\ c.edit = "MinCount"
  /\ \E i \in DOMAIN p :
       /\ p[i].edit = "MaxCount"
       /\ IntMax(p[i].new) - IntMax(p[i].old) >= IntMin(c.new) - IntMin(c.old)

\* The change of MaxCount next to the one of MinCount.
MinCountFollowed(c, p) ==
  /\ c.edit = "MinCount"
  /\ \E i \in DOMAIN p :
       /\ p[i].at = c.at /\ p[i].edit = "MaxCount"
       /\ IntMax(p[i].new) - IntMax(p[i].old) >= IntMin(c.new) - IntMin(c.old)

QueueStrategyAllows(c, v, t) == ~v \/ (c.fact /\ StrategySet(t))

ResizeAllows(c, p, v, t) ==
  ~v \/ t = "TERMINATE" \/ c.edit = "add" \/ MaxCountGrows(c) \/ MinCountFollowed(c, p)

StorageAllows(c, v, w, t) ==
  c.edit # "home" /\ (c.fact \/ (~w /\ (~v \/ StrategySet(t))))

Allows(c, p, v, w, t) ==
  CASE c.policy \in FixedPolicies -> c.fact
    [] c.policy = "COMPUTE_FLEET_STOP" -> ~v
    [] c.policy = "QUEUE_UPDATE_STRATEGY" -> QueueStrategyAllows(c, v, t)
    [] c.policy = "RESIZE_UPDATE_STRATEGY_ON_REMOVE" -> ResizeAllows(c, p, v, t)
    [] c.policy = "COMPUTE_FLEET_STOP_ON_REMOVE" -> ~v \/ c.edit = "add"
    [] c.policy = "MANAGED_PLACEMENT_GROUP" -> ~v \/ (~c.fact /\ StrategySet(t))
    [] c.policy = "MANAGED_FSX" -> ~c.fact /\ (~v \/ StrategySet(t) \/ c.edit = "add")
    [] c.policy = "SHARED_STORAGE_UPDATE_POLICY" -> StorageAllows(c, v, w, t)
    [] c.policy = "LOGIN_NODES_POOLS" -> ~w \/ c.edit = "add"
    [] c.policy \in {"LOGIN_NODES_STOP", "LOGIN_NODES_POOL_STOP"} -> ~w
    [] c.policy = "COMPUTE_AND_LOGIN_NODES_STOP" -> ~v /\ ~w

\* UpdatePolicy.check: without a condition checker the change fails for good.
CheckResult(c, p, v, w, t) ==
  IF Allows(c, p, v, w, t) THEN "SUCCEEDED"
  ELSE IF c.policy = "UNSUPPORTED" THEN "FAILED" ELSE "ACTION NEEDED"

\* What is asked of the cluster on the way, by the checker or, after a
\* failure, by fail_reason and action_needed.
AsksCapacity(c) ==
  \/ c.policy \in {"COMPUTE_FLEET_STOP", "QUEUE_UPDATE_STRATEGY",
                   "RESIZE_UPDATE_STRATEGY_ON_REMOVE", "COMPUTE_FLEET_STOP_ON_REMOVE",
                   "MANAGED_PLACEMENT_GROUP", "COMPUTE_AND_LOGIN_NODES_STOP"}
  \/ c.policy = "MANAGED_FSX" /\ ~c.fact
  \/ c.policy = "SHARED_STORAGE_UPDATE_POLICY" /\ c.edit # "home"

AsksLogin(c, v) ==
  \/ c.policy \in {"LOGIN_NODES_POOLS", "LOGIN_NODES_STOP", "LOGIN_NODES_POOL_STOP"}
  \/ c.policy = "COMPUTE_AND_LOGIN_NODES_STOP" /\ ~v
  \/ c.policy = "SHARED_STORAGE_UPDATE_POLICY" /\ c.edit # "home"

-----------------------------------------------------------------------------
(* Cluster *)

\* A fleet status that cannot be read is UNKNOWN, which is not STOPPED.
CapacityRead == {running} \cup (IF "reads" \in Disturbances THEN {TRUE} ELSE {})

\* has_running_capacity
has_running_capacity == IF capacity = NONE THEN CapacityRead ELSE {capacity = "TRUE"}

\* Login nodes whose health cannot be read count as none.
LoginRead(pool) ==
  {IF pool = NONE THEN \E p \in Pools : loginNodes[p] ELSE loginNodes[pool]}
  \cup (IF "reads" \in Disturbances THEN {FALSE} ELSE {})

\* The pool of the change; the other login policies ask about all of them.
PoolOf(c) == IF c.policy = "LOGIN_NODES_POOL_STOP" THEN c.at ELSE NONE

has_running_login_nodes(pool) == IF login = NONE THEN LoginRead(pool) ELSE {login = "TRUE"}

\* mutant: the value is computed but not kept
NotKept(v) == NONE
\* A cached answer.
Cached(v) == IF v THEN "TRUE" ELSE "FALSE"

-----------------------------------------------------------------------------
Init ==
  /\ running \in BOOLEAN
  /\ loginNodes \in [Pools -> BOOLEAN]
  /\ pc = "compare"
  /\ patch = << >> /\ strategy = "COMPUTE_FLEET_STOP" /\ force = FALSE
  /\ results = << >>
  /\ capacity = NONE /\ login = NONE

\* mutant: the sections that were visited are reported once more
ComparedTwice ==
  /\ pc = "compare"
  /\ \E p \in Patches : patch' = p \o p
  /\ strategy' \in Strategies /\ force' \in BOOLEAN
  /\ pc' = "check"
  /\ UNCHANGED <<clusterVars, results, cacheVars>>

\* ConfigPatch.__init__: any patch may come out of the comparison.
Compare ==
  /\ pc = "compare"
  /\ patch' \in Patches /\ strategy' \in Strategies /\ force' \in BOOLEAN
  /\ pc' = "check"
  /\ UNCHANGED <<clusterVars, results, cacheVars>>

\* One iteration of the loop of ConfigPatch.check.
CheckChange ==
  LET c == patch[Len(results) + 1] IN
  /\ pc = "check" /\ Len(results) < Len(patch)
  /\ \E v \in has_running_capacity, w \in has_running_login_nodes(PoolOf(c)) :
       /\ results' = Append(results, CheckResult(c, patch, v, w, strategy))
       /\ capacity' = IF AsksCapacity(c) THEN Cached(v) ELSE capacity
       /\ login'    = IF AsksLogin(c, v) THEN Cached(w) ELSE login
  /\ UNCHANGED <<clusterVars, pc, requestVars>>

PatchAllowed == \A i \in DOMAIN results : results[i] = "SUCCEEDED"

\* Successful changes of these policies are not reported.
Reported(i) ==
  ~(patch[i].policy \in {"IGNORED", "READ_ONLY_RESOURCE_BUCKET"} /\ results[i] = "SUCCEEDED")

\* _validate_patch
ValidatePatch ==
  /\ pc = "check" /\ Len(results) = Len(patch)
  /\ pc' = IF force \/ (PatchAllowed /\ \E i \in DOMAIN results : Reported(i))
           THEN "accepted" ELSE "refused"
  /\ UNCHANGED <<clusterVars, requestVars, results, cacheVars>>

\* The uploads, then update_stack_from_url.
Submit ==
  /\ pc = "accepted"
  /\ pc' = "submitted"
  /\ UNCHANGED <<clusterVars, requestVars, results, cacheVars>>

\* The fleet is started or stopped: nothing holds it while the stack is idle.
FleetMoves ==
  /\ "fleet" \in Disturbances
  /\ running' = ~running
  /\ UNCHANGED <<loginNodes, pc, requestVars, results, cacheVars>>

LoginNodesMove ==
  /\ "login" \in Disturbances
  /\ \E p \in Pools : loginNodes' = [loginNodes EXCEPT ![p] = ~@]
  /\ UNCHANGED <<running, pc, requestVars, results, cacheVars>>

Next == Compare \/ CheckChange \/ ValidatePatch \/ Submit \/ FleetMoves \/ LoginNodesMove

Spec == Init /\ [][Next]_vars

-----------------------------------------------------------------------------
(* Properties *)

CacheStates == {NONE, "TRUE", "FALSE"}

\* The request, the report and the caches have their types.
TypeOK ==
  /\ running \in BOOLEAN /\ loginNodes \in [Pools -> BOOLEAN]
  /\ pc \in {"compare", "check", "accepted", "refused", "submitted"}
  /\ patch \in Patches /\ strategy \in Strategies /\ force \in BOOLEAN
  /\ results \in Seq({"SUCCEEDED", "ACTION NEEDED", "FAILED"})
  /\ Len(results) <= Len(patch)
  /\ capacity \in CacheStates /\ login \in CacheStates

FleetPolicies ==
  {"COMPUTE_FLEET_STOP", "QUEUE_UPDATE_STRATEGY", "RESIZE_UPDATE_STRATEGY_ON_REMOVE",
   "COMPUTE_FLEET_STOP_ON_REMOVE", "MANAGED_PLACEMENT_GROUP", "MANAGED_FSX"}

\* The whole report is about one state of the fleet: although the fleet may
\* start, stop or become unreadable between two changes, no patch is allowed
\* because one half was checked before and the other half after the move.
ReportOfOneFleet ==
  \E v \in BOOLEAN :
    \A i \in DOMAIN results :
      patch[i].policy \in FleetPolicies
        => results[i] = CheckResult(patch[i], patch, v, FALSE, strategy)

At(cr, edit) == {i \in DOMAIN patch : patch[i].edit = edit /\ patch[i].at = cr}

The(S) == patch[CHOOSE i \in S : TRUE]

\* By how much the two counts of a compute resource grow.
GrowsMin(cr) ==
  LET S == At(cr, "MinCount") IN
  IF S = {} THEN 0 ELSE IntMin(The(S).new) - IntMin(The(S).old)

GrowsMax(cr) ==
  LET S == At(cr, "MaxCount") IN
  IF S = {} THEN 0 ELSE IntMax(The(S).new) - IntMax(The(S).old)

ResizedWhileRunning ==
  /\ pc \in {"accepted", "submitted"} /\ ~force
  /\ capacity = "TRUE" /\ strategy # "TERMINATE"

\* A resize that is accepted on a running fleet without TERMINATE never takes
\* a dynamic node away: MaxCount does not shrink, and neither does the part
\* of it that MinCount leaves to dynamic nodes.
DynamicNodesKept ==
  ResizedWhileRunning =>
    \A cr \in ComputeResources :
      GrowsMax(cr) >= 0 /\ GrowsMax(cr) - GrowsMin(cr) >= 0

\* "Check if MinCount is increased": no static node is taken away either.
StaticNodesKept ==
  ResizedWhileRunning => \A cr \in ComputeResources : GrowsMin(cr) >= 0

\* "Check if login nodes are running in the pool in which update was
\* requested": a change of a pool succeeds only if that pool has no nodes.
PoolChecked ==
  [][\A i \in DOMAIN results' \ DOMAIN results :
       patch[i].policy = "LOGIN_NODES_POOL_STOP" /\ results'[i] = "SUCCEEDED"
         => ~loginNodes[patch[i].at]]_vars

=============================================================================
