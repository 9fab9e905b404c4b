------------------------ MODULE AccountBootstrap_proofs ------------------------
(***************************************************************************)
(* Proofs about BucketBootstrap and AccountBootstrap, for any number of    *)
(* invocations, builders and builders in a VPC.                            *)
(*                                                                         *)
(* The properties of the bucket are not inductive by themselves: what a    *)
(* process has configured before it gets to a step has to be added         *)
(* (ProgressMade).  The composition implements its two components, so that *)
(* what is shown of the bucket carries over.  For the role the policies an *)
(* invocation has behind it have to be added, as for the settings of the   *)
(* bucket (PoliciesMade).                                                  *)
(***************************************************************************)
EXTENDS AccountBootstrap, TLAPS

-----------------------------------------------------------------------------
(* The bucket *)

DoneBefore(step) ==
  CASE step = "encryption" -> {"versioning"}
    [] step = "policy" -> {"versioning", "encryption"}
    [] step \in {"file", "ready"} -> Settings
    [] OTHER -> {}

ProgressMade == \A p \in Processes : DoneBefore(pc[p]) \subseteq settings

Inv == TypeOK /\ FileIsHonest /\ ProgressMade

\* The invariant holds for a missing bucket and for one of an older version.
LEMMA InvInit == Init => Inv
  BY DEF Init, Inv, TypeOK, FileIsHonest, ProgressMade, DoneBefore, Requires, Features,
         Settings, Steps

\* Every step of S3BucketFactory keeps it: settings are added in the order in
\* which the file relies on them, and never removed.
LEMMA InvNext == Inv /\ [Next]_vars => Inv'
<1> SUFFICES ASSUME Inv, [Next]_vars PROVE Inv'
  OBVIOUS
<1> USE DEF Inv, TypeOK, FileIsHonest, ProgressMade, Goto, Steps
<1>1. ASSUME NEW p \in Processes, CheckExists(p) PROVE Inv'
  BY <1>1 DEF CheckExists, DoneBefore
<1>2. ASSUME NEW p \in Processes, CreateBucket(p) PROVE Inv'
  BY <1>2 DEF CreateBucket, DoneBefore
<1>3. ASSUME NEW p \in Processes, CheckBootstrapped(p) PROVE Inv'
  BY <1>3 DEF CheckBootstrapped, IsBootstrapped, DoneBefore, Features, Requires, Settings
<1>4. ASSUME NEW p \in Processes, Configure(p) PROVE Inv'
  <2> USE <1>4 DEF Configure
  <2>1. settings \subseteq settings' /\ settings' \subseteq Settings
    BY DEF Configured, Settings
  <2>2. ConfigureOrder[pc[p]] \in Steps
        /\ DoneBefore(ConfigureOrder[pc[p]]) \subseteq settings'
    BY DEF ConfigureOrder, Configured, DoneBefore, Settings
  <2>3. TypeOK' /\ FileIsHonest'
    BY <2>1, <2>2
  <2>4. ProgressMade'
    BY <2>1, <2>2
  <2>5. QED BY <2>3, <2>4
<1>5. ASSUME NEW p \in Processes, UploadBootstrappedFile(p) PROVE Inv'
  BY <1>5 DEF UploadBootstrappedFile, ConfigureOrder, RequiredFeatures, DoneBefore, Features,
              Requires, Settings
<1>6. ASSUME NEW p \in Processes, Fail(p) PROVE Inv'
  BY <1>6 DEF Fail, DoneBefore
<1>7. CASE UNCHANGED vars
  BY <1>7 DEF vars
<1>8. QED BY <1>1, <1>2, <1>3, <1>4, <1>5, <1>6, <1>7 DEF Next

\* The invariant behind the theorems below: the settings an invocation has
\* behind it in configure_s3_bucket are on the bucket.
THEOREM Invariance == Spec => []Inv
  BY InvInit, InvNext, PTL DEF Spec

\* Types of the bucket and of the invocations.
THEOREM TypeCorrect == Spec => []TypeOK
  BY Invariance, PTL DEF Inv

\* The bootstrapped file never promises a feature the bucket lacks, for any
\* number of concurrent and interrupted invocations.
THEOREM HonestFile == Spec => []FileIsHonest
  BY Invariance, PTL DEF Inv

\* An invocation that goes on to use the bucket finds it fully configured,
\* whether it configured it or believed the file.
THEOREM ConfiguredWhenReady == Spec => []ReadyIsConfigured
<1>1. Inv => ReadyIsConfigured
  BY DEF Inv, TypeOK, ProgressMade, DoneBefore, ReadyIsConfigured
<1>2. QED BY <1>1, Invariance, PTL

-----------------------------------------------------------------------------
(* The composition *)

accountVars == <<vars, roleVars>>

\* Every step of the composition is a step of the bucket's bootstrap or leaves
\* the bucket alone: going on to the build is the end of an invocation.
LEMMA BucketStepSimulation == [AccountNext]_accountVars => [Next]_vars
<1> SUFFICES ASSUME [AccountNext]_accountVars PROVE [Next]_vars
  OBVIOUS
<1>1. ASSUME NEW p \in Processes, Invocation(p) PROVE [Next]_vars
  <2>1. CASE RoleStep(p)
    BY <2>1 DEF RoleStep
  <2>2. CASE BucketStep(p)
    BY <2>2 DEF BucketStep, Next
  <2>3. CASE Proceed(p)
    <3>1. Fail(p)
      BY <2>3 DEF Proceed, Fail
    <3>2. QED BY <3>1 DEF Next
  <2>4. QED BY <1>1, <2>1, <2>2, <2>3 DEF Invocation
<1>2. ASSUME Failure PROVE [Next]_vars
  BY <1>2 DEF Failure, RoleFails, BucketFails, Next
<1>3. CASE UNCHANGED accountVars
  BY <1>3 DEF accountVars
<1>4. QED BY <1>1, <1>2, <1>3 DEF AccountNext

\* The composition implements S3BucketFactory: whatever image builds do with
\* the role in between, the bucket sees invocations that check, configure,
\* record and end.
THEOREM ImplementsBucket == AccountSpec => Spec
<1>1. AccountInit => Init
  BY DEF AccountInit
<1>2. [AccountNext]_accountVars => [Next]_vars
  BY BucketStepSimulation
<1>3. QED BY <1>1, <1>2, PTL DEF AccountSpec, Spec, accountVars

\* The same for the role: only builders take steps of it.
LEMMA RoleStepSimulation == [AccountNext]_accountVars => [Role!Next]_roleVars
<1> SUFFICES ASSUME [AccountNext]_accountVars PROVE [Role!Next]_roleVars
  OBVIOUS
<1>1. ASSUME NEW p \in Processes, Invocation(p) PROVE [Role!Next]_roleVars
  <2>1. CASE p \in Builders /\ RoleStep(p)
    BY <2>1 DEF RoleStep, Role!Next
  <2>2. CASE BucketStep(p)
    BY <2>2 DEF BucketStep
  <2>3. CASE Proceed(p)
    BY <2>3 DEF Proceed, Role!Next
  <2>4. QED BY <1>1, <2>1, <2>2, <2>3 DEF Invocation
<1>2. ASSUME Failure PROVE [Role!Next]_roleVars
  BY <1>2 DEF Failure, RoleFails, BucketFails, Role!Next
<1>3. CASE UNCHANGED accountVars
  BY <1>3 DEF accountVars
<1>4. QED BY <1>1, <1>2, <1>3 DEF AccountNext

\* The composition implements ensure_default_build_image_stack_cleanup_role, as
\* the builders of the account call it.
THEOREM ImplementsRole == AccountSpec => Role!Spec
<1>1. AccountInit => Role!Init
  BY DEF AccountInit
<1>2. [AccountNext]_accountVars => [Role!Next]_(Role!vars)
  BY RoleStepSimulation DEF roleVars, Role!vars
<1>3. QED BY <1>1, <1>2, PTL DEF AccountSpec, Role!Spec, accountVars

-----------------------------------------------------------------------------
(* The role *)

\* The policies an invocation has behind it at each step. One that found the
\* tag relies on it from the beginning.
PoliciesBefore(step) ==
  CASE step = "inline" -> {"basic"}
    [] step \in {"tag", "ready"} -> {"basic", "inline"}
    [] OTHER -> {}

PoliciesMade ==
  \A p \in Builders :
    /\ PoliciesBefore(rolePc[p]) \subseteq policies
    /\ p \in InVpc /\ rolePc[p] \in {"basic", "inline", "tag", "ready"} => "vpc" \in policies
    /\ saw[p] => tagged
    /\ rolePc[p] \notin {"start", "create"} => roleExists

RoleInv == Role!TypeOK /\ TagIsHonest /\ PoliciesMade

\* There is no role at first.
LEMMA RoleInvInit == Role!Init => RoleInv
  BY DEF Role!Init, RoleInv, Role!TypeOK, Role!Steps, TagIsHonest, Role!TagIsHonest,
         PoliciesMade, PoliciesBefore

\* Every call keeps the invariant: policies are added in the order in which the
\* tag relies on them, and neither they nor the tag are ever removed.
LEMMA RoleInvNext == RoleInv /\ [Role!Next]_roleVars => RoleInv'
<1> SUFFICES ASSUME RoleInv, [Role!Next]_roleVars PROVE RoleInv'
  OBVIOUS
<1> USE BuildersAssumption
    DEF RoleInv, Role!TypeOK, Role!Steps, Role!Policies, TagIsHonest, Role!TagIsHonest,
        PoliciesMade, Role!Goto
<1>1. ASSUME NEW p \in Builders, Role!GetRole(p) PROVE RoleInv'
  <2> USE <1>1 DEF Role!GetRole
  <2>1. rolePc'[p] \in {"vpc", "create"} /\ PoliciesBefore(rolePc'[p]) = {}
    BY DEF PoliciesBefore
  <2>2. saw' \in [Builders -> BOOLEAN] /\ (saw'[p] => tagged)
    BY Zenon
  <2>3. \A q \in Builders : q # p => rolePc'[q] = rolePc[q] /\ saw'[q] = saw[q]
    OBVIOUS
  <2>4. rolePc' \in [Builders -> Role!Steps] /\ (rolePc'[p] = "vpc" => roleExists)
    OBVIOUS
  <2>5. PoliciesMade'
    BY <2>1, <2>2, <2>3, <2>4
  <2>6. QED BY <2>2, <2>4, <2>5
<1>2. ASSUME NEW p \in Builders, Role!CreateRole(p) \/ Role!RoleExists(p) PROVE RoleInv'
  <2>1. CASE Role!CreateRole(p)
    <3> USE <2>1 DEF Role!CreateRole
    <3>1. PoliciesBefore(rolePc'[p]) = {} /\ rolePc'[p] = "vpc"
      BY DEF PoliciesBefore
    <3>2. \A q \in Builders : q # p => rolePc'[q] = rolePc[q]
      OBVIOUS
    <3>3. PoliciesMade'
      BY <3>1, <3>2
    <3>4. QED BY <3>3
  <2>2. CASE Role!RoleExists(p)
    BY <2>2 DEF Role!RoleExists, PoliciesBefore
  <2>3. QED BY <1>2, <2>1, <2>2
<1>3. ASSUME NEW p \in Builders, Role!AttachVpcPolicy(p) PROVE RoleInv'
  BY <1>3 DEF Role!AttachVpcPolicy, Role!VpcPolicy, Role!Order, PoliciesBefore
<1>4. ASSUME NEW p \in Builders, Role!PutPolicy(p) PROVE RoleInv'
  BY <1>4 DEF Role!PutPolicy, Role!Order, PoliciesBefore
<1>5. ASSUME NEW p \in Builders, Role!TagRole(p) PROVE RoleInv'
  BY <1>5 DEF Role!TagRole, Role!Order, PoliciesBefore
<1>6. ASSUME NEW p \in Builders, Role!Fail(p) \/ Role!Build(p) PROVE RoleInv'
  BY <1>6 DEF Role!Fail, Role!Build, PoliciesBefore
<1>7. CASE UNCHANGED roleVars
  BY <1>7 DEF roleVars
<1>8. QED BY <1>1, <1>2, <1>3, <1>4, <1>5, <1>6, <1>7 DEF Role!Next, Role!Ensure

\* The invariant behind the theorems below.
THEOREM RoleInvariance == AccountSpec => []RoleInv
<1>1. AccountInit => RoleInv
  BY RoleInvInit DEF AccountInit
<1>2. RoleInv /\ [AccountNext]_accountVars => RoleInv'
  BY RoleInvNext, RoleStepSimulation
<1>3. QED BY <1>1, <1>2, PTL DEF AccountSpec, accountVars

\* Types of the bucket, the role and the invocations of an account.
THEOREM AccountTypeCorrect == AccountSpec => []AccountTypeOK
<1>1. AccountSpec => []TypeOK
  BY ImplementsBucket, TypeCorrect, PTL
<1>2. TypeOK /\ RoleInv => AccountTypeOK
  BY DEF RoleInv, AccountTypeOK
<1>3. QED BY <1>1, <1>2, RoleInvariance, PTL

\* The tag of the role never promises a policy that is missing, for any number
\* of image builds, wherever they fail.
THEOREM HonestTag == AccountSpec => []TagIsHonest
<1>1. RoleInv => TagIsHonest
  BY DEF RoleInv
<1>2. QED BY <1>1, RoleInvariance, PTL

\* A build that goes on has a role with every policy its Lambda needs, whether
\* it completed the role or believed the tag.
THEOREM CompleteWhenReady == AccountSpec => []ReadyIsComplete
<1>1. RoleInv => ReadyIsComplete
  BY BuildersAssumption
     DEF RoleInv, PoliciesMade, PoliciesBefore, ReadyIsComplete, Role!ReadyIsComplete
<1>2. QED BY <1>1, RoleInvariance, PTL

\* The bucket that image builds and cluster operations share is honest about
\* its settings and complete for whoever goes on.
THEOREM BucketShared == AccountSpec => [](FileIsHonest /\ ReadyIsConfigured)
  BY ImplementsBucket, HonestFile, ConfiguredWhenReady, PTL

=============================================================================
