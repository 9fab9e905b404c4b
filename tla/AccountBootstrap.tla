-------------------------- MODULE AccountBootstrap --------------------------
(***************************************************************************)
(* What an account has to have before its first cluster or image:          *)
(* build-image completes the cleanup role (CleanupRole) and then, before   *)
(* the first upload, the regional bucket (BucketBootstrap).  The other     *)
(* invocations, cluster operations and builds that bring a role of their   *)
(* own, need the bucket only.  An invocation that fails anywhere is made   *)
(* anew from its beginning.                                                *)
(***************************************************************************)
EXTENDS BucketBootstrap

CONSTANTS
  Builders,               \* the invocations that need the role
  InVpc                   \* of those, the ones whose Lambda runs in a VPC

ASSUME BuildersAssumption == Builders \subseteq Processes /\ InVpc \subseteq Builders

VARIABLES
  roleExists, policies, tagged, saw,
  rolePc                  \* where each builder is in the bootstrap of the role

roleVars == <<roleExists, policies, tagged, saw, rolePc>>

Role ==
  INSTANCE CleanupRole
    WITH Processes <- Builders, exists <- roleExists, pc <- rolePc

AccountInit == Init /\ Role!Init

\* ensure_default_build_image_stack_cleanup_role, called by build_image.
RoleStep(p) == Role!Ensure(p) /\ UNCHANGED vars

\* self.bucket, evaluated by _check_bucket_existence.
BucketStep(p) ==
  /\ p \in Builders => rolePc[p] = "ready"
  /\ \/ CheckExists(p) \/ CreateBucket(p) \/ CheckBootstrapped(p)
     \/ Configure(p) \/ UploadBootstrappedFile(p)
  /\ UNCHANGED roleVars

\* Role and bucket are there; the invocation goes on and another one follows.
Proceed(p) ==
  /\ pc[p] = "ready"
  /\ Goto(p, "start")
  /\ UNCHANGED <<exists, settings, bootstrapped>>
  /\ IF p \in Builders THEN Role!Build(p) ELSE UNCHANGED roleVars

RoleFails(p) == Role!Fail(p) /\ UNCHANGED vars

BucketFails(p) ==
  \/ /\ pc[p] # "ready" /\ Fail(p)
     /\ IF p \in Builders THEN Role!Build(p) ELSE UNCHANGED roleVars
  \/ pc[p] = "start" /\ p \in Builders /\ Role!Build(p) /\ UNCHANGED vars

Invocation(p) == (p \in Builders /\ RoleStep(p)) \/ BucketStep(p) \/ Proceed(p)

Failure == \E p \in Processes : (p \in Builders /\ RoleFails(p)) \/ BucketFails(p)

AccountNext == (\E p \in Processes : Invocation(p)) \/ Failure

AccountSpec == AccountInit /\ [][AccountNext]_<<vars, roleVars>>

\* An invocation that has begun is run by its process and one that failed is
\* repeated by its user; the calls of AWS do not fail for ever.
LiveSpec ==
  /\ AccountSpec
  /\ \A p \in Processes : WF_<<vars, roleVars>>(Invocation(p))
  /\ <>[][~Failure]_<<vars, roleVars>>

-----------------------------------------------------------------------------
(* Properties *)

\* The bucket, the role and the invocations have their types.
AccountTypeOK == TypeOK /\ Role!TypeOK

\* The tag of the role never promises a policy that is missing.
TagIsHonest == Role!TagIsHonest

\* From the end of the role's bootstrap to the first upload of the build, and
\* while others go on with the role, it has every policy the build needs.
ReadyIsComplete == Role!ReadyIsComplete

\* "future invocations will keep retrying": wherever invocations failed, once
\* calls do not fail any more the bucket and the role get everything that was
\* missing, the VPC policy if any build needs it, and both records say so.
EventuallyBootstrapped ==
  <>[]( /\ settings = Settings /\ bootstrapped = Features
        /\ tagged /\ {"basic", "inline"} \subseteq policies
        /\ InVpc # {} => "vpc" \in policies )

=============================================================================
