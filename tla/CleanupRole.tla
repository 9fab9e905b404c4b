----------------------------- MODULE CleanupRole -----------------------------
(***************************************************************************)
(* The IAM role of the Lambda that removes the stack of an image build,    *)
(* one per account and revision, shared by every build of every region.    *)
(* ensure_default_build_image_stack_cleanup_role creates and completes it  *)
(* before a build starts.  Several builds may do so together and any of    *)
(* their calls may fail; the tag of the role is the only record of what    *)
(* was done.                                                               *)
(***************************************************************************)
CONSTANTS
  Processes,              \* build-image invocations of the account
  InVpc                   \* the ones whose Lambda runs in a VPC

VARIABLES
  exists,                 \* whether the role exists
  policies,               \* the policies it has
  tagged,                 \* whether it has the bootstrapped tag
  saw,                    \* already_bootstrapped, as each invocation read it
  pc                      \* where each invocation is

vars == <<exists, policies, tagged, saw, pc>>

Policies == {"vpc", "basic", "inline"}

Init ==
  /\ exists = FALSE /\ policies = {} /\ tagged = FALSE
  /\ saw = [p \in Processes |-> FALSE]
  /\ pc  = [p \in Processes |-> "start"]

Goto(p, label) == pc' = [pc EXCEPT ![p] = label]

\* get_role and its tags
GetRole(p) ==
  /\ pc[p] = "start"
  /\ Goto(p, IF exists THEN "vpc" ELSE "create")
  /\ saw' = [saw EXCEPT ![p] = exists /\ tagged]
  /\ UNCHANGED <<exists, policies, tagged>>


\* create_role; the role another invocation has created meanwhile is an error.
CreateRole(p) ==
  /\ pc[p] = "create"
  /\ ~exists
  /\ exists' = TRUE
  /\ Goto(p, "vpc")
  /\ UNCHANGED <<policies, tagged, saw>>

RoleExists(p) ==
  /\ pc[p] = "create"
  /\ exists
  /\ Goto(p, "start")
  /\ UNCHANGED <<exists, policies, tagged, saw>>

\* mutants: nothing is attached to a role that is bootstrapped; the tag is set
\* before the inline policy is in place
AttachIfNew(p) == IF p \in InVpc /\ ~saw[p] THEN {"vpc"} ELSE {}
TagEarly       == [vpc |-> "basic", basic |-> "tag", tag |-> "inline", inline |-> "ready"]

\* The VPC policy is attached for those who need it, bootstrapped or not.
VpcPolicy(p) == IF p \in InVpc THEN {"vpc"} ELSE {}

Order == [vpc |-> "basic", basic |-> "inline", inline |-> "tag", tag |-> "ready"]

AttachVpcPolicy(p) ==
  /\ pc[p] = "vpc"
  /\ policies' = policies \cup VpcPolicy(p)
  /\ Goto(p, IF saw[p] THEN "ready" ELSE Order["vpc"])
  /\ UNCHANGED <<exists, tagged, saw>>

\* attach_role_policy and put_role_policy
PutPolicy(p) ==
  /\ pc[p] \in {"basic", "inline"}
  /\ policies' = policies \cup {pc[p]}
  /\ Goto(p, Order[pc[p]])
  /\ UNCHANGED <<exists, tagged, saw>>

TagForgotten(p) ==                                               \* mutant
  pc[p] = "tag" /\ Goto(p, "ready") /\ UNCHANGED <<exists, policies, tagged, saw>>

TagRole(p) ==
  /\ pc[p] = "tag"
  /\ tagged' = TRUE
  /\ Goto(p, Order["tag"])
  /\ UNCHANGED <<exists, policies, saw>>

\* Any call may fail; the invocation is over and the user invokes it again.
Fail(p) ==
  /\ pc[p] \notin {"start", "ready"}
  /\ Goto(p, "start")
  /\ UNCHANGED <<exists, policies, tagged, saw>>

\* The build goes on, or its invocation ends; a later one needs the role again.
Build(p) ==
  /\ pc[p] = "ready"
  /\ Goto(p, "start")
  /\ UNCHANGED <<exists, policies, tagged, saw>>

Ensure(p) ==
  GetRole(p) \/ CreateRole(p) \/ RoleExists(p) \/ AttachVpcPolicy(p) \/ PutPolicy(p) \/ TagRole(p)

Next == \E p \in Processes : Ensure(p) \/ Fail(p) \/ Build(p)

Spec == Init /\ [][Next]_vars

-----------------------------------------------------------------------------
(* Properties *)

Steps == {"start", "create", "vpc", "basic", "inline", "tag", "ready"}

\* The role and the invocations have their types; a role without existence has
\* nothing.
TypeOK ==
  /\ exists \in BOOLEAN /\ tagged \in BOOLEAN
  /\ policies \subseteq Policies
  /\ ~exists => policies = {} /\ ~tagged
  /\ saw \in [Processes -> BOOLEAN]
  /\ pc \in [Processes -> Steps]

\* "Only after the inline policy succeeds, set the bootstrapped tag": the tag
\* never promises a policy that is missing, whoever set it and wherever the
\* others failed; an invocation that believes it skips the policies for good.
TagIsHonest == tagged => {"basic", "inline"} \subseteq policies

\* No build starts with a role that lacks a policy its Lambda needs: without
\* them neither the AMI is tagged nor the stack deleted. The VPC policy does
\* not depend on who created the role.
ReadyIsComplete ==
  \A p \in Processes :
    pc[p] = "ready" => {"basic", "inline"} \cup (IF p \in InVpc THEN {"vpc"} ELSE {}) \subseteq policies

=============================================================================
