---------------------------- MODULE FleetRegister ----------------------------
(***************************************************************************)
(* What the compute fleet status table promises to the callers of          *)
(* update-compute-fleet: each call is one atomic step.  It either finds    *)
(* the fleet already heading where it wants it, or moves it to the         *)
(* requested status, or it is refused.  ComputeFleet implements this with  *)
(* a read followed, some time later, by a conditional write.               *)
(***************************************************************************)
EXTENDS Naturals

CONSTANT Callers      \* concurrent invocations of update-compute-fleet

VARIABLES
  fleet,              \* status held in the COMPUTE_FLEET item, or NONE
  outcome             \* what each caller has been told: an op, refused or none

registerVars == <<fleet, outcome>>

Ops == {"start", "stop"}

\* The item is absent until the head node has written it and after the table
\* has been deleted together with the stack.
NONE == "NONE"

FleetStatuses ==
  {"STOPPED", "RUNNING", "STOPPING", "STARTING", "STOP_REQUESTED",
   "START_REQUESTED", "PROTECTED"}

\* The three statuses Cluster.start_compute_fleet and stop_compute_fleet hand
\* to update_status.
Request(op)    == IF op = "start" THEN "START_REQUESTED" ELSE "STOP_REQUESTED"
InProgress(op) == IF op = "start" THEN "STARTING" ELSE "STOPPING"
Final(op)      == IF op = "start" THEN "RUNNING" ELSE "STOPPED"
Toward(op)     == {Request(op), InProgress(op), Final(op)}

RegisterInit ==
  /\ fleet = NONE
  /\ outcome = [c \in Callers |-> "none"]

\* Nothing is written when the fleet is already on its way.
Join(c, op) ==
  /\ fleet \in Toward(op)
  /\ outcome' = [outcome EXCEPT ![c] = op]
  /\ UNCHANGED fleet

Submit(c, op) ==
  /\ fleet \in FleetStatuses \ Toward(op)
  /\ fleet' = Request(op)
  /\ outcome' = [outcome EXCEPT ![c] = op]

\* The caller is told that the request failed.  When the answer to a write
\* that did happen was lost, the request took effect all the same.
Refuse(c) ==
  /\ outcome' = [outcome EXCEPT ![c] = "refused"]
  /\ \/ UNCHANGED fleet
     \/ \E op \in Ops : fleet \in FleetStatuses \ Toward(op) /\ fleet' = Request(op)

Forget(c) ==
  /\ outcome' = [outcome EXCEPT ![c] = "none"]
  /\ UNCHANGED fleet

\* clustermgtd and the head node: a request is served in two steps, a running
\* fleet may enter protected mode, the item appears and disappears.
Serve(op)  == fleet = Request(op) /\ fleet' = InProgress(op)
Finish(op) == fleet = InProgress(op) /\ fleet' = Final(op)
Protect    == fleet = "RUNNING" /\ fleet' = "PROTECTED"
Appear     == fleet = NONE /\ fleet' = "RUNNING"
Disappear  == fleet # NONE /\ fleet' = NONE

Daemon ==
  /\ \/ \E op \in Ops : Serve(op) \/ Finish(op)
     \/ Protect \/ Appear \/ Disappear
  /\ UNCHANGED outcome

RegisterNext ==
  \/ \E c \in Callers, op \in Ops : Join(c, op) \/ Submit(c, op)
  \/ \E c \in Callers : Refuse(c) \/ Forget(c)
  \/ Daemon

RegisterSpec == RegisterInit /\ [][RegisterNext]_registerVars

=============================================================================
