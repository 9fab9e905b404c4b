---------------------------- MODULE StackCleanup ----------------------------
(***************************************************************************)
(* The Lambda behind the custom resources that empty a cluster while its   *)
(* stack is deleted: _terminate_cluster_nodes and _delete_dns_records.     *)
(* Both go over the pages of a listing, ask for the removal of what they   *)
(* find, and start over for as long as a call has failed; the first then   *)
(* waits for the instances that shut down.  AWS ends an invocation that    *)
(* exceeds the timeout of the function.                                    *)
(*                                                                         *)
(* The head node is deleted before (ClusterLifecycle), so nothing is added *)
(* meanwhile.  The unit of time is the sleep between two passes; the calls *)
(* take no time.                                                           *)
(***************************************************************************)
EXTENDS Naturals

CONSTANTS
  Items,                  \* compute nodes, or A records of the cluster's domain
  Pages,                  \* pages of a listing
  PageOf,                 \* the page of each item
  Limit,                  \* max_execution_time, after which nobody waits
  LastSleep,              \* the sleep before the function returns
  Timeout                 \* the timeout of the Lambda function

ASSUME PagesAssumption == Pages \in Nat \ {0} /\ PageOf \in [Items -> 1..Pages]
ASSUME TimesAssumption ==
  /\ Limit \in Nat /\ LastSleep \in Nat /\ Timeout \in Nat
  /\ Limit + 1 + LastSleep < Timeout

VARIABLES
  action,                 \* TERMINATE_EC2_INSTANCES or DELETE_DNS_RECORDS
  item,                   \* the state of each item
  pc,                     \* where the handler is
  page,                   \* the page it is at
  ok,                     \* completed_successfully
  clock,                  \* time since the function was invoked
  passed,                 \* when the first loop ended (history)
  result                  \* what CloudFormation is told

vars == <<action, item, pc, page, ok, clock, passed, result>>

Never == Timeout + LastSleep + 1
Nodes == action = "TERMINATE_EC2_INSTANCES"

Init ==
  /\ action \in {"TERMINATE_EC2_INSTANCES", "DELETE_DNS_RECORDS"}
  /\ item \in [Items -> {"present", "gone"}]
  /\ pc = "pages" /\ page = 1 /\ ok = TRUE
  /\ clock = 0 /\ passed = Never
  /\ result = "none"

Running(label) == pc = label /\ clock < Timeout

End(how) == pc' = "done" /\ result' = how

\* terminate_instances leaves the instances in their state for a moment, a
\* change of record sets is applied at once.
Removed == IF Nodes THEN "accepted" ELSE "gone"

Found == {i \in Items : PageOf[i] = page /\ item[i] \in {"present", "accepted"}}

TurnPast == page' = page + 1 /\ IF page < Pages THEN UNCHANGED pc ELSE pc' = "sleep" \* mutant

\* The next page, or the end of the pass.
Turn == IF page < Pages THEN page' = page + 1 /\ UNCHANGED pc ELSE page' = 1 /\ pc' = "sleep"

RemovePage ==
  /\ Running("pages")
  /\ item' = [i \in Items |-> IF i \in Found THEN Removed ELSE item[i]]
  /\ Turn
  /\ UNCHANGED <<action, ok, clock, passed, result>>

FailureForgotten == UNCHANGED ok                                 \* mutant
FailureNoted     == ok' = FALSE

\* The call fails, for some of the items or for all of them, and is logged.
RemovePageFails ==
  /\ Running("pages")
  /\ Found # {}
  /\ \E S \in SUBSET Found :
       item' = [i \in Items |-> IF i \in S THEN Removed ELSE item[i]]
  /\ FailureNoted
  /\ Turn
  /\ UNCHANGED <<action, clock, passed, result>>

\* A listing that fails is raised, in either loop.
ListingFails ==
  /\ Running("pages") \/ Running("wait")
  /\ End("FAILED")
  /\ UNCHANGED <<action, item, page, ok, clock, passed>>

\* Ten seconds (five for the records); EC2 begins what it has accepted.
Begun == [i \in Items |-> IF item[i] = "accepted" THEN "shutting-down" ELSE item[i]]

Sleep ==
  /\ Running("sleep")
  /\ clock' = clock + 1
  /\ item' = Begun
  /\ ok' = TRUE
  /\ \/ ok /\ passed' = clock' /\ pc' = IF Nodes THEN "wait" ELSE "last"
     \/ ~ok /\ pc' = "pages" /\ UNCHANGED passed
  /\ UNCHANGED <<action, page, result>>

ShuttingDown == \E i \in Items : item[i] = "shutting-down"

WaitForever  == ShuttingDown                                     \* mutant
KeepsWaiting == ShuttingDown /\ ~ clock > Limit

\* _has_shuttingdown_instances is asked again after every sleep.
Wait ==
  /\ Running("wait")
  /\ \/ KeepsWaiting /\ clock' = clock + 1 /\ UNCHANGED pc
     \/ ~KeepsWaiting /\ clock' = clock + LastSleep /\ pc' = "last"
  /\ UNCHANGED <<action, item, page, ok, passed, result>>

Return ==
  /\ Running("last")
  /\ End("SUCCESS")
  /\ UNCHANGED <<action, item, page, ok, clock, passed>>

\* AWS ends the invocation.
Killed ==
  /\ pc # "done" /\ clock >= Timeout
  /\ End("TIMED_OUT")
  /\ UNCHANGED <<action, item, page, ok, clock, passed>>

\* An instance terminates, or has been terminated from outside.
InstanceGone(i) ==
  /\ Nodes /\ item[i] # "gone"
  /\ item' = [item EXCEPT ![i] = "gone"]
  /\ UNCHANGED <<action, pc, page, ok, clock, passed, result>>

Handler == RemovePage \/ RemovePageFails \/ ListingFails \/ Sleep \/ Wait \/ Return

Next == Handler \/ Killed \/ \E i \in Items : InstanceGone(i)

Spec == Init /\ [][Next]_vars

-----------------------------------------------------------------------------
(* Properties *)

TypeOK ==
  /\ action \in {"TERMINATE_EC2_INSTANCES", "DELETE_DNS_RECORDS"}
  /\ item \in [Items -> {"present", "accepted", "shutting-down", "gone"}]
  /\ pc \in {"pages", "sleep", "wait", "last", "done"}
  /\ page \in 1..Pages /\ ok \in BOOLEAN
  /\ clock \in 0..Timeout + LastSleep /\ passed \in 0..Never
  /\ result \in {"none", "SUCCESS", "FAILED", "TIMED_OUT"}

\* CloudFormation goes on to delete the security groups and placement groups of
\* the nodes, or the hosted zone of the records, only when every item has been
\* removed: an item whose removal failed once is not forgotten. Instances may
\* still be shutting down only when the handler has run past its limit.
SuccessMeansRemoved ==
  result = "SUCCESS" =>
    \A i \in Items :
      item[i] = "gone" \/ (item[i] = "shutting-down" /\ clock > Limit)

\* The wait for the instances never makes the function exceed its timeout: it
\* does so only if the first loop alone has used up the time.
WaitFitsTimeout == result = "TIMED_OUT" => passed > Limit

=============================================================================
