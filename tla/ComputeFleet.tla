----------------------------- MODULE ComputeFleet -----------------------------
(***************************************************************************)
(* Start and stop of the compute fleet of one cluster.                     *)
(*                                                                         *)
(* Several invocations of update-compute-fleet run against the same        *)
(* cluster: each describes the stack once, reads the fleet status from     *)
(* DynamoDB, and submits its request with a write that is conditional on   *)
(* the status it has read (Cluster.start, Cluster.stop and                 *)
(* ComputeFleetStatusManager.update_status).  CloudFormation, the head     *)
(* node and clustermgtd act on the same state in between.                  *)
(***************************************************************************)
EXTENDS Naturals

CONSTANTS
  Callers,            \* concurrent invocations of update-compute-fleet
  MaxPolls            \* polls that fit in the timeout of one wait loop

ASSUME MaxPollsAssumption == MaxPolls \in Nat \ {0}

VARIABLES
  stack,              \* status of the CloudFormation stack, or NONE
  fleet,              \* status in the COMPUTE_FLEET item, or NONE
  pc,                 \* where each caller is
  op,                 \* start or stop
  waits,              \* the wait_transition argument
  seen,               \* fleet status the caller read last
  polls,              \* polls made in the current wait loop
  result              \* how the call ended

vars == <<stack, fleet, pc, op, waits, seen, polls, result>>

callVars == <<pc, op, waits, seen, polls, result>>

-----------------------------------------------------------------------------
(* Statuses *)

\* What the caller has been told so far, for the register: a call whose
\* request went through counts as accepted, even if its wait fails later.
OutcomeOf(c) ==
  IF pc[c] \in {"wait_request", "wait_in_progress"} THEN op[c]
  ELSE IF pc[c] # "done" THEN "none"
  ELSE IF result[c] \in {"not_found", "bad_request", "conflict", "error"} THEN "refused"
  ELSE op[c]

told == [c \in Callers |-> OutcomeOf(c)]

Register == INSTANCE FleetRegister WITH fleet <- fleet, outcome <- told

NONE           == Register!NONE
Ops            == Register!Ops
Request(o)     == Register!Request(o)
InProgress(o)  == Register!InProgress(o)
Final(o)       == Register!Final(o)
FleetStatuses  == Register!FleetStatuses

\* get_status answers UNKNOWN whenever the item cannot be read.
UNKNOWN == "UNKNOWN"

WorkingStatuses == {"CREATE_COMPLETE", "UPDATE_COMPLETE", "UPDATE_ROLLBACK_COMPLETE"}

StackStatuses ==
  WorkingStatuses \cup
    {"CREATE_IN_PROGRESS", "CREATE_FAILED", "UPDATE_IN_PROGRESS",
     "DELETE_IN_PROGRESS", "DELETE_FAILED"}

-----------------------------------------------------------------------------
Init ==
  /\ stack = NONE
  /\ fleet = NONE
  /\ pc     = [c \in Callers |-> "idle"]
  /\ op     = [c \in Callers |-> "start"]
  /\ waits  = [c \in Callers |-> FALSE]
  /\ seen   = [c \in Callers |-> UNKNOWN]
  /\ polls  = [c \in Callers |-> 0]
  /\ result = [c \in Callers |-> "none"]

Goto(c, label) == pc' = [pc EXCEPT ![c] = label]

End(c, how) ==
  /\ Goto(c, "done")
  /\ result' = [result EXCEPT ![c] = how]

(***************************************************************************)
(* update_compute_fleet: validate_cluster describes the stack; the         *)
(* description is cached, so that the is_working_status test of            *)
(* Cluster.start and Cluster.stop is about that same instant.              *)
(***************************************************************************)
Begin(c) ==
  /\ pc[c] = "idle"
  /\ \E o \in Ops : op' = [op EXCEPT ![c] = o]
  /\ \E w \in BOOLEAN : waits' = [waits EXCEPT ![c] = w]
  /\ \/ stack = NONE /\ End(c, "not_found")
     \/ stack \notin WorkingStatuses \cup {NONE} /\ End(c, "bad_request")
     \/ stack \in WorkingStatuses /\ Goto(c, "read") /\ UNCHANGED result
     \/ End(c, "error")
  /\ UNCHANGED <<stack, fleet, seen, polls>>

\* get_status_with_last_updated_time: every failure of the read yields the
\* fallback, so does a missing item.
GetStatus(s) == s = UNKNOWN \/ (fleet # NONE /\ s = fleet)

Submitted(c) ==
  IF waits[c]
  THEN Goto(c, "wait_request") /\ UNCHANGED result
  ELSE End(c, "submitted")

\* update_status up to the decision whether to write.
ReadStatus(c) ==
  /\ pc[c] = "read"
  /\ \E s \in FleetStatuses \cup {UNKNOWN} :
       /\ GetStatus(s)
       /\ seen' = [seen EXCEPT ![c] = s]
       /\ \/ s = UNKNOWN /\ End(c, "error")
          \/ s = Final(op[c]) /\ End(c, "already")
          \/ s \in {Request(op[c]), InProgress(op[c])} /\ Submitted(c)
          \/ s \notin Register!Toward(op[c]) \cup {UNKNOWN}
               /\ Goto(c, "put") /\ UNCHANGED result
  /\ UNCHANGED <<stack, fleet, op, waits, polls>>

\* _put_status: the condition expression compares the stored status with the
\* one that was read.
AnyItem(c)        == fleet # NONE                              \* mutant
AnyTable(c)       == TRUE                                      \* mutant
ConditionHolds(c) == fleet = seen[c]

PutStatus(c) ==
  /\ pc[c] = "put"
  /\ ConditionHolds(c)
  /\ fleet' = Request(op[c])
  /\ Submitted(c)
  /\ UNCHANGED <<stack, op, waits, seen, polls>>

\* mutant: the failed condition is taken for a success
ConflictIgnored(c) ==
  /\ pc[c] = "put"
  /\ ~ConditionHolds(c)
  /\ End(c, "submitted")
  /\ UNCHANGED <<stack, fleet, op, waits, seen, polls>>

PutConflict(c) ==
  /\ pc[c] = "put"
  /\ ~ConditionHolds(c)
  /\ End(c, "conflict")
  /\ UNCHANGED <<stack, fleet, op, waits, seen, polls>>

\* Any other client error is logged and raised.
PutError(c) ==
  /\ pc[c] = "put"
  /\ End(c, "error")
  /\ UNCHANGED <<stack, fleet, op, waits, seen, polls>>

\* The write happened but its answer was lost: the retry of the SDK finds the
\* condition false (conflict), or the error surfaces.
PutAnswerLost(c) ==
  /\ pc[c] = "put"
  /\ ConditionHolds(c)
  /\ fleet' = Request(op[c])
  /\ \E how \in {"conflict", "error"} : End(c, how)
  /\ UNCHANGED <<stack, op, waits, seen, polls>>

(***************************************************************************)
(* _wait_for_status_transition, first on the request status and then on    *)
(* the in progress one.  A poll either sees the status move or uses up one *)
(* of the polls that fit in the timeout.                                   *)
(***************************************************************************)
WaitedStatus(c) ==
  IF pc[c] = "wait_request" THEN Request(op[c]) ELSE InProgress(op[c])

TransitionSeen(c, s) ==
  \/ /\ pc[c] = "wait_request" /\ s = InProgress(op[c])
     /\ Goto(c, "wait_in_progress") /\ UNCHANGED result
  \/ s = Final(op[c]) /\ End(c, "updated")
  \/ /\ s # Final(op[c])
     /\ ~(pc[c] = "wait_request" /\ s = InProgress(op[c]))
     /\ End(c, "unexpected")

NeverExpired(c)   == FALSE                                     \* mutant
TimeoutExpired(c) == polls[c] >= MaxPolls

\* mutant: the TimeoutError is swallowed and the loop entered again
WaitAgain(c) == polls' = [polls EXCEPT ![c] = 0] /\ UNCHANGED <<pc, result>>
GiveUp(c)    == polls' = [polls EXCEPT ![c] = 0] /\ End(c, "timeout")

WaitPoll(c) ==
  /\ pc[c] \in {"wait_request", "wait_in_progress"}
  /\ \E s \in FleetStatuses \cup {UNKNOWN} :
       /\ GetStatus(s)
       /\ seen' = [seen EXCEPT ![c] = s]
       /\ \/ /\ s # WaitedStatus(c)
             /\ polls' = [polls EXCEPT ![c] = 0]
             /\ TransitionSeen(c, s)
          \/ /\ s = WaitedStatus(c)
             /\ ~TimeoutExpired(c)
             /\ polls' = [polls EXCEPT ![c] = @ + 1]
             /\ UNCHANGED <<pc, result>>
          \/ /\ s = WaitedStatus(c)
             /\ TimeoutExpired(c)
             /\ GiveUp(c)
  /\ UNCHANGED <<stack, fleet, op, waits>>

\* The controller answers with the status it reads once more, or with the
\* error; nothing of the call survives it.
Respond(c) ==
  /\ pc[c] = "done"
  /\ Goto(c, "idle")
  /\ op'     = [op EXCEPT ![c] = "start"]
  /\ waits'  = [waits EXCEPT ![c] = FALSE]
  /\ seen'   = [seen EXCEPT ![c] = UNKNOWN]
  /\ result' = [result EXCEPT ![c] = "none"]
  /\ UNCHANGED <<stack, fleet, polls>>

-----------------------------------------------------------------------------
(* CloudFormation, the head node and clustermgtd *)

StackTransitions ==
  {<<NONE, "CREATE_IN_PROGRESS">>,
   <<"CREATE_IN_PROGRESS", "CREATE_FAILED">>,
   <<"UPDATE_IN_PROGRESS", "UPDATE_COMPLETE">>,
   <<"UPDATE_IN_PROGRESS", "UPDATE_ROLLBACK_COMPLETE">>,
   <<"DELETE_IN_PROGRESS", "DELETE_FAILED">>}
  \cup (WorkingStatuses \X {"UPDATE_IN_PROGRESS"})
  \cup ((StackStatuses \ {"DELETE_IN_PROGRESS"}) \X {"DELETE_IN_PROGRESS"})

StackStep ==
  /\ \E s \in StackStatuses : <<stack, s>> \in StackTransitions /\ stack' = s
  /\ UNCHANGED <<fleet, callVars>>

\* The head node writes the item while the stack is created, and only then
\* signals that the creation is complete.
HeadNodeInit ==
  /\ stack = "CREATE_IN_PROGRESS"
  /\ Register!Appear
  /\ UNCHANGED <<stack, callVars>>

StackCreated ==
  /\ stack = "CREATE_IN_PROGRESS"
  /\ fleet # NONE
  /\ stack' = "CREATE_COMPLETE"
  /\ UNCHANGED <<fleet, callVars>>

\* The table goes with the stack, at some point of the deletion.
TableDeleted ==
  /\ stack = "DELETE_IN_PROGRESS"
  /\ Register!Disappear
  /\ UNCHANGED <<stack, callVars>>

StackDeleted ==
  /\ stack = "DELETE_IN_PROGRESS"
  /\ fleet = NONE
  /\ stack' = NONE
  /\ UNCHANGED <<fleet, callVars>>

ServeRequest ==
  /\ \E o \in Ops : Register!Serve(o) \/ Register!Finish(o)
  /\ UNCHANGED <<stack, callVars>>

EnterProtected ==
  /\ Register!Protect
  /\ UNCHANGED <<stack, callVars>>

Environment ==
  \/ StackStep \/ HeadNodeInit \/ StackCreated \/ TableDeleted \/ StackDeleted
  \/ ServeRequest \/ EnterProtected

Update(c) ==
  \/ ReadStatus(c)
  \/ PutStatus(c) \/ PutConflict(c) \/ PutError(c) \/ PutAnswerLost(c)
  \/ WaitPoll(c) \/ Respond(c)

Next == (\E c \in Callers : Begin(c) \/ Update(c)) \/ Environment

Spec == Init /\ [][Next]_vars

\* A call that has begun is run to its end by its process; whether a call is
\* made, and what the other parties do, is left open.
FairSpec == Spec /\ \A c \in Callers : WF_vars(Update(c))

-----------------------------------------------------------------------------
(* Properties *)

PcLabels == {"idle", "read", "put", "wait_request", "wait_in_progress", "done"}

Results ==
  {"none", "not_found", "bad_request", "error", "already", "submitted",
   "conflict", "timeout", "unexpected", "updated"}

\* The variables of the status table, the stack and the calls have their types.
TypeOK ==
  /\ stack \in StackStatuses \cup {NONE}
  /\ fleet \in FleetStatuses \cup {NONE}
  /\ pc \in [Callers -> PcLabels]
  /\ op \in [Callers -> Ops]
  /\ waits \in [Callers -> BOOLEAN]
  /\ seen \in [Callers -> FleetStatuses \cup {UNKNOWN}]
  /\ polls \in [Callers -> 0..MaxPolls]
  /\ result \in [Callers -> Results]

\* update_status may decide on a status that is out of date by the time it
\* writes.  Even so a fleet that is already starting or running is never put
\* back to START_REQUESTED, nor a stopping or stopped one to STOP_REQUESTED:
\* clustermgtd would serve the same request twice.
NeverRequestedTwice ==
  [][\A o \in Ops : fleet' = Request(o) /\ fleet' # fleet
                      => fleet \notin {InProgress(o), Final(o)}]_vars

\* A late or delayed write never brings back the item of a cluster whose table
\* is gone (put_item alone would create it): only the head node of a cluster
\* that is being created writes the first status.
NeverResurrected ==
  [][fleet = NONE /\ fleet' # NONE => stack = "CREATE_IN_PROGRESS"]_vars

\* To its callers the read and the conditional write of update_status look
\* like one atomic step of the status register.
AtomicRegister == Register!RegisterSpec

\* A call always comes back, the waiting ones included, because both loops of
\* update_status give up after their timeout.
EveryCallReturns == \A c \in Callers : pc[c] # "idle" ~> pc[c] = "idle"

=============================================================================
