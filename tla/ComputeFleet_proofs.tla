-------------------------- MODULE ComputeFleet_proofs --------------------------
(***************************************************************************)
(* Proofs about ComputeFleet, for any set of callers and any timeout.      *)
(***************************************************************************)
EXTENDS ComputeFleet, TLAPS

\* The status names and the three statuses of a direction.
LEMMA StatusFacts ==
  /\ NONE \notin FleetStatuses
  /\ UNKNOWN \notin FleetStatuses
  /\ UNKNOWN # NONE
  /\ \A o \in Ops : /\ Request(o) \in FleetStatuses
                    /\ InProgress(o) \in FleetStatuses
                    /\ Final(o) \in FleetStatuses
                    /\ Register!Toward(o) = {Request(o), InProgress(o), Final(o)}
                    /\ Request(o) # InProgress(o)
                    /\ Request(o) # Final(o)
BY DEF NONE, UNKNOWN, FleetStatuses, Ops, Request, InProgress, Final,
       Register!NONE, Register!FleetStatuses, Register!Ops, Register!Request,
       Register!InProgress, Register!Final, Register!Toward

\* A caller that is about to write has read a status of the item, and one from
\* which its request makes sense.
PutInv ==
  \A c \in Callers :
    pc[c] = "put" => seen[c] \in FleetStatuses \ Register!Toward(op[c])

IInv == TypeOK /\ PutInv

\* No call has begun.
LEMMA InitIInv == Init => IInv
BY StatusFacts, MaxPollsAssumption
   DEF Init, IInv, TypeOK, PutInv, PcLabels, Results, StackStatuses, Ops, Register!Ops

\* The environment leaves every call as it is.
LEMMA EnvironmentIInv == IInv /\ Environment => IInv'
<1> SUFFICES ASSUME IInv, Environment PROVE IInv'
  OBVIOUS
<1>1. UNCHANGED callVars
  BY DEF Environment, StackStep, HeadNodeInit, StackCreated, TableDeleted,
         StackDeleted, ServeRequest, EnterProtected
<1>2. fleet' \in FleetStatuses \cup {NONE} /\ stack' \in StackStatuses \cup {NONE}
  <2> USE StatusFacts DEF IInv, TypeOK
  <2>1. CASE StackStep
    BY <2>1 DEF StackStep
  <2>2. CASE HeadNodeInit
    BY <2>2 DEF HeadNodeInit, Register!Appear, FleetStatuses, Register!FleetStatuses
  <2>3. CASE StackCreated
    BY <2>3 DEF StackCreated, StackStatuses, WorkingStatuses
  <2>4. CASE TableDeleted
    BY <2>4 DEF TableDeleted, Register!Disappear, NONE
  <2>5. CASE StackDeleted
    BY <2>5 DEF StackDeleted
  <2>6. CASE ServeRequest
    BY <2>6 DEF ServeRequest, Register!Serve, Register!Finish, InProgress, Final
  <2>7. CASE EnterProtected
    BY <2>7 DEF EnterProtected, Register!Protect, FleetStatuses, Register!FleetStatuses
  <2> QED
    BY <2>1, <2>2, <2>3, <2>4, <2>5, <2>6, <2>7 DEF Environment
<1> QED
  BY <1>1, <1>2 DEF IInv, TypeOK, PutInv, callVars

\* A call begins.
LEMMA BeginIInv == ASSUME NEW c \in Callers, IInv, Begin(c) PROVE IInv'
<1> USE DEF IInv, TypeOK
<1>1. pc' \in [Callers -> PcLabels] /\ result' \in [Callers -> Results]
  BY DEF Begin, End, Goto, PcLabels, Results
<1>2. op' \in [Callers -> Ops] /\ waits' \in [Callers -> BOOLEAN]
  BY DEF Begin
<1>3. UNCHANGED <<stack, fleet, seen, polls>>
  BY DEF Begin
<1>4. PutInv'
  BY DEF Begin, End, Goto, PutInv, PcLabels
<1> QED
  BY <1>1, <1>2, <1>3, <1>4

\* The steps of update_status and of its wait loops.
LEMMA UpdateIInv == ASSUME NEW c \in Callers, IInv, Update(c) PROVE IInv'
<1> USE StatusFacts DEF IInv, TypeOK
<1>1. CASE ReadStatus(c)
  <2>1. PICK s \in FleetStatuses \cup {UNKNOWN} :
          /\ seen' = [seen EXCEPT ![c] = s]
          /\ \/ s = UNKNOWN /\ End(c, "error")
             \/ s = Final(op[c]) /\ End(c, "already")
             \/ s \in {Request(op[c]), InProgress(op[c])} /\ Submitted(c)
             \/ s \notin Register!Toward(op[c]) \cup {UNKNOWN}
                  /\ Goto(c, "put") /\ UNCHANGED result
    BY <1>1 DEF ReadStatus
  <2>2. UNCHANGED <<stack, fleet, op, waits, polls>>
    BY <1>1 DEF ReadStatus
  <2>3. pc' \in [Callers -> PcLabels] /\ result' \in [Callers -> Results]
    BY <2>1 DEF End, Goto, Submitted, PcLabels, Results
  <2>4. PutInv'
    BY <2>1, <2>2 DEF End, Goto, Submitted, PutInv, PcLabels
  <2> QED
    BY <2>1, <2>2, <2>3, <2>4
<1>2. CASE PutStatus(c) \/ PutAnswerLost(c)
  <2>1. fleet' \in FleetStatuses /\ UNCHANGED <<stack, op, waits, seen, polls>>
    BY <1>2 DEF PutStatus, PutAnswerLost
  <2>2. pc' \in [Callers -> PcLabels] /\ result' \in [Callers -> Results]
    BY <1>2 DEF PutStatus, PutAnswerLost, End, Goto, Submitted, PcLabels, Results
  <2>3. PutInv'
    BY <1>2, <2>1 DEF PutStatus, PutAnswerLost, End, Goto, Submitted, PutInv, PcLabels
  <2> QED
    BY <2>1, <2>2, <2>3
<1>3. CASE PutConflict(c) \/ PutError(c)
  <2>1. UNCHANGED <<stack, fleet, op, waits, seen, polls>>
    BY <1>3 DEF PutConflict, PutError
  <2>2. pc' \in [Callers -> PcLabels] /\ result' \in [Callers -> Results]
    BY <1>3 DEF PutConflict, PutError, End, Goto, PcLabels, Results
  <2>3. PutInv'
    BY <1>3, <2>1 DEF PutConflict, PutError, End, Goto, PutInv, PcLabels
  <2> QED
    BY <2>1, <2>2, <2>3
<1>4. CASE WaitPoll(c)
  <2>1. UNCHANGED <<stack, fleet, op, waits>>
    BY <1>4 DEF WaitPoll
  <2>2. seen' \in [Callers -> FleetStatuses \cup {UNKNOWN}]
    BY <1>4 DEF WaitPoll
  <2>3. polls' \in [Callers -> 0..MaxPolls]
    BY <1>4, MaxPollsAssumption DEF WaitPoll, TimeoutExpired, GiveUp
  <2>4. /\ pc' \in [Callers -> PcLabels]
        /\ result' \in [Callers -> Results]
        /\ pc'[c] # "put"
    BY <1>4 DEF WaitPoll, TransitionSeen, GiveUp, End, Goto, PcLabels, Results
  <2>5. \A d \in Callers \ {c} : pc'[d] = pc[d] /\ seen'[d] = seen[d]
    BY <1>4 DEF WaitPoll, TransitionSeen, GiveUp, End, Goto
  <2>6. PutInv'
    BY <2>1, <2>4, <2>5 DEF PutInv
  <2> QED
    BY <2>1, <2>2, <2>3, <2>4, <2>6
<1>5. CASE Respond(c)
  <2>1. UNCHANGED <<stack, fleet, polls>>
    BY <1>5 DEF Respond
  <2>2. /\ pc' \in [Callers -> PcLabels]
        /\ op' \in [Callers -> Ops]
        /\ waits' \in [Callers -> BOOLEAN]
        /\ seen' \in [Callers -> FleetStatuses \cup {UNKNOWN}]
        /\ result' \in [Callers -> Results]
    BY <1>5 DEF Respond, Goto, PcLabels, Results, Ops, Register!Ops
  <2>3. PutInv'
    BY <1>5 DEF Respond, Goto, PutInv, PcLabels
  <2> QED
    BY <2>1, <2>2, <2>3
<1> QED
  BY <1>1, <1>2, <1>3, <1>4, <1>5 DEF Update

\* IInv is inductive.
LEMMA NextIInv == IInv /\ [Next]_vars => IInv'
<1> SUFFICES ASSUME IInv, [Next]_vars PROVE IInv'
  OBVIOUS
<1>1. CASE UNCHANGED vars
  BY <1>1 DEF vars, IInv, TypeOK, PutInv
<1>2. CASE Environment
  BY <1>2, EnvironmentIInv
<1>3. CASE \E c \in Callers : Begin(c) \/ Update(c)
  BY <1>3, BeginIInv, UpdateIInv
<1> QED
  BY <1>1, <1>2, <1>3 DEF Next

\* The inductive invariant holds in every reachable state.
THEOREM Invariance == Spec => []IInv
<1>1. IInv /\ [Next]_vars => IInv'
  BY NextIInv
<1> QED
  BY InitIInv, <1>1, PTL DEF Spec

\* The status table, the stack and the calls keep their types, whatever the
\* interleaving of update_status with clustermgtd and CloudFormation.
THEOREM TypeCorrect == Spec => []TypeOK
<1>1. IInv => TypeOK
  BY DEF IInv
<1> QED
  BY Invariance, <1>1, PTL

-----------------------------------------------------------------------------
(* What a step may do to the status *)

\* Everything but a conditional write and the environment leaves the status
\* alone.
LEMMA StatusWriters ==
  ASSUME [Next]_vars, fleet' # fleet
  PROVE  \/ Environment
         \/ \E c \in Callers : PutStatus(c) \/ PutAnswerLost(c)
BY DEF Next, vars, Begin, Update, ReadStatus, PutConflict, PutError, WaitPoll, Respond

\* A write that happens replaces a status that does not lead to the requested
\* one: the decision was made on a stale read, the condition makes it current.
LEMMA WriteIsFresh ==
  ASSUME IInv, NEW c \in Callers, PutStatus(c) \/ PutAnswerLost(c)
  PROVE  fleet \in FleetStatuses \ Register!Toward(op[c]) /\ fleet' = Request(op[c])
BY DEF IInv, PutInv, PutStatus, PutAnswerLost, ConditionHolds

\* The transitions of the other parties never lead to a request status.
LEMMA EnvironmentRequestsNothing ==
  ASSUME Environment, fleet' # fleet
  PROVE  \A o \in Ops : fleet' # Request(o)
<1> USE DEF Ops, Request, Register!Ops, Register!Request
<1>1. CASE StackStep \/ StackCreated \/ StackDeleted
  BY <1>1 DEF StackStep, StackCreated, StackDeleted
<1>2. CASE HeadNodeInit
  BY <1>2 DEF HeadNodeInit, Register!Appear
<1>3. CASE TableDeleted
  BY <1>3 DEF TableDeleted, Register!Disappear, Register!NONE
<1>4. CASE ServeRequest
  BY <1>4 DEF ServeRequest, Register!Serve, Register!Finish, Register!InProgress,
              Register!Final
<1>5. CASE EnterProtected
  BY <1>5 DEF EnterProtected, Register!Protect
<1> QED
  BY <1>1, <1>2, <1>3, <1>4, <1>5 DEF Environment

\* update_status never puts a fleet that is starting or running back to
\* START_REQUESTED, nor a stopping or stopped one to STOP_REQUESTED.
THEOREM RequestedOnce == Spec => NeverRequestedTwice
<1>1. ASSUME IInv, [Next]_vars
      PROVE  [\A o \in Ops : fleet' = Request(o) /\ fleet' # fleet
                               => fleet \notin {InProgress(o), Final(o)}]_vars
  <2> SUFFICES ASSUME NEW o \in Ops, fleet' = Request(o), fleet' # fleet
               PROVE  fleet \notin {InProgress(o), Final(o)}
    OBVIOUS
  <2>1. PICK c \in Callers : PutStatus(c) \/ PutAnswerLost(c)
    BY <1>1, StatusWriters, EnvironmentRequestsNothing
  <2>2. fleet \notin Register!Toward(op[c]) /\ fleet' = Request(op[c])
    BY <1>1, <2>1, WriteIsFresh
  <2>3. op[c] = o
    BY <1>1, <2>2 DEF IInv, TypeOK, Ops, Request, Register!Ops, Register!Request
  <2> QED
    BY <2>2, <2>3, StatusFacts
<1> QED
  BY Invariance, <1>1, PTL DEF Spec, NeverRequestedTwice

\* No write of update_status creates the item of a table that is gone.
THEOREM NoResurrection == Spec => NeverResurrected
<1>1. ASSUME IInv, [Next]_vars
      PROVE  [fleet = NONE /\ fleet' # NONE => stack = "CREATE_IN_PROGRESS"]_vars
  <2> SUFFICES ASSUME fleet = NONE, fleet' # NONE PROVE stack = "CREATE_IN_PROGRESS"
    OBVIOUS
  <2>1. CASE Environment
    BY <2>1 DEF Environment, StackStep, HeadNodeInit, StackCreated, TableDeleted,
                StackDeleted, ServeRequest, EnterProtected, NONE, Ops, Register!Ops,
                Register!Serve, Register!Finish, Register!Request,
                Register!InProgress, Register!Protect, Register!Disappear,
                Register!NONE
  <2>2. CASE \E c \in Callers : PutStatus(c) \/ PutAnswerLost(c)
    BY <1>1, <2>2, WriteIsFresh, StatusFacts
  <2> QED
    BY <1>1, <2>1, <2>2, StatusWriters
<1> QED
  BY Invariance, <1>1, PTL DEF Spec, NeverResurrected

-----------------------------------------------------------------------------
(* update_status implements the atomic register *)

\* A step of one caller changes only what that caller has been told.
LEMMA OutcomeStep ==
  ASSUME NEW c \in Callers,
         \A d \in Callers \ {c} : /\ pc'[d] = pc[d]
                                  /\ op'[d] = op[d]
                                  /\ result'[d] = result[d]
  PROVE  /\ told' = [told EXCEPT ![c] = OutcomeOf(c)']
         /\ OutcomeOf(c)' = OutcomeOf(c) => UNCHANGED told
<1>1. \A d \in Callers \ {c} : OutcomeOf(d)' = OutcomeOf(d)
  BY DEF OutcomeOf
<1> QED
  BY <1>1 DEF told

\* Between two steps of the callers nobody is told anything.
LEMMA OutcomeUnchanged == UNCHANGED callVars => UNCHANGED told
BY DEF callVars, told, OutcomeOf

\* Beginning a call tells the caller nothing, or refuses it.
LEMMA BeginRefines ==
  ASSUME IInv, NEW c \in Callers, Begin(c)
  PROVE  Register!Refuse(c) \/ UNCHANGED <<fleet, told>>
<1> USE DEF IInv, TypeOK
<1>1. /\ \A d \in Callers \ {c} : /\ pc'[d] = pc[d]
                                  /\ op'[d] = op[d]
                                  /\ result'[d] = result[d]
      /\ UNCHANGED fleet
  BY DEF Begin, End, Goto
<1>2. OutcomeOf(c)' = "refused" \/ OutcomeOf(c)' = OutcomeOf(c)
  BY DEF Begin, End, Goto, OutcomeOf, PcLabels, Results
<1> QED
  BY <1>1, <1>2, OutcomeStep DEF Register!Refuse

\* A read that ends the call, or that finds the fleet on its way, is a Join or a
\* Refuse of the register.
LEMMA ReadRefines ==
  ASSUME IInv, NEW c \in Callers, ReadStatus(c)
  PROVE  \/ Register!Refuse(c)
         \/ Register!Join(c, op[c])
         \/ UNCHANGED <<fleet, told>>
<1> USE DEF IInv, TypeOK
<1>1. /\ \A d \in Callers \ {c} : /\ pc'[d] = pc[d]
                                  /\ op'[d] = op[d]
                                  /\ result'[d] = result[d]
      /\ UNCHANGED <<fleet, op>>
  BY DEF ReadStatus, End, Goto, Submitted
<1>2. \/ OutcomeOf(c)' = "refused"
      \/ OutcomeOf(c)' = op[c] /\ fleet \in Register!Toward(op[c])
      \/ OutcomeOf(c)' = OutcomeOf(c)
  BY StatusFacts DEF ReadStatus, GetStatus, End, Goto, Submitted, OutcomeOf, PcLabels, Results
<1> QED
  BY <1>1, <1>2, OutcomeStep DEF Register!Refuse, Register!Join

\* The conditional write is the Submit of the register.
LEMMA WriteRefines ==
  ASSUME IInv, NEW c \in Callers, PutStatus(c) \/ PutAnswerLost(c)
  PROVE  Register!Submit(c, op[c]) \/ Register!Refuse(c)
<1> USE DEF IInv, TypeOK
<1>1. \A d \in Callers \ {c} : /\ pc'[d] = pc[d]
                               /\ op'[d] = op[d]
                               /\ result'[d] = result[d]
  BY DEF PutStatus, PutAnswerLost, End, Goto, Submitted
<1>2. OutcomeOf(c)' = op[c] \/ OutcomeOf(c)' = "refused"
  BY DEF PutStatus, PutAnswerLost, End, Goto, Submitted, OutcomeOf, PcLabels, Results
<1>3. fleet \in FleetStatuses \ Register!Toward(op[c]) /\ fleet' = Request(op[c])
  BY WriteIsFresh
<1>4. op[c] \in Ops
  OBVIOUS
<1> QED
  BY <1>1, <1>2, <1>3, <1>4, OutcomeStep
     DEF Register!Refuse, Register!Submit, FleetStatuses, Request, Ops

\* The remaining steps leave the register alone, refuse, or forget.
LEMMA OtherStepsRefine ==
  ASSUME IInv, NEW c \in Callers,
         PutConflict(c) \/ PutError(c) \/ WaitPoll(c) \/ Respond(c)
  PROVE  \/ Register!Refuse(c)
         \/ Register!Forget(c)
         \/ UNCHANGED <<fleet, told>>
<1> USE DEF IInv, TypeOK
<1>1. /\ \A d \in Callers \ {c} : /\ pc'[d] = pc[d]
                                  /\ op'[d] = op[d]
                                  /\ result'[d] = result[d]
      /\ UNCHANGED fleet
  BY DEF PutConflict, PutError, WaitPoll, TransitionSeen, GiveUp, Respond, End,
         Goto
<1>2. CASE PutConflict(c) \/ PutError(c)
  <2>1. OutcomeOf(c)' = "refused"
    BY <1>2 DEF PutConflict, PutError, End, Goto, OutcomeOf, PcLabels, Results
  <2> QED
    BY <1>1, <2>1, OutcomeStep DEF Register!Refuse
<1>3. CASE WaitPoll(c)
  <2>1. OutcomeOf(c)' = op[c] /\ OutcomeOf(c) = op[c]
    BY <1>3 DEF WaitPoll, TransitionSeen, GiveUp, End, Goto, OutcomeOf, PcLabels, Results
  <2> QED
    BY <1>1, <2>1, OutcomeStep
<1>4. CASE Respond(c)
  <2>1. OutcomeOf(c)' = "none"
    BY <1>4 DEF Respond, Goto, OutcomeOf, PcLabels
  <2> QED
    BY <1>1, <2>1, OutcomeStep DEF Register!Forget
<1> QED
  BY <1>2, <1>3, <1>4

\* CloudFormation, the head node and clustermgtd are the Daemon of the register.
LEMMA EnvironmentRefines ==
  ASSUME Environment
  PROVE  Register!Daemon \/ UNCHANGED <<fleet, told>>
<1>1. UNCHANGED told
  BY OutcomeUnchanged
     DEF Environment, StackStep, HeadNodeInit, StackCreated, TableDeleted,
         StackDeleted, ServeRequest, EnterProtected
<1> QED
  BY <1>1 DEF Environment, StackStep, HeadNodeInit, StackCreated, TableDeleted,
              StackDeleted, ServeRequest, EnterProtected, Register!Daemon, Ops

\* Seen through what the callers are told, every behaviour of update_status,
\* clustermgtd and CloudFormation is a behaviour of the atomic register.
THEOREM Implementation == Spec => AtomicRegister
<1>1. Init => Register!RegisterInit
  BY DEF Init, Register!RegisterInit, told, OutcomeOf, NONE
<1>2. ASSUME IInv, [Next]_vars
      PROVE  [Register!RegisterNext]_<<fleet, told>>
  <2>1. CASE UNCHANGED vars
    BY <2>1, OutcomeUnchanged DEF vars, callVars
  <2>2. CASE Environment
    BY <2>2, EnvironmentRefines DEF Register!RegisterNext
  <2>3. ASSUME NEW c \in Callers, Begin(c) \/ Update(c)
        PROVE  [Register!RegisterNext]_<<fleet, told>>
    <3>1. op[c] \in Register!Ops
      BY <1>2 DEF IInv, TypeOK, Ops
    <3> QED
      BY <1>2, <2>3, <3>1, BeginRefines, ReadRefines, WriteRefines, OtherStepsRefine
         DEF Update, Register!RegisterNext
  <2> QED
    BY <1>2, <2>1, <2>2, <2>3 DEF Next
<1> QED
  BY Invariance, <1>1, <1>2, PTL
     DEF Spec, AtomicRegister, Register!RegisterSpec, Register!registerVars

=============================================================================
