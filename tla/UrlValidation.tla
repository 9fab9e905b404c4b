---------------------------- MODULE UrlValidation ----------------------------
(***************************************************************************)
(* The asynchronous validators of a configuration.  Resource.validate      *)
(* starts one coroutine per UrlValidator and awaits them together in an    *)
(* event loop of its own; get_async_timed_validator_type_for gives some of *)
(* them a timeout, and async_timeout_cache shares one future among all     *)
(* that have the same URL.  The cache lives as long as the process, which  *)
(* serves one request after the other.                                     *)
(***************************************************************************)
EXTENDS Naturals

CONSTANTS
  Validators,             \* UrlValidators of the configuration
  UrlOf,                  \* the URL of each one
  Timed,                  \* the ones with a timeout
  Timeout,                \* that timeout
  CacheTime,              \* how long a future is shared
  MaxRequests,            \* bound on the validations
  MaxTime                 \* bound on the time

NONE == "NONE"

Urls == {UrlOf[i] : i \in Validators}

ASSUME ValidatorsAssumption ==
  /\ NONE \notin Validators /\ Timed \subseteq Validators
  /\ UrlOf = [i \in Validators |-> UrlOf[i]]
ASSUME BoundsAssumption ==
  /\ Timeout \in Nat /\ CacheTime \in Nat
  /\ MaxRequests \in Nat \ {0} /\ MaxTime \in Nat

VARIABLES
  now,                    \* the clock
  bad,                    \* URLs that deserve an ERROR
  silent,                 \* URLs whose server takes the request and never answers
  entry,                  \* the cached future of each URL
  request,                \* the validation that runs, or ran last
  running,                \* whether it still runs
  v,                      \* the coroutine of each validator
  since,                  \* when it started
  failures,               \* the levels of the failures of each validator
  outcome,                \* how each validation ended
  reused,                 \* validators that met a future of an earlier validation (history)
  calls                   \* futures started for each URL by this validation (history)

world    == <<bad, silent>>
loopVars == <<request, running, outcome>>
history  == <<reused, calls>>
vars     == <<now, world, entry, loopVars, v, since, failures, history>>

NoEntry == [state |-> "none", owner |-> NONE, loop |-> 0, until |-> 0]

Init ==
  /\ now = 0 /\ bad \in SUBSET Urls /\ silent \in SUBSET Urls
  /\ entry = [u \in Urls |-> NoEntry]
  /\ request = 0 /\ running = FALSE
  /\ v        = [i \in Validators |-> "idle"]
  /\ since    = [i \in Validators |-> 0]
  /\ failures = [i \in Validators |-> {}]
  /\ outcome  = [n \in 1..MaxRequests |-> "none"]
  /\ reused = {} /\ calls = [u \in Urls |-> 0]

\* Resource.validate at the top level, and _await_async_validators. The last
\* validation begins early enough for its timeouts to pass.
Begin ==
  /\ ~running /\ request < MaxRequests /\ now + Timeout <= MaxTime
  /\ request' = request + 1 /\ running' = TRUE
  /\ v'        = [i \in Validators |-> "new"]
  /\ failures' = [i \in Validators |-> {}]
  /\ reused' = {} /\ calls' = [u \in Urls |-> 0]
  /\ UNCHANGED <<now, world, entry, since, outcome>>

NeverCached(u) == TRUE                                           \* mutant
Expired(u)     == entry[u].state = "none" \/ entry[u].until < now

\* The wrapper of async_timeout_cache, up to its await.
Lookup(i) ==
  LET u == UrlOf[i] IN
  /\ running /\ v[i] = "new"
  /\ v'     = [v EXCEPT ![i] = "waiting"]
  /\ since' = [since EXCEPT ![i] = now]
  /\ \/ /\ Expired(u)
        /\ entry' = [entry EXCEPT ![u] = [state |-> "pending", owner |-> i,
                                          loop |-> request, until |-> now + CacheTime]]
        /\ calls' = [calls EXCEPT ![u] = @ + 1]
        /\ UNCHANGED reused
     \/ /\ ~Expired(u)
        /\ reused' = IF entry[u].loop # request THEN reused \cup {i} ELSE reused
        /\ UNCHANGED <<entry, calls>>
  /\ UNCHANGED <<now, world, loopVars, failures>>

\* mutant: the failure of a shared future is given to nobody
Unreported(u) == UNCHANGED failures

\* The failure goes to the validator that started the future.
Reported(u) ==
  failures' = [failures EXCEPT ![entry[u].owner] = @ \cup (IF u \in bad THEN {"ERROR"} ELSE {})]

\* The call has returned, _validate_async with it. The loop must still run.
\* urlopen is called without a timeout: nothing ends the call to a silent server.
CallReturns(u) ==
  /\ running /\ u \notin silent /\ entry[u].state = "pending" /\ entry[u].loop = request
  /\ entry' = [entry EXCEPT ![u].state = "done"]
  /\ Reported(u)
  /\ UNCHANGED <<now, world, loopVars, v, since, history>>

\* A thread of async_from_sync is not stopped by the cancellation of its future.
LateReturn(u) ==
  /\ running /\ u \notin silent /\ entry[u].state = "cancelled" /\ entry[u].loop = request
  /\ Reported(u)
  /\ UNCHANGED <<now, world, entry, loopVars, v, since, history>>

NeverDue(i) == FALSE                                             \* mutant
Due(i)      == i \in Timed /\ now >= since[i] + Timeout

WarnAsInfo(i) ==                                                 \* mutant
  /\ v'        = [v EXCEPT ![i] = "warned"]
  /\ failures' = [failures EXCEPT ![i] = @ \cup {"INFO"}]

Warn(i) ==
  /\ v'        = [v EXCEPT ![i] = "warned"]
  /\ failures' = [failures EXCEPT ![i] = @ \cup {"WARNING"}]

\* asyncio.wait_for cancels what it waits for: the future that others share.
TimedOut(i) ==
  LET u == UrlOf[i] IN
  /\ running /\ v[i] = "waiting" /\ Due(i)
  /\ entry[u].state = "pending" /\ entry[u].loop = request
  /\ entry' = [entry EXCEPT ![u].state = "cancelled"]
  /\ Warn(i)
  /\ UNCHANGED <<now, world, loopVars, since, history>>

\* mutant: the future of an earlier event loop is waited for
WaitsForForeign(i) ==
  LET e == entry[UrlOf[i]] IN
  /\ running /\ v[i] = "waiting"
  /\ \/ e.state = "done" /\ v' = [v EXCEPT ![i] = "passed"] /\ UNCHANGED failures
     \/ e.state = "cancelled" /\ v' = [v EXCEPT ![i] = "cancelled"] /\ UNCHANGED failures
     \/ e.state = "cancelled" /\ Due(i) /\ Warn(i)
  /\ UNCHANGED <<now, world, entry, loopVars, since, history>>

\* The await ends: with a result, with the cancellation (taken for its own
\* timeout if that is due as well), or with the error that the future belongs
\* to another event loop.
Resume(i) ==
  LET e == entry[UrlOf[i]] IN
  /\ running /\ v[i] = "waiting"
  /\ \/ e.state = "done" /\ v' = [v EXCEPT ![i] = "passed"] /\ UNCHANGED failures
     \/ e.state = "cancelled" /\ v' = [v EXCEPT ![i] = "cancelled"] /\ UNCHANGED failures
     \/ e.state = "cancelled" /\ Due(i) /\ Warn(i)
     \/ /\ e.state = "pending" /\ e.loop # request
        /\ v' = [v EXCEPT ![i] = "broken"] /\ UNCHANGED failures
  /\ UNCHANGED <<now, world, entry, loopVars, since, history>>

End(how) ==
  /\ running' = FALSE
  /\ outcome' = [outcome EXCEPT ![request] = how]
  /\ UNCHANGED <<now, world, entry, request, v, since, failures, history>>

\* gather ends with the first exception. validate_config turns any Exception
\* into a ConfigValidationError; CancelledError is none.
GatherFails ==
  /\ running
  /\ \/ (\E i \in Validators : v[i] = "cancelled") /\ End("crashed")
     \/ (\E i \in Validators : v[i] = "broken") /\ End("rejected")

GatherEnds ==
  /\ running
  /\ \A i \in Validators : v[i] \in {"passed", "warned"}
  /\ End(IF \E i \in Validators : "ERROR" \in failures[i] THEN "rejected" ELSE "accepted")

\* The coroutines start together.
Tick ==
  /\ now < MaxTime
  /\ running => \A i \in Validators : v[i] # "new"
  /\ now' = now + 1
  /\ UNCHANGED <<world, entry, loopVars, v, since, failures, history>>

Next ==
  \/ Begin \/ GatherFails \/ GatherEnds \/ Tick
  \/ \E i \in Validators : Lookup(i) \/ TimedOut(i) \/ Resume(i)
  \/ \E u \in Urls : CallReturns(u) \/ LateReturn(u)

Spec == Init /\ [][Next]_vars

\* The event loop runs what is ready, time passes, and the calls return whose
\* server answers.
LiveSpec ==
  /\ Spec
  /\ WF_vars(GatherFails) /\ WF_vars(GatherEnds) /\ WF_vars(Tick)
  /\ \A i \in Validators : WF_vars(Lookup(i)) /\ WF_vars(TimedOut(i)) /\ WF_vars(Resume(i))
  /\ \A u \in Urls : WF_vars(CallReturns(u))

-----------------------------------------------------------------------------
(* Properties *)

TypeOK ==
  /\ now \in 0..MaxTime /\ bad \subseteq Urls /\ silent \subseteq Urls
  /\ entry \in [Urls -> [state : {"none", "pending", "done", "cancelled"},
                         owner : Validators \cup {NONE},
                         loop : 0..request, until : 0..MaxTime + CacheTime]]
  /\ \A u \in Urls : entry[u].state # "none" => entry[u].owner \in Validators
  /\ request \in 0..MaxRequests /\ running \in BOOLEAN
  /\ v \in [Validators -> {"idle", "new", "waiting", "passed", "warned", "cancelled", "broken"}]
  /\ since \in [Validators -> 0..MaxTime]
  /\ failures \in [Validators -> SUBSET {"ERROR", "WARNING"}]
  /\ outcome \in [1..MaxRequests -> {"none", "accepted", "rejected", "crashed"}]
  /\ reused \subseteq Validators /\ calls \in [Urls -> Nat]

\* The URLs that an accepted configuration should not have, and that no
\* validator of the last validation has said anything about.
Overlooked ==
  {u \in bad : \A i \in Validators : UrlOf[i] = u => failures[i] = {}}

Accepted == request > 0 /\ outcome[request] = "accepted"

\* A validation that meets no future of an earlier one accepts no bad URL in
\* silence, although the failure is recorded by one of the validators that
\* share the URL only, and although timeouts cancel futures others wait for.
SoundWhenFresh == Accepted /\ reused = {} => Overlooked = {}

\* "Validation is cached across instances to avoid repeated calls to the same
\* urls": one validation asks for each URL once at most.
OneCallPerUrl == \A u \in Urls : calls[u] <= 1

\* Every silent server is asked by a validator with a timeout too, as the one of
\* a custom action script is; the cookbook and the other files have none.
SilenceTimed == \A u \in silent : \E i \in Timed : UrlOf[i] = u

\* Every validation ends if the silent servers are those of timed validators: one
\* timeout ends the wait of all that share the URL, with or without a timeout of
\* their own, and a validator left with a future whose event loop is gone, which
\* nobody will ever complete, does not wait for it.
ValidationEnds == running /\ SilenceTimed ~> ~running

=============================================================================
