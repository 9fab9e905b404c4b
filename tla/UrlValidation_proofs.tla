-------------------------- MODULE UrlValidation_proofs --------------------------
(***************************************************************************)
(* Proofs about UrlValidation, for any validators, URLs, timeouts and      *)
(* cache times, and any bounds on the requests and the time.               *)
(*                                                                         *)
(* One validation asks for a URL once because all its coroutines look the  *)
(* URL up before time passes (Shared).  What a validator that met no older *)
(* future has seen is the future of this validation (Fresh), and that one  *)
(* reports a bad URL to a validator of the same URL before any of them     *)
(* passes (Told).                                                          *)
(***************************************************************************)
EXTENDS UrlValidation, TLAPS

\* A future belongs to a validator of its URL; the one this validation has
\* started is shared until every coroutine has looked the URL up.
Shared ==
  \A u \in Urls :
    /\ entry[u].state # "none" => UrlOf[entry[u].owner] = u
    /\ calls[u] \in {0, 1}
    /\ request > 0 => (calls[u] = 1 <=> entry[u].loop = request)
    /\ calls[u] = 1 =>
         /\ entry[u].state # "none"
         /\ running /\ (\E i \in Validators : v[i] = "new") => now <= entry[u].until

\* What a validator has waited for and met.
Fresh ==
  \A i \in Validators \ reused :
    /\ v[i] \in {"waiting", "passed"} => entry[UrlOf[i]].loop = request /\ request > 0
    /\ v[i] = "passed" => entry[UrlOf[i]].state = "done"

Told ==
  /\ \A u \in bad :
       request > 0 /\ entry[u].state = "done" /\ entry[u].loop = request =>
         failures[entry[u].owner] # {}
  /\ \A i \in Validators : v[i] = "warned" => failures[i] # {}

\* A validation has no outcome before it ends, and then one that its
\* validators bear out.
Outcomes ==
  /\ \A n \in 1..MaxRequests : n > request \/ (n = request /\ running) => outcome[n] = "none"
  /\ running => request > 0
  /\ Accepted => \A i \in Validators : v[i] \in {"passed", "warned"}

Inv == TypeOK /\ Shared /\ Fresh /\ Told /\ Outcomes

Cached == [state : {"none", "pending", "done", "cancelled"}, owner : Validators \cup {NONE},
           loop : 0..request, until : 0..MaxTime + CacheTime]

USE DEF world, loopVars, history

\* The process has just started.
LEMMA InvInit == Init => Inv
<1> SUFFICES ASSUME Init PROVE Inv
  OBVIOUS
<1> USE BoundsAssumption DEF Init, NoEntry
<1>1. TypeOK
  <2>1. NoEntry \in Cached
    BY DEF Cached
  <2>2. entry \in [Urls -> Cached] /\ \A u \in Urls : entry[u].state = "none"
    BY <2>1
  <2>3. now \in 0..MaxTime /\ request \in 0..MaxRequests /\ since \in [Validators -> 0..MaxTime]
    OBVIOUS
  <2>4. failures \in [Validators -> SUBSET {"ERROR", "WARNING"}] /\ calls \in [Urls -> Nat]
    OBVIOUS
  <2>5. outcome \in [1..MaxRequests -> {"none", "accepted", "rejected", "crashed"}]
    OBVIOUS
  <2>6. QED BY <2>2, <2>3, <2>4, <2>5 DEF TypeOK, Cached
<1>2. Shared /\ Fresh /\ Told
  BY DEF Shared, Fresh, Told
<1>3. Outcomes
  BY DEF Outcomes, Accepted
<1>4. QED BY <1>1, <1>2, <1>3 DEF Inv

\* A validation begins: every future in the cache is older.
LEMMA InvBegin ==
  ASSUME Inv, Begin
  PROVE  Inv'
<1> USE BoundsAssumption DEF Begin
<1>1. TypeOK'
  BY DEF Inv, TypeOK
<1>2. \A u \in Urls : entry'[u].loop # request'
  BY DEF Inv, TypeOK
<1>3. Shared'
  BY <1>2 DEF Inv, TypeOK, Shared
<1>4. Fresh'
  BY DEF Inv, Fresh
<1>5. Told'
  BY <1>2 DEF Inv, TypeOK, Told
<1>6. Outcomes'
  BY DEF Inv, TypeOK, Outcomes, Accepted
<1>7. QED BY <1>1, <1>3, <1>4, <1>5, <1>6 DEF Inv

\* While a coroutine has not looked its URL up, no future of this validation
\* expires: none is replaced by a second call for the same URL.
LEMMA NotExpired ==
  ASSUME Inv, running, NEW i \in Validators, v[i] = "new", Expired(UrlOf[i])
  PROVE  calls[UrlOf[i]] = 0 /\ entry[UrlOf[i]].loop # request
<1>1. UrlOf[i] \in Urls /\ entry[UrlOf[i]] \in Cached /\ now \in Nat
  BY BoundsAssumption DEF Urls, Inv, TypeOK, Cached
<1>2. calls[UrlOf[i]] # 1
  BY <1>1, BoundsAssumption DEF Inv, Shared, Expired, Cached
<1>3. QED BY <1>1, <1>2 DEF Inv, Shared, Outcomes

LEMMA InvLookup ==
  ASSUME Inv, NEW i \in Validators, Lookup(i)
  PROVE  Inv'
<1> DEFINE u == UrlOf[i]
<1> DEFINE new == [state |-> "pending", owner |-> i, loop |-> request, until |-> now + CacheTime]
<1> USE BoundsAssumption
<1>0. /\ u \in Urls /\ running /\ v[i] = "new" /\ v' = [v EXCEPT ![i] = "waiting"]
      /\ since' = [since EXCEPT ![i] = now] /\ UNCHANGED <<now, world, loopVars, failures>>
  BY DEF Lookup, Urls
<1>1. CASE Expired(u)
  <2>1. /\ entry' = [entry EXCEPT ![u] = new]
        /\ calls' = [calls EXCEPT ![u] = @ + 1] /\ reused' = reused
    BY <1>1 DEF Lookup
  <2>2. calls[u] = 0 /\ entry[u].loop # request
    BY <1>0, <1>1, NotExpired
  <2>3. /\ \A w \in Urls \ {u} : entry'[w] = entry[w] /\ calls'[w] = calls[w]
        /\ entry'[u] = new /\ calls'[u] = 1
    BY <1>0, <2>1, <2>2 DEF Inv, TypeOK
  <2>4. TypeOK'
    <3>1. new \in Cached
      BY DEF Inv, TypeOK, Cached
    <3>2. entry' \in [Urls -> Cached]
      BY <1>0, <2>1, <3>1 DEF Inv, TypeOK, Cached
    <3>3. calls' \in [Urls -> Nat]
      BY <1>0, <2>1, <2>2 DEF Inv, TypeOK
    <3>4. \A w \in Urls : entry'[w].state # "none" => entry'[w].owner \in Validators
      BY <2>3 DEF Inv, TypeOK
    <3>5. QED BY <1>0, <2>1, <3>2, <3>3, <3>4 DEF Inv, TypeOK, Cached
  <2>5. Shared'
    <3>1. ASSUME NEW w \in Urls, w # u
          PROVE  calls'[w] = 1 /\ running' /\ (\E j \in Validators : v'[j] = "new")
                   => now' <= entry'[w].until
      BY <1>0, <2>3 DEF Inv, TypeOK, Shared
    <3>2. new.owner = i /\ new.loop = request /\ new.state = "pending" /\ new.until = now + CacheTime
      OBVIOUS
    <3>3. now <= now + CacheTime
      BY DEF Inv, TypeOK
    <3>4. QED BY <1>0, <2>3, <3>1, <3>2, <3>3 DEF Inv, Shared
  <2>6. Fresh'
    <3>1. ASSUME NEW j \in Validators \ reused, j # i, v[j] \in {"waiting", "passed"}
          PROVE  UrlOf[j] \in Urls /\ UrlOf[j] # u
      BY <2>2, <3>1 DEF Inv, Fresh, Urls
    <3>2. request > 0 /\ v'[i] = "waiting" /\ \A j \in Validators \ {i} : v'[j] = v[j]
      BY <1>0 DEF Inv, TypeOK, Outcomes
    <3>3. QED BY <1>0, <2>1, <2>3, <3>1, <3>2 DEF Inv, Fresh
  <2>7. Told'
    <3>1. bad \subseteq Urls /\ entry'[u].state # "done"
      BY <2>3 DEF Inv, TypeOK
    <3>2. QED BY <1>0, <2>3, <3>1 DEF Inv, TypeOK, Told
  <2>8. Outcomes'
    BY <1>0 DEF Inv, TypeOK, Outcomes, Accepted
  <2>9. QED BY <2>4, <2>5, <2>6, <2>7, <2>8 DEF Inv
<1>2. CASE ~Expired(u)
  <2>1. /\ reused' = IF entry[u].loop # request THEN reused \cup {i} ELSE reused
        /\ UNCHANGED <<entry, calls>>
    BY <1>2 DEF Lookup
  <2>2. TypeOK'
    BY <1>0, <2>1 DEF Inv, TypeOK
  <2>3. Shared'
    BY <1>0, <2>1 DEF Inv, TypeOK, Shared
  <2>4. Fresh'
    BY <1>0, <2>1 DEF Inv, TypeOK, Fresh, Outcomes
  <2>5. Told'
    BY <1>0, <2>1 DEF Inv, TypeOK, Told
  <2>6. Outcomes'
    BY <1>0 DEF Inv, TypeOK, Outcomes, Accepted
  <2>7. QED BY <2>2, <2>3, <2>4, <2>5, <2>6 DEF Inv
<1>3. QED BY <1>1, <1>2

\* A call returns, in time or after its future was cancelled: the failure of a
\* bad URL is recorded together with the end of the future.
LEMMA InvReturn ==
  ASSUME Inv, NEW u \in Urls, CallReturns(u) \/ LateReturn(u)
  PROVE  Inv'
<1> DEFINE o == entry[u].owner
<1>0. /\ running /\ entry[u].state \in {"pending", "cancelled"} /\ entry[u].loop = request
      /\ UNCHANGED <<now, world, loopVars, v, since, history>>
      /\ failures' = [failures EXCEPT ![o] = @ \cup (IF u \in bad THEN {"ERROR"} ELSE {})]
  BY DEF CallReturns, LateReturn, Reported
<1>1. o \in Validators /\ UrlOf[o] = u
  BY <1>0 DEF Inv, TypeOK, Shared
<1>2. PICK s \in {"done", "cancelled"} : entry' = [entry EXCEPT ![u].state = s]
  <2>1. CASE CallReturns(u)
    BY <2>1 DEF CallReturns
  <2>2. CASE LateReturn(u)
    <3>1. entry[u] = [entry[u] EXCEPT !.state = "cancelled"]
      BY <2>2 DEF LateReturn, Inv, TypeOK
    <3>2. entry' = [entry EXCEPT ![u].state = "cancelled"]
      BY <2>2, <3>1 DEF LateReturn, Inv, TypeOK
    <3>3. QED BY <3>2
  <2>3. QED BY <2>1, <2>2
<1>3. /\ \A w \in Urls \ {u} : entry'[w] = entry[w]
      /\ entry'[u].state = s /\ entry'[u].owner = o /\ entry'[u].loop = request
      /\ entry'[u].until = entry[u].until /\ entry'[u] \in Cached /\ DOMAIN entry' = Urls
  BY <1>0, <1>2 DEF Inv, TypeOK, Cached
<1>4. \A i \in Validators : failures[i] \subseteq failures'[i] /\ failures'[i] \in SUBSET {"ERROR", "WARNING"}
  BY <1>0 DEF Inv, TypeOK
<1>5. TypeOK'
  <2>1. entry' \in [Urls -> Cached]
    BY <1>2, <1>3 DEF Inv, TypeOK, Cached
  <2>2. failures' \in [Validators -> SUBSET {"ERROR", "WARNING"}]
    BY <1>0, <1>4 DEF Inv, TypeOK
  <2>3. \A w \in Urls : entry'[w].state # "none" => entry'[w].owner \in Validators
    BY <1>1, <1>3 DEF Inv, TypeOK
  <2>4. QED BY <1>0, <2>1, <2>2, <2>3 DEF Inv, TypeOK, Cached
<1>6. Shared'
  BY <1>0, <1>1, <1>3 DEF Inv, Shared
<1>7. Fresh'
  <2>1. ASSUME NEW i \in Validators \ reused, UrlOf[i] = u
        PROVE  v[i] # "passed"
    BY <1>0, <2>1 DEF Inv, Fresh
  <2>2. \A i \in Validators : UrlOf[i] \in Urls
    BY DEF Urls
  <2>3. QED BY <1>0, <1>3, <2>1, <2>2 DEF Inv, Fresh
<1>8. Told'
  <2>1. \A i \in Validators : failures[i] # {} => failures'[i] # {}
    BY <1>4
  <2>2. u \in bad => failures'[o] # {}
    BY <1>0, <1>1 DEF Inv, TypeOK
  <2>3. ASSUME NEW w \in bad, w # u, request > 0, entry'[w].state = "done", entry'[w].loop = request
        PROVE  failures'[entry'[w].owner] # {}
    <3>1. w \in Urls /\ entry'[w] = entry[w]
      BY <1>3, <2>3 DEF Inv, TypeOK
    <3>2. entry[w].owner \in Validators /\ failures[entry[w].owner] # {}
      BY <2>3, <3>1 DEF Inv, TypeOK, Told
    <3>3. QED BY <2>1, <3>1, <3>2
  <2>4. QED BY <1>0, <1>3, <2>1, <2>2, <2>3 DEF Inv, Told
<1>9. Outcomes'
  BY <1>0 DEF Inv, Outcomes, Accepted
<1>10. QED BY <1>5, <1>6, <1>7, <1>8, <1>9 DEF Inv

\* The await of a validator ends, by a timeout or by the future it waits for.
LEMMA InvAwaited ==
  ASSUME Inv, NEW i \in Validators, TimedOut(i) \/ Resume(i)
  PROVE  Inv'
<1> DEFINE u == UrlOf[i]
<1>0. running /\ v[i] = "waiting" /\ u \in Urls /\ UNCHANGED <<now, world, loopVars, since, history>>
  BY DEF TimedOut, Resume, Urls
<1>1. PICK l \in {"passed", "warned", "cancelled", "broken"} :
        /\ v' = [v EXCEPT ![i] = l]
        /\ l = "passed" => entry[u].state = "done"
        /\ l = "warned" => failures' = [failures EXCEPT ![i] = @ \cup {"WARNING"}]
        /\ l # "warned" => failures' = failures
  BY DEF TimedOut, Resume, Warn
<1>2. \/ entry' = entry
      \/ /\ entry' = [entry EXCEPT ![u].state = "cancelled"]
         /\ entry[u].state = "pending" /\ entry[u].loop = request
  BY DEF TimedOut, Resume
<1>3. /\ \A w \in Urls \ {u} : entry'[w] = entry[w]
      /\ entry'[u].owner = entry[u].owner /\ entry'[u].loop = entry[u].loop
      /\ entry'[u].until = entry[u].until /\ entry'[u] \in Cached /\ DOMAIN entry' = Urls
      /\ entry'[u].state = entry[u].state \/ (entry[u].state = "pending" /\ entry'[u].state = "cancelled")
  <2>1. entry \in [Urls -> Cached] /\ request' = request
    BY <1>0 DEF Inv, TypeOK, Cached
  <2>2. CASE entry' = entry
    BY <1>0, <2>1, <2>2
  <2>3. CASE entry' = [entry EXCEPT ![u].state = "cancelled"] /\ entry[u].state = "pending"
    BY <1>0, <2>1, <2>3 DEF Cached
  <2>4. QED BY <1>2, <2>2, <2>3
<1>4. /\ v'[i] = l /\ \A j \in Validators \ {i} : v'[j] = v[j]
      /\ failures' \in [Validators -> SUBSET {"ERROR", "WARNING"}]
      /\ \A j \in Validators : failures[j] \subseteq failures'[j]
      /\ l = "warned" => failures'[i] # {}
  <2>1. v'[i] = l /\ \A j \in Validators \ {i} : v'[j] = v[j]
    BY <1>1 DEF Inv, TypeOK
  <2>2. CASE l = "warned"
    <3>1. failures' = [failures EXCEPT ![i] = failures[i] \cup {"WARNING"}]
      BY <1>1, <2>2
    <3>2. failures \in [Validators -> SUBSET {"ERROR", "WARNING"}]
      BY DEF Inv, TypeOK
    <3>3. failures'[i] = failures[i] \cup {"WARNING"} /\ \A j \in Validators \ {i} : failures'[j] = failures[j]
      BY <3>1, <3>2
    <3>4. failures' \in [Validators -> SUBSET {"ERROR", "WARNING"}]
      BY <3>1, <3>2
    <3>5. QED BY <2>1, <3>3, <3>4
  <2>3. CASE l # "warned"
    BY <1>1, <2>1, <2>3 DEF Inv, TypeOK
  <2>4. QED BY <2>2, <2>3
<1>5. TypeOK'
  <2>1. entry' \in [Urls -> Cached]
    BY <1>2, <1>3 DEF Inv, TypeOK, Cached
  <2>2. \A w \in Urls : entry'[w].state # "none" => entry'[w].owner \in Validators
    BY <1>3 DEF Inv, TypeOK
  <2>3. QED BY <1>0, <1>1, <1>4, <2>1, <2>2 DEF Inv, TypeOK, Cached
<1>6. Shared'
  BY <1>0, <1>1, <1>3, <1>4 DEF Inv, Shared
<1>7. Fresh'
  <2>1. \A j \in Validators : UrlOf[j] \in Urls
    BY DEF Urls
  <2>2. ASSUME NEW j \in Validators \ reused, v'[j] \in {"waiting", "passed"}
        PROVE  entry[UrlOf[j]].loop = request /\ request > 0
    BY <1>0, <1>4, <2>2 DEF Inv, Fresh
  <2>3. ASSUME NEW j \in Validators \ reused, v'[j] = "passed"
        PROVE  entry[UrlOf[j]].state = "done"
    BY <1>1, <1>4, <2>3 DEF Inv, Fresh
  <2>4. QED BY <1>0, <1>3, <2>1, <2>2, <2>3 DEF Fresh
<1>8. Told'
  <2>1. ASSUME NEW w \in bad, request > 0, entry'[w].state = "done", entry'[w].loop = request
        PROVE  failures'[entry'[w].owner] # {}
    <3>1. w \in Urls /\ entry[w].state = "done" /\ entry[w].loop = request /\ entry'[w].owner = entry[w].owner
      BY <1>3, <2>1 DEF Inv, TypeOK
    <3>2. entry[w].owner \in Validators /\ failures[entry[w].owner] # {}
      BY <2>1, <3>1 DEF Inv, TypeOK, Told
    <3>3. QED BY <1>4, <3>1, <3>2
  <2>2. ASSUME NEW j \in Validators, v'[j] = "warned" PROVE failures'[j] # {}
    BY <1>4, <2>2 DEF Inv, Told
  <2>3. QED BY <1>0, <2>1, <2>2 DEF Told
<1>9. Outcomes'
  <2>1. ~Accepted /\ ~Accepted'
    BY <1>0 DEF Inv, TypeOK, Outcomes, Accepted
  <2>2. QED BY <1>0, <2>1 DEF Inv, Outcomes
<1>10. QED BY <1>5, <1>6, <1>7, <1>8, <1>9 DEF Inv

\* A validation ends; time passes.
LEMMA InvEnd ==
  ASSUME Inv, GatherFails \/ GatherEnds \/ Tick
  PROVE  Inv'
<1>0. UNCHANGED <<world, entry, request, v, since, failures, history>> /\ now <= now'
  BY DEF GatherFails, GatherEnds, Tick, End, Inv, TypeOK
<1>1. TypeOK'
  <2>0. running' \in BOOLEAN
    BY DEF GatherFails, GatherEnds, Tick, End, Inv, TypeOK
  <2>1. now' \in 0..MaxTime
    BY BoundsAssumption DEF GatherFails, GatherEnds, Tick, End, Inv, TypeOK
  <2>2. outcome' \in [1..MaxRequests -> {"none", "accepted", "rejected", "crashed"}]
    BY DEF GatherFails, GatherEnds, Tick, End, Inv, TypeOK
  <2>3. QED BY <1>0, <2>0, <2>1, <2>2 DEF Inv, TypeOK
<1>2. Shared'
  BY <1>0 DEF GatherFails, GatherEnds, Tick, End, Inv, TypeOK, Shared
<1>3. Fresh' /\ Told'
  BY <1>0 DEF Inv, Fresh, Told
<1>4. Outcomes'
  <2>1. CASE Tick
    BY <2>1 DEF Tick, Inv, Outcomes, Accepted
  <2>2. CASE GatherFails \/ GatherEnds
    <3>1. PICK how \in {"crashed", "rejected", "accepted"} :
            /\ running' = FALSE /\ request' = request /\ running
            /\ outcome' = [outcome EXCEPT ![request] = how]
            /\ how = "accepted" => \A i \in Validators : v[i] \in {"passed", "warned"}
      BY <2>2 DEF GatherFails, GatherEnds, End
    <3>2. request \in 1..MaxRequests
      BY <3>1, BoundsAssumption DEF Inv, TypeOK, Outcomes
    <3>3. outcome'[request] = how /\ \A n \in 1..MaxRequests \ {request} : outcome'[n] = outcome[n]
      BY <3>1, <3>2 DEF Inv, TypeOK
    <3>4. QED BY <1>0, <3>1, <3>2, <3>3 DEF Inv, Outcomes, Accepted
  <2>3. QED BY <2>1, <2>2
<1>5. QED BY <1>1, <1>2, <1>3, <1>4 DEF Inv

\* Every step of the coroutines, of the event loop and of the clock keeps Inv.
THEOREM Invariance == Spec => []Inv
<1>1. Inv /\ [Next]_vars => Inv'
  <2>1. ASSUME Inv, Next PROVE Inv'
    BY <2>1, InvBegin, InvLookup, InvReturn, InvAwaited, InvEnd DEF Next
  <2>2. ASSUME Inv, UNCHANGED vars PROVE Inv'
    BY <2>2 DEF vars, Inv, TypeOK, Shared, Fresh, Told, Outcomes, Accepted
  <2>3. QED BY <2>1, <2>2
<1>2. QED BY <1>1, InvInit, PTL DEF Spec

\* The cache, the coroutines and the outcomes keep their types.
THEOREM TypeCorrect == Spec => []TypeOK
<1>1. Inv => TypeOK
  BY DEF Inv
<1>2. QED BY <1>1, Invariance, PTL

\* However many validators share a URL, one validation asks for it once at most.
THEOREM AskedOnce == Spec => []OneCallPerUrl
<1>1. Inv => OneCallPerUrl
  BY DEF Inv, Shared, OneCallPerUrl
<1>2. QED BY <1>1, Invariance, PTL

\* A validation that met no future of an earlier one accepts no bad URL without
\* a word, whatever times out and whoever shares the future.
THEOREM FreshIsSound == Spec => []SoundWhenFresh
<1>1. Inv => SoundWhenFresh
  <2>1. SUFFICES ASSUME Inv, Accepted, reused = {}, NEW u \in bad
                 PROVE  \E i \in Validators : UrlOf[i] = u /\ failures[i] # {}
    BY DEF SoundWhenFresh, Overlooked
  <2>2. PICK i \in Validators : UrlOf[i] = u
    BY <2>1 DEF Inv, TypeOK, Urls
  <2>3. CASE v[i] = "warned"
    BY <2>1, <2>2, <2>3 DEF Inv, Told
  <2>4. CASE v[i] = "passed"
    <3>1. u \in Urls /\ entry[u].state = "done" /\ entry[u].loop = request /\ request > 0
      BY <2>1, <2>2, <2>4 DEF Inv, Fresh, Urls
    <3>2. failures[entry[u].owner] # {}
      BY <2>1, <3>1 DEF Inv, Told
    <3>3. entry[u].owner \in Validators /\ UrlOf[entry[u].owner] = u
      BY <2>1, <3>1 DEF Inv, TypeOK, Shared
    <3>4. QED BY <3>2, <3>3
  <2>5. QED BY <2>1, <2>3, <2>4 DEF Inv, Outcomes
<1>2. QED BY <1>1, Invariance, PTL

=============================================================================
