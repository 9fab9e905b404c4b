-------------------------- MODULE StackCleanup_proofs --------------------------
(***************************************************************************)
(* Proofs about StackCleanup, for any number of items and pages, however   *)
(* the items are spread over the pages, and for any limit, last sleep and  *)
(* timeout that fit together.  The invariant says what a pass without a    *)
(* failed call has achieved so far (PassDone), what is left of the items   *)
(* once the first loop is over (AllAsked), and where the clock may be      *)
(* (OnTime).                                                               *)
(***************************************************************************)
EXTENDS StackCleanup, TLAPS

\* The items on the pages behind a pass that has met no failure have been asked
\* to go, and all of them when the pass is over.
PassDone ==
  /\ pc = "pages" /\ ok => \A i \in Items : PageOf[i] < page => item[i] # "present"
  /\ pc = "sleep" /\ ok => \A i \in Items : item[i] # "present"
  /\ pc = "sleep" => page = 1

\* Instances shut down, records are gone; the function returns before an
\* instance is gone only past its limit.
AllAsked ==
  /\ ~Nodes => \A i \in Items : item[i] \in {"present", "gone"}
  /\ pc \in {"wait", "last"} => \A i \in Items : item[i] \in {"shutting-down", "gone"}
  /\ pc = "wait" => Nodes
  /\ pc = "last" => clock > Limit \/ \A i \in Items : item[i] = "gone"

\* Unless the first loop ended past the limit, the second one ends in time.
OnTime ==
  /\ pc \in {"pages", "sleep"} => passed = Never
  /\ pc = "wait" /\ passed <= Limit => clock <= Limit + 1
  /\ pc = "last" /\ passed <= Limit => clock <= Limit + 1 + LastSleep

Ended == result # "none" => pc = "done"

Inv ==
  TypeOK /\ PassDone /\ AllAsked /\ OnTime /\ Ended /\ SuccessMeansRemoved /\ WaitFitsTimeout

\* The handler is about to begin.
LEMMA InvInit == Init => Inv
<1> SUFFICES ASSUME Init PROVE Inv
  OBVIOUS
<1> USE PagesAssumption, TimesAssumption DEF Init
<1>1. TypeOK /\ OnTime
  BY DEF TypeOK, OnTime, Never
<1>2. PassDone /\ AllAsked
  BY DEF PassDone, AllAsked
<1>3. Ended /\ SuccessMeansRemoved /\ WaitFitsTimeout
  BY DEF Ended, SuccessMeansRemoved, WaitFitsTimeout
<1>4. QED BY <1>1, <1>2, <1>3 DEF Inv

\* What happens to the items of one page, whether or not all of them go.
LEMMA Removal ==
  ASSUME Inv, NEW S \in SUBSET Found, pc = "pages",
         item' = [i \in Items |-> IF i \in S THEN Removed ELSE item[i]],
         action' = action
  PROVE  /\ item' \in [Items -> {"present", "accepted", "shutting-down", "gone"}]
         /\ ~Nodes => \A i \in Items : item'[i] \in {"present", "gone"}
         /\ \A i \in Items : item[i] # "present" \/ i \in S => item'[i] # "present"
  BY DEF Inv, TypeOK, AllAsked, Removed, Found, Nodes

\* The next page is one of the listing's, and after the last one comes the sleep.
LEMMA TurnsPage ==
  ASSUME Inv, Turn, pc = "pages"
  PROVE  /\ page' \in 1..Pages
         /\ \/ pc' = "pages" /\ page < Pages /\ page' = page + 1
            \/ pc' = "sleep" /\ page = Pages /\ page' = 1
  BY PagesAssumption DEF Inv, TypeOK, Turn

\* Each step of the handler, of EC2 and of Lambda keeps the invariant.
LEMMA InvNext == Inv /\ [Next]_vars => Inv'
<1> SUFFICES ASSUME Inv, [Next]_vars PROVE Inv'
  OBVIOUS
<1> USE PagesAssumption, TimesAssumption
<1>1. CASE RemovePage
  <2> USE <1>1 DEF RemovePage, Running
  <2>1. /\ item' \in [Items -> {"present", "accepted", "shutting-down", "gone"}]
        /\ ~Nodes => \A i \in Items : item'[i] \in {"present", "gone"}
        /\ \A i \in Items : item[i] # "present" \/ i \in Found => item'[i] # "present"
    BY Removal
  <2>2. /\ page' \in 1..Pages
        /\ \/ pc' = "pages" /\ page < Pages /\ page' = page + 1
           \/ pc' = "sleep" /\ page = Pages /\ page' = 1
    BY TurnsPage
  <2>3. ASSUME NEW i \in Items, ok, PageOf[i] <= page PROVE item'[i] # "present"
    BY <2>1, <2>3 DEF Inv, TypeOK, PassDone, Found
  <2>4. TypeOK' /\ OnTime' /\ Ended'
    BY <2>1, <2>2 DEF Inv, TypeOK, OnTime, Ended, Never
  <2>5. PassDone'
    BY <2>2, <2>3 DEF Inv, TypeOK, PassDone
  <2>6. AllAsked'
    BY <2>1, <2>2 DEF Inv, AllAsked, Nodes
  <2>7. SuccessMeansRemoved' /\ WaitFitsTimeout'
    BY DEF Inv, Ended, SuccessMeansRemoved, WaitFitsTimeout
  <2>8. QED BY <2>4, <2>5, <2>6, <2>7 DEF Inv
<1>2. CASE RemovePageFails
  <2> USE <1>2 DEF RemovePageFails, Running, FailureNoted
  <2>1. /\ item' \in [Items -> {"present", "accepted", "shutting-down", "gone"}]
        /\ ~Nodes => \A i \in Items : item'[i] \in {"present", "gone"}
    BY Removal
  <2>2. /\ page' \in 1..Pages
        /\ \/ pc' = "pages" /\ page < Pages /\ page' = page + 1
           \/ pc' = "sleep" /\ page = Pages /\ page' = 1
    BY TurnsPage
  <2>3. TypeOK' /\ OnTime' /\ Ended'
    BY <2>1, <2>2 DEF Inv, TypeOK, OnTime, Ended, Never
  <2>4. PassDone' /\ AllAsked'
    BY <2>1, <2>2 DEF Inv, PassDone, AllAsked, Nodes
  <2>5. SuccessMeansRemoved' /\ WaitFitsTimeout'
    BY DEF Inv, Ended, SuccessMeansRemoved, WaitFitsTimeout
  <2>6. QED BY <2>3, <2>4, <2>5 DEF Inv
<1>3. CASE ListingFails
  BY <1>3 DEF ListingFails, Running, End, Inv, TypeOK, PassDone, AllAsked, OnTime, Ended,
              SuccessMeansRemoved, WaitFitsTimeout, Nodes, Never
<1>4. CASE Sleep
  <2> USE <1>4 DEF Sleep, Running
  <2>1. item' \in [Items -> {"present", "accepted", "shutting-down", "gone"}]
    BY DEF Inv, TypeOK, Begun
  <2>2. ~Nodes => \A i \in Items : item'[i] \in {"present", "gone"}
    BY DEF Inv, AllAsked, Begun
  <2>3. ok => \A i \in Items : item'[i] \in {"shutting-down", "gone"}
    BY DEF Inv, TypeOK, PassDone, Begun
  <2>4. TypeOK'
    BY <2>1 DEF Inv, TypeOK, Never
  <2>5. PassDone' /\ Ended'
    BY DEF Inv, TypeOK, PassDone, Ended
  <2>6. AllAsked'
    BY <2>2, <2>3 DEF AllAsked, Nodes
  <2>7. OnTime'
    BY DEF Inv, TypeOK, OnTime, Never
  <2>8. SuccessMeansRemoved' /\ WaitFitsTimeout'
    BY DEF Inv, Ended, SuccessMeansRemoved, WaitFitsTimeout
  <2>9. QED BY <2>4, <2>5, <2>6, <2>7, <2>8 DEF Inv
<1>5. CASE Wait
  <2> USE <1>5 DEF Wait, Running
  <2>1. TypeOK' /\ PassDone' /\ Ended'
    BY DEF Inv, TypeOK, PassDone, Ended, Never
  <2>2. AllAsked'
    BY DEF Inv, TypeOK, AllAsked, Nodes, KeepsWaiting, ShuttingDown
  <2>3. OnTime'
    BY DEF Inv, TypeOK, OnTime, KeepsWaiting, Never
  <2>4. SuccessMeansRemoved' /\ WaitFitsTimeout'
    BY DEF Inv, Ended, SuccessMeansRemoved, WaitFitsTimeout
  <2>5. QED BY <2>1, <2>2, <2>3, <2>4 DEF Inv
<1>6. CASE Return
  <2> USE <1>6 DEF Return, Running, End
  <2>1. TypeOK' /\ PassDone' /\ AllAsked' /\ OnTime' /\ Ended'
    BY DEF Inv, TypeOK, PassDone, AllAsked, OnTime, Ended, Nodes, Never
  <2>2. SuccessMeansRemoved' /\ WaitFitsTimeout'
    BY DEF Inv, AllAsked, SuccessMeansRemoved, WaitFitsTimeout
  <2>3. QED BY <2>1, <2>2 DEF Inv
<1>7. CASE Killed
  <2> USE <1>7 DEF Killed, End
  <2>1. TypeOK' /\ PassDone' /\ AllAsked' /\ OnTime' /\ Ended'
    BY DEF Inv, TypeOK, PassDone, AllAsked, OnTime, Ended, Nodes, Never
  <2>2. WaitFitsTimeout'
    BY DEF Inv, TypeOK, OnTime, WaitFitsTimeout, Never
  <2>3. SuccessMeansRemoved'
    BY DEF SuccessMeansRemoved
  <2>4. QED BY <2>1, <2>2, <2>3 DEF Inv
<1>8. ASSUME NEW i \in Items, InstanceGone(i) PROVE Inv'
  BY <1>8 DEF InstanceGone, Inv, TypeOK, PassDone, AllAsked, OnTime, Ended,
              SuccessMeansRemoved, WaitFitsTimeout, Nodes, Never
<1>9. CASE UNCHANGED vars
  BY <1>9 DEF vars, Inv, TypeOK, PassDone, AllAsked, OnTime, Ended, SuccessMeansRemoved,
              WaitFitsTimeout, Nodes, Never
<1>10. QED
  BY <1>1, <1>2, <1>3, <1>4, <1>5, <1>6, <1>7, <1>8, <1>9 DEF Next, Handler

\* The invariant behind the theorems below.
THEOREM Invariance == Spec => []Inv
  BY InvInit, InvNext, PTL DEF Spec

\* Types of the items, the clock and the handler.
THEOREM TypeCorrect == Spec => []TypeOK
  BY Invariance, PTL DEF Inv

\* Success is reported only when nothing is left to remove, however many pages
\* there are and whichever calls fail, how often.
THEOREM RemovedOnSuccess == Spec => []SuccessMeansRemoved
  BY Invariance, PTL DEF Inv

\* For every limit that leaves room for one more sleep and the last one, the
\* function exceeds its timeout only if the loop without a limit has used it up.
THEOREM WaitInTime == Spec => []WaitFitsTimeout
  BY Invariance, PTL DEF Inv

=============================================================================
