--------------------------- MODULE LogsExport_proofs ---------------------------
(***************************************************************************)
(* Proofs about LogsExport, for any number of invocations and log groups.  *)
(* The invariant says at which steps an invocation has which task          *)
(* (TasksFollowed), that who follows another's task keeps its objects and  *)
(* who follows its own has that one's prefix (AdoptedKept), and why output *)
(* that is missing is missing (Removed).                                   *)
(***************************************************************************)
EXTENDS LogsExport, TLAPS

Early == {"start", "list", "relist", "create"}
Late  == {"download", "fetch", "cleanup", "cleanup_failed"}

TasksFollowed ==
  \A p \in Processes :
    /\ pc[p] \in Early => tid[p] = NONE /\ ~got[p]
    /\ pc[p] \in Early \ {"relist"} => task[p] = "none"
    /\ pc[p] \in Late \cup {"wait"} \/ result[p] = "ok" => tid[p] \in Processes
    /\ pc[p] \in Late \/ result[p] = "ok" => task[tid[p]] = "completed"
    /\ result[p] # "none" => pc[p] = "done"
    /\ p \in objects => task[p] = "completed"

AdoptedKept ==
  \A p \in Processes :
    /\ tid[p] \notin {p, NONE} => keep[p]
    /\ tid[p] = p => dest[p] = prefix[p]
    /\ wide[p] => prefix[p] # Custom

\* Another invocation that found the default prefix of this one empty, and has
\* deleted what is there.
Swept(p) == \E q \in Processes \ {p} : pc[q] = "done" /\ wide[q] /\ prefix[q] = dest[p]

Removed ==
  \A p \in Processes :
    /\ task[p] = "completed" /\ p \notin objects /\ pc[p] # "done" => Swept(p)
    /\ tid[p] = p /\ (pc[p] = "cleanup" \/ result[p] = "ok") => got[p] \/ Swept(p)

Inv == TypeOK /\ TasksFollowed /\ AdoptedKept /\ Removed /\ NothingLeftBehind

USE DEF serviceVars, ownVars

\* No invocation has begun.
LEMMA InvInit == Init => Inv
  BY ProcessesAssumption
     DEF Init, Inv, TypeOK, TasksFollowed, AdoptedKept, Removed, NothingLeftBehind, Early, Late

\* An invocation that is over keeps its prefix and its permission to delete, and
\* a task its destination: whatever was swept stays so.
LEMMA SweptStays ==
  ASSUME Inv, Next, NEW p \in Processes, task[p] # "none", Swept(p)
  PROVE  Swept(p)'
<1>0. DOMAIN pc = Processes /\ DOMAIN wide = Processes /\ DOMAIN prefix = Processes
  BY DEF Inv, TypeOK
<1>1. ASSUME NEW q \in Processes, pc[q] \notin Early
      PROVE  wide'[q] = wide[q] /\ prefix'[q] = prefix[q] /\ (pc[q] = "done" => pc'[q] = "done")
  <2>1. ASSUME NEW r \in Processes, Start(r) \/ ListTasks(r)
        PROVE  wide'[q] = wide[q] /\ prefix'[q] = prefix[q] /\ (pc[q] = "done" => pc'[q] = "done")
    <3>1. q # r
      BY <1>1, <2>1 DEF Start, ListTasks, Early
    <3>2. CASE Start(r)
      <4>1. PICK k \in BOOLEAN, x \in {Custom, Default(r)} :
              /\ prefix' = [prefix EXCEPT ![r] = x]
              /\ wide'   = [wide EXCEPT ![r] = x # Custom /\ Under(x) = {}]
        BY <3>2 DEF Start
      <4>2. QED BY <1>0, <3>1, <3>2, <4>1 DEF Start, Goto
    <3>3. CASE ListTasks(r)
      BY <1>0, <3>1, <3>3 DEF ListTasks, Attach, Goto, End
    <3>4. QED BY <2>1, <3>2, <3>3
  <2>2. ASSUME NEW r \in Processes,
               \/ CreateTask(r) \/ LimitExceeded(r) \/ Poll(r) \/ ListObjects(r)
               \/ Fetch(r) \/ Cleanup(r) \/ Interrupt(r) \/ TaskEnds(r)
        PROVE  wide'[q] = wide[q] /\ prefix'[q] = prefix[q] /\ (pc[q] = "done" => pc'[q] = "done")
    BY <1>0, <2>2 DEF CreateTask, LimitExceeded, Poll, ListObjects, Fetch, Cleanup, Interrupt,
                      TaskEnds, Goto, End
  <2>3. QED BY <2>1, <2>2 DEF Next, Step
<1>2. dest'[p] = dest[p]
  <2>1. ASSUME NEW r \in Processes, CreateTask(r) PROVE dest'[p] = dest[p]
    <3>1. r # p
      BY <2>1 DEF CreateTask, Inv, TasksFollowed, Early
    <3>2. QED BY <2>1, <3>1 DEF CreateTask, Inv, TypeOK
  <2>2. QED
    BY <2>1 DEF Next, Step, Start, ListTasks, LimitExceeded, Poll, ListObjects, Fetch, Cleanup,
                Interrupt, TaskEnds
<1>3. PICK q \in Processes \ {p} : pc[q] = "done" /\ wide[q] /\ prefix[q] = dest[p]
  BY DEF Swept
<1>4. QED BY <1>1, <1>2, <1>3 DEF Swept, Early

\* What an invocation does before it has a task removes nothing.
LEMMA RemovedKept ==
  ASSUME Inv, Next, NEW r \in Processes, pc[r] \in Early, UNCHANGED <<task, objects, got>>,
         pc'[r] # "cleanup", result'[r] # "ok",
         \A p \in Processes \ {r} : pc'[p] = pc[p] /\ tid'[p] = tid[p] /\ result'[p] = result[p]
  PROVE  Removed'
<1>1. pc[r] # "done"
  BY DEF Early
<1>2. ASSUME NEW p \in Processes, task[p] = "completed", p \notin objects, pc[p] # "done"
      PROVE  Swept(p)'
  BY <1>2, SweptStays DEF Inv, Removed
<1>3. ASSUME NEW p \in Processes \ {r}, tid[p] = p, pc[p] = "cleanup" \/ result[p] = "ok"
      PROVE  got[p] \/ Swept(p)'
  <2>1. task[p] # "none"
    BY <1>3 DEF Inv, TasksFollowed, Late
  <2>2. QED BY <1>3, <2>1, SweptStays DEF Inv, Removed
<1>4. QED BY <1>1, <1>2, <1>3 DEF Removed

\* __init__ and the listings: no task exists yet, or another's is adopted.
LEMMA InvStart ==
  ASSUME Inv, NEW r \in Processes, Start(r)
  PROVE  Inv'
<1> USE ProcessesAssumption DEF Goto
<1>1. PICK k \in BOOLEAN, x \in {Custom, Default(r)} :
        /\ prefix' = [prefix EXCEPT ![r] = x]
        /\ wide'   = [wide EXCEPT ![r] = x # Custom /\ Under(x) = {}]
        /\ keep'   = [keep EXCEPT ![r] = k]
  BY DEF Start
<1>2. PICK w \in BOOLEAN : wide' = [wide EXCEPT ![r] = w] /\ (w => x # Custom)
  BY <1>1
<1>3. TypeOK'
  BY <1>1, <1>2 DEF Start, Default, Inv, TypeOK
<1>4. TasksFollowed'
  BY DEF Start, Inv, TypeOK, TasksFollowed, Early, Late
<1>5. AdoptedKept'
  BY <1>1, <1>2 DEF Start, Inv, TypeOK, TasksFollowed, AdoptedKept, Early
<1>6. Removed'
  <2>1. pc'[r] # "cleanup" /\ result'[r] # "ok"
    BY DEF Start, Inv, TypeOK, TasksFollowed
  <2>2. \A p \in Processes \ {r} : pc'[p] = pc[p] /\ tid'[p] = tid[p] /\ result'[p] = result[p]
    BY DEF Start, Inv, TypeOK
  <2>3. QED BY <2>1, <2>2, RemovedKept DEF Start, Early, Next
<1>7. NothingLeftBehind'
  BY <1>1 DEF Start, Inv, TypeOK, TasksFollowed, NothingLeftBehind, Early
<1>8. QED BY <1>3, <1>4, <1>5, <1>6, <1>7 DEF Inv

LEMMA InvListTasks ==
  ASSUME Inv, NEW r \in Processes, ListTasks(r)
  PROVE  Inv'
<1> USE ProcessesAssumption DEF ListTasks, Goto, End
<1>1. TypeOK'
  <2>1. CASE \E t \in Active : GroupOf[t] = GroupOf[r] /\ Attach(r, t)
    <3>1. PICK t \in Processes : GroupOf[t] = GroupOf[r] /\ Attach(r, t)
      BY <2>1 DEF Active
    <3>2. /\ prefix' \in [Processes -> {Custom} \cup {GroupOf[p] : p \in Processes}]
          /\ \A p \in Processes : prefix'[p] \in {Custom, GroupOf[p]}
      BY <3>1 DEF Attach, Inv, TypeOK
    <3>3. wide' \in [Processes -> BOOLEAN] /\ keep' \in [Processes -> BOOLEAN] /\ got' = got
      BY <3>1 DEF Attach, AdoptedIsKept, Inv, TypeOK
    <3>4. tid' \in [Processes -> Processes \cup {NONE}]
      BY <3>1 DEF Attach, Inv, TypeOK
    <3>5. QED BY <3>1, <3>2, <3>3, <3>4 DEF Attach, Inv, TypeOK
  <2>2. CASE UNCHANGED ownVars
    BY <2>2 DEF Inv, TypeOK, Attach
  <2>3. QED BY <2>1, <2>2
<1>2. TasksFollowed'
  BY DEF Inv, TypeOK, TasksFollowed, Attach, Active, Early, Late
<1>3. AdoptedKept'
  BY DEF Inv, TypeOK, TasksFollowed, AdoptedKept, Attach, AdoptedIsKept, Early
<1>4. Removed'
  <2>1. pc'[r] # "cleanup" /\ result'[r] # "ok"
    BY DEF Inv, TypeOK, TasksFollowed, Attach
  <2>2. \A p \in Processes \ {r} : pc'[p] = pc[p] /\ tid'[p] = tid[p] /\ result'[p] = result[p]
    BY DEF Inv, TypeOK, Attach
  <2>3. UNCHANGED <<task, objects, got>> /\ pc[r] \in Early
    BY DEF Attach, Early
  <2>4. QED BY <2>1, <2>2, <2>3, RemovedKept DEF Next, Step
<1>5. NothingLeftBehind'
  BY DEF Inv, TypeOK, TasksFollowed, NothingLeftBehind, Attach, AdoptedIsKept, Early
<1>6. QED BY <1>1, <1>2, <1>3, <1>4, <1>5 DEF Inv

\* create_export_task, refused or accepted, with or without an answer.
LEMMA InvCreateTask ==
  ASSUME Inv, NEW r \in Processes, CreateTask(r) \/ LimitExceeded(r)
  PROVE  Inv'
<1> USE ProcessesAssumption DEF CreateTask, LimitExceeded, Goto, End
<1>1. TypeOK'
  BY DEF Inv, TypeOK
<1>2. TasksFollowed'
  BY DEF Inv, TypeOK, TasksFollowed, Early, Late
<1>3. AdoptedKept'
  BY DEF Inv, TypeOK, AdoptedKept
<1>4. Removed'
  <2>1. pc[r] = "create" /\ task[r] = "none"
    BY DEF Inv, TasksFollowed, Early
  <2>2. task'[r] # "completed" /\ ~(pc'[r] = "cleanup" \/ result'[r] = "ok")
    BY <2>1 DEF Inv, TypeOK, TasksFollowed
  <2>3. ASSUME NEW p \in Processes \ {r}, Removed
        PROVE  /\ task'[p] = "completed" /\ p \notin objects' /\ pc'[p] # "done" => Swept(p)'
               /\ tid'[p] = p /\ (pc'[p] = "cleanup" \/ result'[p] = "ok") => got'[p] \/ Swept(p)'
    <3>1. /\ task'[p] = task[p] /\ pc'[p] = pc[p] /\ tid'[p] = tid[p] /\ result'[p] = result[p]
          /\ objects' = objects /\ got' = got
      BY DEF Inv, TypeOK
    <3>2. tid[p] = p /\ (pc[p] = "cleanup" \/ result[p] = "ok") => task[p] = "completed"
      BY DEF Inv, TasksFollowed, Late
    <3>3. QED BY <2>3, <3>1, <3>2, SweptStays DEF Removed, Next, Step
  <2>4. QED BY <2>2, <2>3 DEF Inv, Removed
<1>5. NothingLeftBehind'
  BY DEF Inv, TypeOK, TasksFollowed, NothingLeftBehind
<1>6. QED BY <1>1, <1>2, <1>3, <1>4, <1>5 DEF Inv

\* The wait, the listing of the objects, their download and an interruption
\* leave the bucket alone. Without a download the output was not there.
LEMMA InvFollow ==
  ASSUME Inv, NEW r \in Processes, Poll(r) \/ ListObjects(r) \/ Fetch(r) \/ Interrupt(r)
  PROVE  Inv'
<1> USE ProcessesAssumption DEF Poll, ListObjects, Fetch, Interrupt, Goto, End
<1>1. TypeOK'
  BY DEF Inv, TypeOK
<1>2. TasksFollowed'
  <2>1. UNCHANGED <<task, objects, tid>> /\ pc[r] # "start"
    OBVIOUS
  <2>2. ASSUME NEW p \in Processes \ {r}
        PROVE  pc'[p] = pc[p] /\ result'[p] = result[p] /\ got'[p] = got[p]
    BY DEF Inv, TypeOK
  <2>3. /\ pc'[r] \notin Early
        /\ pc'[r] \in Late => tid[r] \in Processes /\ task[tid[r]] = "completed"
        /\ pc'[r] # "wait" /\ result'[r] # "ok" /\ (result'[r] # "none" => pc'[r] = "done")
    BY DEF Inv, TypeOK, TasksFollowed, Early, Late
  <2>4. QED BY <2>1, <2>2, <2>3 DEF Inv, TasksFollowed, Early
<1>3. AdoptedKept'
  BY DEF Inv, AdoptedKept
<1>4. Removed'
  <2>1. ASSUME NEW p \in Processes, Swept(p), task[p] = "completed" PROVE Swept(p)'
    BY <2>1, SweptStays DEF Next, Step
  <2>2. ASSUME NEW p \in Processes, p # r
        PROVE  /\ task'[p] = "completed" /\ p \notin objects' /\ pc'[p] # "done" => Swept(p)'
               /\ tid'[p] = p /\ (pc'[p] = "cleanup" \/ result'[p] = "ok") => got'[p] \/ Swept(p)'
    <3>1. /\ task'[p] = task[p] /\ pc'[p] = pc[p] /\ tid'[p] = tid[p] /\ result'[p] = result[p]
          /\ objects' = objects /\ got'[p] = got[p]
      BY <2>2 DEF Inv, TypeOK
    <3>2. tid[p] = p /\ (pc[p] = "cleanup" \/ result[p] = "ok") => task[p] = "completed"
      BY DEF Inv, TasksFollowed, Late
    <3>3. QED BY <2>1, <3>1, <3>2 DEF Inv, Removed
  <2>3. /\ task'[r] = "completed" /\ r \notin objects' /\ pc'[r] # "done" => Swept(r)'
        /\ tid'[r] = r /\ (pc'[r] = "cleanup" \/ result'[r] = "ok") => got'[r] \/ Swept(r)'
    <3>1. task' = task /\ objects' = objects /\ tid' = tid /\ result'[r] # "ok"
      BY DEF Inv, TypeOK, TasksFollowed
    <3>3. pc[r] # "done"
      BY DEF Inv, TasksFollowed
    <3>4. pc'[r] = "cleanup" /\ tid[r] = r => got'[r] \/ (task[r] = "completed" /\ r \notin objects)
      BY DEF Inv, TypeOK, TasksFollowed, Late
    <3>5. QED BY <2>1, <3>1, <3>3, <3>4 DEF Inv, Removed
  <2>4. QED BY <2>2, <2>3 DEF Removed
<1>5. NothingLeftBehind'
  BY DEF Inv, TypeOK, TasksFollowed, NothingLeftBehind
<1>6. QED BY <1>1, <1>2, <1>3, <1>4, <1>5 DEF Inv

\* A step of another invocation that leaves this one's task, output and download
\* alone leaves the account of its missing output true.
LEMMA RemovedOther ==
  ASSUME Inv, Next, NEW p \in Processes, task'[p] = task[p], p \in objects => p \in objects',
         pc'[p] = pc[p], tid'[p] = tid[p], result'[p] = result[p], got'[p] = got[p]
  PROVE  /\ task'[p] = "completed" /\ p \notin objects' /\ pc'[p] # "done" => Swept(p)'
         /\ tid'[p] = p /\ (pc'[p] = "cleanup" \/ result'[p] = "ok") => got'[p] \/ Swept(p)'
<1>1. tid[p] = p /\ (pc[p] = "cleanup" \/ result[p] = "ok") => task[p] = "completed"
  BY DEF Inv, TasksFollowed, Late
<1>2. QED BY <1>1, SweptStays DEF Inv, Removed

\* What a cleanup deletes is the invocation's own, or under the default prefix
\* it found empty: an adopted task's objects are kept.
LEMMA DeletesOwn ==
  ASSUME Inv, NEW r \in Processes, Cleanup(r), NEW t \in objects \ objects'
  PROVE  t = r \/ (wide[r] /\ prefix[r] = dest[t] /\ prefix[r] # Custom)
<1>1. ~keep[r] /\ t \in Deletable(r)
  BY DEF Cleanup
<1>2. CASE wide[r]
  BY <1>1, <1>2 DEF Deletable, Under, Inv, AdoptedKept
<1>3. CASE ~wide[r]
  <2>1. t = tid[r] /\ t \in Processes
    BY <1>1, <1>3 DEF Deletable, Inv, TypeOK
  <2>2. QED BY <1>1, <2>1, ProcessesAssumption DEF Inv, AdoptedKept
<1>4. QED BY <1>2, <1>3

\* The finally clause of execute.
LEMMA InvCleanup ==
  ASSUME Inv, NEW r \in Processes, Cleanup(r)
  PROVE  Inv'
<1> USE ProcessesAssumption DEF Cleanup, End
<1>0. /\ objects' \subseteq objects /\ task' = task /\ dest' = dest /\ tid' = tid /\ got' = got
      /\ wide' = wide /\ prefix' = prefix /\ keep' = keep
      /\ pc' = [pc EXCEPT ![r] = "done"]
  OBVIOUS
<1>1. TypeOK'
  BY <1>0 DEF Inv, TypeOK
<1>2. PICK how \in {"ok", "failed"} :
        result' = [result EXCEPT ![r] = how] /\ (how = "ok" => pc[r] = "cleanup")
  OBVIOUS
<1>3. TasksFollowed'
  <2>1. tid[r] \in Processes /\ task[tid[r]] = "completed"
    BY DEF Inv, TasksFollowed, Late
  <2>2. QED BY <1>0, <1>2, <2>1 DEF Inv, TypeOK, TasksFollowed, Early, Late
<1>4. AdoptedKept'
  BY <1>0 DEF Inv, AdoptedKept
<1>5. Removed'
  <2>1. ASSUME NEW p \in Processes, p # r
        PROVE  /\ task'[p] = "completed" /\ p \notin objects' /\ pc'[p] # "done" => Swept(p)'
               /\ tid'[p] = p /\ (pc'[p] = "cleanup" \/ result'[p] = "ok") => got'[p] \/ Swept(p)'
    <3>1. pc'[p] = pc[p] /\ result'[p] = result[p]
      BY <1>0, <1>2, <2>1 DEF Inv, TypeOK
    <3>2. CASE p \in objects /\ p \notin objects'
      <4>1. wide[r] /\ prefix[r] = dest[p]
        BY <2>1, <3>2, DeletesOwn
      <4>2. pc'[r] = "done"
        BY <1>0 DEF Inv, TypeOK
      <4>3. QED BY <1>0, <2>1, <4>1, <4>2 DEF Swept
    <3>3. CASE p \in objects => p \in objects'
      BY <1>0, <3>1, <3>3, RemovedOther DEF Next, Step
    <3>4. QED BY <3>2, <3>3
  <2>2. pc'[r] = "done" /\ (result'[r] = "ok" => pc[r] = "cleanup")
    BY <1>0, <1>2 DEF Inv, TypeOK
  <2>3. tid[r] = r /\ Swept(r) => Swept(r)'
    <3>1. tid[r] = r => task[r] # "none"
      BY DEF Inv, TasksFollowed, Late
    <3>2. QED BY <3>1, SweptStays DEF Next, Step
  <2>4. tid'[r] = r /\ (pc'[r] = "cleanup" \/ result'[r] = "ok") => got'[r] \/ Swept(r)'
    BY <1>0, <2>2, <2>3 DEF Inv, Removed
  <2>5. QED BY <2>1, <2>2, <2>4 DEF Removed
<1>6. NothingLeftBehind'
  <2>1. ASSUME NEW p \in Processes, p # r, result'[p] = "ok", tid'[p] = p, ~keep'[p]
        PROVE  p \notin objects'
    BY <1>0, <1>2, <2>1 DEF Inv, TypeOK, NothingLeftBehind
  <2>2. ASSUME result'[r] = "ok", tid'[r] = r, ~keep'[r]
        PROVE  r \notin objects'
    <3>1. objects' = objects \ Deletable(r)
      BY <1>0, <2>2 DEF Inv, TypeOK
    <3>2. r \in objects => r \in Deletable(r)
      BY <1>0, <2>2 DEF Deletable, Under, Inv, AdoptedKept
    <3>3. QED BY <3>1, <3>2
  <2>3. QED BY <2>1, <2>2 DEF NothingLeftBehind
<1>7. QED BY <1>1, <1>3, <1>4, <1>5, <1>6 DEF Inv

\* CloudWatch ends a task: only now is there output of it.
LEMMA InvTaskEnds ==
  ASSUME Inv, NEW r \in Processes, TaskEnds(r)
  PROVE  Inv'
<1> USE ProcessesAssumption DEF TaskEnds
<1>1. TypeOK'
  BY DEF Inv, TypeOK
<1>2. /\ \A p \in Processes \ {r} : task'[p] = task[p] /\ (p \in objects <=> p \in objects')
      /\ task'[r] \in {"completed", "failed"} /\ (r \in objects' => task'[r] = "completed")
      /\ (task'[r] = "completed" => r \in objects')
  BY DEF Inv, TypeOK, TasksFollowed
<1>3. TasksFollowed'
  <2>1. pc[r] \notin Early \ {"relist"}
    BY DEF Inv, TasksFollowed
  <2>2. ASSUME NEW p \in Processes, pc[p] \in Late \/ result[p] = "ok"
        PROVE  task'[tid[p]] = "completed"
    BY <1>2, <2>2 DEF Inv, TasksFollowed
  <2>3. QED BY <1>2, <2>1, <2>2 DEF Inv, TasksFollowed
<1>4. AdoptedKept'
  BY DEF Inv, AdoptedKept
<1>5. Removed'
  <2>1. ASSUME NEW p \in Processes, p # r
        PROVE  /\ task'[p] = "completed" /\ p \notin objects' /\ pc'[p] # "done" => Swept(p)'
               /\ tid'[p] = p /\ (pc'[p] = "cleanup" \/ result'[p] = "ok") => got'[p] \/ Swept(p)'
    BY <1>2, <2>1, RemovedOther DEF Next
  <2>2. tid[r] = r => ~(pc[r] = "cleanup" \/ result[r] = "ok")
    BY DEF Inv, TasksFollowed, Late
  <2>3. QED BY <1>2, <2>1, <2>2 DEF Removed
<1>6. NothingLeftBehind'
  <2>1. ASSUME NEW p \in Processes, result[p] = "ok", tid[p] = p
        PROVE  p # r
    BY <2>1 DEF Inv, TasksFollowed
  <2>2. QED BY <1>2, <2>1 DEF Inv, NothingLeftBehind
<1>7. QED BY <1>1, <1>3, <1>4, <1>5, <1>6 DEF Inv

\* Every step of every invocation, of the user and of CloudWatch keeps Inv.
THEOREM Invariance == Spec => []Inv
<1>1. Inv /\ [Next]_vars => Inv'
  <2>1. ASSUME Inv, NEW r \in Processes, Start(r) \/ Step(r) \/ Interrupt(r) \/ TaskEnds(r)
        PROVE  Inv'
    BY <2>1, InvStart, InvListTasks, InvCreateTask, InvFollow, InvCleanup, InvTaskEnds DEF Step
  <2>2. ASSUME Inv, UNCHANGED vars PROVE Inv'
    BY <2>2 DEF vars, Inv, TypeOK, TasksFollowed, AdoptedKept, Removed, Swept, NothingLeftBehind
  <2>3. QED BY <2>1, <2>2 DEF Next
<1>2. QED BY <1>1, InvInit, PTL DEF Spec

\* The variables of every invocation keep their types.
THEOREM TypeCorrect == Spec => []TypeOK
<1>1. Inv => TypeOK
  BY DEF Inv
<1>2. QED BY <1>1, Invariance, PTL

\* A successful export of a task of its own leaves no objects in the bucket.
THEOREM NothingLeft == Spec => []NothingLeftBehind
<1>1. Inv => NothingLeftBehind
  BY DEF Inv
<1>2. QED BY <1>1, Invariance, PTL

\* A successful export of a task of its own has the data, or another invocation
\* had found the same default prefix empty.
THEOREM DataDelivered == Spec => []OwnDataDelivered
<1>1. Inv => OwnDataDelivered
  BY DEF Inv, Removed, Swept, OwnDataDelivered
<1>2. QED BY <1>1, Invariance, PTL

\* Only the finally clause removes output, and only what the invocation owns.
THEOREM OwnersOnly == Spec => OnlyOwnerDeletes
<1> DEFINE Owned(t) == \E p \in Processes :
             /\ pc[p] \in {"cleanup", "cleanup_failed"} /\ pc'[p] = "done"
             /\ p = t \/ (wide[p] /\ prefix[p] = dest[t] /\ prefix[p] # Custom)
<1>1. ASSUME Inv, [Next]_vars
      PROVE  [\A t \in objects \ objects' : Owned(t)]_vars
  <2>1. SUFFICES ASSUME Next, NEW t \in objects \ objects' PROVE Owned(t)
    BY <1>1
  <2>2. PICK r \in Processes : Start(r) \/ Step(r) \/ Interrupt(r) \/ TaskEnds(r)
    BY <2>1 DEF Next
  <2>3. Cleanup(r)
    BY <2>1, <2>2 DEF Start, Step, ListTasks, CreateTask, LimitExceeded, Poll, ListObjects, Fetch,
                      Interrupt, TaskEnds
  <2>4. t = r \/ (wide[r] /\ prefix[r] = dest[t] /\ prefix[r] # Custom)
    BY <1>1, <2>1, <2>3, DeletesOwn
  <2>5. pc[r] \in {"cleanup", "cleanup_failed"} /\ pc'[r] = "done"
    BY <1>1, <2>3 DEF Cleanup, End, Inv, TypeOK
  <2>6. QED BY <2>4, <2>5
<1>2. QED BY <1>1, Invariance, PTL DEF Spec, OnlyOwnerDeletes

=============================================================================
