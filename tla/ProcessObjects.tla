------------------------------ MODULE ProcessObjects ------------------------------
(***************************************************************************)
(* Processes and threads seen from outside.  A process or thread object    *)
(* keeps its task's structure by a reference; reading or writing a         *)
(* process's memory keeps its mm for the time of the call.  Tasks fork and *)
(* exit meanwhile.                                                         *)
(*                                                                         *)
(* External is the kernel: a task that exits lets its mm go; it is         *)
(* unlinked at once, a leader only after the other threads of its group,   *)
(* and its last reference is given up when no RCU reader can find it any   *)
(* more; finding a task and taking a reference of it is one such reading,  *)
(* and one step.  Its children go to another thread of the group, or to    *)
(* init.  Calls on one object do not overlap.                              *)
(***************************************************************************)
EXTENDS Integers, FiniteSets

CONSTANTS
  Tasks,
  InitTask,       \* g_init_task, which does not exit
  Leader,         \* Leader[t]: the task whose pid is t's tgid
  ObjectSlots,    \* process and thread objects
  Buffer,         \* the one of them an iteration makes again for each task
  Accesses        \* bound: calls of AccessProcessMemory

ASSUME ProcessAssumption ==
  /\ IsFiniteSet(Tasks) /\ IsFiniteSet(ObjectSlots) /\ Accesses \in Nat
  /\ InitTask \in Tasks /\ Buffer \in ObjectSlots
  /\ Leader \in [Tasks -> Tasks] /\ Leader[InitTask] = InitTask
  /\ \A t \in Tasks : Leader[Leader[t]] = Leader[t]

NoObject == [kind |-> "none", task |-> InitTask, dead |-> FALSE, paths |-> FALSE]

VARIABLES
  task,           \* unborn, running, zombie, unlinked, put or freed
  parent,         \* parent[t]: on whose list of children a leader is
  usage,          \* references of the task structure
  mmUsers,        \* mmUsers[l]: references of the mm of l's process
  seen,           \* the objects
  access,         \* objects in the middle of AccessProcessMemory
  arrays,         \* page arrays allocated
  withoutMm,      \* accesses that found no mm (history)
  pinned,         \* accesses whose pages are still pinned
  panicked        \* the assertion of ProcessesConvertPath

procVars == <<task, parent, usage, mmUsers, seen, access, arrays, withoutMm, pinned, panicked>>

Linked == {t \in Tasks : task[t] \in {"running", "zombie"}}
Group(t) == {u \in Tasks : Leader[u] = Leader[t]}

ProcTypeOK ==
  /\ task \in [Tasks -> {"unborn", "running", "zombie", "unlinked", "put", "freed"}]
  /\ parent \in [Tasks -> Tasks]
  /\ usage \in [Tasks -> Nat] /\ mmUsers \in [Tasks -> Nat]
  /\ seen \in [ObjectSlots -> [kind: {"none", "process", "thread"}, task: Tasks,
                               dead: BOOLEAN, paths: BOOLEAN]]
  /\ access \subseteq ObjectSlots
  /\ arrays \in 0..Accesses /\ withoutMm \in 0..Accesses /\ pinned \in 0..Accesses
  /\ panicked \in BOOLEAN

ProcInit ==
  /\ task = [t \in Tasks |-> IF t = InitTask THEN "running" ELSE "unborn"]
  /\ parent = [t \in Tasks |-> InitTask]
  /\ usage = [t \in Tasks |-> IF t = InitTask THEN 1 ELSE 0]
  /\ mmUsers = [t \in Tasks |-> 0]
  /\ seen = [h \in ObjectSlots |-> NoObject]
  /\ access = {}
  /\ arrays = 0 /\ withoutMm = 0 /\ pinned = 0
  /\ panicked = FALSE

-----------------------------------------------------------------------------
(* The kernel.                                                             *)

libraryVars == <<seen, access, arrays, withoutMm, pinned, panicked>>

HasMm(t) == task[t] = "running" /\ t # InitTask

Fork(t, by) ==
  /\ task[t] = "unborn" /\ task[by] = "running"
  /\ Leader[t] # t => Leader[by] = Leader[t]
  /\ task' = [task EXCEPT ![t] = "running"]
  /\ parent' = [parent EXCEPT ![t] = by]
  /\ usage' = [usage EXCEPT ![t] = 1]
  /\ mmUsers' = [mmUsers EXCEPT ![Leader[t]] = @ + 1]
  /\ UNCHANGED libraryVars

NewParent(t) ==
  LET others == {u \in Group(t) \ {t} : task[u] = "running"} IN
  IF others = {} THEN InitTask ELSE CHOOSE u \in others : TRUE

TaskExits(t) ==
  /\ HasMm(t)
  /\ LET left == {u \in Group(t) \ {t} : u \in Linked} IN
     task' = [u \in Tasks |->
       IF u = t THEN IF Leader[t] = t /\ left # {} THEN "zombie" ELSE "unlinked"
       ELSE IF u = Leader[t] /\ task[u] = "zombie" /\ left = {u} THEN "unlinked"
       ELSE task[u]]
  /\ parent' = [u \in Tasks |-> IF parent[u] = t THEN NewParent(t) ELSE parent[u]]
  /\ mmUsers' = [mmUsers EXCEPT ![Leader[t]] = @ - 1]
  /\ UNCHANGED <<usage, libraryVars>>

(* The readers that might still find the task are gone.                    *)
GraceEnds(t) ==
  /\ task[t] = "unlinked"
  /\ usage' = [usage EXCEPT ![t] = @ - 1]
  /\ task' = [task EXCEPT ![t] = IF usage[t] = 1 THEN "freed" ELSE "put"]
  /\ UNCHANGED <<parent, mmUsers, libraryVars>>

-----------------------------------------------------------------------------
(* The traversal.  Children are on the list of the thread that forked      *)
(* them, of which only leaders' lists are walked.                          *)

Children(p) == {t \in Linked : t # InitTask /\ Leader[t] = t /\ parent[t] = p}

Found(t, spawner) == [task |-> t, spawner |-> spawner]

(* The processes a walk down the lists of children comes through.          *)
Descendants(root) ==
  {t \in Tasks : \A below \in SUBSET Tasks :
     root \in below /\ (\A p \in below : Children(p) \subseteq below) => t \in below}

(* Each of them brings what it finds: its threads and its children.        *)
KernelTransverseThreads(root, processes) ==
  {Found(root, "null")} \cup
    UNION {{Found(t, p) : t \in ((Group(p) \ {p}) \cap Linked) \cup Children(p)} : p \in processes}

LinuxTransverseAll == KernelTransverseThreads(InitTask, Descendants(InitTask))

LinuxTransverseThreadsInProcess(t) == KernelTransverseThreads(t, {t})

IsProcess(found) == Leader[found.task] = found.task

-----------------------------------------------------------------------------
(* Objects: a constructor takes a reference, Invalidate gives it back.     *)

Object(kind, t) == [NoObject EXCEPT !.kind = kind, !.task = t]

Lives(h, kind) == seen[h].kind = kind /\ ~seen[h].dead

NewObject(h, object) ==
  /\ seen[h] = NoObject
  /\ seen' = [seen EXCEPT ![h] = object]
  /\ usage' = [usage EXCEPT ![object.task] = @ + 1]
  /\ UNCHANGED <<task, parent, mmUsers, access, arrays, withoutMm, pinned, panicked>>

GetProcessById(h) ==
  \E found \in LinuxTransverseAll :
    IsProcess(found) /\ NewObject(h, Object("process", found.task))

GetProcessParentById(h) ==
  \E found \in LinuxTransverseAll :
    /\ IsProcess(found) /\ found.spawner # "null"
    /\ NewObject(h, Object("process", found.spawner))

GetProcessByCurrent(h, me) ==
  task[me] = "running" /\ NewObject(h, Object("process", Leader[me]))

GetThreadById(h, process) ==
  /\ Lives(process, "process")
  /\ \E found \in LinuxTransverseThreadsInProcess(seen[process].task) :
       NewObject(h, Object("thread", found.task))

AsProcess(h, thread) ==
  /\ Lives(thread, "thread") /\ Leader[seen[thread].task] = seen[thread].task
  /\ NewObject(h, Object("process", seen[thread].task))

(* The count goes down once, at Invalidate or at Destroy, whichever is     *)
(* first; at zero the structure is freed.                                  *)
DecrementCounterUnread(h) ==         \* mutant: the result is not looked at
  LET t == seen[h].task IN
  IF seen[h].dead THEN UNCHANGED <<usage, task>>
  ELSE usage' = [usage EXCEPT ![t] = @ - 1] /\ UNCHANGED task

DecrementCounterTwice(h) ==          \* mutant: a dead object gives it back again
  LET t == seen[h].task IN
  /\ usage' = [usage EXCEPT ![t] = @ - 1]
  /\ task' = IF usage[t] = 1 THEN [task EXCEPT ![t] = "freed"] ELSE task

DecrementCounter(h) ==
  LET t == seen[h].task IN
  IF seen[h].dead THEN UNCHANGED <<usage, task>>
  ELSE /\ usage' = [usage EXCEPT ![t] = @ - 1]
       /\ task' = IF usage[t] = 1 THEN [task EXCEPT ![t] = "freed"] ELSE task

InvalidateObject(h) ==
  /\ seen[h].kind # "none" /\ ~seen[h].dead /\ h \notin access
  /\ DecrementCounter(h)
  /\ seen' = [seen EXCEPT ![h].dead = TRUE]
  /\ UNCHANGED <<parent, mmUsers, access, arrays, withoutMm, pinned, panicked>>

DestroyObject(h) ==
  /\ seen[h].kind # "none" /\ h \notin access
  /\ DecrementCounter(h)
  /\ seen' = [seen EXCEPT ![h] = NoObject]
  /\ UNCHANGED <<parent, mmUsers, access, arrays, withoutMm, pinned, panicked>>

(* Iterations: placement new before the callback, Invalidate and memset    *)
(* after it.                                                               *)
ProcessIterateCallback ==
  \E found \in LinuxTransverseAll \cup LinuxTransverseThreadsInProcess(InitTask) :
    IsProcess(found) /\ NewObject(Buffer, Object("process", found.task))

ThreadIterateCallback(process) ==
  /\ Lives(process, "process") /\ process # Buffer
  /\ \E found \in LinuxTransverseThreadsInProcess(seen[process].task) :
       NewObject(Buffer, Object("thread", found.task))

CallbackReturns == DestroyObject(Buffer)

-----------------------------------------------------------------------------
(* Paths are looked up once.  A path object that finds no memory is an     *)
(* assertion.                                                              *)
TryInitPaths(h) ==
  /\ Lives(h, "process") /\ ~seen[h].paths /\ h \notin access
  /\ \/ seen' = [seen EXCEPT ![h].paths = TRUE] /\ UNCHANGED panicked
     \/ panicked' = TRUE /\ UNCHANGED seen
  /\ UNCHANGED <<task, parent, usage, mmUsers, access, arrays, withoutMm, pinned>>

(* AccessProcessMemory: an array for the pages, then the mm; without one   *)
(* the array stays.  Pages that were pinned are never put.                 *)
AccessBegins(h) ==
  LET t == seen[h].task IN
  /\ Lives(h, "process") /\ h \notin access
  /\ arrays + Cardinality(access) + pinned < Accesses
  /\ arrays' = arrays + 1
  /\ IF HasMm(t)
       THEN /\ mmUsers' = [mmUsers EXCEPT ![Leader[t]] = @ + 1]
            /\ access' = access \cup {h}
            /\ UNCHANGED withoutMm
       ELSE withoutMm' = withoutMm + 1 /\ UNCHANGED <<mmUsers, access>>
  /\ UNCHANGED <<task, parent, usage, seen, pinned, panicked>>

AccessReturns(h) ==
  /\ h \in access
  /\ pinned' \in {pinned, pinned + 1}
  /\ mmUsers' = [mmUsers EXCEPT ![Leader[seen[h].task]] = @ - 1]
  /\ arrays' = arrays - 1
  /\ access' = access \ {h}
  /\ UNCHANGED <<task, parent, usage, seen, withoutMm, panicked>>

ProcStep ==
  /\ ~panicked
  /\ \/ \E t, by \in Tasks : Fork(t, by)
     \/ \E t \in Tasks : TaskExits(t) \/ GraceEnds(t)
     \/ \E h \in ObjectSlots \ {Buffer} :
          \/ GetProcessById(h) \/ GetProcessParentById(h) \/ DestroyObject(h)
          \/ \E me \in Tasks : GetProcessByCurrent(h, me)
          \/ \E from \in ObjectSlots : GetThreadById(h, from) \/ AsProcess(h, from)
     \/ \E h \in ObjectSlots :
          \/ InvalidateObject(h) \/ TryInitPaths(h) \/ AccessBegins(h) \/ AccessReturns(h)
          \/ ThreadIterateCallback(h)
     \/ ProcessIterateCallback
     \/ CallbackReturns

-----------------------------------------------------------------------------
(* A task structure is kept by the kernel until the readers have left it   *)
(* and by every object that is not dead, and freed with the last of them;  *)
(* an mm by its threads and by the accesses in progress, even of a process *)
(* that exits meanwhile; a page array stays only where there was no mm     *)
(* (OProcessHelpers.cpp:41; OProcesses.cpp:356-358, 391).                  *)
Kept(t) == IF task[t] \in {"running", "zombie", "unlinked"} THEN 1 ELSE 0

TasksBalanced ==
  /\ \A t \in Tasks :
       /\ usage[t] = Kept(t) + Cardinality({h \in ObjectSlots :
                                  seen[h].kind # "none" /\ ~seen[h].dead /\ seen[h].task = t})
       /\ task[t] # "unborn" => (task[t] = "freed" <=> usage[t] = 0)
  /\ \A l \in Tasks : mmUsers[l] =
       Cardinality({t \in Tasks : Leader[t] = l /\ HasMm(t)})
         + Cardinality({h \in access : Leader[seen[h].task] = l})
  /\ arrays = withoutMm + Cardinality(access)
=============================================================================
