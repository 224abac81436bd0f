--------------------------- MODULE DeferredExecution ---------------------------
(***************************************************************************)
(* The deferred execution engine: kernel threads (Callers) schedule jobs   *)
(* on user threads (Targets) of one process, the target is preempted, runs *)
(* the job in user mode, and comes back through a system call.             *)
(*                                                                         *)
(*   job      ODEWorkJobImpl, what the caller holds; owns a work queue     *)
(*            made for one task                                            *)
(*   handler  ODEWorkHandler, one per Schedule; waits in the list of the   *)
(*            target and points back at its job until either side detaches *)
(*                                                                         *)
(* Two mutexes: the DE critical section ("engine"), held over a whole      *)
(* completion or scheduling, and work_watcher_mutex ("watcher"), held      *)
(* while a handler and its job are used or taken apart.                    *)
(*                                                                         *)
(* The work queue of a job is the TaskRound that WorkQueue was shown to    *)
(* implement for a single worker; Hit is that worker, under the watcher.   *)
(*                                                                         *)
(* The kernel's half of the preemption is external: on its way back to     *)
(* user mode a thread whose swap_bool is set stores the registers it would *)
(* have continued with in previous_user and continues with next_user.      *)
(*                                                                         *)
(* What the engine keeps of a thread is found by the thread's id, which a  *)
(* later thread of the process (an heir) may get.                          *)
(***************************************************************************)
EXTENDS Integers, FiniteSets, Sequences, Functions

CONSTANTS
  Jobs,             \* ODEWorkJob objects
  Callers,          \* kernel threads that use them
  Targets,          \* threads of the one user process jobs are run on
  Leader,           \* its group leader, whose exit ends the engine's state
  Heirs,            \* threads that start when the owner of their id is gone
  PidOf,            \* PidOf[t]: the id of t
  MadeFor,          \* MadeFor[j]: the threads j may be created for
  MaxHandlers       \* bound: handlers ever made

ASSUME EngineAssumption ==
  /\ Leader \in Targets
  /\ Heirs \subseteq Targets \ {Leader}
  /\ \A t, u \in Targets : t # u /\ PidOf[t] = PidOf[u] => {t, u} \cap Heirs # {}
  /\ \A t \in Heirs : PidOf[t] # PidOf[Leader]
  /\ MadeFor \in [Jobs -> (SUBSET Targets) \ {{}}]
  /\ Callers \cap Targets = {}
  /\ "no job" \notin Jobs /\ {"free", "nobody"} \cap Targets = {}
  /\ MaxHandlers \in Nat

VARIABLES
  target,           \* target[j]: _task of j
  worker,           \* worker[j]: _worker of j
  alive,            \* alive[j]: j has not been destroyed
  dispatched,       \* dispatched[j]: _state.dispatched
  response,         \* response[j]: the handler whose result is in _state.response
  callback,         \* callback[j]: AwaitExecute was called
  begun, done,      \* begun[j], done[j]: the round of j's work queue
  waiting, holding, \* waiting[j], holding[j]: its waiting and its owning callers
  overrun,          \* history: jobs whose round was begun when it was used up
  made,             \* handlers 1..made exist or have existed
  freed,            \* handlers that were deleted
  parent,           \* parent[h]: _parant of h
  process,          \* the entry of tgid_map for the process
  task,             \* task[p]: _task of the ODEImplPIDThread for id p, or Nobody
  queue,            \* queue[p]: its _workPending
  hasPrevious,      \* hasPrevious[p], restore[p]: its _userState
  restore,
  robbed,           \* history: living threads whose list was destroyed
  ctx,              \* ctx[t]: what t runs in user mode
  swap,             \* swap[t], next[t], previous[t]: linux_thread_info of t
  next,
  previous,
  pc,               \* pc[t]: where t stands in APC_OnThreadExecFinish
  cur,              \* cur[t]: the handler it is completing
  at,               \* at[c]: where caller c stands
  on,               \* on[c]: the job it is using
  expects,          \* expects[c]: history, the handler j had when c began to wait
  ran,              \* history: handlers whose job ran to its end
  engine,           \* owner of the DE critical section
  watcher           \* owner of work_watcher_mutex

jobVars    == <<target, worker, alive, dispatched, response, callback>>
roundVars  == <<begun, done, waiting, holding, overrun>>
handlerVars == <<made, freed, parent, ran>>
threadVars == <<process, task, queue, hasPrevious, restore, robbed>>
swapVars   == <<ctx, swap, next, previous>>
targetVars == <<pc, cur>>
callerVars == <<at, on, expects>>
mutexes    == <<engine, watcher>>

vars == <<jobVars, roundVars, handlerVars, threadVars, swapVars, targetVars, callerVars,
          mutexes>>

(***************************************************************************)
(* Handlers are numbered as they are made, 0 being nullptr.  A register    *)
(* state is App, what the thread ran of its own; Stub, the return stub of  *)
(* the engine, after its system call; or h > 0, the job of handler h.      *)
(*                                                                         *)
(* The process's entry is "none", "made" or "wrecked": what is found there *)
(* or under it was never set, or was deleted.  What the engine does with   *)
(* that is undefined, so it takes no step that looks the entry up again.   *)
(***************************************************************************)
Null == 0
App  == 0
Stub == -1
Free == "free"
NoJob == "no job"
Nobody == "nobody"

Handlers == 1..MaxHandlers
Pids == {PidOf[t] : t \in Targets}

Init ==
  /\ target \in {f \in [Jobs -> Targets] : \A j \in Jobs : f[j] \in MadeFor[j]}
  /\ worker = [j \in Jobs |-> Null]
  /\ alive = [j \in Jobs |-> TRUE]
  /\ dispatched = [j \in Jobs |-> FALSE]
  /\ response = [j \in Jobs |-> Null]
  /\ callback = [j \in Jobs |-> FALSE]
  /\ begun = [j \in Jobs |-> 0]
  /\ done = [j \in Jobs |-> 0]
  /\ waiting = [j \in Jobs |-> {}]
  /\ holding = [j \in Jobs |-> {}]
  /\ overrun = {}
  /\ made = 0
  /\ freed = {}
  /\ parent = [h \in Handlers |-> NoJob]
  /\ ran = {}
  /\ process = "none"
  /\ task = [p \in Pids |-> Nobody]
  /\ queue = [p \in Pids |-> <<>>]
  /\ hasPrevious = [p \in Pids |-> FALSE]
  /\ restore = [p \in Pids |-> App]
  /\ robbed = {}
  /\ ctx = [t \in Targets |-> App]
  /\ swap = [t \in Targets |-> FALSE]
  /\ next = [t \in Targets |-> App]
  /\ previous = [t \in Targets |-> App]
  /\ pc = [t \in Targets |-> IF t \in Heirs THEN "unborn" ELSE "user"]
  /\ cur = [t \in Targets |-> Null]
  /\ at = [c \in Callers |-> "out"]
  /\ on = [c \in Callers |-> NoJob]
  /\ expects = [c \in Callers |-> Null]
  /\ engine = Free
  /\ watcher = Free

TypeOK ==
  /\ worker \in [Jobs -> 0..made] /\ response \in [Jobs -> 0..made]
  /\ alive \in [Jobs -> BOOLEAN] /\ dispatched \in [Jobs -> BOOLEAN]
  /\ callback \in [Jobs -> BOOLEAN]
  /\ begun \in [Jobs -> Nat] /\ done \in [Jobs -> Nat] /\ overrun \subseteq Jobs
  /\ waiting \in [Jobs -> SUBSET Callers] /\ holding \in [Jobs -> SUBSET Callers]
  /\ made \in 0..MaxHandlers /\ freed \subseteq 1..made /\ ran \subseteq 1..made
  /\ parent \in [Handlers -> Jobs \cup {NoJob}]
  /\ target \in [Jobs -> Targets] /\ robbed \subseteq Targets
  /\ process \in {"none", "made", "wrecked"}
  /\ task \in [Pids -> Targets \cup {Nobody}] /\ queue \in [Pids -> Seq(1..made)]
  /\ hasPrevious \in [Pids -> BOOLEAN] /\ restore \in [Pids -> Stub..made]
  /\ swap \in [Targets -> BOOLEAN]
  /\ \A f \in {ctx, next, previous} : f \in [Targets -> Stub..made]
  /\ pc \in [Targets -> {"unborn", "user", "enter", "hit", "begin", "end", "detach", "callback",
                         "reenter", "finish", "return", "gone"}]
  /\ cur \in [Targets -> 0..made] /\ expects \in [Callers -> 0..made]
  /\ at \in [Callers -> {"out", "scheduling", "waiting", "holding"}]
  /\ on \in [Callers -> Jobs \cup {NoJob}]
  /\ engine \in Targets \cup {Free}
  /\ watcher \in Targets \cup {Free}

-----------------------------------------------------------------------------
(* Callers.                                                                *)

(* A job is created for a thread that is, or was, there.                   *)
Usable(j) == alive[j] /\ pc[target[j]] # "unborn"

(* new ODEWorkHandler(_task, this), SetWork, dispatched = true.  _worker   *)
(* is tested without a lock; one thread at a time schedules a job.         *)
NewHandler(j) ==
  /\ Usable(j)
  /\ worker[j] = Null
  /\ made < MaxHandlers
  /\ made' = made + 1
  /\ worker' = [worker EXCEPT ![j] = made']
  /\ parent' = [parent EXCEPT ![made'] = j]
  /\ dispatched' = [dispatched EXCEPT ![j] = TRUE]

(* ODEWorkJobImpl::Schedule up to the call of ODEWorkHandler::Schedule.    *)
Schedule(c, j) ==
  /\ at[c] = "out"
  /\ NewHandler(j)
  /\ at' = [at EXCEPT ![c] = "scheduling"]
  /\ on' = [on EXCEPT ![c] = j]
  /\ UNCHANGED <<target, alive, response, callback, roundVars, freed, ran, threadVars, swapVars,
                 targetVars, expects, mutexes>>

(* PreemptExecution: what t goes on with when it next enters user mode.    *)
PreemptExecution(t, registers) ==
  /\ next' = [next EXCEPT ![t] = registers]
  /\ swap' = [swap EXCEPT ![t] = TRUE]

(* Mutated form of Die: the job is triggered as Hit does it.               *)
DieTriggers(dying) ==
  LET over == {j \in Jobs : \E h \in dying : parent[h] = j}
  IN /\ worker' = [j \in Jobs |-> IF j \in over THEN Null ELSE worker[j]]
     /\ begun' = [j \in Jobs |-> IF j \in over THEN 1 ELSE begun[j]]
     /\ done' = [j \in Jobs |-> IF j \in over THEN 1 ELSE done[j]]
     /\ holding' = [j \in Jobs |-> holding[j] \cup IF j \in over THEN waiting[j] ELSE {}]
     /\ waiting' = [j \in Jobs |-> IF j \in over THEN {} ELSE waiting[j]]
     /\ freed' = freed \cup dying
     /\ UNCHANGED overrun

(* Die, of each of these handlers: their jobs are detached, not triggered. *)
Die(dying) ==
  /\ worker' = [j \in Jobs |-> IF \E h \in dying : parent[h] = j THEN Null ELSE worker[j]]
  /\ freed' = freed \cup dying
  /\ UNCHANGED roundVars

(* The list that a thread finds under its id, if what is there is its own. *)
Pending(t) == IF task[PidOf[t]] = t THEN queue[PidOf[t]] ELSE <<>>

(* Living threads that lose handlers when their state is destroyed.        *)
Robbed(owners) ==
  {u \in owners : task[PidOf[u]] = u /\ pc[u] # "gone" /\ queue[PidOf[u]] # <<>>}

(* UpdatePidHandle, or the making of the state if there is none: the state *)
(* of another thread with this id is destroyed with its list, whether that *)
(* thread is gone or not.                                                  *)
UpdatePidHandle(t) ==
  LET p == PidOf[t] IN
  /\ task' = [task EXCEPT ![p] = t]
  /\ IF task[p] = t
       THEN Die({}) /\ UNCHANGED <<hasPrevious, robbed>>
       ELSE /\ Die(Range(queue[p]))
            /\ hasPrevious' = [hasPrevious EXCEPT ![p] = FALSE]
            /\ robbed' = robbed \cup Robbed({u \in Targets : PidOf[u] = p})

(* Mutated form of AppendWork: every handler preempts its thread.          *)
AppendWorkAlwaysPreempts(t, h) ==
  /\ queue' = [queue EXCEPT ![PidOf[t]] = Append(Pending(t), h)]
  /\ PreemptExecution(t, h)

(* The first entry of the list preempts its thread at once.                *)
AppendWork(t, h) ==
  /\ queue' = [queue EXCEPT ![PidOf[t]] = Append(Pending(t), h)]
  /\ IF Pending(t) = <<>> THEN PreemptExecution(t, h) ELSE UNCHANGED <<next, swap>>

(* APC_AddPendingWork: the whole of it inside the critical section.        *)
APC_AddPendingWork(c) ==
  LET j == on[c] IN
  /\ at[c] = "scheduling"
  /\ engine = Free /\ watcher = Free
  /\ process # "wrecked" /\ process' = "made"
  /\ UpdatePidHandle(target[j])
  /\ AppendWork(target[j], worker[j])
  /\ at' = [at EXCEPT ![c] = "out"]
  /\ on' = [on EXCEPT ![c] = NoJob]
  /\ UNCHANGED <<target, alive, dispatched, response, callback, made, parent, ran, restore, ctx,
                 previous, targetVars, expects, mutexes>>

(* No memory; in every case the handler stays attached.                    *)
(*                                                                         *)
(* For the state of the process or of the thread, which is reported: the   *)
(* process may be made or not.  A failure after its entry was linked       *)
(* leaves that unset, and one of the new thread's Init has the thread      *)
(* deleted twice, which may go unnoticed or not.                           *)
(*                                                                         *)
(* For the list entry, or for the new stack and list that UpdatePidHandle  *)
(* makes after it destroyed the old, which are not reported: AppendWork    *)
(* uses the deleted list.                                                  *)
APC_AddPendingWorkFails(c) ==
  LET t == target[on[c]]
      p == PidOf[t] IN
  /\ at[c] = "scheduling"
  /\ engine = Free /\ watcher = Free
  /\ process # "wrecked"
  /\ \/ /\ task[p] = Nobody
        /\ process' \in {process, "made", "wrecked"}
        /\ UNCHANGED <<worker, freed, roundVars, task, queue, hasPrevious, robbed>>
     \/ /\ UpdatePidHandle(t)
        /\ queue' = [queue EXCEPT ![p] = Pending(t)]
        /\ process' \in {"made"} \cup (IF task[p] \in {t, Nobody} THEN {} ELSE {"wrecked"})
  /\ at' = [at EXCEPT ![c] = "out"]
  /\ on' = [on EXCEPT ![c] = NoJob]
  /\ UNCHANGED <<target, alive, dispatched, response, callback, made, parent, ran, restore,
                 swapVars, targetVars, expects, mutexes>>

(* AwaitExecute: one callback, kept for good.                              *)
AwaitExecute(c, j) ==
  /\ at[c] = "out"
  /\ Usable(j) /\ ~callback[j]
  /\ callback' = [callback EXCEPT ![j] = TRUE]
  /\ UNCHANGED <<target, worker, alive, dispatched, response, roundVars, handlerVars, threadVars,
                 swapVars, targetVars, callerVars, mutexes>>

(* WaitExecute is DumbWait: WaitAndAddOwner, and ReleaseOwner if it is one. *)
WaitExecute(c, j) ==
  /\ at[c] = "out"
  /\ Usable(j)
  /\ IF done[j] = 1
     THEN /\ at' = [at EXCEPT ![c] = "holding"]
          /\ holding' = [holding EXCEPT ![j] = @ \cup {c}]
          /\ UNCHANGED waiting
     ELSE /\ at' = [at EXCEPT ![c] = "waiting"]
          /\ waiting' = [waiting EXCEPT ![j] = @ \cup {c}]
          /\ UNCHANGED holding
  /\ on' = [on EXCEPT ![c] = j]
  /\ expects' = [expects EXCEPT ![c] = worker[j]]
  /\ UNCHANGED <<jobVars, begun, done, overrun, handlerVars, threadVars, swapVars, targetVars,
                 mutexes>>

WaitReturns(c) ==
  /\ at[c] = "waiting"
  /\ c \in holding[on[c]]
  /\ at' = [at EXCEPT ![c] = "holding"]
  /\ UNCHANGED <<jobVars, roundVars, handlerVars, threadVars, swapVars, targetVars, on,
                 expects, mutexes>>

WaitTimesOut(c) ==
  /\ at[c] = "waiting"
  /\ waiting' = [waiting EXCEPT ![on[c]] = @ \ {c}]
  /\ holding' = [holding EXCEPT ![on[c]] = @ \ {c}]
  /\ at' = [at EXCEPT ![c] = "out"]
  /\ on' = [on EXCEPT ![c] = NoJob]
  /\ expects' = [expects EXCEPT ![c] = Null]
  /\ UNCHANGED <<jobVars, begun, done, overrun, handlerVars, threadVars, swapVars, targetVars,
                 mutexes>>

(* Mutated form of ReleaseOwner: whoever leaves first resets the queue.    *)
ReleaseOwnerAlwaysResets(c) ==
  /\ at[c] = "holding"
  /\ holding' = [holding EXCEPT ![on[c]] = @ \ {c}]
  /\ begun' = [begun EXCEPT ![on[c]] = 0]
  /\ done' = [done EXCEPT ![on[c]] = 0]
  /\ at' = [at EXCEPT ![c] = "out"]
  /\ on' = [on EXCEPT ![c] = NoJob]
  /\ expects' = [expects EXCEPT ![c] = Null]
  /\ UNCHANGED <<jobVars, waiting, overrun, handlerVars, threadVars, swapVars, targetVars,
                 mutexes>>

ReleaseOwner(c) ==
  /\ at[c] = "holding"
  /\ LET j == on[c] IN
       /\ holding' = [holding EXCEPT ![j] = @ \ {c}]
       /\ IF waiting[j] \cup holding'[j] = {}
          THEN begun' = [begun EXCEPT ![j] = 0] /\ done' = [done EXCEPT ![j] = 0]
          ELSE UNCHANGED <<begun, done>>
  /\ at' = [at EXCEPT ![c] = "out"]
  /\ on' = [on EXCEPT ![c] = NoJob]
  /\ expects' = [expects EXCEPT ![c] = Null]
  /\ UNCHANGED <<jobVars, waiting, overrun, handlerVars, threadVars, swapVars, targetVars,
                 mutexes>>

(* Mutated form of Destroy: the handler keeps its pointer to the job.      *)
DestroyLeavesHandler(c, j) ==
  /\ at[c] = "out"
  /\ Usable(j)
  /\ \A d \in Callers : on[d] # j
  /\ watcher = Free
  /\ alive' = [alive EXCEPT ![j] = FALSE]
  /\ UNCHANGED <<target, worker, dispatched, response, callback, roundVars, handlerVars, threadVars,
                 swapVars, targetVars, callerVars, mutexes>>

(* Destroy, when no caller is inside a call on the job.  InvalidateImp     *)
(* takes the watcher to detach the handler that may still be queued.       *)
Destroy(c, j) ==
  /\ at[c] = "out"
  /\ Usable(j)
  /\ \A d \in Callers : on[d] # j
  /\ watcher = Free
  /\ alive' = [alive EXCEPT ![j] = FALSE]
  /\ parent' = [h \in Handlers |-> IF h = worker[j] THEN NoJob ELSE parent[h]]
  /\ UNCHANGED <<target, worker, dispatched, response, callback, roundVars, made, freed, ran,
                 threadVars, swapVars, targetVars, callerVars, mutexes>>

-----------------------------------------------------------------------------
(* The thread in user mode, and the kernel's swap of its registers.        *)

SwapUser(t) ==
  /\ pc[t] \in {"user", "return"}
  /\ swap[t]
  /\ previous' = [previous EXCEPT ![t] = ctx[t]]
  /\ ctx' = [ctx EXCEPT ![t] = next[t]]
  /\ swap' = [swap EXCEPT ![t] = FALSE]
  /\ pc' = [pc EXCEPT ![t] = "user"]
  /\ UNCHANGED <<jobVars, roundVars, handlerVars, threadVars, next, cur, callerVars, mutexes>>

ReturnToUser(t) ==
  /\ pc[t] = "return"
  /\ ~swap[t]
  /\ pc' = [pc EXCEPT ![t] = "user"]
  /\ UNCHANGED <<jobVars, roundVars, handlerVars, threadVars, swapVars, cur, callerVars, mutexes>>

(* The job's function returns into the stub, which makes the system call.  *)
JobReturns(t) ==
  /\ pc[t] = "user"
  /\ ctx[t] > 0
  /\ ctx' = [ctx EXCEPT ![t] = Stub]
  /\ ran' = ran \cup {ctx[t]}
  /\ pc' = [pc EXCEPT ![t] = "enter"]
  /\ UNCHANGED <<jobVars, roundVars, made, freed, parent, threadVars, swap, next, previous, cur,
                 callerVars, mutexes>>

-----------------------------------------------------------------------------
(* APC_OnThreadExecFinish and NtfyJobFinished, on the target thread.       *)

(* GetDEThread finds nothing: the process's state was freed meanwhile.     *)
(* GetDEProcess has then made the process's entry again, or tried to.      *)
NtfyFindsNoThread(t) ==
  /\ pc[t] = "enter"
  /\ engine = Free
  /\ process # "wrecked" /\ task[PidOf[t]] = Nobody
  /\ process' \in IF process = "made" THEN {"made"} ELSE {"none", "made", "wrecked"}
  /\ pc' = [pc EXCEPT ![t] = "return"]
  /\ UNCHANGED <<jobVars, roundVars, handlerVars, task, queue, hasPrevious, restore, robbed,
                 swapVars, cur, callerVars, mutexes>>

PopCompletedTask(t) ==
  /\ cur' = [cur EXCEPT ![t] = Head(queue[PidOf[t]])]
  /\ queue' = [queue EXCEPT ![PidOf[t]] = Tail(@)]

(* The critical section is entered and the first handler taken off the     *)
(* list; an empty list is an assertion that stops the machine, and so is   *)
(* one that UpdatePidHandle has just emptied.                              *)
NtfyJobFinished(t) ==
  /\ pc[t] = "enter"
  /\ engine = Free
  /\ process # "wrecked" /\ Pending(t) # <<>>
  /\ engine' = t
  /\ PopCompletedTask(t)
  /\ pc' = [pc EXCEPT ![t] = "hit"]
  /\ UNCHANGED <<jobVars, roundVars, handlerVars, process, task, hasPrevious, restore, robbed,
                 swapVars, callerVars, watcher>>

(* Hit, up to the call of _workqueue->Trigger().                           *)
Hit(t) ==
  /\ pc[t] = "hit"
  /\ watcher = Free
  /\ LET h == cur[t]
         j == parent[h]
     IN IF j # NoJob
        THEN /\ watcher' = t
             /\ response' = [response EXCEPT ![j] = h]
             /\ pc' = [pc EXCEPT ![t] = "begin"]
             /\ UNCHANGED freed
        ELSE /\ freed' = freed \cup {h}
             /\ pc' = [pc EXCEPT ![t] = "finish"]
             /\ UNCHANGED <<watcher, response>>
  /\ UNCHANGED <<target, worker, alive, dispatched, callback, roundVars, made, parent, ran,
                 threadVars, swapVars, cur, callerVars, engine>>

(* BeginWork sleeps, under both mutexes, while the round is used up.       *)
TriggerBegins(t) ==
  /\ pc[t] = "begin"
  /\ LET j == parent[cur[t]] IN
       /\ begun[j] # 1
       /\ begun' = [begun EXCEPT ![j] = @ + 1]
  /\ pc' = [pc EXCEPT ![t] = "end"]
  /\ UNCHANGED <<jobVars, done, waiting, holding, overrun, handlerVars, threadVars, swapVars, cur,
                 callerVars, mutexes>>

(* It goes on at once when there is no memory for its entry in _workers.   *)
TriggerCannotSleep(t) ==
  /\ pc[t] = "begin"
  /\ LET j == parent[cur[t]] IN
       /\ begun[j] = 1
       /\ begun' = [begun EXCEPT ![j] = 2]
       /\ overrun' = overrun \cup {j}
  /\ pc' = [pc EXCEPT ![t] = "end"]
  /\ UNCHANGED <<jobVars, done, waiting, holding, handlerVars, threadVars, swapVars, cur,
                 callerVars, mutexes>>

(* The one task of the round is done, unless that was done before.         *)
TriggerEnds(t) ==
  /\ pc[t] = "end"
  /\ LET j == parent[cur[t]] IN
       /\ done' = [done EXCEPT ![j] = @ + 1]
       /\ IF done[j] = 0
            THEN /\ holding' = [holding EXCEPT ![j] = @ \cup waiting[j]]
                 /\ waiting' = [waiting EXCEPT ![j] = {}]
            ELSE UNCHANGED <<holding, waiting>>
  /\ pc' = [pc EXCEPT ![t] = "detach"]
  /\ UNCHANGED <<jobVars, begun, overrun, handlerVars, threadVars, swapVars, cur, callerVars,
                 mutexes>>

(* Mutated forms of HitDetaches: the watcher is not unlocked again; and     *)
(* what is deleted is the job's handler, after it was detached.            *)
HitDetachesLocked(t) ==
  /\ pc[t] = "detach"
  /\ worker' = [worker EXCEPT ![parent[cur[t]]] = Null]
  /\ freed' = freed \cup {cur[t]}
  /\ pc' = [pc EXCEPT ![t] = "finish"]
  /\ UNCHANGED <<target, alive, dispatched, response, callback, roundVars, made, parent, ran,
                 threadVars, swapVars, cur, callerVars, mutexes>>

HitDeletesDetached(t) ==
  /\ pc[t] = "detach"
  /\ worker' = [worker EXCEPT ![parent[cur[t]]] = Null]
  /\ freed' = freed \cup {worker'[parent[cur[t]]]}
  /\ pc' = [pc EXCEPT ![t] = "finish"]
  /\ watcher' = Free
  /\ UNCHANGED <<target, alive, dispatched, response, callback, roundVars, made, parent, ran,
                 threadVars, swapVars, cur, callerVars, engine>>

(* GetCallback, DeattachWorkObject, unlock.  The callback, if any, follows *)
(* with the critical section still held; then the handler deletes itself.  *)
HitDetaches(t) ==
  /\ pc[t] = "detach"
  /\ LET h == cur[t]
         j == parent[h]
     IN /\ worker' = [worker EXCEPT ![j] = Null]
        /\ IF callback[j]
           THEN pc' = [pc EXCEPT ![t] = "callback"] /\ UNCHANGED freed
           ELSE pc' = [pc EXCEPT ![t] = "finish"] /\ freed' = freed \cup {h}
  /\ watcher' = Free
  /\ UNCHANGED <<target, alive, dispatched, response, callback, roundVars, made, parent, ran,
                 threadVars, swapVars, cur, callerVars, engine>>

CallbackReturns(t) ==
  /\ pc[t] = "callback"
  /\ freed' = freed \cup {cur[t]}
  /\ pc' = [pc EXCEPT ![t] = "finish"]
  /\ UNCHANGED <<jobVars, roundVars, made, parent, ran, threadVars, swapVars, cur, callerVars,
                 mutexes>>

(* A callback that schedules a job waits for the mutex its own thread has. *)
CallbackSchedules(t, j) ==
  /\ pc[t] = "callback"
  /\ NewHandler(j)
  /\ pc' = [pc EXCEPT ![t] = "reenter"]
  /\ UNCHANGED <<target, alive, response, callback, roundVars, freed, ran, threadVars, swapVars, cur,
                 callerVars, mutexes>>

(* What was saved when the first job of a row was done is kept.            *)
SaveState(t) ==
  LET p == PidOf[t] IN
  /\ hasPrevious' = [hasPrevious EXCEPT ![p] = TRUE]
  /\ restore' = IF hasPrevious[p] THEN restore ELSE [restore EXCEPT ![p] = previous[t]]

(* The rest of NtfyJobFinished: go on with the next handler, or with what  *)
(* was saved when the first was started.                                   *)
NtfyGoesOn(t) ==
  /\ pc[t] = "finish"
  /\ IF queue[PidOf[t]] # <<>>
     THEN /\ PreemptExecution(t, Head(queue[PidOf[t]]))
          /\ SaveState(t)
     ELSE /\ PreemptExecution(t, IF hasPrevious[PidOf[t]] THEN restore[PidOf[t]]
                                                         ELSE previous[t])
          /\ hasPrevious' = [hasPrevious EXCEPT ![PidOf[t]] = FALSE]
          /\ UNCHANGED restore
  /\ engine' = Free
  /\ cur' = [cur EXCEPT ![t] = Null]
  /\ pc' = [pc EXCEPT ![t] = "return"]
  /\ UNCHANGED <<jobVars, roundVars, handlerVars, process, task, queue, robbed, ctx, previous,
                 callerVars, watcher>>

-----------------------------------------------------------------------------
(* Exits.  Only that of a group leader may be told to the engine, which    *)
(* frees what it has for the whole process: every queued handler dies, and *)
(* whoever waits for its job is left waiting.                              *)

Dying == UNION {Range(queue[p]) : p \in Pids}

(* FreeDEProcess, DestroyState, DestroyQueue.                              *)
FreeDEProcess ==
  /\ process' = "none"
  /\ task' = [p \in Pids |-> Nobody]
  /\ queue' = [p \in Pids |-> <<>>]
  /\ hasPrevious' = [p \in Pids |-> FALSE]

APC_OnThreadExit ==
  /\ pc[Leader] = "user"
  /\ engine = Free /\ watcher = Free
  /\ process # "wrecked"
  /\ Die(Dying)
  /\ FreeDEProcess
  /\ robbed' = robbed \cup Robbed(Targets)
  /\ pc' = [pc EXCEPT ![Leader] = "gone"]
  /\ UNCHANGED <<target, alive, dispatched, response, callback, made, parent, ran, restore,
                 swapVars, cur, callerVars, mutexes>>

(* ProcessesExit tells nobody when it finds no link for the thread's id:   *)
(* no thread but a leader has one, and a leader only if a thread that      *)
(* leads its group was the one that had the process registered.  Nor does  *)
(* it when there is no memory for the object it would tell.                *)
ThreadExits(t) ==
  /\ pc[t] = "user"
  /\ pc' = [pc EXCEPT ![t] = "gone"]
  /\ UNCHANGED <<jobVars, roundVars, handlerVars, threadVars, swapVars, cur, callerVars, mutexes>>

(* A thread of a process that lives gets the id of one that is gone.       *)
ThreadStarts(t) ==
  /\ pc[t] = "unborn"
  /\ \E u \in Targets : pc[u] \notin {"unborn", "gone"}
  /\ \A u \in Targets \ {t} : PidOf[u] = PidOf[t] => pc[u] = "gone"
  /\ pc' = [pc EXCEPT ![t] = "user"]
  /\ UNCHANGED <<jobVars, roundVars, handlerVars, threadVars, swapVars, cur, callerVars, mutexes>>

-----------------------------------------------------------------------------
Completion(t) ==
  \/ NtfyFindsNoThread(t)
  \/ NtfyJobFinished(t)
  \/ Hit(t)
  \/ TriggerBegins(t)
  \/ TriggerEnds(t)
  \/ HitDetaches(t)
  \/ CallbackReturns(t)
  \/ NtfyGoesOn(t)

Next ==
  \/ \E c \in Callers :
       \/ \E j \in Jobs : \/ Schedule(c, j)
                          \/ AwaitExecute(c, j)
                          \/ WaitExecute(c, j)
                          \/ Destroy(c, j)
       \/ APC_AddPendingWork(c)
       \/ APC_AddPendingWorkFails(c)
       \/ WaitReturns(c)
       \/ WaitTimesOut(c)
       \/ ReleaseOwner(c)
  \/ \E t \in Targets :
       \/ SwapUser(t)
       \/ ReturnToUser(t)
       \/ JobReturns(t)
       \/ Completion(t)
       \/ TriggerCannotSleep(t)
       \/ \E j \in Jobs : CallbackSchedules(t, j)
       \/ ThreadExits(t)
       \/ ThreadStarts(t)
  \/ APC_OnThreadExit

Spec == Init /\ [][Next]_vars

(* A kernel thread that can go on does.  Nothing else is promised: a job   *)
(* may run for ever, nobody has to wait, schedule or destroy, and a thread *)
(* that sleeps is not waked by a lack of memory.                           *)
Fairness == \A t \in Targets : WF_vars(Completion(t))

FairSpec == Spec /\ Fairness

-----------------------------------------------------------------------------
(* Properties.                                                             *)

(* Handlers the engine will still use: queued, or inside Hit.              *)
InUse ==
  {h \in 1..made :
     \/ \E p \in Pids : h \in Range(queue[p])
     \/ \E t \in Targets : cur[t] = h /\ pc[t] \in {"hit", "begin", "end", "detach"}}

(* A job never points at a deleted handler, and a handler the engine will  *)
(* still use exists and points back at its job, if at any: Hit, Die and    *)
(* the destruction of the job can meet in any order.                       *)
LinksSound ==
  /\ \A j \in Jobs : alive[j] /\ worker[j] # Null =>
       worker[j] \notin freed /\ parent[worker[j]] = j
  /\ \A h \in InUse :
       /\ h \notin freed
       /\ parent[h] # NoJob => alive[parent[h]] /\ worker[parent[h]] = h

(* A thread runs, or is set to run, no handler but the head of its list:   *)
(* jobs run one at a time, in order.  What was left for a thread that is   *)
(* gone never runs on the one that got its id.  The code does not keep     *)
(* this for a thread that lives on when its list is destroyed: by a job    *)
(* for the one that had its id before (ODEThread.cpp:65), or by the exit   *)
(* of the group leader.                                                    *)
RunsHead ==
  \A t \in Targets : pc[t] # "gone" /\ t \notin robbed =>
    \A h \in {ctx[t]} \cup (IF swap[t] THEN {next[t]} ELSE {}) :
      h > 0 =>
        /\ Pending(t) # <<>> /\ h = Head(Pending(t))
        /\ parent[h] # NoJob => target[parent[h]] = t

(* Jobs that were scheduled more than once.                                *)
Again == {j \in Jobs : \E h, k \in 1..made : h # k /\ parent[h] = j /\ parent[k] = j}

(* Whoever WaitExecute has made an owner waited for a job that has run: if *)
(* the job had a handler when the wait began, that one's function has      *)
(* returned in user mode.  The code does not keep this for a job that is   *)
(* scheduled again, whose queue may still be complete, nor on a thread     *)
(* that lost its list: the job it was running then still ends in the stub, *)
(* and completes the first handler that was appended since.                *)
WaitExecuteMeansExecuted ==
  \A c \in Callers :
    at[c] = "holding" /\ expects[c] # Null =>
      \/ expects[c] \in ran
      \/ on[c] \in Again
      \/ target[on[c]] \in robbed

(* Whoever takes the critical section leaves it again, unless it is in a   *)
(* callback that asks for it a second time: Hit sleeps in BeginWork under  *)
(* it, so this depends on what the callers did to the job's queue.         *)
EngineAlwaysFreed ==
  \A t \in Targets : (engine = t) ~> (engine = Free \/ pc[t] = "reenter")

(* What the code keeps of it: only a job that was scheduled more than once *)
(* can put the completion to sleep, its queue being complete since nobody  *)
(* waited for the time before.                                             *)
EngineFreed ==
  \A t \in Targets :
    (engine = t) ~> \/ engine = Free
                    \/ pc[t] = "reenter"
                    \/ pc[t] = "begin" /\ parent[cur[t]] \in Again

(* What the thread ran of its own is not forgotten: it is running, or it   *)
(* is where the engine or the kernel will take it from.  The code does not *)
(* keep this: a handler added between LeaveDECriticalSection and the       *)
(* return to user mode replaces the context that was to be restored.       *)
AppContextKept ==
  pc[Leader] # "gone" =>
    \A t \in Targets :
      \/ ctx[t] = App
      \/ swap[t] /\ next[t] = App
      \/ hasPrevious[PidOf[t]] /\ restore[PidOf[t]] = App
      \/ previous[t] = App /\ (ctx[t] > 0 \/ pc[t] # "user")

(* The engine uses each job's queue as the round allows: one worker at a   *)
(* time, and only while a task is left.  The code does not keep this for a *)
(* queue whose round was begun when it was used up, BeginWork having found *)
(* no memory to sleep (OWorkQueue.cpp:155-158).                            *)
Round(j) == INSTANCE TaskRound WITH
  Clients <- Callers,
  Doers   <- Targets,
  Tasks   <- 1,
  begun   <- begun[j],
  done    <- done[j],
  busy    <- {t \in Targets : pc[t] = "end" /\ parent[cur[t]] = j},
  waiting <- waiting[j],
  holding <- holding[j]

UsesRound ==
  /\ \A j \in Jobs : Round(j)!RoundInit
  /\ [][\A j \in Jobs : \/ Round(j)!RoundNext
                        \/ UNCHANGED Round(j)!roundVars
                        \/ j \in overrun']_vars

=============================================================================
