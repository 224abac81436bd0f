-------------------- MODULE DeferredExecutionOrderProofs --------------------
(***************************************************************************)
(* The order and the results of the jobs of DeferredExecution: the rounds  *)
(* of their work queues (RoundInv), the contexts and lists of the threads  *)
(* (OrderInv), and what a finished round says of its job (ExecInv).  Each  *)
(* is inductive together with the IInv of DeferredExecutionProofs.         *)
(***************************************************************************)
EXTENDS DeferredExecutionProofs

-----------------------------------------------------------------------------
(* A round has owners only when it is over, and, unless it was overrun,    *)
(* its task is begun and done once and nobody waits when it is over; a     *)
(* caller is in the queue of the job it waits for.                         *)
RoundOrder ==
  /\ \A j \in Jobs : holding[j] # {} => done[j] > 0
  /\ \A j \in Jobs \ overrun : done[j] <= begun[j] /\ begun[j] <= 1
  /\ \A j \in Jobs \ overrun : waiting[j] # {} => done[j] = 0

RoundBusy ==
  \A t \in Targets : pc[t] = "end" /\ parent[cur[t]] \notin overrun =>
    begun[parent[cur[t]]] = 1 /\ done[parent[cur[t]]] = 0

RoundClients ==
  /\ \A j \in Jobs : waiting[j] \cap holding[j] = {}
  /\ \A j \in Jobs : \A c \in waiting[j] \cup holding[j] :
       at[c] \in {"waiting", "holding"} /\ on[c] = j
  /\ \A c \in Callers : at[c] = "waiting" => c \in waiting[on[c]] \cup holding[on[c]]
  /\ \A c \in Callers : at[c] = "holding" => c \in holding[on[c]]

RoundInv == RoundOrder /\ RoundBusy /\ RoundClients

(* What a thread has of its own is never mistaken for a job, and its list  *)
(* holds jobs made for it; the job it completes is the one that ran.       *)
(* Own: the condition of RunsHead.                                         *)
Own(t) == pc[t] # "gone" /\ t \notin robbed

IsHead(t, h) == Pending(t) # <<>> /\ h = Head(Pending(t))

Hitting == {"hit"} \cup Triggering

OwnOrder(t) ==
  /\ previous[t] <= 0
  /\ hasPrevious[PidOf[t]] /\ task[PidOf[t]] = t => restore[PidOf[t]] <= 0
  /\ pc[t] = "enter" => Pending(t) # <<>> /\ Head(Pending(t)) \in ran
  /\ pc[t] \in Hitting => cur[t] \in ran
  /\ swap[t] => ctx[t] <= 0 /\ pc[t] \notin Completing \cup {"enter"}
  /\ ctx[t] > 0 => IsHead(t, ctx[t])
  /\ swap[t] /\ next[t] > 0 => IsHead(t, next[t])

StubRuns == \A t \in Targets : pc[t] \in Completing \cup {"enter", "return"} => ctx[t] = Stub

StateFound == \A t \in Targets : pc[t] \in Completing => task[PidOf[t]] = t

QueueOwned ==
  \A p \in Pids : \A h \in Range(queue[p]) : parent[h] # NoJob => target[parent[h]] = task[p]

HitOwned ==
  \A t \in Targets : pc[t] \in Hitting /\ parent[cur[t]] # NoJob => target[parent[cur[t]]] = t

OrderInv ==
  /\ StubRuns /\ StateFound /\ QueueOwned /\ HitOwned
  /\ \A t \in Targets : Own(t) => OwnOrder(t)

(* A round that is over means that a job ran, unless its thread lost its   *)
(* list, and a caller expects a handler of the job that it waits for.      *)
DoneRan ==
  \A j \in Jobs : alive[j] /\ done[j] > 0 =>
    target[j] \in robbed \/ \E h \in ran : parent[h] = j

ExpectsOwn ==
  \A c \in Callers : at[c] \in {"waiting", "holding"} /\ expects[c] # Null =>
    parent[expects[c]] = on[c]

ExecInv == DoneRan /\ ExpectsOwn

(* A round is over when its one task is, and is begun anew when all left.  *)
LEMMA RoundOrderStep ==
  ASSUME IInv, RoundInv, [Next]_vars
  PROVE  RoundOrder'
<1>0. Basics /\ RoundInv
  BY TypeFacts
<1>1. ASSUME NEW c \in Callers, NEW j \in Jobs, WaitExecute(c, j)
      PROVE  RoundOrder'
  <2>2. UNCHANGED <<begun, done, overrun>>
    BY <1>1 DEF WaitExecute
  <2>3. \A k \in Jobs : k # j => waiting'[k] = waiting[k] /\ holding'[k] = holding[k]
    BY <1>0, <1>1 DEF WaitExecute, RoundTypes, Basics
  <2>4. \/ done[j] = 1 /\ waiting'[j] = waiting[j]
        \/ done[j] # 1 /\ holding'[j] = holding[j]
    BY <1>1 DEF WaitExecute
  <2>5. done[j] \in Nat /\ begun[j] \in Nat
    BY <1>0 DEF RoundTypes, Basics
  <2> QED
    BY <1>0, <2>2, <2>3, <2>4, <2>5 DEF RoundInv, RoundOrder
<1>2. ASSUME NEW c \in Callers, WaitTimesOut(c)
      PROVE  RoundOrder'
  BY <1>0, <1>2 DEF WaitTimesOut, RoundInv, RoundOrder, RoundTypes, Basics
<1>3. ASSUME NEW c \in Callers, ReleaseOwner(c)
      PROVE  RoundOrder'
  <2> DEFINE j == on[c]
  <2>1. j \in Jobs /\ UNCHANGED <<waiting, overrun>>
    BY <1>0, <1>3 DEF ReleaseOwner, Basics
  <2>2. \A k \in Jobs : k # j => /\ begun'[k] = begun[k] /\ done'[k] = done[k]
                                 /\ holding'[k] = holding[k]
    BY <1>0, <1>3 DEF ReleaseOwner, RoundTypes, Basics
  <2>3. \/ waiting'[j] = {} /\ holding'[j] = {} /\ begun'[j] = 0 /\ done'[j] = 0
        \/ holding'[j] \subseteq holding[j] /\ begun'[j] = begun[j] /\ done'[j] = done[j]
    BY <1>0, <1>3, <2>1 DEF ReleaseOwner, RoundTypes, Basics
  <2> QED
    BY <1>0, <2>1, <2>2, <2>3 DEF RoundInv, RoundOrder
<1>4. ASSUME NEW t \in Targets, TriggerBegins(t) \/ TriggerCannotSleep(t)
      PROVE  RoundOrder'
  <2> DEFINE j == parent[cur[t]]
  <2>1. j \in Jobs /\ begun[j] \in Nat /\ done[j] \in Nat /\ UNCHANGED <<done, waiting, holding>>
    BY <1>0, <1>4 DEF TriggerBegins, TriggerCannotSleep, Basics, Triggering, RoundTypes
  <2>2. /\ \A k \in Jobs : k # j => begun'[k] = begun[k]
        /\ overrun \subseteq overrun'
    BY <1>0, <1>4 DEF TriggerBegins, TriggerCannotSleep, Basics, RoundTypes
  <2>3. j \notin overrun' => begun[j] # 1 /\ begun'[j] = begun[j] + 1
    BY <1>0, <1>4, <2>1 DEF TriggerBegins, TriggerCannotSleep, Basics, RoundTypes
  <2> QED
    BY <1>0, <2>1, <2>2, <2>3 DEF RoundInv, RoundOrder
<1>5. ASSUME NEW t \in Targets, TriggerEnds(t)
      PROVE  RoundOrder'
  <2> DEFINE j == parent[cur[t]]
  <2>1. j \in Jobs /\ done[j] \in Nat /\ UNCHANGED <<begun, overrun>>
    BY <1>0, <1>5 DEF TriggerEnds, Basics, Triggering, RoundTypes
  <2>2. /\ \A k \in Jobs : k # j => done'[k] = done[k] /\ waiting'[k] = waiting[k]
                                                    /\ holding'[k] = holding[k]
        /\ done'[j] = done[j] + 1
    <3>1. CASE done[j] = 0
      BY <1>0, <1>5, <2>1, <3>1 DEF TriggerEnds, Basics, RoundTypes
    <3>2. CASE done[j] # 0
      BY <1>0, <1>5, <2>1, <3>2 DEF TriggerEnds, Basics, RoundTypes
    <3> QED
      BY <3>1, <3>2
  <2>3. j \notin overrun => begun[j] = 1 /\ done[j] = 0
    BY <1>0, <1>5 DEF TriggerEnds, RoundInv, RoundBusy
  <2>4. done[j] = 0 => waiting'[j] = {}
    BY <1>0, <1>5, <2>1 DEF TriggerEnds, Basics, RoundTypes
  <2> QED
    BY <1>0, <2>1, <2>2, <2>3, <2>4 DEF RoundInv, RoundOrder
<1>6. ASSUME NEW c \in Callers, NEW j \in Jobs,
             Schedule(c, j) \/ AwaitExecute(c, j) \/ Destroy(c, j)
      PROVE  RoundOrder'
  <2>1. UNCHANGED roundVars
    BY <1>6 DEF Schedule, roundVars, threadVars, swapVars, targetVars, mutexes,
         AwaitExecute, handlerVars, callerVars, Destroy
  <2> QED
    BY <1>0, <2>1 DEF RoundOrder, RoundInv, roundVars
<1>7. ASSUME NEW c \in Callers,
             APC_AddPendingWork(c) \/ APC_AddPendingWorkFails(c) \/ WaitReturns(c)
      PROVE  RoundOrder'
  <2>1. UNCHANGED roundVars
    BY <1>7 DEF APC_AddPendingWork, UpdatePidHandle, Die, AppendWork, Pending,
         PreemptExecution, roundVars, targetVars, mutexes, APC_AddPendingWorkFails,
         threadVars, swapVars, WaitReturns, jobVars, handlerVars
  <2> QED
    BY <1>0, <2>1 DEF RoundOrder, RoundInv, roundVars
<1>8. ASSUME NEW t \in Targets,
             SwapUser(t) \/ ReturnToUser(t) \/ JobReturns(t) \/ NtfyFindsNoThread(t) \/
             NtfyJobFinished(t) \/ Hit(t) \/ HitDetaches(t) \/ CallbackReturns(t) \/
             NtfyGoesOn(t) \/ ThreadExits(t) \/ ThreadStarts(t)
      PROVE  RoundOrder'
  <2>1. UNCHANGED roundVars
    BY <1>8 DEF SwapUser, jobVars, roundVars, handlerVars, threadVars, callerVars,
         mutexes, ReturnToUser, swapVars, JobReturns, NtfyFindsNoThread, NtfyJobFinished,
         Hit, HitDetaches, CallbackReturns, NtfyGoesOn, ThreadExits, ThreadStarts
  <2> QED
    BY <1>0, <2>1 DEF RoundOrder, RoundInv, roundVars
<1>9. ASSUME NEW t \in Targets, NEW j \in Jobs, CallbackSchedules(t, j)
      PROVE  RoundOrder'
  <2>1. UNCHANGED roundVars
    BY <1>9 DEF CallbackSchedules, roundVars, threadVars, swapVars, callerVars, mutexes
  <2> QED
    BY <1>0, <2>1 DEF RoundOrder, RoundInv, roundVars
<1>10. ASSUME APC_OnThreadExit
      PROVE  RoundOrder'
  <2>1. UNCHANGED roundVars
    BY <1>10 DEF APC_OnThreadExit, Die, Dying, FreeDEProcess, roundVars, swapVars,
         callerVars, mutexes
  <2> QED
    BY <1>0, <2>1 DEF RoundOrder, RoundInv, roundVars
<1>11. CASE UNCHANGED vars
  BY <1>0, <1>11 DEF vars, jobVars, roundVars, handlerVars, threadVars, swapVars,
       targetVars, callerVars, mutexes, RoundOrder, RoundInv, Basics
<1> QED
  BY <1>1, <1>2, <1>3, <1>4, <1>5, <1>6, <1>7, <1>8, <1>9, <1>10, <1>11 DEF Next,
       Completion

(* Only the thread that began the task is in it, and the round waits.      *)
LEMMA RoundBusyStep ==
  ASSUME IInv, RoundInv, [Next]_vars
  PROVE  RoundBusy'
<1>0. Basics /\ RoundInv
  BY TypeFacts
<1>1. ASSUME NEW c \in Callers, NEW j \in Jobs, Schedule(c, j)
      PROVE  RoundBusy'
  <2>1. \A u \in Targets : pc'[u] = "end" => pc[u] = "end" /\ cur'[u] = cur[u]
    BY <1>0, <1>1 DEF Schedule, targetVars, Basics, TargetTypes
  <2>2. \A h \in 1..made : parent'[h] = parent[h]
    BY <1>0, <1>1 DEF Schedule, NewHandler, Basics, HandlerTypes
  <2>3. UNCHANGED <<begun, done, overrun>>
    BY <1>1 DEF Schedule, roundVars
  <2> QED
    BY <1>0, <2>1, <2>2, <2>3 DEF RoundInv, RoundBusy, Basics, Completing
<1>2. ASSUME NEW c \in Callers, NEW j \in Jobs, Destroy(c, j)
      PROVE  RoundBusy'
  <2>1. \A u \in Targets : pc'[u] # "end"
    BY <1>2, Alone DEF Destroy, targetVars, Triggering
  <2> QED
    BY <2>1 DEF RoundBusy
<1>3. ASSUME NEW c \in Callers, ReleaseOwner(c)
      PROVE  RoundBusy'
  <2>1. on[c] \in Jobs /\ done[on[c]] # 0
    BY <1>0, <1>3 DEF ReleaseOwner, Basics, RoundInv, RoundOrder, RoundClients
  <2>2. \A k \in Jobs : k # on[c] => begun'[k] = begun[k] /\ done'[k] = done[k]
    BY <1>0, <1>3 DEF ReleaseOwner, Basics, RoundTypes
  <2>3. UNCHANGED <<pc, cur, parent, overrun>>
    BY <1>3 DEF ReleaseOwner, targetVars, handlerVars
  <2> QED
    BY <1>0, <2>1, <2>2, <2>3 DEF RoundInv, RoundBusy, Basics, Triggering
<1>4. ASSUME NEW t \in Targets, SwapUser(t)
      PROVE  RoundBusy'
  <2>1. \A u \in Targets : pc'[u] = "end" => pc[u] = "end" /\ cur'[u] = cur[u]
    BY <1>0, <1>4 DEF SwapUser, jobVars, roundVars, handlerVars, threadVars, callerVars,
         mutexes, Basics, TargetTypes
  <2>2. UNCHANGED <<parent, begun, done, overrun>>
    BY <1>4 DEF SwapUser, jobVars, roundVars, handlerVars, threadVars, callerVars,
         mutexes
  <2> QED
    BY <1>0, <2>1, <2>2 DEF RoundInv, RoundBusy
<1>5. ASSUME NEW t \in Targets, ReturnToUser(t)
      PROVE  RoundBusy'
  <2>1. \A u \in Targets : pc'[u] = "end" => pc[u] = "end" /\ cur'[u] = cur[u]
    BY <1>0, <1>5 DEF ReturnToUser, jobVars, roundVars, handlerVars, threadVars,
         swapVars,
         callerVars, mutexes, Basics, TargetTypes
  <2>2. UNCHANGED <<parent, begun, done, overrun>>
    BY <1>5 DEF ReturnToUser, jobVars, roundVars, handlerVars, threadVars, swapVars,
         callerVars, mutexes
  <2> QED
    BY <1>0, <2>1, <2>2 DEF RoundInv, RoundBusy
<1>6. ASSUME NEW t \in Targets, JobReturns(t)
      PROVE  RoundBusy'
  <2>1. \A u \in Targets : pc'[u] = "end" => pc[u] = "end" /\ cur'[u] = cur[u]
    BY <1>0, <1>6 DEF JobReturns, jobVars, roundVars, handlerVars, threadVars,
         callerVars,
         mutexes, Basics, TargetTypes
  <2>2. UNCHANGED <<parent, begun, done, overrun>>
    BY <1>6 DEF JobReturns, jobVars, roundVars, handlerVars, threadVars, callerVars,
         mutexes
  <2> QED
    BY <1>0, <2>1, <2>2 DEF RoundInv, RoundBusy
<1>7. ASSUME NEW t \in Targets, NtfyFindsNoThread(t)
      PROVE  RoundBusy'
  <2>1. \A u \in Targets : pc'[u] = "end" => pc[u] = "end" /\ cur'[u] = cur[u]
    BY <1>0, <1>7 DEF NtfyFindsNoThread, jobVars, roundVars, handlerVars, threadVars,
         swapVars, callerVars, mutexes, Basics, TargetTypes
  <2>2. UNCHANGED <<parent, begun, done, overrun>>
    BY <1>7 DEF NtfyFindsNoThread, jobVars, roundVars, handlerVars, threadVars,
         swapVars,
         callerVars, mutexes
  <2> QED
    BY <1>0, <2>1, <2>2 DEF RoundInv, RoundBusy
<1>8. ASSUME NEW t \in Targets, NtfyJobFinished(t)
      PROVE  RoundBusy'
  <2>1. \A u \in Targets : pc'[u] # "end"
    BY <1>0, <1>8, Alone DEF NtfyJobFinished, Completing, Basics, TargetTypes
  <2> QED
    BY <2>1 DEF RoundBusy
<1>9. ASSUME NEW t \in Targets, Hit(t)
      PROVE  RoundBusy'
  <2>1. \A u \in Targets : pc'[u] = "end" => pc[u] = "end" /\ cur'[u] = cur[u]
    BY <1>0, <1>9 DEF Hit, roundVars, threadVars, swapVars, callerVars, Basics,
         TargetTypes
  <2>2. UNCHANGED <<parent, begun, done, overrun>>
    BY <1>9 DEF Hit, roundVars, threadVars, swapVars, callerVars
  <2> QED
    BY <1>0, <2>1, <2>2 DEF RoundInv, RoundBusy
<1>10. ASSUME NEW t \in Targets, TriggerBegins(t) \/ TriggerCannotSleep(t)
      PROVE  RoundBusy'
  <2>1. parent[cur[t]] \in Jobs
    BY <1>0, <1>10 DEF TriggerBegins, TriggerCannotSleep, Basics, Triggering
  <2>2. CASE TriggerBegins(t)
    <3>1. /\ begun[parent[cur[t]]] # 1 /\ begun'[parent[cur[t]]] = begun[parent[cur[t]]] + 1
          /\ UNCHANGED <<done, overrun, parent, cur>>
          /\ begun[parent[cur[t]]] \in Nat /\ done[parent[cur[t]]] \in Nat
      BY <1>0, <2>1, <2>2 DEF TriggerBegins, Basics, RoundTypes, handlerVars
    <3>2. parent[cur[t]] \notin overrun =>
            begun'[parent[cur[t]]] = 1 /\ done'[parent[cur[t]]] = 0
      BY <1>0, <2>1, <3>1 DEF RoundInv, RoundOrder
    <3>3. \A u \in Targets : pc'[u] = "end" => u = t
      BY <1>0, <2>2, Alone DEF TriggerBegins, Basics, TargetTypes, Completing
    <3> QED
      BY <3>1, <3>2, <3>3 DEF RoundBusy
  <2>3. CASE TriggerCannotSleep(t)
    <3>1. parent[cur[t]] \in overrun' /\ UNCHANGED <<parent, cur>>
      BY <2>3 DEF TriggerCannotSleep, handlerVars
    <3>2. \A u \in Targets : pc'[u] = "end" => u = t
      BY <1>0, <2>3, Alone DEF TriggerCannotSleep, Basics, TargetTypes, Completing
    <3> QED
      BY <3>1, <3>2 DEF RoundBusy
  <2> QED
    BY <1>10, <2>2, <2>3
<1>11. ASSUME NEW t \in Targets, TriggerEnds(t)
      PROVE  RoundBusy'
  <2>1. \A u \in Targets : pc'[u] # "end"
    BY <1>0, <1>11, Alone DEF TriggerEnds, Basics, TargetTypes, Completing
  <2> QED
    BY <2>1 DEF RoundBusy
<1>12. ASSUME NEW t \in Targets, HitDetaches(t)
      PROVE  RoundBusy'
  <2>1. \A u \in Targets : pc'[u] = "end" => pc[u] = "end" /\ cur'[u] = cur[u]
    BY <1>0, <1>12 DEF HitDetaches, roundVars, threadVars, swapVars, callerVars, Basics,
         TargetTypes
  <2>2. UNCHANGED <<parent, begun, done, overrun>>
    BY <1>12 DEF HitDetaches, roundVars, threadVars, swapVars, callerVars
  <2> QED
    BY <1>0, <2>1, <2>2 DEF RoundInv, RoundBusy
<1>13. ASSUME NEW t \in Targets, CallbackReturns(t)
      PROVE  RoundBusy'
  <2>1. \A u \in Targets : pc'[u] = "end" => pc[u] = "end" /\ cur'[u] = cur[u]
    BY <1>0, <1>13 DEF CallbackReturns, jobVars, roundVars, threadVars, swapVars,
         callerVars,
         mutexes, Basics, TargetTypes
  <2>2. UNCHANGED <<parent, begun, done, overrun>>
    BY <1>13 DEF CallbackReturns, jobVars, roundVars, threadVars, swapVars, callerVars,
         mutexes
  <2> QED
    BY <1>0, <2>1, <2>2 DEF RoundInv, RoundBusy
<1>14. ASSUME NEW t \in Targets, NtfyGoesOn(t)
      PROVE  RoundBusy'
  <2>1. \A u \in Targets : pc'[u] = "end" => pc[u] = "end" /\ cur'[u] = cur[u]
    BY <1>0, <1>14 DEF NtfyGoesOn, jobVars, roundVars, handlerVars, callerVars, Basics,
         TargetTypes
  <2>2. UNCHANGED <<parent, begun, done, overrun>>
    BY <1>14 DEF NtfyGoesOn, jobVars, roundVars, handlerVars, callerVars,
         PreemptExecution,
         SaveState
  <2> QED
    BY <1>0, <2>1, <2>2 DEF RoundInv, RoundBusy
<1>15. ASSUME NEW t \in Targets, NEW j \in Jobs, CallbackSchedules(t, j)
      PROVE  RoundBusy'
  <2>1. \A u \in Targets : pc'[u] = "end" => pc[u] = "end" /\ cur'[u] = cur[u]
    BY <1>0, <1>15 DEF CallbackSchedules, targetVars, Basics, TargetTypes
  <2>2. \A h \in 1..made : parent'[h] = parent[h]
    BY <1>0, <1>15 DEF CallbackSchedules, NewHandler, Basics, HandlerTypes
  <2>3. UNCHANGED <<begun, done, overrun>>
    BY <1>15 DEF CallbackSchedules, roundVars
  <2> QED
    BY <1>0, <2>1, <2>2, <2>3 DEF RoundInv, RoundBusy, Basics, Completing
<1>16. ASSUME NEW t \in Targets, ThreadExits(t)
      PROVE  RoundBusy'
  <2>1. \A u \in Targets : pc'[u] = "end" => pc[u] = "end" /\ cur'[u] = cur[u]
    BY <1>0, <1>16 DEF ThreadExits, jobVars, roundVars, handlerVars, threadVars,
         swapVars,
         callerVars, mutexes, Basics, TargetTypes
  <2>2. UNCHANGED <<parent, begun, done, overrun>>
    BY <1>16 DEF ThreadExits, jobVars, roundVars, handlerVars, threadVars, swapVars,
         callerVars, mutexes
  <2> QED
    BY <1>0, <2>1, <2>2 DEF RoundInv, RoundBusy
<1>17. ASSUME NEW t \in Targets, ThreadStarts(t)
      PROVE  RoundBusy'
  <2>1. \A u \in Targets : pc'[u] = "end" => pc[u] = "end" /\ cur'[u] = cur[u]
    BY <1>0, <1>17 DEF ThreadStarts, jobVars, roundVars, handlerVars, threadVars,
         swapVars,
         callerVars, mutexes, Basics, TargetTypes
  <2>2. UNCHANGED <<parent, begun, done, overrun>>
    BY <1>17 DEF ThreadStarts, jobVars, roundVars, handlerVars, threadVars, swapVars,
         callerVars, mutexes
  <2> QED
    BY <1>0, <2>1, <2>2 DEF RoundInv, RoundBusy
<1>18. ASSUME APC_OnThreadExit
      PROVE  RoundBusy'
  <2>1. \A u \in Targets : pc'[u] = "end" => pc[u] = "end" /\ cur'[u] = cur[u]
    BY <1>0, <1>18 DEF APC_OnThreadExit, roundVars, swapVars, callerVars, mutexes,
         Basics,
         TargetTypes
  <2>2. UNCHANGED <<parent, begun, done, overrun>>
    BY <1>18 DEF APC_OnThreadExit, roundVars, swapVars, callerVars, mutexes, Die, Dying,
         FreeDEProcess
  <2> QED
    BY <1>0, <2>1, <2>2 DEF RoundInv, RoundBusy
<1>19. ASSUME NEW c \in Callers, NEW j \in Jobs, AwaitExecute(c, j) \/ WaitExecute(c, j)
      PROVE  RoundBusy'
  <2>1. UNCHANGED <<pc, cur, parent, begun, done, overrun>>
    BY <1>19 DEF AwaitExecute, roundVars, handlerVars, threadVars, swapVars, targetVars,
         callerVars, mutexes, WaitExecute, jobVars
  <2> QED
    BY <1>0, <2>1 DEF RoundBusy, RoundInv, Basics
<1>20. ASSUME NEW c \in Callers,
             APC_AddPendingWork(c) \/ APC_AddPendingWorkFails(c) \/ WaitReturns(c) \/
             WaitTimesOut(c)
      PROVE  RoundBusy'
  <2>1. UNCHANGED <<pc, cur, parent, begun, done, overrun>>
    BY <1>20 DEF APC_AddPendingWork, UpdatePidHandle, Die, AppendWork, Pending,
         PreemptExecution, roundVars, targetVars, mutexes, APC_AddPendingWorkFails,
         threadVars, swapVars, WaitReturns, jobVars, handlerVars, WaitTimesOut
  <2> QED
    BY <1>0, <2>1 DEF RoundBusy, RoundInv, Basics
<1>21. CASE UNCHANGED vars
  BY <1>0, <1>21 DEF vars, jobVars, roundVars, handlerVars, threadVars, swapVars,
       targetVars, callerVars, mutexes, RoundBusy, RoundInv, Basics
<1> QED
  BY <1>1, <1>2, <1>3, <1>4, <1>5, <1>6, <1>7, <1>8, <1>9, <1>10, <1>11, <1>12, <1>13,
       <1>14, <1>15, <1>16, <1>17, <1>18, <1>19, <1>20, <1>21 DEF Next, Completion

(* Who waits for a job, or owns its round, is in its queue, and no other.  *)
LEMMA RoundClientsStep ==
  ASSUME IInv, RoundInv, [Next]_vars
  PROVE  RoundClients'
<1>0. Basics /\ RoundInv
  BY TypeFacts
<1>a. /\ waiting \in [Jobs -> SUBSET Callers] /\ holding \in [Jobs -> SUBSET Callers]
      /\ \A c \in Callers : at[c] # "out" => on[c] \in Jobs
      /\ RoundClients
  BY <1>0 DEF Basics, RoundTypes, RoundInv
<1>1. ASSUME NEW c \in Callers, NEW j \in Jobs, Schedule(c, j)
      PROVE  RoundClients'
  <2>1. /\ at[c] # "waiting" /\ at[c] # "holding" /\ at'[c] # "waiting" /\ at'[c] # "holding"
        /\ \A d \in Callers : d # c => at'[d] = at[d] /\ on'[d] = on[d]
    BY <1>0, <1>1 DEF Schedule, Basics, CallerTypes
  <2>2. waiting' = waiting /\ holding' = holding
    BY <1>1 DEF Schedule, roundVars
  <2> QED
    BY <1>a, <2>1, <2>2 DEF RoundClients
<1>2. ASSUME NEW c \in Callers, NEW j \in Jobs, WaitExecute(c, j)
      PROVE  RoundClients'
  <2>1. /\ at[c] = "out" /\ on'[c] = j
        /\ \A d \in Callers : d # c => at'[d] = at[d] /\ on'[d] = on[d]
        /\ \A k \in Jobs : k # j => waiting'[k] = waiting[k] /\ holding'[k] = holding[k]
    BY <1>0, <1>2 DEF WaitExecute, Basics, CallerTypes, RoundTypes
  <2>2. \/ at'[c] = "holding" /\ holding'[j] = holding[j] \cup {c} /\ waiting'[j] = waiting[j]
        \/ at'[c] = "waiting" /\ waiting'[j] = waiting[j] \cup {c} /\ holding'[j] = holding[j]
    BY <1>0, <1>2 DEF WaitExecute, Basics, CallerTypes, RoundTypes
  <2>3. \A k \in Jobs : c \notin waiting[k] \cup holding[k]
    BY <1>0, <2>1 DEF RoundInv, RoundClients
  <2>4. \A k \in Jobs : waiting[k] \cup holding[k] \subseteq Callers
    BY <1>0 DEF Basics, RoundTypes
  <2>5. \A k \in Jobs : waiting'[k] \cap holding'[k] = {}
    BY <1>a, <2>1, <2>2, <2>3 DEF RoundClients
  <2>6. \A k \in Jobs : \A d \in waiting'[k] \cup holding'[k] :
          at'[d] \in {"waiting", "holding"} /\ on'[d] = k
    BY <1>0, <2>1, <2>2, <2>3, <2>4 DEF RoundInv, RoundClients
  <2>7. \A d \in Callers : /\ at'[d] = "waiting" => d \in waiting'[on'[d]] \cup holding'[on'[d]]
                           /\ at'[d] = "holding" => d \in holding'[on'[d]]
    <3> TAKE d \in Callers
    <3>1. CASE d = c
      BY <2>1, <2>2, <3>1
    <3>2. CASE d # c
      BY <1>0, <2>1, <2>2, <3>2 DEF RoundInv, RoundClients, Basics
    <3> QED
      BY <3>1, <3>2
  <2> QED
    BY <2>5, <2>6, <2>7 DEF RoundClients
<1>3. ASSUME NEW c \in Callers, APC_AddPendingWork(c)
      PROVE  RoundClients'
  <2>1. /\ at[c] # "waiting" /\ at[c] # "holding" /\ at'[c] # "waiting" /\ at'[c] # "holding"
        /\ \A d \in Callers : d # c => at'[d] = at[d] /\ on'[d] = on[d]
    BY <1>0, <1>3 DEF APC_AddPendingWork, Basics, CallerTypes
  <2>2. waiting' = waiting /\ holding' = holding
    BY <1>3, AddEffect DEF Updated, roundVars
  <2> QED
    BY <1>a, <2>1, <2>2 DEF RoundClients
<1>4. ASSUME NEW c \in Callers, APC_AddPendingWorkFails(c)
      PROVE  RoundClients'
  <2>1. /\ at[c] # "waiting" /\ at[c] # "holding" /\ at'[c] # "waiting" /\ at'[c] # "holding"
        /\ \A d \in Callers : d # c => at'[d] = at[d] /\ on'[d] = on[d]
    BY <1>0, <1>4 DEF APC_AddPendingWorkFails, Basics, CallerTypes
  <2>2. waiting' = waiting /\ holding' = holding
    BY <1>4, FailEffect DEF FailUpdates, FailLeaves, Updated, roundVars
  <2> QED
    BY <1>a, <2>1, <2>2 DEF RoundClients
<1>5. ASSUME NEW c \in Callers, WaitReturns(c)
      PROVE  RoundClients'
  <2>1. /\ at[c] = "waiting" /\ c \in holding[on[c]] /\ at'[c] = "holding"
        /\ \A d \in Callers : d # c => at'[d] = at[d]
        /\ UNCHANGED <<on, waiting, holding>>
    BY <1>0, <1>5 DEF WaitReturns, Basics, CallerTypes, roundVars
  <2> QED
    BY <1>a, <2>1 DEF RoundClients
<1>6. ASSUME NEW c \in Callers, WaitTimesOut(c)
      PROVE  RoundClients'
  <2>1. /\ on[c] \in Jobs /\ at'[c] = "out"
        /\ \A d \in Callers : d # c => at'[d] = at[d] /\ on'[d] = on[d]
    BY <1>0, <1>6 DEF WaitTimesOut, Basics, CallerTypes
  <2>2. /\ \A k \in Jobs : waiting'[k] \subseteq waiting[k] /\ holding'[k] \subseteq holding[k]
        /\ c \notin waiting'[on[c]] \cup holding'[on[c]]
        /\ \A d \in Callers : d # c => \A k \in Jobs : /\ d \in waiting[k] <=> d \in waiting'[k]
                                                       /\ d \in holding[k] <=> d \in holding'[k]
    BY <1>0, <1>6, <2>1 DEF WaitTimesOut, Basics, RoundTypes
  <2> QED
    BY <1>a, <2>1, <2>2 DEF RoundClients
<1>7. ASSUME NEW c \in Callers, ReleaseOwner(c)
      PROVE  RoundClients'
  <2>1. /\ on[c] \in Jobs /\ at'[c] = "out"
        /\ \A d \in Callers : d # c => at'[d] = at[d] /\ on'[d] = on[d]
    BY <1>0, <1>7 DEF ReleaseOwner, Basics, CallerTypes
  <2>2. /\ \A k \in Jobs : waiting'[k] \subseteq waiting[k] /\ holding'[k] \subseteq holding[k]
        /\ c \notin waiting'[on[c]] \cup holding'[on[c]]
        /\ \A d \in Callers : d # c => \A k \in Jobs : /\ d \in waiting[k] <=> d \in waiting'[k]
                                                       /\ d \in holding[k] <=> d \in holding'[k]
    <3>1. holding' = [holding EXCEPT ![on[c]] = holding[on[c]] \ {c}] /\ UNCHANGED waiting
      BY <1>7 DEF ReleaseOwner
    <3>2. c \notin waiting[on[c]]
      BY <1>a, <1>7, <2>1 DEF ReleaseOwner, RoundClients
    <3> QED
      BY <1>a, <2>1, <3>1, <3>2
  <2> QED
    BY <1>a, <2>1, <2>2 DEF RoundClients
<1>8. ASSUME NEW t \in Targets, TriggerEnds(t)
      PROVE  RoundClients'
  <2>1. parent[cur[t]] \in Jobs /\ UNCHANGED <<at, on>>
    BY <1>0, <1>8 DEF TriggerEnds, Basics, Triggering, callerVars
  <2>2. \A k \in Jobs : /\ waiting'[k] \cup holding'[k] = waiting[k] \cup holding[k]
                        /\ holding[k] \subseteq holding'[k]
                        /\ waiting'[k] \cap holding'[k] = {}
    <3>1. CASE done[parent[cur[t]]] = 0
      BY <1>a, <1>8, <2>1, <3>1 DEF TriggerEnds, RoundClients
    <3>2. CASE done[parent[cur[t]]] # 0
      BY <1>a, <1>8, <3>2 DEF TriggerEnds, RoundClients
    <3> QED
      BY <3>1, <3>2
  <2> QED
    BY <1>a, <2>1, <2>2 DEF RoundClients
<1>9. ASSUME NEW c \in Callers, NEW j \in Jobs, AwaitExecute(c, j) \/ Destroy(c, j)
      PROVE  RoundClients'
  <2>1. UNCHANGED <<waiting, holding, at, on>>
    BY <1>9 DEF AwaitExecute, roundVars, handlerVars, threadVars, swapVars, targetVars,
         callerVars, mutexes, Destroy
  <2> QED
    BY <1>0, <2>1 DEF RoundClients, RoundInv, Basics
<1>10. ASSUME NEW t \in Targets,
             SwapUser(t) \/ ReturnToUser(t) \/ JobReturns(t) \/ NtfyFindsNoThread(t) \/
             NtfyJobFinished(t) \/ Hit(t) \/ TriggerBegins(t) \/ TriggerCannotSleep(t) \/ HitDetaches(t) \/
             CallbackReturns(t) \/ NtfyGoesOn(t) \/ ThreadExits(t) \/ ThreadStarts(t)
      PROVE  RoundClients'
  <2>1. UNCHANGED <<waiting, holding, at, on>>
    BY <1>10 DEF SwapUser, jobVars, roundVars, handlerVars, threadVars, callerVars,
         mutexes, ReturnToUser, swapVars, JobReturns, NtfyFindsNoThread, NtfyJobFinished,
         Hit, TriggerBegins, TriggerCannotSleep, HitDetaches, CallbackReturns, NtfyGoesOn, ThreadExits,
         ThreadStarts
  <2> QED
    BY <1>0, <2>1 DEF RoundClients, RoundInv, Basics
<1>11. ASSUME NEW t \in Targets, NEW j \in Jobs, CallbackSchedules(t, j)
      PROVE  RoundClients'
  <2>1. UNCHANGED <<waiting, holding, at, on>>
    BY <1>11 DEF CallbackSchedules, roundVars, threadVars, swapVars, callerVars, mutexes
  <2> QED
    BY <1>0, <2>1 DEF RoundClients, RoundInv, Basics
<1>12. ASSUME APC_OnThreadExit
      PROVE  RoundClients'
  <2>1. UNCHANGED <<waiting, holding, at, on>>
    BY <1>12 DEF APC_OnThreadExit, Die, Dying, FreeDEProcess, roundVars, swapVars,
         callerVars, mutexes
  <2> QED
    BY <1>0, <2>1 DEF RoundClients, RoundInv, Basics
<1>13. CASE UNCHANGED vars
  BY <1>0, <1>13 DEF vars, jobVars, roundVars, handlerVars, threadVars, swapVars,
       targetVars, callerVars, mutexes, RoundClients, RoundInv, Basics
<1> QED
  BY <1>1, <1>2, <1>3, <1>4, <1>5, <1>6, <1>7, <1>8, <1>9, <1>10, <1>11, <1>12, <1>13
       DEF
       Next, Completion

(* RoundInv is inductive with IInv.                                        *)
LEMMA RoundInvStep ==
  ASSUME IInv, RoundInv, [Next]_vars
  PROVE  RoundInv'
BY RoundOrderStep, RoundBusyStep, RoundClientsStep DEF RoundInv

(* No round has started.                                                   *)
LEMMA RoundInvInit == Init => RoundInv
<1> SUFFICES ASSUME Init PROVE RoundInv
  OBVIOUS
<1>1. RoundOrder /\ RoundClients
  BY DEF Init, RoundOrder, RoundClients
<1>2. \A t \in Targets : pc[t] # "end"
  BY DEF Init
<1> QED
  BY <1>1, <1>2 DEF RoundInv, RoundBusy

(* The jobs' work queues stay in order.                                    *)
THEOREM RoundsInv == Spec => [](IInv /\ RoundInv)
<1>1. Init => IInv /\ RoundInv
  BY InitInv, RoundInvInit
<1>2. IInv /\ RoundInv /\ [Next]_vars => (IInv /\ RoundInv)'
  BY InvStep, RoundInvStep
<1> QED
  BY <1>1, <1>2, PTL DEF Spec

(* Who is inside the task of j.                                            *)
Busy(j) == {t \in Targets : pc[t] = "end" /\ parent[cur[t]] = j}

(* What a step must leave alone not to be seen in any round.               *)
RoundsKept ==
  /\ UNCHANGED roundVars
  /\ \A u \in Targets : pc'[u] = "end" <=> pc[u] = "end"
  /\ \A u \in Targets : pc[u] = "end" => cur'[u] = cur[u] /\ parent'[cur[u]] = parent[cur[u]]

(* Work queues that nothing touches take no step.                          *)
LEMMA RoundsKeptStutter ==
  ASSUME RoundsKept, NEW j \in Jobs
  PROVE  UNCHANGED Round(j)!roundVars
<1>1. Busy(j)' = Busy(j)
  BY DEF Busy, RoundsKept
<1> QED
  BY <1>1 DEF Round!roundVars, RoundsKept, roundVars, Busy

(* Only waiting for a job, leaving its queue and its task are steps of it.  *)
LEMMA OthersKeepRounds ==
  ASSUME IInv, RoundInv, Next,
         ~ \E c \in Callers : \/ \E j \in Jobs : WaitExecute(c, j)
                             \/ WaitTimesOut(c) \/ ReleaseOwner(c),
         ~ \E t \in Targets : TriggerBegins(t) \/ TriggerCannotSleep(t) \/ TriggerEnds(t)
  PROVE  RoundsKept
<1>0. Basics
  BY TypeFacts
<1>1. ASSUME NEW c \in Callers, NEW j \in Jobs, Schedule(c, j)
      PROVE  RoundsKept
  <2>1. \A u \in Targets : (pc'[u] = "end" <=> pc[u] = "end") /\ cur'[u] = cur[u]
    BY <1>0, <1>1 DEF Schedule, targetVars, Basics, TargetTypes
  <2>2. \A h \in 1..made : parent'[h] = parent[h]
    BY <1>0, <1>1 DEF Schedule, NewHandler, Basics, HandlerTypes
  <2> QED
    BY <1>0, <1>1, <2>1, <2>2 DEF Schedule, RoundsKept, Basics, Completing
<1>2. ASSUME NEW c \in Callers, NEW j \in Jobs, AwaitExecute(c, j)
      PROVE  RoundsKept
  BY <1>0, <1>2 DEF AwaitExecute, Usable, roundVars, handlerVars, threadVars, swapVars,
       targetVars, callerVars, mutexes, RoundsKept, Basics, TargetTypes, Completing
<1>3. ASSUME NEW c \in Callers, NEW j \in Jobs, Destroy(c, j)
      PROVE  RoundsKept
  <2>1. \A u \in Targets : pc[u] # "end"
    BY <1>3, Alone DEF Destroy, Triggering
  <2> QED
    BY <1>3, <2>1 DEF Destroy, RoundsKept, targetVars
<1>4. ASSUME NEW c \in Callers, APC_AddPendingWork(c)
      PROVE  RoundsKept
  BY <1>0, <1>4 DEF APC_AddPendingWork, UpdatePidHandle, Die, AppendWork, Pending,
       PreemptExecution, roundVars, targetVars, mutexes, RoundsKept, Basics, TargetTypes,
       Completing
<1>5. ASSUME NEW c \in Callers, APC_AddPendingWorkFails(c)
      PROVE  RoundsKept
  BY <1>0, <1>5 DEF APC_AddPendingWorkFails, UpdatePidHandle, Die, Pending, roundVars,
       threadVars, swapVars, targetVars, mutexes, RoundsKept, Basics, TargetTypes,
       Completing
<1>6. ASSUME NEW c \in Callers, WaitReturns(c)
      PROVE  RoundsKept
  BY <1>0, <1>6 DEF WaitReturns, jobVars, roundVars, handlerVars, threadVars, swapVars,
       targetVars, mutexes, RoundsKept, Basics, TargetTypes, Completing
<1>7. ASSUME NEW t \in Targets, SwapUser(t)
      PROVE  RoundsKept
  BY <1>0, <1>7 DEF SwapUser, jobVars, roundVars, handlerVars, threadVars, callerVars,
       mutexes, RoundsKept, Basics, TargetTypes, Completing
<1>8. ASSUME NEW t \in Targets, ReturnToUser(t)
      PROVE  RoundsKept
  BY <1>0, <1>8 DEF ReturnToUser, jobVars, roundVars, handlerVars, threadVars, swapVars,
       callerVars, mutexes, RoundsKept, Basics, TargetTypes, Completing
<1>9. ASSUME NEW t \in Targets, JobReturns(t)
      PROVE  RoundsKept
  BY <1>0, <1>9 DEF JobReturns, jobVars, roundVars, handlerVars, threadVars, callerVars,
       mutexes, RoundsKept, Basics, TargetTypes, Completing
<1>10. ASSUME NEW t \in Targets, NtfyFindsNoThread(t)
      PROVE  RoundsKept
  BY <1>0, <1>10 DEF NtfyFindsNoThread, jobVars, roundVars, handlerVars, threadVars,
       swapVars, callerVars, mutexes, RoundsKept, Basics, TargetTypes, Completing
<1>11. ASSUME NEW t \in Targets, NtfyJobFinished(t)
      PROVE  RoundsKept
  BY <1>0, <1>11, Alone DEF NtfyJobFinished, PopCompletedTask, Pending, jobVars,
       roundVars, handlerVars, swapVars, callerVars, RoundsKept, Basics, TargetTypes,
       Completing
<1>12. ASSUME NEW t \in Targets, Hit(t)
      PROVE  RoundsKept
  BY <1>0, <1>12 DEF Hit, roundVars, threadVars, swapVars, callerVars, RoundsKept,
       Basics,
       TargetTypes, Completing
<1>13. ASSUME NEW t \in Targets, HitDetaches(t)
      PROVE  RoundsKept
  BY <1>0, <1>13 DEF HitDetaches, roundVars, threadVars, swapVars, callerVars,
       RoundsKept,
       Basics, TargetTypes, Completing
<1>14. ASSUME NEW t \in Targets, CallbackReturns(t)
      PROVE  RoundsKept
  BY <1>0, <1>14 DEF CallbackReturns, jobVars, roundVars, threadVars, swapVars,
       callerVars, mutexes, RoundsKept, Basics, TargetTypes, Completing
<1>15. ASSUME NEW t \in Targets, NtfyGoesOn(t)
      PROVE  RoundsKept
  BY <1>0, <1>15 DEF NtfyGoesOn, PreemptExecution, SaveState, jobVars, roundVars,
       handlerVars, callerVars, RoundsKept, Basics, TargetTypes, Completing
<1>16. ASSUME NEW t \in Targets, NEW j \in Jobs, CallbackSchedules(t, j)
      PROVE  RoundsKept
  <2>1. \A u \in Targets : (pc'[u] = "end" <=> pc[u] = "end") /\ cur'[u] = cur[u]
    BY <1>0, <1>16 DEF CallbackSchedules, targetVars, Basics, TargetTypes
  <2>2. \A h \in 1..made : parent'[h] = parent[h]
    BY <1>0, <1>16 DEF CallbackSchedules, NewHandler, Basics, HandlerTypes
  <2> QED
    BY <1>0, <1>16, <2>1, <2>2 DEF CallbackSchedules, RoundsKept, Basics, Completing
<1>17. ASSUME NEW t \in Targets, ThreadExits(t)
      PROVE  RoundsKept
  BY <1>0, <1>17 DEF ThreadExits, jobVars, roundVars, handlerVars, threadVars, swapVars,
       callerVars, mutexes, RoundsKept, Basics, TargetTypes, Completing
<1>18. ASSUME NEW t \in Targets, ThreadStarts(t)
      PROVE  RoundsKept
  BY <1>0, <1>18 DEF ThreadStarts, jobVars, roundVars, handlerVars, threadVars,
       swapVars,
       callerVars, mutexes, RoundsKept, Basics, TargetTypes, Completing
<1>19. ASSUME APC_OnThreadExit
      PROVE  RoundsKept
  BY <1>0, <1>19 DEF APC_OnThreadExit, Die, Dying, FreeDEProcess, roundVars, swapVars,
       callerVars, mutexes, RoundsKept, Basics, TargetTypes, Completing
<1> QED
  BY <1>1, <1>2, <1>3, <1>4, <1>5, <1>6, <1>7, <1>8, <1>9, <1>10, <1>11, <1>12, <1>13,
       <1>14, <1>15, <1>16, <1>17, <1>18, <1>19 DEF Next, Completion

(* A caller arrives, gives up or leaves, and the thread does the one task, *)
(* as the round allows, unless it was overrun.                             *)
LEMMA RoundStep ==
  ASSUME IInv, RoundInv, [Next]_vars, NEW j \in Jobs
  PROVE  Round(j)!RoundNext \/ UNCHANGED Round(j)!roundVars \/ j \in overrun'
<1>0. Basics /\ RoundInv
  BY TypeFacts
<1>1. ASSUME NEW c \in Callers, NEW k \in Jobs, WaitExecute(c, k)
      PROVE  Round(j)!RoundNext \/ UNCHANGED Round(j)!roundVars
  <2>1. Busy(j)' = Busy(j) /\ UNCHANGED <<begun, done>>
    BY <1>1 DEF WaitExecute, Busy, targetVars, handlerVars
  <2>2. CASE k = j
    <3>1. c \notin waiting[j] \cup holding[j]
      BY <1>0, <1>1 DEF WaitExecute, RoundInv, RoundClients
    <3>2. IF done[j] = 1 THEN holding'[j] = holding[j] \cup {c} /\ waiting'[j] = waiting[j]
                         ELSE waiting'[j] = waiting[j] \cup {c} /\ holding'[j] = holding[j]
      BY <1>0, <1>1, <2>2 DEF WaitExecute, Basics, RoundTypes
    <3>3. Round(j)!Arrive(c)
      BY <2>1, <3>1, <3>2 DEF Round!Arrive, Busy
    <3> QED
      BY <3>3 DEF Round!RoundNext
  <2>3. CASE k # j
    <3>1. waiting'[j] = waiting[j] /\ holding'[j] = holding[j]
      BY <1>0, <1>1, <2>3 DEF WaitExecute, Basics, RoundTypes
    <3> QED
      BY <2>1, <3>1 DEF Round!roundVars, Busy
  <2> QED
    BY <2>2, <2>3
<1>2. ASSUME NEW c \in Callers, WaitTimesOut(c)
      PROVE  Round(j)!RoundNext \/ UNCHANGED Round(j)!roundVars
  <2>1. Busy(j)' = Busy(j) /\ UNCHANGED <<begun, done>>
    BY <1>2 DEF WaitTimesOut, Busy, targetVars, handlerVars
  <2>2. CASE on[c] = j
    <3>1. c \in waiting[j] \cup holding[j]
      BY <1>0, <1>2, <2>2 DEF WaitTimesOut, RoundInv, RoundClients
    <3>2. waiting'[j] = waiting[j] \ {c} /\ holding'[j] = holding[j] \ {c}
      BY <1>0, <1>2, <2>2 DEF WaitTimesOut, Basics, RoundTypes
    <3>3. Round(j)!Leave(c)
      BY <2>1, <3>1, <3>2 DEF Round!Leave, Busy
    <3> QED
      BY <3>3 DEF Round!RoundNext
  <2>3. CASE on[c] # j
    <3>1. waiting'[j] = waiting[j] /\ holding'[j] = holding[j]
      BY <1>0, <1>2, <2>3 DEF WaitTimesOut, Basics, RoundTypes
    <3> QED
      BY <2>1, <3>1 DEF Round!roundVars, Busy
  <2> QED
    BY <2>2, <2>3
<1>3. ASSUME NEW c \in Callers, ReleaseOwner(c), j \notin overrun'
      PROVE  Round(j)!RoundNext \/ UNCHANGED Round(j)!roundVars
  <2>1. Busy(j)' = Busy(j) /\ UNCHANGED <<waiting, overrun>>
    BY <1>3 DEF ReleaseOwner, Busy, targetVars, handlerVars
  <2>2. CASE on[c] = j
    <3>1. c \in holding[j] /\ Busy(j) = {}
      <4>1. c \in holding[j] /\ done[j] > 0
        BY <1>0, <1>3, <2>2 DEF ReleaseOwner, RoundInv, RoundClients, RoundOrder
      <4>2. \A t \in Busy(j) : done[j] = 0
        BY <1>0, <1>3, <2>1 DEF RoundInv, RoundBusy, Busy
      <4> QED
        BY <4>1, <4>2
    <3>2. /\ holding'[j] = holding[j] \ {c}
          /\ IF waiting[j] \cup holding'[j] = {} THEN begun'[j] = 0 /\ done'[j] = 0
                                                 ELSE begun'[j] = begun[j] /\ done'[j] = done[j]
      BY <1>0, <1>3, <2>2 DEF ReleaseOwner, Basics, RoundTypes
    <3>3. Round(j)!Release(c)
      BY <2>1, <3>1, <3>2 DEF Round!Release, Busy
    <3> QED
      BY <3>3 DEF Round!RoundNext
  <2>3. CASE on[c] # j
    <3>1. holding'[j] = holding[j] /\ begun'[j] = begun[j] /\ done'[j] = done[j]
      BY <1>0, <1>3, <2>3 DEF ReleaseOwner, Basics, RoundTypes
    <3> QED
      BY <2>1, <3>1 DEF Round!roundVars, Busy
  <2> QED
    BY <2>2, <2>3
<1>4. ASSUME NEW t \in Targets, TriggerBegins(t) \/ TriggerCannotSleep(t), j \notin overrun'
      PROVE  Round(j)!RoundNext \/ UNCHANGED Round(j)!roundVars
  <2>1. UNCHANGED <<done, waiting, holding, parent, cur>>
    BY <1>4 DEF TriggerBegins, TriggerCannotSleep, handlerVars
  <2>2. pc[t] = "begin" /\ pc'[t] = "end" /\ \A u \in Targets : u # t => pc'[u] = pc[u]
    BY <1>0, <1>4 DEF TriggerBegins, TriggerCannotSleep, Basics, TargetTypes
  <2>3. CASE parent[cur[t]] = j
    <3>1. begun[j] = 0 /\ begun'[j] = 1
      <4>1. ~TriggerCannotSleep(t)
        BY <1>4, <2>3 DEF TriggerCannotSleep
      <4>2. begun[j] \in Nat /\ begun[j] # 1 /\ begun'[j] = begun[j] + 1 /\ UNCHANGED overrun
        BY <1>0, <1>4, <2>3, <4>1 DEF TriggerBegins, Basics, RoundTypes
      <4> QED
        BY <1>0, <1>4, <4>2 DEF RoundInv, RoundOrder
    <3>2. t \notin Busy(j) /\ Busy(j)' = Busy(j) \cup {t}
      BY <2>1, <2>2, <2>3 DEF Busy
    <3>3. Round(j)!Begin(t)
      BY <2>1, <3>1, <3>2 DEF Round!Begin, Busy
    <3> QED
      BY <3>3 DEF Round!RoundNext
  <2>4. CASE parent[cur[t]] # j
    <3>1. begun'[j] = begun[j]
      BY <1>0, <1>4, <2>4 DEF TriggerBegins, TriggerCannotSleep, Basics, RoundTypes
    <3>2. Busy(j)' = Busy(j)
      BY <2>1, <2>2, <2>4 DEF Busy
    <3> QED
      BY <2>1, <3>1, <3>2 DEF Round!roundVars, Busy
  <2> QED
    BY <2>3, <2>4
<1>5. ASSUME NEW t \in Targets, TriggerEnds(t), j \notin overrun'
      PROVE  Round(j)!RoundNext \/ UNCHANGED Round(j)!roundVars
  <2>1. UNCHANGED <<begun, parent, cur, overrun>>
    BY <1>5 DEF TriggerEnds, handlerVars
  <2>2. pc[t] = "end" /\ pc'[t] = "detach" /\ \A u \in Targets : u # t => pc'[u] = pc[u]
    BY <1>0, <1>5 DEF TriggerEnds, Basics, TargetTypes
  <2>3. CASE parent[cur[t]] = j
    <3>1. done[j] = 0 /\ done'[j] = 1
      BY <1>0, <1>5, <2>1, <2>2, <2>3 DEF TriggerEnds, Basics, RoundTypes, RoundInv, RoundBusy
    <3>2. waiting'[j] = {} /\ holding'[j] = holding[j] \cup waiting[j]
      BY <1>0, <1>5, <2>3, <3>1 DEF TriggerEnds, Basics, RoundTypes
    <3>3. t \in Busy(j) /\ Busy(j)' = Busy(j) \ {t}
      BY <2>1, <2>2, <2>3 DEF Busy
    <3>4. Round(j)!End(t)
      BY <2>1, <3>1, <3>2, <3>3 DEF Round!End, Busy
    <3> QED
      BY <3>4 DEF Round!RoundNext
  <2>4. CASE parent[cur[t]] # j
    <3>1. done'[j] = done[j] /\ waiting'[j] = waiting[j] /\ holding'[j] = holding[j]
      BY <1>0, <1>5, <2>4 DEF TriggerEnds, Basics, RoundTypes
    <3>2. Busy(j)' = Busy(j)
      BY <2>1, <2>2, <2>4 DEF Busy
    <3> QED
      BY <2>1, <3>1, <3>2 DEF Round!roundVars, Busy
  <2> QED
    BY <2>3, <2>4
<1>6. CASE UNCHANGED vars
  <2>1. RoundsKept
    BY <1>6 DEF vars, targetVars, handlerVars, RoundsKept
  <2> QED
    BY <2>1, RoundsKeptStutter
<1>7. ASSUME Next,
             ~ \E c \in Callers : \/ \E k \in Jobs : WaitExecute(c, k)
                                 \/ WaitTimesOut(c) \/ ReleaseOwner(c),
             ~ \E t \in Targets : TriggerBegins(t) \/ TriggerCannotSleep(t) \/ TriggerEnds(t)
      PROVE  UNCHANGED Round(j)!roundVars
  BY <1>7, OthersKeepRounds, RoundsKeptStutter
<1> QED
  BY <1>1, <1>2, <1>3, <1>4, <1>5, <1>6, <1>7

(* The work queue that each job owns sees the engine and its callers keep  *)
(* to the round it promises: one task, begun once, and a release only when *)
(* it is over (ODeferredExecution.cpp:75 and 124, under OWorkQueue.cpp),   *)
(* as long as memory is found whenever a completion must sleep in it.      *)
THEOREM EngineUsesRound == Spec => UsesRound
<1>1. Init => \A j \in Jobs : Round(j)!RoundInit
  BY DEF Init, Round!RoundInit
<1>2. IInv /\ RoundInv /\ [Next]_vars
        => [\A j \in Jobs : \/ Round(j)!RoundNext
                            \/ UNCHANGED Round(j)!roundVars
                            \/ j \in overrun']_vars
  BY RoundStep
<1> QED
  BY RoundsInv, <1>1, <1>2, PTL DEF Spec, UsesRound

(* Inside the system call, and right after it, a thread has the stub's     *)
(* registers.                                                              *)
LEMMA StubRunsStep ==
  ASSUME IInv, OrderInv, [Next]_vars
  PROVE  StubRuns'
<1>0. Basics /\ OrderInv
  BY TypeFacts
<1>1. ASSUME NEW t \in Targets, SwapUser(t)
      PROVE  StubRuns'
  BY <1>0, <1>1 DEF SwapUser, jobVars, roundVars, handlerVars, threadVars, callerVars,
       mutexes, StubRuns, OrderInv, Completing, TargetTypes, SwapTypes, Basics
<1>2. ASSUME NEW t \in Targets, ReturnToUser(t)
      PROVE  StubRuns'
  BY <1>0, <1>2 DEF ReturnToUser, jobVars, roundVars, handlerVars, threadVars, swapVars,
       callerVars, mutexes, StubRuns, OrderInv, Completing, TargetTypes, SwapTypes, Basics
<1>3. ASSUME NEW t \in Targets, JobReturns(t)
      PROVE  StubRuns'
  BY <1>0, <1>3 DEF JobReturns, jobVars, roundVars, handlerVars, threadVars, callerVars,
       mutexes, StubRuns, OrderInv, Completing, TargetTypes, SwapTypes, Basics
<1>4. ASSUME NEW t \in Targets, NtfyFindsNoThread(t)
      PROVE  StubRuns'
  BY <1>0, <1>4 DEF NtfyFindsNoThread, jobVars, roundVars, handlerVars, threadVars,
       swapVars, callerVars, mutexes, StubRuns, OrderInv, Completing, TargetTypes,
       SwapTypes, Basics
<1>5. ASSUME NEW t \in Targets, NtfyJobFinished(t)
      PROVE  StubRuns'
  BY <1>0, <1>5 DEF NtfyJobFinished, PopCompletedTask, Pending, jobVars, roundVars,
       handlerVars, swapVars, callerVars, StubRuns, OrderInv, Completing, TargetTypes,
       SwapTypes, Basics
<1>6. ASSUME NEW t \in Targets, Hit(t)
      PROVE  StubRuns'
  BY <1>0, <1>6 DEF Hit, roundVars, threadVars, swapVars, callerVars, StubRuns,
       OrderInv,
       Completing, TargetTypes, SwapTypes, Basics
<1>7. ASSUME NEW t \in Targets, TriggerBegins(t) \/ TriggerCannotSleep(t)
      PROVE  StubRuns'
  BY <1>0, <1>7 DEF TriggerBegins, TriggerCannotSleep, jobVars, handlerVars, threadVars, swapVars,
       callerVars,
       mutexes, StubRuns, OrderInv, Completing, TargetTypes, SwapTypes, Basics
<1>8. ASSUME NEW t \in Targets, TriggerEnds(t)
      PROVE  StubRuns'
  BY <1>0, <1>8 DEF TriggerEnds, jobVars, handlerVars, threadVars, swapVars, callerVars,
       mutexes, StubRuns, OrderInv, Completing, TargetTypes, SwapTypes, Basics
<1>9. ASSUME NEW t \in Targets, HitDetaches(t)
      PROVE  StubRuns'
  BY <1>0, <1>9 DEF HitDetaches, roundVars, threadVars, swapVars, callerVars, StubRuns,
       OrderInv, Completing, TargetTypes, SwapTypes, Basics
<1>10. ASSUME NEW t \in Targets, CallbackReturns(t)
      PROVE  StubRuns'
  BY <1>0, <1>10 DEF CallbackReturns, jobVars, roundVars, threadVars, swapVars,
       callerVars, mutexes, StubRuns, OrderInv, Completing, TargetTypes, SwapTypes, Basics
<1>11. ASSUME NEW t \in Targets, NtfyGoesOn(t)
      PROVE  StubRuns'
  BY <1>0, <1>11 DEF NtfyGoesOn, PreemptExecution, SaveState, jobVars, roundVars,
       handlerVars, callerVars, StubRuns, OrderInv, Completing, TargetTypes, SwapTypes,
       Basics
<1>12. ASSUME NEW t \in Targets, NEW j \in Jobs, CallbackSchedules(t, j)
      PROVE  StubRuns'
  BY <1>0, <1>12 DEF CallbackSchedules, NewHandler, Usable, roundVars, threadVars,
       swapVars, callerVars, mutexes, StubRuns, OrderInv, Completing, TargetTypes,
       SwapTypes, Basics
<1>13. ASSUME NEW t \in Targets, ThreadExits(t)
      PROVE  StubRuns'
  BY <1>0, <1>13 DEF ThreadExits, jobVars, roundVars, handlerVars, threadVars, swapVars,
       callerVars, mutexes, StubRuns, OrderInv, Completing, TargetTypes, SwapTypes, Basics
<1>14. ASSUME NEW t \in Targets, ThreadStarts(t)
      PROVE  StubRuns'
  BY <1>0, <1>14 DEF ThreadStarts, jobVars, roundVars, handlerVars, threadVars,
       swapVars,
       callerVars, mutexes, StubRuns, OrderInv, Completing, TargetTypes, SwapTypes, Basics
<1>15. ASSUME APC_OnThreadExit
      PROVE  StubRuns'
  BY <1>0, <1>15 DEF APC_OnThreadExit, Die, Dying, FreeDEProcess, roundVars, swapVars,
       callerVars, mutexes, StubRuns, OrderInv, Completing, TargetTypes, SwapTypes, Basics
<1>16. ASSUME NEW c \in Callers, NEW j \in Jobs,
             Schedule(c, j) \/ AwaitExecute(c, j) \/ WaitExecute(c, j) \/ Destroy(c, j)
      PROVE  StubRuns'
  <2>1. UNCHANGED <<pc, ctx>>
    BY <1>16 DEF Schedule, roundVars, threadVars, swapVars, targetVars, mutexes,
         AwaitExecute, handlerVars, callerVars, WaitExecute, jobVars, Destroy
  <2> QED
    BY <1>0, <2>1 DEF StubRuns, OrderInv, Completing, TargetTypes, SwapTypes, Basics
<1>17. ASSUME NEW c \in Callers,
             APC_AddPendingWork(c) \/ APC_AddPendingWorkFails(c) \/ WaitReturns(c) \/
             WaitTimesOut(c) \/ ReleaseOwner(c)
      PROVE  StubRuns'
  <2>1. UNCHANGED <<pc, ctx>>
    BY <1>17 DEF APC_AddPendingWork, UpdatePidHandle, Die, AppendWork, Pending,
         PreemptExecution, roundVars, targetVars, mutexes, APC_AddPendingWorkFails,
         threadVars, swapVars, WaitReturns, jobVars, handlerVars, WaitTimesOut,
         ReleaseOwner
  <2> QED
    BY <1>0, <2>1 DEF StubRuns, OrderInv, Completing, TargetTypes, SwapTypes, Basics
<1>18. CASE UNCHANGED vars
  BY <1>0, <1>18 DEF vars, jobVars, roundVars, handlerVars, threadVars, swapVars,
       targetVars, callerVars, mutexes, StubRuns, OrderInv, Completing, TargetTypes,
       SwapTypes, Basics
<1> QED
  BY <1>1, <1>2, <1>3, <1>4, <1>5, <1>6, <1>7, <1>8, <1>9, <1>10, <1>11, <1>12, <1>13,
       <1>14, <1>15, <1>16, <1>17, <1>18 DEF Next, Completion

(* The engine's state of a thread stays while the thread is in the engine. *)
LEMMA StateFoundStep ==
  ASSUME IInv, OrderInv, [Next]_vars
  PROVE  StateFound'
<1>0. Basics /\ OrderInv
  BY TypeFacts
<1>1. ASSUME NEW c \in Callers, APC_AddPendingWork(c)
      PROVE  StateFound'
  <2>1. \A u \in Targets : pc'[u] \notin Completing
    BY <1>0, <1>1, Alone DEF APC_AddPendingWork, targetVars, Basics, TargetTypes,
         Completing
  <2> QED
    BY <2>1 DEF StateFound
<1>2. ASSUME NEW c \in Callers, APC_AddPendingWorkFails(c)
      PROVE  StateFound'
  <2>1. \A u \in Targets : pc'[u] \notin Completing
    BY <1>0, <1>2, Alone DEF APC_AddPendingWorkFails, targetVars, Basics, TargetTypes,
         Completing
  <2> QED
    BY <2>1 DEF StateFound
<1>3. ASSUME NEW t \in Targets, SwapUser(t)
      PROVE  StateFound'
  BY <1>0, <1>3 DEF SwapUser, jobVars, roundVars, handlerVars, threadVars, callerVars,
       mutexes, StateFound, OrderInv, Completing, TargetTypes, Basics
<1>4. ASSUME NEW t \in Targets, ReturnToUser(t)
      PROVE  StateFound'
  BY <1>0, <1>4 DEF ReturnToUser, jobVars, roundVars, handlerVars, threadVars, swapVars,
       callerVars, mutexes, StateFound, OrderInv, Completing, TargetTypes, Basics
<1>5. ASSUME NEW t \in Targets, JobReturns(t)
      PROVE  StateFound'
  BY <1>0, <1>5 DEF JobReturns, jobVars, roundVars, handlerVars, threadVars, callerVars,
       mutexes, StateFound, OrderInv, Completing, TargetTypes, Basics
<1>6. ASSUME NEW t \in Targets, NtfyFindsNoThread(t)
      PROVE  StateFound'
  BY <1>0, <1>6 DEF NtfyFindsNoThread, jobVars, roundVars, handlerVars, threadVars,
       swapVars, callerVars, mutexes, StateFound, OrderInv, Completing, TargetTypes,
       Basics
<1>7. ASSUME NEW t \in Targets, NtfyJobFinished(t)
      PROVE  StateFound'
  <2>1. task[PidOf[t]] = t
    BY <1>7, PopEffect
  <2> QED
    BY <1>0, <1>7, <2>1 DEF NtfyJobFinished, OrderInv, StateFound, Basics, TargetTypes
<1>8. ASSUME NEW t \in Targets, Hit(t)
      PROVE  StateFound'
  BY <1>0, <1>8 DEF Hit, roundVars, threadVars, swapVars, callerVars, StateFound,
       OrderInv, Completing, TargetTypes, Basics
<1>9. ASSUME NEW t \in Targets, TriggerBegins(t) \/ TriggerCannotSleep(t)
      PROVE  StateFound'
  BY <1>0, <1>9 DEF TriggerBegins, TriggerCannotSleep, jobVars, handlerVars, threadVars, swapVars,
       callerVars,
       mutexes, StateFound, OrderInv, Completing, TargetTypes, Basics
<1>10. ASSUME NEW t \in Targets, TriggerEnds(t)
      PROVE  StateFound'
  BY <1>0, <1>10 DEF TriggerEnds, jobVars, handlerVars, threadVars, swapVars,
       callerVars,
       mutexes, StateFound, OrderInv, Completing, TargetTypes, Basics
<1>11. ASSUME NEW t \in Targets, HitDetaches(t)
      PROVE  StateFound'
  BY <1>0, <1>11 DEF HitDetaches, roundVars, threadVars, swapVars, callerVars,
       StateFound,
       OrderInv, Completing, TargetTypes, Basics
<1>12. ASSUME NEW t \in Targets, CallbackReturns(t)
      PROVE  StateFound'
  BY <1>0, <1>12 DEF CallbackReturns, jobVars, roundVars, threadVars, swapVars,
       callerVars, mutexes, StateFound, OrderInv, Completing, TargetTypes, Basics
<1>13. ASSUME NEW t \in Targets, NtfyGoesOn(t)
      PROVE  StateFound'
  BY <1>0, <1>13 DEF NtfyGoesOn, PreemptExecution, SaveState, jobVars, roundVars,
       handlerVars, callerVars, StateFound, OrderInv, Completing, TargetTypes, Basics
<1>14. ASSUME NEW t \in Targets, NEW j \in Jobs, CallbackSchedules(t, j)
      PROVE  StateFound'
  BY <1>0, <1>14 DEF CallbackSchedules, NewHandler, Usable, roundVars, threadVars,
       swapVars, callerVars, mutexes, StateFound, OrderInv, Completing, TargetTypes,
       Basics
<1>15. ASSUME NEW t \in Targets, ThreadExits(t)
      PROVE  StateFound'
  BY <1>0, <1>15 DEF ThreadExits, jobVars, roundVars, handlerVars, threadVars, swapVars,
       callerVars, mutexes, StateFound, OrderInv, Completing, TargetTypes, Basics
<1>16. ASSUME NEW t \in Targets, ThreadStarts(t)
      PROVE  StateFound'
  BY <1>0, <1>16 DEF ThreadStarts, jobVars, roundVars, handlerVars, threadVars,
       swapVars,
       callerVars, mutexes, StateFound, OrderInv, Completing, TargetTypes, Basics
<1>17. ASSUME APC_OnThreadExit
      PROVE  StateFound'
  <2>1. \A u \in Targets : pc'[u] \notin Completing
    BY <1>0, <1>17, Alone DEF APC_OnThreadExit, targetVars, Basics, TargetTypes,
         Completing
  <2> QED
    BY <2>1 DEF StateFound
<1>18. ASSUME NEW c \in Callers, NEW j \in Jobs,
             Schedule(c, j) \/ AwaitExecute(c, j) \/ WaitExecute(c, j) \/ Destroy(c, j)
      PROVE  StateFound'
  <2>1. UNCHANGED <<pc, task>>
    BY <1>18 DEF Schedule, roundVars, threadVars, swapVars, targetVars, mutexes,
         AwaitExecute, handlerVars, callerVars, WaitExecute, jobVars, Destroy
  <2> QED
    BY <1>0, <2>1 DEF StateFound, OrderInv, Completing, TargetTypes, Basics
<1>19. ASSUME NEW c \in Callers, WaitReturns(c) \/ WaitTimesOut(c) \/ ReleaseOwner(c)
      PROVE  StateFound'
  <2>1. UNCHANGED <<pc, task>>
    BY <1>19 DEF WaitReturns, jobVars, roundVars, handlerVars, threadVars, swapVars,
         targetVars, mutexes, WaitTimesOut, ReleaseOwner
  <2> QED
    BY <1>0, <2>1 DEF StateFound, OrderInv, Completing, TargetTypes, Basics
<1>20. CASE UNCHANGED vars
  BY <1>0, <1>20 DEF vars, jobVars, roundVars, handlerVars, threadVars, swapVars,
       targetVars, callerVars, mutexes, StateFound, OrderInv, Completing, TargetTypes,
       Basics
<1> QED
  BY <1>1, <1>2, <1>3, <1>4, <1>5, <1>6, <1>7, <1>8, <1>9, <1>10, <1>11, <1>12, <1>13,
       <1>14, <1>15, <1>16, <1>17, <1>18, <1>19, <1>20 DEF Next, Completion

(* What a step does to the links of the handlers there are: a destruction  *)
(* cuts the one to its job, and no other step changes any.                 *)
CutOrKept(h) ==
  \/ parent'[h] = parent[h]
  \/ \E j \in Jobs : /\ alive[j] /\ ~alive'[j] /\ worker[j] = h
                     /\ parent[h] = j /\ parent'[h] = NoJob
                     /\ \A d \in Callers : on[d] # j

(* A handler keeps its job or is cut off from it.                          *)
LEMMA ParentStep ==
  ASSUME IInv, [Next]_vars, NEW h \in 1..made
  PROVE  CutOrKept(h)
<1>0. Basics
  BY TypeFacts
<1>1. ASSUME NEW c \in Callers, NEW j \in Jobs, Schedule(c, j)
      PROVE  CutOrKept(h)
  BY <1>0, <1>1 DEF Schedule, NewHandler, Basics, HandlerTypes, CutOrKept
<1>2. ASSUME NEW c \in Callers, NEW j \in Jobs, Destroy(c, j)
      PROVE  CutOrKept(h)
  <2>1. alive[j] /\ ~alive'[j] /\ \A d \in Callers : on[d] # j
    BY <1>0, <1>2 DEF Destroy, Usable, Basics, JobTypes
  <2>2. parent'[h] = IF h = worker[j] THEN NoJob ELSE parent[h]
    BY <1>0, <1>2 DEF Destroy, Basics
  <2>3. h = worker[j] => parent[h] = j
    BY <1>0, <2>1 DEF IInv, LinkInv, JobsPoint, Null
  <2> QED
    BY <2>1, <2>2, <2>3 DEF CutOrKept
<1>3. ASSUME NEW t \in Targets, NEW j \in Jobs, CallbackSchedules(t, j)
      PROVE  CutOrKept(h)
  BY <1>0, <1>3 DEF CallbackSchedules, NewHandler, Basics, HandlerTypes, CutOrKept
<1>4. ASSUME NEW c \in Callers, NEW j \in Jobs, AwaitExecute(c, j) \/ WaitExecute(c, j)
      PROVE  CutOrKept(h)
  BY <1>0, <1>4 DEF AwaitExecute, Usable, roundVars, handlerVars, threadVars, swapVars,
       targetVars, callerVars, mutexes, WaitExecute, jobVars, CutOrKept
<1>5. ASSUME NEW c \in Callers,
             APC_AddPendingWork(c) \/ APC_AddPendingWorkFails(c) \/ WaitReturns(c) \/
             WaitTimesOut(c) \/ ReleaseOwner(c)
      PROVE  CutOrKept(h)
  BY <1>0, <1>5 DEF APC_AddPendingWork, UpdatePidHandle, Die, AppendWork, Pending,
       PreemptExecution, roundVars, targetVars, mutexes, APC_AddPendingWorkFails,
       threadVars, swapVars, WaitReturns, jobVars, handlerVars, WaitTimesOut,
       ReleaseOwner, CutOrKept
<1>6. ASSUME NEW t \in Targets,
             SwapUser(t) \/ ReturnToUser(t) \/ JobReturns(t) \/ NtfyFindsNoThread(t) \/
             NtfyJobFinished(t) \/ Hit(t) \/ TriggerBegins(t) \/ TriggerCannotSleep(t) \/ TriggerEnds(t) \/
             HitDetaches(t) \/ CallbackReturns(t) \/ NtfyGoesOn(t) \/ ThreadExits(t) \/
             ThreadStarts(t)
      PROVE  CutOrKept(h)
  BY <1>0, <1>6 DEF SwapUser, jobVars, roundVars, handlerVars, threadVars, callerVars,
       mutexes, ReturnToUser, swapVars, JobReturns, NtfyFindsNoThread, NtfyJobFinished,
       PopCompletedTask, Pending, Hit, TriggerBegins, TriggerCannotSleep, TriggerEnds, HitDetaches,
       CallbackReturns, NtfyGoesOn, PreemptExecution, SaveState, ThreadExits,
       ThreadStarts, CutOrKept
<1>7. ASSUME APC_OnThreadExit
      PROVE  CutOrKept(h)
  BY <1>0, <1>7 DEF APC_OnThreadExit, Die, Dying, FreeDEProcess, roundVars, swapVars,
       callerVars, mutexes, CutOrKept
<1>8. ASSUME UNCHANGED vars
      PROVE  CutOrKept(h)
  BY <1>0, <1>8 DEF vars, jobVars, roundVars, handlerVars, threadVars, swapVars,
       targetVars, callerVars, mutexes, CutOrKept
<1> QED
  BY <1>1, <1>2, <1>3, <1>4, <1>5, <1>6, <1>7, <1>8 DEF Next, Completion

(* What ran has run, and jobs are made for one thread for good.            *)
LEMMA RanGrows ==
  ASSUME IInv, [Next]_vars
  PROVE  ran \subseteq ran' /\ ran \subseteq 1..made /\ UNCHANGED target
<1>0. Basics
  BY TypeFacts
<1>1. ASSUME NEW t \in Targets, JobReturns(t)
      PROVE  ran \subseteq ran' /\ UNCHANGED target
  BY <1>1 DEF JobReturns, jobVars
<1>2. ASSUME NEW c \in Callers, NEW j \in Jobs,
             Schedule(c, j) \/ AwaitExecute(c, j) \/ WaitExecute(c, j) \/ Destroy(c, j)
      PROVE  ran \subseteq ran' /\ UNCHANGED target
  BY <1>2 DEF Schedule, NewHandler, Usable, roundVars, threadVars, swapVars,
       targetVars, mutexes, AwaitExecute, handlerVars, callerVars, WaitExecute, jobVars,
       Destroy
<1>3. ASSUME NEW c \in Callers,
             APC_AddPendingWork(c) \/ APC_AddPendingWorkFails(c) \/ WaitReturns(c) \/
             WaitTimesOut(c) \/ ReleaseOwner(c)
      PROVE  ran \subseteq ran' /\ UNCHANGED target
  BY <1>3 DEF APC_AddPendingWork, UpdatePidHandle, Die, AppendWork, Pending,
       PreemptExecution, roundVars, targetVars, mutexes, APC_AddPendingWorkFails,
       threadVars, swapVars, WaitReturns, jobVars, handlerVars, WaitTimesOut, ReleaseOwner
<1>4. ASSUME NEW t \in Targets,
             SwapUser(t) \/ ReturnToUser(t) \/ Hit(t) \/ NtfyFindsNoThread(t) \/
             NtfyJobFinished(t) \/ TriggerBegins(t) \/ TriggerCannotSleep(t) \/ TriggerEnds(t) \/
             HitDetaches(t) \/ CallbackReturns(t) \/ NtfyGoesOn(t) \/ ThreadExits(t) \/
             ThreadStarts(t)
      PROVE  ran \subseteq ran' /\ UNCHANGED target
  BY <1>4 DEF SwapUser, jobVars, roundVars, handlerVars, threadVars, callerVars,
       mutexes, ReturnToUser, swapVars, Hit, NtfyFindsNoThread, NtfyJobFinished,
       PopCompletedTask, Pending, TriggerBegins, TriggerCannotSleep, TriggerEnds, HitDetaches,
       CallbackReturns, NtfyGoesOn, PreemptExecution, SaveState, ThreadExits, ThreadStarts
<1>5. ASSUME NEW t \in Targets, NEW j \in Jobs, CallbackSchedules(t, j)
      PROVE  ran \subseteq ran' /\ UNCHANGED target
  BY <1>5 DEF CallbackSchedules, NewHandler, Usable, roundVars, threadVars,
       swapVars, callerVars, mutexes
<1>6. ASSUME APC_OnThreadExit
      PROVE  ran \subseteq ran' /\ UNCHANGED target
  BY <1>6 DEF APC_OnThreadExit, Die, Dying, FreeDEProcess, roundVars, swapVars,
       callerVars, mutexes
<1>7. ASSUME UNCHANGED vars
      PROVE  ran \subseteq ran' /\ UNCHANGED target
  BY <1>7 DEF vars, handlerVars, jobVars, roundVars, threadVars, swapVars,
       targetVars, callerVars, mutexes
<1> QED
  BY <1>0, <1>1, <1>2, <1>3, <1>4, <1>5, <1>6, <1>7 DEF Next, Completion, Basics,
       HandlerTypes

(* A thread keeps the handler it completes; only the pop gives it one.     *)
LEMMA HittingStep ==
  ASSUME IInv, [Next]_vars, NEW u \in Targets, pc'[u] \in Hitting
  PROVE  \/ pc[u] \in Hitting /\ cur'[u] = cur[u]
         \/ pc[u] = "enter" /\ NtfyJobFinished(u)
<1> DEFINE Kept == pc[u] \in Hitting /\ cur'[u] = cur[u]
<1>0. Basics
  BY TypeFacts
<1>1. ASSUME NEW t \in Targets, NtfyJobFinished(t)
      PROVE  Kept \/ (pc[u] = "enter" /\ NtfyJobFinished(u))
  BY <1>0, <1>1 DEF NtfyJobFinished, PopCompletedTask, TargetTypes, Basics
<1>2. ASSUME NEW t \in Targets, SwapUser(t)
      PROVE  Kept
  BY <1>0, <1>2 DEF SwapUser, Hitting, Triggering, TargetTypes, Basics
<1>3. ASSUME NEW t \in Targets, ReturnToUser(t)
      PROVE  Kept
  BY <1>0, <1>3 DEF ReturnToUser, Hitting, Triggering, TargetTypes, Basics
<1>4. ASSUME NEW t \in Targets, JobReturns(t)
      PROVE  Kept
  BY <1>0, <1>4 DEF JobReturns, Hitting, Triggering, TargetTypes, Basics
<1>5. ASSUME NEW t \in Targets, NtfyFindsNoThread(t)
      PROVE  Kept
  BY <1>0, <1>5 DEF NtfyFindsNoThread, Hitting, Triggering, TargetTypes, Basics
<1>6. ASSUME NEW t \in Targets, Hit(t)
      PROVE  Kept
  BY <1>0, <1>6 DEF Hit, Hitting, Triggering, TargetTypes, Basics
<1>7. ASSUME NEW t \in Targets, TriggerBegins(t)
      PROVE  Kept
  BY <1>0, <1>7 DEF TriggerBegins, Hitting, Triggering, TargetTypes, Basics
<1>8. ASSUME NEW t \in Targets, TriggerCannotSleep(t)
      PROVE  Kept
  BY <1>0, <1>8 DEF TriggerCannotSleep, Hitting, Triggering, TargetTypes, Basics
<1>9. ASSUME NEW t \in Targets, TriggerEnds(t)
      PROVE  Kept
  BY <1>0, <1>9 DEF TriggerEnds, Hitting, Triggering, TargetTypes, Basics
<1>10. ASSUME NEW t \in Targets, HitDetaches(t)
      PROVE  Kept
  BY <1>0, <1>10 DEF HitDetaches, Hitting, Triggering, TargetTypes, Basics
<1>11. ASSUME NEW t \in Targets, CallbackReturns(t)
      PROVE  Kept
  BY <1>0, <1>11 DEF CallbackReturns, Hitting, Triggering, TargetTypes, Basics
<1>12. ASSUME NEW t \in Targets, NtfyGoesOn(t)
      PROVE  Kept
  BY <1>0, <1>12 DEF NtfyGoesOn, Hitting, Triggering, TargetTypes, Basics
<1>13. ASSUME NEW t \in Targets, ThreadExits(t)
      PROVE  Kept
  BY <1>0, <1>13 DEF ThreadExits, Hitting, Triggering, TargetTypes, Basics
<1>14. ASSUME NEW t \in Targets, ThreadStarts(t)
      PROVE  Kept
  BY <1>0, <1>14 DEF ThreadStarts, Hitting, Triggering, TargetTypes, Basics
<1>15. ASSUME NEW t \in Targets, NEW j \in Jobs, CallbackSchedules(t, j)
      PROVE  Kept
  BY <1>0, <1>15 DEF CallbackSchedules, Hitting, Triggering, TargetTypes, Basics
<1>16. ASSUME APC_OnThreadExit
      PROVE  Kept
  BY <1>0, <1>16 DEF APC_OnThreadExit, Hitting, Triggering, TargetTypes, Basics
<1>17. ASSUME NEW c \in Callers, NEW j \in Jobs,
             Schedule(c, j) \/ AwaitExecute(c, j) \/ WaitExecute(c, j) \/ Destroy(c, j)
      PROVE  Kept
  <2>1. UNCHANGED <<pc, cur>>
    BY <1>17 DEF Schedule, AwaitExecute, WaitExecute, Destroy, targetVars
  <2> QED
    BY <2>1
<1>18. ASSUME NEW c \in Callers,
             APC_AddPendingWork(c) \/ APC_AddPendingWorkFails(c) \/ WaitReturns(c) \/
             WaitTimesOut(c) \/ ReleaseOwner(c)
      PROVE  Kept
  <2>1. UNCHANGED <<pc, cur>>
    BY <1>18 DEF APC_AddPendingWork, APC_AddPendingWorkFails, WaitReturns, WaitTimesOut,
         ReleaseOwner, targetVars
  <2> QED
    BY <2>1
<1>19. CASE UNCHANGED vars
  BY <1>19 DEF vars, targetVars
<1> QED
  BY <1>1, <1>2, <1>3, <1>4, <1>5, <1>6, <1>7, <1>8, <1>9, <1>10, <1>11, <1>12, <1>13, <1>14,
     <1>15, <1>16, <1>17, <1>18, <1>19 DEF Next, Completion

(* A thread completes jobs that were made for it.                          *)
LEMMA HitOwnedStep ==
  ASSUME IInv, OrderInv, [Next]_vars
  PROVE  HitOwned'
<1>0. Basics /\ OrderInv
  BY TypeFacts
<1> SUFFICES ASSUME NEW u \in Targets, pc'[u] \in Hitting, parent'[cur'[u]] # NoJob
             PROVE  target'[parent'[cur'[u]]] = u
  BY DEF HitOwned
<1>1. \A h \in 1..made : parent'[h] # NoJob => parent'[h] = parent[h]
  BY ParentStep DEF CutOrKept
<1>2. UNCHANGED target
  BY RanGrows
<1>3. CASE pc[u] \in Hitting /\ cur'[u] = cur[u]
  <2>1. cur[u] \in 1..made
    BY <1>0, <1>3 DEF Basics, Hitting, Triggering, Completing
  <2> QED
    BY <1>0, <1>1, <1>2, <1>3, <2>1 DEF OrderInv, HitOwned
<1>4. CASE NtfyJobFinished(u)
  <2>1. /\ PidOf[u] \in Pids /\ task[PidOf[u]] = u /\ Head(queue[PidOf[u]]) \in 1..made
        /\ cur' = [cur EXCEPT ![u] = Head(queue[PidOf[u]])]
        /\ Head(queue[PidOf[u]]) \in Range(queue[PidOf[u]])
    BY <1>4, PopEffect
  <2>2. cur'[u] = Head(queue[PidOf[u]])
    BY <1>0, <2>1 DEF Basics, TargetTypes
  <2> QED
    BY <1>0, <1>1, <1>2, <2>1, <2>2 DEF OrderInv, QueueOwned
<1> QED
  BY <1>3, <1>4, HittingStep

(* A list that is found under an id belongs to the thread it is found for. *)
LEMMA PendingOwned ==
  ASSUME IInv, OrderInv, NEW t \in Targets, NEW h \in Range(Pending(t)), parent[h] # NoJob
  PROVE  target[parent[h]] = t
BY TypeFacts, NothingInRange DEF OrderInv, QueueOwned, Pending, Basics

(* A list holds jobs made for the thread whose list it is.                 *)
LEMMA QueueOwnedStep ==
  ASSUME IInv, OrderInv, [Next]_vars
  PROVE  QueueOwned'
<1>0. Basics /\ OrderInv
  BY TypeFacts
<1>1. ASSUME NEW c \in Callers, NEW j \in Jobs, Schedule(c, j)
      PROVE  QueueOwned'
  <2>1. \A h \in 1..made : parent'[h] = parent[h]
    BY <1>0, <1>1 DEF Schedule, NewHandler, Basics, HandlerTypes
  <2>2. \A p \in Pids : Range(queue[p]) \subseteq 1..made
    BY <1>0, RangeOfSeq DEF Basics, ThreadTypes
  <2>3. UNCHANGED <<queue, task, target>>
    BY <1>1 DEF Schedule, threadVars
  <2> QED
    BY <1>0, <2>1, <2>2, <2>3 DEF OrderInv, QueueOwned
<1>2. ASSUME NEW c \in Callers, NEW j \in Jobs, Destroy(c, j)
      PROVE  QueueOwned'
  <2>1. \A p \in Pids : Range(queue[p]) \subseteq 1..made
    BY <1>0, RangeOfSeq DEF Basics, ThreadTypes
  <2>2. UNCHANGED <<queue, task, target>>
    BY <1>2 DEF Destroy, threadVars
  <2>3. \A h \in 1..made : parent'[h] # NoJob => parent'[h] = parent[h]
    BY <1>0, <1>2 DEF Destroy, Basics
  <2> QED
    BY <1>0, <2>1, <2>2, <2>3 DEF OrderInv, QueueOwned
<1>3. ASSUME NEW c \in Callers, APC_AddPendingWork(c)
      PROVE  QueueOwned'
  <2> DEFINE u == target[on[c]]
             p == PidOf[u]
             h == worker[on[c]]
  <2>1. /\ u \in Targets /\ p \in Pids /\ on[c] \in Jobs /\ Updated(u)
        /\ \A q \in Pids : q # p => queue'[q] = queue[q]
        /\ Range(queue'[p]) = Range(Pending(u)) \cup {h}
    BY <1>3, AddEffect
  <2>2. parent[h] = on[c]
    BY <1>0, <1>3 DEF APC_AddPendingWork, IInv, LinkInv, JobsPoint, CallerInv,
         CallersHold, SchedulersOwn
  <2>3. UNCHANGED <<target, parent>>
    BY <1>3 DEF APC_AddPendingWork
  <2>4. task'[p] = u /\ \A q \in Pids : q # p => task'[q] = task[q]
    BY <1>0, <2>1 DEF Updated, Basics, ThreadTypes
  <2> HIDE DEF p, h
  <2>5. \A k \in Range(queue'[p]) : parent[k] # NoJob => target[parent[k]] = u
    BY <2>1, <2>2, PendingOwned DEF h
  <2> HIDE DEF u
  <2> QED
    BY <1>0, <2>1, <2>3, <2>4, <2>5 DEF OrderInv, QueueOwned
<1>4. ASSUME NEW c \in Callers, APC_AddPendingWorkFails(c)
      PROVE  QueueOwned'
  <2> DEFINE u == target[on[c]]
             p == PidOf[u]
  <2>1. UNCHANGED <<target, parent>>
    BY <1>4 DEF APC_AddPendingWorkFails
  <2>2. CASE FailLeaves
    BY <1>0, <2>1, <2>2 DEF OrderInv, QueueOwned, FailLeaves
  <2>3. CASE FailUpdates(c)
    <3>1. u \in Targets /\ p \in Pids /\ Updated(u)
      BY <1>4, <2>3, FailEffect DEF FailUpdates
    <3>2. queue'[p] = Pending(u) /\ \A q \in Pids : q # p => queue'[q] = queue[q]
      BY <1>0, <2>3, <3>1 DEF FailUpdates, Basics, ThreadTypes
    <3>3. task'[p] = u /\ \A q \in Pids : q # p => task'[q] = task[q]
      BY <1>0, <3>1 DEF Updated, Basics, ThreadTypes
    <3> HIDE DEF u, p
    <3>4. \A k \in Range(queue'[p]) : parent[k] # NoJob => target[parent[k]] = u
      BY <3>1, <3>2, PendingOwned
    <3> QED
      BY <1>0, <2>1, <3>1, <3>2, <3>3, <3>4 DEF OrderInv, QueueOwned
  <2> QED
    BY <1>4, <2>2, <2>3, FailEffect
<1>5. ASSUME NEW t \in Targets, NtfyJobFinished(t)
      PROVE  QueueOwned'
  <2>1. \A q \in Pids : Range(queue'[q]) \subseteq Range(queue[q])
    BY <1>0, <1>5, PopEffect DEF Basics, ThreadTypes
  <2>2. UNCHANGED <<task, target, parent>>
    BY <1>5 DEF NtfyJobFinished, jobVars, handlerVars
  <2> QED
    BY <1>0, <2>1, <2>2 DEF OrderInv, QueueOwned
<1>6. ASSUME NEW t \in Targets, NEW j \in Jobs, CallbackSchedules(t, j)
      PROVE  QueueOwned'
  <2>1. \A h \in 1..made : parent'[h] = parent[h]
    BY <1>0, <1>6 DEF CallbackSchedules, NewHandler, Basics, HandlerTypes
  <2>2. \A p \in Pids : Range(queue[p]) \subseteq 1..made
    BY <1>0, RangeOfSeq DEF Basics, ThreadTypes
  <2>3. UNCHANGED <<queue, task, target>>
    BY <1>6 DEF CallbackSchedules, threadVars
  <2> QED
    BY <1>0, <2>1, <2>2, <2>3 DEF OrderInv, QueueOwned
<1>7. ASSUME APC_OnThreadExit
      PROVE  QueueOwned'
  <2>1. \A p \in Pids : Range(queue'[p]) = {}
    BY <1>7, NothingInRange DEF APC_OnThreadExit, FreeDEProcess
  <2> QED
    BY <2>1 DEF QueueOwned
<1>8. ASSUME NEW c \in Callers, NEW j \in Jobs, AwaitExecute(c, j) \/ WaitExecute(c, j)
      PROVE  QueueOwned'
  <2>1. UNCHANGED <<queue, task, target, parent>>
    BY <1>8 DEF AwaitExecute, roundVars, handlerVars, threadVars, swapVars, targetVars,
         callerVars, mutexes, WaitExecute, jobVars
  <2> QED
    BY <1>0, <2>1 DEF QueueOwned, OrderInv, Basics
<1>9. ASSUME NEW c \in Callers, WaitReturns(c) \/ WaitTimesOut(c) \/ ReleaseOwner(c)
      PROVE  QueueOwned'
  <2>1. UNCHANGED <<queue, task, target, parent>>
    BY <1>9 DEF WaitReturns, jobVars, roundVars, handlerVars, threadVars, swapVars,
         targetVars, mutexes, WaitTimesOut, ReleaseOwner
  <2> QED
    BY <1>0, <2>1 DEF QueueOwned, OrderInv, Basics
<1>10. ASSUME NEW t \in Targets,
             SwapUser(t) \/ ReturnToUser(t) \/ JobReturns(t) \/ NtfyFindsNoThread(t) \/
             Hit(t) \/ TriggerBegins(t) \/ TriggerCannotSleep(t) \/ TriggerEnds(t) \/ HitDetaches(t) \/
             CallbackReturns(t) \/ NtfyGoesOn(t) \/ ThreadExits(t) \/ ThreadStarts(t)
      PROVE  QueueOwned'
  <2>1. UNCHANGED <<queue, task, target, parent>>
    BY <1>10 DEF SwapUser, jobVars, roundVars, handlerVars, threadVars, callerVars,
         mutexes, ReturnToUser, swapVars, JobReturns, NtfyFindsNoThread, Hit,
         TriggerBegins, TriggerCannotSleep, TriggerEnds, HitDetaches, CallbackReturns, NtfyGoesOn,
         ThreadExits, ThreadStarts
  <2> QED
    BY <1>0, <2>1 DEF QueueOwned, OrderInv, Basics
<1>11. CASE UNCHANGED vars
  BY <1>0, <1>11 DEF vars, jobVars, roundVars, handlerVars, threadVars, swapVars,
       targetVars, callerVars, mutexes, QueueOwned, OrderInv, Basics
<1> QED
  BY <1>1, <1>2, <1>3, <1>4, <1>5, <1>6, <1>7, <1>8, <1>9, <1>10, <1>11 DEF Next,
       Completion

(* Nobody comes back to life, or gets back the state that was taken.       *)
FatesKept ==
  /\ \A v \in Targets : pc[v] = "gone" => pc'[v] = "gone"
  /\ robbed \subseteq robbed'

(* Who is gone or lost its list stays so.                                  *)
LEMMA FatesStep ==
  ASSUME IInv, [Next]_vars
  PROVE  FatesKept
<1>0. Basics /\ Leader \in Targets
  BY TypeFacts, EngineAssumption
<1>1. ASSUME NEW c \in Callers, NEW j \in Jobs, Schedule(c, j)
      PROVE  FatesKept
  BY <1>0, <1>1 DEF Schedule, FatesKept, roundVars, threadVars, swapVars, targetVars,
       mutexes
<1>2. ASSUME NEW c \in Callers, NEW j \in Jobs, AwaitExecute(c, j)
      PROVE  FatesKept
  BY <1>0, <1>2 DEF AwaitExecute, FatesKept, roundVars, handlerVars, threadVars,
       swapVars,
       targetVars, callerVars, mutexes
<1>3. ASSUME NEW c \in Callers, NEW j \in Jobs, WaitExecute(c, j)
      PROVE  FatesKept
  BY <1>0, <1>3 DEF WaitExecute, FatesKept, jobVars, handlerVars, threadVars, swapVars,
       targetVars, mutexes
<1>4. ASSUME NEW c \in Callers, NEW j \in Jobs, Destroy(c, j)
      PROVE  FatesKept
  BY <1>0, <1>4 DEF Destroy, FatesKept, roundVars, threadVars, swapVars, targetVars,
       callerVars, mutexes
<1>5. ASSUME NEW c \in Callers, APC_AddPendingWork(c)
      PROVE  FatesKept
  BY <1>5, AddEffect DEF APC_AddPendingWork, Updated, targetVars, FatesKept
<1>6. ASSUME NEW c \in Callers, APC_AddPendingWorkFails(c)
      PROVE  FatesKept
  <2>1. robbed \subseteq robbed'
    <3>1. CASE FailUpdates(c)
      BY <3>1 DEF FailUpdates, Updated
    <3>2. CASE FailLeaves
      BY <3>2 DEF FailLeaves
    <3> QED
      BY <1>6, <3>1, <3>2, FailEffect
  <2> QED
    BY <1>6, <2>1 DEF APC_AddPendingWorkFails, targetVars, FatesKept
<1>7. ASSUME NEW c \in Callers, WaitReturns(c)
      PROVE  FatesKept
  BY <1>0, <1>7 DEF WaitReturns, FatesKept, jobVars, roundVars, handlerVars, threadVars,
       swapVars, targetVars, mutexes
<1>8. ASSUME NEW c \in Callers, WaitTimesOut(c)
      PROVE  FatesKept
  BY <1>0, <1>8 DEF WaitTimesOut, FatesKept, jobVars, handlerVars, threadVars, swapVars,
       targetVars, mutexes
<1>9. ASSUME NEW c \in Callers, ReleaseOwner(c)
      PROVE  FatesKept
  BY <1>0, <1>9 DEF ReleaseOwner, FatesKept, jobVars, handlerVars, threadVars, swapVars,
       targetVars, mutexes
<1>10. ASSUME NEW t \in Targets, SwapUser(t)
      PROVE  FatesKept
  BY <1>0, <1>10 DEF SwapUser, FatesKept, jobVars, roundVars, handlerVars, threadVars,
       callerVars, mutexes, Basics, TargetTypes
<1>11. ASSUME NEW t \in Targets, ReturnToUser(t)
      PROVE  FatesKept
  BY <1>0, <1>11 DEF ReturnToUser, FatesKept, jobVars, roundVars, handlerVars,
       threadVars,
       swapVars, callerVars, mutexes, Basics, TargetTypes
<1>12. ASSUME NEW t \in Targets, JobReturns(t)
      PROVE  FatesKept
  BY <1>0, <1>12 DEF JobReturns, FatesKept, jobVars, roundVars, handlerVars, threadVars,
       callerVars, mutexes, Basics, TargetTypes
<1>13. ASSUME NEW t \in Targets, NtfyFindsNoThread(t)
      PROVE  FatesKept
  BY <1>0, <1>13 DEF NtfyFindsNoThread, FatesKept, jobVars, roundVars, handlerVars,
       threadVars, swapVars, callerVars, mutexes, Basics, TargetTypes
<1>14. ASSUME NEW t \in Targets, NtfyJobFinished(t)
      PROVE  FatesKept
  BY <1>0, <1>14 DEF NtfyJobFinished, FatesKept, jobVars, roundVars, handlerVars,
       swapVars, callerVars, Basics, TargetTypes
<1>15. ASSUME NEW t \in Targets, Hit(t)
      PROVE  FatesKept
  BY <1>0, <1>15 DEF Hit, FatesKept, roundVars, threadVars, swapVars, callerVars,
       Basics,
       TargetTypes
<1>16. ASSUME NEW t \in Targets, TriggerBegins(t) \/ TriggerCannotSleep(t)
      PROVE  FatesKept
  BY <1>0, <1>16 DEF TriggerBegins, TriggerCannotSleep, FatesKept, jobVars, handlerVars, threadVars,
       swapVars,
       callerVars, mutexes, Basics, TargetTypes
<1>17. ASSUME NEW t \in Targets, TriggerEnds(t)
      PROVE  FatesKept
  BY <1>0, <1>17 DEF TriggerEnds, FatesKept, jobVars, handlerVars, threadVars, swapVars,
       callerVars, mutexes, Basics, TargetTypes
<1>18. ASSUME NEW t \in Targets, HitDetaches(t)
      PROVE  FatesKept
  BY <1>0, <1>18 DEF HitDetaches, FatesKept, roundVars, threadVars, swapVars,
       callerVars,
       Basics, TargetTypes
<1>19. ASSUME NEW t \in Targets, CallbackReturns(t)
      PROVE  FatesKept
  BY <1>0, <1>19 DEF CallbackReturns, FatesKept, jobVars, roundVars, threadVars,
       swapVars,
       callerVars, mutexes, Basics, TargetTypes
<1>20. ASSUME NEW t \in Targets, NtfyGoesOn(t)
      PROVE  FatesKept
  BY <1>0, <1>20 DEF NtfyGoesOn, FatesKept, jobVars, roundVars, handlerVars, callerVars,
       Basics, TargetTypes
<1>21. ASSUME NEW t \in Targets, NEW j \in Jobs, CallbackSchedules(t, j)
      PROVE  FatesKept
  BY <1>0, <1>21 DEF CallbackSchedules, FatesKept, roundVars, threadVars, swapVars,
       callerVars, mutexes, Basics, TargetTypes
<1>22. ASSUME NEW t \in Targets, ThreadExits(t)
      PROVE  FatesKept
  BY <1>0, <1>22 DEF ThreadExits, FatesKept, jobVars, roundVars, handlerVars,
       threadVars,
       swapVars, callerVars, mutexes, Basics, TargetTypes
<1>23. ASSUME NEW t \in Targets, ThreadStarts(t)
      PROVE  FatesKept
  BY <1>0, <1>23 DEF ThreadStarts, FatesKept, jobVars, roundVars, handlerVars,
       threadVars,
       swapVars, callerVars, mutexes, Basics, TargetTypes
<1>24. ASSUME APC_OnThreadExit
      PROVE  FatesKept
  BY <1>0, <1>24 DEF APC_OnThreadExit, FatesKept, roundVars, swapVars, callerVars,
       mutexes, Basics, TargetTypes
<1>25. ASSUME UNCHANGED vars
      PROVE  FatesKept
  BY <1>25 DEF vars, threadVars, targetVars, FatesKept
<1> QED
  BY <1>1, <1>2, <1>3, <1>4, <1>5, <1>6, <1>7, <1>8, <1>9, <1>10, <1>11, <1>12, <1>13,
       <1>14, <1>15, <1>16, <1>17, <1>18, <1>19, <1>20, <1>21, <1>22, <1>23, <1>24, <1>25
       DEF Next, Completion

(* A thread that has its list to lose has had it all along.                *)
LEMMA OwnStep ==
  ASSUME IInv, [Next]_vars, NEW u \in Targets, Own(u)'
  PROVE  Own(u)
BY FatesStep DEF Own, FatesKept

(* A step that takes u neither into a completion nor to the stub.          *)
NoNewEntry(u) ==
  \/ pc'[u] = pc[u]
  \/ pc'[u] \notin Completing \cup {"enter"}
  \/ pc[u] \in Completing /\ pc'[u] # "enter"

(* A thread that nothing was done to, or whose state stayed as it was.     *)
LEMMA OwnOrderKept ==
  ASSUME IInv, [Next]_vars, NEW u \in Targets, OwnOrder(u),
         NoNewEntry(u),
         ctx'[u] = ctx[u], swap'[u] = swap[u], next'[u] = next[u], previous'[u] = previous[u],
         Pending(u)' = Pending(u),
         task'[PidOf[u]] = u /\ hasPrevious'[PidOf[u]] =>
           /\ task[PidOf[u]] = u /\ hasPrevious[PidOf[u]]
           /\ restore'[PidOf[u]] = restore[PidOf[u]]
  PROVE  OwnOrder(u)'
<1>1. ran \subseteq ran'
  BY RanGrows
<1>2. pc'[u] \in Hitting => pc[u] \in Hitting /\ cur'[u] = cur[u]
  BY HittingStep DEF NoNewEntry, NtfyJobFinished, Hitting, Triggering, Completing
<1> QED
  BY <1>1, <1>2 DEF OwnOrder, IsHead, NoNewEntry

(* Jobs are appended behind the one that runs, popped when it is done, and *)
(* the next head is started; a thread that keeps its state sees no other.  *)
LEMMA OwnOrderStep ==
  ASSUME IInv, OrderInv, [Next]_vars, NEW u \in Targets, Own(u)'
  PROVE  OwnOrder(u)'
<1>0. Basics /\ OrderInv /\ OwnOrder(u) /\ PidOf[u] \in Pids
  BY TypeFacts, OwnStep DEF OrderInv, Basics
<1>a. u \notin robbed' /\ pc'[u] # "gone"
  BY DEF Own
<1>1. ASSUME NEW c \in Callers, APC_AddPendingWork(c)
      PROVE  OwnOrder(u)'
  <2> DEFINE t == target[on[c]]
             h == worker[on[c]]
  <2>1. /\ t \in Targets /\ PidOf[t] \in Pids /\ h \in 1..made /\ Updated(t)
        /\ \A q \in Pids : q # PidOf[t] => queue'[q] = queue[q]
        /\ queue'[PidOf[t]] # <<>>
        /\ Head(queue'[PidOf[t]]) = IF Pending(t) = <<>> THEN h ELSE Head(Pending(t))
        /\ IF Pending(t) = <<>> THEN PreemptExecution(t, h) ELSE UNCHANGED <<next, swap>>
    BY <1>1, AddEffect
  <2>2. UNCHANGED <<ctx, previous, pc, restore, ran>> /\ pc[u] \notin Completing
    BY <1>1, Alone DEF APC_AddPendingWork, targetVars
  <2> HIDE DEF t, h
  <2>3. CASE u = t
    <3>1. /\ task'[PidOf[u]] = u
          /\ hasPrevious'[PidOf[u]] => task[PidOf[u]] = u /\ hasPrevious[PidOf[u]]
      BY <1>0, <2>1, <2>3 DEF Updated, Basics, ThreadTypes
    <3>2. /\ Pending(u)' # <<>>
          /\ Head(Pending(u)') = IF Pending(u) = <<>> THEN h ELSE Head(Pending(u))
      BY <2>1, <2>3, <3>1 DEF Pending
    <3>3. ctx[u] \in Int /\ next'[u] \in Int
      BY <1>0, SwapTypesStep DEF Basics, SwapTypes, Stub
    <3>4. CASE Pending(u) = <<>>
      <4>1. swap'[u] /\ next'[u] = h
        BY <1>0, <2>1, <2>3, <3>4 DEF PreemptExecution, Basics, SwapTypes
      <4>2. ctx[u] <= 0 /\ pc[u] # "enter"
        BY <1>0, <3>3, <3>4 DEF OwnOrder, IsHead
      <4> QED
        BY <1>0, <2>2, <3>1, <3>2, <3>3, <3>4, <4>1, <4>2
           DEF OwnOrder, IsHead, Hitting, Triggering, Completing
    <3>5. CASE Pending(u) # <<>>
      <4>1. UNCHANGED <<next, swap>>
        BY <2>1, <2>3, <3>5
      <4> QED
        BY <1>0, <2>2, <3>1, <3>2, <3>5, <4>1
           DEF OwnOrder, IsHead, Hitting, Triggering, Completing
    <3> QED
      BY <3>4, <3>5
  <2>4. CASE u # t
    <3>1. PidOf[u] = PidOf[t] /\ task[PidOf[u]] = u => queue[PidOf[u]] = <<>>
      BY <1>a, <2>1, <2>2, <2>4 DEF Updated, Robbed
    <3>2. /\ PidOf[u] # PidOf[t] => /\ task'[PidOf[u]] = task[PidOf[u]]
                                    /\ hasPrevious'[PidOf[u]] = hasPrevious[PidOf[u]]
          /\ PidOf[u] = PidOf[t] => task'[PidOf[u]] = t
      BY <1>0, <2>1 DEF Updated, Basics, ThreadTypes
    <3>3. Pending(u)' = Pending(u)
      BY <1>0, <2>1, <2>4, <3>1, <3>2 DEF Pending
    <3>4. next'[u] = next[u] /\ swap'[u] = swap[u]
      BY <1>0, <2>1, <2>4 DEF PreemptExecution, Basics, SwapTypes
    <3> QED
      BY <1>0, <2>2, <2>4, <3>2, <3>3, <3>4, OwnOrderKept DEF NoNewEntry
  <2> QED
    BY <2>3, <2>4
<1>2. ASSUME NEW c \in Callers, APC_AddPendingWorkFails(c)
      PROVE  OwnOrder(u)'
  <2> DEFINE t == target[on[c]]
  <2>0. UNCHANGED <<ctx, previous, pc, next, swap>>
    BY <1>2 DEF APC_AddPendingWorkFails, targetVars, swapVars
  <2>5. CASE FailLeaves
    BY <1>0, <2>0, <2>5, OwnOrderKept DEF NoNewEntry, FailLeaves, Pending
  <2>6. CASE FailUpdates(c)
    <3>1. /\ t \in Targets /\ PidOf[t] \in Pids /\ Updated(t) /\ UNCHANGED restore
      BY <1>2, <2>6, FailEffect DEF FailUpdates
    <3>2. /\ \A q \in Pids : q # PidOf[t] => queue'[q] = queue[q]
          /\ queue'[PidOf[t]] = Pending(t)
      BY <1>0, <2>6, <3>1 DEF FailUpdates, Basics, ThreadTypes
    <3> HIDE DEF t
    <3>3. PidOf[u] = PidOf[t] /\ u # t /\ task[PidOf[u]] = u => queue[PidOf[u]] = <<>>
      BY <1>a, <2>0, <3>1 DEF Updated, Robbed
    <3>4. /\ PidOf[u] # PidOf[t] => /\ task'[PidOf[u]] = task[PidOf[u]]
                                    /\ hasPrevious'[PidOf[u]] = hasPrevious[PidOf[u]]
          /\ PidOf[u] = PidOf[t] => /\ task'[PidOf[u]] = t
                                    /\ hasPrevious'[PidOf[u]] =>
                                         hasPrevious[PidOf[u]] /\ task[PidOf[u]] = t
      <4>1. task' = [task EXCEPT ![PidOf[t]] = t]
        BY <3>1 DEF Updated
      <4>2. hasPrevious' = IF task[PidOf[t]] = t
                             THEN hasPrevious ELSE [hasPrevious EXCEPT ![PidOf[t]] = FALSE]
        BY <3>1 DEF Updated
      <4>3. /\ DOMAIN task = Pids /\ DOMAIN hasPrevious = Pids
            /\ PidOf[u] \in Pids /\ PidOf[t] \in Pids
        BY <1>0, <3>1 DEF Basics, ThreadTypes
      <4> QED
        BY <4>1, <4>2, <4>3
    <3>5. Pending(u)' = Pending(u)
      BY <1>0, <3>2, <3>3, <3>4 DEF Pending
    <3> QED
      BY <1>0, <2>0, <3>1, <3>4, <3>5, OwnOrderKept DEF NoNewEntry
  <2> QED
    BY <1>2, <2>5, <2>6, FailEffect
<1>3. ASSUME NEW t \in Targets, SwapUser(t)
      PROVE  OwnOrder(u)'
  <2>1. UNCHANGED <<task, queue, hasPrevious, restore, next>>
    BY <1>3 DEF SwapUser, threadVars
  <2>2. CASE u = t
    <3>1. /\ swap[u] /\ ~swap'[u] /\ previous'[u] = ctx[u] /\ ctx'[u] = next[u] /\ pc'[u] = "user"
      BY <1>0, <1>3, <2>2 DEF SwapUser, Basics, TargetTypes, SwapTypes
    <3> QED
      BY <1>0, <2>1, <3>1 DEF OwnOrder, IsHead, Pending, Hitting, Triggering
  <2>3. CASE u # t
    <3>1. /\ swap'[u] = swap[u] /\ previous'[u] = previous[u] /\ ctx'[u] = ctx[u] /\ pc'[u] = pc[u]
      BY <1>0, <1>3, <2>3 DEF SwapUser, Basics, TargetTypes, SwapTypes
    <3> QED
      BY <1>0, <2>1, <3>1, OwnOrderKept DEF NoNewEntry, Pending
  <2> QED
    BY <2>2, <2>3
<1>4. ASSUME NEW t \in Targets, ReturnToUser(t)
      PROVE  OwnOrder(u)'
  <2>1. UNCHANGED <<task, queue, hasPrevious, restore>>
    BY <1>4 DEF ReturnToUser, threadVars
  <2>2. UNCHANGED <<ctx, swap, next, previous>>
    BY <1>4 DEF ReturnToUser, swapVars
  <2>3. NoNewEntry(u)
    BY <1>0, <1>4 DEF NoNewEntry, ReturnToUser, Basics, TargetTypes, Completing
  <2> QED
    BY <1>0, <2>1, <2>2, <2>3, OwnOrderKept DEF Pending
<1>5. ASSUME NEW t \in Targets, JobReturns(t)
      PROVE  OwnOrder(u)'
  <2>1. UNCHANGED <<task, queue, hasPrevious, restore, next, swap, previous>>
    BY <1>5 DEF JobReturns, threadVars
  <2>2. CASE u = t
    <3>1. ctx[u] > 0 /\ ctx'[u] = Stub /\ pc'[u] = "enter" /\ ctx[u] \in ran'
      BY <1>0, <1>5, <2>2 DEF JobReturns, Basics, TargetTypes, SwapTypes
    <3>2. ~swap[u] /\ Pending(u) # <<>> /\ Head(Pending(u)) = ctx[u]
      <4>1. ctx[u] \in Int
        BY <1>0 DEF Basics, SwapTypes, Stub
      <4> QED
        BY <1>0, <3>1, <4>1 DEF OwnOrder, IsHead
    <3> QED
      BY <1>0, <2>1, <3>1, <3>2 DEF OwnOrder, Pending, Stub, Hitting, Triggering
  <2>3. CASE u # t
    <3>1. ctx'[u] = ctx[u] /\ pc'[u] = pc[u]
      BY <1>0, <1>5, <2>3 DEF JobReturns, Basics, TargetTypes, SwapTypes
    <3> QED
      BY <1>0, <2>1, <3>1, OwnOrderKept DEF NoNewEntry, Pending
  <2> QED
    BY <2>2, <2>3
<1>6. ASSUME NEW t \in Targets, NtfyFindsNoThread(t)
      PROVE  OwnOrder(u)'
  <2>1. UNCHANGED <<task, queue, hasPrevious, restore>>
    BY <1>6 DEF NtfyFindsNoThread
  <2>2. UNCHANGED <<ctx, swap, next, previous>>
    BY <1>6 DEF NtfyFindsNoThread, swapVars
  <2>3. NoNewEntry(u)
    BY <1>0, <1>6 DEF NoNewEntry, NtfyFindsNoThread, Basics, TargetTypes, Completing
  <2> QED
    BY <1>0, <2>1, <2>2, <2>3, OwnOrderKept DEF Pending
<1>7. ASSUME NEW t \in Targets, NtfyJobFinished(t)
      PROVE  OwnOrder(u)'
  <2>1. /\ UNCHANGED <<task, hasPrevious, restore, ctx, swap, next, previous>>
        /\ task[PidOf[t]] = t /\ pc[t] = "enter" /\ pc' = [pc EXCEPT ![t] = "hit"]
        /\ queue' = [queue EXCEPT ![PidOf[t]] = Tail(queue[PidOf[t]])]
    BY <1>7, PopEffect DEF NtfyJobFinished, swapVars
  <2>2. CASE u = t
    <3>1. pc'[u] = "hit" /\ ctx[u] = Stub /\ ~swap[u]
      BY <1>0, <2>1, <2>2 DEF Basics, TargetTypes, OrderInv, StubRuns, OwnOrder
    <3>2. cur'[u] = Head(Pending(u)) /\ Head(Pending(u)) \in ran'
      <4>1. cur' = [cur EXCEPT ![u] = Head(queue[PidOf[u]])] /\ UNCHANGED ran
        BY <1>7, <2>2, PopEffect DEF NtfyJobFinished, handlerVars
      <4> QED
        BY <1>0, <2>1, <2>2, <4>1 DEF Basics, TargetTypes, OwnOrder, Pending
    <3> QED
      BY <1>0, <2>1, <3>1, <3>2 DEF OwnOrder, Stub
  <2>3. CASE u # t
    <3>1. pc'[u] = pc[u] /\ (PidOf[u] # PidOf[t] => queue'[PidOf[u]] = queue[PidOf[u]])
      BY <1>0, <2>1, <2>3 DEF Basics, TargetTypes, ThreadTypes
    <3>2. Pending(u)' = Pending(u)
      BY <2>1, <2>3, <3>1 DEF Pending
    <3> QED
      BY <1>0, <2>1, <3>1, <3>2, OwnOrderKept DEF NoNewEntry
  <2> QED
    BY <2>2, <2>3
<1>8. ASSUME NEW t \in Targets, Hit(t)
      PROVE  OwnOrder(u)'
  <2>1. UNCHANGED <<task, queue, hasPrevious, restore>>
    BY <1>8 DEF Hit, threadVars
  <2>2. UNCHANGED <<ctx, swap, next, previous>>
    BY <1>8 DEF Hit, swapVars
  <2>3. NoNewEntry(u)
    BY <1>0, <1>8 DEF NoNewEntry, Hit, Basics, TargetTypes, Completing
  <2> QED
    BY <1>0, <2>1, <2>2, <2>3, OwnOrderKept DEF Pending
<1>9. ASSUME NEW t \in Targets, TriggerBegins(t) \/ TriggerCannotSleep(t)
      PROVE  OwnOrder(u)'
  <2>1. UNCHANGED <<task, queue, hasPrevious, restore>>
    BY <1>9 DEF TriggerBegins, TriggerCannotSleep, threadVars
  <2>2. UNCHANGED <<ctx, swap, next, previous>>
    BY <1>9 DEF TriggerBegins, TriggerCannotSleep, swapVars
  <2>3. NoNewEntry(u)
    BY <1>0, <1>9 DEF NoNewEntry, TriggerBegins, TriggerCannotSleep, Basics, TargetTypes, Completing
  <2> QED
    BY <1>0, <2>1, <2>2, <2>3, OwnOrderKept DEF Pending
<1>10. ASSUME NEW t \in Targets, TriggerEnds(t)
      PROVE  OwnOrder(u)'
  <2>1. UNCHANGED <<task, queue, hasPrevious, restore>>
    BY <1>10 DEF TriggerEnds, threadVars
  <2>2. UNCHANGED <<ctx, swap, next, previous>>
    BY <1>10 DEF TriggerEnds, swapVars
  <2>3. NoNewEntry(u)
    BY <1>0, <1>10 DEF NoNewEntry, TriggerEnds, Basics, TargetTypes, Completing
  <2> QED
    BY <1>0, <2>1, <2>2, <2>3, OwnOrderKept DEF Pending
<1>11. ASSUME NEW t \in Targets, HitDetaches(t)
      PROVE  OwnOrder(u)'
  <2>1. UNCHANGED <<task, queue, hasPrevious, restore>>
    BY <1>11 DEF HitDetaches, threadVars
  <2>2. UNCHANGED <<ctx, swap, next, previous>>
    BY <1>11 DEF HitDetaches, swapVars
  <2>3. NoNewEntry(u)
    BY <1>0, <1>11 DEF NoNewEntry, HitDetaches, Basics, TargetTypes, Completing
  <2> QED
    BY <1>0, <2>1, <2>2, <2>3, OwnOrderKept DEF Pending
<1>12. ASSUME NEW t \in Targets, CallbackReturns(t)
      PROVE  OwnOrder(u)'
  <2>1. UNCHANGED <<task, queue, hasPrevious, restore>>
    BY <1>12 DEF CallbackReturns, threadVars
  <2>2. UNCHANGED <<ctx, swap, next, previous>>
    BY <1>12 DEF CallbackReturns, swapVars
  <2>3. NoNewEntry(u)
    BY <1>0, <1>12 DEF NoNewEntry, CallbackReturns, Basics, TargetTypes, Completing
  <2> QED
    BY <1>0, <2>1, <2>2, <2>3, OwnOrderKept DEF Pending
<1>13. ASSUME NEW t \in Targets, NtfyGoesOn(t)
      PROVE  OwnOrder(u)'
  <2>1. /\ UNCHANGED <<task, queue, ctx, previous>> /\ pc[t] = "finish"
        /\ pc' = [pc EXCEPT ![t] = "return"]
    BY <1>13 DEF NtfyGoesOn
  <2>2. \A q \in Pids : q # PidOf[t] => hasPrevious'[q] = hasPrevious[q] /\ restore'[q] = restore[q]
    BY <1>0, <1>13 DEF NtfyGoesOn, SaveState, Basics, ThreadTypes
  <2>3. task[PidOf[t]] = t /\ ctx[t] = Stub
    BY <1>0, <2>1 DEF OrderInv, StateFound, StubRuns, Completing
  <2>4. CASE u = t
    <3>1. /\ pc'[u] = "return" /\ ctx'[u] = Stub /\ previous'[u] = previous[u] /\ previous[u] <= 0
          /\ hasPrevious[PidOf[u]] => restore[PidOf[u]] <= 0
          /\ Pending(u)' = queue[PidOf[u]]
      BY <1>0, <2>1, <2>3, <2>4 DEF Basics, TargetTypes, OwnOrder, Pending
    <3>2. CASE queue[PidOf[u]] # <<>>
      <4>1. next'[u] = Head(queue[PidOf[u]])
        BY <1>0, <1>13, <2>4, <3>2 DEF NtfyGoesOn, PreemptExecution, Basics, SwapTypes
      <4>2. restore'[PidOf[u]] \in {restore[PidOf[u]], previous[u]} /\ restore'[PidOf[u]] <= 0
        <5>1. SaveState(u)
          BY <1>13, <2>4, <3>2 DEF NtfyGoesOn
        <5>2. CASE hasPrevious[PidOf[u]]
          BY <3>1, <5>1, <5>2 DEF SaveState
        <5>3. CASE ~hasPrevious[PidOf[u]]
          BY <1>0, <3>1, <5>1, <5>3 DEF SaveState, Basics, ThreadTypes
        <5> QED
          BY <5>2, <5>3
      <4> QED
        BY <3>1, <3>2, <4>1, <4>2 DEF OwnOrder, IsHead, Completing, Stub, Hitting, Triggering
    <3>3. CASE queue[PidOf[u]] = <<>>
      <4>1. /\ next'[u] = IF hasPrevious[PidOf[u]] THEN restore[PidOf[u]] ELSE previous[u]
            /\ ~hasPrevious'[PidOf[u]]
        BY <1>0, <1>13, <2>4, <3>3 DEF NtfyGoesOn, PreemptExecution, Basics, SwapTypes,
             ThreadTypes
      <4>2. next'[u] <= 0 /\ next'[u] \in Int
        BY <1>0, <3>1, <4>1 DEF Basics, SwapTypes, ThreadTypes, Stub
      <4> QED
        BY <3>1, <4>1, <4>2 DEF OwnOrder, Completing, Stub, Hitting, Triggering
    <3> QED
      BY <3>2, <3>3
  <2>5. CASE u # t
    <3>1. pc'[u] = pc[u] /\ swap'[u] = swap[u] /\ next'[u] = next[u]
      BY <1>0, <1>13, <2>5 DEF NtfyGoesOn, PreemptExecution, Basics, TargetTypes,
           SwapTypes
    <3>2. Pending(u)' = Pending(u)
      BY <2>1 DEF Pending
    <3>3. task'[PidOf[u]] = u => PidOf[u] # PidOf[t]
      BY <2>1, <2>3, <2>5
    <3> QED
      BY <1>0, <2>1, <2>2, <3>1, <3>2, <3>3, OwnOrderKept DEF NoNewEntry
  <2> QED
    BY <2>4, <2>5
<1>14. ASSUME NEW t \in Targets, NEW j \in Jobs, CallbackSchedules(t, j)
      PROVE  OwnOrder(u)'
  <2>1. UNCHANGED <<task, queue, hasPrevious, restore>>
    BY <1>14 DEF CallbackSchedules, threadVars
  <2>2. UNCHANGED <<ctx, swap, next, previous>>
    BY <1>14 DEF CallbackSchedules, swapVars
  <2>3. NoNewEntry(u)
    BY <1>0, <1>14 DEF NoNewEntry, CallbackSchedules, Basics, TargetTypes, Completing
  <2> QED
    BY <1>0, <2>1, <2>2, <2>3, OwnOrderKept DEF Pending
<1>15. ASSUME NEW t \in Targets, ThreadExits(t)
      PROVE  OwnOrder(u)'
  <2>1. UNCHANGED <<task, queue, hasPrevious, restore>>
    BY <1>15 DEF ThreadExits, threadVars
  <2>2. UNCHANGED <<ctx, swap, next, previous>>
    BY <1>15 DEF ThreadExits, swapVars
  <2>3. NoNewEntry(u)
    BY <1>0, <1>15 DEF NoNewEntry, ThreadExits, Basics, TargetTypes, Completing
  <2> QED
    BY <1>0, <2>1, <2>2, <2>3, OwnOrderKept DEF Pending
<1>16. ASSUME NEW t \in Targets, ThreadStarts(t)
      PROVE  OwnOrder(u)'
  <2>1. UNCHANGED <<task, queue, hasPrevious, restore>>
    BY <1>16 DEF ThreadStarts, threadVars
  <2>2. UNCHANGED <<ctx, swap, next, previous>>
    BY <1>16 DEF ThreadStarts, swapVars
  <2>3. NoNewEntry(u)
    BY <1>0, <1>16 DEF NoNewEntry, ThreadStarts, Basics, TargetTypes, Completing
  <2> QED
    BY <1>0, <2>1, <2>2, <2>3, OwnOrderKept DEF Pending
<1>17. ASSUME APC_OnThreadExit
      PROVE  OwnOrder(u)'
  <2>1. u # Leader /\ pc'[u] = pc[u]
    BY <1>0, <1>17, <1>a, EngineAssumption DEF APC_OnThreadExit, Basics, TargetTypes
  <2>2. task[PidOf[u]] = u => queue[PidOf[u]] = <<>>
    BY <1>17, <1>a, <2>1 DEF APC_OnThreadExit, Robbed
  <2>3. task'[PidOf[u]] = Nobody /\ queue'[PidOf[u]] = <<>> /\ UNCHANGED <<ctx, swap, next, previous>>
    BY <1>0, <1>17 DEF APC_OnThreadExit, FreeDEProcess, swapVars
  <2>4. Pending(u)' = Pending(u)
    BY <2>2, <2>3 DEF Pending
  <2> QED
    BY <1>0, <2>1, <2>3, <2>4, OwnOrderKept DEF NoNewEntry, Basics
<1>18. ASSUME NEW c \in Callers, NEW j \in Jobs,
             Schedule(c, j) \/ AwaitExecute(c, j) \/ WaitExecute(c, j) \/ Destroy(c, j)
      PROVE  OwnOrder(u)'
  <2>1. UNCHANGED <<pc, ctx, swap, next, previous, task, queue, hasPrevious, restore>>
    BY <1>18 DEF Schedule, roundVars, threadVars, swapVars, targetVars, mutexes,
         AwaitExecute, handlerVars, callerVars, WaitExecute, jobVars, Destroy
  <2> QED
    BY <1>0, <2>1, OwnOrderKept DEF NoNewEntry, Pending
<1>19. ASSUME NEW c \in Callers, WaitReturns(c) \/ WaitTimesOut(c) \/ ReleaseOwner(c)
      PROVE  OwnOrder(u)'
  <2>1. UNCHANGED <<pc, ctx, swap, next, previous, task, queue, hasPrevious, restore>>
    BY <1>19 DEF WaitReturns, jobVars, roundVars, handlerVars, threadVars, swapVars,
         targetVars, mutexes, WaitTimesOut, ReleaseOwner
  <2> QED
    BY <1>0, <2>1, OwnOrderKept DEF NoNewEntry, Pending
<1>20. CASE UNCHANGED vars
  BY <1>0, <1>20
     DEF vars, handlerVars, threadVars, swapVars, targetVars, OwnOrder, IsHead, Pending
<1> QED
  BY <1>1, <1>2, <1>3, <1>4, <1>5, <1>6, <1>7, <1>8, <1>9, <1>10, <1>11, <1>12, <1>13,
       <1>14, <1>15, <1>16, <1>17, <1>18, <1>19, <1>20 DEF Next, Completion

(* OrderInv is inductive with IInv.                                        *)
LEMMA OrderInvStep ==
  ASSUME IInv, OrderInv, [Next]_vars
  PROVE  OrderInv'
BY StubRunsStep, StateFoundStep, QueueOwnedStep, HitOwnedStep, OwnOrderStep DEF OrderInv

(* No thread has run a job.                                                *)
LEMMA OrderInvInit == Init => OrderInv
<1> SUFFICES ASSUME Init PROVE OrderInv
  OBVIOUS
<1>1. StubRuns /\ StateFound
  BY DEF Init, StubRuns, StateFound, Completing
<1>2. QueueOwned /\ HitOwned
  BY NothingInRange DEF Init, QueueOwned, HitOwned, Hitting, Triggering
<1>3. ASSUME NEW t \in Targets
      PROVE  OwnOrder(t)
  <2>1. PidOf[t] \in Pids
    BY DEF Pids
  <2> QED
    BY <2>1 DEF Init, OwnOrder, App, Hitting, Triggering
<1> QED
  BY <1>1, <1>2, <1>3 DEF OrderInv

(* No thread that keeps its list runs a job that is not the first of it,   *)
(* whatever is scheduled, destroyed or finished meanwhile, whoever gets    *)
(* the id of a thread that is gone (ODEThread.cpp:65) and whether or not   *)
(* the exit of the group leader is told to the engine.                     *)
THEOREM EngineRunsHead == Spec => []RunsHead
<1>1. Init => IInv /\ OrderInv
  BY InitInv, OrderInvInit
<1>2. IInv /\ OrderInv /\ [Next]_vars => (IInv /\ OrderInv)'
  BY InvStep, OrderInvStep
<1>3. IInv /\ OrderInv => RunsHead
  <2> SUFFICES ASSUME IInv, OrderInv, NEW t \in Targets, Own(t),
                      NEW h \in {ctx[t]} \cup (IF swap[t] THEN {next[t]} ELSE {}), h > 0
               PROVE  /\ Pending(t) # <<>> /\ h = Head(Pending(t))
                      /\ parent[h] # NoJob => target[parent[h]] = t
    BY DEF RunsHead, Own
  <2>1. IsHead(t, h)
    BY DEF OrderInv, OwnOrder
  <2>2. h \in Range(Pending(t))
    BY <2>1, PendingFacts, TailRange DEF IsHead
  <2> QED
    BY <2>1, <2>2, PendingOwned DEF IsHead
<1> QED
  BY <1>1, <1>2, <1>3, PTL DEF Spec

(* A round that is over is one whose job ran.                              *)
LEMMA DoneRanStep ==
  ASSUME IInv, OrderInv, ExecInv, [Next]_vars
  PROVE  DoneRan'
<1>0. Basics /\ ExecInv
  BY TypeFacts
<1> DEFINE Over(i) == target[i] \in robbed \/ \E h \in ran : parent[h] = i
           Was(i) == alive[i] /\ (done[i] > 0 \/ Over(i))
<1>1. ASSUME NEW i \in Jobs, alive'[i], done'[i] > 0
      PROVE  Was(i)
  <2>1. ASSUME NEW c \in Callers, NEW j \in Jobs, Destroy(c, j)
        PROVE  Was(i)
    BY <1>0, <1>1, <2>1 DEF Destroy, Basics, JobTypes, roundVars
  <2>2. ASSUME NEW c \in Callers, ReleaseOwner(c)
        PROVE  Was(i)
    <3>1. UNCHANGED alive /\ (done'[i] = 0 \/ done'[i] = done[i])
      BY <1>0, <2>2 DEF ReleaseOwner, jobVars, Basics, RoundTypes
    <3> QED
      BY <1>1, <3>1
  <2>3. ASSUME NEW t \in Targets, TriggerEnds(t)
        PROVE  Was(i)
    <3>1. /\ pc[t] = "end" /\ UNCHANGED alive /\ parent[cur[t]] \in Jobs
          /\ \A k \in Jobs : k # parent[cur[t]] => done'[k] = done[k]
      BY <1>0, <2>3 DEF TriggerEnds, jobVars, Basics, Triggering, RoundTypes
    <3>2. target[parent[cur[t]]] = t
      BY <1>0, <3>1 DEF OrderInv, HitOwned, Hitting, Triggering, Basics
    <3>3. t \in robbed \/ cur[t] \in ran
      BY <3>1 DEF OrderInv, OwnOrder, Own, Hitting, Triggering
    <3> QED
      BY <1>1, <3>1, <3>2, <3>3
  <2>4. ASSUME ~ \E c \in Callers : ReleaseOwner(c) \/ \E j \in Jobs : Destroy(c, j),
               ~ \E t \in Targets : TriggerEnds(t)
        PROVE  Was(i)
    <3>1. UNCHANGED <<alive, done>>
      <4>1. ASSUME NEW c \in Callers, NEW j \in Jobs,
                   Schedule(c, j) \/ AwaitExecute(c, j) \/ WaitExecute(c, j)
            PROVE  UNCHANGED <<alive, done>>
        BY <4>1 DEF Schedule, AwaitExecute, WaitExecute, jobVars, roundVars
      <4>2. ASSUME NEW c \in Callers,
                   APC_AddPendingWork(c) \/ APC_AddPendingWorkFails(c) \/ WaitReturns(c) \/
                   WaitTimesOut(c)
            PROVE  UNCHANGED <<alive, done>>
        BY <4>2 DEF APC_AddPendingWork, APC_AddPendingWorkFails, UpdatePidHandle, Die,
             WaitReturns, WaitTimesOut, jobVars, roundVars
      <4>3. ASSUME NEW t \in Targets,
                   SwapUser(t) \/ ReturnToUser(t) \/ JobReturns(t) \/ NtfyFindsNoThread(t) \/
                   NtfyJobFinished(t) \/ Hit(t) \/ TriggerBegins(t) \/ TriggerCannotSleep(t) \/
                   HitDetaches(t) \/ CallbackReturns(t) \/ NtfyGoesOn(t) \/ ThreadExits(t) \/
                   ThreadStarts(t)
            PROVE  UNCHANGED <<alive, done>>
        BY <4>3 DEF SwapUser, ReturnToUser, JobReturns, NtfyFindsNoThread, NtfyJobFinished, Hit,
             TriggerBegins, TriggerCannotSleep, HitDetaches, CallbackReturns, NtfyGoesOn,
             ThreadExits, ThreadStarts, jobVars, roundVars
      <4>4. ASSUME NEW t \in Targets, NEW j \in Jobs, CallbackSchedules(t, j)
            PROVE  UNCHANGED <<alive, done>>
        BY <4>4 DEF CallbackSchedules, roundVars
      <4>5. ASSUME APC_OnThreadExit
            PROVE  UNCHANGED <<alive, done>>
        BY <4>5 DEF APC_OnThreadExit, Die, roundVars
      <4>6. CASE UNCHANGED vars
        BY <4>6 DEF vars, jobVars, roundVars
      <4> QED
        BY <2>4, <4>1, <4>2, <4>3, <4>4, <4>5, <4>6 DEF Next, Completion
    <3> QED
      BY <1>1, <3>1
  <2> QED
    BY <2>1, <2>2, <2>3, <2>4
<1>2. ASSUME NEW i \in Jobs, alive'[i], Over(i)
      PROVE  Over(i)'
  <2>1. ran \subseteq ran' /\ ran \subseteq 1..made /\ UNCHANGED target
    BY RanGrows
  <2>2. robbed \subseteq robbed'
    BY FatesStep DEF FatesKept
  <2>3. \A h \in ran : parent[h] = i => parent'[h] = i
    BY <1>2, <2>1, ParentStep DEF CutOrKept
  <2> QED
    BY <1>2, <2>1, <2>2, <2>3
<1>3. ASSUME NEW i \in Jobs, alive'[i], done'[i] > 0
      PROVE  Over(i)'
  BY <1>0, <1>1, <1>2, <1>3 DEF ExecInv, DoneRan
<1> QED
  BY <1>3 DEF DoneRan

(* A caller is in the same call as before.                                 *)
SameWait(c) ==
  /\ at[c] \in {"waiting", "holding"} /\ on'[c] = on[c] /\ expects'[c] = expects[c]

(* Who waits for a job expects the handler it had, of that job.            *)
LEMMA ExpectsOwnStep ==
  ASSUME IInv, ExecInv, [Next]_vars
  PROVE  ExpectsOwn'
<1>0. Basics /\ ExecInv
  BY TypeFacts
(* A job that is waited for is not destroyed.                              *)
<1>2. ASSUME NEW c \in Callers, SameWait(c), expects'[c] # Null
      PROVE  parent'[expects'[c]] = on'[c]
  <2>1. on[c] \in Jobs /\ alive[on[c]] /\ expects[c] \in 1..made
    BY <1>0, <1>2 DEF SameWait, Basics, CallerTypes, IInv, CallerInv, CallersHold, Null
  <2>2. parent[expects[c]] = on[c]
    BY <1>0, <1>2, <2>1 DEF SameWait, ExecInv, ExpectsOwn
  <2>3. parent'[expects[c]] = on[c]
    BY <2>1, <2>2, ParentStep DEF CutOrKept
  <2> QED
    BY <1>2, <2>3 DEF SameWait
(* One that begins to wait finds the job's handler.                        *)
<1>3. ASSUME NEW c \in Callers, NEW j \in Jobs, WaitExecute(c, j), expects'[c] # Null
      PROVE  parent'[expects'[c]] = on'[c]
  <2>1. on'[c] = j /\ expects'[c] = worker[j] /\ alive[j] /\ UNCHANGED parent
    BY <1>0, <1>3 DEF WaitExecute, Usable, Basics, CallerTypes, handlerVars
  <2> QED
    BY <1>3, <2>1 DEF IInv, LinkInv, JobsPoint
<1>4. ASSUME NEW c \in Callers, at'[c] \in {"waiting", "holding"},
             \A j \in Jobs : ~WaitExecute(c, j)
      PROVE  SameWait(c)
  <2>1. ASSUME NEW d \in Callers, NEW k \in Jobs, Schedule(d, k)
        PROVE  SameWait(c)
    BY <1>0, <1>4, <2>1 DEF Schedule, roundVars, threadVars, swapVars, targetVars,
         mutexes, SameWait, Basics, CallerTypes
  <2>2. ASSUME NEW d \in Callers, NEW k \in Jobs, AwaitExecute(d, k)
        PROVE  SameWait(c)
    BY <1>0, <1>4, <2>2 DEF AwaitExecute, roundVars, handlerVars, threadVars, swapVars,
         targetVars, callerVars, mutexes, SameWait
  <2>3. ASSUME NEW d \in Callers, NEW k \in Jobs, WaitExecute(d, k)
        PROVE  SameWait(c)
    BY <1>0, <1>4, <2>3 DEF WaitExecute, jobVars, handlerVars, threadVars, swapVars,
         targetVars, mutexes, SameWait, Basics, CallerTypes
  <2>4. ASSUME NEW d \in Callers, NEW k \in Jobs, Destroy(d, k)
        PROVE  SameWait(c)
    BY <1>0, <1>4, <2>4 DEF Destroy, roundVars, threadVars, swapVars, targetVars,
         callerVars, mutexes, SameWait
  <2>5. ASSUME NEW d \in Callers, APC_AddPendingWork(d)
        PROVE  SameWait(c)
    BY <1>0, <1>4, <2>5 DEF APC_AddPendingWork, roundVars, targetVars, mutexes,
         SameWait,
         Basics, CallerTypes
  <2>6. ASSUME NEW d \in Callers, APC_AddPendingWorkFails(d)
        PROVE  SameWait(c)
    BY <1>0, <1>4, <2>6 DEF APC_AddPendingWorkFails, FailLeaves, roundVars, threadVars, swapVars,
         targetVars, mutexes, SameWait, Basics, CallerTypes
  <2>7. ASSUME NEW d \in Callers, WaitReturns(d)
        PROVE  SameWait(c)
    BY <1>0, <1>4, <2>7 DEF WaitReturns, jobVars, roundVars, handlerVars, threadVars,
         swapVars, targetVars, mutexes, SameWait, Basics, CallerTypes
  <2>8. ASSUME NEW d \in Callers, WaitTimesOut(d)
        PROVE  SameWait(c)
    BY <1>0, <1>4, <2>8 DEF WaitTimesOut, jobVars, handlerVars, threadVars, swapVars,
         targetVars, mutexes, SameWait, Basics, CallerTypes
  <2>9. ASSUME NEW d \in Callers, ReleaseOwner(d)
        PROVE  SameWait(c)
    BY <1>0, <1>4, <2>9 DEF ReleaseOwner, jobVars, handlerVars, threadVars, swapVars,
         targetVars, mutexes, SameWait, Basics, CallerTypes
  <2>10. ASSUME NEW t \in Targets, SwapUser(t)
        PROVE  SameWait(c)
    BY <1>0, <1>4, <2>10 DEF SwapUser, jobVars, roundVars, handlerVars, threadVars,
         callerVars, mutexes, SameWait
  <2>11. ASSUME NEW t \in Targets, ReturnToUser(t)
        PROVE  SameWait(c)
    BY <1>0, <1>4, <2>11 DEF ReturnToUser, jobVars, roundVars, handlerVars, threadVars,
         swapVars, callerVars, mutexes, SameWait
  <2>12. ASSUME NEW t \in Targets, JobReturns(t)
        PROVE  SameWait(c)
    BY <1>0, <1>4, <2>12 DEF JobReturns, jobVars, roundVars, handlerVars, threadVars,
         callerVars, mutexes, SameWait
  <2>13. ASSUME NEW t \in Targets, NtfyFindsNoThread(t)
        PROVE  SameWait(c)
    BY <1>0, <1>4, <2>13 DEF NtfyFindsNoThread, jobVars, roundVars, handlerVars,
         threadVars, swapVars, callerVars, mutexes, SameWait
  <2>14. ASSUME NEW t \in Targets, NtfyJobFinished(t)
        PROVE  SameWait(c)
    BY <1>0, <1>4, <2>14 DEF NtfyJobFinished, jobVars, roundVars, handlerVars, swapVars,
         callerVars, SameWait
  <2>15. ASSUME NEW t \in Targets, Hit(t)
        PROVE  SameWait(c)
    BY <1>0, <1>4, <2>15 DEF Hit, roundVars, threadVars, swapVars, callerVars, SameWait
  <2>16. ASSUME NEW t \in Targets, TriggerBegins(t) \/ TriggerCannotSleep(t)
        PROVE  SameWait(c)
    BY <1>0, <1>4, <2>16 DEF TriggerBegins, TriggerCannotSleep, jobVars, handlerVars, threadVars, swapVars,
         callerVars, mutexes, SameWait
  <2>17. ASSUME NEW t \in Targets, TriggerEnds(t)
        PROVE  SameWait(c)
    BY <1>0, <1>4, <2>17 DEF TriggerEnds, jobVars, handlerVars, threadVars, swapVars,
         callerVars, mutexes, SameWait
  <2>18. ASSUME NEW t \in Targets, HitDetaches(t)
        PROVE  SameWait(c)
    BY <1>0, <1>4, <2>18 DEF HitDetaches, roundVars, threadVars, swapVars, callerVars,
         SameWait
  <2>19. ASSUME NEW t \in Targets, CallbackReturns(t)
        PROVE  SameWait(c)
    BY <1>0, <1>4, <2>19 DEF CallbackReturns, jobVars, roundVars, threadVars, swapVars,
         callerVars, mutexes, SameWait
  <2>20. ASSUME NEW t \in Targets, NtfyGoesOn(t)
        PROVE  SameWait(c)
    BY <1>0, <1>4, <2>20 DEF NtfyGoesOn, jobVars, roundVars, handlerVars, callerVars,
         SameWait
  <2>21. ASSUME NEW t \in Targets, NEW k \in Jobs, CallbackSchedules(t, k)
        PROVE  SameWait(c)
    BY <1>0, <1>4, <2>21 DEF CallbackSchedules, roundVars, threadVars, swapVars,
         callerVars, mutexes, SameWait
  <2>22. ASSUME NEW t \in Targets, ThreadExits(t)
        PROVE  SameWait(c)
    BY <1>0, <1>4, <2>22 DEF ThreadExits, jobVars, roundVars, handlerVars, threadVars,
         swapVars, callerVars, mutexes, SameWait
  <2>23. ASSUME NEW t \in Targets, ThreadStarts(t)
        PROVE  SameWait(c)
    BY <1>0, <1>4, <2>23 DEF ThreadStarts, jobVars, roundVars, handlerVars, threadVars,
         swapVars, callerVars, mutexes, SameWait
  <2>24. ASSUME APC_OnThreadExit
        PROVE  SameWait(c)
    BY <1>0, <1>4, <2>24 DEF APC_OnThreadExit, roundVars, swapVars, callerVars, mutexes,
         SameWait
  <2>25. ASSUME UNCHANGED vars
        PROVE  SameWait(c)
    BY <1>4, <2>25 DEF vars, callerVars, SameWait
  <2> QED
    BY <2>1, <2>2, <2>3, <2>4, <2>5, <2>6, <2>7, <2>8, <2>9, <2>10, <2>11, <2>12, <2>13,
         <2>14, <2>15, <2>16, <2>17, <2>18, <2>19, <2>20, <2>21, <2>22, <2>23, <2>24,
         <2>25 DEF Next, Completion
<1>5. ASSUME NEW c \in Callers, at'[c] \in {"waiting", "holding"}, expects'[c] # Null
      PROVE  parent'[expects'[c]] = on'[c]
  BY <1>2, <1>3, <1>4, <1>5
<1> QED
  BY <1>5 DEF ExpectsOwn

(* ExecInv is inductive with IInv and OrderInv.                            *)
LEMMA ExecInvStep ==
  ASSUME IInv, OrderInv, ExecInv, [Next]_vars
  PROVE  ExecInv'
BY DoneRanStep, ExpectsOwnStep DEF ExecInv

(* Nobody waits and nothing is over.                                       *)
LEMMA ExecInvInit == Init => ExecInv
BY DEF Init, ExecInv, DoneRan, ExpectsOwn

(* The owner of a round that is over waited for a job of one handler, and  *)
(* a handler of the job ran.                                               *)
LEMMA OwnersKnow ==
  ASSUME IInv, RoundInv, ExecInv
  PROVE  WaitExecuteMeansExecuted
<1> SUFFICES ASSUME NEW c \in Callers, at[c] = "holding", expects[c] # Null,
                    on[c] \notin Again, target[on[c]] \notin robbed
             PROVE  expects[c] \in ran
  BY DEF WaitExecuteMeansExecuted
<1>1. on[c] \in Jobs /\ alive[on[c]]
  BY DEF IInv, CallerInv, CallersHold
<1>2. c \in holding[on[c]] /\ done[on[c]] > 0
  BY <1>1 DEF RoundInv, RoundOrder, RoundClients
<1>3. PICK h \in ran : parent[h] = on[c]
  BY <1>1, <1>2 DEF ExecInv, DoneRan
<1>4. h \in 1..made /\ expects[c] \in 1..made /\ parent[expects[c]] = on[c]
  BY <1>3, TypeFacts DEF Basics, HandlerTypes, CallerTypes, ExecInv, ExpectsOwn, Null
<1> QED
  BY <1>1, <1>3, <1>4 DEF Again

(* WaitExecute returns an owner only after the job it found has run to its *)
(* end in user mode, whatever finished, failed or was destroyed in between *)
(* (ODeferredExecution.cpp:75, ODEThread.cpp:413-449), unless the job was  *)
(* scheduled again or its thread lost its list.                            *)
THEOREM WaitMeansExecuted == Spec => []WaitExecuteMeansExecuted
<1>1. Init => OrderInv /\ ExecInv
  BY OrderInvInit, ExecInvInit
<1>2. IInv /\ OrderInv /\ ExecInv /\ [Next]_vars => (OrderInv /\ ExecInv)'
  BY OrderInvStep, ExecInvStep
<1>3. IInv /\ RoundInv /\ ExecInv => WaitExecuteMeansExecuted
  BY OwnersKnow
<1> QED
  BY RoundsInv, <1>1, <1>2, <1>3, PTL DEF Spec
=============================================================================
