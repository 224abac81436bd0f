----------------------- MODULE DeferredExecutionProofs -----------------------
(***************************************************************************)
(* The links between jobs, handlers, lists and callers in                  *)
(* DeferredExecution, for any number of each and however threads share     *)
(* ids.                                                                    *)
(*                                                                         *)
(* IInv has one part for each thing a completion, a scheduling, an exit    *)
(* and a destruction can break between them: who holds the mutexes         *)
(* (MutexInv), that a handler is in one place (PlaceInv), how handlers and *)
(* jobs point at each other (LinkInv), and what a caller inside a call may *)
(* count on (CallerInv).  A part is proved by one lemma with a step per    *)
(* action; the actions that rebuild a thread's state have lemmas that say  *)
(* once what they leave (Updated, AddEffect, FailEffect, PopEffect).       *)
(***************************************************************************)
EXTENDS DeferredExecution, SequenceTheorems, TLAPS

-----------------------------------------------------------------------------
Completing == {"hit", "begin", "end", "detach", "callback", "reenter", "finish"}
Triggering == {"begin", "end", "detach"}

InQueue(h) == \E p \in Pids : h \in Range(queue[p])

NoRepeats(s) == \A i, k \in DOMAIN s : s[i] = s[k] => i = k

(* A handler's job, if it has one, lives and points at it.                 *)
Linked(h) == parent[h] # NoJob => alive[parent[h]] /\ worker[parent[h]] = h

(* The critical section is held from the pop to the choice of what is next,*)
(* the watcher while the result is delivered.                              *)
MutexInv ==
  /\ \A t \in Targets : pc[t] \in Completing <=> engine = t
  /\ \A t \in Targets : pc[t] \in Triggering <=> watcher = t

(* A handler is in one list once, or out of it and being completed.        *)
PlaceInv ==
  /\ \A p \in Pids : NoRepeats(queue[p])
  /\ \A p, q \in Pids : p # q => Range(queue[p]) \cap Range(queue[q]) = {}
  /\ \A t \in Targets : pc[t] \in Completing => cur[t] # Null /\ ~InQueue(cur[t])

JobsPoint ==
  \A j \in Jobs : alive[j] /\ worker[j] # Null => worker[j] \notin freed /\ parent[worker[j]] = j

QueuedLinked == \A h \in 1..made : InQueue(h) => h \notin freed /\ Linked(h)

HitLinked ==
  /\ \A t \in Targets : pc[t] \in Triggering \cup {"hit"} => cur[t] \notin freed /\ Linked(cur[t])
  /\ \A t \in Targets : pc[t] \in Triggering => parent[cur[t]] # NoJob

CallbackDetached ==
  \A t \in Targets : pc[t] = "callback" => \A j \in Jobs : alive[j] => worker[j] # cur[t]

LinkInv == JobsPoint /\ QueuedLinked /\ HitLinked /\ CallbackDetached

(* A job is not destroyed under a caller; the handler of one that is being *)
(* scheduled is its caller's alone.                                        *)
CallersHold == \A c \in Callers : at[c] # "out" => on[c] \in Jobs /\ alive[on[c]]

SchedulersOwn ==
  \A c \in Callers : at[c] = "scheduling" =>
    /\ worker[on[c]] # Null
    /\ ~InQueue(worker[on[c]])
    /\ \A t \in Targets : pc[t] \in Completing => cur[t] # worker[on[c]]

SchedulersApart ==
  \A c, d \in Callers : at[c] = "scheduling" /\ at[d] = "scheduling" /\ c # d => on[c] # on[d]

CallerInv == CallersHold /\ SchedulersOwn /\ SchedulersApart

IInv == TypeOK /\ MutexInv /\ PlaceInv /\ LinkInv /\ CallerInv

(* A longer sequence has one member more.                                  *)
LEMMA AppendRange ==
  ASSUME NEW S, NEW s \in Seq(S), NEW e
  PROVE  /\ Range(Append(s, e)) = Range(s) \cup {e}
         /\ NoRepeats(s) /\ e \notin Range(s) => NoRepeats(Append(s, e))
<1> DEFINE r == Append(s, e)
<1>1. Len(s) \in Nat /\ DOMAIN s = 1..Len(s) /\ DOMAIN r = 1..(Len(s) + 1)
  OBVIOUS
<1>2. \A i \in 1..(Len(s) + 1) : r[i] = IF i <= Len(s) THEN s[i] ELSE e
  OBVIOUS
<1> HIDE DEF r
<1>3. Range(r) = Range(s) \cup {e}
  BY <1>1, <1>2 DEF Range
<1>4. ASSUME NoRepeats(s), e \notin Range(s)
      PROVE  NoRepeats(r)
  BY <1>1, <1>2, <1>4 DEF NoRepeats, Range
<1> QED
  BY <1>3, <1>4 DEF r

(* The head of a sequence without repeats is not in its tail.              *)
LEMMA TailRange ==
  ASSUME NEW S, NEW s \in Seq(S), s # <<>>
  PROVE  /\ Range(s) = {Head(s)} \cup Range(Tail(s))
         /\ NoRepeats(s) => NoRepeats(Tail(s)) /\ Head(s) \notin Range(Tail(s))
<1> DEFINE r == Tail(s)
           x == Head(s)
<1>1. Len(s) \in Nat \ {0} /\ DOMAIN s = 1..Len(s) /\ DOMAIN r = 1..(Len(s) - 1)
  BY HeadTailProperties, LenProperties, EmptySeq
<1>2. \A i \in 1..(Len(s) - 1) : r[i] = s[i + 1]
  BY HeadTailProperties
<1>3. x = s[1]
  OBVIOUS
<1> HIDE DEF r, x
<1>4. \A i \in 1..Len(s) : i = 1 \/ \E k \in 1..(Len(s) - 1) : i = k + 1 /\ s[i] = r[k]
  <2> TAKE i \in 1..Len(s)
  <2>1. i = 1 \/ \E k \in 1..(Len(s) - 1) : i = k + 1
    <3>1. i # 1 => i - 1 \in 1..(Len(s) - 1) /\ i = (i - 1) + 1
      BY <1>1
    <3> QED
      BY <3>1
  <2> QED
    BY <1>2, <2>1
<1>5. Range(s) = {x} \cup Range(r)
  <2>1. \A y \in Range(s) : y \in {x} \cup Range(r)
    BY <1>1, <1>2, <1>3, <1>4 DEF Range
  <2>2. \A y \in {x} \cup Range(r) : y \in Range(s)
    BY <1>1, <1>2, <1>3 DEF Range
  <2> QED
    BY <2>1, <2>2
<1>6. ASSUME NoRepeats(s)
      PROVE  NoRepeats(r) /\ x \notin Range(r)
  <2>1. ASSUME NEW i \in 1..(Len(s) - 1), NEW k \in 1..(Len(s) - 1), r[i] = r[k]
        PROVE  i = k
    <3>1. i + 1 \in 1..Len(s) /\ k + 1 \in 1..Len(s)
      BY <1>1
    <3>2. i + 1 = k + 1
      BY <1>1, <1>2, <1>6, <2>1, <3>1 DEF NoRepeats
    <3> QED
      BY <3>2
  <2>2. ASSUME NEW i \in 1..(Len(s) - 1)
        PROVE  r[i] # x
    <3>1. i + 1 \in 1..Len(s) /\ 1 \in 1..Len(s) /\ i + 1 # 1
      BY <1>1
    <3> QED
      BY <1>1, <1>2, <1>3, <1>6, <3>1 DEF NoRepeats
  <2>3. NoRepeats(r)
    BY <1>1, <2>1 DEF NoRepeats
  <2> QED
    BY <1>1, <2>2, <2>3 DEF Range
<1> QED
  BY <1>5, <1>6 DEF r, x

(* The empty list has no members.                                          *)
LEMMA NothingInRange == Range(<<>>) = {} /\ NoRepeats(<<>>)
  BY DEF Range, NoRepeats

(* TypeOK, taken apart: what jobs, handlers, the engine's threads, their   *)
(* registers, their completions and the callers have.                      *)
JobTypes ==
  /\ target \in [Jobs -> Targets]
  /\ worker \in [Jobs -> 0..made] /\ response \in [Jobs -> 0..made]
  /\ alive \in [Jobs -> BOOLEAN] /\ dispatched \in [Jobs -> BOOLEAN]
  /\ callback \in [Jobs -> BOOLEAN]

RoundTypes ==
  /\ begun \in [Jobs -> Nat] /\ done \in [Jobs -> Nat] /\ overrun \subseteq Jobs
  /\ waiting \in [Jobs -> SUBSET Callers] /\ holding \in [Jobs -> SUBSET Callers]

HandlerTypes ==
  /\ made \in 0..MaxHandlers /\ freed \subseteq 1..made /\ ran \subseteq 1..made
  /\ parent \in [Handlers -> Jobs \cup {NoJob}]

ThreadTypes ==
  /\ task \in [Pids -> Targets \cup {Nobody}] /\ queue \in [Pids -> Seq(1..made)]
  /\ hasPrevious \in [Pids -> BOOLEAN] /\ restore \in [Pids -> Stub..made]
  /\ robbed \subseteq Targets /\ process \in {"none", "made", "wrecked"}

SwapTypes ==
  /\ swap \in [Targets -> BOOLEAN] /\ ctx \in [Targets -> Stub..made]
  /\ next \in [Targets -> Stub..made] /\ previous \in [Targets -> Stub..made]

TargetTypes ==
  /\ pc \in [Targets -> {"unborn", "user", "enter", "hit", "begin", "end", "detach", "callback",
                         "reenter", "finish", "return", "gone"}]
  /\ cur \in [Targets -> 0..made]
  /\ engine \in Targets \cup {Free} /\ watcher \in Targets \cup {Free}

CallerTypes ==
  /\ at \in [Callers -> {"out", "scheduling", "waiting", "holding"}]
  /\ on \in [Callers -> Jobs \cup {NoJob}]
  /\ expects \in [Callers -> 0..made]

(* TypeOK is the parts together.                                           *)
LEMMA TypeParts ==
  TypeOK <=> /\ JobTypes /\ RoundTypes /\ HandlerTypes /\ ThreadTypes
             /\ SwapTypes /\ TargetTypes /\ CallerTypes
BY DEF TypeOK, JobTypes, RoundTypes, HandlerTypes, ThreadTypes, SwapTypes, TargetTypes, CallerTypes

(* What IInv says of numbers and names, in the form the steps need.        *)
Basics ==
  /\ made \in Nat /\ 1..made \subseteq Handlers
  /\ JobTypes /\ RoundTypes /\ HandlerTypes /\ ThreadTypes /\ SwapTypes /\ TargetTypes
  /\ CallerTypes
  /\ \A t \in Targets : PidOf[t] \in Pids
  /\ NoJob \notin Jobs /\ Nobody \notin Targets /\ Free \notin Targets
  /\ \A c \in Callers : at[c] # "out" => on[c] \in Jobs
  /\ \A t \in Targets : pc[t] \in Completing => cur[t] \in 1..made /\ cur[t] \in Handlers
  /\ \A t \in Targets : pc[t] \in Triggering => parent[cur[t]] \in Jobs
  /\ \A t \in Targets : Pending(t) \in Seq(1..made)

(* The invariant gives all of Basics.                                      *)
LEMMA TypeFacts ==
  ASSUME IInv
  PROVE  Basics
<1>1. /\ JobTypes /\ RoundTypes /\ HandlerTypes /\ ThreadTypes
      /\ SwapTypes /\ TargetTypes /\ CallerTypes
  BY TypeParts DEF IInv
<1>2. made \in Nat /\ 1..made \subseteq Handlers
  <2>1. MaxHandlers \in Nat
    BY EngineAssumption
  <2> QED
    BY <1>1, <2>1 DEF HandlerTypes, Handlers
<1>3. \A t \in Targets : PidOf[t] \in Pids
  BY DEF Pids
<1>4. NoJob \notin Jobs /\ Nobody \notin Targets /\ Free \notin Targets
  BY EngineAssumption DEF NoJob, Nobody, Free
<1>5. \A c \in Callers : at[c] # "out" => on[c] \in Jobs
  BY DEF IInv, CallerInv, CallersHold
<1>6. \A t \in Targets : pc[t] \in Completing => cur[t] \in 1..made /\ cur[t] \in Handlers
  BY <1>1, <1>2 DEF IInv, PlaceInv, TargetTypes, Null
<1>7. \A t \in Targets : pc[t] \in Triggering => parent[cur[t]] \in Jobs
  BY <1>1, <1>6 DEF IInv, LinkInv, HitLinked, HandlerTypes, Triggering, Completing
<1>8. \A t \in Targets : Pending(t) \in Seq(1..made)
  BY <1>1, <1>3, EmptySeq DEF Pending, ThreadTypes
<1> QED
  BY <1>1, <1>2, <1>3, <1>4, <1>5, <1>6, <1>7, <1>8 DEF Basics

(* What was typed for fewer handlers is typed for more.                    *)
LEMMA Wider ==
  ASSUME NEW m \in Nat, NEW S
  PROVE  /\ [S -> 0..m] \subseteq [S -> 0..(m + 1)]
         /\ [S -> Stub..m] \subseteq [S -> Stub..(m + 1)]
         /\ [S -> Seq(1..m)] \subseteq [S -> Seq(1..(m + 1))]
         /\ 1..m \subseteq 1..(m + 1)
<1>1. 0..m \subseteq 0..(m + 1) /\ Stub..m \subseteq Stub..(m + 1) /\ 1..m \subseteq 1..(m + 1)
  BY DEF Stub
<1>2. Seq(1..m) \subseteq Seq(1..(m + 1))
  BY <1>1, SeqMonotonic
<1> QED
  BY <1>1, <1>2

(* What UpdatePidHandle destroys with the state that another thread has    *)
(* under the id of t.                                                      *)
Dropped(t) == IF task[PidOf[t]] = t THEN {} ELSE Range(queue[PidOf[t]])

(* What a thread would run and what its update drops are its id's queue.   *)
LEMMA PendingFacts ==
  ASSUME IInv, NEW t \in Targets
  PROVE  /\ Pending(t) \in Seq(1..made) /\ NoRepeats(Pending(t))
         /\ Range(Pending(t)) \cup Dropped(t) = Range(queue[PidOf[t]])
         /\ Range(Pending(t)) \cap Dropped(t) = {}
         /\ Range(Pending(t)) \subseteq Range(queue[PidOf[t]])
         /\ Range(queue[PidOf[t]]) \subseteq 1..made
<1>1. PidOf[t] \in Pids /\ queue[PidOf[t]] \in Seq(1..made) /\ NoRepeats(queue[PidOf[t]])
  BY TypeFacts DEF Basics, ThreadTypes, IInv, PlaceInv
<1>2. Range(queue[PidOf[t]]) \subseteq 1..made
  BY <1>1, RangeOfSeq
<1>3. CASE task[PidOf[t]] = t
  BY <1>1, <1>2, <1>3 DEF Pending, Dropped
<1>4. CASE task[PidOf[t]] # t
  BY <1>1, <1>2, <1>4, NothingInRange, EmptySeq DEF Pending, Dropped
<1> QED
  BY <1>3, <1>4

(* What UpdatePidHandle leaves of the jobs and of the thread's state.      *)
Updated(t) ==
  /\ task' = [task EXCEPT ![PidOf[t]] = t]
  /\ worker' = [j \in Jobs |-> IF \E h \in Dropped(t) : parent[h] = j
                                 THEN Null ELSE worker[j]]
  /\ freed' = freed \cup Dropped(t)
  /\ UNCHANGED roundVars
  /\ hasPrevious' = IF task[PidOf[t]] = t
                      THEN hasPrevious ELSE [hasPrevious EXCEPT ![PidOf[t]] = FALSE]
  /\ robbed' = robbed \cup IF task[PidOf[t]] = t
                             THEN {} ELSE Robbed({u \in Targets : PidOf[u] = PidOf[t]})
  /\ Dropped(t) \subseteq 1..made /\ \A h \in Dropped(t) : InQueue(h)
  /\ Range(Pending(t)) \cup Dropped(t) = Range(queue[PidOf[t]])
  /\ Range(Pending(t)) \cap Dropped(t) = {}
  /\ worker' \in [Jobs -> 0..made] /\ freed' \subseteq 1..made /\ robbed' \subseteq Targets
  /\ task' \in [Pids -> Targets \cup {Nobody}] /\ hasPrevious' \in [Pids -> BOOLEAN]

(* UpdatePidHandle does no more than Updated says.                         *)
LEMMA UpdateEffect ==
  ASSUME IInv, NEW t \in Targets, UpdatePidHandle(t)
  PROVE  Updated(t)
<1>0. PidOf[t] \in Pids /\ Dropped(t) \subseteq Range(queue[PidOf[t]])
  BY PendingFacts DEF Pids
<1>9. Dropped(t) \subseteq 1..made /\ \A h \in Dropped(t) : InQueue(h)
  BY <1>0, PendingFacts DEF InQueue
<1> DEFINE p == PidOf[t]
           noWorker == [j \in Jobs |-> IF \E h \in Dropped(t) : parent[h] = j
                                         THEN Null ELSE worker[j]]
           taken == IF task[p] = t THEN {} ELSE Robbed({u \in Targets : PidOf[u] = p})
<1>1. /\ task' = [task EXCEPT ![p] = t]
      /\ hasPrevious' = IF task[p] = t THEN hasPrevious ELSE [hasPrevious EXCEPT ![p] = FALSE]
  BY DEF UpdatePidHandle
<1>2. worker' = noWorker /\ freed' = freed \cup Dropped(t) /\ UNCHANGED roundVars
  BY DEF UpdatePidHandle, Die, Dropped
<1>3. robbed' = robbed \cup taken
  BY DEF UpdatePidHandle
<1>4. noWorker \in [Jobs -> 0..made] /\ freed \cup Dropped(t) \subseteq 1..made
  BY <1>9, TypeFacts DEF Basics, JobTypes, HandlerTypes, Null
<1>5. /\ robbed \cup taken \subseteq Targets
      /\ [task EXCEPT ![p] = t] \in [Pids -> Targets \cup {Nobody}]
      /\ hasPrevious \in [Pids -> BOOLEAN]
      /\ [hasPrevious EXCEPT ![p] = FALSE] \in [Pids -> BOOLEAN]
  BY <1>0, TypeFacts DEF Basics, ThreadTypes, Robbed
<1> QED
  BY <1>1, <1>2, <1>3, <1>4, <1>5, <1>9, PendingFacts DEF Updated

(* A handler that is scheduled is added to what was left of one list.      *)
LEMMA AddEffect ==
  ASSUME IInv, NEW c \in Callers, APC_AddPendingWork(c)
  PROVE  LET t == target[on[c]]
             h == worker[on[c]]
             p == PidOf[t]
         IN /\ on[c] \in Jobs /\ t \in Targets /\ p \in Pids /\ h \in 1..made /\ Updated(t)
            /\ queue' = [queue EXCEPT ![p] = Append(Pending(t), h)]
            /\ queue' \in [Pids -> Seq(1..made)]
            /\ queue'[p] # <<>> /\ NoRepeats(queue'[p])
            /\ Head(queue'[p]) = IF Pending(t) = <<>> THEN h ELSE Head(Pending(t))
            /\ \A q \in Pids : q # p => queue'[q] = queue[q]
            /\ Range(queue'[p]) = Range(Pending(t)) \cup {h}
            /\ Range(Pending(t)) \subseteq Range(queue[p]) /\ h \notin Range(Pending(t))
            /\ IF Pending(t) = <<>> THEN PreemptExecution(t, h) ELSE UNCHANGED <<next, swap>>
<1> DEFINE t == target[on[c]]
           h == worker[on[c]]
           p == PidOf[t]
<1>0. Basics /\ at[c] = "scheduling"
  BY TypeFacts DEF APC_AddPendingWork
<1>1. on[c] \in Jobs /\ t \in Targets /\ p \in Pids
  BY <1>0 DEF Basics, JobTypes
<1>2. h \in 1..made /\ ~InQueue(h)
  BY <1>0, <1>1 DEF Basics, JobTypes, IInv, CallerInv, SchedulersOwn, Null
<1>3. /\ queue' = [queue EXCEPT ![p] = Append(Pending(t), h)]
      /\ IF Pending(t) = <<>> THEN PreemptExecution(t, h) ELSE UNCHANGED <<next, swap>>
  BY DEF APC_AddPendingWork, AppendWork
<1>4. Pending(t) \in Seq(1..made) /\ NoRepeats(Pending(t)) /\ h \notin Range(Pending(t))
  BY <1>1, <1>2, PendingFacts DEF InQueue
<1>5. queue'[p] = Append(Pending(t), h) /\ queue' \in [Pids -> Seq(1..made)]
  BY <1>0, <1>1, <1>2, <1>3, <1>4, AppendProperties DEF Basics, ThreadTypes
<1>6. queue'[p] # <<>> /\ Head(queue'[p]) = IF Pending(t) = <<>> THEN h ELSE Head(Pending(t))
  BY <1>2, <1>4, <1>5, AppendProperties, HeadTailAppend
<1>7. Range(queue'[p]) = Range(Pending(t)) \cup {h} /\ NoRepeats(queue'[p])
  BY <1>4, <1>5, AppendRange
<1>8. Updated(t)
  BY <1>1, UpdateEffect DEF APC_AddPendingWork
<1>9. Range(Pending(t)) \subseteq Range(queue[p])
  BY <1>1, PendingFacts
<1>10. \A q \in Pids : q # p => queue'[q] = queue[q]
  BY <1>0, <1>1, <1>3 DEF Basics, ThreadTypes
<1> QED
  BY <1>1, <1>2, <1>3, <1>4, <1>5, <1>6, <1>7, <1>8, <1>9, <1>10

(* One that is not added leaves all threads, or what was left of that list. *)
FailLeaves == UNCHANGED <<worker, freed, roundVars, task, queue, hasPrevious, restore, robbed>>

FailUpdates(c) ==
  LET t == target[on[c]] IN
  /\ Updated(t) /\ UNCHANGED restore
  /\ queue' = [queue EXCEPT ![PidOf[t]] = Pending(t)]
  /\ queue' \in [Pids -> Seq(1..made)]

(* A failing APC_AddPendingWork has updated the state, or done nothing.    *)
LEMMA FailEffect ==
  ASSUME IInv, NEW c \in Callers, APC_AddPendingWorkFails(c)
  PROVE  /\ on[c] \in Jobs /\ target[on[c]] \in Targets /\ PidOf[target[on[c]]] \in Pids
         /\ FailUpdates(c) \/ FailLeaves
         /\ process' \in {"none", "made", "wrecked"}
<1> DEFINE t == target[on[c]]
<1>1. Basics /\ on[c] \in Jobs /\ t \in Targets /\ PidOf[t] \in Pids
  BY TypeFacts DEF APC_AddPendingWorkFails, Basics, JobTypes
<1>2. Pending(t) \in Seq(1..made)
  BY <1>1, PendingFacts
<1>3. [queue EXCEPT ![PidOf[t]] = Pending(t)] \in [Pids -> Seq(1..made)]
  BY <1>1, <1>2 DEF Basics, ThreadTypes
<1>4. UpdatePidHandle(t) => Updated(t)
  BY <1>1, UpdateEffect
<1> QED
  BY <1>1, <1>3, <1>4 DEF APC_AddPendingWorkFails, FailUpdates, FailLeaves, Basics, ThreadTypes

(* The handler that is popped was the head of its list, and is in none.    *)
LEMMA PopEffect ==
  ASSUME IInv, NEW t \in Targets, NtfyJobFinished(t)
  PROVE  LET p == PidOf[t]
             h == Head(queue[p])
         IN /\ p \in Pids /\ task[p] = t /\ h \in 1..made /\ InQueue(h)
            /\ cur' = [cur EXCEPT ![t] = h]
            /\ queue' = [queue EXCEPT ![p] = Tail(queue[p])]
            /\ queue' \in [Pids -> Seq(1..made)]
            /\ NoRepeats(queue'[p])
            /\ Range(queue[p]) = Range(queue'[p]) \cup {h} /\ h \notin Range(queue'[p])
<1> DEFINE p == PidOf[t]
           h == Head(queue[p])
<1>1. Basics /\ p \in Pids /\ task[p] = t /\ queue[p] # <<>>
  BY TypeFacts DEF NtfyJobFinished, Pending, Basics
<1>2. queue[p] \in Seq(1..made) /\ NoRepeats(queue[p])
  BY <1>1 DEF Basics, ThreadTypes, IInv, PlaceInv
<1>3. h \in 1..made /\ Tail(queue[p]) \in Seq(1..made)
  BY <1>1, <1>2, HeadTailProperties
<1>4. /\ Range(queue[p]) = {h} \cup Range(Tail(queue[p]))
      /\ NoRepeats(Tail(queue[p])) /\ h \notin Range(Tail(queue[p]))
  BY <1>1, <1>2, TailRange
<1>5. cur' = [cur EXCEPT ![t] = h] /\ queue' = [queue EXCEPT ![p] = Tail(queue[p])]
  BY DEF NtfyJobFinished, PopCompletedTask
<1>6. queue'[p] = Tail(queue[p]) /\ queue' \in [Pids -> Seq(1..made)]
  BY <1>1, <1>3, <1>5 DEF Basics, ThreadTypes
<1> QED
  BY <1>1, <1>3, <1>4, <1>5, <1>6 DEF InQueue

(* Everything that is queued anywhere dies with the group leader.          *)
LEMMA DyingFacts ==
  ASSUME IInv
  PROVE  Dying \subseteq 1..made /\ \A h \in 1..made : h \in Dying <=> InQueue(h)
<1>1. \A p \in Pids : Range(queue[p]) \subseteq 1..made
  BY TypeFacts, RangeOfSeq DEF Basics, ThreadTypes
<1> QED
  BY <1>1 DEF Dying, InQueue

(* Steps keep the jobs typed: handlers are numbered before jobs name them. *)
LEMMA JobTypesStep ==
  ASSUME IInv, [Next]_vars
  PROVE  JobTypes'
<1>0. Basics
  BY TypeFacts
<1>1. ASSUME NEW c \in Callers, NEW j \in Jobs, Schedule(c, j)
      PROVE  JobTypes'
  BY <1>0, <1>1, Wider DEF Schedule, NewHandler, Usable, roundVars, threadVars,
       swapVars,
       targetVars, mutexes, JobTypes, Null, Completing, Triggering, Basics
<1>2. ASSUME NEW c \in Callers, NEW j \in Jobs, AwaitExecute(c, j)
      PROVE  JobTypes'
  BY <1>0, <1>2 DEF AwaitExecute, Usable, roundVars, handlerVars, threadVars, swapVars,
       targetVars, callerVars, mutexes, JobTypes, Null, Completing, Triggering, Basics
<1>3. ASSUME NEW c \in Callers, NEW j \in Jobs, Destroy(c, j)
      PROVE  JobTypes'
  BY <1>0, <1>3 DEF Destroy, Usable, roundVars, threadVars, swapVars, targetVars,
       callerVars, mutexes, JobTypes, Null, Completing, Triggering, Basics
<1>4. ASSUME NEW c \in Callers, APC_AddPendingWork(c)
      PROVE  JobTypes'
  BY <1>0, <1>4, AddEffect
     DEF APC_AddPendingWork, Updated, mutexes, targetVars, JobTypes, Basics, Null
<1>5. ASSUME NEW c \in Callers, APC_AddPendingWorkFails(c)
      PROVE  JobTypes'
  <2>1. CASE FailLeaves
    BY <1>0, <1>5, <2>1
       DEF APC_AddPendingWorkFails, FailLeaves, roundVars, threadVars, swapVars, targetVars,
            mutexes, JobTypes, Null, Basics
  <2>2. CASE FailUpdates(c)
    BY <1>0, <1>5, <2>2
       DEF APC_AddPendingWorkFails, Updated, FailUpdates, targetVars, mutexes, JobTypes,
            Null, Basics
  <2> QED
    BY <1>5, <2>1, <2>2, FailEffect
<1>6. ASSUME NEW t \in Targets, Hit(t)
      PROVE  JobTypes'
  <2>1. cur[t] \in 0..made /\ made' = made
    BY <1>0, <1>6 DEF Hit, Basics, Completing
  <2>2. UNCHANGED response \/ \E j \in Jobs : response' = [response EXCEPT ![j] = cur[t]]
    BY <1>0, <1>6 DEF Hit, Basics, Completing, HandlerTypes
  <2> QED
    BY <1>0, <1>6, <2>1, <2>2 DEF Hit, JobTypes, Basics
<1>7. ASSUME NEW t \in Targets, HitDetaches(t)
      PROVE  JobTypes'
  BY <1>0, <1>7 DEF HitDetaches, roundVars, threadVars, swapVars, callerVars, JobTypes,
       Null, Completing, Triggering, Basics
<1>8. ASSUME NEW t \in Targets, NEW j \in Jobs, CallbackSchedules(t, j)
      PROVE  JobTypes'
  BY <1>0, <1>8, Wider DEF CallbackSchedules, NewHandler, Usable, roundVars, threadVars,
       swapVars, callerVars, mutexes, JobTypes, Null, Completing, Triggering, Basics
<1>9. ASSUME APC_OnThreadExit
      PROVE  JobTypes'
  BY <1>0, <1>9, DyingFacts
     DEF APC_OnThreadExit, Die, FreeDEProcess, roundVars, swapVars, callerVars, mutexes,
          JobTypes, Basics, Null
<1>10. ASSUME NEW c \in Callers, NEW j \in Jobs, WaitExecute(c, j)
      PROVE  JobTypes'
  BY <1>0, <1>10 DEF WaitExecute, Usable, jobVars, handlerVars, threadVars, swapVars,
       targetVars, mutexes, JobTypes, Null, Completing, Triggering, Basics
<1>11. ASSUME NEW c \in Callers, WaitReturns(c) \/ WaitTimesOut(c) \/ ReleaseOwner(c)
      PROVE  JobTypes'
  BY <1>0, <1>11 DEF WaitReturns, jobVars, roundVars, handlerVars, threadVars, swapVars,
       targetVars, mutexes, WaitTimesOut, ReleaseOwner, JobTypes, Null, Completing,
       Triggering, Basics
<1>12. ASSUME NEW t \in Targets,
             SwapUser(t) \/ ReturnToUser(t) \/ JobReturns(t) \/ NtfyFindsNoThread(t) \/
             NtfyJobFinished(t) \/ TriggerBegins(t) \/ TriggerCannotSleep(t) \/ TriggerEnds(t) \/
             CallbackReturns(t) \/ NtfyGoesOn(t) \/ ThreadExits(t) \/ ThreadStarts(t)
      PROVE  JobTypes'
  BY <1>0, <1>12 DEF SwapUser, jobVars, roundVars, handlerVars, threadVars, callerVars,
       mutexes, ReturnToUser, swapVars, JobReturns, NtfyFindsNoThread, NtfyJobFinished,
       PopCompletedTask, Pending, TriggerBegins, TriggerCannotSleep, TriggerEnds, CallbackReturns, NtfyGoesOn,
       PreemptExecution, SaveState, ThreadExits, ThreadStarts, JobTypes, Null, Completing,
       Triggering, Basics
<1>13. CASE UNCHANGED vars
  BY <1>0, <1>13 DEF vars, jobVars, roundVars, handlerVars, threadVars, swapVars,
       targetVars, callerVars, mutexes, JobTypes, Null, Completing, Triggering, Basics
<1> QED
  BY <1>1, <1>2, <1>3, <1>4, <1>5, <1>6, <1>7, <1>8, <1>9, <1>10, <1>11, <1>12, <1>13
       DEF
       Next, Completion

(* Steps keep the rounds typed: a job's task begins and ends at most once. *)
LEMMA RoundTypesStep ==
  ASSUME IInv, [Next]_vars
  PROVE  RoundTypes'
<1>0. Basics
  BY TypeFacts
<1>1. ASSUME NEW c \in Callers, NEW j \in Jobs, WaitExecute(c, j)
      PROVE  RoundTypes'
  <2>1. /\ waiting' \in {waiting, [waiting EXCEPT ![j] = @ \cup {c}]}
        /\ holding' \in {holding, [holding EXCEPT ![j] = @ \cup {c}]}
        /\ UNCHANGED <<begun, done, overrun>>
    BY <1>1 DEF WaitExecute
  <2>2. /\ waiting \in [Jobs -> SUBSET Callers] /\ waiting[j] \cup {c} \in SUBSET Callers
        /\ holding \in [Jobs -> SUBSET Callers] /\ holding[j] \cup {c} \in SUBSET Callers
    BY <1>0 DEF RoundTypes, Basics
  <2>3. waiting' \in [Jobs -> SUBSET Callers] /\ holding' \in [Jobs -> SUBSET Callers]
    BY <2>1, <2>2
  <2> QED
    BY <1>0, <2>1, <2>3 DEF RoundTypes, Basics
<1>2. ASSUME NEW c \in Callers, WaitTimesOut(c)
      PROVE  RoundTypes'
  BY <1>0, <1>2 DEF WaitTimesOut, RoundTypes, Basics
<1>3. ASSUME NEW c \in Callers, ReleaseOwner(c)
      PROVE  RoundTypes'
  <2>1. /\ holding' = [holding EXCEPT ![on[c]] = @ \ {c}]
        /\ begun' \in {begun, [begun EXCEPT ![on[c]] = 0]}
        /\ done' \in {done, [done EXCEPT ![on[c]] = 0]}
        /\ UNCHANGED <<waiting, overrun>>
    BY <1>3 DEF ReleaseOwner
  <2>2. begun \in [Jobs -> Nat] /\ done \in [Jobs -> Nat] /\ 0 \in Nat
    BY <1>0 DEF RoundTypes, Basics
  <2>3. begun' \in [Jobs -> Nat] /\ done' \in [Jobs -> Nat]
    BY <2>1, <2>2
  <2>4. holding' \in [Jobs -> SUBSET Callers]
    BY <1>0, <2>1 DEF RoundTypes, Basics
  <2> QED
    BY <1>0, <2>1, <2>3, <2>4 DEF RoundTypes, Basics
<1>4. ASSUME NEW t \in Targets, TriggerBegins(t) \/ TriggerCannotSleep(t)
      PROVE  RoundTypes'
  <2>1. parent[cur[t]] \in Jobs
    BY <1>0, <1>4 DEF TriggerBegins, TriggerCannotSleep, Triggering, Basics
  <2>2. /\ begun' = [begun EXCEPT ![parent[cur[t]]] = begun[parent[cur[t]]] + 1]
        /\ overrun' \in {overrun, overrun \cup {parent[cur[t]]}}
        /\ UNCHANGED <<done, waiting, holding>>
    BY <1>4 DEF TriggerBegins, TriggerCannotSleep
  <2>3. begun[parent[cur[t]]] + 1 \in Nat
    BY <1>0, <2>1 DEF RoundTypes, Basics
  <2>4. begun' \in [Jobs -> Nat]
    BY <1>0, <2>2, <2>3 DEF RoundTypes, Basics
  <2> QED
    BY <1>0, <2>1, <2>2, <2>4 DEF RoundTypes, Basics
<1>5. ASSUME NEW t \in Targets, TriggerEnds(t)
      PROVE  RoundTypes'
  <2> DEFINE j == parent[cur[t]]
  <2>1. j \in Jobs
    BY <1>0, <1>5 DEF TriggerEnds, Triggering, Basics
  <2>2. /\ done' = [done EXCEPT ![j] = done[j] + 1]
        /\ holding' \in {holding, [holding EXCEPT ![j] = @ \cup waiting[j]]}
        /\ waiting' \in {waiting, [waiting EXCEPT ![j] = {}]}
        /\ UNCHANGED <<begun, overrun>>
    BY <1>5 DEF TriggerEnds
  <2>3. done[j] + 1 \in Nat /\ waiting[j] \subseteq Callers
    BY <1>0, <2>1 DEF RoundTypes, Basics
  <2>4. done' \in [Jobs -> Nat]
    BY <1>0, <2>2, <2>3 DEF RoundTypes, Basics
  <2>5. waiting' \in [Jobs -> SUBSET Callers] /\ holding' \in [Jobs -> SUBSET Callers]
    BY <1>0, <2>1, <2>2, <2>3 DEF RoundTypes, Basics
  <2> QED
    BY <1>0, <2>2, <2>4, <2>5 DEF RoundTypes, Basics
<1>6. ASSUME NEW c \in Callers, NEW j \in Jobs,
             Schedule(c, j) \/ AwaitExecute(c, j) \/ Destroy(c, j)
      PROVE  RoundTypes'
  BY <1>0, <1>6 DEF Schedule, NewHandler, Usable, roundVars, threadVars, swapVars,
       targetVars, mutexes, AwaitExecute, handlerVars, callerVars, Destroy, RoundTypes,
       Triggering, Basics
<1>7. ASSUME NEW c \in Callers,
             APC_AddPendingWork(c) \/ APC_AddPendingWorkFails(c) \/ WaitReturns(c)
      PROVE  RoundTypes'
  BY <1>0, <1>7 DEF APC_AddPendingWork, UpdatePidHandle, Die, AppendWork, Pending,
       PreemptExecution, roundVars, targetVars, mutexes, APC_AddPendingWorkFails,
       threadVars, swapVars, WaitReturns, jobVars, handlerVars, RoundTypes, Triggering,
       Basics
<1>8. ASSUME NEW t \in Targets,
             SwapUser(t) \/ ReturnToUser(t) \/ JobReturns(t) \/ NtfyFindsNoThread(t) \/
             NtfyJobFinished(t) \/ Hit(t) \/ HitDetaches(t) \/ CallbackReturns(t) \/
             NtfyGoesOn(t) \/ ThreadExits(t) \/ ThreadStarts(t)
      PROVE  RoundTypes'
  BY <1>0, <1>8 DEF SwapUser, jobVars, roundVars, handlerVars, threadVars, callerVars,
       mutexes, ReturnToUser, swapVars, JobReturns, NtfyFindsNoThread, NtfyJobFinished,
       PopCompletedTask, Pending, Hit, HitDetaches, CallbackReturns, NtfyGoesOn,
       PreemptExecution, SaveState, ThreadExits, ThreadStarts, RoundTypes, Triggering,
       Basics
<1>9. ASSUME NEW t \in Targets, NEW j \in Jobs, CallbackSchedules(t, j)
      PROVE  RoundTypes'
  BY <1>0, <1>9 DEF CallbackSchedules, NewHandler, Usable, roundVars, threadVars,
       swapVars, callerVars, mutexes, RoundTypes, Triggering, Basics
<1>10. ASSUME APC_OnThreadExit
      PROVE  RoundTypes'
  BY <1>0, <1>10 DEF APC_OnThreadExit, Die, Dying, FreeDEProcess, roundVars, swapVars,
       callerVars, mutexes, RoundTypes, Triggering, Basics
<1>11. CASE UNCHANGED vars
  BY <1>0, <1>11 DEF vars, jobVars, roundVars, handlerVars, threadVars, swapVars,
       targetVars, callerVars, mutexes, RoundTypes, Triggering, Basics
<1> QED
  BY <1>1, <1>2, <1>3, <1>4, <1>5, <1>6, <1>7, <1>8, <1>9, <1>10, <1>11 DEF Next,
       Completion

(* Steps keep the handlers typed: only what was made is freed or runs.     *)
LEMMA HandlerTypesStep ==
  ASSUME IInv, [Next]_vars
  PROVE  HandlerTypes'
<1>0. Basics
  BY TypeFacts
<1>1. ASSUME NEW c \in Callers, NEW j \in Jobs, Schedule(c, j)
      PROVE  HandlerTypes'
  <2>1. made < MaxHandlers /\ made' = made + 1 /\ MaxHandlers \in Nat
    BY <1>1, EngineAssumption DEF Schedule, NewHandler
  <2>2. made' \in 0..MaxHandlers /\ made' \in Handlers
    BY <1>0, <2>1 DEF Basics, Handlers
  <2>3. 1..made \subseteq 1..made'
    BY <1>0, <2>1 DEF Basics
  <2> QED
    BY <1>0, <1>1, <2>2, <2>3
       DEF Schedule, NewHandler, Basics, HandlerTypes
<1>2. ASSUME NEW c \in Callers, NEW j \in Jobs, Destroy(c, j)
      PROVE  HandlerTypes'
  BY <1>0, <1>2 DEF Destroy, Usable, roundVars, threadVars, swapVars, targetVars,
       callerVars, mutexes, HandlerTypes, Handlers, Completing, Basics
<1>3. ASSUME NEW c \in Callers, APC_AddPendingWork(c)
      PROVE  HandlerTypes'
  BY <1>0, <1>3, AddEffect
     DEF APC_AddPendingWork, Updated, mutexes, targetVars, HandlerTypes, Basics
<1>4. ASSUME NEW c \in Callers, APC_AddPendingWorkFails(c)
      PROVE  HandlerTypes'
  <2>1. CASE FailLeaves
    BY <1>0, <1>4, <2>1
       DEF APC_AddPendingWorkFails, FailLeaves, roundVars, threadVars, swapVars, targetVars,
            mutexes, HandlerTypes, Basics
  <2>2. CASE FailUpdates(c)
    BY <1>0, <1>4, <2>2
       DEF APC_AddPendingWorkFails, Updated, FailUpdates, targetVars, mutexes,
            HandlerTypes, Basics
  <2> QED
    BY <1>4, <2>1, <2>2, FailEffect
<1>5. ASSUME NEW t \in Targets, Hit(t)
      PROVE  HandlerTypes'
  BY <1>0, <1>5 DEF Hit, roundVars, threadVars, swapVars, callerVars, HandlerTypes,
       Handlers, Completing, Basics
<1>6. ASSUME NEW t \in Targets, HitDetaches(t)
      PROVE  HandlerTypes'
  BY <1>0, <1>6 DEF HitDetaches, roundVars, threadVars, swapVars, callerVars,
       HandlerTypes, Handlers, Completing, Basics
<1>7. ASSUME NEW t \in Targets, CallbackReturns(t)
      PROVE  HandlerTypes'
  BY <1>0, <1>7 DEF CallbackReturns, jobVars, roundVars, threadVars, swapVars,
       callerVars,
       mutexes, HandlerTypes, Handlers, Completing, Basics
<1>8. ASSUME NEW t \in Targets, NEW j \in Jobs, CallbackSchedules(t, j)
      PROVE  HandlerTypes'
  <2>1. made < MaxHandlers /\ made' = made + 1 /\ MaxHandlers \in Nat
    BY <1>8, EngineAssumption DEF CallbackSchedules, NewHandler
  <2>2. made' \in 0..MaxHandlers /\ made' \in Handlers
    BY <1>0, <2>1 DEF Basics, Handlers
  <2>3. 1..made \subseteq 1..made'
    BY <1>0, <2>1 DEF Basics
  <2> QED
    BY <1>0, <1>8, <2>2, <2>3
       DEF CallbackSchedules, NewHandler, Basics, HandlerTypes
<1>9. ASSUME APC_OnThreadExit
      PROVE  HandlerTypes'
  BY <1>0, <1>9, DyingFacts
     DEF APC_OnThreadExit, Die, FreeDEProcess, roundVars, swapVars, callerVars, mutexes,
          HandlerTypes, Basics
<1>10. ASSUME NEW c \in Callers, NEW j \in Jobs, AwaitExecute(c, j) \/ WaitExecute(c, j)
      PROVE  HandlerTypes'
  BY <1>0, <1>10 DEF AwaitExecute, Usable, roundVars, handlerVars, threadVars, swapVars,
       targetVars, callerVars, mutexes, WaitExecute, jobVars, HandlerTypes, Handlers,
       Completing, Basics
<1>11. ASSUME NEW c \in Callers, WaitReturns(c) \/ WaitTimesOut(c) \/ ReleaseOwner(c)
      PROVE  HandlerTypes'
  BY <1>0, <1>11 DEF WaitReturns, jobVars, roundVars, handlerVars, threadVars, swapVars,
       targetVars, mutexes, WaitTimesOut, ReleaseOwner, HandlerTypes, Handlers,
       Completing, Basics
<1>12. ASSUME NEW t \in Targets,
             SwapUser(t) \/ ReturnToUser(t) \/ NtfyFindsNoThread(t) \/
             NtfyJobFinished(t) \/ TriggerBegins(t) \/ TriggerCannotSleep(t) \/ TriggerEnds(t) \/ NtfyGoesOn(t) \/
             ThreadExits(t) \/ ThreadStarts(t)
      PROVE  HandlerTypes'
  BY <1>0, <1>12 DEF SwapUser, jobVars, roundVars, handlerVars, threadVars, callerVars,
       mutexes, ReturnToUser, swapVars, NtfyFindsNoThread, NtfyJobFinished,
       PopCompletedTask, Pending, TriggerBegins, TriggerCannotSleep, TriggerEnds, NtfyGoesOn,
       PreemptExecution, SaveState, ThreadExits, ThreadStarts, HandlerTypes, Handlers,
       Completing, Basics
<1>13. CASE UNCHANGED vars
  BY <1>0, <1>13 DEF vars, jobVars, roundVars, handlerVars, threadVars, swapVars,
       targetVars, callerVars, mutexes, HandlerTypes, Handlers, Completing, Basics
<1>14. ASSUME NEW t \in Targets, JobReturns(t)
      PROVE  HandlerTypes'
  <2>1. ctx[t] \in 1..made
    BY <1>0, <1>14 DEF JobReturns, Basics, SwapTypes, Stub
  <2> QED
    BY <1>0, <1>14, <2>1 DEF JobReturns, HandlerTypes, Basics
<1> QED
  BY <1>1, <1>2, <1>3, <1>4, <1>5, <1>6, <1>7, <1>8, <1>9, <1>10, <1>11, <1>12, <1>13,
       <1>14 DEF Next, Completion

(* Steps keep the engine's threads typed: lists hold handlers only.        *)
LEMMA ThreadTypesStep ==
  ASSUME IInv, [Next]_vars
  PROVE  ThreadTypes'
<1>0. Basics
  BY TypeFacts
<1>1. ASSUME NEW c \in Callers, NEW j \in Jobs, Schedule(c, j)
      PROVE  ThreadTypes'
  BY <1>0, <1>1, Wider DEF Schedule, NewHandler, Usable, roundVars, threadVars,
       swapVars,
       targetVars, mutexes, ThreadTypes, SwapTypes, Basics
<1>2. ASSUME NEW c \in Callers, APC_AddPendingWork(c)
      PROVE  ThreadTypes'
  BY <1>0, <1>2, AddEffect
     DEF APC_AddPendingWork, Updated, mutexes, targetVars, ThreadTypes, Basics
<1>3. ASSUME NEW c \in Callers, APC_AddPendingWorkFails(c)
      PROVE  ThreadTypes'
  <2>1. CASE FailLeaves
    BY <1>0, <1>3, <2>1
       DEF APC_AddPendingWorkFails, FailLeaves, roundVars, threadVars, swapVars, targetVars,
            mutexes, ThreadTypes, Basics
  <2>2. CASE FailUpdates(c)
    BY <1>0, <1>3, <2>2
       DEF APC_AddPendingWorkFails, Updated, FailUpdates, targetVars, mutexes,
            ThreadTypes, Basics
  <2> QED
    BY <1>3, <2>1, <2>2, FailEffect
<1>4. ASSUME NEW t \in Targets, NtfyJobFinished(t)
      PROVE  ThreadTypes'
  BY <1>0, <1>4, PopEffect DEF NtfyJobFinished, handlerVars, ThreadTypes, Basics
<1>5. ASSUME NEW t \in Targets, NtfyGoesOn(t)
      PROVE  ThreadTypes'
  BY <1>0, <1>5 DEF NtfyGoesOn, PreemptExecution, SaveState, jobVars, roundVars,
       handlerVars, callerVars, ThreadTypes, SwapTypes, Basics
<1>6. ASSUME NEW t \in Targets, NEW j \in Jobs, CallbackSchedules(t, j)
      PROVE  ThreadTypes'
  BY <1>0, <1>6, Wider DEF CallbackSchedules, NewHandler, Usable, roundVars, threadVars,
       swapVars, callerVars, mutexes, ThreadTypes, SwapTypes, Basics
<1>7. ASSUME APC_OnThreadExit
      PROVE  ThreadTypes'
  BY <1>0, <1>7, DyingFacts
     DEF APC_OnThreadExit, Die, FreeDEProcess, Robbed, ThreadTypes, Basics
<1>8. ASSUME NEW c \in Callers, NEW j \in Jobs,
             AwaitExecute(c, j) \/ WaitExecute(c, j) \/ Destroy(c, j)
      PROVE  ThreadTypes'
  BY <1>0, <1>8 DEF AwaitExecute, Usable, roundVars, handlerVars, threadVars, swapVars,
       targetVars, callerVars, mutexes, WaitExecute, jobVars, Destroy, ThreadTypes,
       SwapTypes, Basics
<1>9. ASSUME NEW c \in Callers, WaitReturns(c) \/ WaitTimesOut(c) \/ ReleaseOwner(c)
      PROVE  ThreadTypes'
  BY <1>0, <1>9 DEF WaitReturns, jobVars, roundVars, handlerVars, threadVars, swapVars,
       targetVars, mutexes, WaitTimesOut, ReleaseOwner, ThreadTypes, SwapTypes, Basics
<1>10. ASSUME NEW t \in Targets,
             SwapUser(t) \/ ReturnToUser(t) \/ JobReturns(t) \/ NtfyFindsNoThread(t) \/
             Hit(t) \/ TriggerBegins(t) \/ TriggerCannotSleep(t) \/ TriggerEnds(t) \/ HitDetaches(t) \/
             CallbackReturns(t) \/ ThreadExits(t) \/ ThreadStarts(t)
      PROVE  ThreadTypes'
  BY <1>0, <1>10 DEF SwapUser, jobVars, roundVars, handlerVars, threadVars, callerVars,
       mutexes, ReturnToUser, swapVars, JobReturns, NtfyFindsNoThread, Hit, TriggerBegins, TriggerCannotSleep,
       TriggerEnds, HitDetaches, CallbackReturns, ThreadExits, ThreadStarts, ThreadTypes,
       SwapTypes, Basics
<1>11. CASE UNCHANGED vars
  BY <1>0, <1>11 DEF vars, jobVars, roundVars, handlerVars, threadVars, swapVars,
       targetVars, callerVars, mutexes, ThreadTypes, SwapTypes, Basics
<1> QED
  BY <1>1, <1>2, <1>3, <1>4, <1>5, <1>6, <1>7, <1>8, <1>9, <1>10, <1>11 DEF Next,
       Completion

(* Steps keep the registers typed: a context is a job or the thread's own. *)
LEMMA SwapTypesStep ==
  ASSUME IInv, [Next]_vars
  PROVE  SwapTypes'
<1>0. Basics
  BY TypeFacts
<1>1. ASSUME NEW c \in Callers, NEW j \in Jobs, Schedule(c, j)
      PROVE  SwapTypes'
  BY <1>0, <1>1, Wider DEF Schedule, NewHandler, Usable, roundVars, threadVars,
       swapVars,
       targetVars, mutexes, SwapTypes, Stub, Basics
<1>2. ASSUME NEW c \in Callers, APC_AddPendingWork(c)
      PROVE  SwapTypes'
  <2>1. worker[on[c]] \in Stub..made
    BY <1>0, <1>2, AddEffect DEF Basics, Stub
  <2>2. target[on[c]] \in Targets /\ made' = made /\ UNCHANGED <<ctx, previous>>
    BY <1>0, <1>2, AddEffect DEF APC_AddPendingWork
  <2>3. \/ PreemptExecution(target[on[c]], worker[on[c]])
        \/ UNCHANGED <<next, swap>>
    BY <1>2, AddEffect
  <2> QED
    BY <1>0, <2>1, <2>2, <2>3 DEF PreemptExecution, SwapTypes, Basics
<1>3. ASSUME NEW t \in Targets, SwapUser(t)
      PROVE  SwapTypes'
  BY <1>0, <1>3 DEF SwapUser, jobVars, roundVars, handlerVars, threadVars, callerVars,
       mutexes, SwapTypes, Stub, Basics
<1>4. ASSUME NEW t \in Targets, JobReturns(t)
      PROVE  SwapTypes'
  BY <1>0, <1>4 DEF JobReturns, jobVars, roundVars, handlerVars, threadVars, callerVars,
       mutexes, SwapTypes, Stub, Basics
<1>5. ASSUME NEW t \in Targets, NtfyGoesOn(t)
      PROVE  SwapTypes'
  <2>1. PICK n \in Stub..made : PreemptExecution(t, n)
    <3>1. CASE queue[PidOf[t]] # <<>>
      <4>1. Head(queue[PidOf[t]]) \in 1..made
        BY <1>0, <3>1, HeadTailProperties DEF Basics, ThreadTypes
      <4> QED
        BY <1>0, <1>5, <3>1, <4>1 DEF NtfyGoesOn, Basics, Stub
    <3>2. CASE queue[PidOf[t]] = <<>>
      BY <1>0, <1>5, <3>2 DEF NtfyGoesOn, Basics, ThreadTypes, SwapTypes
    <3> QED
      BY <3>1, <3>2
  <2> QED
    BY <1>0, <1>5, <2>1 DEF NtfyGoesOn, PreemptExecution, handlerVars, SwapTypes, Basics
<1>6. ASSUME NEW t \in Targets, NEW j \in Jobs, CallbackSchedules(t, j)
      PROVE  SwapTypes'
  BY <1>0, <1>6, Wider DEF CallbackSchedules, NewHandler, Usable, roundVars, threadVars,
       swapVars, callerVars, mutexes, SwapTypes, Stub, Basics
<1>7. ASSUME NEW c \in Callers, NEW j \in Jobs,
             AwaitExecute(c, j) \/ WaitExecute(c, j) \/ Destroy(c, j)
      PROVE  SwapTypes'
  BY <1>0, <1>7 DEF AwaitExecute, Usable, roundVars, handlerVars, threadVars, swapVars,
       targetVars, callerVars, mutexes, WaitExecute, jobVars, Destroy, SwapTypes, Stub,
       Basics
<1>8. ASSUME NEW c \in Callers,
             APC_AddPendingWorkFails(c) \/ WaitReturns(c) \/ WaitTimesOut(c) \/
             ReleaseOwner(c)
      PROVE  SwapTypes'
  BY <1>0, <1>8 DEF APC_AddPendingWorkFails, UpdatePidHandle, Die, Pending, roundVars,
       threadVars, swapVars, targetVars, mutexes, WaitReturns, jobVars, handlerVars,
       WaitTimesOut, ReleaseOwner, SwapTypes, Stub, Basics
<1>9. ASSUME NEW t \in Targets,
             ReturnToUser(t) \/ NtfyFindsNoThread(t) \/ NtfyJobFinished(t) \/ Hit(t) \/
             TriggerBegins(t) \/ TriggerCannotSleep(t) \/ TriggerEnds(t) \/ HitDetaches(t) \/
             CallbackReturns(t) \/ ThreadExits(t) \/ ThreadStarts(t)
      PROVE  SwapTypes'
  BY <1>0, <1>9 DEF ReturnToUser, jobVars, roundVars, handlerVars, threadVars, swapVars,
       callerVars, mutexes, NtfyFindsNoThread, NtfyJobFinished, PopCompletedTask, Pending,
       Hit, TriggerBegins, TriggerCannotSleep, TriggerEnds, HitDetaches, CallbackReturns, ThreadExits,
       ThreadStarts, SwapTypes, Stub, Basics
<1>10. ASSUME APC_OnThreadExit
      PROVE  SwapTypes'
  BY <1>0, <1>10 DEF APC_OnThreadExit, Die, Dying, FreeDEProcess, roundVars, swapVars,
       callerVars, mutexes, SwapTypes, Stub, Basics
<1>11. CASE UNCHANGED vars
  BY <1>0, <1>11 DEF vars, jobVars, roundVars, handlerVars, threadVars, swapVars,
       targetVars, callerVars, mutexes, SwapTypes, Stub, Basics
<1> QED
  BY <1>1, <1>2, <1>3, <1>4, <1>5, <1>6, <1>7, <1>8, <1>9, <1>10, <1>11 DEF Next,
       Completion

(* Steps keep the completions and the mutexes typed.                       *)
LEMMA TargetTypesStep ==
  ASSUME IInv, [Next]_vars
  PROVE  TargetTypes'
<1>0. Basics
  BY TypeFacts
<1>1. ASSUME NEW c \in Callers, NEW j \in Jobs, Schedule(c, j)
      PROVE  TargetTypes'
  BY <1>0, <1>1, Wider DEF Schedule, NewHandler, Usable, roundVars, threadVars,
       swapVars,
       targetVars, mutexes, TargetTypes, Free, Null, Basics
<1>2. ASSUME NEW t \in Targets, SwapUser(t)
      PROVE  TargetTypes'
  BY <1>0, <1>2 DEF SwapUser, jobVars, roundVars, handlerVars, threadVars, callerVars,
       mutexes, TargetTypes, Free, Null, Basics
<1>3. ASSUME NEW t \in Targets, ReturnToUser(t)
      PROVE  TargetTypes'
  BY <1>0, <1>3 DEF ReturnToUser, jobVars, roundVars, handlerVars, threadVars, swapVars,
       callerVars, mutexes, TargetTypes, Free, Null, Basics
<1>4. ASSUME NEW t \in Targets, JobReturns(t)
      PROVE  TargetTypes'
  BY <1>0, <1>4 DEF JobReturns, jobVars, roundVars, handlerVars, threadVars, callerVars,
       mutexes, TargetTypes, Free, Null, Basics
<1>5. ASSUME NEW t \in Targets, NtfyFindsNoThread(t)
      PROVE  TargetTypes'
  BY <1>0, <1>5 DEF NtfyFindsNoThread, jobVars, roundVars, handlerVars, threadVars,
       swapVars, callerVars, mutexes, TargetTypes, Free, Null, Basics
<1>6. ASSUME NEW t \in Targets, NtfyJobFinished(t)
      PROVE  TargetTypes'
  <2>1. cur' \in [Targets -> 0..made]
    <3>1. PICK h \in 1..made : cur' = [cur EXCEPT ![t] = h]
      BY <1>6, PopEffect
    <3> QED
      BY <1>0, <3>1 DEF Basics, TargetTypes
  <2> QED
    BY <1>0, <1>6, <2>1 DEF NtfyJobFinished, handlerVars, TargetTypes, Basics
<1>7. ASSUME NEW t \in Targets, Hit(t)
      PROVE  TargetTypes'
  BY <1>0, <1>7 DEF Hit, roundVars, threadVars, swapVars, callerVars, TargetTypes, Free,
       Null, Basics
<1>8. ASSUME NEW t \in Targets, TriggerBegins(t) \/ TriggerCannotSleep(t)
      PROVE  TargetTypes'
  BY <1>0, <1>8 DEF TriggerBegins, TriggerCannotSleep, jobVars, handlerVars, threadVars, swapVars,
       callerVars,
       mutexes, TargetTypes, Free, Null, Basics
<1>9. ASSUME NEW t \in Targets, TriggerEnds(t)
      PROVE  TargetTypes'
  BY <1>0, <1>9 DEF TriggerEnds, jobVars, handlerVars, threadVars, swapVars, callerVars,
       mutexes, TargetTypes, Free, Null, Basics
<1>10. ASSUME NEW t \in Targets, HitDetaches(t)
      PROVE  TargetTypes'
  BY <1>0, <1>10 DEF HitDetaches, roundVars, threadVars, swapVars, callerVars,
       TargetTypes, Free, Null, Basics
<1>11. ASSUME NEW t \in Targets, CallbackReturns(t)
      PROVE  TargetTypes'
  BY <1>0, <1>11 DEF CallbackReturns, jobVars, roundVars, threadVars, swapVars,
       callerVars, mutexes, TargetTypes, Free, Null, Basics
<1>12. ASSUME NEW t \in Targets, NtfyGoesOn(t)
      PROVE  TargetTypes'
  BY <1>0, <1>12 DEF NtfyGoesOn, PreemptExecution, SaveState, jobVars, roundVars,
       handlerVars, callerVars, TargetTypes, Free, Null, Basics
<1>13. ASSUME NEW t \in Targets, NEW j \in Jobs, CallbackSchedules(t, j)
      PROVE  TargetTypes'
  BY <1>0, <1>13, Wider DEF CallbackSchedules, NewHandler, Usable, roundVars,
       threadVars,
       swapVars, callerVars, mutexes, TargetTypes, Free, Null, Basics
<1>14. ASSUME NEW t \in Targets, ThreadExits(t)
      PROVE  TargetTypes'
  BY <1>0, <1>14 DEF ThreadExits, jobVars, roundVars, handlerVars, threadVars, swapVars,
       callerVars, mutexes, TargetTypes, Free, Null, Basics
<1>15. ASSUME NEW t \in Targets, ThreadStarts(t)
      PROVE  TargetTypes'
  BY <1>0, <1>15 DEF ThreadStarts, jobVars, roundVars, handlerVars, threadVars,
       swapVars,
       callerVars, mutexes, TargetTypes, Free, Null, Basics
<1>16. ASSUME APC_OnThreadExit
      PROVE  TargetTypes'
  BY <1>0, <1>16 DEF APC_OnThreadExit, Die, Dying, FreeDEProcess, roundVars, swapVars,
       callerVars, mutexes, TargetTypes, Free, Null, Basics
<1>17. ASSUME NEW c \in Callers, NEW j \in Jobs,
             AwaitExecute(c, j) \/ WaitExecute(c, j) \/ Destroy(c, j)
      PROVE  TargetTypes'
  BY <1>0, <1>17 DEF AwaitExecute, Usable, roundVars, handlerVars, threadVars, swapVars,
       targetVars, callerVars, mutexes, WaitExecute, jobVars, Destroy, TargetTypes, Free,
       Null, Basics
<1>18. ASSUME NEW c \in Callers,
             APC_AddPendingWork(c) \/ APC_AddPendingWorkFails(c) \/ WaitReturns(c) \/
             WaitTimesOut(c) \/ ReleaseOwner(c)
      PROVE  TargetTypes'
  BY <1>0, <1>18 DEF APC_AddPendingWork, UpdatePidHandle, Die, AppendWork, Pending,
       PreemptExecution, roundVars, targetVars, mutexes, APC_AddPendingWorkFails,
       threadVars, swapVars, WaitReturns, jobVars, handlerVars, WaitTimesOut,
       ReleaseOwner, TargetTypes, Free, Null, Basics
<1>19. CASE UNCHANGED vars
  BY <1>0, <1>19 DEF vars, jobVars, roundVars, handlerVars, threadVars, swapVars,
       targetVars, callerVars, mutexes, TargetTypes, Free, Null, Basics
<1> QED
  BY <1>1, <1>2, <1>3, <1>4, <1>5, <1>6, <1>7, <1>8, <1>9, <1>10, <1>11, <1>12, <1>13,
       <1>14, <1>15, <1>16, <1>17, <1>18, <1>19 DEF Next, Completion

(* Steps keep the callers typed.                                           *)
LEMMA CallerTypesStep ==
  ASSUME IInv, [Next]_vars
  PROVE  CallerTypes'
<1>0. Basics
  BY TypeFacts
<1>1. ASSUME NEW c \in Callers, NEW j \in Jobs, Schedule(c, j)
      PROVE  CallerTypes'
  BY <1>0, <1>1, Wider DEF Schedule, NewHandler, Usable, roundVars, threadVars,
       swapVars,
       targetVars, mutexes, CallerTypes, JobTypes, Null, Basics
<1>2. ASSUME NEW c \in Callers, NEW j \in Jobs, WaitExecute(c, j)
      PROVE  CallerTypes'
  BY <1>0, <1>2 DEF WaitExecute, Usable, jobVars, handlerVars, threadVars, swapVars,
       targetVars, mutexes, CallerTypes, JobTypes, Null, Basics
<1>3. ASSUME NEW c \in Callers, APC_AddPendingWork(c)
      PROVE  CallerTypes'
  BY <1>0, <1>3 DEF APC_AddPendingWork, UpdatePidHandle, Die, AppendWork, Pending,
       PreemptExecution, roundVars, targetVars, mutexes, CallerTypes, JobTypes, Null,
       Basics
<1>4. ASSUME NEW c \in Callers, APC_AddPendingWorkFails(c)
      PROVE  CallerTypes'
  BY <1>0, <1>4 DEF APC_AddPendingWorkFails, UpdatePidHandle, Die, Pending, roundVars,
       threadVars, swapVars, targetVars, mutexes, CallerTypes, JobTypes, Null, Basics
<1>5. ASSUME NEW c \in Callers, WaitReturns(c)
      PROVE  CallerTypes'
  BY <1>0, <1>5 DEF WaitReturns, jobVars, roundVars, handlerVars, threadVars, swapVars,
       targetVars, mutexes, CallerTypes, JobTypes, Null, Basics
<1>6. ASSUME NEW c \in Callers, WaitTimesOut(c)
      PROVE  CallerTypes'
  <2>1. Null \in 0..made /\ made' = made
    BY <1>0, <1>6 DEF WaitTimesOut, handlerVars, Basics, Null
  <2> QED
    BY <1>0, <1>6, <2>1 DEF WaitTimesOut, CallerTypes, Basics
<1>7. ASSUME NEW c \in Callers, ReleaseOwner(c)
      PROVE  CallerTypes'
  <2>1. Null \in 0..made /\ made' = made
    BY <1>0, <1>7 DEF ReleaseOwner, handlerVars, Basics, Null
  <2> QED
    BY <1>0, <1>7, <2>1 DEF ReleaseOwner, CallerTypes, Basics
<1>8. ASSUME NEW t \in Targets, NEW j \in Jobs, CallbackSchedules(t, j)
      PROVE  CallerTypes'
  BY <1>0, <1>8, Wider DEF CallbackSchedules, NewHandler, Usable, roundVars, threadVars,
       swapVars, callerVars, mutexes, CallerTypes, JobTypes, Null, Basics
<1>9. ASSUME NEW c \in Callers, NEW j \in Jobs, AwaitExecute(c, j) \/ Destroy(c, j)
      PROVE  CallerTypes'
  BY <1>0, <1>9 DEF AwaitExecute, Usable, roundVars, handlerVars, threadVars, swapVars,
       targetVars, callerVars, mutexes, Destroy, CallerTypes, JobTypes, Null, Basics
<1>10. ASSUME NEW t \in Targets,
             SwapUser(t) \/ ReturnToUser(t) \/ JobReturns(t) \/ NtfyFindsNoThread(t) \/
             NtfyJobFinished(t) \/ Hit(t) \/ TriggerBegins(t) \/ TriggerCannotSleep(t) \/ TriggerEnds(t) \/
             HitDetaches(t) \/ CallbackReturns(t) \/ NtfyGoesOn(t) \/ ThreadExits(t) \/
             ThreadStarts(t)
      PROVE  CallerTypes'
  BY <1>0, <1>10 DEF SwapUser, jobVars, roundVars, handlerVars, threadVars, callerVars,
       mutexes, ReturnToUser, swapVars, JobReturns, NtfyFindsNoThread, NtfyJobFinished,
       PopCompletedTask, Pending, Hit, TriggerBegins, TriggerCannotSleep, TriggerEnds, HitDetaches,
       CallbackReturns, NtfyGoesOn, PreemptExecution, SaveState, ThreadExits,
       ThreadStarts, CallerTypes, JobTypes, Null, Basics
<1>11. ASSUME APC_OnThreadExit
      PROVE  CallerTypes'
  BY <1>0, <1>11 DEF APC_OnThreadExit, Die, Dying, FreeDEProcess, roundVars, swapVars,
       callerVars, mutexes, CallerTypes, JobTypes, Null, Basics
<1>12. CASE UNCHANGED vars
  BY <1>0, <1>12 DEF vars, jobVars, roundVars, handlerVars, threadVars, swapVars,
       targetVars, callerVars, mutexes, CallerTypes, JobTypes, Null, Basics
<1> QED
  BY <1>1, <1>2, <1>3, <1>4, <1>5, <1>6, <1>7, <1>8, <1>9, <1>10, <1>11, <1>12 DEF Next,
       Completion

(* Every step keeps TypeOK.                                                *)
LEMMA TypeStep ==
  ASSUME IInv, [Next]_vars
  PROVE  TypeOK'
<1>1. JobTypes' /\ RoundTypes' /\ HandlerTypes' /\ ThreadTypes'
  BY JobTypesStep, RoundTypesStep, HandlerTypesStep, ThreadTypesStep
<1>2. SwapTypes' /\ TargetTypes' /\ CallerTypes'
  BY SwapTypesStep, TargetTypesStep, CallerTypesStep
<1> QED
  BY <1>1, <1>2, TypeParts, PTL

(* The critical section and the watcher are taken when they are free.      *)
LEMMA MutexStep ==
  ASSUME IInv, [Next]_vars
  PROVE  MutexInv'
<1>0. Basics /\ MutexInv
  BY TypeFacts DEF IInv
<1>1. ASSUME NEW t \in Targets, SwapUser(t)
      PROVE  MutexInv'
  BY <1>0, <1>1 DEF SwapUser, jobVars, roundVars, handlerVars, threadVars, callerVars,
       mutexes, MutexInv, Completing, Triggering, TargetTypes, Basics
<1>2. ASSUME NEW t \in Targets, ReturnToUser(t)
      PROVE  MutexInv'
  BY <1>0, <1>2 DEF ReturnToUser, jobVars, roundVars, handlerVars, threadVars, swapVars,
       callerVars, mutexes, MutexInv, Completing, Triggering, TargetTypes, Basics
<1>3. ASSUME NEW t \in Targets, JobReturns(t)
      PROVE  MutexInv'
  BY <1>0, <1>3 DEF JobReturns, jobVars, roundVars, handlerVars, threadVars, callerVars,
       mutexes, MutexInv, Completing, Triggering, TargetTypes, Basics
<1>4. ASSUME NEW t \in Targets, NtfyFindsNoThread(t)
      PROVE  MutexInv'
  BY <1>0, <1>4 DEF NtfyFindsNoThread, jobVars, roundVars, handlerVars, threadVars,
       swapVars, callerVars, mutexes, MutexInv, Completing, Triggering, TargetTypes,
       Basics
<1>5. ASSUME NEW t \in Targets, NtfyJobFinished(t)
      PROVE  MutexInv'
  BY <1>0, <1>5 DEF NtfyJobFinished, PopCompletedTask, Pending, jobVars, roundVars,
       handlerVars, swapVars, callerVars, MutexInv, Completing, Triggering, TargetTypes,
       Basics
<1>6. ASSUME NEW t \in Targets, Hit(t)
      PROVE  MutexInv'
  BY <1>0, <1>6 DEF Hit, roundVars, threadVars, swapVars, callerVars, MutexInv,
       Completing, Triggering, TargetTypes, Basics
<1>7. ASSUME NEW t \in Targets, TriggerBegins(t) \/ TriggerCannotSleep(t)
      PROVE  MutexInv'
  BY <1>0, <1>7 DEF TriggerBegins, TriggerCannotSleep, jobVars, handlerVars, threadVars, swapVars,
       callerVars,
       mutexes, MutexInv, Completing, Triggering, TargetTypes, Basics
<1>8. ASSUME NEW t \in Targets, TriggerEnds(t)
      PROVE  MutexInv'
  BY <1>0, <1>8 DEF TriggerEnds, jobVars, handlerVars, threadVars, swapVars, callerVars,
       mutexes, MutexInv, Completing, Triggering, TargetTypes, Basics
<1>9. ASSUME NEW t \in Targets, HitDetaches(t)
      PROVE  MutexInv'
  BY <1>0, <1>9 DEF HitDetaches, roundVars, threadVars, swapVars, callerVars, MutexInv,
       Completing, Triggering, TargetTypes, Basics
<1>10. ASSUME NEW t \in Targets, CallbackReturns(t)
      PROVE  MutexInv'
  BY <1>0, <1>10 DEF CallbackReturns, jobVars, roundVars, threadVars, swapVars,
       callerVars, mutexes, MutexInv, Completing, Triggering, TargetTypes, Basics
<1>11. ASSUME NEW t \in Targets, NtfyGoesOn(t)
      PROVE  MutexInv'
  BY <1>0, <1>11 DEF NtfyGoesOn, PreemptExecution, SaveState, jobVars, roundVars,
       handlerVars, callerVars, MutexInv, Completing, Triggering, TargetTypes, Basics
<1>12. ASSUME NEW t \in Targets, NEW j \in Jobs, CallbackSchedules(t, j)
      PROVE  MutexInv'
  BY <1>0, <1>12 DEF CallbackSchedules, NewHandler, Usable, roundVars, threadVars,
       swapVars, callerVars, mutexes, MutexInv, Completing, Triggering, TargetTypes,
       Basics
<1>13. ASSUME NEW t \in Targets, ThreadExits(t)
      PROVE  MutexInv'
  BY <1>0, <1>13 DEF ThreadExits, jobVars, roundVars, handlerVars, threadVars, swapVars,
       callerVars, mutexes, MutexInv, Completing, Triggering, TargetTypes, Basics
<1>14. ASSUME NEW t \in Targets, ThreadStarts(t)
      PROVE  MutexInv'
  BY <1>0, <1>14 DEF ThreadStarts, jobVars, roundVars, handlerVars, threadVars,
       swapVars,
       callerVars, mutexes, MutexInv, Completing, Triggering, TargetTypes, Basics
<1>15. ASSUME APC_OnThreadExit
      PROVE  MutexInv'
  BY <1>0, <1>15 DEF APC_OnThreadExit, Die, Dying, FreeDEProcess, roundVars, swapVars,
       callerVars, mutexes, MutexInv, Completing, Triggering, TargetTypes, Basics
<1>16. ASSUME NEW c \in Callers, NEW j \in Jobs,
             Schedule(c, j) \/ AwaitExecute(c, j) \/ WaitExecute(c, j) \/ Destroy(c, j)
      PROVE  MutexInv'
  <2>1. UNCHANGED <<pc, engine, watcher>>
    BY <1>16 DEF Schedule, roundVars, threadVars, swapVars, targetVars, mutexes,
         AwaitExecute, handlerVars, callerVars, WaitExecute, jobVars, Destroy
  <2> QED
    BY <1>0, <2>1 DEF MutexInv, Completing, Triggering, TargetTypes, Basics
<1>17. ASSUME NEW c \in Callers,
             APC_AddPendingWork(c) \/ APC_AddPendingWorkFails(c) \/ WaitReturns(c) \/
             WaitTimesOut(c) \/ ReleaseOwner(c)
      PROVE  MutexInv'
  <2>1. UNCHANGED <<pc, engine, watcher>>
    BY <1>17 DEF APC_AddPendingWork, UpdatePidHandle, Die, AppendWork, Pending,
         PreemptExecution, roundVars, targetVars, mutexes, APC_AddPendingWorkFails,
         threadVars, swapVars, WaitReturns, jobVars, handlerVars, WaitTimesOut,
         ReleaseOwner
  <2> QED
    BY <1>0, <2>1 DEF MutexInv, Completing, Triggering, TargetTypes, Basics
<1>18. CASE UNCHANGED vars
  BY <1>0, <1>18 DEF vars, jobVars, roundVars, handlerVars, threadVars, swapVars,
       targetVars, callerVars, mutexes, MutexInv, Completing, Triggering, TargetTypes,
       Basics
<1> QED
  BY <1>1, <1>2, <1>3, <1>4, <1>5, <1>6, <1>7, <1>8, <1>9, <1>10, <1>11, <1>12, <1>13,
       <1>14, <1>15, <1>16, <1>17, <1>18 DEF Next, Completion

(* What is appended was in no list, and what is popped is in one.          *)
LEMMA PlaceStep ==
  ASSUME IInv, [Next]_vars
  PROVE  PlaceInv'
<1>0. Basics /\ PlaceInv
  BY TypeFacts DEF IInv
<1>1. ASSUME NEW c \in Callers, APC_AddPendingWork(c)
      PROVE  PlaceInv'
  <2>1. \A q \in Pids : q # PidOf[target[on[c]]] => queue'[q] = queue[q]
    BY <1>1, AddEffect
  <2>2. Range(queue'[PidOf[target[on[c]]]])
          \subseteq Range(queue[PidOf[target[on[c]]]]) \cup {worker[on[c]]}
    BY <1>1, AddEffect
  <2>3. ~InQueue(worker[on[c]]) /\ \A t \in Targets : pc[t] \in Completing => cur[t] # worker[on[c]]
    BY <1>1 DEF APC_AddPendingWork, IInv, CallerInv, CallersHold, SchedulersOwn
  <2>4. NoRepeats(queue'[PidOf[target[on[c]]]]) /\ UNCHANGED <<pc, cur>>
    BY <1>1, AddEffect DEF APC_AddPendingWork, targetVars
  <2> QED
    BY <1>0, <2>1, <2>2, <2>3, <2>4 DEF PlaceInv, InQueue
<1>2. ASSUME NEW c \in Callers, APC_AddPendingWorkFails(c)
      PROVE  PlaceInv'
  <2>1. \A q \in Pids : Range(queue'[q]) \subseteq Range(queue[q]) /\ NoRepeats(queue'[q])
    <3>1. CASE FailLeaves
      BY <1>0, <3>1 DEF PlaceInv, FailLeaves
    <3>2. CASE FailUpdates(c)
      BY <1>0, <1>2, <3>2, FailEffect, PendingFacts DEF FailUpdates, PlaceInv, Basics,
           ThreadTypes
    <3> QED
      BY <1>2, <3>1, <3>2, FailEffect
  <2>2. UNCHANGED <<pc, cur>>
    BY <1>2 DEF APC_AddPendingWorkFails, targetVars
  <2> QED
    BY <1>0, <2>1, <2>2 DEF PlaceInv, InQueue
<1>3. ASSUME NEW t \in Targets, SwapUser(t)
      PROVE  PlaceInv'
  BY <1>0, <1>3 DEF SwapUser, jobVars, roundVars, handlerVars, threadVars, callerVars,
       mutexes, PlaceInv, InQueue, Completing, TargetTypes, Basics
<1>4. ASSUME NEW t \in Targets, ReturnToUser(t)
      PROVE  PlaceInv'
  BY <1>0, <1>4 DEF ReturnToUser, jobVars, roundVars, handlerVars, threadVars, swapVars,
       callerVars, mutexes, PlaceInv, InQueue, Completing, TargetTypes, Basics
<1>5. ASSUME NEW t \in Targets, JobReturns(t)
      PROVE  PlaceInv'
  BY <1>0, <1>5 DEF JobReturns, jobVars, roundVars, handlerVars, threadVars, callerVars,
       mutexes, PlaceInv, InQueue, Completing, TargetTypes, Basics
<1>6. ASSUME NEW t \in Targets, NtfyFindsNoThread(t)
      PROVE  PlaceInv'
  BY <1>0, <1>6 DEF NtfyFindsNoThread, jobVars, roundVars, handlerVars, threadVars,
       swapVars, callerVars, mutexes, PlaceInv, InQueue, Completing, TargetTypes, Basics
<1>7. ASSUME NEW t \in Targets, NtfyJobFinished(t)
      PROVE  PlaceInv'
  <2> DEFINE p == PidOf[t]
             h == Head(queue[p])
  <2>1. /\ p \in Pids /\ h \in 1..made /\ NoRepeats(queue'[p])
        /\ Range(queue[p]) = Range(queue'[p]) \cup {h} /\ h \notin Range(queue'[p])
    BY <1>7, PopEffect
  <2>2. \A q \in Pids : q # p => queue'[q] = queue[q]
    BY <1>0, <1>7, PopEffect DEF Basics, ThreadTypes
  <2>3. cur'[t] = h /\ \A u \in Targets : u # t => cur'[u] = cur[u] /\ pc'[u] = pc[u]
    <3>1. cur' = [cur EXCEPT ![t] = h]
      BY <1>7, PopEffect
    <3> QED
      BY <1>0, <1>7, <3>1 DEF NtfyJobFinished, Basics, TargetTypes
  <2>4. \A u \in Targets : pc[u] \notin Completing
    BY <1>0, <1>7 DEF NtfyJobFinished, Basics, IInv, MutexInv
  <2> HIDE DEF p, h
  <2> QED
    BY <1>0, <2>1, <2>2, <2>3, <2>4 DEF PlaceInv, InQueue, Null
<1>8. ASSUME NEW t \in Targets, Hit(t)
      PROVE  PlaceInv'
  BY <1>0, <1>8 DEF Hit, roundVars, threadVars, swapVars, callerVars, PlaceInv, InQueue,
       Completing, TargetTypes, Basics
<1>9. ASSUME NEW t \in Targets, TriggerBegins(t) \/ TriggerCannotSleep(t)
      PROVE  PlaceInv'
  BY <1>0, <1>9 DEF TriggerBegins, TriggerCannotSleep, jobVars, handlerVars, threadVars, swapVars,
       callerVars,
       mutexes, PlaceInv, InQueue, Completing, TargetTypes, Basics
<1>10. ASSUME NEW t \in Targets, TriggerEnds(t)
      PROVE  PlaceInv'
  BY <1>0, <1>10 DEF TriggerEnds, jobVars, handlerVars, threadVars, swapVars,
       callerVars,
       mutexes, PlaceInv, InQueue, Completing, TargetTypes, Basics
<1>11. ASSUME NEW t \in Targets, HitDetaches(t)
      PROVE  PlaceInv'
  BY <1>0, <1>11 DEF HitDetaches, roundVars, threadVars, swapVars, callerVars, PlaceInv,
       InQueue, Completing, TargetTypes, Basics
<1>12. ASSUME NEW t \in Targets, CallbackReturns(t)
      PROVE  PlaceInv'
  BY <1>0, <1>12 DEF CallbackReturns, jobVars, roundVars, threadVars, swapVars,
       callerVars, mutexes, PlaceInv, InQueue, Completing, TargetTypes, Basics
<1>13. ASSUME NEW t \in Targets, NtfyGoesOn(t)
      PROVE  PlaceInv'
  BY <1>0, <1>13 DEF NtfyGoesOn, PreemptExecution, SaveState, jobVars, roundVars,
       handlerVars, callerVars, PlaceInv, InQueue, Completing, TargetTypes, Basics
<1>14. ASSUME NEW t \in Targets, NEW j \in Jobs, CallbackSchedules(t, j)
      PROVE  PlaceInv'
  BY <1>0, <1>14 DEF CallbackSchedules, NewHandler, Usable, roundVars, threadVars,
       swapVars, callerVars, mutexes, PlaceInv, InQueue, Completing, TargetTypes, Basics
<1>15. ASSUME NEW t \in Targets, ThreadExits(t)
      PROVE  PlaceInv'
  BY <1>0, <1>15 DEF ThreadExits, jobVars, roundVars, handlerVars, threadVars, swapVars,
       callerVars, mutexes, PlaceInv, InQueue, Completing, TargetTypes, Basics
<1>16. ASSUME NEW t \in Targets, ThreadStarts(t)
      PROVE  PlaceInv'
  BY <1>0, <1>16 DEF ThreadStarts, jobVars, roundVars, handlerVars, threadVars,
       swapVars,
       callerVars, mutexes, PlaceInv, InQueue, Completing, TargetTypes, Basics
<1>17. ASSUME APC_OnThreadExit
      PROVE  PlaceInv'
  <2>1. \A p \in Pids : queue'[p] = <<>>
    BY <1>17 DEF APC_OnThreadExit, FreeDEProcess
  <2>2. UNCHANGED cur /\ \A t \in Targets : pc'[t] \in Completing => pc[t] \in Completing
    BY <1>0, <1>17 DEF APC_OnThreadExit, Basics, TargetTypes, Completing
  <2> QED
    BY <1>0, <2>1, <2>2, NothingInRange DEF PlaceInv, InQueue
<1>18. ASSUME NEW c \in Callers, NEW j \in Jobs,
             Schedule(c, j) \/ AwaitExecute(c, j) \/ WaitExecute(c, j) \/ Destroy(c, j)
      PROVE  PlaceInv'
  <2>1. UNCHANGED <<queue, pc, cur>>
    BY <1>18 DEF Schedule, roundVars, threadVars, swapVars, targetVars, mutexes,
         AwaitExecute, handlerVars, callerVars, WaitExecute, jobVars, Destroy
  <2> QED
    BY <1>0, <2>1 DEF PlaceInv, InQueue, Completing, TargetTypes, Basics
<1>19. ASSUME NEW c \in Callers, WaitReturns(c) \/ WaitTimesOut(c) \/ ReleaseOwner(c)
      PROVE  PlaceInv'
  <2>1. UNCHANGED <<queue, pc, cur>>
    BY <1>19 DEF WaitReturns, jobVars, roundVars, handlerVars, threadVars, swapVars,
         targetVars, mutexes, WaitTimesOut, ReleaseOwner
  <2> QED
    BY <1>0, <2>1 DEF PlaceInv, InQueue, Completing, TargetTypes, Basics
<1>20. CASE UNCHANGED vars
  BY <1>0, <1>20 DEF vars, jobVars, roundVars, handlerVars, threadVars, swapVars,
       targetVars, callerVars, mutexes, PlaceInv, InQueue, Completing, TargetTypes, Basics
<1> QED
  BY <1>1, <1>2, <1>3, <1>4, <1>5, <1>6, <1>7, <1>8, <1>9, <1>10, <1>11, <1>12, <1>13,
       <1>14, <1>15, <1>16, <1>17, <1>18, <1>19, <1>20 DEF Next, Completion

(* A completion excludes every other, and everything that locks the engine.*)
LEMMA Alone ==
  ASSUME IInv
  PROVE  /\ \A t, u \in Targets : pc[t] \in Completing /\ pc[u] \in Completing => t = u
         /\ engine = Free => \A t \in Targets : pc[t] \notin Completing
         /\ watcher = Free => \A t \in Targets : pc[t] \notin Triggering
BY TypeFacts DEF IInv, MutexInv, Basics

(* A handler that was just made is a new one, and its job had none.        *)
LEMMA NewHandlerLinks ==
  ASSUME IInv, NEW j \in Jobs, NewHandler(j),
         UNCHANGED <<alive, freed, queue, cur>>,
         \A t \in Targets : pc'[t] = pc[t] \/ (pc[t] = "callback" /\ pc'[t] = "reenter")
  PROVE  LinkInv'
<1>0. Basics /\ LinkInv
  BY TypeFacts DEF IInv
<1>. PICK n \in Nat : n = made + 1
  BY <1>0 DEF Basics
<1>1. /\ n \in Handlers /\ n \notin 1..made /\ n # Null /\ made' = n
      /\ \A h \in 1..n : h \in 1..made \/ h = n
      /\ worker[j] = Null /\ worker' = [worker EXCEPT ![j] = n]
      /\ parent' = [parent EXCEPT ![n] = j]
  <2>1. MaxHandlers \in Nat
    BY EngineAssumption
  <2> QED
    BY <1>0, <2>1 DEF NewHandler, Basics, HandlerTypes, Handlers, Null
<1>2. \A k \in Jobs : worker[k] # Null => worker[k] \in 1..made
  BY <1>0 DEF Basics, JobTypes, Null
<1>3. /\ worker'[j] = n /\ \A k \in Jobs : k # j => worker'[k] = worker[k]
      /\ parent'[n] = j /\ \A h \in 1..made : parent'[h] = parent[h]
  BY <1>0, <1>1 DEF Basics, JobTypes, HandlerTypes
<1>4. n \notin freed /\ \A h \in 1..made : InQueue(h)' => InQueue(h)
  BY <1>0, <1>1 DEF Basics, HandlerTypes, InQueue
<1>5. ~InQueue(n)'
  <2>1. \A p \in Pids : Range(queue[p]) \subseteq 1..made
    BY <1>0, RangeOfSeq DEF Basics, ThreadTypes
  <2> QED
    BY <1>1, <2>1 DEF InQueue
<1>6. JobsPoint'
  BY <1>0, <1>2, <1>3, <1>4 DEF LinkInv, JobsPoint
<1>7. ASSUME NEW h \in 1..made, Linked(h)
      PROVE  Linked(h)'
  BY <1>0, <1>1, <1>3, <1>7 DEF Linked, Basics, HandlerTypes, Null
<1>8. QueuedLinked'
  BY <1>0, <1>1, <1>4, <1>5, <1>7 DEF LinkInv, QueuedLinked
<1>9. \A t \in Targets : pc'[t] \in Completing =>
        cur'[t] \in 1..made /\ cur[t] # n /\ (pc'[t] # "reenter" => pc'[t] = pc[t])
  BY <1>0, <1>1 DEF Basics, Completing
<1>10. HitLinked'
  BY <1>0, <1>3, <1>7, <1>9 DEF LinkInv, HitLinked, Triggering, Completing
<1>11. CallbackDetached'
  BY <1>0, <1>3, <1>9 DEF LinkInv, CallbackDetached, Completing
<1> QED
  BY <1>6, <1>8, <1>10, <1>11 DEF LinkInv

(* Handlers that die with the lists they are in are missed by nobody.      *)
LEMMA DeathLinks ==
  ASSUME IInv, NEW dying \in SUBSET (1..made),
         \A h \in dying : InQueue(h),
         \A h \in 1..made : InQueue(h)' =>
           h \notin dying /\ (InQueue(h) \/ \E j \in Jobs : alive[j] /\ worker[j] = h),
         worker' = [j \in Jobs |-> IF \E h \in dying : parent[h] = j THEN Null ELSE worker[j]],
         freed' = freed \cup dying,
         UNCHANGED <<made, alive, parent>>,
         \A t \in Targets : pc'[t] \notin Completing
  PROVE  LinkInv'
<1>0. Basics /\ LinkInv
  BY TypeFacts DEF IInv
<1>1. \A d \in dying : parent[d] # NoJob => parent[d] \in Jobs /\ worker[parent[d]] = d
  BY <1>0 DEF LinkInv, QueuedLinked, Linked, Basics, HandlerTypes
<1>2. \A j \in Jobs : worker'[j] # Null =>
        worker'[j] = worker[j] /\ \A h \in dying : parent[h] # j
  OBVIOUS
<1>3. JobsPoint'
  BY <1>0, <1>2 DEF LinkInv, JobsPoint
<1>4. ASSUME NEW h \in 1..made, InQueue(h)'
      PROVE  h \notin freed' /\ Linked(h)'
  <2>1. h \notin freed /\ Linked(h)
    <3>1. CASE InQueue(h)
      BY <1>0, <3>1 DEF LinkInv, QueuedLinked
    <3>2. CASE ~InQueue(h)
      <4>1. PICK j \in Jobs : alive[j] /\ worker[j] = h
        BY <1>4, <3>2
      <4> QED
        BY <1>0, <4>1 DEF LinkInv, JobsPoint, Linked, Null
    <3> QED
      BY <3>1, <3>2
  <2>2. h \notin dying
    BY <1>4
  <2>3. ASSUME parent[h] # NoJob
        PROVE  worker'[parent[h]] = h
    <3>1. parent[h] \in Jobs /\ worker[parent[h]] = h
      BY <1>0, <2>1, <2>3 DEF Linked, Basics, HandlerTypes
    <3>2. \A d \in dying : parent[d] # parent[h]
      BY <1>1, <2>2, <2>3, <3>1
    <3> QED
      BY <3>1, <3>2
  <2> QED
    BY <2>1, <2>2, <2>3 DEF Linked
<1>5. QueuedLinked'
  BY <1>4 DEF QueuedLinked
<1>6. HitLinked' /\ CallbackDetached'
  BY DEF HitLinked, CallbackDetached, Completing, Triggering
<1> QED
  BY <1>3, <1>5, <1>6 DEF LinkInv

(* A handler and its job are linked and parted together.                   *)
LEMMA LinkStep ==
  ASSUME IInv, [Next]_vars
  PROVE  LinkInv'
<1>0. Basics /\ LinkInv
  BY TypeFacts DEF IInv
<1>1. ASSUME NEW c \in Callers, NEW j \in Jobs, Schedule(c, j)
      PROVE  LinkInv'
  <2>1. /\ NewHandler(j) /\ UNCHANGED <<alive, freed, queue, cur>>
        /\ \A t \in Targets : pc'[t] = pc[t] \/ (pc[t] = "callback" /\ pc'[t] = "reenter")
    BY <1>1 DEF Schedule, threadVars, targetVars
  <2> QED
    BY <2>1, NewHandlerLinks
<1>2. ASSUME NEW c \in Callers, NEW j \in Jobs, Destroy(c, j)
      PROVE  LinkInv'
  <2>1. \A t \in Targets : pc[t] \notin Triggering
    BY <1>2, Alone DEF Destroy
  <2>2. alive[j] /\ ~alive'[j] /\ \A k \in Jobs : k # j => alive'[k] = alive[k]
    BY <1>0, <1>2 DEF Destroy, Usable, Basics, JobTypes
  <2>3. \A h \in 1..made : parent'[h] = IF h = worker[j] THEN NoJob ELSE parent[h]
    BY <1>0, <1>2 DEF Destroy, Basics
  <2>4. UNCHANGED <<worker, made, freed, queue, pc, cur>>
    BY <1>2 DEF Destroy, threadVars, targetVars
  <2>5. ASSUME NEW h \in 1..made, Linked(h)
        PROVE  Linked(h)'
    BY <1>0, <2>2, <2>3, <2>4, <2>5 DEF Linked, Basics, HandlerTypes
  <2>6. JobsPoint'
    <3>1. \A k \in Jobs : worker[k] # Null => worker[k] \in 1..made
      BY <1>0 DEF Basics, JobTypes, Null
    <3> QED
      BY <1>0, <2>2, <2>3, <2>4, <3>1 DEF LinkInv, JobsPoint
  <2>7. QueuedLinked'
    BY <1>0, <2>4, <2>5 DEF LinkInv, QueuedLinked, InQueue
  <2>8. HitLinked'
    BY <1>0, <2>1, <2>4, <2>5 DEF LinkInv, HitLinked, Basics, Completing
  <2>9. CallbackDetached'
    BY <1>0, <2>2, <2>4 DEF LinkInv, CallbackDetached
  <2> QED
    BY <2>6, <2>7, <2>8, <2>9 DEF LinkInv
<1>3. ASSUME NEW c \in Callers, APC_AddPendingWork(c)
      PROVE  LinkInv'
  <2> DEFINE t == target[on[c]]
             p == PidOf[t]
  <2>1. /\ t \in Targets /\ p \in Pids /\ Updated(t)
        /\ \A q \in Pids : q # p => queue'[q] = queue[q]
        /\ Range(queue'[p]) = Range(Pending(t)) \cup {worker[on[c]]}
    BY <1>0, <1>3, AddEffect
  <2>2. /\ on[c] \in Jobs /\ alive[on[c]] /\ ~InQueue(worker[on[c]])
    BY <1>3 DEF APC_AddPendingWork, IInv, CallerInv, CallersHold, SchedulersOwn
  <2>3. \A u \in Targets : pc'[u] \notin Completing
    BY <1>3, Alone DEF APC_AddPendingWork, targetVars
  <2>4. UNCHANGED <<made, alive, parent>>
    BY <1>3 DEF APC_AddPendingWork
  <2> HIDE DEF t, p
  <2>5. Range(Pending(t)) \subseteq Range(queue[p]) /\ Range(Pending(t)) \cap Dropped(t) = {}
        /\ Dropped(t) \subseteq Range(queue[p])
    BY <2>1 DEF Updated, p
  <2>6. \A h \in 1..made : InQueue(h)' =>
          h \notin Dropped(t) /\ (InQueue(h) \/ \E j \in Jobs : alive[j] /\ worker[j] = h)
    <3> TAKE h \in 1..made
    <3>1. ASSUME NEW q \in Pids, q # p, h \in Range(queue'[q])
          PROVE  h \notin Dropped(t) /\ InQueue(h)
      BY <2>1, <2>5, <3>1 DEF InQueue, IInv, PlaceInv
    <3>2. ASSUME h \in Range(Pending(t))
          PROVE  h \notin Dropped(t) /\ InQueue(h)
      BY <2>1, <2>5, <3>2 DEF InQueue
    <3>3. ASSUME h = worker[on[c]]
          PROVE  h \notin Dropped(t)
      BY <2>1, <2>2, <2>5, <3>3 DEF InQueue
    <3> QED
      BY <2>1, <2>2, <3>1, <3>2, <3>3 DEF InQueue
  <2> QED
    BY <2>1, <2>3, <2>4, <2>6, DeathLinks DEF Updated
<1>4. ASSUME NEW c \in Callers, APC_AddPendingWorkFails(c)
      PROVE  LinkInv'
  <2> DEFINE t == target[on[c]]
             p == PidOf[t]
  <2>1. \A u \in Targets : pc'[u] \notin Completing
    BY <1>4, Alone DEF APC_AddPendingWorkFails, targetVars
  <2>2. UNCHANGED <<made, alive, parent>>
    BY <1>4 DEF APC_AddPendingWorkFails
  <2>3. CASE FailLeaves
    <3>1. HitLinked' /\ CallbackDetached'
      BY <2>1 DEF HitLinked, CallbackDetached, Completing, Triggering
    <3>2. JobsPoint' /\ QueuedLinked'
      BY <1>0, <2>2, <2>3 DEF LinkInv, JobsPoint, QueuedLinked, Linked, InQueue,
           FailLeaves
    <3> QED
      BY <3>1, <3>2 DEF LinkInv
  <2>4. CASE FailUpdates(c)
    <3>1. t \in Targets /\ p \in Pids /\ Updated(t)
      BY <1>4, <2>4, FailEffect DEF FailUpdates
    <3>2. queue'[p] = Pending(t) /\ \A q \in Pids : q # p => queue'[q] = queue[q]
      BY <1>0, <2>4, <3>1 DEF FailUpdates, Basics, ThreadTypes
    <3> HIDE DEF t, p
    <3>3. Range(Pending(t)) \subseteq Range(queue[p]) /\ Range(Pending(t)) \cap Dropped(t) = {}
          /\ Dropped(t) \subseteq Range(queue[p])
      BY <3>1 DEF Updated, p
    <3>4. \A h \in 1..made : InQueue(h)' => h \notin Dropped(t) /\ InQueue(h)
      BY <3>1, <3>2, <3>3 DEF InQueue, IInv, PlaceInv
    <3> QED
      BY <2>1, <2>2, <3>1, <3>4, DeathLinks DEF Updated
  <2> QED
    BY <1>4, <2>3, <2>4, FailEffect
<1>5. ASSUME NEW t \in Targets, SwapUser(t)
      PROVE  LinkInv'
  BY <1>0, <1>5 DEF SwapUser, jobVars, roundVars, handlerVars, threadVars, callerVars,
       mutexes, LinkInv, JobsPoint, QueuedLinked, HitLinked, CallbackDetached, InQueue,
       Linked, Completing, Triggering, TargetTypes, Basics
<1>6. ASSUME NEW t \in Targets, ReturnToUser(t)
      PROVE  LinkInv'
  BY <1>0, <1>6 DEF ReturnToUser, jobVars, roundVars, handlerVars, threadVars, swapVars,
       callerVars, mutexes, LinkInv, JobsPoint, QueuedLinked, HitLinked, CallbackDetached,
       InQueue, Linked, Completing, Triggering, TargetTypes, Basics
<1>7. ASSUME NEW t \in Targets, JobReturns(t)
      PROVE  LinkInv'
  BY <1>0, <1>7 DEF JobReturns, jobVars, roundVars, handlerVars, threadVars, callerVars,
       mutexes, LinkInv, JobsPoint, QueuedLinked, HitLinked, CallbackDetached, InQueue,
       Linked, Completing, Triggering, TargetTypes, Basics
<1>8. ASSUME NEW t \in Targets, NtfyFindsNoThread(t)
      PROVE  LinkInv'
  BY <1>0, <1>8 DEF NtfyFindsNoThread, jobVars, roundVars, handlerVars, threadVars,
       swapVars, callerVars, mutexes, LinkInv, JobsPoint, QueuedLinked, HitLinked,
       CallbackDetached, InQueue, Linked, Completing, Triggering, TargetTypes, Basics
<1>9. ASSUME NEW t \in Targets, NtfyJobFinished(t)
      PROVE  LinkInv'
  <2> DEFINE h == Head(queue[PidOf[t]])
  <2>1. h \in 1..made /\ InQueue(h) /\ cur' = [cur EXCEPT ![t] = h]
    BY <1>9, PopEffect
  <2>2. \A k \in 1..made : InQueue(k)' => InQueue(k)
    <3>1. \A q \in Pids : Range(queue'[q]) \subseteq Range(queue[q])
      BY <1>0, <1>9, PopEffect DEF Basics, ThreadTypes
    <3> QED
      BY <3>1 DEF InQueue
  <2> HIDE DEF h
  <2>3. UNCHANGED <<worker, alive, made, freed, parent>>
    BY <1>9 DEF NtfyJobFinished, jobVars, handlerVars
  <2>4. /\ pc'[t] = "hit" /\ cur'[t] = h
        /\ \A u \in Targets : u # t => pc'[u] \notin Completing
    BY <1>0, <1>9, <2>1, Alone DEF NtfyJobFinished, Basics, TargetTypes
  <2>5. JobsPoint' /\ QueuedLinked'
    BY <1>0, <2>2, <2>3 DEF LinkInv, JobsPoint, QueuedLinked, Linked
  <2>6. HitLinked' /\ CallbackDetached'
    BY <1>0, <2>1, <2>3, <2>4
       DEF LinkInv, QueuedLinked, HitLinked, CallbackDetached, Linked, Completing,
            Triggering
  <2> QED
    BY <2>5, <2>6 DEF LinkInv
<1>10. ASSUME NEW t \in Targets, Hit(t)
      PROVE  LinkInv'
  <2>1. /\ pc[t] = "hit" /\ cur[t] \in 1..made /\ ~InQueue(cur[t])
        /\ UNCHANGED <<worker, alive, made, parent, queue, cur>>
        /\ \A u \in Targets : u # t => pc'[u] = pc[u] /\ pc[u] \notin Completing
    BY <1>0, <1>10, Alone DEF Hit, Basics, TargetTypes, threadVars, IInv, PlaceInv,
         Completing
  <2>2. CASE parent[cur[t]] # NoJob
    <3>1. UNCHANGED freed /\ pc'[t] = "begin"
      BY <1>0, <1>10, <2>2 DEF Hit, Basics, TargetTypes
    <3>2. JobsPoint' /\ QueuedLinked'
      BY <1>0, <2>1, <3>1 DEF LinkInv, JobsPoint, QueuedLinked, InQueue, Linked
    <3>3. cur[t] \notin freed /\ Linked(cur[t])
      BY <1>0, <2>1 DEF LinkInv, HitLinked
    <3>4. HitLinked' /\ CallbackDetached'
      BY <2>1, <2>2, <3>1, <3>3 DEF HitLinked, CallbackDetached, Linked, Completing,
           Triggering
    <3> QED
      BY <3>2, <3>4 DEF LinkInv
  <2>3. CASE parent[cur[t]] = NoJob
    <3>1. freed' = freed \cup {cur[t]} /\ pc'[t] = "finish"
      BY <1>0, <1>10, <2>3 DEF Hit, Basics, TargetTypes
    <3>2. JobsPoint'
      BY <1>0, <2>1, <2>3, <3>1 DEF LinkInv, JobsPoint, Basics
    <3>3. QueuedLinked'
      BY <1>0, <2>1, <3>1 DEF LinkInv, QueuedLinked, InQueue, Linked
    <3>4. HitLinked' /\ CallbackDetached'
      BY <2>1, <3>1 DEF HitLinked, CallbackDetached, Completing, Triggering
    <3> QED
      BY <3>2, <3>3, <3>4 DEF LinkInv
  <2> QED
    BY <2>2, <2>3
<1>11. ASSUME NEW t \in Targets, TriggerBegins(t) \/ TriggerCannotSleep(t)
      PROVE  LinkInv'
  <2>1. /\ pc[t] = "begin" /\ pc'[t] = "end" /\ \A u \in Targets : u # t => pc'[u] = pc[u]
        /\ UNCHANGED <<cur, worker, alive, parent, freed, made, queue>>
    BY <1>0, <1>11 DEF TriggerBegins, TriggerCannotSleep, jobVars, handlerVars, threadVars,
         TargetTypes, Basics
  <2>2. JobsPoint' /\ QueuedLinked'
    BY <1>0, <2>1 DEF LinkInv, JobsPoint, QueuedLinked, InQueue, Linked
  <2>3. HitLinked' /\ CallbackDetached'
    BY <1>0, <2>1 DEF LinkInv, HitLinked, CallbackDetached, Linked, Triggering
  <2> QED
    BY <2>2, <2>3 DEF LinkInv
<1>12. ASSUME NEW t \in Targets, TriggerEnds(t)
      PROVE  LinkInv'
  BY <1>0, <1>12 DEF TriggerEnds, jobVars, handlerVars, threadVars, swapVars,
       callerVars,
       mutexes, LinkInv, JobsPoint, QueuedLinked, HitLinked, CallbackDetached, InQueue,
       Linked, Completing, Triggering, TargetTypes, Basics
<1>13. ASSUME NEW t \in Targets, HitDetaches(t)
      PROVE  LinkInv'
  <2> DEFINE h == cur[t]
             j == parent[h]
  <2>1. /\ pc[t] = "detach" /\ h \in 1..made /\ ~InQueue(h) /\ j \in Jobs /\ worker[j] = h
        /\ UNCHANGED <<alive, made, parent, queue, cur>>
        /\ \A u \in Targets : u # t => pc'[u] = pc[u] /\ pc[u] \notin Completing
    BY <1>0, <1>13, Alone
       DEF HitDetaches, Basics, TargetTypes, threadVars, IInv, PlaceInv, LinkInv,
            HitLinked,
           Linked, Completing, Triggering
  <2>2. worker'[j] = Null /\ \A k \in Jobs : k # j => worker'[k] = worker[k]
    BY <1>0, <1>13, <2>1 DEF HitDetaches, Basics, JobTypes
  <2>3. /\ pc'[t] \in {"callback", "finish"}
        /\ freed' = freed \/ freed' = freed \cup {h}
    BY <1>0, <1>13 DEF HitDetaches, Basics, TargetTypes
  <2> HIDE DEF h, j
  <2>4. j = parent[h] /\ h = cur[t] /\ h # Null
    BY <2>1 DEF h, j, Null
  <2>5. \A k \in Jobs : alive[k] => worker'[k] # h
    BY <1>0, <2>1, <2>2, <2>4 DEF LinkInv, JobsPoint
  <2>6. JobsPoint'
    BY <1>0, <2>1, <2>2, <2>3, <2>5 DEF LinkInv, JobsPoint
  <2>7. QueuedLinked'
    BY <1>0, <2>1, <2>2, <2>3, <2>4
       DEF LinkInv, QueuedLinked, InQueue, Linked, Basics, HandlerTypes
  <2>8. HitLinked' /\ CallbackDetached'
    BY <2>1, <2>3, <2>4, <2>5 DEF HitLinked, CallbackDetached, Completing, Triggering
  <2> QED
    BY <2>6, <2>7, <2>8 DEF LinkInv
<1>14. ASSUME NEW t \in Targets, CallbackReturns(t)
      PROVE  LinkInv'
  <2>1. /\ pc[t] = "callback" /\ pc'[t] = "finish" /\ cur[t] \in 1..made /\ ~InQueue(cur[t])
        /\ freed' = freed \cup {cur[t]}
        /\ UNCHANGED <<worker, alive, made, parent, queue, cur>>
        /\ \A u \in Targets : u # t => pc'[u] = pc[u] /\ pc[u] \notin Completing
    BY <1>0, <1>14, Alone
       DEF CallbackReturns, Basics, TargetTypes, threadVars, jobVars, IInv, PlaceInv,
            Completing
  <2>2. JobsPoint'
    BY <1>0, <2>1 DEF LinkInv, JobsPoint, CallbackDetached
  <2>3. QueuedLinked'
    BY <1>0, <2>1 DEF LinkInv, QueuedLinked, InQueue, Linked
  <2>4. HitLinked' /\ CallbackDetached'
    BY <2>1 DEF HitLinked, CallbackDetached, Completing, Triggering
  <2> QED
    BY <2>2, <2>3, <2>4 DEF LinkInv
<1>15. ASSUME NEW t \in Targets, NtfyGoesOn(t)
      PROVE  LinkInv'
  <2>1. /\ UNCHANGED <<worker, alive, made, parent, freed, queue>>
        /\ \A u \in Targets : pc'[u] \in Completing => pc'[u] = pc[u] /\ cur'[u] = cur[u]
    BY <1>0, <1>15 DEF NtfyGoesOn, Basics, TargetTypes, jobVars, handlerVars, Completing
  <2> QED
    BY <1>0, <2>1
       DEF LinkInv, JobsPoint, QueuedLinked, HitLinked, CallbackDetached, InQueue,
            Linked,
           Completing, Triggering
<1>16. ASSUME NEW t \in Targets, NEW j \in Jobs, CallbackSchedules(t, j)
      PROVE  LinkInv'
  <2>1. \A u \in Targets : pc'[u] = pc[u] \/ (pc[u] = "callback" /\ pc'[u] = "reenter")
    <3>1. pc[t] = "callback" /\ pc' = [pc EXCEPT ![t] = "reenter"]
      BY <1>16 DEF CallbackSchedules
    <3>2. pc'[t] = "reenter" /\ \A u \in Targets : u # t => pc'[u] = pc[u]
      BY <1>0, <3>1 DEF Basics, TargetTypes
    <3> QED
      BY <3>1, <3>2
  <2>2. NewHandler(j) /\ UNCHANGED <<alive, freed, queue, cur>>
    BY <1>16 DEF CallbackSchedules, threadVars
  <2> QED
    BY <2>1, <2>2, NewHandlerLinks
<1>17. ASSUME NEW t \in Targets, ThreadExits(t)
      PROVE  LinkInv'
  BY <1>0, <1>17 DEF ThreadExits, jobVars, roundVars, handlerVars, threadVars, swapVars,
       callerVars, mutexes, LinkInv, JobsPoint, QueuedLinked, HitLinked, CallbackDetached,
       InQueue, Linked, Completing, Triggering, TargetTypes, Basics
<1>18. ASSUME NEW t \in Targets, ThreadStarts(t)
      PROVE  LinkInv'
  BY <1>0, <1>18 DEF ThreadStarts, jobVars, roundVars, handlerVars, threadVars,
       swapVars,
       callerVars, mutexes, LinkInv, JobsPoint, QueuedLinked, HitLinked, CallbackDetached,
       InQueue, Linked, Completing, Triggering, TargetTypes, Basics
<1>19. ASSUME APC_OnThreadExit
      PROVE  LinkInv'
  <2>1. \A u \in Targets : pc'[u] \notin Completing
    BY <1>0, <1>19, Alone DEF APC_OnThreadExit, Basics, TargetTypes, Completing
  <2>2. \A h \in 1..made : ~InQueue(h)'
    BY <1>19, NothingInRange DEF APC_OnThreadExit, FreeDEProcess, InQueue
  <2>3. Dying \in SUBSET (1..made) /\ \A h \in Dying : InQueue(h)
    BY DyingFacts
  <2> QED
    BY <1>19, <2>1, <2>2, <2>3, DeathLinks DEF APC_OnThreadExit, Die
<1>20. ASSUME NEW c \in Callers, NEW j \in Jobs, AwaitExecute(c, j) \/ WaitExecute(c, j)
      PROVE  LinkInv'
  <2>1. UNCHANGED <<alive, worker, freed, parent, queue, pc, cur, made>>
    BY <1>20 DEF AwaitExecute, roundVars, handlerVars, threadVars, swapVars, targetVars,
         callerVars, mutexes, WaitExecute, jobVars
  <2> QED
    BY <1>0, <2>1 DEF LinkInv, JobsPoint, QueuedLinked, HitLinked, CallbackDetached,
         InQueue, Linked, Completing, Triggering, TargetTypes, Basics
<1>21. ASSUME NEW c \in Callers, WaitReturns(c) \/ WaitTimesOut(c) \/ ReleaseOwner(c)
      PROVE  LinkInv'
  <2>1. UNCHANGED <<alive, worker, freed, parent, queue, pc, cur, made>>
    BY <1>21 DEF WaitReturns, jobVars, roundVars, handlerVars, threadVars, swapVars,
         targetVars, mutexes, WaitTimesOut, ReleaseOwner
  <2> QED
    BY <1>0, <2>1 DEF LinkInv, JobsPoint, QueuedLinked, HitLinked, CallbackDetached,
         InQueue, Linked, Completing, Triggering, TargetTypes, Basics
<1>22. CASE UNCHANGED vars
  BY <1>0, <1>22 DEF vars, jobVars, roundVars, handlerVars, threadVars, swapVars,
       targetVars, callerVars, mutexes, LinkInv, JobsPoint, QueuedLinked, HitLinked,
       CallbackDetached, InQueue, Linked, Completing, Triggering, TargetTypes, Basics
<1> QED
  BY <1>1, <1>2, <1>3, <1>4, <1>5, <1>6, <1>7, <1>8, <1>9, <1>10, <1>11, <1>12, <1>13,
       <1>14, <1>15, <1>16, <1>17, <1>18, <1>19, <1>20, <1>21, <1>22 DEF Next, Completion

(* A handler that is being scheduled is in no list, and survives them all. *)
LEMMA DeathSpares ==
  ASSUME IInv, NEW dying \in SUBSET (1..made), \A h \in dying : InQueue(h),
         worker' = [j \in Jobs |-> IF \E h \in dying : parent[h] = j THEN Null ELSE worker[j]]
  PROVE  \A c \in Callers : at[c] = "scheduling" => worker'[on[c]] = worker[on[c]]
<1>0. Basics /\ LinkInv /\ CallerInv
  BY TypeFacts DEF IInv
<1> SUFFICES ASSUME NEW c \in Callers, at[c] = "scheduling"
             PROVE  worker'[on[c]] = worker[on[c]]
  OBVIOUS
<1>1. on[c] \in Jobs /\ ~InQueue(worker[on[c]])
  BY <1>0 DEF CallerInv, SchedulersOwn, Basics
<1>2. ASSUME NEW h \in dying, parent[h] = on[c]
      PROVE  FALSE
  BY <1>0, <1>1, <1>2 DEF LinkInv, QueuedLinked, Linked, Basics
<1> QED
  BY <1>1, <1>2

(* A new handler is not one that another caller is scheduling.             *)
LEMMA NewHandlerSpares ==
  ASSUME IInv, NEW j \in Jobs, NewHandler(j)
  PROVE  /\ worker'[j] # Null /\ ~InQueue(worker'[j])
         /\ \A t \in Targets : pc[t] \in Completing => cur[t] # worker'[j]
         /\ \A c \in Callers : at[c] = "scheduling" => on[c] # j /\ worker'[on[c]] = worker[on[c]]
<1>0. Basics /\ CallerInv
  BY TypeFacts DEF IInv
<1>1. worker[j] = Null /\ worker'[j] = made + 1 /\ \A k \in Jobs : k # j => worker'[k] = worker[k]
  BY <1>0 DEF NewHandler, Basics, JobTypes
<1>2. made + 1 \notin 1..made /\ made + 1 # Null
  BY <1>0 DEF Basics, Null
<1>3. \A p \in Pids : Range(queue[p]) \subseteq 1..made
  BY <1>0, RangeOfSeq DEF Basics, ThreadTypes
<1>4. ~InQueue(worker'[j]) /\ \A t \in Targets : pc[t] \in Completing => cur[t] # worker'[j]
  BY <1>0, <1>1, <1>2, <1>3 DEF InQueue, Basics
<1>5. \A c \in Callers : at[c] = "scheduling" => on[c] # j /\ on[c] \in Jobs
  BY <1>0, <1>1 DEF CallerInv, SchedulersOwn, Basics
<1> QED
  BY <1>1, <1>2, <1>4, <1>5

(* Nobody destroys a job under a caller, or takes a handler from one.      *)
LEMMA CallerStep ==
  ASSUME IInv, [Next]_vars
  PROVE  CallerInv'
<1>0. Basics /\ LinkInv /\ CallerInv
  BY TypeFacts DEF IInv
<1>1. ASSUME NEW c \in Callers, NEW j \in Jobs, Schedule(c, j)
      PROVE  CallerInv'
  <2>1. /\ on'[c] = j /\ at'[c] = "scheduling" /\ alive[j]
        /\ \A d \in Callers : d # c => at'[d] = at[d] /\ on'[d] = on[d]
        /\ UNCHANGED <<alive, queue, pc, cur>>
    BY <1>0, <1>1 DEF Schedule, NewHandler, Usable, Basics, CallerTypes, threadVars,
         targetVars
  <2>2. /\ worker'[j] # Null /\ ~InQueue(worker'[j])
        /\ \A t \in Targets : pc[t] \in Completing => cur[t] # worker'[j]
        /\ \A d \in Callers : at[d] = "scheduling" => on[d] # j /\ worker'[on[d]] = worker[on[d]]
    BY <1>1, NewHandlerSpares DEF Schedule
  <2> QED
    BY <1>0, <2>1, <2>2 DEF CallerInv, CallersHold, SchedulersOwn, SchedulersApart,
         InQueue
<1>2. ASSUME NEW c \in Callers, NEW j \in Jobs, WaitExecute(c, j)
      PROVE  CallerInv'
  <2>1. /\ at'[c] # "scheduling" /\ (at'[c] = "out" \/ (on'[c] \in Jobs /\ alive[on'[c]]))
        /\ \A d \in Callers : d # c => at'[d] = at[d] /\ on'[d] = on[d]
    BY <1>0, <1>2 DEF WaitExecute, Usable, Basics, CallerTypes, CallerInv, CallersHold
  <2>2. UNCHANGED <<alive, worker, queue, pc, cur>>
    BY <1>2 DEF WaitExecute, jobVars, threadVars, targetVars
  <2> QED
    BY <1>0, <2>1, <2>2 DEF CallerInv, CallersHold, SchedulersOwn, SchedulersApart,
         InQueue
<1>3. ASSUME NEW c \in Callers, NEW j \in Jobs, Destroy(c, j)
      PROVE  CallerInv'
  <2>1. /\ \A d \in Callers : on[d] # j
        /\ \A k \in Jobs : k # j => alive'[k] = alive[k]
        /\ UNCHANGED <<worker, queue, pc, cur, at, on>>
    BY <1>0, <1>3 DEF Destroy, Basics, JobTypes, threadVars, targetVars, callerVars
  <2> QED
    BY <1>0, <2>1 DEF CallerInv, CallersHold, SchedulersOwn, SchedulersApart, InQueue
<1>4. ASSUME NEW c \in Callers, APC_AddPendingWork(c)
      PROVE  CallerInv'
  <2>1. \A u \in Targets : pc'[u] \notin Completing
    BY <1>4, Alone DEF APC_AddPendingWork, targetVars
  <2>2. /\ at[c] = "scheduling" /\ at'[c] = "out" /\ UNCHANGED alive
        /\ \A d \in Callers : d # c => at'[d] = at[d] /\ on'[d] = on[d]
    BY <1>0, <1>4 DEF APC_AddPendingWork, Basics, CallerTypes
  <2>3. Updated(target[on[c]])
    BY <1>4, AddEffect
  <2>5. \A d \in Callers : at[d] = "scheduling" => worker'[on[d]] = worker[on[d]]
    BY <2>3, DeathSpares DEF Updated
  <2>6. \A q \in Pids : Range(queue'[q]) \subseteq Range(queue[q]) \cup {worker[on[c]]}
    BY <1>4, AddEffect
  <2>7. \A d \in Callers : d # c /\ at[d] = "scheduling" => worker[on[d]] # worker[on[c]]
    BY <1>0, <2>2
       DEF CallerInv, CallersHold, SchedulersOwn, SchedulersApart, LinkInv, JobsPoint,
            Basics
  <2>8. \A d \in Callers : d # c /\ at[d] = "scheduling" => ~InQueue(worker[on[d]])'
    BY <1>0, <2>2, <2>5, <2>6, <2>7 DEF CallerInv, SchedulersOwn, InQueue, Basics
  <2> QED
    BY <1>0, <2>1, <2>2, <2>5, <2>8 DEF CallerInv, CallersHold, SchedulersOwn,
         SchedulersApart
<1>5. ASSUME NEW c \in Callers, APC_AddPendingWorkFails(c)
      PROVE  CallerInv'
  <2>1. \A u \in Targets : pc'[u] \notin Completing
    BY <1>5, Alone DEF APC_AddPendingWorkFails, targetVars
  <2>2. /\ at[c] = "scheduling" /\ at'[c] = "out" /\ UNCHANGED alive
        /\ \A d \in Callers : d # c => at'[d] = at[d] /\ on'[d] = on[d]
    BY <1>0, <1>5 DEF APC_AddPendingWorkFails, Basics, CallerTypes
  <2>3. \/ worker' = worker /\ queue' = queue
        \/ Updated(target[on[c]]) /\ FailUpdates(c)
    BY <1>5, FailEffect DEF FailUpdates, FailLeaves
  <2>5. \A d \in Callers : at[d] = "scheduling" => worker'[on[d]] = worker[on[d]]
    BY <2>3, DeathSpares DEF Updated
  <2>6. \A q \in Pids : Range(queue'[q]) \subseteq Range(queue[q]) \cup {worker[on[c]]}
    <3>1. CASE queue' = queue
      BY <3>1
    <3>2. CASE FailUpdates(c)
      BY <1>0, <1>5, <3>2, FailEffect, PendingFacts DEF FailUpdates, Basics, ThreadTypes
    <3> QED
      BY <2>3, <3>1, <3>2
  <2>7. \A d \in Callers : d # c /\ at[d] = "scheduling" => worker[on[d]] # worker[on[c]]
    BY <1>0, <2>2
       DEF CallerInv, CallersHold, SchedulersOwn, SchedulersApart, LinkInv, JobsPoint,
            Basics
  <2>8. \A d \in Callers : d # c /\ at[d] = "scheduling" => ~InQueue(worker[on[d]])'
    BY <1>0, <2>2, <2>5, <2>6, <2>7 DEF CallerInv, SchedulersOwn, InQueue, Basics
  <2> QED
    BY <1>0, <2>1, <2>2, <2>5, <2>8 DEF CallerInv, CallersHold, SchedulersOwn,
         SchedulersApart
<1>6. ASSUME NEW c \in Callers, WaitReturns(c)
      PROVE  CallerInv'
  <2>1. /\ at'[c] # "scheduling" /\ (at'[c] = "out" \/ (on'[c] \in Jobs /\ alive[on'[c]]))
        /\ \A d \in Callers : d # c => at'[d] = at[d] /\ on'[d] = on[d]
    BY <1>0, <1>6 DEF WaitReturns, Basics, CallerTypes, CallerInv, CallersHold
  <2>2. UNCHANGED <<alive, worker, queue, pc, cur>>
    BY <1>6 DEF WaitReturns, jobVars, threadVars, targetVars
  <2> QED
    BY <1>0, <2>1, <2>2 DEF CallerInv, CallersHold, SchedulersOwn, SchedulersApart,
         InQueue
<1>7. ASSUME NEW c \in Callers, WaitTimesOut(c)
      PROVE  CallerInv'
  <2>1. /\ at'[c] # "scheduling" /\ (at'[c] = "out" \/ (on'[c] \in Jobs /\ alive[on'[c]]))
        /\ \A d \in Callers : d # c => at'[d] = at[d] /\ on'[d] = on[d]
    BY <1>0, <1>7 DEF WaitTimesOut, Basics, CallerTypes, CallerInv, CallersHold
  <2>2. UNCHANGED <<alive, worker, queue, pc, cur>>
    BY <1>7 DEF WaitTimesOut, jobVars, threadVars, targetVars
  <2> QED
    BY <1>0, <2>1, <2>2 DEF CallerInv, CallersHold, SchedulersOwn, SchedulersApart,
         InQueue
<1>8. ASSUME NEW c \in Callers, ReleaseOwner(c)
      PROVE  CallerInv'
  <2>1. /\ at'[c] # "scheduling" /\ (at'[c] = "out" \/ (on'[c] \in Jobs /\ alive[on'[c]]))
        /\ \A d \in Callers : d # c => at'[d] = at[d] /\ on'[d] = on[d]
    BY <1>0, <1>8 DEF ReleaseOwner, Basics, CallerTypes, CallerInv, CallersHold
  <2>2. UNCHANGED <<alive, worker, queue, pc, cur>>
    BY <1>8 DEF ReleaseOwner, jobVars, threadVars, targetVars
  <2> QED
    BY <1>0, <2>1, <2>2 DEF CallerInv, CallersHold, SchedulersOwn, SchedulersApart,
         InQueue
<1>9. ASSUME NEW t \in Targets, SwapUser(t)
      PROVE  CallerInv'
  <2>1. /\ UNCHANGED <<worker, alive, queue, cur, at, on>>
        /\ \A u \in Targets : pc'[u] \in Completing => pc[u] \in Completing
    BY <1>0, <1>9 DEF SwapUser, jobVars, roundVars, handlerVars, threadVars, callerVars,
         mutexes, Basics, TargetTypes, Completing
  <2> QED
    BY <1>0, <2>1 DEF CallerInv, CallersHold, SchedulersOwn, SchedulersApart, InQueue
<1>10. ASSUME NEW t \in Targets, ReturnToUser(t)
      PROVE  CallerInv'
  <2>1. /\ UNCHANGED <<worker, alive, queue, cur, at, on>>
        /\ \A u \in Targets : pc'[u] \in Completing => pc[u] \in Completing
    BY <1>0, <1>10 DEF ReturnToUser, jobVars, roundVars, handlerVars, threadVars,
         callerVars,
         mutexes, Basics, TargetTypes, Completing
  <2> QED
    BY <1>0, <2>1 DEF CallerInv, CallersHold, SchedulersOwn, SchedulersApart, InQueue
<1>11. ASSUME NEW t \in Targets, JobReturns(t)
      PROVE  CallerInv'
  <2>1. /\ UNCHANGED <<worker, alive, queue, cur, at, on>>
        /\ \A u \in Targets : pc'[u] \in Completing => pc[u] \in Completing
    BY <1>0, <1>11 DEF JobReturns, jobVars, roundVars, handlerVars, threadVars,
         callerVars,
         mutexes, Basics, TargetTypes, Completing
  <2> QED
    BY <1>0, <2>1 DEF CallerInv, CallersHold, SchedulersOwn, SchedulersApart, InQueue
<1>12. ASSUME NEW t \in Targets, NtfyFindsNoThread(t)
      PROVE  CallerInv'
  <2>1. /\ UNCHANGED <<worker, alive, queue, cur, at, on>>
        /\ \A u \in Targets : pc'[u] \in Completing => pc[u] \in Completing
    BY <1>0, <1>12 DEF NtfyFindsNoThread, jobVars, roundVars, handlerVars, threadVars,
         callerVars, mutexes, Basics, TargetTypes, Completing
  <2> QED
    BY <1>0, <2>1 DEF CallerInv, CallersHold, SchedulersOwn, SchedulersApart, InQueue
<1>13. ASSUME NEW t \in Targets, NtfyJobFinished(t)
      PROVE  CallerInv'
  <2>1. PICK h \in 1..made : InQueue(h) /\ cur' = [cur EXCEPT ![t] = h]
    BY <1>13, PopEffect
  <2>2. \A q \in Pids : Range(queue'[q]) \subseteq Range(queue[q])
    BY <1>0, <1>13, PopEffect DEF Basics, ThreadTypes
  <2>3. UNCHANGED <<worker, alive, at, on>>
    BY <1>13 DEF NtfyJobFinished, jobVars, callerVars
  <2>4. \A u \in Targets : pc'[u] \in Completing => u = t /\ cur'[u] = h
    BY <1>0, <1>13, <2>1, Alone DEF NtfyJobFinished, Basics, TargetTypes
  <2> QED
    BY <1>0, <2>1, <2>2, <2>3, <2>4
       DEF CallerInv, CallersHold, SchedulersOwn, SchedulersApart, InQueue
<1>14. ASSUME NEW t \in Targets, Hit(t)
      PROVE  CallerInv'
  <2>1. /\ UNCHANGED <<worker, alive, queue, cur, at, on>>
        /\ \A u \in Targets : pc'[u] \in Completing => pc[u] \in Completing
    BY <1>0, <1>14 DEF Hit, roundVars, threadVars, callerVars, Basics, TargetTypes,
         Completing
  <2> QED
    BY <1>0, <2>1 DEF CallerInv, CallersHold, SchedulersOwn, SchedulersApart, InQueue
<1>15. ASSUME NEW t \in Targets, TriggerBegins(t) \/ TriggerCannotSleep(t)
      PROVE  CallerInv'
  <2>1. /\ UNCHANGED <<worker, alive, queue, cur, at, on>>
        /\ \A u \in Targets : pc'[u] \in Completing => pc[u] \in Completing
    BY <1>0, <1>15 DEF TriggerBegins, TriggerCannotSleep, jobVars, handlerVars, threadVars, callerVars,
         mutexes,
         Basics, TargetTypes, Completing
  <2> QED
    BY <1>0, <2>1 DEF CallerInv, CallersHold, SchedulersOwn, SchedulersApart, InQueue
<1>16. ASSUME NEW t \in Targets, TriggerEnds(t)
      PROVE  CallerInv'
  <2>1. /\ UNCHANGED <<worker, alive, queue, cur, at, on>>
        /\ \A u \in Targets : pc'[u] \in Completing => pc[u] \in Completing
    BY <1>0, <1>16 DEF TriggerEnds, jobVars, handlerVars, threadVars, callerVars,
         mutexes,
         Basics, TargetTypes, Completing
  <2> QED
    BY <1>0, <2>1 DEF CallerInv, CallersHold, SchedulersOwn, SchedulersApart, InQueue
<1>17. ASSUME NEW t \in Targets, HitDetaches(t)
      PROVE  CallerInv'
  <2>1. /\ pc[t] = "detach" /\ parent[cur[t]] \in Jobs /\ worker[parent[cur[t]]] = cur[t]
        /\ UNCHANGED <<alive, queue, cur, at, on>>
    BY <1>0, <1>17
       DEF HitDetaches, Basics, threadVars, callerVars, LinkInv, HitLinked, Linked,
            Triggering
  <2>2. \A k \in Jobs : k # parent[cur[t]] => worker'[k] = worker[k]
    BY <1>0, <1>17 DEF HitDetaches, Basics, JobTypes
  <2>3. \A d \in Callers : at[d] = "scheduling" => worker'[on[d]] = worker[on[d]]
    BY <1>0, <2>1, <2>2 DEF CallerInv, SchedulersOwn, Completing, Basics
  <2>4. \A u \in Targets : pc'[u] \in Completing => pc[u] \in Completing
    BY <1>0, <1>17, <2>1 DEF HitDetaches, Basics, TargetTypes, Completing
  <2> QED
    BY <1>0, <2>1, <2>3, <2>4 DEF CallerInv, CallersHold, SchedulersOwn,
         SchedulersApart, InQueue
<1>18. ASSUME NEW t \in Targets, CallbackReturns(t)
      PROVE  CallerInv'
  <2>1. /\ UNCHANGED <<worker, alive, queue, cur, at, on>>
        /\ \A u \in Targets : pc'[u] \in Completing => pc[u] \in Completing
    BY <1>0, <1>18 DEF CallbackReturns, jobVars, roundVars, threadVars, callerVars,
         mutexes,
         Basics, TargetTypes, Completing
  <2> QED
    BY <1>0, <2>1 DEF CallerInv, CallersHold, SchedulersOwn, SchedulersApart, InQueue
<1>19. ASSUME NEW t \in Targets, NtfyGoesOn(t)
      PROVE  CallerInv'
  <2>1. /\ UNCHANGED <<worker, alive, queue, at, on>>
        /\ \A u \in Targets : pc'[u] \in Completing => pc'[u] = pc[u] /\ cur'[u] = cur[u]
    BY <1>0, <1>19 DEF NtfyGoesOn, Basics, TargetTypes, jobVars, callerVars, Completing
  <2> QED
    BY <1>0, <2>1 DEF CallerInv, CallersHold, SchedulersOwn, SchedulersApart, InQueue
<1>20. ASSUME NEW t \in Targets, NEW j \in Jobs, CallbackSchedules(t, j)
      PROVE  CallerInv'
  <2>1. /\ \A u \in Targets : pc'[u] \in Completing => pc[u] \in Completing
        /\ UNCHANGED <<alive, queue, cur, at, on>>
    BY <1>0, <1>20
       DEF CallbackSchedules, Basics, TargetTypes, threadVars, callerVars, Completing
  <2>2. \A d \in Callers : at[d] = "scheduling" => on[d] # j /\ worker'[on[d]] = worker[on[d]]
    BY <1>20, NewHandlerSpares DEF CallbackSchedules
  <2> QED
    BY <1>0, <2>1, <2>2 DEF CallerInv, CallersHold, SchedulersOwn, SchedulersApart,
         InQueue
<1>21. ASSUME NEW t \in Targets, ThreadExits(t)
      PROVE  CallerInv'
  <2>1. /\ UNCHANGED <<worker, alive, queue, cur, at, on>>
        /\ \A u \in Targets : pc'[u] \in Completing => pc[u] \in Completing
    BY <1>0, <1>21 DEF ThreadExits, jobVars, roundVars, handlerVars, threadVars,
         callerVars,
         mutexes, Basics, TargetTypes, Completing
  <2> QED
    BY <1>0, <2>1 DEF CallerInv, CallersHold, SchedulersOwn, SchedulersApart, InQueue
<1>22. ASSUME NEW t \in Targets, ThreadStarts(t)
      PROVE  CallerInv'
  <2>1. /\ UNCHANGED <<worker, alive, queue, cur, at, on>>
        /\ \A u \in Targets : pc'[u] \in Completing => pc[u] \in Completing
    BY <1>0, <1>22 DEF ThreadStarts, jobVars, roundVars, handlerVars, threadVars,
         callerVars,
         mutexes, Basics, TargetTypes, Completing
  <2> QED
    BY <1>0, <2>1 DEF CallerInv, CallersHold, SchedulersOwn, SchedulersApart, InQueue
<1>23. ASSUME APC_OnThreadExit
      PROVE  CallerInv'
  <2>1. Dying \in SUBSET (1..made) /\ \A h \in Dying : InQueue(h)
    BY DyingFacts
  <2>2. worker' = [j \in Jobs |-> IF \E h \in Dying : parent[h] = j THEN Null ELSE worker[j]]
    BY <1>23 DEF APC_OnThreadExit, Die
  <2>3. \A d \in Callers : at[d] = "scheduling" => worker'[on[d]] = worker[on[d]]
    BY <2>1, <2>2, DeathSpares
  <2>4. /\ UNCHANGED <<alive, at, on, cur>> /\ \A h \in 1..made : ~InQueue(h)'
        /\ \A p \in Pids : Range(queue'[p]) = {}
    BY <1>23, NothingInRange DEF APC_OnThreadExit, FreeDEProcess, callerVars, InQueue
  <2>5. \A u \in Targets : pc'[u] \notin Completing
    BY <1>0, <1>23, Alone DEF APC_OnThreadExit, Basics, TargetTypes, Completing
  <2> QED
    BY <1>0, <2>3, <2>4, <2>5 DEF CallerInv, CallersHold, SchedulersOwn,
         SchedulersApart, InQueue
<1>24. ASSUME NEW c \in Callers, NEW j \in Jobs, AwaitExecute(c, j)
      PROVE  CallerInv'
  <2>1. UNCHANGED <<at, on, alive, worker, queue, pc, cur>>
    BY <1>24 DEF AwaitExecute, roundVars, handlerVars, threadVars, swapVars, targetVars,
         callerVars, mutexes
  <2> QED
    BY <1>0, <2>1 DEF CallerInv, CallersHold, SchedulersOwn, SchedulersApart, InQueue,
         Basics
<1>25. CASE UNCHANGED vars
  BY <1>0, <1>25 DEF vars, jobVars, roundVars, handlerVars, threadVars, swapVars,
       targetVars, callerVars, mutexes, CallerInv, CallersHold, SchedulersOwn,
       SchedulersApart, InQueue, Basics
<1> QED
  BY <1>1, <1>2, <1>3, <1>4, <1>5, <1>6, <1>7, <1>8, <1>9, <1>10, <1>11, <1>12, <1>13,
       <1>14, <1>15, <1>16, <1>17, <1>18, <1>19, <1>20, <1>21, <1>22, <1>23, <1>24, <1>25
       DEF Next, Completion

(* At the start there is no handler.                                       *)
LEMMA InitInv == Init => IInv
<1> SUFFICES ASSUME Init PROVE IInv
  OBVIOUS
<1>1. target \in [Jobs -> Targets]
  BY DEF Init
<1>2. MaxHandlers \in Nat
  BY EngineAssumption
<1>3. queue = [p \in Pids |-> <<>>] /\ \A t \in Targets : pc[t] \in {"unborn", "user"}
  BY DEF Init
<1>4. JobTypes /\ RoundTypes /\ HandlerTypes
  BY <1>1, <1>2 DEF Init, JobTypes, RoundTypes, HandlerTypes, Null
<1>5. ThreadTypes
  BY <1>3, EmptySeq DEF Init, ThreadTypes, Stub, App
<1>6. SwapTypes /\ TargetTypes /\ CallerTypes
  BY <1>2 DEF Init, SwapTypes, TargetTypes, CallerTypes, Stub, App, Null
<1>7. MutexInv
  BY <1>3, EngineAssumption DEF Init, MutexInv, Completing, Triggering, Free
<1>8. PlaceInv
  BY <1>3, NothingInRange DEF PlaceInv, Completing
<1>9. LinkInv
  BY <1>3, NothingInRange
     DEF Init, LinkInv, JobsPoint, QueuedLinked, HitLinked, CallbackDetached, InQueue,
         Triggering
<1>10. CallerInv
  BY DEF Init, CallerInv, CallersHold, SchedulersOwn, SchedulersApart
<1> QED
  BY <1>4, <1>5, <1>6, <1>7, <1>8, <1>9, <1>10, TypeParts DEF IInv

(* IInv is inductive.                                                      *)
LEMMA InvStep ==
  ASSUME IInv, [Next]_vars
  PROVE  IInv'
BY TypeStep, MutexStep, PlaceStep, LinkStep, CallerStep DEF IInv

(* The invariant of the engine, on which the other results rest.           *)
THEOREM EngineInv == Spec => []IInv
<1>1. IInv /\ [Next]_vars => IInv'
  BY InvStep
<1> QED
  BY InitInv, <1>1, PTL DEF Spec

(* The types of all the engine keeps.                                      *)
THEOREM EngineTypesCorrect == Spec => []TypeOK
<1>1. IInv => TypeOK
  BY DEF IInv
<1> QED
  BY EngineInv, <1>1, PTL

(* Schedule, Hit, Die, exits and destructions in any order leave no job    *)
(* with a deleted handler, and no handler in use that is deleted or points *)
(* at a job that does not point back (ODEThread.cpp:141, ODEWork.cpp:57).  *)
THEOREM EngineLinksSound == Spec => []LinksSound
<1>1. IInv => LinksSound
  <2> SUFFICES ASSUME IInv PROVE LinksSound
    OBVIOUS
  <2>1. ASSUME NEW h \in InUse
        PROVE  h \notin freed /\ Linked(h)
    BY <2>1 DEF InUse, IInv, LinkInv, QueuedLinked, HitLinked, InQueue, Triggering
  <2> QED
    BY <2>1 DEF LinksSound, Linked, IInv, LinkInv, JobsPoint
<1> QED
  BY EngineInv, <1>1, PTL
=============================================================================
