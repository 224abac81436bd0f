---------------------------- MODULE WorkQueueProofs ----------------------------
(***************************************************************************)
(* What WorkQueue keeps.  The accounting of the owners holds for every     *)
(* choice of the constants.  That an owner sees a finished round, that no  *)
(* thread is left behind, and that the queue implements the round of tasks *)
(* hold for any number of owners and tasks, but need what the only user of *)
(* the queue has: one worker and no wake-up callback.                      *)
(***************************************************************************)
EXTENDS WorkQueue, FiniteSetTheorems, SequenceTheorems, TLAPS

-----------------------------------------------------------------------------
(* Lists of entries.                                                       *)

(* Appending an entry keeps the type and adds its thread to the live ones. *)
LEMMA AppendEntry ==
  ASSUME NEW list \in Seq(Entry), NEW t \in Threads
  PROVE  /\ Append(list, NewEntry(t)) \in Seq(Entry)
         /\ LiveThreads(Append(list, NewEntry(t))) = LiveThreads(list) \cup {t}
<1> DEFINE new == Append(list, NewEntry(t))
<1>1. NewEntry(t) \in Entry /\ NewEntry(t).thread = t /\ NewEntry(t).live
  BY DEF NewEntry, Entry
<1>2. /\ new \in Seq(Entry)
      /\ Len(list) \in Nat /\ DOMAIN list = 1..Len(list)
      /\ DOMAIN new = 1..(Len(list) + 1)
      /\ \A i \in 1..Len(list) : new[i] = list[i]
      /\ new[Len(list) + 1] = NewEntry(t)
  BY <1>1, AppendProperties, LenProperties
<1> HIDE DEF new
<1>3. ASSUME NEW u \in LiveThreads(new) PROVE u \in LiveThreads(list) \cup {t}
  <2>1. PICK i \in DOMAIN new : new[i].thread = u /\ new[i].live
    BY <1>3 DEF LiveThreads
  <2>2. CASE i \in 1..Len(list)
    BY <1>2, <1>3, <2>1, <2>2 DEF LiveThreads
  <2>3. CASE i = Len(list) + 1
    BY <1>1, <1>2, <2>1, <2>3
  <2> QED
    BY <1>2, <2>1, <2>2, <2>3
<1>4. LiveThreads(list) \subseteq LiveThreads(new)
  BY <1>2 DEF LiveThreads
<1>5. t \in LiveThreads(new)
  <2>1. Len(list) + 1 \in DOMAIN new
    BY <1>2
  <2> QED
    BY <1>1, <1>2, <2>1 DEF LiveThreads
<1> QED
  BY <1>2, <1>3, <1>4, <1>5 DEF new

(* A frame that dies takes its thread, and no other, from the live ones.   *)
LEMMA DeadFrame ==
  ASSUME NEW list \in Seq(Entry), NEW t \in Threads
  PROVE  /\ FrameDies(list, t) \in Seq(Entry)
         /\ LiveThreads(FrameDies(list, t)) = LiveThreads(list) \ {t}
<1> DEFINE new == FrameDies(list, t)
<1>1. list \in [1..Len(list) -> Entry] /\ Len(list) \in Nat /\ DOMAIN list = 1..Len(list)
  BY LenProperties
<1>2. new \in [1..Len(list) -> Entry]
  BY <1>1 DEF FrameDies, Entry
<1>3. new \in Seq(Entry)
  BY <1>1, <1>2, SeqDef
<1>4. \A i \in 1..Len(list) : /\ new[i].thread = list[i].thread
                              /\ new[i].live <=> list[i].live /\ list[i].thread # t
  BY <1>1 DEF FrameDies, Entry
<1>5. DOMAIN new = 1..Len(list)
  BY <1>2
<1> HIDE DEF new
<1>6. LiveThreads(new) = LiveThreads(list) \ {t}
  BY <1>1, <1>4, <1>5 DEF LiveThreads
<1> QED
  BY <1>3, <1>6 DEF new

LEMMA NoLiveThreads == LiveThreads(<<>>) = {}
BY EmptySeq DEF LiveThreads

(* What ContExecution does to the threads, spelled out.                    *)
LEMMA ContSignals ==
  ASSUME NEW list, ContExecution(list), SleepTypeOK, signal \in [Threads -> BOOLEAN]
  PROVE  /\ SleepTypeOK' /\ signal' \in [Threads -> BOOLEAN]
         /\ timer' = timer
         /\ \A t \in Threads :
              /\ signal'[t] <=> signal[t] \/ t \in LiveThreads(list)
              /\ sleep'[t] \in InLoop <=> sleep[t] \in InLoop
              /\ sleep[t] \notin InLoop => sleep'[t] = sleep[t]
BY DEF ContExecution, LinuxPokeThread, SleepTypeOK, SleepPhases, InLoop

(* The owners counted are finitely many.                                   *)
LEMMA CountedFinite ==
  /\ IsFiniteSet(InWait) /\ Cardinality(InWait) \in Nat
  /\ IsFiniteSet(Holders) /\ Cardinality(Holders) \in Nat
BY WorkQueueAssumption, FS_Subset, FS_CardinalityType DEF InWait, Holders

(* One owner fewer in a set that had it.                                   *)
LEMMA OneFewer ==
  ASSUME NEW S, IsFiniteSet(S), NEW t \in S
  PROVE  Cardinality(S \ {t}) = Cardinality(S) - 1 /\ Cardinality(S) \in Nat \ {0}
<1>1. Cardinality(S) # 0
  BY FS_EmptySet
<1> QED
  BY <1>1, FS_RemoveElement, FS_CardinalityType

-----------------------------------------------------------------------------
(* Types and the accounting of the owners.                                 *)

LEMMA CountInit == Init => CountInv
<1> SUFFICES ASSUME Init PROVE CountInv
  OBVIOUS
<1>1. TypeOK
  BY EmptySeq DEF Init, TypeOK, SleepInit, SleepTypeOK, SleepPhases, Timers
<1>2. InWait = {} /\ Holders = {}
  BY WorkQueueAssumption DEF Init, SleepInit, InWait, Holders
<1>3. OwnersAccounting
  BY <1>2, FS_EmptySet DEF OwnersAccounting, Init
<1> QED
  BY <1>1, <1>2, <1>3 DEF CountInv

(* A step that leaves the owners, and who of them waits or holds, alone.   *)
LEMMA SameOwners ==
  ASSUME CountInv, TypeOK', owners' = owners, isOwner' = isOwner,
         \A t \in Owners : sleep'[t] = "out" <=> sleep[t] = "out"
  PROVE  CountInv'
<1>1. InWait' = InWait /\ Holders' = Holders
  BY DEF InWait, Holders
<1> QED
  BY <1>1, WorkQueueAssumption DEF CountInv, OwnersAccounting, Holders

LEMMA FindsCompleteCounts ==
  ASSUME CountInv, NEW t \in Owners, WaitFindsComplete(t)
  PROVE  CountInv'
<1> USE DEF CountInv
<1>1. TypeOK'
  BY DEF TypeOK, WaitFindsComplete, sleepVars, SleepTypeOK
<1>2. InWait' = InWait /\ Holders' = Holders \cup {t} /\ t \notin Holders
  BY DEF InWait, Holders, WaitFindsComplete, sleepVars, TypeOK
<1>3. Cardinality(Holders') = Cardinality(Holders) + 1
  BY <1>2, CountedFinite, FS_AddElement
<1>4. OwnersAccounting'
  BY <1>2, <1>3, CountedFinite DEF OwnersAccounting, WaitFindsComplete
<1> QED
  BY <1>1, <1>2, <1>4 DEF WaitFindsComplete, sleepVars

LEMMA GoesToSleepCounts ==
  ASSUME CountInv, NEW t \in Owners, NEW ms \in Timeouts, WaitGoesToSleep(t, ms)
  PROVE  CountInv'
<1> USE DEF CountInv
<1>1. t \in Threads
  BY WorkQueueAssumption
<1>2. TypeOK'
  <2>1. SleepTypeOK'
    BY <1>1 DEF WaitGoesToSleep, EnterSleep, GetSleepState, TypeOK, SleepTypeOK, SleepPhases, Timers
  <2>2. waiters' \in Seq(Entry)
    BY <1>1, AppendEntry DEF WaitGoesToSleep, TypeOK
  <2>3. owners' \in Nat
    <3>1. owners \in Nat /\ owners' = owners + 1
      BY DEF WaitGoesToSleep, TypeOK
    <3> QED
      BY <3>1
  <2>5. signal' \in [Threads -> BOOLEAN]
    BY DEF WaitGoesToSleep, TypeOK
  <2>4. UNCHANGED <<activeWork, completed, workers, isOwner, working, lifetime, abandoned, unslept>>
    BY DEF WaitGoesToSleep
  <2> QED
    BY <2>1, <2>2, <2>3, <2>4, <2>5 DEF TypeOK
<1>3. InWait' = InWait \cup {t} /\ t \notin InWait /\ Holders' = Holders
  BY <1>1, WorkQueueAssumption
  DEF InWait, Holders, WaitGoesToSleep, EnterSleep, TypeOK, SleepTypeOK
<1>4. Cardinality(InWait') = Cardinality(InWait) + 1
  BY <1>3, CountedFinite, FS_AddElement
<1>5. OwnersAccounting'
  BY <1>3, <1>4, CountedFinite DEF OwnersAccounting, WaitGoesToSleep
<1>6. \A u \in Holders' : sleep'[u] = "out"
  BY <1>1, <1>3, WorkQueueAssumption
  DEF WaitGoesToSleep, EnterSleep, Holders, TypeOK, SleepTypeOK
<1> QED
  BY <1>2, <1>5, <1>6

LEMMA ReturnCounts ==
  ASSUME CountInv, NEW t \in Owners, WaitReturns(t)
  PROVE  CountInv'
<1> USE DEF CountInv
<1>1. t \in Threads /\ t \in InWait /\ t \notin Holders
  BY WorkQueueAssumption DEF WaitReturns, InWait, Holders
<1>2. InWait' = InWait \ {t}
  BY <1>1, WorkQueueAssumption DEF InWait, WaitReturns, LeaveSleep, TypeOK, SleepTypeOK
<1>3. Cardinality(InWait') = Cardinality(InWait) - 1 /\ Cardinality(InWait) > 0
  BY <1>1, <1>2, CountedFinite, OneFewer
<1>4. owners \in Nat /\ owners > 0
  BY <1>3, CountedFinite DEF OwnersAccounting, TypeOK
<1>5. TypeOK'
  <2>1. SleepTypeOK'
    BY <1>1 DEF WaitReturns, LeaveSleep, TypeOK, SleepTypeOK, SleepPhases, Timers
  <2>2. waiters' \in Seq(Entry)
    BY <1>1, DeadFrame DEF WaitReturns, TypeOK
  <2>3. isOwner' \in [Owners -> BOOLEAN] /\ owners' \in {owners, owners - 1}
    BY DEF WaitReturns, TypeOK
  <2>4. owners' \in Nat
    BY <1>4, <2>3
  <2> QED
    BY <2>1, <2>2, <2>3, <2>4 DEF WaitReturns, TypeOK
<1>6. \A u \in Threads : u # t => sleep'[u] = sleep[u]
  BY DEF WaitReturns, LeaveSleep, TypeOK, SleepTypeOK
<1>7. sleep'[t] = "out"
  BY <1>1 DEF WaitReturns, LeaveSleep, TypeOK, SleepTypeOK
<1>8. CASE sleep[t] = "woken"
  <2>1. Holders' = Holders \cup {t} /\ owners' = owners
    BY <1>8 DEF WaitReturns, Holders, TypeOK
  <2>2. Cardinality(Holders') = Cardinality(Holders) + 1
    BY <1>1, <2>1, CountedFinite, FS_AddElement
  <2>3. OwnersAccounting'
    BY <1>3, <2>1, <2>2, CountedFinite DEF OwnersAccounting
  <2> QED
    BY <1>5, <1>6, <1>7, <2>1, <2>3, WorkQueueAssumption DEF Holders
<1>9. CASE sleep[t] = "expired"
  <2>1. Holders' = Holders /\ owners' = owners - 1
    BY <1>9 DEF WaitReturns, Holders, TypeOK
  <2>2. OwnersAccounting'
    BY <1>3, <1>4, <2>1, CountedFinite DEF OwnersAccounting
  <2> QED
    BY <1>5, <1>6, <1>7, <2>1, <2>2, WorkQueueAssumption DEF Holders
<1> QED
  BY <1>8, <1>9 DEF WaitReturns

LEMMA ReleaseCounts ==
  ASSUME CountInv, NEW t \in Owners, ReleaseOwner(t)
  PROVE  CountInv'
<1> USE DEF CountInv
<1>1. t \in Holders
  BY DEF ReleaseOwner, Holders
<1>2. Holders' = Holders \ {t}
  BY DEF ReleaseOwner, Holders, TypeOK
<1>3. Cardinality(Holders') = Cardinality(Holders) - 1 /\ Cardinality(Holders) > 0
  BY <1>1, <1>2, CountedFinite, OneFewer
<1>4. owners \in Nat /\ owners > 0 /\ owners' = owners - 1
  BY <1>3, CountedFinite DEF OwnersAccounting, ReleaseOwner, TypeOK
<1>5. /\ SleepTypeOK' /\ signal' \in [Threads -> BOOLEAN]
      /\ \A u \in Threads : sleep'[u] = "out" <=> sleep[u] = "out"
  BY ContSignals DEF ReleaseOwner, TypeOK, sleepVars, SleepTypeOK, InLoop
<1>6. TypeOK'
  <2>1. owners' \in Nat
    BY <1>4
  <2>2. isOwner' \in [Owners -> BOOLEAN] /\ UNCHANGED <<waiters, working, lifetime, abandoned, unslept>>
    BY DEF ReleaseOwner, TypeOK
  <2>3. /\ activeWork' = 0 \/ activeWork' = activeWork
        /\ completed' = 0 \/ completed' = completed
        /\ workers' = <<>> \/ workers' = workers
    BY DEF ReleaseOwner
  <2>4. activeWork' \in Nat /\ completed' \in Nat /\ workers' \in Seq(Entry)
    <3>1. <<>> \in Seq(Entry)
      BY EmptySeq
    <3>2. activeWork \in Nat /\ completed \in Nat /\ workers \in Seq(Entry)
      BY DEF TypeOK
    <3>3. workers' \in Seq(Entry)
      BY <2>3, <3>1, <3>2, Zenon
    <3>4. activeWork' \in Nat /\ completed' \in Nat
      <4> HIDE DEF CountInv
      <4> QED
        BY <2>3, <3>2
    <3> QED
      BY <3>3, <3>4
  <2> QED
    BY <1>5, <2>1, <2>2, <2>4 DEF TypeOK
<1>7. InWait' = InWait
  BY <1>5, WorkQueueAssumption DEF InWait
<1>8. OwnersAccounting'
  BY <1>3, <1>4, <1>7, CountedFinite DEF OwnersAccounting
<1> QED
  BY <1>2, <1>5, <1>6, <1>8, WorkQueueAssumption DEF Holders

(* The checks of the loop in LinuxSleep, and its other steps.              *)
LEMMA LoopCounts ==
  ASSUME CountInv, NEW t \in Threads,
         \/ t \in Owners /\ WaitCheck(t)
         \/ t \in Workers /\ BeginWorkCheck(t)
         \/ SleepStep(t)
  PROVE  CountInv'
<1>1. TypeOK'
  BY DEF CountInv, TypeOK, WaitCheck, BeginWorkCheck, SleepStep, CheckWake, Schedule,
         TimerFires, Disturbed, Unrelated, counters, SleepTypeOK, SleepPhases, Timers
<1>2. \A u \in Threads : sleep'[u] = "out" <=> sleep[u] = "out"
  BY DEF CountInv, TypeOK, WaitCheck, BeginWorkCheck, SleepStep, CheckWake, Schedule,
         TimerFires, Disturbed, SleepTypeOK
<1>3. owners' = owners /\ isOwner' = isOwner
  BY DEF WaitCheck, BeginWorkCheck, SleepStep, Unrelated, counters
<1> QED
  BY <1>1, <1>2, <1>3, SameOwners, WorkQueueAssumption

(* What the workers do leaves the owners as they were.                     *)
LEMMA WorkerCounts ==
  ASSUME CountInv, NEW w \in Workers,
         \/ BeginWorkGoesOn(w) \/ BeginWorkGoesToSleep(w) \/ BeginWorkCannotSleep(w)
         \/ BeginWorkReturns(w) \/ EndWork(w)
  PROVE  CountInv'
<1> USE DEF CountInv
<1>1. w \in Threads /\ w \notin Owners
  BY WorkQueueAssumption
<1>2. CASE BeginWorkGoesOn(w)
  <2>1. TypeOK'
    BY <1>2 DEF BeginWorkGoesOn, TypeOK, sleepVars, SleepTypeOK
  <2> QED
    BY <1>2, <2>1, SameOwners DEF BeginWorkGoesOn, sleepVars
<1>3. CASE BeginWorkGoesToSleep(w)
  <2>1. SleepTypeOK' /\ workers' \in Seq(Entry)
    BY <1>1, <1>3, AppendEntry
    DEF BeginWorkGoesToSleep, EnterSleep, GetSleepState, TypeOK, SleepTypeOK, SleepPhases, Timers
  <2>2. TypeOK'
    BY <1>3, <2>1 DEF BeginWorkGoesToSleep, TypeOK, counters
  <2>3. \A u \in Owners : sleep'[u] = sleep[u]
    BY <1>1, <1>3, WorkQueueAssumption DEF BeginWorkGoesToSleep, EnterSleep, TypeOK, SleepTypeOK
  <2> QED
    BY <1>3, <2>2, <2>3, SameOwners DEF BeginWorkGoesToSleep, counters
<1>4. CASE BeginWorkReturns(w)
  <2>1. SleepTypeOK' /\ workers' \in Seq(Entry)
    BY <1>1, <1>4, DeadFrame
    DEF BeginWorkReturns, LeaveSleep, TypeOK, SleepTypeOK, SleepPhases, Timers
  <2>2. TypeOK'
    <3>1. activeWork' \in Nat
      BY <1>4 DEF BeginWorkReturns, TypeOK
    <3>2. working' \in [Workers -> BOOLEAN] /\ signal' \in [Threads -> BOOLEAN]
      BY <1>4 DEF BeginWorkReturns, TypeOK
    <3>3. UNCHANGED <<owners, completed, waiters, isOwner, lifetime, abandoned, unslept>>
      BY <1>4 DEF BeginWorkReturns
    <3> QED
      BY <2>1, <3>1, <3>2, <3>3 DEF TypeOK
  <2>3. \A u \in Owners : sleep'[u] = sleep[u]
    BY <1>1, <1>4, WorkQueueAssumption DEF BeginWorkReturns, LeaveSleep, TypeOK, SleepTypeOK
  <2> QED
    BY <1>4, <2>2, <2>3, SameOwners DEF BeginWorkReturns
<1>5. CASE EndWork(w)
  <2>1. /\ SleepTypeOK' /\ signal' \in [Threads -> BOOLEAN]
        /\ \A u \in Threads : sleep'[u] = "out" <=> sleep[u] = "out"
    BY <1>5, ContSignals DEF EndWork, TypeOK, sleepVars, SleepTypeOK, InLoop
  <2>2. waiters' \in Seq(Entry)
    BY <1>5, EmptySeq DEF EndWork, TypeOK
  <2>3. TypeOK'
    BY <1>5, <2>1, <2>2 DEF EndWork, TypeOK
  <2> QED
    BY <1>5, <2>1, <2>3, SameOwners, WorkQueueAssumption DEF EndWork
<1>6. CASE BeginWorkCannotSleep(w)
  <2>1. TypeOK'
    BY <1>6 DEF BeginWorkCannotSleep, TypeOK, sleepVars, SleepTypeOK
  <2> QED
    BY <1>6, <2>1, SameOwners DEF BeginWorkCannotSleep, sleepVars
<1> QED
  BY <1>2, <1>3, <1>4, <1>5, <1>6

(* Destroying the queue, poking an owner, and standing still.              *)
LEMMA RestCounts ==
  ASSUME CountInv, SpuriousWakeupOwners \/ Destroy \/ UNCHANGED vars
  PROVE  CountInv'
<1> USE DEF CountInv
<1>1. CASE SpuriousWakeupOwners
  <2>1. SleepTypeOK' /\ \A u \in Threads : sleep'[u] = "out" <=> sleep[u] = "out"
    BY <1>1 DEF SpuriousWakeupOwners, LinuxPokeThread, TypeOK, SleepTypeOK, SleepPhases
  <2>2. TypeOK'
    BY <1>1, <2>1 DEF SpuriousWakeupOwners, TypeOK, counters
  <2> QED
    BY <1>1, <2>1, <2>2, SameOwners, WorkQueueAssumption DEF SpuriousWakeupOwners, counters
<1>2. CASE Destroy
  <2>1. TypeOK'
    BY <1>2 DEF Destroy, TypeOK, counters, sleepVars, SleepTypeOK
  <2> QED
    BY <1>2, <2>1, SameOwners DEF Destroy, counters, sleepVars
<1>3. CASE UNCHANGED vars
  <2>1. TypeOK'
    BY <1>3 DEF vars, TypeOK, SleepTypeOK
  <2> QED
    BY <1>3, <2>1, SameOwners DEF vars
<1> QED
  BY <1>1, <1>2, <1>3

LEMMA CountStep == CountInv /\ [Next]_vars => CountInv'
<1> SUFFICES ASSUME CountInv, [Next]_vars PROVE CountInv'
  OBVIOUS
<1>1. Owners \subseteq Threads /\ Workers \subseteq Threads
  BY WorkQueueAssumption
<1> QED
  BY <1>1, FindsCompleteCounts, GoesToSleepCounts, ReturnCounts, ReleaseCounts, LoopCounts,
     WorkerCounts, RestCounts DEF Next

LEMMA CountHolds == Spec => []CountInv
<1>1. Init => CountInv
  BY CountInit
<1>2. CountInv /\ [Next]_vars => CountInv'
  BY CountStep
<1> QED
  BY <1>1, <1>2, PTL DEF Spec

(* Every variable keeps its type; for _owners, which is unsigned and is    *)
(* lowered after each timeout, that means it never wraps below zero.       *)
THEOREM TypeCorrect == Spec => []TypeOK
<1>1. CountInv => TypeOK
  BY DEF CountInv
<1> QED
  BY <1>1, CountHolds, PTL

(* _owners counts the threads that wait or own the queue, with any number  *)
(* of workers, timeouts and wake-up callbacks.                             *)
THEOREM OwnersCounted == Spec => []OwnersAccounting
<1>1. CountInv => OwnersAccounting
  BY DEF CountInv
<1> QED
  BY <1>1, CountHolds, PTL

(* The types the steps below need, in one place.                           *)
LEMMA Types ==
  ASSUME CountInv
  PROVE  /\ sleep \in [Threads -> SleepPhases] /\ timer \in [Threads -> Timers]
         /\ signal \in [Threads -> BOOLEAN]
         /\ isOwner \in [Owners -> BOOLEAN] /\ working \in [Workers -> BOOLEAN]
         /\ activeWork \in Nat /\ completed \in Nat /\ owners \in Nat
         /\ waiters \in Seq(Entry) /\ workers \in Seq(Entry)
         /\ WorkItems \in Nat /\ WorkItems > 0
         /\ Owners \subseteq Threads /\ Workers \subseteq Threads
         /\ \A t \in Owners : t \notin Workers
         /\ \A t \in Threads : t \in Owners \/ t \in Workers
         /\ \A t \in Owners : isOwner[t] => sleep[t] = "out"
BY WorkQueueAssumption DEF CountInv, TypeOK, SleepTypeOK, Holders

-----------------------------------------------------------------------------
(* The destructor's assertions, with any workers, timeouts and callbacks.  *)

(* Whose entry is in the list has not returned, and was not signalled yet. *)
AllWaiting(list, S) ==
  \A i \in DOMAIN list :
    /\ list[i].live /\ list[i].thread \in S
    /\ sleep[list[i].thread] # "out" /\ ~signal[list[i].thread]

(* A worker leaves its list only by being signalled, an owner also by its  *)
(* time limit or its callback, which is what "abandoned" remembers.        *)
ListsInv ==
  /\ AllWaiting(workers, Workers)
  /\ ~abandoned => AllWaiting(waiters, Owners)
  /\ \A i \in DOMAIN waiters : waiters[i].thread \in Owners
  /\ \A w \in Workers : /\ timer[w] = "forever" /\ sleep[w] # "expired"
                        /\ sleep[w] = "woken" => signal[w]
  /\ DestroyAssertion

(* A thread that was outside goes to sleep behind those that wait.         *)
LEMMA AppendWaiting ==
  ASSUME NEW list \in Seq(Entry), NEW S \in SUBSET Threads, NEW t \in S,
         AllWaiting(list, S), sleep[t] = "out",
         sleep'[t] # "out" /\ ~signal'[t],
         \A u \in S : u # t => sleep'[u] = sleep[u] /\ signal'[u] = signal[u]
  PROVE  \A i \in DOMAIN Append(list, NewEntry(t)) :
           /\ Append(list, NewEntry(t))[i].live /\ Append(list, NewEntry(t))[i].thread \in S
           /\ sleep'[Append(list, NewEntry(t))[i].thread] # "out"
           /\ ~signal'[Append(list, NewEntry(t))[i].thread]
<1> DEFINE new == Append(list, NewEntry(t))
<1>1. NewEntry(t) \in Entry /\ NewEntry(t).thread = t /\ NewEntry(t).live
  BY DEF NewEntry, Entry
<1>2. /\ Len(list) \in Nat /\ DOMAIN list = 1..Len(list)
      /\ DOMAIN new = 1..(Len(list) + 1)
      /\ \A i \in 1..Len(list) : new[i] = list[i]
      /\ new[Len(list) + 1] = NewEntry(t)
  BY <1>1, AppendProperties, LenProperties
<1> HIDE DEF new
<1>3. ASSUME NEW i \in DOMAIN new
      PROVE  /\ new[i].live /\ new[i].thread \in S
             /\ sleep'[new[i].thread] # "out" /\ ~signal'[new[i].thread]
  <2>1. CASE i = Len(list) + 1
    BY <1>1, <1>2, <2>1
  <2>2. CASE i \in 1..Len(list)
    BY <1>2, <2>2 DEF AllWaiting
  <2> QED
    BY <1>2, <2>1, <2>2
<1> QED
  BY <1>3 DEF new

(* Appending and dying keep whose the entries are.                         *)
LEMMA WhoseEntries ==
  ASSUME NEW list \in Seq(Entry), NEW S \in SUBSET Threads, NEW t \in S,
         \A i \in DOMAIN list : list[i].thread \in S
  PROVE  /\ \A i \in DOMAIN Append(list, NewEntry(t)) :
              Append(list, NewEntry(t))[i].thread \in S
         /\ \A i \in DOMAIN FrameDies(list, t) : FrameDies(list, t)[i].thread \in S
<1>1. NewEntry(t) \in Entry /\ NewEntry(t).thread = t
  BY DEF NewEntry, Entry
<1>2. list \in [1..Len(list) -> Entry] /\ Len(list) \in Nat /\ DOMAIN list = 1..Len(list)
  BY LenProperties
<1>3. \A i \in DOMAIN Append(list, NewEntry(t)) : Append(list, NewEntry(t))[i].thread \in S
  BY <1>1, <1>2, AppendProperties
<1>4. \A i \in DOMAIN list : FrameDies(list, t)[i].thread = list[i].thread
  BY <1>2 DEF FrameDies, Entry
<1> QED
  BY <1>3, <1>4 DEF FrameDies

(* A frame that nothing in the list points to dies unnoticed.              *)
LEMMA FrameNotListed ==
  ASSUME NEW list \in Seq(Entry), NEW t, \A i \in DOMAIN list : list[i].thread # t
  PROVE  FrameDies(list, t) = list
BY LenProperties DEF FrameDies

(* Those whose threads stand as they stood go on waiting.                  *)
LEMMA StillWaiting ==
  ASSUME NEW list, NEW S, AllWaiting(list, S),
         \A t \in S : sleep[t] # "out" /\ ~signal[t] => sleep'[t] # "out" /\ ~signal'[t]
  PROVE  \A i \in DOMAIN list :
           /\ list[i].live /\ list[i].thread \in S
           /\ sleep'[list[i].thread] # "out" /\ ~signal'[list[i].thread]
BY DEF AllWaiting

(* ContExecution signals only those it takes out of the list.              *)
LEMMA ContOthers ==
  ASSUME CountInv, NEW list, NEW S, AllWaiting(list, S), ContExecution(list)
  PROVE  /\ timer' = timer
         /\ \A t \in Threads : /\ sleep'[t] = "out" <=> sleep[t] = "out"
                               /\ sleep'[t] = "expired" <=> sleep[t] = "expired"
                               /\ sleep'[t] = "woken" <=> sleep[t] = "woken"
                               /\ signal[t] => signal'[t]
         /\ \A t \in Threads \ S : signal'[t] <=> signal[t]
<1>1. SleepTypeOK /\ signal \in [Threads -> BOOLEAN]
  BY DEF CountInv, TypeOK
<1>2. LiveThreads(list) \subseteq S
  BY DEF AllWaiting, LiveThreads
<1> QED
  BY <1>1, <1>2, ContSignals DEF InLoop

LEMMA ListsStep ==
  ASSUME CountInv, ListsInv, [Next]_vars
  PROVE  ListsInv'
<1> USE Types
<1>1. ASSUME NEW t \in Owners, WaitFindsComplete(t)
      PROVE  ListsInv'
  BY <1>1 DEF WaitFindsComplete, sleepVars, ListsInv, AllWaiting, DestroyAssertion
<1>2. ASSUME NEW t \in Owners, NEW ms \in Timeouts, WaitGoesToSleep(t, ms)
      PROVE  ListsInv'
  <2>1. /\ sleep[t] = "out" /\ sleep'[t] # "out" /\ ~signal'[t]
        /\ \A u \in Threads : u # t => /\ sleep'[u] = sleep[u] /\ signal'[u] = signal[u]
                                       /\ timer'[u] = timer[u]
        /\ waiters' = Append(waiters, NewEntry(t))
        /\ UNCHANGED <<workers, lifetime, abandoned, unslept>>
    BY <1>2 DEF WaitGoesToSleep, EnterSleep
  <2>2. ~abandoned => AllWaiting(waiters, Owners)'
    <3>1. SUFFICES ASSUME AllWaiting(waiters, Owners)
                   PROVE  AllWaiting(waiters, Owners)'
      BY DEF ListsInv
    <3>2. waiters \in Seq(Entry) /\ Owners \in SUBSET Threads
      OBVIOUS
    <3>3. \A i \in DOMAIN Append(waiters, NewEntry(t)) :
             /\ Append(waiters, NewEntry(t))[i].live
             /\ Append(waiters, NewEntry(t))[i].thread \in Owners
             /\ sleep'[Append(waiters, NewEntry(t))[i].thread] # "out"
             /\ ~signal'[Append(waiters, NewEntry(t))[i].thread]
      <4>1. sleep'[t] # "out" /\ ~signal'[t] /\ sleep[t] = "out" /\ t \in Owners
        BY <2>1
      <4>2. \A u \in Owners : u # t => sleep'[u] = sleep[u] /\ signal'[u] = signal[u]
        BY <2>1, <3>2
      <4> QED
        BY <3>1, <3>2, <4>1, <4>2, AppendWaiting
    <3> QED
      BY <2>1, <3>3 DEF AllWaiting
  <2>3. AllWaiting(workers, Workers)'
    BY <2>1, StillWaiting DEF ListsInv, AllWaiting
  <2>4. \A i \in DOMAIN waiters' : waiters'[i].thread \in Owners
    BY <2>1, WhoseEntries DEF ListsInv
  <2> QED
    BY <2>1, <2>2, <2>3, <2>4 DEF ListsInv, DestroyAssertion
<1>3. ASSUME NEW t \in Owners, WaitReturns(t)
      PROVE  ListsInv'
  <2>1. /\ sleep[t] # "out"
        /\ \A u \in Threads : u # t => /\ sleep'[u] = sleep[u] /\ signal'[u] = signal[u]
                                       /\ timer'[u] = timer[u]
        /\ waiters' = FrameDies(waiters, t) /\ abandoned' = (abandoned \/ ~signal[t])
        /\ UNCHANGED <<workers, lifetime>>
    BY <1>3 DEF WaitReturns, LeaveSleep
  <2>2. ASSUME ~abandoned'
        PROVE  AllWaiting(waiters, Owners)'
    <3>1. AllWaiting(waiters, Owners) /\ signal[t]
      BY <2>1, <2>2 DEF ListsInv
    <3>2. \A i \in DOMAIN waiters : waiters[i].thread # t
      BY <3>1 DEF AllWaiting
    <3>3. waiters' = waiters
      BY <2>1, <3>2, FrameNotListed
    <3> QED
      BY <2>1, <3>1, <3>2, <3>3 DEF AllWaiting
  <2>3. AllWaiting(workers, Workers)'
    <3>1. AllWaiting(workers, Workers) /\ \A u \in Workers : u \in Threads /\ u # t
      BY DEF ListsInv
    <3> QED
      BY <2>1, <3>1, StillWaiting DEF AllWaiting
  <2>4. \A i \in DOMAIN waiters' : waiters'[i].thread \in Owners
    BY <2>1, WhoseEntries DEF ListsInv
  <2> QED
    BY <2>1, <2>2, <2>3, <2>4 DEF ListsInv, DestroyAssertion
<1>4. ASSUME NEW t \in Owners, ReleaseOwner(t)
      PROVE  ListsInv'
  <2>1. CASE owners = 1
    <3>1. /\ ContExecution(workers) /\ workers' = <<>>
          /\ UNCHANGED <<waiters, lifetime, abandoned, unslept>>
      BY <1>4, <2>1 DEF ReleaseOwner
    <3>2. AllWaiting(workers, Workers)
      BY DEF ListsInv
    <3>3. AllWaiting(workers, Workers)'
      BY <3>1, EmptySeq DEF AllWaiting
    <3>4. \A u \in Owners : sleep[u] # "out" /\ ~signal[u] => sleep'[u] # "out" /\ ~signal'[u]
      BY <3>1, <3>2, ContOthers
    <3>5. ~abandoned' => AllWaiting(waiters, Owners)'
      BY <3>1, <3>4, StillWaiting DEF ListsInv, AllWaiting
    <3> QED
      BY <3>1, <3>2, <3>3, <3>5, ContOthers DEF ListsInv, DestroyAssertion
  <2>2. CASE owners # 1
    BY <1>4, <2>2 DEF ReleaseOwner, sleepVars, ListsInv, AllWaiting, DestroyAssertion
  <2> QED
    BY <2>1, <2>2
<1>5. ASSUME NEW w \in Workers, BeginWorkGoesOn(w)
      PROVE  ListsInv'
  BY <1>5 DEF BeginWorkGoesOn, sleepVars, ListsInv, AllWaiting, DestroyAssertion
<1>6. ASSUME NEW w \in Workers, BeginWorkGoesToSleep(w)
      PROVE  ListsInv'
  <2>1. /\ sleep[w] = "out" /\ sleep'[w] = "checking" /\ ~signal'[w] /\ timer'[w] = "forever"
        /\ \A u \in Threads : u # w => /\ sleep'[u] = sleep[u] /\ signal'[u] = signal[u]
                                       /\ timer'[u] = timer[u]
        /\ workers' = Append(workers, NewEntry(w))
        /\ UNCHANGED <<waiters, lifetime, abandoned, unslept>>
    BY <1>6 DEF BeginWorkGoesToSleep, EnterSleep, GetSleepState
  <2>2. AllWaiting(workers, Workers)'
    <3>1. AllWaiting(workers, Workers)
      BY DEF ListsInv
    <3>2. workers \in Seq(Entry) /\ Workers \in SUBSET Threads
      OBVIOUS
    <3>3. \A i \in DOMAIN Append(workers, NewEntry(w)) :
             /\ Append(workers, NewEntry(w))[i].live
             /\ Append(workers, NewEntry(w))[i].thread \in Workers
             /\ sleep'[Append(workers, NewEntry(w))[i].thread] # "out"
             /\ ~signal'[Append(workers, NewEntry(w))[i].thread]
      <4>1. sleep'[w] # "out" /\ ~signal'[w] /\ sleep[w] = "out" /\ w \in Workers
        BY <2>1
      <4>2. \A u \in Workers : u # w => sleep'[u] = sleep[u] /\ signal'[u] = signal[u]
        BY <2>1, <3>2
      <4> QED
        BY <3>1, <3>2, <4>1, <4>2, AppendWaiting
    <3> QED
      BY <2>1, <3>3 DEF AllWaiting
  <2>3. ~abandoned => AllWaiting(waiters, Owners)'
    BY <2>1, StillWaiting DEF ListsInv, AllWaiting
  <2> QED
    BY <2>1, <2>2, <2>3 DEF ListsInv, DestroyAssertion
<1>7. ASSUME NEW w \in Workers, BeginWorkReturns(w)
      PROVE  ListsInv'
  <2>1. /\ sleep[w] \in {"woken", "expired"} /\ sleep'[w] = "out" /\ timer'[w] = "forever"
        /\ \A u \in Threads : u # w => /\ sleep'[u] = sleep[u] /\ signal'[u] = signal[u]
                                       /\ timer'[u] = timer[u]
        /\ workers' = FrameDies(workers, w)
        /\ UNCHANGED <<waiters, lifetime, abandoned, unslept>>
    BY <1>7 DEF BeginWorkReturns, LeaveSleep
  <2>2. \A i \in DOMAIN workers : workers[i].thread # w
    BY <2>1 DEF ListsInv, AllWaiting
  <2>3. workers' = workers
    BY <2>1, <2>2, FrameNotListed
  <2>4. AllWaiting(workers, Workers)'
    BY <2>1, <2>2, <2>3 DEF ListsInv, AllWaiting
  <2>5. ~abandoned => AllWaiting(waiters, Owners)'
    BY <2>1, StillWaiting DEF ListsInv, AllWaiting
  <2> QED
    BY <2>1, <2>4, <2>5 DEF ListsInv, DestroyAssertion
<1>8. ASSUME NEW w \in Workers, EndWork(w)
      PROVE  ListsInv'
  <2>1. CASE completed' = WorkItems
    <3>1. /\ ContExecution(waiters) /\ waiters' = <<>>
          /\ UNCHANGED <<workers, lifetime, abandoned, unslept>>
      BY <1>8, <2>1 DEF EndWork
    <3>2. AllWaiting(waiters, Owners)'
      BY <3>1, EmptySeq DEF AllWaiting
    <3>3. /\ timer' = timer
          /\ \A u \in Threads : /\ sleep'[u] = "out" <=> sleep[u] = "out"
                                /\ sleep'[u] = "expired" <=> sleep[u] = "expired"
                                /\ sleep'[u] = "woken" <=> sleep[u] = "woken"
                                /\ signal[u] => signal'[u]
      BY <3>1, ContSignals DEF CountInv, TypeOK, InLoop
    <3>4. LiveThreads(waiters) \subseteq Owners
      BY DEF ListsInv, LiveThreads
    <3>5. \A u \in Workers : signal'[u] <=> signal[u]
      BY <3>1, <3>4, ContSignals DEF CountInv, TypeOK
    <3>6. AllWaiting(workers, Workers)'
      BY <3>1, <3>3, <3>5, StillWaiting DEF ListsInv, AllWaiting
    <3> QED
      BY <3>1, <3>2, <3>3, <3>6, EmptySeq DEF ListsInv, DestroyAssertion
  <2>2. CASE completed' # WorkItems
    BY <1>8, <2>2 DEF EndWork, sleepVars, ListsInv, AllWaiting, DestroyAssertion
  <2> QED
    BY <2>1, <2>2
<1>9. ASSUME NEW t \in Threads,
             \/ t \in Owners /\ WaitCheck(t)
             \/ t \in Workers /\ BeginWorkCheck(t)
             \/ SleepStep(t)
      PROVE  ListsInv'
  <2>1. /\ UNCHANGED <<waiters, workers, signal, lifetime, abandoned, unslept>>
        /\ \A u \in Threads : u # t => sleep'[u] = sleep[u] /\ timer'[u] = timer[u]
        /\ sleep[t] # "out" /\ sleep'[t] # "out"
        /\ timer[t] = "forever" => timer'[t] = "forever" /\ sleep'[t] # "expired"
        /\ t \in Workers /\ sleep'[t] = "woken" => signal'[t]
    BY <1>9 DEF WaitCheck, BeginWorkCheck, SleepStep, CheckWake, LinuxSleepTimedout, Schedule,
         TimerFires, Disturbed, Unrelated, counters
  <2>2. AllWaiting(workers, Workers)'
    BY <2>1, StillWaiting DEF ListsInv, AllWaiting
  <2>3. ~abandoned => AllWaiting(waiters, Owners)'
    BY <2>1, StillWaiting DEF ListsInv, AllWaiting
  <2> QED
    BY <2>1, <2>2, <2>3 DEF ListsInv, DestroyAssertion
<1>10. ASSUME SpuriousWakeupOwners
       PROVE  ListsInv'
  <2>1. /\ UNCHANGED <<timer, waiters, workers, signal, lifetime, abandoned, unslept>>
        /\ \A u \in Threads : /\ sleep'[u] = "out" <=> sleep[u] = "out"
                              /\ sleep'[u] = "expired" <=> sleep[u] = "expired"
                              /\ sleep'[u] = "woken" <=> sleep[u] = "woken"
    BY <1>10 DEF SpuriousWakeupOwners, LinuxPokeThread
  <2>2. AllWaiting(workers, Workers)'
    BY <2>1, StillWaiting DEF ListsInv, AllWaiting
  <2>3. ~abandoned => AllWaiting(waiters, Owners)'
    BY <2>1, StillWaiting DEF ListsInv, AllWaiting
  <2> QED
    BY <2>1, <2>2, <2>3 DEF ListsInv, DestroyAssertion
<1>11. ASSUME Destroy
       PROVE  ListsInv'
  <2>1. /\ \A t \in Threads : sleep[t] = "out"
        /\ lifetime' = "panicked" => workers # <<>> \/ waiters # <<>>
        /\ UNCHANGED <<sleep, timer, waiters, workers, signal, abandoned>>
    BY <1>11 DEF Destroy, sleepVars
  <2>0. \A list \in Seq(Entry) : (\A i \in DOMAIN list : FALSE) => list = <<>>
    <3> SUFFICES ASSUME NEW list \in Seq(Entry), \A i \in DOMAIN list : FALSE
                 PROVE  list = <<>>
      OBVIOUS
    <3>1. Len(list) \in Nat /\ DOMAIN list = 1..Len(list)
      BY LenProperties
    <3>2. Len(list) = 0
      <4>1. ~ 1 \in DOMAIN list
        OBVIOUS
      <4> QED
        BY <3>1, <4>1
    <3> QED
      BY <3>2, EmptySeq
  <2>2. workers = <<>>
    <3>1. \A i \in DOMAIN workers : FALSE
      BY <2>1 DEF ListsInv, AllWaiting
    <3> QED
      BY <3>1, <2>0
  <2>3. ~abandoned => waiters = <<>>
    <3>1. ~abandoned => \A i \in DOMAIN waiters : FALSE
      BY <2>1 DEF ListsInv, AllWaiting
    <3> QED
      BY <3>1, <2>0
  <2> QED
    BY <2>1, <2>2, <2>3 DEF ListsInv, AllWaiting, DestroyAssertion
<1>13. ASSUME NEW w \in Workers, BeginWorkCannotSleep(w)
       PROVE  ListsInv'
  BY <1>13 DEF BeginWorkCannotSleep, sleepVars, ListsInv, AllWaiting, DestroyAssertion
<1>12. CASE UNCHANGED vars
  BY <1>12 DEF vars, ListsInv, AllWaiting, DestroyAssertion
<1> QED
  BY <1>1, <1>2, <1>3, <1>4, <1>5, <1>6, <1>7, <1>8, <1>9, <1>10, <1>11, <1>12, <1>13 DEF Next

(* The assertions of the destructor, which nobody tests by destroying a    *)
(* queue that was waited on with a limit (OWorkQueue.cpp:246), hold for    *)
(* any owners, workers and callbacks until a wait has been abandoned.      *)
THEOREM DestroyNeedsAbandoned == Spec => []DestroyAssertion
<1>1. Init => ListsInv
  BY EmptySeq, WorkQueueAssumption
  DEF Init, SleepInit, ListsInv, AllWaiting, DestroyAssertion
<1>2. CountInv /\ ListsInv /\ [Next]_vars => ListsInv'
  BY ListsStep
<1>3. ListsInv => DestroyAssertion
  BY DEF ListsInv
<1> QED
  BY CountHolds, <1>1, <1>2, <1>3, PTL DEF Spec

-----------------------------------------------------------------------------
(* The round, as the deferred execution engine uses the queue.             *)

SingleUse == UsesWakeup = FALSE /\ \A v, w \in Workers : v = w

LEMMA RoundInit == Init => RoundInv
<1> SUFFICES ASSUME Init PROVE RoundInv
  OBVIOUS
<1>1. CountInv
  BY CountInit
<1>2. LiveThreads(waiters) = {} /\ LiveThreads(workers) = {}
  BY NoLiveThreads DEF Init
<1>3. QueuesInv
  BY <1>1, <1>2, Types DEF Init, SleepInit, QueuesInv, InLoop
<1>4. ProgressInv
  BY <1>1, Types DEF Init, SleepInit, ProgressInv, InLoop
<1> QED
  BY <1>1, <1>3, <1>4 DEF RoundInv

LEMMA FindsCompleteKeeps ==
  ASSUME RoundInv, CountInv', NEW t \in Owners, WaitFindsComplete(t)
  PROVE  RoundInv'
<1>1. /\ UNCHANGED <<sleep, timer, activeWork, completed, waiters, workers, signal, working, unslept>>
      /\ isOwner' = [isOwner EXCEPT ![t] = TRUE]
      /\ completed = WorkItems
  BY DEF WaitFindsComplete, sleepVars
<1>2. QueuesInv'
  BY <1>1 DEF RoundInv, QueuesInv
<1>3. ASSUME ~unslept PROVE ProgressInv'
  BY <1>3, <1>1, Types DEF RoundInv, ProgressInv
<1> QED
  BY <1>1, <1>2, <1>3 DEF RoundInv

LEMMA GoesToSleepKeeps ==
  ASSUME RoundInv, CountInv', NEW t \in Owners, NEW ms \in Timeouts, WaitGoesToSleep(t, ms)
  PROVE  RoundInv'
<1> USE Types DEF RoundInv
<1>1. /\ sleep[t] = "out" /\ isOwner[t] = FALSE /\ completed # WorkItems
      /\ sleep' = [sleep EXCEPT ![t] = "checking"]
      /\ signal' = [signal EXCEPT ![t] = FALSE]
      /\ \A u \in Threads : u # t => timer'[u] = timer[u]
      /\ UNCHANGED <<activeWork, completed, workers, isOwner, working, unslept>>
  BY DEF WaitGoesToSleep, EnterSleep
<1>2. LiveThreads(waiters') = LiveThreads(waiters) \cup {t}
  BY AppendEntry DEF WaitGoesToSleep
<1>3. QueuesInv'
  BY <1>1, <1>2 DEF QueuesInv, InLoop
<1>4. ASSUME ~unslept PROVE ProgressInv'
  BY <1>4, <1>1 DEF ProgressInv, InLoop
<1> QED
  BY <1>1, <1>3, <1>4

LEMMA ReturnKeeps ==
  ASSUME RoundInv, CountInv', NEW t \in Owners, WaitReturns(t)
  PROVE  RoundInv'
<1> USE Types DEF RoundInv
<1>1. /\ sleep[t] = "woken" \/ sleep[t] = "expired"
      /\ sleep' = [sleep EXCEPT ![t] = "out"]
      /\ signal' = [signal EXCEPT ![t] = FALSE]
      /\ timer' = [timer EXCEPT ![t] = "forever"]
      /\ UNCHANGED <<activeWork, completed, workers, working, unslept>>
      /\ sleep[t] = "woken" => isOwner' = [isOwner EXCEPT ![t] = TRUE]
      /\ sleep[t] # "woken" => isOwner' = isOwner
  BY DEF WaitReturns, LeaveSleep
<1>2. LiveThreads(waiters') = LiveThreads(waiters) \ {t}
  BY DeadFrame DEF WaitReturns
<1>3. QueuesInv'
  BY <1>1, <1>2 DEF QueuesInv, InLoop
<1>4. ~unslept => (sleep[t] = "woken" => completed = WorkItems)
  BY DEF QueuesInv, ProgressInv
<1>5. ASSUME ~unslept PROVE ProgressInv'
  BY <1>5, <1>1, <1>4 DEF ProgressInv, InLoop
<1> QED
  BY <1>1, <1>3, <1>5

(* The only owner there is, when the count says so.                        *)
LEMMA LastOwner ==
  ASSUME CountInv, NEW t \in Holders, owners = 1
  PROVE  Holders = {t} /\ InWait = {}
<1>1. Cardinality(Holders \ {t}) = Cardinality(Holders) - 1 /\ Cardinality(Holders) \in Nat \ {0}
  BY CountedFinite, OneFewer
<1>2. Cardinality(InWait) = 0 /\ Cardinality(Holders \ {t}) = 0
  BY <1>1, CountedFinite DEF CountInv, OwnersAccounting
<1>3. InWait = {} /\ Holders \ {t} = {}
  BY <1>2, CountedFinite, FS_EmptySet, FS_RemoveElement, FS_Subset
<1> QED
  BY <1>3

LEMMA ReleaseKeeps ==
  ASSUME SingleUse, RoundInv, CountInv', NEW t \in Owners, ReleaseOwner(t)
  PROVE  RoundInv'
<1> USE Types DEF RoundInv
<1>1. /\ isOwner[t] /\ isOwner' = [isOwner EXCEPT ![t] = FALSE]
      /\ UNCHANGED <<waiters, working, unslept>>
  BY DEF ReleaseOwner
<1>2. CASE owners # 1
  <2>1. UNCHANGED <<sleep, timer, activeWork, completed, workers, signal>>
    BY <1>2 DEF ReleaseOwner, sleepVars
  <2>2. QueuesInv'
    BY <1>1, <2>1 DEF QueuesInv
  <2>3. ASSUME ~unslept PROVE ProgressInv'
    BY <2>3, <1>1, <2>1 DEF ProgressInv
  <2> QED
    BY <1>1, <2>2, <2>3
<1>3. CASE owners = 1
  <2>1. activeWork' = 0 /\ completed' = 0 /\ workers' = <<>> /\ ContExecution(workers)
    BY <1>3 DEF ReleaseOwner
  <2>2. /\ timer' = timer
        /\ \A u \in Threads : /\ signal'[u] <=> signal[u] \/ u \in LiveThreads(workers)
                              /\ sleep'[u] \in InLoop <=> sleep[u] \in InLoop
                              /\ sleep[u] \notin InLoop => sleep'[u] = sleep[u]
    BY <2>1, ContSignals DEF SleepTypeOK
  <2>3. \A u \in Owners : sleep[u] = "out" /\ (isOwner[u] => u = t)
    BY <1>1, <1>3, LastOwner DEF Holders, InWait
  <2>4. \A u \in Owners : sleep'[u] = "out" /\ ~signal'[u] /\ ~isOwner'[u]
    BY <1>1, <2>2, <2>3 DEF QueuesInv, InLoop
  <2>5. ~unslept => \A w \in Workers : ~working[w]
    BY <1>1 DEF ProgressInv
  <2>6. \A w \in Workers : sleep'[w] # "out" => signal'[w]
    BY <2>2 DEF QueuesInv, InLoop, SleepPhases
  <2>7. QueuesInv'
    <3>1. LiveThreads(workers') = {}
      BY <2>1, NoLiveThreads
    <3>2. LiveThreads(waiters') = {}
      BY <1>1, <2>3 DEF QueuesInv
    <3>3. \A u \in Threads : signal'[u] => sleep'[u] # "out"
      BY <2>2 DEF QueuesInv, InLoop
    <3>4. \A u \in Threads : sleep'[u] = "woken" => signal'[u]
      BY <2>2 DEF QueuesInv, InLoop
    <3>5. \A w \in Workers : /\ timer'[w] = "forever" /\ sleep'[w] # "expired"
                             /\ working'[w] => sleep'[w] = "out"
      BY <1>1, <2>2 DEF QueuesInv, InLoop
    <3> QED
      BY <2>4, <2>6, <3>1, <3>2, <3>3, <3>4, <3>5 DEF QueuesInv, InLoop
  <2>8. ASSUME ~unslept PROVE ProgressInv'
    BY <2>8, <1>1, <2>1, <2>4, <2>5, <2>6 DEF ProgressInv, InLoop
  <2> QED
    BY <1>1, <2>7, <2>8
<1> QED
  BY <1>2, <1>3

LEMMA CheckKeeps ==
  ASSUME SingleUse, RoundInv, CountInv', NEW t \in Threads,
         \/ t \in Owners /\ WaitCheck(t)
         \/ t \in Workers /\ BeginWorkCheck(t)
  PROVE  RoundInv'
<1> USE Types DEF RoundInv
<1>1. /\ CheckWake(t, signal[t])
      /\ UNCHANGED <<activeWork, completed, waiters, workers, signal, isOwner, working, unslept>>
  BY DEF SingleUse, WaitCheck, BeginWorkCheck, counters
<1>2. /\ timer' = timer
      /\ \A u \in Threads : u # t => sleep'[u] = sleep[u]
      /\ sleep[t] = "checking"
      /\ \/ sleep'[t] = "woken" /\ signal[t]
         \/ sleep'[t] = "expired" /\ ~signal[t] /\ timer[t] = "elapsed"
         \/ sleep'[t] = "arming" /\ ~signal[t]
  BY <1>1 DEF CheckWake, LinuxSleepTimedout
<1>3. QueuesInv'
  BY <1>1, <1>2 DEF QueuesInv, InLoop
<1>4. ASSUME ~unslept PROVE ProgressInv'
  BY <1>4, <1>1, <1>2 DEF ProgressInv, InLoop
<1> QED
  BY <1>1, <1>3, <1>4

LEMMA LoopKeeps ==
  ASSUME RoundInv, CountInv', NEW t \in Threads, SleepStep(t)
  PROVE  RoundInv'
<1> USE Types DEF RoundInv
<1>1. UNCHANGED <<activeWork, completed, waiters, workers, signal, isOwner, working, unslept>>
  BY DEF SleepStep, Unrelated, counters
<1>2. /\ \A u \in Threads : u # t => sleep'[u] = sleep[u] /\ timer'[u] = timer[u]
      /\ sleep[t] \in {"arming", "asleep"} /\ sleep'[t] \in {"checking", "asleep"}
      /\ timer[t] = "forever" => timer'[t] = "forever"
  BY DEF SleepStep, Schedule, TimerFires, Disturbed
<1>3. QueuesInv'
  BY <1>1, <1>2 DEF QueuesInv, InLoop
<1>4. ASSUME ~unslept PROVE ProgressInv'
  BY <1>4, <1>1, <1>2 DEF ProgressInv, InLoop
<1> QED
  BY <1>1, <1>3, <1>4

LEMMA BeginGoesOnKeeps ==
  ASSUME SingleUse, RoundInv, CountInv', NEW w \in Workers, BeginWorkGoesOn(w)
  PROVE  RoundInv'
<1> USE Types DEF RoundInv
<1>1. /\ sleep[w] = "out" /\ ~working[w] /\ activeWork # WorkItems
      /\ activeWork' = activeWork + 1
      /\ working' = [working EXCEPT ![w] = TRUE]
      /\ UNCHANGED <<sleep, timer, completed, waiters, workers, signal, isOwner, unslept>>
  BY DEF BeginWorkGoesOn, sleepVars
<1>2. QueuesInv'
  BY <1>1 DEF QueuesInv
<1>3. ~signal[w] /\ \A v \in Workers : v = w
  BY <1>1 DEF SingleUse, QueuesInv
<1>4. ASSUME ~unslept PROVE ProgressInv'
  BY <1>4, <1>1, <1>3 DEF ProgressInv
<1> QED
  BY <1>1, <1>2, <1>4

(* From here on the round is not kept, but the lists are.                  *)
LEMMA BeginCannotKeeps ==
  ASSUME RoundInv, CountInv', NEW w \in Workers, BeginWorkCannotSleep(w)
  PROVE  RoundInv'
<1> USE Types DEF RoundInv
<1>1. /\ sleep[w] = "out" /\ unslept'
      /\ working' = [working EXCEPT ![w] = TRUE]
      /\ UNCHANGED <<sleep, timer, waiters, workers, signal>>
  BY DEF BeginWorkCannotSleep, sleepVars
<1>2. QueuesInv'
  BY <1>1 DEF QueuesInv
<1> QED
  BY <1>1, <1>2

LEMMA BeginSleepsKeeps ==
  ASSUME SingleUse, RoundInv, CountInv', NEW w \in Workers, BeginWorkGoesToSleep(w)
  PROVE  RoundInv'
<1> USE Types DEF RoundInv
<1>1. /\ sleep[w] = "out" /\ ~working[w] /\ activeWork = WorkItems
      /\ sleep' = [sleep EXCEPT ![w] = "checking"]
      /\ timer' = [timer EXCEPT ![w] = "forever"]
      /\ signal' = [signal EXCEPT ![w] = FALSE]
      /\ UNCHANGED <<activeWork, completed, waiters, isOwner, working, unslept>>
  BY DEF BeginWorkGoesToSleep, EnterSleep, GetSleepState, counters
<1>2. LiveThreads(workers') = LiveThreads(workers) \cup {w}
  BY AppendEntry DEF BeginWorkGoesToSleep
<1>3. QueuesInv'
  BY <1>1, <1>2 DEF QueuesInv, InLoop
<1>4. ASSUME ~unslept PROVE ProgressInv'
  BY <1>4, <1>1 DEF ProgressInv, InLoop
<1> QED
  BY <1>1, <1>3, <1>4

LEMMA BeginReturnsKeeps ==
  ASSUME SingleUse, RoundInv, CountInv', NEW w \in Workers, BeginWorkReturns(w)
  PROVE  RoundInv'
<1> USE Types DEF RoundInv
<1>1. /\ sleep[w] = "woken" \/ sleep[w] = "expired"
      /\ sleep' = [sleep EXCEPT ![w] = "out"]
      /\ signal' = [signal EXCEPT ![w] = FALSE]
      /\ timer' = [timer EXCEPT ![w] = "forever"]
      /\ activeWork' = activeWork + 1
      /\ working' = [working EXCEPT ![w] = TRUE]
      /\ UNCHANGED <<completed, waiters, isOwner, unslept>>
  BY DEF BeginWorkReturns, LeaveSleep
<1>2. LiveThreads(workers') = LiveThreads(workers) \ {w}
  BY DeadFrame DEF BeginWorkReturns
<1>3. QueuesInv'
  BY <1>1, <1>2 DEF QueuesInv, InLoop
<1>4. ~unslept => activeWork = 0 /\ completed = 0 /\ \A v \in Workers : v = w
  BY <1>1 DEF QueuesInv, ProgressInv, SingleUse
<1>5. ASSUME ~unslept PROVE ProgressInv'
  BY <1>5, <1>1, <1>4 DEF ProgressInv, InLoop
<1> QED
  BY <1>1, <1>3, <1>5

LEMMA EndKeeps ==
  ASSUME SingleUse, RoundInv, CountInv', NEW w \in Workers, EndWork(w)
  PROVE  RoundInv'
<1> USE Types DEF RoundInv
<1>1. /\ working[w] /\ working' = [working EXCEPT ![w] = FALSE]
      /\ completed' = completed + 1
      /\ UNCHANGED <<activeWork, workers, isOwner, unslept>>
  BY DEF EndWork
<1>2. /\ sleep[w] = "out" /\ ~signal[w] /\ \A v \in Workers : v = w
      /\ ~unslept => activeWork = completed' /\ completed < WorkItems
  BY <1>1 DEF ProgressInv, QueuesInv, SingleUse
<1>3. ~unslept => \A u \in Owners : ~isOwner[u] /\ ~signal[u]
  BY <1>2 DEF ProgressInv
<1>4. CASE completed' # WorkItems
  <2>1. UNCHANGED <<sleep, timer, waiters, signal>>
    BY <1>4 DEF EndWork, sleepVars
  <2>2. QueuesInv'
    BY <1>1, <2>1 DEF QueuesInv
  <2>3. ASSUME ~unslept PROVE ProgressInv'
    BY <2>3, <1>1, <1>2, <1>3, <1>4, <2>1 DEF ProgressInv
  <2> QED
    BY <1>1, <2>2, <2>3
<1>5. CASE completed' = WorkItems
  <2>1. waiters' = <<>> /\ ContExecution(waiters)
    BY <1>5 DEF EndWork
  <2>2. /\ timer' = timer
        /\ \A u \in Threads : /\ signal'[u] <=> signal[u] \/ u \in LiveThreads(waiters)
                              /\ sleep'[u] \in InLoop <=> sleep[u] \in InLoop
                              /\ sleep[u] \notin InLoop => sleep'[u] = sleep[u]
    BY <2>1, ContSignals DEF SleepTypeOK
  <2>3. LiveThreads(waiters') = {} /\ LiveThreads(workers') = LiveThreads(workers)
    BY <1>1, <2>1, NoLiveThreads
  <2>4. sleep'[w] = "out" /\ ~signal'[w]
    BY <1>2, <2>2 DEF QueuesInv, InLoop
  <2>5. \A u \in Owners : sleep'[u] \in InLoop => signal'[u]
    BY <2>2 DEF QueuesInv
  <2>6. QueuesInv'
    <3>1. \A u \in Threads : signal'[u] => sleep'[u] # "out"
      <4>1. \A u \in Threads : sleep'[u] = "out" => sleep[u] = "out"
        BY <2>2 DEF InLoop
      <4>2. \A u \in Threads : u \in LiveThreads(waiters) \/ signal[u] => sleep[u] # "out"
        BY DEF QueuesInv
      <4> QED
        BY <2>2, <4>1, <4>2
    <3>2. \A u \in Threads : sleep'[u] = "woken" => signal'[u]
      BY <2>2 DEF QueuesInv, InLoop
    <3>3. \A v \in Workers : /\ timer'[v] = "forever" /\ sleep'[v] # "expired"
                             /\ working'[v] => sleep'[v] = "out"
      BY <1>1, <2>2 DEF QueuesInv, InLoop
    <3>4. LiveThreads(workers') = {}
      BY <1>2, <2>3 DEF QueuesInv
    <3> QED
      BY <1>2, <2>3, <2>4, <2>5, <3>1, <3>2, <3>3, <3>4 DEF QueuesInv, InLoop
  <2>7. ASSUME ~unslept PROVE ProgressInv'
    BY <2>7, <1>1, <1>2, <1>3, <1>5, <2>4, <2>5 DEF ProgressInv
  <2> QED
    BY <1>1, <2>6, <2>7
<1> QED
  BY <1>4, <1>5

LEMMA RestKeeps ==
  ASSUME RoundInv, CountInv', SpuriousWakeupOwners \/ Destroy \/ UNCHANGED vars
  PROVE  RoundInv'
<1> USE Types DEF RoundInv
<1>1. UNCHANGED <<timer, activeWork, completed, waiters, workers, signal, isOwner, working, unslept>>
  BY DEF SpuriousWakeupOwners, LinuxPokeThread, Destroy, vars, sleepVars, counters
<1>2. \A u \in Threads : /\ sleep'[u] \in InLoop <=> sleep[u] \in InLoop
                         /\ sleep[u] \notin InLoop => sleep'[u] = sleep[u]
  BY DEF SpuriousWakeupOwners, LinuxPokeThread, Destroy, vars, sleepVars, InLoop
<1>3. QueuesInv'
  BY <1>1, <1>2 DEF QueuesInv, InLoop
<1>4. ASSUME ~unslept PROVE ProgressInv'
  BY <1>4, <1>1, <1>2 DEF ProgressInv, InLoop
<1> QED
  BY <1>1, <1>3, <1>4

LEMMA RoundStep == SingleUse /\ RoundInv /\ [Next]_vars => RoundInv'
<1> SUFFICES ASSUME SingleUse, RoundInv, [Next]_vars PROVE RoundInv'
  OBVIOUS
<1>1. CountInv'
  BY CountStep DEF RoundInv
<1>2. Owners \subseteq Threads /\ Workers \subseteq Threads
  BY WorkQueueAssumption
<1> QED
  BY <1>1, <1>2, FindsCompleteKeeps, GoesToSleepKeeps, ReturnKeeps, ReleaseKeeps, CheckKeeps,
     LoopKeeps, BeginGoesOnKeeps, BeginSleepsKeeps, BeginCannotKeeps,
     BeginReturnsKeeps, EndKeeps, RestKeeps
  DEF Next

LEMMA RoundHolds ==
  ASSUME SingleUse
  PROVE  Spec => []RoundInv
<1>1. Init => RoundInv
  BY RoundInit
<1>2. RoundInv /\ [Next]_vars => RoundInv'
  BY RoundStep
<1> QED
  BY <1>1, <1>2, PTL DEF Spec

(* With one worker and no callback, whoever comes back from                *)
(* WaitAndAddOwner as an owner finds the round finished, and it stays      *)
(* finished until the owner releases it or a worker finds no memory to     *)
(* sleep with.                                                             *)
THEOREM FinishedWhileOwned ==
  ASSUME SingleUse
  PROVE  Spec => []OwnerSeesFinishedRound
<1>1. RoundInv => OwnerSeesFinishedRound
  <2> SUFFICES ASSUME RoundInv, ~unslept, NEW t \in Holders, NEW w \in Workers
               PROVE  completed = WorkItems /\ ~working[w]
    BY DEF OwnerSeesFinishedRound, RoundInv, ProgressInv, Holders
  <2> QED
    BY Types DEF RoundInv, ProgressInv, Holders
<1> QED
  BY <1>1, RoundHolds, PTL

(* Nobody the lists should have served is left in them, while the workers  *)
(* sleep when they have to.                                                *)
THEOREM NobodyLeftBehind ==
  ASSUME SingleUse
  PROVE  Spec => []NoThreadLeftBehind
<1>1. RoundInv => NoThreadLeftBehind
  BY Types DEF RoundInv, ProgressInv, NoThreadLeftBehind, InLoop
<1> QED
  BY <1>1, RoundHolds, PTL

-----------------------------------------------------------------------------
(* Refinement.                                                             *)

LEMMA RoundStarts == Init => Round!RoundInit
<1> SUFFICES ASSUME Init PROVE Round!RoundInit
  OBVIOUS
<1>1. InWait = {} /\ Holders = {} /\ {w \in Workers : working[w]} = {}
  BY WorkQueueAssumption DEF Init, SleepInit, InWait, Holders
<1> QED
  BY <1>1, WorkQueueAssumption DEF Init, Round!RoundInit

(* A step that changes none of the things the mapping looks at.            *)
LEMMA RoundStands ==
  ASSUME UNCHANGED <<activeWork, completed, isOwner, working>>,
         \A t \in Owners : sleep'[t] = "out" <=> sleep[t] = "out"
  PROVE  UNCHANGED Round!roundVars
<1>1. InWait' = InWait /\ Holders' = Holders
  BY DEF InWait, Holders
<1> QED
  BY <1>1 DEF Round!roundVars

(* Every step of the queue is a step of the round or leaves it alone, as   *)
(* long as the workers sleep when they have to.                            *)
LEMMA RoundStepMaps ==
  ASSUME SingleUse, RoundInv, [Next]_vars, ~unslept'
  PROVE  Round!RoundNext \/ UNCHANGED Round!roundVars
<1> USE Types DEF RoundInv
<1>0. ~unslept /\ ProgressInv
  <2>1. ASSUME unslept PROVE unslept'
    <3>1. CASE UNCHANGED vars
      BY <2>1, <3>1 DEF vars
    <3>2. CASE \E t \in Owners : \/ WaitFindsComplete(t) \/ WaitCheck(t)
                                 \/ \E ms \in Timeouts : WaitGoesToSleep(t, ms)
                                 \/ WaitReturns(t) \/ ReleaseOwner(t)
      BY <2>1, <3>2 DEF WaitFindsComplete, WaitGoesToSleep, WaitCheck, WaitReturns, ReleaseOwner
    <3>3. CASE \E w \in Workers : \/ BeginWorkGoesOn(w) \/ BeginWorkGoesToSleep(w)
                                  \/ BeginWorkCannotSleep(w) \/ BeginWorkCheck(w)
                                  \/ BeginWorkReturns(w) \/ EndWork(w)
      BY <2>1, <3>3 DEF BeginWorkGoesOn, BeginWorkGoesToSleep, BeginWorkCannotSleep,
                        BeginWorkCheck, BeginWorkReturns, EndWork
    <3>4. CASE SpuriousWakeupOwners \/ Destroy \/ \E t \in Threads : SleepStep(t)
      BY <2>1, <3>4 DEF SpuriousWakeupOwners, Destroy, SleepStep, Unrelated
    <3> QED
      BY <3>1, <3>2, <3>3, <3>4 DEF Next
  <2> QED
    BY <2>1 DEF CountInv, TypeOK
<1>1. ASSUME NEW t \in Owners, WaitFindsComplete(t) PROVE Round!Arrive(t)
  <2>1. /\ sleep[t] = "out" /\ ~isOwner[t] /\ completed = WorkItems
        /\ isOwner' = [isOwner EXCEPT ![t] = TRUE]
        /\ UNCHANGED <<sleep, activeWork, completed, working>>
    BY <1>1 DEF WaitFindsComplete, sleepVars
  <2>2. InWait' = InWait /\ Holders' = Holders \cup {t} /\ t \notin InWait \cup Holders
    BY <2>1 DEF InWait, Holders
  <2> QED
    BY <2>1, <2>2 DEF Round!Arrive
<1>2. ASSUME NEW t \in Owners, NEW ms \in Timeouts, WaitGoesToSleep(t, ms)
      PROVE  Round!Arrive(t)
  <2>1. /\ sleep[t] = "out" /\ ~isOwner[t] /\ completed # WorkItems
        /\ sleep' = [sleep EXCEPT ![t] = "checking"]
        /\ UNCHANGED <<activeWork, completed, isOwner, working>>
    BY <1>2 DEF WaitGoesToSleep, EnterSleep
  <2>2. InWait' = InWait \cup {t} /\ Holders' = Holders /\ t \notin InWait \cup Holders
    BY <2>1 DEF InWait, Holders
  <2> QED
    BY <2>1, <2>2 DEF Round!Arrive
<1>3. ASSUME NEW t \in Owners, WaitReturns(t)
      PROVE  Round!Leave(t) \/ UNCHANGED Round!roundVars
  <2>1. /\ sleep[t] = "woken" \/ sleep[t] = "expired"
        /\ sleep' = [sleep EXCEPT ![t] = "out"]
        /\ UNCHANGED <<activeWork, completed, working>>
    BY <1>3 DEF WaitReturns, LeaveSleep
  <2>2. t \in InWait /\ t \notin Holders /\ InWait' = InWait \ {t}
    BY <2>1 DEF InWait, Holders
  <2>3. CASE sleep[t] = "woken"
    <3>1. completed = WorkItems
      BY <1>0, <2>3 DEF QueuesInv, ProgressInv
    <3>2. Holders' = Holders \cup {t}
      BY <1>3, <2>3 DEF WaitReturns, Holders
    <3> QED
      BY <2>1, <2>2, <3>1, <3>2 DEF Round!roundVars
  <2>4. CASE sleep[t] = "expired"
    <3>1. Holders' = Holders
      BY <1>3, <2>4 DEF WaitReturns, Holders
    <3>2. completed # WorkItems => t \notin Holders
      BY <2>2
    <3> QED
      BY <2>1, <2>2, <3>1 DEF Round!Leave
  <2> QED
    BY <2>1, <2>3, <2>4
<1>4. ASSUME NEW t \in Owners, ReleaseOwner(t) PROVE Round!Release(t)
  <2>1. /\ isOwner[t] /\ isOwner' = [isOwner EXCEPT ![t] = FALSE]
        /\ working' = working
    BY <1>4 DEF ReleaseOwner
  <2>2. /\ \A u \in Owners : sleep'[u] = "out" <=> sleep[u] = "out"
        /\ t \in Holders /\ sleep[t] = "out"
    BY <1>4, <2>1, ContSignals DEF ReleaseOwner, sleepVars, SleepTypeOK, InLoop, Holders
  <2>3. InWait' = InWait /\ Holders' = Holders \ {t} /\ t \notin InWait
    BY <2>1, <2>2 DEF InWait, Holders
  <2>4. completed = WorkItems /\ {w \in Workers : working[w]} = {}
    BY <1>0, <2>1 DEF ProgressInv
  <2>5. CASE owners = 1
    <3>1. Holders = {t} /\ InWait = {}
      BY <2>2, <2>5, LastOwner
    <3>2. activeWork' = 0 /\ completed' = 0
      BY <1>4, <2>5 DEF ReleaseOwner
    <3> QED
      BY <2>1, <2>2, <2>3, <2>4, <3>1, <3>2 DEF Round!Release
  <2>6. CASE owners # 1
    <3>1. UNCHANGED <<activeWork, completed>>
      BY <1>4, <2>6 DEF ReleaseOwner
    <3>2. InWait \cup (Holders \ {t}) # {}
      <4>1. Cardinality(Holders \ {t}) = Cardinality(Holders) - 1
        BY <2>2, CountedFinite, OneFewer
      <4>2. ASSUME InWait = {}, Holders \ {t} = {} PROVE FALSE
        <5>1. Cardinality(InWait) = 0 /\ Cardinality(Holders \ {t}) = 0
          BY <4>2, FS_EmptySet
        <5>2. owners = Cardinality(InWait) + Cardinality(Holders)
          BY DEF CountInv, OwnersAccounting
        <5> QED
          BY <2>6, <4>1, <5>1, <5>2, CountedFinite
      <4> QED
        BY <4>2
    <3> QED
      BY <2>1, <2>2, <2>3, <2>4, <3>1, <3>2 DEF Round!Release
  <2> QED
    BY <2>5, <2>6
<1>5. ASSUME NEW w \in Workers,
             \/ BeginWorkGoesOn(w) \/ BeginWorkReturns(w)
      PROVE  Round!Begin(w)
  <2>1. /\ ~working[w] /\ activeWork < WorkItems
        /\ activeWork' = activeWork + 1 /\ working' = [working EXCEPT ![w] = TRUE]
        /\ UNCHANGED <<completed, isOwner>>
    <3>1. CASE BeginWorkGoesOn(w)
      BY <1>0, <3>1 DEF BeginWorkGoesOn, ProgressInv
    <3>2. CASE BeginWorkReturns(w)
      <4>1. sleep[w] = "woken" \/ sleep[w] = "expired"
        BY <3>2 DEF BeginWorkReturns
      <4>2. ~working[w] /\ activeWork = 0
        BY <1>0, <4>1 DEF QueuesInv, ProgressInv
      <4> QED
        BY <3>2, <4>2 DEF BeginWorkReturns
    <3> QED
      BY <1>5, <3>1, <3>2
  <2>2. \A u \in Owners : sleep'[u] = sleep[u]
    BY <1>5 DEF BeginWorkGoesOn, BeginWorkReturns, sleepVars, LeaveSleep
  <2>3. InWait' = InWait /\ Holders' = Holders
    BY <2>1, <2>2 DEF InWait, Holders
  <2>4. {v \in Workers : working'[v]} = {v \in Workers : working[v]} \cup {w}
    BY <2>1
  <2> QED
    BY <2>1, <2>3, <2>4 DEF Round!Begin
<1>6. ASSUME NEW w \in Workers, EndWork(w) PROVE Round!End(w)
  <2>1. /\ working[w] /\ working' = [working EXCEPT ![w] = FALSE]
        /\ completed' = completed + 1
        /\ UNCHANGED <<activeWork, isOwner>>
    BY <1>6 DEF EndWork
  <2>2. completed # WorkItems
    BY <1>0, <2>1 DEF ProgressInv
  <2>3. \A u \in Owners : sleep'[u] = "out" <=> sleep[u] = "out"
    BY <1>6, ContSignals DEF EndWork, sleepVars, SleepTypeOK, InLoop
  <2>4. InWait' = InWait /\ Holders' = Holders
    BY <2>1, <2>3 DEF InWait, Holders
  <2>5. {v \in Workers : working'[v]} = {v \in Workers : working[v]} \ {w}
    BY <2>1
  <2> QED
    BY <2>1, <2>2, <2>4, <2>5 DEF Round!End
<1>7. ASSUME NEW w \in Workers, BeginWorkGoesToSleep(w) PROVE UNCHANGED Round!roundVars
  <2>1. \A u \in Owners : sleep'[u] = sleep[u]
    BY <1>7 DEF BeginWorkGoesToSleep, EnterSleep
  <2> QED
    BY <1>7, <2>1, RoundStands DEF BeginWorkGoesToSleep, counters
<1>8. ASSUME NEW t \in Threads,
             \/ t \in Owners /\ WaitCheck(t)
             \/ t \in Workers /\ BeginWorkCheck(t)
             \/ SleepStep(t)
      PROVE  UNCHANGED Round!roundVars
  <2>1. \A u \in Owners : sleep'[u] = "out" <=> sleep[u] = "out"
    BY <1>8 DEF WaitCheck, BeginWorkCheck, SleepStep, CheckWake, Schedule, TimerFires, Disturbed
  <2> QED
    BY <1>8, <2>1, RoundStands
    DEF WaitCheck, BeginWorkCheck, SleepStep, Unrelated, counters
<1>9. ASSUME SpuriousWakeupOwners \/ Destroy \/ UNCHANGED vars
      PROVE  UNCHANGED Round!roundVars
  <2>1. \A u \in Owners : sleep'[u] = "out" <=> sleep[u] = "out"
    BY <1>9 DEF SpuriousWakeupOwners, LinuxPokeThread, Destroy, vars, sleepVars
  <2> QED
    BY <1>9, <2>1, RoundStands DEF SpuriousWakeupOwners, Destroy, vars, counters
<1>10. \A w \in Workers : ~BeginWorkCannotSleep(w)
  BY DEF BeginWorkCannotSleep
<1> QED
  BY <1>10, <1>1, <1>2, <1>3, <1>4, <1>5, <1>6, <1>7, <1>8, <1>9, WorkQueueAssumption
  DEF Next, Round!RoundNext

(* The queue implements the reusable round of tasks, up to the first       *)
(* BeginWork that finds no memory to sleep with.                           *)
THEOREM QueueImplementsRound ==
  ASSUME SingleUse
  PROVE  Spec => ImplementsRound
<1>1. Init => Round!RoundInit
  BY RoundStarts
<1>2. RoundInv /\ [Next]_vars => [Round!RoundNext \/ unslept']_(Round!roundVars)
  BY RoundStepMaps
<1> QED
  BY <1>1, <1>2, RoundHolds, PTL DEF Spec, ImplementsRound

=============================================================================
