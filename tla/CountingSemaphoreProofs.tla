------------------------ MODULE CountingSemaphoreProofs ------------------------
(***************************************************************************)
(* What CountingSemaphore keeps for every set of threads, start count and  *)
(* bound.  The argument is the one told beside Balance: the ledger counts  *)
(* list entries, not signals, and a bound on the signalled threads by the  *)
(* entries they were found in turns it into a bound on lost permits.       *)
(***************************************************************************)
EXTENDS CountingSemaphore, FiniteSetTheorems, SequenceTheorems, TLAPS

-----------------------------------------------------------------------------
(* Facts about the operators of the model.                                 *)

(* Smaller is the minimum of two naturals.                                 *)
LEMMA SmallerProperties ==
  ASSUME NEW a \in Nat, NEW b \in Nat
  PROVE  Smaller(a, b) \in Nat /\ Smaller(a, b) <= a /\ Smaller(a, b) <= b
BY DEF Smaller

(* The threads found in the first k entries are at most k.                 *)
LEMMA ThreadsOfEntries ==
  ASSUME NEW S \in SUBSET Threads, NEW q \in Seq(Entry), NEW k \in Nat,
         k <= Len(q),
         \A t \in S : \E i \in 1..k : q[i].thread = t
  PROVE  Cardinality(S) <= k
<1> DEFINE f == [t \in S |-> CHOOSE i \in 1..k : q[i].thread = t]
<1>1. \A t \in S : f[t] \in 1..k /\ q[f[t]].thread = t
  OBVIOUS
<1>2. f \in Injection(S, 1..k)
  BY <1>1 DEF Injection, IsInjective
<1>3. IsFiniteSet(1..k) /\ Cardinality(1..k) = k
  BY FS_Interval
<1> QED
  BY <1>2, <1>3, FS_Injection

(* Every set of threads is finite.                                         *)
LEMMA ThreadSetsFinite ==
  ASSUME NEW S \in SUBSET Threads
  PROVE  IsFiniteSet(S) /\ Cardinality(S) \in Nat
BY SemaphoreAssumption, FS_Subset, FS_CardinalityType

-----------------------------------------------------------------------------
(* Type correctness.                                                       *)

LEMMA TypeInit == Init => TypeOK
BY SemaphoreAssumption, EmptySeq
   DEF Init, TypeOK, SleepInit, SleepTypeOK, SleepPhases, Timers

(* The steps of LinuxSleep alone keep the types.                           *)
LEMMA SleepKeepsTypes ==
  ASSUME SleepTypeOK, NEW t \in Threads,
         \/ EnterSleep(t, "forever") \/ EnterSleep(t, "finite")
         \/ LeaveSleep(t)
         \/ CheckWake(t, SemaphoreIsWaking(t))
         \/ Schedule(t) \/ TimerFires(t) \/ Disturbed(t)
  PROVE  SleepTypeOK'
BY DEF SleepTypeOK, EnterSleep, LeaveSleep, CheckWake, Schedule, TimerFires, Disturbed,
       GetSleepState, SleepPhases, Timers

LEMMA TypeStep == TypeOK /\ [Next]_vars => TypeOK'
<1> SUFFICES ASSUME TypeOK, [Next]_vars PROVE TypeOK'
  OBVIOUS
<1> USE DEF TypeOK
<1>1. ASSUME NEW t \in Threads, WaitTakesPermit(t) PROVE TypeOK'
  BY <1>1 DEF WaitTakesPermit, SleepTypeOK, sleepVars
<1>2. ASSUME NEW t \in Threads, NEW ms \in Timeouts, WaitGoesToSleep(t, ms) PROVE TypeOK'
  <2>1. SleepTypeOK'
    BY <1>2, SleepKeepsTypes, SemaphoreAssumption DEF WaitGoesToSleep
  <2>2. list' \in Seq(Entry)
    BY <1>2, AppendProperties DEF WaitGoesToSleep, NewThreadContext, Entry
  <2> QED
    BY <1>2, <2>1, <2>2 DEF WaitGoesToSleep, NewThreadContext
<1>3. ASSUME NEW t \in Threads, SleepCheck(t) PROVE TypeOK'
  <2>1. SleepTypeOK'
    BY <1>3, SleepKeepsTypes DEF SleepCheck
  <2> QED
    BY <1>3, <2>1 DEF SleepCheck
<1>4. ASSUME NEW t \in Threads,
             SleepSchedule(t) \/ SleepTimer(t) \/ SleepDisturbed(t)
      PROVE  TypeOK'
  <2>1. SleepTypeOK'
    BY <1>4, SleepKeepsTypes DEF SleepSchedule, SleepTimer, SleepDisturbed
  <2> QED
    BY <1>4, <2>1 DEF SleepSchedule, SleepTimer, SleepDisturbed, Unrelated
<1>5. ASSUME NEW t \in Threads, WaitReturns(t) PROVE TypeOK'
  <2>1. SleepTypeOK'
    BY <1>5, SleepKeepsTypes DEF WaitReturns
  <2>2. FrameDies(t) \in Seq(Entry)
    <3>1. list \in [1..Len(list) -> Entry] /\ Len(list) \in Nat /\ DOMAIN list = 1..Len(list)
      BY LenProperties
    <3>2. FrameDies(t) \in [1..Len(list) -> Entry]
      BY <3>1 DEF FrameDies, Entry
    <3> QED
      BY <3>1, <3>2, SeqDef
  <2> QED
    BY <1>5, <2>1, <2>2 DEF WaitReturns
<1>6. ASSUME NEW n \in TriggerCounts, Trigger(n) PROVE TypeOK'
  <2> DEFINE k == Smaller(n, Len(list))
  <2>1. n \in Nat /\ Len(list) \in Nat
    BY SemaphoreAssumption, LenProperties
  <2>2. k \in Nat /\ k <= n /\ k <= Len(list)
    BY <2>1, SmallerProperties
  <2>3. PICK reused \in SUBSET Threads : ContExecution(k, reused)
    BY <1>6 DEF Trigger
  <2>4. list' \in Seq(Entry)
    BY <2>1, <2>2, <2>3, SubSeqProperties DEF ContExecution
  <2>5. SleepTypeOK'
    BY <2>3 DEF ContExecution, LinuxPokeThread, SleepTypeOK, SleepPhases
  <2>6. signal' \in [Threads -> BOOLEAN]
    BY <2>3 DEF ContExecution
  <2>7. counter' = counter + (n - k)
    BY <1>6 DEF Trigger
  <2>8. UNCHANGED <<lifetime, taken, timeouts>> /\ triggered' = triggered + n
    BY <1>6 DEF Trigger
  <2> HIDE DEF k
  <2> QED
    BY <2>1, <2>2, <2>4, <2>5, <2>6, <2>7, <2>8
<1>7. ASSUME Destroy PROVE TypeOK'
  BY <1>7 DEF Destroy, sleepVars, SleepTypeOK
<1>8. ASSUME UNCHANGED vars PROVE TypeOK'
  BY <1>8 DEF vars, SleepTypeOK
<1> QED
  BY <1>1, <1>2, <1>3, <1>4, <1>5, <1>6, <1>7, <1>8 DEF Next

(* Every variable keeps its type whatever the threads do.                  *)
THEOREM TypeCorrect == Spec => []TypeOK
<1>1. Init => TypeOK
  BY TypeInit
<1>2. TypeOK /\ [Next]_vars => TypeOK'
  BY TypeStep
<1> QED
  BY <1>1, <1>2, PTL DEF Spec

-----------------------------------------------------------------------------
(* The inductive invariant.                                                *)

(* A step after which the same threads wait, and the same of them are      *)
(* signalled, leaves the sets the ledger counts as they were.              *)
LEMMA SameSets ==
  ASSUME \A t \in Threads : /\ signal'[t] = signal[t]
                            /\ sleep'[t] \in InLoop <=> sleep[t] \in InLoop
                            /\ sleep'[t] = "woken" <=> sleep[t] = "woken"
  PROVE  Waiting' = Waiting /\ InFlight' = InFlight /\ Pending' = Pending
BY DEF Waiting, InFlight, Pending

(* The sets the ledger counts are finite, and their sizes are naturals.    *)
LEMMA CountedSets ==
  /\ IsFiniteSet(Waiting) /\ Cardinality(Waiting) \in Nat
  /\ IsFiniteSet(InFlight) /\ Cardinality(InFlight) \in Nat
  /\ IsFiniteSet(Pending) /\ Cardinality(Pending) \in Nat
BY ThreadSetsFinite DEF Waiting, InFlight, Pending

LEMMA InvInit == Init => IInv
<1> SUFFICES ASSUME Init PROVE IInv
  OBVIOUS
<1>1. TypeOK
  BY TypeInit
<1>2. Waiting = {} /\ InFlight = {} /\ Pending = {}
  BY DEF Init, SleepInit, Waiting, InFlight, Pending, InLoop
<1>3. Cardinality(Waiting) = 0 /\ Cardinality(InFlight) = 0
  BY <1>2, FS_EmptySet
<1> QED
  BY <1>1, <1>2, <1>3, SemaphoreAssumption
  DEF Init, SleepInit, IInv, NoStrandedPermit, SignalledAreWaiting, PendingAreQueued, Balance, Lost,
      DestroyAssertion

LEMMA TakePermitKeeps ==
  ASSUME IInv, TypeOK', NEW t \in Threads, WaitTakesPermit(t)
  PROVE  IInv'
<1>1. Waiting' = Waiting /\ InFlight' = InFlight /\ Pending' = Pending
  BY SameSets DEF WaitTakesPermit, sleepVars
<1>2. Balance' /\ (0 <= Lost)'
  BY <1>1, CountedSets, LenProperties, SemaphoreAssumption
  DEF WaitTakesPermit, IInv, TypeOK, Balance, Lost
<1> QED
  BY <1>1, <1>2
  DEF WaitTakesPermit, sleepVars, IInv, TypeOK, NoStrandedPermit, SignalledAreWaiting, PendingAreQueued,
      DestroyAssertion

LEMMA GoToSleepKeeps ==
  ASSUME IInv, TypeOK', NEW t \in Threads, NEW ms \in Timeouts, WaitGoesToSleep(t, ms)
  PROVE  IInv'
<1> USE DEF IInv
<1>1. /\ sleep[t] = "out"
      /\ sleep' = [sleep EXCEPT ![t] = "checking"]
      /\ signal' = [signal EXCEPT ![t] = FALSE]
      /\ list' = Append(list, [thread |-> t, live |-> TRUE])
      /\ UNCHANGED <<counter, lifetime, triggered, taken, timeouts>>
  BY DEF WaitGoesToSleep, EnterSleep, NewThreadContext
<1>2. Waiting' = Waiting \cup {t} /\ t \notin Waiting
  BY <1>1 DEF Waiting, InLoop, TypeOK, SleepTypeOK
<1>3. InFlight' = InFlight
  BY <1>1 DEF InFlight, InLoop, TypeOK, SleepTypeOK
<1>4. Pending' = Pending \cup {t}
  BY <1>1 DEF Pending, InLoop, TypeOK, SleepTypeOK
<1>5. /\ Len(list') = Len(list) + 1 /\ Len(list) \in Nat
      /\ \A i \in 1..Len(list) : list'[i] = list[i]
      /\ list'[Len(list) + 1] = [thread |-> t, live |-> TRUE]
  <2>1. list \in Seq(Entry) /\ [thread |-> t, live |-> TRUE] \in Entry
    BY DEF TypeOK, Entry
  <2> QED
    BY <1>1, <2>1, AppendProperties, LenProperties
<1>6. Balance'
  <2>1. Cardinality(Waiting') = Cardinality(Waiting) + 1
    BY <1>2, CountedSets, FS_AddElement
  <2>2. Len(list') = Len(list) + 1 /\ Len(list) \in Nat
    BY <1>5
  <2>3. UNCHANGED <<counter, taken, timeouts, triggered>>
    BY <1>1
  <2> QED
    BY <2>1, <2>2, <2>3, CountedSets, SemaphoreAssumption DEF Balance, TypeOK
<1>7. PendingAreQueued'
  <2> SUFFICES ASSUME NEW u \in Pending'
               PROVE  \E i \in 1..Len(list') : list'[i].thread = u /\ list'[i].live
    BY DEF PendingAreQueued
  <2>1. CASE u = t
    BY <1>5, <2>1
  <2>2. CASE u # t
    <3>1. PICK i \in 1..Len(list) : list[i].thread = u /\ list[i].live
      BY <1>4, <2>2 DEF PendingAreQueued
    <3> QED
      BY <1>5, <3>1
  <2> QED
    BY <2>1, <2>2
<1>8. SignalledAreWaiting'
  BY <1>1, <1>2 DEF SignalledAreWaiting, TypeOK, SleepTypeOK
<1>9. NoStrandedPermit'
  BY <1>1 DEF NoStrandedPermit, WaitGoesToSleep
<1> QED
  BY <1>1, <1>3, <1>6, <1>7, <1>8, <1>9 DEF Lost, DestroyAssertion

LEMMA SleepCheckKeeps ==
  ASSUME IInv, TypeOK', NEW t \in Threads, SleepCheck(t)
  PROVE  IInv'
<1> USE DEF IInv
<1>1. /\ sleep[t] = "checking"
      /\ sleep \in [Threads -> SleepPhases]
      /\ UNCHANGED <<counter, list, signal, lifetime, triggered, taken>>
      /\ timeouts \in Nat
  BY DEF SleepCheck, CheckWake, TypeOK, SleepTypeOK
<1>2. CASE sleep' = [sleep EXCEPT ![t] = "expired"] /\ ~signal[t]
  <2>1. timeouts' = timeouts + 1
    BY <1>1, <1>2 DEF SleepCheck
  <2>2. Waiting' = Waiting \ {t} /\ t \in Waiting
    BY <1>1, <1>2 DEF Waiting, InLoop
  <2>3. InFlight' = InFlight /\ Pending' = Pending \ {t}
    BY <1>1, <1>2 DEF InFlight, Pending, InLoop
  <2>4. Cardinality(Waiting') = Cardinality(Waiting) - 1
    BY <2>2, CountedSets, FS_RemoveElement
  <2>5. Balance'
    BY <1>1, <2>1, <2>4, CountedSets, LenProperties, SemaphoreAssumption DEF Balance, TypeOK
  <2>6. SignalledAreWaiting'
    BY <1>1, <1>2, <2>2 DEF SignalledAreWaiting
  <2> QED
    BY <1>1, <2>1, <2>3, <2>5, <2>6
    DEF NoStrandedPermit, PendingAreQueued, Lost, DestroyAssertion
<1>3. CASE \/ sleep' = [sleep EXCEPT ![t] = "woken"] /\ signal[t]
           \/ sleep' = [sleep EXCEPT ![t] = "arming"]
  <2>1. timeouts' = timeouts
    BY <1>1, <1>3 DEF SleepCheck
  <2>2. Waiting' = Waiting /\ InFlight' = InFlight
    BY <1>1, <1>3 DEF Waiting, InFlight, InLoop
  <2>3. Pending' \subseteq Pending
    BY <1>1, <1>3 DEF Pending, InLoop
  <2>4. SignalledAreWaiting'
    BY <1>1, <1>3, <2>2 DEF SignalledAreWaiting
  <2> QED
    BY <1>1, <2>1, <2>2, <2>3, <2>4
    DEF NoStrandedPermit, PendingAreQueued, Balance, Lost, DestroyAssertion
<1> QED
  BY <1>2, <1>3 DEF SleepCheck, CheckWake, SemaphoreIsWaking

LEMMA SleepLoopKeeps ==
  ASSUME IInv, TypeOK', NEW t \in Threads,
         SleepSchedule(t) \/ SleepTimer(t) \/ SleepDisturbed(t)
  PROVE  IInv'
<1>1. Waiting' = Waiting /\ InFlight' = InFlight /\ Pending' = Pending
  BY SameSets
  DEF SleepSchedule, SleepTimer, SleepDisturbed, Schedule, TimerFires, Disturbed, Unrelated,
      IInv, TypeOK, SleepTypeOK, InLoop
<1>2. \A u \in Threads : sleep'[u] = "woken" => sleep[u] = "woken"
  BY DEF SleepSchedule, SleepTimer, SleepDisturbed, Schedule, TimerFires, Disturbed,
         IInv, TypeOK, SleepTypeOK
<1> QED
  BY <1>1, <1>2
  DEF SleepSchedule, SleepTimer, SleepDisturbed, Unrelated, IInv, NoStrandedPermit,
      SignalledAreWaiting, PendingAreQueued, Balance, Lost, DestroyAssertion

LEMMA ReturnKeeps ==
  ASSUME IInv, TypeOK', NEW t \in Threads, WaitReturns(t)
  PROVE  IInv'
<1> USE DEF IInv
<1>1. /\ sleep' = [sleep EXCEPT ![t] = "out"]
      /\ sleep \in [Threads -> SleepPhases]
      /\ signal' = [signal EXCEPT ![t] = FALSE]
      /\ signal \in [Threads -> BOOLEAN]
      /\ list' = FrameDies(t)
      /\ UNCHANGED <<counter, lifetime, triggered, timeouts>>
  BY DEF WaitReturns, LeaveSleep, TypeOK, SleepTypeOK
<1>2. /\ Len(list') = Len(list) /\ Len(list) \in Nat
      /\ \A i \in 1..Len(list) : /\ list'[i].thread = list[i].thread
                                 /\ list[i].thread # t => list'[i] = list[i]
  <2>1. list \in [1..Len(list) -> Entry] /\ Len(list) \in Nat /\ DOMAIN list = 1..Len(list)
    BY LenProperties DEF TypeOK
  <2>2. list' \in Seq(Entry) /\ DOMAIN list' = 1..Len(list)
    BY <1>1, <2>1 DEF FrameDies, TypeOK
  <2>3. Len(list') = Len(list)
    BY <2>1, <2>2, LenProperties
  <2>4. \A i \in 1..Len(list) : /\ list'[i].thread = list[i].thread
                                /\ list[i].thread # t => list'[i] = list[i]
    BY <1>1, <2>1 DEF FrameDies, Entry
  <2> QED
    BY <2>1, <2>3, <2>4
<1>3. list = <<>> => list' = <<>>
  BY <1>1, <1>2, EmptySeq DEF TypeOK
<1>4. Pending' \subseteq Pending \ {t}
  BY <1>1 DEF Pending, InLoop
<1>5. PendingAreQueued'
  BY <1>2, <1>4 DEF PendingAreQueued
<1>6. NoStrandedPermit'
  BY <1>1, <1>3 DEF NoStrandedPermit
<1>7. SignalledAreWaiting'
  BY <1>1 DEF SignalledAreWaiting, Waiting
<1>8. DestroyAssertion'
  BY <1>1 DEF DestroyAssertion
<1>9. CASE sleep[t] = "woken"
  <2>1. t \in InFlight /\ t \in Waiting
    BY <1>9 DEF SignalledAreWaiting, InFlight, Waiting
  <2>2. Waiting' = Waiting \ {t} /\ InFlight' = InFlight \ {t}
    BY <1>1 DEF InFlight, Waiting, InLoop
  <2>3. /\ Cardinality(Waiting') = Cardinality(Waiting) - 1
        /\ Cardinality(InFlight') = Cardinality(InFlight) - 1
    BY <2>1, <2>2, CountedSets, FS_RemoveElement
  <2>4. taken' = taken + 1
    BY <1>9 DEF WaitReturns
  <2>5. Balance' /\ (0 <= Lost)'
    BY <1>1, <1>2, <2>3, <2>4, CountedSets, SemaphoreAssumption DEF Balance, Lost, TypeOK
  <2> QED
    BY <1>5, <1>6, <1>7, <1>8, <2>5
<1>10. CASE sleep[t] = "expired"
  <2>1. t \notin Waiting /\ ~signal[t]
    BY <1>10 DEF SignalledAreWaiting, Waiting, InLoop
  <2>2. Waiting' = Waiting /\ InFlight' = InFlight
    BY <1>1, <2>1 DEF InFlight, Waiting, InLoop
  <2>3. taken' = taken
    BY <1>10 DEF WaitReturns
  <2>4. Balance' /\ (0 <= Lost)'
    BY <1>1, <1>2, <2>2, <2>3 DEF Balance, Lost
  <2> QED
    BY <1>5, <1>6, <1>7, <1>8, <2>4
<1> QED
  BY <1>9, <1>10 DEF WaitReturns

(* Popping k entries adds at most k threads to the signalled ones, and no  *)
(* thread loses its signal.                                                *)
LEMMA PopSignals ==
  ASSUME TypeOK, NEW k \in Nat, k <= Len(list), NEW reused \in SUBSET Threads,
         ContExecution(k, reused)
  PROVE  /\ Waiting' = Waiting
         /\ InFlight' = InFlight \cup Signalled(k, reused)
         /\ Pending' = Pending \ Signalled(k, reused)
         /\ Cardinality(InFlight') \in Nat
         /\ Cardinality(InFlight) <= Cardinality(InFlight')
         /\ Cardinality(InFlight') <= Cardinality(InFlight) + k
<1> DEFINE Hit == Signalled(k, reused)
<1>1. /\ Hit \in SUBSET Threads
      /\ \A t \in Hit : sleep[t] \in InLoop /\ \E i \in 1..k : list[i].thread = t
  BY DEF Signalled
<1>2. /\ signal' = [t \in Threads |-> signal[t] \/ t \in Hit]
      /\ sleep' = [t \in Threads |->
                     IF t \in Hit /\ sleep[t] = "asleep" THEN "checking" ELSE sleep[t]]
  BY DEF ContExecution, LinuxPokeThread
<1> HIDE DEF Hit
<1>3. Waiting' = Waiting /\ InFlight' = InFlight \cup Hit /\ Pending' = Pending \ Hit
  BY <1>1, <1>2 DEF Waiting, InFlight, Pending, InLoop
<1>4. Cardinality(Hit) <= k /\ IsFiniteSet(Hit) /\ Cardinality(Hit) \in Nat
  BY <1>1, ThreadsOfEntries, ThreadSetsFinite DEF TypeOK
<1>5. IsFiniteSet(InFlight') /\ Cardinality(InFlight') \in Nat
  BY ThreadSetsFinite DEF InFlight
<1>6. Cardinality(InFlight) <= Cardinality(InFlight')
  BY <1>3, <1>5, FS_Subset
<1>7. Cardinality(InFlight \cup Hit)
        = Cardinality(InFlight) + Cardinality(Hit) - Cardinality(InFlight \cap Hit)
  BY <1>4, CountedSets, FS_Union
<1>8. Cardinality(InFlight \cap Hit) \in Nat
  BY <1>1, ThreadSetsFinite
<1>9. Cardinality(InFlight') <= Cardinality(InFlight) + k
  BY <1>3, <1>4, <1>7, <1>8, CountedSets
<1> QED
  BY <1>3, <1>5, <1>6, <1>9 DEF Hit

(* Trigger, once its choices are made: k entries leave the head of the     *)
(* list, and at most k threads become signalled.                           *)
LEMMA TriggerKeeps ==
  ASSUME IInv, TypeOK', NEW n \in TriggerCounts, Trigger(n)
  PROVE  IInv'
<1> USE DEF IInv
<1> DEFINE k == Smaller(n, Len(list))
<1>1. n \in Nat /\ Len(list) \in Nat /\ k \in Nat /\ k <= n /\ k <= Len(list)
  BY SemaphoreAssumption, LenProperties, SmallerProperties DEF TypeOK
<1>2. PICK reused \in SUBSET Threads : ContExecution(k, reused)
  BY DEF Trigger
<1>3. /\ counter' = counter + (n - k) /\ triggered' = triggered + n
      /\ UNCHANGED <<lifetime, taken, timeouts>>
  BY DEF Trigger
<1>4. k = n \/ k = Len(list)
  BY <1>1 DEF Smaller
<1> DEFINE Hit == Signalled(k, reused)
<1>5. /\ Hit \subseteq Threads
      /\ \A t \in Hit : sleep[t] \in InLoop /\ \E i \in 1..k : list[i].thread = t
      /\ \A t \in Threads, i \in 1..k :
            sleep[t] \in InLoop /\ list[i].thread = t /\ list[i].live => t \in Hit
  BY DEF Signalled
<1>6. /\ list' = SubSeq(list, k + 1, Len(list))
      /\ signal' = [t \in Threads |-> signal[t] \/ t \in Hit]
      /\ sleep' = [t \in Threads |->
                     IF t \in Hit /\ sleep[t] = "asleep" THEN "checking" ELSE sleep[t]]
  BY <1>2 DEF ContExecution, LinuxPokeThread
<1> HIDE DEF k, Hit
<1>8. Waiting' = Waiting /\ Pending' = Pending \ Hit
  BY <1>1, <1>2, PopSignals DEF Hit
<1>9. /\ Cardinality(InFlight') \in Nat
      /\ Cardinality(InFlight') <= Cardinality(InFlight) + k
  BY <1>1, <1>2, PopSignals
<1>11. /\ Len(list') = Len(list) - k
       /\ \A i \in 1..(Len(list) - k) : list'[i] = list[k + i]
  <2>1. list \in Seq(Entry)
    BY DEF TypeOK
  <2> QED
    BY <1>1, <1>6, <2>1, SubSeqProperties
<1>13. Balance'
  <2>1. Cardinality(Waiting') = Cardinality(Waiting)
    BY <1>8
  <2>2. Len(list') = Len(list) - k
    BY <1>11
  <2>3. /\ Cardinality(Waiting) \in Nat /\ StartCount \in Nat
        /\ counter \in Nat /\ taken \in Nat /\ timeouts \in Nat /\ triggered \in Nat
    BY CountedSets, SemaphoreAssumption DEF TypeOK
  <2>4. StartCount + triggered + Len(list) = counter + taken + timeouts + Cardinality(Waiting)
    BY DEF Balance
  <2> HIDE DEF IInv
  <2> QED
    BY <1>1, <1>3, <2>1, <2>2, <2>3, <2>4 DEF Balance
<1>14. (0 <= Lost)'
  BY <1>1, <1>3, <1>9, CountedSets, SemaphoreAssumption DEF Lost, TypeOK
<1>15. PendingAreQueued'
  <2> SUFFICES ASSUME NEW t \in Pending'
               PROVE  \E i \in 1..Len(list') : list'[i].thread = t /\ list'[i].live
    BY DEF PendingAreQueued
  <2>1. t \in Pending /\ t \notin Hit /\ t \in Threads /\ sleep[t] \in InLoop
    BY <1>8 DEF Pending
  <2>2. PICK i \in 1..Len(list) : list[i].thread = t /\ list[i].live
    BY <2>1 DEF PendingAreQueued
  <2>3. ~(i <= k)
    BY <1>1, <1>5, <2>1, <2>2
  <2>4. i - k \in 1..Len(list') /\ list'[i - k] = list[i]
    BY <1>1, <1>11, <2>2, <2>3
  <2> QED
    BY <2>2, <2>4
<1>16. SignalledAreWaiting'
  BY <1>5, <1>6, <1>8 DEF SignalledAreWaiting, Waiting, InLoop
<1>17. NoStrandedPermit'
  <2>1. CASE k = Len(list)
    <3>1. Len(list') = 0
      BY <1>1, <1>11, <2>1
    <3> QED
      BY <3>1, EmptySeq, LenProperties DEF NoStrandedPermit, TypeOK
  <2>2. CASE k = n /\ k # Len(list)
    <3>1. list # <<>>
      BY <1>1, <2>2
    <3> QED
      BY <1>1, <1>3, <2>2, <3>1 DEF NoStrandedPermit, TypeOK
  <2> QED
    BY <1>4, <2>1, <2>2
<1> QED
  BY <1>3, <1>13, <1>14, <1>15, <1>16, <1>17 DEF DestroyAssertion

LEMMA DestroyKeeps ==
  ASSUME IInv, TypeOK', Destroy
  PROVE  IInv'
<1> USE DEF IInv
<1>1. UNCHANGED <<sleep, timer, counter, list, signal, triggered, taken, timeouts>>
  BY DEF Destroy, sleepVars
<1>2. Waiting = {} /\ InFlight = {}
  BY DEF Destroy, Waiting, InFlight, InLoop
<1>3. Cardinality(Waiting) = 0 /\ Cardinality(InFlight) = 0
  BY <1>2, FS_EmptySet
<1>4. list # <<>> => Len(list) > 0
  BY EmptySeq, LenProperties DEF TypeOK
<1>5. list # <<>> => timeouts > 0
  BY <1>3, <1>4, LenProperties, SemaphoreAssumption DEF Balance, Lost, TypeOK
<1>6. DestroyAssertion'
  BY <1>1, <1>5 DEF Destroy, DestroyAssertion
<1> QED
  BY <1>1, <1>6
  DEF NoStrandedPermit, SignalledAreWaiting, PendingAreQueued, Balance, Lost, Waiting, Pending, InFlight

LEMMA InvStep == IInv /\ [Next]_vars => IInv'
<1> SUFFICES ASSUME IInv, [Next]_vars PROVE IInv'
  OBVIOUS
<1>1. TypeOK'
  BY TypeStep DEF IInv
<1>2. CASE Next
  BY <1>1, <1>2, TakePermitKeeps, GoToSleepKeeps, SleepCheckKeeps, SleepLoopKeeps,
     ReturnKeeps, TriggerKeeps, DestroyKeeps DEF Next
<1>3. CASE UNCHANGED vars
  BY <1>1, <1>3
  DEF vars, IInv, NoStrandedPermit, SignalledAreWaiting, PendingAreQueued, Balance, Lost,
      DestroyAssertion, Waiting, Pending, InFlight
<1> QED
  BY <1>2, <1>3

LEMMA InvHolds == Spec => []IInv
<1>1. Init => IInv
  BY InvInit
<1>2. IInv /\ [Next]_vars => IInv'
  BY InvStep
<1> QED
  BY <1>1, <1>2, PTL DEF Spec

(* In Wait or Trigger alike, a free permit and a queued entry never meet.  *)
THEOREM PermitsNeverStranded == Spec => []NoStrandedPermit
<1>1. IInv => NoStrandedPermit
  BY DEF IInv
<1> QED
  BY <1>1, InvHolds, PTL

(* The ledger of Wait and Trigger: no permit from nothing, and at most one *)
(* lost for each wait that timed out.                                      *)
LEMMA LedgerFromInv == IInv => LedgerBounds
<1> SUFFICES ASSUME IInv PROVE Lost <= timeouts
  BY DEF IInv, LedgerBounds
<1>1. Waiting = InFlight \cup Pending /\ InFlight \cap Pending = {}
  BY DEF IInv, TypeOK, SignalledAreWaiting, Waiting, InFlight, Pending, InLoop
<1>2. Cardinality(Waiting) = Cardinality(InFlight) + Cardinality(Pending)
  <2>1. Cardinality(InFlight \cap Pending) = 0
    BY <1>1, FS_EmptySet
  <2>2. Cardinality(InFlight \cup Pending)
          = Cardinality(InFlight) + Cardinality(Pending) - Cardinality(InFlight \cap Pending)
    BY CountedSets, FS_Union
  <2> QED
    BY <1>1, <2>1, <2>2, CountedSets
<1>3. Cardinality(Pending) <= Len(list)
  <2>1. list \in Seq(Entry) /\ Len(list) \in Nat
    BY LenProperties DEF IInv, TypeOK
  <2>2. Pending \in SUBSET Threads
    BY DEF Pending
  <2>3. \A t \in Pending : \E i \in 1..Len(list) : list[i].thread = t
    BY DEF IInv, PendingAreQueued
  <2> QED
    BY <2>1, <2>2, <2>3, ThreadsOfEntries
<1> QED
  BY <1>2, <1>3, CountedSets, LenProperties, SemaphoreAssumption DEF IInv, TypeOK, Balance, Lost

THEOREM LedgerHolds == Spec => []LedgerBounds
BY LedgerFromInv, InvHolds, PTL

(* The destructor's assertion fires only after a wait has timed out.       *)
THEOREM DestroyNeedsTimeout == Spec => []DestroyAssertion
<1>1. IInv => DestroyAssertion
  BY DEF IInv
<1> QED
  BY <1>1, InvHolds, PTL

-----------------------------------------------------------------------------
(* Refinement.                                                             *)

LEMMA PoolInitially == Init => Pool!PoolInit
<1> SUFFICES ASSUME Init PROVE Pool!PoolInit
  OBVIOUS
<1>1. InFlight = {}
  BY DEF Init, InFlight
<1>2. Cardinality(InFlight) = 0
  BY <1>1, FS_EmptySet
<1> QED
  BY <1>2, SemaphoreAssumption DEF Init, Pool!PoolInit, Lost

(* Every step of the semaphore is a step of the pool or leaves it alone.   *)
LEMMA PoolStep ==
  IInv /\ IInv' /\ LedgerBounds' /\ [Next]_vars => [Pool!PoolNext]_(Pool!poolVars)
<1> SUFFICES ASSUME IInv, IInv', LedgerBounds', [Next]_vars
             PROVE  Pool!PoolNext \/ UNCHANGED Pool!poolVars
  OBVIOUS
<1> DEFINE f == Cardinality(InFlight)
<1>1. /\ f \in Nat /\ StartCount \in Nat
      /\ counter \in Nat /\ taken \in Nat /\ timeouts \in Nat /\ triggered \in Nat
  BY CountedSets, SemaphoreAssumption DEF IInv, TypeOK
<1>2. ASSUME NEW t \in Threads, WaitTakesPermit(t) PROVE Pool!TestAndDec
  <2>1. InFlight' = InFlight
    BY <1>2, SameSets DEF WaitTakesPermit, sleepVars
  <2> QED
    BY <1>1, <1>2, <2>1 DEF WaitTakesPermit, Pool!TestAndDec, Lost
<1>3. ASSUME UNCHANGED <<counter, triggered, taken, timeouts>>, InFlight' = InFlight
      PROVE  UNCHANGED Pool!poolVars
  BY <1>3 DEF Pool!poolVars, Lost
<1>4. ASSUME NEW t \in Threads, NEW ms \in Timeouts, WaitGoesToSleep(t, ms)
      PROVE  UNCHANGED Pool!poolVars
  <2>1. InFlight' = InFlight
    BY <1>4 DEF WaitGoesToSleep, EnterSleep, NewThreadContext, InFlight, InLoop,
                IInv, TypeOK, SleepTypeOK
  <2> QED
    BY <1>3, <1>4, <2>1 DEF WaitGoesToSleep
<1>5. ASSUME NEW t \in Threads, SleepCheck(t)
      PROVE  Pool!GiveUp \/ UNCHANGED Pool!poolVars
  <2>1. InFlight' = InFlight
    BY <1>5 DEF SleepCheck, CheckWake, SemaphoreIsWaking, InFlight, InLoop,
                IInv, TypeOK, SleepTypeOK
  <2>2. CASE timeouts' = timeouts
    BY <1>3, <1>5, <2>1, <2>2 DEF SleepCheck
  <2>3. CASE timeouts' = timeouts + 1
    BY <1>5, <2>1, <2>3 DEF SleepCheck, Pool!GiveUp, Lost
  <2> QED
    BY <1>5, <2>2, <2>3 DEF SleepCheck
<1>6. ASSUME NEW t \in Threads,
             SleepSchedule(t) \/ SleepTimer(t) \/ SleepDisturbed(t)
      PROVE  UNCHANGED Pool!poolVars
  <2>1. InFlight' = InFlight
    BY <1>6, SameSets
    DEF SleepSchedule, SleepTimer, SleepDisturbed, Schedule, TimerFires, Disturbed, Unrelated,
        IInv, TypeOK, SleepTypeOK, InLoop
  <2> QED
    BY <1>3, <1>6, <2>1 DEF SleepSchedule, SleepTimer, SleepDisturbed, Unrelated
<1>7. ASSUME NEW t \in Threads, WaitReturns(t)
      PROVE  Pool!TestAndDec \/ UNCHANGED Pool!poolVars
  <2>1. CASE sleep[t] = "woken"
    <3>1. t \in InFlight
      BY <2>1 DEF IInv, SignalledAreWaiting, InFlight
    <3>2. InFlight' = InFlight \ {t}
      BY <1>7 DEF WaitReturns, LeaveSleep, InFlight, InLoop, IInv, TypeOK, SleepTypeOK
    <3>3. f' = f - 1
      BY <3>1, <3>2, CountedSets, FS_RemoveElement
    <3>4. f > 0
      BY <3>1, CountedSets, FS_EmptySet
    <3>5. UNCHANGED <<counter, triggered, timeouts>> /\ taken' = taken + 1
      BY <1>7, <2>1 DEF WaitReturns
    <3> QED
      BY <1>1, <3>3, <3>4, <3>5 DEF Pool!TestAndDec, Lost
  <2>2. CASE sleep[t] = "expired"
    <3>1. InFlight' = InFlight
      BY <1>7, <2>2 DEF WaitReturns, LeaveSleep, InFlight, InLoop, IInv, TypeOK, SleepTypeOK,
                        SignalledAreWaiting, Waiting
    <3> QED
      BY <1>3, <1>7, <2>2, <3>1 DEF WaitReturns
  <2> QED
    BY <1>7, <2>1, <2>2 DEF WaitReturns
<1>8. ASSUME NEW n \in TriggerCounts, Trigger(n) PROVE Pool!Add
  <2> DEFINE k == Smaller(n, Len(list))
  <2>1. n \in Nat /\ k \in Nat /\ k <= n /\ k <= Len(list)
    BY SemaphoreAssumption, LenProperties, SmallerProperties DEF IInv, TypeOK
  <2>2. PICK reused \in SUBSET Threads : ContExecution(k, reused)
    BY <1>8 DEF Trigger
  <2>3. /\ counter' = counter + (n - k) /\ triggered' = triggered + n
        /\ UNCHANGED <<taken, timeouts>>
    BY <1>8 DEF Trigger
  <2> HIDE DEF k
  <2>4. f' \in Nat /\ f <= f' /\ f' <= f + k
    BY <2>1, <2>2, PopSignals DEF IInv
  <2>5. Lost' >= Lost /\ (counter + f)' >= counter + f
    BY <1>1, <2>1, <2>3, <2>4 DEF Lost
  <2>6. (counter + f)' - (counter + f) = (triggered' - triggered) - (Lost' - Lost)
    BY <1>1, <2>1, <2>3, <2>4 DEF Lost
  <2>7. Lost' <= timeouts'
    BY DEF LedgerBounds
  <2>8. triggered' >= triggered /\ UNCHANGED <<taken, timeouts>>
    BY <1>1, <2>1, <2>3
  <2> QED
    BY <2>5, <2>6, <2>7, <2>8 DEF Pool!Add
<1>9. ASSUME Destroy PROVE UNCHANGED Pool!poolVars
  BY <1>9, SameSets, <1>3 DEF Destroy, sleepVars
<1>10. ASSUME UNCHANGED vars PROVE UNCHANGED Pool!poolVars
  BY <1>10, SameSets, <1>3 DEF vars
<1> QED
  BY <1>2, <1>4, <1>5, <1>6, <1>7, <1>8, <1>9, <1>10 DEF Next, Pool!PoolNext

(* The semaphore implements the pool of permits, timeouts and all.         *)
THEOREM SemaphoreImplementsPool == Spec => ImplementsPool
<1>1. Init => Pool!PoolInit
  BY PoolInitially
<1>2. IInv => LedgerBounds
  BY LedgerFromInv
<1>3. IInv /\ IInv' /\ LedgerBounds' /\ [Next]_vars => [Pool!PoolNext]_(Pool!poolVars)
  BY PoolStep
<1> QED
  BY <1>1, <1>2, <1>3, InvHolds, PTL DEF Spec, ImplementsPool, Pool!PoolSpec

=============================================================================
