------------------------- MODULE ThreadLifecycleProofs -------------------------
(***************************************************************************)
(* What ThreadLifecycle keeps for any number of threads and clients.       *)
(*                                                                         *)
(* IInv has one part for each protocol of the code: how a spawner meets    *)
(* its thread (SpawnInv), what a murder holds while it is under way        *)
(* (MurderInv), how a handle, its link in the chain and its thread go      *)
(* together (HandleInv), and what closing_threads counts (CountInv).       *)
(***************************************************************************)
EXTENDS ThreadLifecycle, FiniteSetTheorems, TLAPS

-----------------------------------------------------------------------------
(* TypeOK, with the two counters merely natural.                           *)
Types ==
  /\ pc \in [Pids -> {"none", "entering", "hooking", "create", "announce", "start",
                      "exiting", "stuck", "gone"} \cup ExitInside]
  /\ died \in [Pids -> Codes \cup {NoCode}]
  /\ exitCode \in [Pids -> Codes \cup {NoCode}]
  /\ deathCode \in [Pids -> Codes \cup {NoCode}]
  /\ told \in [Pids -> SUBSET {"create", "start", "exit"}]
  /\ handle \in [Pids -> {"none", "alive", "deleted"}]
  /\ task \in [Pids -> BOOLEAN]
  /\ tryKill \in [Pids -> BOOLEAN]
  /\ deathSignal \in [Pids -> BOOLEAN]
  /\ lock \in [Pids -> Clients \cup {Free}]
  /\ closing \in Nat
  /\ handles \subseteq Pids /\ entries \subseteq Pids /\ owned \subseteq Pids
  /\ instance \in Pids \cup {Nobody}
  /\ permits \in Nat /\ unslept \in BOOLEAN
  /\ spawnMutex \in Clients \cup {Free}
  /\ chainMutex \in Pids \cup {Free} /\ deallocMutex \in Pids \cup {Free}
  /\ at \in [Clients -> {"out", "spawning", "taking", "counting", "signalling", "waking",
                         "deleting"}]
  /\ on \in [Clients -> Pids \cup {Nobody}]
  /\ \A c \in Clients : at[c] # "out" => on[c] \in Pids

Early == {"entering", "hooking", "create", "announce"}

Unpublished == {"none", "entering", "hooking", "create"}

(* There is one spawner at a time, and instance names a thread that made   *)
(* itself known.  As long as every spawner waits, a thread that has not    *)
(* announced itself has one that waits for it, with no permit to take, and *)
(* a permit is for the thread that is named in instance.                   *)
SpawnOrder ==
  /\ \A t \in Pids : pc[t] \in Early =>
       spawnMutex \in Clients /\ at[spawnMutex] = "spawning" /\ on[spawnMutex] = t /\ permits = 0
  /\ permits # 0 =>
       /\ permits = 1 /\ instance = on[spawnMutex]
       /\ spawnMutex \in Clients /\ at[spawnMutex] = "spawning"
  /\ \A t \in Pids : pc[t] = "announce" => instance = t
  /\ \A c \in Clients : at[c] = "taking" => instance = on[c]

SpawnInv ==
  /\ \A c \in Clients : at[c] \in {"spawning", "taking"} <=> spawnMutex = c
  /\ \A c \in Clients : at[c] \in {"spawning", "taking"} => pc[on[c]] # "none"
  /\ \A t \in Pids : pc[t] \in Unpublished => instance # t
  /\ ~unslept => SpawnOrder

(* A murder holds the spinlock of its handle from the flag to the wake-up, *)
(* and there is one of each thread.                                        *)
Murdering(c) == at[c] \in {"counting", "signalling", "waking"}

MurderInv ==
  /\ \A c \in Clients : Murdering(c) => lock[on[c]] = c /\ tryKill[on[c]]
  /\ \A c \in Clients : at[c] \in {"counting", "signalling"} => ~deathSignal[on[c]]
  /\ \A t \in Pids : deathSignal[t] => tryKill[t]

(* A handle is in the chain from its creation until its destruction begins *)
(* and a thread past its exit callback has told it, or found none.         *)
Deleting(t) == \E c \in Clients : at[c] = "deleting" /\ on[c] = t

HandleInv ==
  /\ \A t \in Pids : t \in handles <=> handle[t] = "alive" /\ ~Deleting(t)
  /\ \A t \in Pids : pc[t] \in Unpublished => t \notin owned /\ ~Deleting(t)
  /\ \A t \in Pids : pc[t] \in {"none", "entering", "hooking"} => told[t] = {}
  /\ \A t \in Pids : pc[t] = "signal" => t \in handles
  /\ \A t \in Pids : pc[t] \in {"signal", "leave"} => deallocMutex = t
  /\ \A t \in Pids : pc[t] \in {"leave", "gone"} => ~task[t] \/ t \notin handles
  /\ \A t \in Pids : handle[t] = "alive" /\ ~task[t] =>
       pc[t] \in {"leave", "gone", "stuck"} /\ exitCode[t] = died[t]
  /\ \A c \in Clients : Murdering(c) => on[c] \in handles /\ task[on[c]]

(* closing_threads counts the threads told to die that have not seen it,   *)
(* and those whose murderer is about to tell them.                         *)
Pending == {t \in Pids : deathSignal[t] \/ \E c \in Clients : at[c] = "signalling" /\ on[c] = t}

CountInv == closing = Cardinality(Pending)

IInv == Types /\ SpawnInv /\ MurderInv /\ HandleInv /\ CountInv

-----------------------------------------------------------------------------
(* No thread, no handle, no murder at the start.                           *)
LEMMA InitInv == Init => IInv
<1> SUFFICES ASSUME Init PROVE IInv
  OBVIOUS
<1>1. Types
  BY DEF Init, Types
<1>2. SpawnInv
  BY LifecycleAssumption DEF Init, SpawnInv, SpawnOrder, Unpublished, Early
<1>3. MurderInv /\ HandleInv
  BY DEF Init, MurderInv, HandleInv, Murdering, Deleting, Unpublished
<1>4. Pending = {}
  BY DEF Init, Pending
<1>5. CountInv
  BY <1>4, FS_EmptySet DEF Init, CountInv
<1> QED
  BY <1>1, <1>2, <1>3, <1>5 DEF IInv

(* Every step keeps the types of the variables.                            *)
LEMMA TypesStep ==
  ASSUME IInv, [Next]_vars
  PROVE  Types'
<1>0. Types /\ SpawnInv
  BY DEF IInv
<1>1. ASSUME NEW c \in Clients, NEW t \in Pids, SpawnOThread(c, t)
      PROVE  Types'
  BY <1>0, <1>1 DEF SpawnOThread, handleVars, deathVars, chainVars, Move, Types
<1>2. ASSUME NEW c \in Clients, NEW t \in Pids, NEW code \in Codes, TryMurder(c, t, code)
      PROVE  Types'
  BY <1>0, <1>2 DEF TryMurder, threadVars, chainVars, createVars, Move, Published, Types
<1>3. ASSUME NEW c \in Clients, NEW t \in Pids, InvalidateImp(c, t)
      PROVE  Types'
  BY <1>0, <1>3 DEF InvalidateImp, threadVars, handleVars, deathVars, createVars, Move, Types
<1>4. ASSUME NEW c \in Clients, SpawnWakes(c)
      PROVE  Types'
  BY <1>0, <1>4 DEF SpawnWakes, threadVars, handleVars, deathVars, chainVars, Move, Types
<1>24. ASSUME NEW c \in Clients, SpawnCannotWait(c)
      PROVE  Types'
  BY <1>0, <1>24 DEF SpawnCannotWait, threadVars, handleVars, deathVars, chainVars, Move, Types
<1>5. ASSUME NEW c \in Clients, SpawnReturns(c)
      PROVE  Types'
  BY <1>0, <1>5 DEF SpawnReturns, threadVars, handleVars, deathVars, chainVars, Move, SpawnInv,
       Types
<1>6. ASSUME NEW c \in Clients, MurderCounts(c)
      PROVE  Types'
  BY <1>0, <1>6 DEF MurderCounts, threadVars, handleVars, chainVars, createVars, Move, Types
<1>7. ASSUME NEW c \in Clients, MurderSignals(c)
      PROVE  Types'
  BY <1>0, <1>7 DEF MurderSignals, threadVars, handleVars, chainVars, createVars, Move, Types
<1>8. ASSUME NEW c \in Clients, MurderWakes(c)
      PROVE  Types'
  BY <1>0, <1>8 DEF MurderWakes, threadVars, deathVars, chainVars, createVars, Move, Types
<1>9. ASSUME NEW c \in Clients, Delete(c)
      PROVE  Types'
  BY <1>0, <1>9 DEF Delete, threadVars, deathVars, chainVars, createVars, Move, Types
<1>10. ASSUME NEW t \in Pids, ThreadEPHandleChains(t)
      PROVE  Types'
  BY <1>0, <1>10 DEF ThreadEPHandleChains, deathVars, createVars, clientVars, ExitInside, Types
<1>11. ASSUME NEW t \in Pids, ThreadEPInstalls(t)
      PROVE  Types'
  BY <1>0, <1>11 DEF ThreadEPInstalls, handleVars, deathVars, chainVars, createVars, clientVars,
       ExitInside,
       Types
<1>12. ASSUME NEW t \in Pids, CreateReturns(t)
      PROVE  Types'
  BY <1>0, <1>12 DEF CreateReturns, handleVars, deathVars, chainVars, clientVars, ExitInside,
       Types
<1>13. ASSUME NEW t \in Pids, Announce(t)
      PROVE  Types'
  <2>1. permits' \in Nat
    BY <1>0, <1>13 DEF Announce, Types
  <2> QED
    BY <1>0, <1>13, <2>1 DEF Announce, handleVars, deathVars, chainVars, clientVars, ExitInside,
         Types
<1>14. ASSUME NEW t \in Pids, NEW code \in Codes, StartReturns(t, code)
      PROVE  Types'
  BY <1>0, <1>14 DEF StartReturns, handleVars, deathVars, chainVars, createVars, clientVars, Types
<1>15. ASSUME NEW t \in Pids, RuntimeThreadPostContextSwitch(t)
      PROVE  Types'
  <2>1. closing' \in Nat
    BY <1>0, <1>15 DEF RuntimeThreadPostContextSwitch, DeathSeen, ConsumeSignal, Types
  <2> QED
    BY <1>0, <1>15, <2>1 DEF RuntimeThreadPostContextSwitch, handleVars, chainVars, createVars,
         clientVars, DeathSeen, ConsumeSignal, ExitInside, Types
<1>16. ASSUME NEW t \in Pids, ExitsWhileExiting(t)
      PROVE  Types'
  <2>1. closing' \in Nat
    BY <1>0, <1>16 DEF ExitsWhileExiting, DeathSeen, ConsumeSignal, Types
  <2> QED
    BY <1>0, <1>16, <2>1 DEF ExitsWhileExiting, handleVars, chainVars, createVars, clientVars,
         DeathSeen, ConsumeSignal, ExitInside, Types
<1>17. ASSUME NEW t \in Pids, RuntimeThreadExit(t)
      PROVE  Types'
  BY <1>0, <1>17 DEF RuntimeThreadExit, handleVars, deathVars, chainVars, createVars, clientVars,
       ExitInside, Types
<1>18. ASSUME NEW t \in Pids, ThreadExitNtfyEP(t)
      PROVE  Types'
  <2>1. told' \in [Pids -> SUBSET {"create", "start", "exit"}]
    <3>1. told' = told \/ told' = [told EXCEPT ![t] = @ \cup {"exit"}]
      BY <1>18 DEF ThreadExitNtfyEP
    <3> QED
      BY <1>0, <3>1 DEF Types
  <2>2. pc' \in [Pids -> {"none", "entering", "hooking", "create", "announce", "start",
                         "exiting", "stuck", "gone"} \cup ExitInside]
    <3>1. pc' = [pc EXCEPT ![t] = "telling"] \/ pc' = [pc EXCEPT ![t] = "look up"]
      BY <1>18 DEF ThreadExitNtfyEP
    <3> QED
      BY <1>0, <3>1 DEF Types, ExitInside
  <2> QED
    BY <1>0, <1>18, <2>1, <2>2
    DEF ThreadExitNtfyEP, handleVars, deathVars, chainVars, createVars, clientVars, Types
<1>23. ASSUME NEW t \in Pids, ExitMessageReturns(t)
      PROVE  Types'
  BY <1>0, <1>23 DEF ExitMessageReturns, handleVars, deathVars, createVars, clientVars,
       ExitInside, Types
<1>19. ASSUME NEW t \in Pids, ThreadExitNtfyObject(t)
      PROVE  Types'
  BY <1>0, <1>19 DEF ThreadExitNtfyObject, handleVars, deathVars, chainVars, createVars,
       clientVars,
       ExitInside, Types
<1>20. ASSUME NEW t \in Pids, SignalDead(t)
      PROVE  Types'
  BY <1>0, <1>20 DEF SignalDead, deathVars, chainVars, createVars, clientVars, ExitInside, Types
<1>21. ASSUME NEW t \in Pids, ExitLeaves(t)
      PROVE  Types'
  BY <1>0, <1>21 DEF ExitLeaves, handleVars, deathVars, chainVars, createVars, clientVars,
       ExitInside,
       Types
<1>22. CASE UNCHANGED vars
  BY <1>0, <1>22 DEF vars, threadVars, handleVars, deathVars, chainVars, createVars, clientVars,
       Types
<1> QED
  BY <1>1, <1>2, <1>3, <1>4, <1>5, <1>6, <1>7, <1>8, <1>9, <1>10, <1>11, <1>12, <1>13,
       <1>14, <1>15, <1>16, <1>17, <1>18, <1>19, <1>20, <1>21, <1>22, <1>23, <1>24
    DEF Next, Codes, Murder, Exit

(* At most one spawner waits, and for the thread it created: the mutex of  *)
(* sync_thread_create covers the whole of SpawnOThread, and a thread that  *)
(* has not announced itself is the one the owner of the mutex waits for.   *)
LEMMA SpawnStep ==
  ASSUME IInv, [Next]_vars
  PROVE  SpawnInv'
<1>0. /\ SpawnInv
      /\ DOMAIN pc = Pids /\ DOMAIN at = Clients /\ DOMAIN on = Clients
      /\ permits \in Nat
      /\ \A c \in Clients : at[c] # "out" => on[c] \in Pids
      /\ Free \notin Clients /\ Nobody \notin Pids
  BY LifecycleAssumption DEF IInv, Types
<1>1. ASSUME NEW c \in Clients, NEW t \in Pids, SpawnOThread(c, t)
      PROVE  SpawnInv'
  BY <1>0, <1>1 DEF SpawnOThread, handleVars, deathVars, chainVars, Move, SpawnInv, SpawnOrder,
       Unpublished, Early, ExitInside
<1>2. ASSUME NEW c \in Clients, NEW t \in Pids, NEW code \in Codes, TryMurder(c, t, code)
      PROVE  SpawnInv'
  BY <1>0, <1>2 DEF TryMurder, threadVars, chainVars, createVars, Move, Published, SpawnInv,
       SpawnOrder, Unpublished, Early,
       ExitInside
<1>3. ASSUME NEW c \in Clients, NEW t \in Pids, InvalidateImp(c, t)
      PROVE  SpawnInv'
  BY <1>0, <1>3 DEF InvalidateImp, threadVars, handleVars, deathVars, createVars, Move, SpawnInv,
       SpawnOrder, Unpublished, Early,
       ExitInside
<1>4. ASSUME NEW c \in Clients, SpawnWakes(c)
      PROVE  SpawnInv'
  BY <1>0, <1>4 DEF SpawnWakes, threadVars, handleVars, deathVars, chainVars, Move, SpawnInv,
       SpawnOrder, Unpublished, Early,
       ExitInside
<1>24. ASSUME NEW c \in Clients, SpawnCannotWait(c)
      PROVE  SpawnInv'
  BY <1>0, <1>24 DEF SpawnCannotWait, threadVars, handleVars, deathVars, chainVars, Move,
       SpawnInv, SpawnOrder, Unpublished, Early,
       ExitInside
<1>5. ASSUME NEW c \in Clients, SpawnReturns(c)
      PROVE  SpawnInv'
  BY <1>0, <1>5 DEF SpawnReturns, threadVars, handleVars, deathVars, chainVars, Move, SpawnInv,
       SpawnOrder, Unpublished, Early,
       ExitInside
<1>6. ASSUME NEW c \in Clients, MurderCounts(c)
      PROVE  SpawnInv'
  BY <1>0, <1>6 DEF MurderCounts, threadVars, handleVars, chainVars, createVars, Move, SpawnInv,
       SpawnOrder, Unpublished, Early,
       ExitInside
<1>7. ASSUME NEW c \in Clients, MurderSignals(c)
      PROVE  SpawnInv'
  BY <1>0, <1>7 DEF MurderSignals, threadVars, handleVars, chainVars, createVars, Move, SpawnInv,
       SpawnOrder, Unpublished, Early,
       ExitInside
<1>8. ASSUME NEW c \in Clients, MurderWakes(c)
      PROVE  SpawnInv'
  BY <1>0, <1>8 DEF MurderWakes, threadVars, deathVars, chainVars, createVars, Move, SpawnInv,
       SpawnOrder, Unpublished, Early,
       ExitInside
<1>9. ASSUME NEW c \in Clients, Delete(c)
      PROVE  SpawnInv'
  BY <1>0, <1>9 DEF Delete, threadVars, deathVars, chainVars, createVars, Move, SpawnInv,
       SpawnOrder, Unpublished, Early,
       ExitInside
<1>10. ASSUME NEW t \in Pids, ThreadEPHandleChains(t)
      PROVE  SpawnInv'
  BY <1>0, <1>10 DEF ThreadEPHandleChains, deathVars, createVars, clientVars, SpawnInv,
       SpawnOrder, Unpublished, Early, ExitInside
<1>11. ASSUME NEW t \in Pids, ThreadEPInstalls(t)
      PROVE  SpawnInv'
  BY <1>0, <1>11 DEF ThreadEPInstalls, handleVars, deathVars, chainVars, createVars, clientVars,
       SpawnInv,
       SpawnOrder, Unpublished, Early, ExitInside
<1>12. ASSUME NEW t \in Pids, CreateReturns(t)
      PROVE  SpawnInv'
  BY <1>0, <1>12 DEF CreateReturns, handleVars, deathVars, chainVars, clientVars, SpawnInv,
       SpawnOrder, Unpublished, Early,
       ExitInside
<1>13. ASSUME NEW t \in Pids, Announce(t)
      PROVE  SpawnInv'
  BY <1>0, <1>13 DEF Announce, handleVars, deathVars, chainVars, clientVars, SpawnInv,
       SpawnOrder, Unpublished, Early, ExitInside
<1>14. ASSUME NEW t \in Pids, NEW code \in Codes, StartReturns(t, code)
      PROVE  SpawnInv'
  BY <1>0, <1>14 DEF StartReturns, handleVars, deathVars, chainVars, createVars, clientVars,
       SpawnInv,
       SpawnOrder, Unpublished, Early, ExitInside
<1>15. ASSUME NEW t \in Pids, RuntimeThreadPostContextSwitch(t)
      PROVE  SpawnInv'
  BY <1>0, <1>15 DEF RuntimeThreadPostContextSwitch, handleVars, chainVars, createVars,
       clientVars,
       DeathSeen, ConsumeSignal, SpawnInv, SpawnOrder, Unpublished, Early, ExitInside
<1>16. ASSUME NEW t \in Pids, ExitsWhileExiting(t)
      PROVE  SpawnInv'
  BY <1>0, <1>16 DEF ExitsWhileExiting, handleVars, chainVars, createVars, clientVars, DeathSeen,
       ConsumeSignal, ExitInside, SpawnInv, SpawnOrder, Unpublished, Early, ExitInside
<1>17. ASSUME NEW t \in Pids, RuntimeThreadExit(t)
      PROVE  SpawnInv'
  BY <1>0, <1>17 DEF RuntimeThreadExit, handleVars, deathVars, chainVars, createVars, clientVars,
       SpawnInv,
       SpawnOrder, Unpublished, Early, ExitInside
<1>18. ASSUME NEW t \in Pids, ThreadExitNtfyEP(t)
      PROVE  SpawnInv'
  BY <1>0, <1>18 DEF ThreadExitNtfyEP, handleVars, deathVars, chainVars, createVars, clientVars,
       SpawnInv, SpawnOrder, Unpublished, Early,
       ExitInside
<1>23. ASSUME NEW t \in Pids, ExitMessageReturns(t)
      PROVE  SpawnInv'
  BY <1>0, <1>23 DEF ExitMessageReturns, handleVars, deathVars, createVars, clientVars, SpawnInv,
       SpawnOrder, Unpublished, Early,
       ExitInside
<1>19. ASSUME NEW t \in Pids, ThreadExitNtfyObject(t)
      PROVE  SpawnInv'
  BY <1>0, <1>19 DEF ThreadExitNtfyObject, handleVars, deathVars, chainVars, createVars,
       clientVars,
       SpawnInv, SpawnOrder, Unpublished, Early, ExitInside
<1>20. ASSUME NEW t \in Pids, SignalDead(t)
      PROVE  SpawnInv'
  BY <1>0, <1>20 DEF SignalDead, deathVars, chainVars, createVars, clientVars, SpawnInv,
       SpawnOrder, Unpublished, Early, ExitInside
<1>21. ASSUME NEW t \in Pids, ExitLeaves(t)
      PROVE  SpawnInv'
  BY <1>0, <1>21 DEF ExitLeaves, handleVars, deathVars, chainVars, createVars, clientVars,
       SpawnInv, SpawnOrder, Unpublished, Early,
       ExitInside
<1>22. CASE UNCHANGED vars
  BY <1>0, <1>22 DEF vars, threadVars, handleVars, deathVars, chainVars, createVars, clientVars,
       SpawnInv,
       SpawnOrder, Unpublished, Early, ExitInside
<1> QED
  BY <1>1, <1>2, <1>3, <1>4, <1>5, <1>6, <1>7, <1>8, <1>9, <1>10, <1>11, <1>12, <1>13,
       <1>14, <1>15, <1>16, <1>17, <1>18, <1>19, <1>20, <1>21, <1>22, <1>23, <1>24
    DEF Next, Codes, Murder, Exit

(* A murder that began holds the spinlock of the handle to its end, and    *)
(* _try_kill refuses every later one.                                      *)
LEMMA MurderStep ==
  ASSUME IInv, [Next]_vars
  PROVE  MurderInv'
<1>0. /\ MurderInv
      /\ DOMAIN at = Clients /\ DOMAIN on = Clients /\ DOMAIN lock = Pids
      /\ DOMAIN tryKill = Pids /\ DOMAIN deathSignal = Pids
      /\ \A c \in Clients : at[c] # "out" => on[c] \in Pids
      /\ Free \notin Clients
  BY LifecycleAssumption DEF IInv, Types
<1>1. ASSUME NEW c \in Clients, NEW t \in Pids, SpawnOThread(c, t)
      PROVE  MurderInv'
  BY <1>0, <1>1 DEF SpawnOThread, handleVars, deathVars, chainVars, Move, MurderInv, Murdering
<1>2. ASSUME NEW c \in Clients, NEW t \in Pids, NEW code \in Codes, TryMurder(c, t, code)
      PROVE  MurderInv'
  BY <1>0, <1>2 DEF TryMurder, threadVars, chainVars, createVars, Move, Published, MurderInv,
       Murdering
<1>3. ASSUME NEW c \in Clients, NEW t \in Pids, InvalidateImp(c, t)
      PROVE  MurderInv'
  BY <1>0, <1>3 DEF InvalidateImp, threadVars, handleVars, deathVars, createVars, Move, MurderInv,
       Murdering
<1>4. ASSUME NEW c \in Clients, SpawnWakes(c)
      PROVE  MurderInv'
  BY <1>0, <1>4 DEF SpawnWakes, threadVars, handleVars, deathVars, chainVars, Move, MurderInv,
       Murdering
<1>24. ASSUME NEW c \in Clients, SpawnCannotWait(c)
      PROVE  MurderInv'
  BY <1>0, <1>24 DEF SpawnCannotWait, threadVars, handleVars, deathVars, chainVars, Move,
       MurderInv, Murdering
<1>5. ASSUME NEW c \in Clients, SpawnReturns(c)
      PROVE  MurderInv'
  BY <1>0, <1>5 DEF SpawnReturns, threadVars, handleVars, deathVars, chainVars, Move, MurderInv,
       Murdering
<1>6. ASSUME NEW c \in Clients, MurderCounts(c)
      PROVE  MurderInv'
  BY <1>0, <1>6 DEF MurderCounts, threadVars, handleVars, chainVars, createVars, Move, MurderInv,
       Murdering
<1>7. ASSUME NEW c \in Clients, MurderSignals(c)
      PROVE  MurderInv'
  BY <1>0, <1>7 DEF MurderSignals, threadVars, handleVars, chainVars, createVars, Move, MurderInv,
       Murdering
<1>8. ASSUME NEW c \in Clients, MurderWakes(c)
      PROVE  MurderInv'
  BY <1>0, <1>8 DEF MurderWakes, threadVars, deathVars, chainVars, createVars, Move, MurderInv,
       Murdering
<1>9. ASSUME NEW c \in Clients, Delete(c)
      PROVE  MurderInv'
  BY <1>0, <1>9 DEF Delete, threadVars, deathVars, chainVars, createVars, Move, MurderInv,
       Murdering
<1>10. ASSUME NEW t \in Pids, ThreadEPHandleChains(t)
      PROVE  MurderInv'
  BY <1>0, <1>10 DEF ThreadEPHandleChains, deathVars, createVars, clientVars, MurderInv, Murdering
<1>11. ASSUME NEW t \in Pids, ThreadEPInstalls(t)
      PROVE  MurderInv'
  BY <1>0, <1>11 DEF ThreadEPInstalls, handleVars, deathVars, chainVars, createVars, clientVars,
       MurderInv,
       Murdering
<1>12. ASSUME NEW t \in Pids, CreateReturns(t)
      PROVE  MurderInv'
  BY <1>0, <1>12 DEF CreateReturns, handleVars, deathVars, chainVars, clientVars, MurderInv,
       Murdering
<1>13. ASSUME NEW t \in Pids, Announce(t)
      PROVE  MurderInv'
  BY <1>0, <1>13 DEF Announce, handleVars, deathVars, chainVars, clientVars, MurderInv, Murdering
<1>14. ASSUME NEW t \in Pids, NEW code \in Codes, StartReturns(t, code)
      PROVE  MurderInv'
  BY <1>0, <1>14 DEF StartReturns, handleVars, deathVars, chainVars, createVars, clientVars,
       MurderInv,
       Murdering
<1>15. ASSUME NEW t \in Pids, RuntimeThreadPostContextSwitch(t)
      PROVE  MurderInv'
  BY <1>0, <1>15 DEF RuntimeThreadPostContextSwitch, handleVars, chainVars, createVars,
       clientVars,
       DeathSeen, ConsumeSignal, MurderInv, Murdering
<1>16. ASSUME NEW t \in Pids, ExitsWhileExiting(t)
      PROVE  MurderInv'
  BY <1>0, <1>16 DEF ExitsWhileExiting, handleVars, chainVars, createVars, clientVars, DeathSeen,
       ConsumeSignal, ExitInside, MurderInv, Murdering
<1>17. ASSUME NEW t \in Pids, RuntimeThreadExit(t)
      PROVE  MurderInv'
  BY <1>0, <1>17 DEF RuntimeThreadExit, handleVars, deathVars, chainVars, createVars, clientVars,
       MurderInv,
       Murdering
<1>18. ASSUME NEW t \in Pids, ThreadExitNtfyEP(t)
      PROVE  MurderInv'
  BY <1>0, <1>18 DEF ThreadExitNtfyEP, handleVars, deathVars, chainVars, createVars, clientVars,
       MurderInv, Murdering
<1>23. ASSUME NEW t \in Pids, ExitMessageReturns(t)
      PROVE  MurderInv'
  BY <1>0, <1>23 DEF ExitMessageReturns, handleVars, deathVars, createVars, clientVars,
       MurderInv, Murdering
<1>19. ASSUME NEW t \in Pids, ThreadExitNtfyObject(t)
      PROVE  MurderInv'
  BY <1>0, <1>19 DEF ThreadExitNtfyObject, handleVars, deathVars, chainVars, createVars,
       clientVars,
       MurderInv, Murdering
<1>20. ASSUME NEW t \in Pids, SignalDead(t)
      PROVE  MurderInv'
  BY <1>0, <1>20 DEF SignalDead, deathVars, chainVars, createVars, clientVars, MurderInv,
       Murdering
<1>21. ASSUME NEW t \in Pids, ExitLeaves(t)
      PROVE  MurderInv'
  BY <1>0, <1>21 DEF ExitLeaves, handleVars, deathVars, chainVars, createVars, clientVars,
       MurderInv,
       Murdering
<1>22. CASE UNCHANGED vars
  BY <1>0, <1>22 DEF vars, threadVars, handleVars, deathVars, chainVars, createVars, clientVars,
       MurderInv,
       Murdering
<1> QED
  BY <1>1, <1>2, <1>3, <1>4, <1>5, <1>6, <1>7, <1>8, <1>9, <1>10, <1>11, <1>12, <1>13,
       <1>14, <1>15, <1>16, <1>17, <1>18, <1>19, <1>20, <1>21, <1>22, <1>23, <1>24
    DEF Next, Codes, Murder, Exit

(* A handle and its link go together: the link is cut under the mutex that *)
(* the exit callback holds while it writes to the handle.                  *)
LEMMA HandleStep ==
  ASSUME IInv, [Next]_vars
  PROVE  HandleInv'
<1>0. /\ SpawnInv /\ MurderInv /\ HandleInv
      /\ DOMAIN pc = Pids /\ DOMAIN told = Pids /\ DOMAIN handle = Pids /\ DOMAIN task = Pids
      /\ DOMAIN exitCode = Pids /\ DOMAIN died = Pids /\ DOMAIN lock = Pids
      /\ DOMAIN at = Clients /\ DOMAIN on = Clients
      /\ \A c \in Clients : at[c] # "out" => on[c] \in Pids
      /\ handles \subseteq Pids /\ owned \subseteq Pids
      /\ Free \notin Pids /\ Free \notin Clients
  BY LifecycleAssumption DEF IInv, Types
<1>1. ASSUME NEW c \in Clients, NEW t \in Pids, SpawnOThread(c, t)
      PROVE  HandleInv'
  BY <1>0, <1>1 DEF SpawnOThread, handleVars, deathVars, chainVars, Move, HandleInv, Murdering,
       Deleting,
       Unpublished
<1>2. ASSUME NEW c \in Clients, NEW t \in Pids, NEW code \in Codes, TryMurder(c, t, code)
      PROVE  HandleInv'
  BY <1>0, <1>2 DEF TryMurder, threadVars, chainVars, createVars, Move, Published, HandleInv,
       Murdering,
       Deleting, Unpublished
<1>3. ASSUME NEW c \in Clients, NEW t \in Pids, InvalidateImp(c, t)
      PROVE  HandleInv'
  BY <1>0, <1>3 DEF InvalidateImp, threadVars, handleVars, deathVars, createVars, Move, HandleInv,
       Murdering, Deleting, Unpublished
<1>4. ASSUME NEW c \in Clients, SpawnWakes(c)
      PROVE  HandleInv'
  BY <1>0, <1>4 DEF SpawnWakes, threadVars, handleVars, deathVars, chainVars, Move, HandleInv,
       Murdering,
       Deleting, Unpublished
<1>24. ASSUME NEW c \in Clients, SpawnCannotWait(c)
      PROVE  HandleInv'
  BY <1>0, <1>24 DEF SpawnCannotWait, threadVars, handleVars, deathVars, chainVars, Move,
       HandleInv, Murdering,
       Deleting, Unpublished
<1>5. ASSUME NEW c \in Clients, SpawnReturns(c)
      PROVE  HandleInv'
  BY <1>0, <1>5 DEF SpawnReturns, threadVars, handleVars, deathVars, chainVars, Move, SpawnInv,
       HandleInv,
       Murdering, Deleting, Unpublished
<1>6. ASSUME NEW c \in Clients, MurderCounts(c)
      PROVE  HandleInv'
  BY <1>0, <1>6 DEF MurderCounts, threadVars, handleVars, chainVars, createVars, Move, HandleInv,
       Murdering, Deleting, Unpublished
<1>7. ASSUME NEW c \in Clients, MurderSignals(c)
      PROVE  HandleInv'
  BY <1>0, <1>7 DEF MurderSignals, threadVars, handleVars, chainVars, createVars, Move, HandleInv,
       Murdering, Deleting, Unpublished
<1>8. ASSUME NEW c \in Clients, MurderWakes(c)
      PROVE  HandleInv'
  BY <1>0, <1>8 DEF MurderWakes, threadVars, deathVars, chainVars, createVars, Move, HandleInv,
       Murdering,
       Deleting, Unpublished
<1>9. ASSUME NEW c \in Clients, Delete(c)
      PROVE  HandleInv'
  BY <1>0, <1>9 DEF Delete, threadVars, deathVars, chainVars, createVars, Move, HandleInv,
       Murdering,
       Deleting, Unpublished
<1>10. ASSUME NEW t \in Pids, ThreadEPHandleChains(t)
      PROVE  HandleInv'
  BY <1>0, <1>10 DEF ThreadEPHandleChains, deathVars, createVars, clientVars, HandleInv,
       Murdering,
       Deleting, Unpublished
<1>11. ASSUME NEW t \in Pids, ThreadEPInstalls(t)
      PROVE  HandleInv'
  BY <1>0, <1>11 DEF ThreadEPInstalls, handleVars, deathVars, chainVars, createVars, clientVars,
       HandleInv,
       Murdering, Deleting, Unpublished
<1>12. ASSUME NEW t \in Pids, CreateReturns(t)
      PROVE  HandleInv'
  BY <1>0, <1>12 DEF CreateReturns, handleVars, deathVars, chainVars, clientVars, HandleInv,
       Murdering,
       Deleting, Unpublished
<1>13. ASSUME NEW t \in Pids, Announce(t)
      PROVE  HandleInv'
  BY <1>0, <1>13 DEF Announce, handleVars, deathVars, chainVars, clientVars, HandleInv,
       Murdering, Deleting,
       Unpublished
<1>14. ASSUME NEW t \in Pids, NEW code \in Codes, StartReturns(t, code)
      PROVE  HandleInv'
  BY <1>0, <1>14 DEF StartReturns, handleVars, deathVars, chainVars, createVars, clientVars,
       HandleInv,
       Murdering, Deleting, Unpublished
<1>15. ASSUME NEW t \in Pids, RuntimeThreadPostContextSwitch(t)
      PROVE  HandleInv'
  BY <1>0, <1>15 DEF RuntimeThreadPostContextSwitch, handleVars, chainVars, createVars,
       clientVars,
       DeathSeen, ConsumeSignal, HandleInv, Murdering, Deleting, Unpublished
<1>16. ASSUME NEW t \in Pids, ExitsWhileExiting(t)
      PROVE  HandleInv'
  <2>1. /\ pc[t] \notin Unpublished /\ pc'[t] = "stuck"
        /\ \A u \in Pids : u # t => pc'[u] = pc[u]
        /\ UNCHANGED <<told, died, handleVars, handles, deallocMutex, clientVars>>
    BY <1>0, <1>16 DEF ExitsWhileExiting, chainVars, ExitInside, Unpublished
  <2> QED
    BY <1>0, <2>1 DEF handleVars, clientVars, HandleInv, Murdering, Deleting, Unpublished
<1>17. ASSUME NEW t \in Pids, RuntimeThreadExit(t)
      PROVE  HandleInv'
  BY <1>0, <1>17 DEF RuntimeThreadExit, handleVars, deathVars, chainVars, createVars, clientVars,
       HandleInv,
       Murdering, Deleting, Unpublished
<1>18. ASSUME NEW t \in Pids, ThreadExitNtfyEP(t)
      PROVE  HandleInv'
  <2>1. /\ pc[t] = "notify" /\ pc'[t] \in {"telling", "look up"}
        /\ \A u \in Pids : u # t => pc'[u] = pc[u] /\ told'[u] = told[u]
        /\ UNCHANGED <<died, handleVars, handles, deallocMutex, clientVars>>
    BY <1>0, <1>18 DEF ThreadExitNtfyEP, chainVars
  <2>2. \A u \in Pids : pc'[u] \in {"none", "entering", "hooking"} => told'[u] = {}
    BY <1>0, <2>1 DEF HandleInv
  <2>3. \A u \in Pids : /\ pc'[u] \in Unpublished => pc[u] \in Unpublished
                        /\ pc'[u] \in {"signal", "leave", "gone"} => pc'[u] = pc[u]
                        /\ pc[u] \in {"leave", "gone", "stuck"} => pc'[u] = pc[u]
    BY <2>1 DEF Unpublished
  <2>4. /\ UNCHANGED <<handle, task, exitCode, died, handles, deallocMutex, at, on, owned>>
        /\ \A u \in Pids : Deleting(u)' <=> Deleting(u)
    BY <2>1 DEF handleVars, clientVars, Deleting
  <2>5. \A u \in Pids : handle'[u] = "alive" /\ ~task'[u] =>
          pc'[u] \in {"leave", "gone", "stuck"} /\ exitCode'[u] = died'[u]
    BY <1>0, <2>3, <2>4 DEF HandleInv
  <2>6. \A c \in Clients : Murdering(c)' => on'[c] \in handles' /\ task'[on'[c]]
    BY <1>0, <2>4 DEF HandleInv, Murdering
  <2>7. /\ \A u \in Pids : u \in handles' <=> handle'[u] = "alive" /\ ~Deleting(u)'
        /\ \A u \in Pids : pc'[u] \in Unpublished => u \notin owned' /\ ~Deleting(u)'
        /\ \A u \in Pids : pc'[u] = "signal" => u \in handles'
        /\ \A u \in Pids : pc'[u] \in {"signal", "leave"} => deallocMutex' = u
        /\ \A u \in Pids : pc'[u] \in {"leave", "gone"} => ~task'[u] \/ u \notin handles'
    BY <1>0, <2>3, <2>4 DEF HandleInv
  <2> QED
    BY <2>2, <2>5, <2>6, <2>7 DEF HandleInv
<1>23. ASSUME NEW t \in Pids, ExitMessageReturns(t)
      PROVE  HandleInv'
  BY <1>0, <1>23 DEF ExitMessageReturns, handleVars, deathVars, createVars, clientVars,
       HandleInv, Murdering,
       Deleting, Unpublished
<1>19. ASSUME NEW t \in Pids, ThreadExitNtfyObject(t)
      PROVE  HandleInv'
  <2>1. /\ pc[t] = "look up" /\ deallocMutex = Free /\ deallocMutex' = t
        /\ pc' = [pc EXCEPT ![t] = IF t \in handles THEN "signal" ELSE "leave"]
        /\ UNCHANGED <<died, told, handle, task, exitCode, handles, at, on, owned>>
    BY <1>19 DEF ThreadExitNtfyObject, handleVars, chainVars, clientVars
  <2>2. \A u \in Pids : pc[u] \notin {"signal", "leave"}
    BY <1>0, <2>1 DEF HandleInv
  <2>3. \A u \in Pids : u # t => pc'[u] = pc[u]
    BY <1>0, <2>1
  <2>4. /\ t \in handles => pc'[t] = "signal"
        /\ t \notin handles => pc'[t] = "leave"
    BY <1>0, <2>1
  <2>5. /\ \A u \in Pids : Deleting(u)' <=> Deleting(u)
        /\ \A d \in Clients : Murdering(d)' <=> Murdering(d)
    BY <2>1 DEF Deleting, Murdering
  <2>6. /\ \A u \in Pids : u \in handles' <=> handle'[u] = "alive" /\ ~Deleting(u)'
        /\ \A d \in Clients : Murdering(d)' => on'[d] \in handles' /\ task'[on'[d]]
    BY <1>0, <2>1, <2>5 DEF HandleInv
  <2>7. /\ \A u \in Pids : pc'[u] \in Unpublished => u \notin owned' /\ ~Deleting(u)'
        /\ \A u \in Pids : pc'[u] \in {"none", "entering", "hooking"} => told'[u] = {}
    BY <1>0, <2>1, <2>3, <2>4, <2>5 DEF HandleInv, Unpublished
  <2>8. /\ \A u \in Pids : pc'[u] = "signal" => u \in handles'
        /\ \A u \in Pids : pc'[u] \in {"signal", "leave"} => deallocMutex' = u
    <3> SUFFICES ASSUME NEW u \in Pids
                 PROVE  /\ pc'[u] = "signal" => u \in handles'
                        /\ pc'[u] \in {"signal", "leave"} => deallocMutex' = u
      OBVIOUS
    <3>1. CASE u = t
      <4>1. deallocMutex' = t /\ handles' = handles
        BY <2>1
      <4> QED
        BY <2>4, <3>1, <4>1
    <3>2. CASE u # t
      BY <2>2, <2>3, <3>2
    <3> QED
      BY <3>1, <3>2
  <2>9. \A u \in Pids : pc'[u] \in {"leave", "gone"} => ~task'[u] \/ u \notin handles'
    <3> SUFFICES ASSUME NEW u \in Pids, pc'[u] \in {"leave", "gone"}
                 PROVE  ~task'[u] \/ u \notin handles'
      OBVIOUS
    <3>1. CASE u = t
      <4>1. deallocMutex' = t /\ handles' = handles
        BY <2>1
      <4> QED
        BY <2>4, <3>1, <4>1
    <3>2. CASE u # t
      BY <1>0, <2>1, <2>3, <3>2 DEF HandleInv
    <3> QED
      BY <3>1, <3>2
  <2>10. \A u \in Pids : handle'[u] = "alive" /\ ~task'[u] =>
           pc'[u] \in {"leave", "gone", "stuck"} /\ exitCode'[u] = died'[u]
    BY <1>0, <2>1, <2>3 DEF HandleInv
  <2> QED
    BY <2>6, <2>7, <2>8, <2>9, <2>10 DEF HandleInv
<1>20. ASSUME NEW t \in Pids, SignalDead(t)
      PROVE  HandleInv'
  BY <1>0, <1>20 DEF SignalDead, deathVars, chainVars, createVars, clientVars, MurderInv,
       HandleInv,
       Murdering, Deleting, Unpublished
<1>21. ASSUME NEW t \in Pids, ExitLeaves(t)
      PROVE  HandleInv'
  BY <1>0, <1>21 DEF ExitLeaves, handleVars, deathVars, chainVars, createVars, clientVars,
       HandleInv,
       Murdering, Deleting, Unpublished
<1>22. CASE UNCHANGED vars
  BY <1>0, <1>22 DEF vars, threadVars, handleVars, deathVars, chainVars, createVars, clientVars,
       HandleInv,
       Murdering, Deleting, Unpublished
<1> QED
  BY <1>1, <1>2, <1>3, <1>4, <1>5, <1>6, <1>7, <1>8, <1>9, <1>10, <1>11, <1>12, <1>13,
       <1>14, <1>15, <1>16, <1>17, <1>18, <1>19, <1>20, <1>21, <1>22, <1>23, <1>24
    DEF Next, Codes, Murder, Exit

(* The threads that closing_threads counts are finitely many.              *)
LEMMA PendingProperties ==
  IsFiniteSet(Pending) /\ Cardinality(Pending) \in 0..Cardinality(Pids)
BY LifecycleAssumption, FS_Subset, FS_CardinalityType DEF Pending

(* A step that leaves the signals and the murders between their two writes *)
(* alone leaves the count right.                                           *)
LEMMA SamePending ==
  ASSUME CountInv, UNCHANGED <<closing, deathSignal>>,
         \A c \in Clients : at'[c] = "signalling" <=> at[c] = "signalling",
         \A c \in Clients : at[c] = "signalling" => on'[c] = on[c]
  PROVE  CountInv'
<1>1. Pending' = Pending
  BY DEF Pending
<1> QED
  BY <1>1 DEF CountInv

(* A murder adds its thread before it signals it, the hook takes the thread *)
(* out as it clears the signal: no step moves the count without the set.   *)
LEMMA CountStep ==
  ASSUME IInv, [Next]_vars
  PROVE  CountInv'
<1>0. /\ Types /\ MurderInv /\ CountInv
      /\ DOMAIN at = Clients /\ DOMAIN on = Clients
  BY DEF IInv, Types
<1>1. ASSUME NEW c \in Clients, NEW t \in Pids, SpawnOThread(c, t)
      PROVE  CountInv'
  BY <1>0, <1>1, SamePending DEF SpawnOThread, handleVars, deathVars, chainVars, Move, deathVars
<1>2. ASSUME NEW c \in Clients, NEW t \in Pids, NEW code \in Codes, TryMurder(c, t, code)
      PROVE  CountInv'
  BY <1>0, <1>2, SamePending DEF TryMurder, threadVars, chainVars, createVars, Move, Published,
       deathVars
<1>3. ASSUME NEW c \in Clients, NEW t \in Pids, InvalidateImp(c, t)
      PROVE  CountInv'
  BY <1>0, <1>3, SamePending DEF InvalidateImp, threadVars, handleVars, deathVars, createVars,
       Move, deathVars
<1>4. ASSUME NEW c \in Clients, SpawnWakes(c)
      PROVE  CountInv'
  BY <1>0, <1>4, SamePending DEF SpawnWakes, threadVars, handleVars, deathVars, chainVars, Move,
       deathVars
<1>24. ASSUME NEW c \in Clients, SpawnCannotWait(c)
      PROVE  CountInv'
  BY <1>0, <1>24, SamePending DEF SpawnCannotWait, threadVars, handleVars, deathVars, chainVars,
       Move, deathVars
<1>5. ASSUME NEW c \in Clients, SpawnReturns(c)
      PROVE  CountInv'
  BY <1>0, <1>5, SamePending DEF SpawnReturns, threadVars, handleVars, deathVars, chainVars,
       Move, deathVars
<1>6. ASSUME NEW c \in Clients, MurderCounts(c)
      PROVE  CountInv'
  <2>1. /\ at[c] = "counting" /\ closing' = closing + 1
        /\ at' = [at EXCEPT ![c] = "signalling"] /\ on' = [on EXCEPT ![c] = on[c]]
        /\ UNCHANGED deathSignal
    BY <1>6 DEF MurderCounts, Move
  <2>2. /\ on[c] \in Pids \ Pending
        /\ Pending' = Pending \cup {on[c]}
    BY <1>0, <2>1 DEF Pending, MurderInv, Murdering, Types
  <2>3. Cardinality(Pending') = Cardinality(Pending) + 1
    BY <2>2, PendingProperties, FS_AddElement
  <2> QED
    BY <1>0, <2>1, <2>3 DEF CountInv
<1>7. ASSUME NEW c \in Clients, MurderSignals(c)
      PROVE  CountInv'
  <2>1. /\ at[c] = "signalling" /\ UNCHANGED closing
        /\ at' = [at EXCEPT ![c] = "waking"] /\ on' = [on EXCEPT ![c] = on[c]]
        /\ deathSignal' = [deathSignal EXCEPT ![on[c]] = TRUE]
    BY <1>7 DEF MurderSignals, Move
  <2>2. Pending' = Pending
    BY <1>0, <2>1 DEF Pending, Types
  <2> QED
    BY <1>0, <2>1, <2>2 DEF CountInv
<1>8. ASSUME NEW c \in Clients, MurderWakes(c)
      PROVE  CountInv'
  BY <1>0, <1>8, SamePending DEF MurderWakes, threadVars, deathVars, chainVars, createVars, Move,
       deathVars
<1>9. ASSUME NEW c \in Clients, Delete(c)
      PROVE  CountInv'
  BY <1>0, <1>9, SamePending DEF Delete, threadVars, deathVars, chainVars, createVars, Move,
       deathVars
<1>10. ASSUME NEW t \in Pids, ThreadEPHandleChains(t)
      PROVE  CountInv'
  BY <1>0, <1>10, SamePending DEF ThreadEPHandleChains, deathVars, createVars, clientVars,
       deathVars
<1>11. ASSUME NEW t \in Pids, ThreadEPInstalls(t)
      PROVE  CountInv'
  BY <1>0, <1>11, SamePending DEF ThreadEPInstalls, handleVars, deathVars, chainVars, createVars,
       clientVars, deathVars
<1>12. ASSUME NEW t \in Pids, CreateReturns(t)
      PROVE  CountInv'
  BY <1>0, <1>12, SamePending DEF CreateReturns, handleVars, deathVars, chainVars, clientVars,
       deathVars
<1>13. ASSUME NEW t \in Pids, Announce(t)
      PROVE  CountInv'
  BY <1>0, <1>13, SamePending DEF Announce, handleVars, deathVars, chainVars, clientVars,
       deathVars
<1>14. ASSUME NEW t \in Pids, NEW code \in Codes, StartReturns(t, code)
      PROVE  CountInv'
  BY <1>0, <1>14, SamePending DEF StartReturns, handleVars, deathVars, chainVars, createVars,
       clientVars, deathVars
<1>15. ASSUME NEW t \in Pids, RuntimeThreadPostContextSwitch(t)
      PROVE  CountInv'
  <2>1. /\ deathSignal[t] /\ closing' = closing - 1
        /\ deathSignal' = [deathSignal EXCEPT ![t] = FALSE]
        /\ UNCHANGED <<at, on>>
    BY <1>15 DEF RuntimeThreadPostContextSwitch, DeathSeen, ConsumeSignal, clientVars
  <2>2. t \in Pending /\ Pending' = Pending \ {t}
    BY <1>0, <2>1 DEF Pending, MurderInv, Types
  <2>3. Cardinality(Pending') = Cardinality(Pending) - 1
    BY <2>2, PendingProperties, FS_RemoveElement
  <2> QED
    BY <1>0, <2>1, <2>3 DEF CountInv
<1>16. ASSUME NEW t \in Pids, ExitsWhileExiting(t)
      PROVE  CountInv'
  <2>1. /\ deathSignal[t] /\ closing' = closing - 1
        /\ deathSignal' = [deathSignal EXCEPT ![t] = FALSE]
        /\ UNCHANGED <<at, on>>
    BY <1>16 DEF ExitsWhileExiting, DeathSeen, ConsumeSignal, clientVars
  <2>2. t \in Pending /\ Pending' = Pending \ {t}
    BY <1>0, <2>1 DEF Pending, MurderInv, Types
  <2>3. Cardinality(Pending') = Cardinality(Pending) - 1
    BY <2>2, PendingProperties, FS_RemoveElement
  <2> QED
    BY <1>0, <2>1, <2>3 DEF CountInv
<1>17. ASSUME NEW t \in Pids, RuntimeThreadExit(t)
      PROVE  CountInv'
  BY <1>0, <1>17, SamePending DEF RuntimeThreadExit, handleVars, deathVars, chainVars,
       createVars, clientVars, deathVars
<1>18. ASSUME NEW t \in Pids, ThreadExitNtfyEP(t)
      PROVE  CountInv'
  BY <1>0, <1>18, SamePending DEF ThreadExitNtfyEP, handleVars, deathVars, chainVars, createVars,
       clientVars, deathVars
<1>23. ASSUME NEW t \in Pids, ExitMessageReturns(t)
      PROVE  CountInv'
  BY <1>0, <1>23, SamePending DEF ExitMessageReturns, handleVars, deathVars, createVars,
       clientVars, deathVars
<1>19. ASSUME NEW t \in Pids, ThreadExitNtfyObject(t)
      PROVE  CountInv'
  BY <1>0, <1>19, SamePending DEF ThreadExitNtfyObject, handleVars, deathVars, chainVars,
       createVars, clientVars,
       deathVars
<1>20. ASSUME NEW t \in Pids, SignalDead(t)
      PROVE  CountInv'
  BY <1>0, <1>20, SamePending DEF SignalDead, deathVars, chainVars, createVars, clientVars,
       deathVars
<1>21. ASSUME NEW t \in Pids, ExitLeaves(t)
      PROVE  CountInv'
  BY <1>0, <1>21, SamePending DEF ExitLeaves, handleVars, deathVars, chainVars, createVars,
       clientVars, deathVars
<1>22. CASE UNCHANGED vars
  BY <1>0, <1>22, SamePending DEF vars, threadVars, handleVars, deathVars, chainVars, createVars,
       clientVars, deathVars
<1> QED
  BY <1>1, <1>2, <1>3, <1>4, <1>5, <1>6, <1>7, <1>8, <1>9, <1>10, <1>11, <1>12, <1>13,
       <1>14, <1>15, <1>16, <1>17, <1>18, <1>19, <1>20, <1>21, <1>22, <1>23, <1>24
    DEF Next, Codes, Murder, Exit

-----------------------------------------------------------------------------
(* Every reachable state has the four parts.                               *)
THEOREM Invariance == Spec => []IInv
<1>1. Init => IInv
  BY InitInv
<1>2. IInv /\ [Next]_vars => IInv'
  BY TypesStep, SpawnStep, MurderStep, HandleStep, CountStep DEF IInv
<1> QED
  BY <1>1, <1>2, PTL DEF Spec

(* Each variable has its type: the semaphore of sync_thread_create holds   *)
(* one permit at most while every spawner waits, and closing_threads never *)
(* passes the number of threads nor falls below 0.                         *)
THEOREM TypeCorrect == Spec => []TypeOK
<1>1. IInv => TypeOK
  <2> SUFFICES ASSUME IInv PROVE TypeOK
    OBVIOUS
  <2>1. ~unslept => permits \in 0..1
    BY DEF IInv, Types, SpawnInv, SpawnOrder
  <2>2. closing \in 0..Cardinality(Pids)
    BY PendingProperties DEF IInv, CountInv
  <2> QED
    BY <2>1, <2>2 DEF IInv, Types, TypeOK
<1> QED
  BY <1>1, Invariance, PTL

(* The exit callback and TryMurder write to no handle, no task and no      *)
(* thread storage that is gone, in whatever order a thread ends, is        *)
(* murdered and loses the last reference to its handle.                    *)
THEOREM LiveOnly == Spec => []TouchesOnlyLive
<1>1. IInv => TouchesOnlyLive
  <2> SUFFICES ASSUME IInv PROVE TouchesOnlyLive
    OBVIOUS
  <2>1. ExitTouchesLiveHandle
    BY DEF IInv, HandleInv, ExitTouchesLiveHandle
  <2>2. MurderTouchesLiveTask
    <3> SUFFICES ASSUME NEW c \in Clients, Murdering(c)
                 PROVE  pc[on[c]] # "gone" /\ task[on[c]]
      BY DEF MurderTouchesLiveTask, Murdering
    <3>1. on[c] \in handles /\ task[on[c]] /\ on[c] \in Pids
      BY DEF IInv, HandleInv, Types
    <3> QED
      BY <3>1 DEF IInv, HandleInv
  <2> QED
    BY <2>1, <2>2 DEF TouchesOnlyLive
<1> QED
  BY <1>1, Invariance, PTL

(* A handle that outlives its thread reports it dead, with the code of the *)
(* last do_exit, be it the entry point's or a murder's.                    *)
THEOREM DeathTold == Spec => []HandleTellsDeath
<1>1. IInv => HandleTellsDeath
  BY DEF IInv, HandleInv, HandleTellsDeath
<1> QED
  BY <1>1, Invariance, PTL

(* No signal is pending that the guard of the context switch hook hides.   *)
THEOREM NoDeathHidden == Spec => []PendingDeathSeen
<1>1. IInv => PendingDeathSeen
  <2> SUFFICES ASSUME IInv PROVE PendingDeathSeen
    OBVIOUS
  <2> DEFINE S == {t \in Pids : deathSignal[t]}
  <2>1. S \subseteq Pending
    BY DEF Pending
  <2>2. Cardinality(S) <= Cardinality(Pending) /\ Cardinality(S) \in Nat
    BY <2>1, PendingProperties, FS_Subset, FS_CardinalityType
  <2> QED
    BY <2>2, PendingProperties DEF IInv, CountInv, PendingDeathSeen
<1> QED
  BY <1>1, Invariance, PTL

(* SpawnOThread gives each caller the handle of the thread made for it,    *)
(* however many callers there are, until one finds no memory to wait with. *)
THEOREM OwnThread == Spec => []SpawnGetsOwnThread
<1>1. IInv => SpawnGetsOwnThread
  BY DEF IInv, SpawnInv, SpawnOrder, SpawnGetsOwnThread
<1> QED
  BY <1>1, Invariance, PTL

=============================================================================
