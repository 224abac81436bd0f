------------------------------- MODULE TaskRound -------------------------------
(***************************************************************************)
(* What OWorkQueue.hpp promises: a reusable queue with any number of       *)
(* waiters and a set amount of tasks.  A round is over when all its tasks  *)
(* have ended; whoever waited for it then owns the queue, and the next     *)
(* round begins when every owner has released it.                          *)
(***************************************************************************)
EXTENDS Naturals

CONSTANTS
  Clients,      \* threads that wait for the tasks
  Doers,        \* threads that do them
  Tasks         \* tasks per round

VARIABLES
  begun,        \* tasks of the round that were begun
  done,         \* tasks of the round that ended
  busy,         \* doers inside a task
  waiting,      \* clients waiting for the round to end
  holding       \* clients that own the finished round

roundVars == <<begun, done, busy, waiting, holding>>

RoundInit ==
  /\ begun = 0
  /\ done = 0
  /\ busy = {}
  /\ waiting = {}
  /\ holding = {}

Begin(w) ==
  /\ w \notin busy
  /\ begun < Tasks
  /\ begun' = begun + 1
  /\ busy' = busy \cup {w}
  /\ UNCHANGED <<done, waiting, holding>>

(* The task that ends the round hands it to everyone who waits.            *)
End(w) ==
  /\ w \in busy
  /\ busy' = busy \ {w}
  /\ done' = done + 1
  /\ IF done' = Tasks
     THEN waiting' = {} /\ holding' = holding \cup waiting
     ELSE UNCHANGED <<waiting, holding>>
  /\ UNCHANGED begun

Arrive(t) ==
  /\ t \notin waiting \cup holding
  /\ IF done = Tasks
     THEN holding' = holding \cup {t} /\ UNCHANGED waiting
     ELSE waiting' = waiting \cup {t} /\ UNCHANGED holding
  /\ UNCHANGED <<begun, done, busy>>

(* A client that gives up waiting is gone; it opens nothing.               *)
Leave(t) ==
  /\ t \in waiting \cup holding
  /\ waiting' = waiting \ {t}
  /\ holding' = holding \ {t}
  /\ UNCHANGED <<begun, done, busy>>

Release(t) ==
  /\ t \in holding
  /\ busy = {}
  /\ holding' = holding \ {t}
  /\ IF waiting \cup holding' = {}
     THEN begun' = 0 /\ done' = 0
     ELSE UNCHANGED <<begun, done>>
  /\ UNCHANGED <<busy, waiting>>

RoundNext ==
  \/ \E w \in Doers : Begin(w) \/ End(w)
  \/ \E t \in Clients : Arrive(t) \/ Leave(t) \/ Release(t)

RoundSpec == RoundInit /\ [][RoundNext]_roundVars

=============================================================================
