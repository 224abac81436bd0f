------------------------------ MODULE PermitPool ------------------------------
(***************************************************************************)
(* What a counting semaphore promises, as the comment in OWorkQueue.hpp    *)
(* puts it: Trigger is x++, Wait is "test x and decrement it if it is      *)
(* positive".  x counts the permits that are free or already handed to a   *)
(* thread that has not returned from Wait yet.                             *)
(*                                                                         *)
(* The timed Wait of the code may cost permits.  The pool says how many:   *)
(* at most one for each wait that gave up, and none for anything else.     *)
(***************************************************************************)
EXTENDS Integers

CONSTANT StartCount     \* permits at creation

VARIABLES
  x,                    \* permits in the pool
  added,                \* permits Trigger has put in
  taken,                \* waits that ended with a permit
  givenUp,              \* waits that timed out
  lost                  \* permits that reached nobody

poolVars == <<x, added, taken, givenUp, lost>>

PoolInit ==
  /\ x = StartCount
  /\ added = 0
  /\ taken = 0
  /\ givenUp = 0
  /\ lost = 0

(* Permits come in; some of them may be owed to waits that gave up.        *)
Add ==
  /\ added' >= added
  /\ lost' >= lost
  /\ lost' <= givenUp
  /\ x' >= x
  /\ x' - x = (added' - added) - (lost' - lost)
  /\ UNCHANGED <<taken, givenUp>>

TestAndDec ==
  /\ x > 0
  /\ x' = x - 1
  /\ taken' = taken + 1
  /\ UNCHANGED <<added, givenUp, lost>>

GiveUp ==
  /\ givenUp' = givenUp + 1
  /\ UNCHANGED <<x, added, taken, lost>>

PoolNext == Add \/ TestAndDec \/ GiveUp

PoolSpec == PoolInit /\ [][PoolNext]_poolVars

=============================================================================
