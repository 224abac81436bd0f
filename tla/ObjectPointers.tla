------------------------------ MODULE ObjectPointers ------------------------------
(***************************************************************************)
(* Who owns an object.  An ODumbPointer shares it through a counter; an    *)
(* OPtr has it alone, or only borrows it; an OOutlivableRef hands a new    *)
(* object to whatever it refers to, and destroys it if that is nothing.    *)
(* An object may die (Invalidate) before its memory goes (Destroy).        *)
(*                                                                         *)
(* A counter belongs to one object, so both have one name.  Calls on one   *)
(* pointer do not overlap; only the counter may be shared by threads, and  *)
(* its changes are one step each anyhow.                                   *)
(***************************************************************************)
EXTENDS Integers, FiniteSets

CONSTANTS
  Objects,        \* objects, each made once
  Pointers        \* ODumbPointers, of several threads

Null == "null"

ASSUME PointerAssumption == IsFiniteSet(Pointers) /\ Null \notin Objects

VARIABLES
  object,         \* unborn, alive, dead or freed
  counter,        \* counter[o]; -1 if there is none
  pointer,        \* pointer[p]: its counter and object, or Null
  references,     \* references[o]: ODumbPointerReferences and IncrementUsages
  owner,          \* owner[o]: what has the object: nobody, counter, optr, raw
  copied,         \* objects whose pointer was copied by value (history)
  wrong           \* a call that reached freed memory, or a null pointer

pointerVars == <<object, counter, pointer, references, owner, copied, wrong>>

PointerTypeOK ==
  /\ object \in [Objects -> {"unborn", "alive", "dead", "freed"}]
  /\ counter \in [Objects -> -1..(Cardinality(Pointers) + 2)]
  /\ pointer \in [Pointers -> Objects \cup {Null}]
  /\ references \in [Objects -> 0..1]
  /\ owner \in [Objects -> {"nobody", "counter", "optr", "raw"}]
  /\ copied \subseteq Objects
  /\ wrong \in {"no", "freed counter", "null counter"}

PointerInit ==
  /\ object = [o \in Objects |-> "unborn"]
  /\ counter = [o \in Objects |-> -1]
  /\ pointer = [p \in Pointers |-> Null]
  /\ references = [o \in Objects |-> 0]
  /\ owner = [o \in Objects |-> "nobody"]
  /\ copied = {}
  /\ wrong = "no"

-----------------------------------------------------------------------------
(* Deference and what follows: the last one destroys object and counter.   *)

CollectNever(s, o) ==           \* mutant: the object stays
  [s EXCEPT !.count[o] = @ - 1]

Collect(s, o) ==
  IF s.count[o] = 1
    THEN [s EXCEPT !.count[o] = -1, !.object[o] = "freed"]
    ELSE [s EXCEPT !.count[o] = @ - 1]

CollectFrom(s, p) == IF pointer[p] = Null THEN s ELSE Collect(s, pointer[p])

Now == [count |-> counter, object |-> object]

Set(s) == counter' = s.count /\ object' = s.object

(* A counter that is gone is counted down nevertheless.                    *)
Gone(o) == counter[o] = -1

Touches(p, then) ==
  IF pointer[p] # Null /\ Gone(pointer[p])
    THEN /\ wrong' = "freed counter"
         /\ UNCHANGED <<object, counter, pointer, references, owner, copied>>
    ELSE then /\ UNCHANGED wrong

-----------------------------------------------------------------------------
(* PassOwnership of a new object.                                          *)

PassToDumbPointer(o, p) ==
  /\ object[o] = "unborn"
  /\ Touches(p, /\ Set([CollectFrom(Now, p) EXCEPT !.count[o] = 1, !.object[o] = "alive"])
                /\ pointer' = [pointer EXCEPT ![p] = o]
                /\ owner' = [owner EXCEPT ![o] = "counter"]
                /\ UNCHANGED <<references, copied>>)

PassToOther(o, whom) ==
  /\ object[o] = "unborn"
  /\ object' = [object EXCEPT ![o] = IF whom = "nobody" THEN "freed" ELSE "alive"]
  /\ owner' = [owner EXCEPT ![o] = whom]
  /\ UNCHANGED <<counter, pointer, references, copied, wrong>>

-----------------------------------------------------------------------------
(* SwapValue, which is operator=.  It lets go of its own object first; the *)
(* pointer it takes from must not be empty.                                *)

Takeable(p, q) ==
  /\ pointer[q] # Null
  /\ LET o == pointer[q] IN ~Gone(o) /\ ~(pointer[p] = o /\ counter[o] = 1)

SwapValue(p, q) ==
  /\ p # q
  /\ IF Takeable(p, q)
       THEN Touches(p, /\ Set([CollectFrom(Now, p) EXCEPT !.count[pointer[q]] = @ + 1])
                       /\ pointer' = [pointer EXCEPT ![p] = pointer[q]]
                       /\ UNCHANGED <<references, owner, copied>>)
       ELSE /\ wrong' = IF pointer[q] = Null THEN "null counter" ELSE "freed counter"
            /\ UNCHANGED <<object, counter, pointer, references, owner, copied>>

(* A pointer passed by value: a second one that nobody counted.            *)
CopyByValue(p, q) ==
  /\ pointer[p] # Null /\ pointer[q] = Null /\ p # q
  /\ pointer' = [pointer EXCEPT ![q] = pointer[p]]
  /\ copied' = copied \cup {pointer[p]}
  /\ UNCHANGED <<object, counter, references, owner, wrong>>

(* ~ODumbPointer: the variable goes, and may come again, empty.            *)
Leave(p) ==
  /\ pointer[p] # Null
  /\ Touches(p, /\ Set(CollectFrom(Now, p))
                /\ pointer' = [pointer EXCEPT ![p] = Null]
                /\ UNCHANGED <<references, owner, copied>>)

-----------------------------------------------------------------------------
(* IncrementUsage and Reference take one more; DecrementUsage and          *)
(* DestroyReference give it back.                                          *)

IncrementUsage(p) ==
  LET o == pointer[p] IN
  /\ o # Null => references[o] = 0
  /\ IF o = Null
       THEN /\ wrong' = "null counter"
            /\ UNCHANGED <<object, counter, pointer, references, owner, copied>>
       ELSE Touches(p, /\ counter' = [counter EXCEPT ![o] = @ + 1]
                       /\ references' = [references EXCEPT ![o] = @ + 1]
                       /\ UNCHANGED <<object, pointer, owner, copied>>)

DestroyReference(o) ==
  /\ references[o] > 0
  /\ references' = [references EXCEPT ![o] = @ - 1]
  /\ IF Gone(o) THEN wrong' = "freed counter" /\ UNCHANGED <<counter, object>>
                ELSE Set(Collect(Now, o)) /\ UNCHANGED wrong
  /\ UNCHANGED <<pointer, owner, copied>>

-----------------------------------------------------------------------------
(* Invalidate through any pointer; Destroy by the only owner.              *)
Invalidate(o) ==
  /\ object[o] = "alive"
  /\ object' = [object EXCEPT ![o] = "dead"]
  /\ UNCHANGED <<counter, pointer, references, owner, copied, wrong>>

Destroy(o) ==
  /\ owner[o] \in {"optr", "raw"} /\ object[o] \in {"alive", "dead"}
  /\ object' = [object EXCEPT ![o] = "freed"]
  /\ UNCHANGED <<counter, pointer, references, owner, copied, wrong>>

PointerStep ==
  \/ \E o \in Objects, p \in Pointers : PassToDumbPointer(o, p)
  \/ \E o \in Objects, whom \in {"nobody", "optr", "raw"} : PassToOther(o, whom)
  \/ \E p, q \in Pointers : SwapValue(p, q) \/ CopyByValue(p, q)
  \/ \E p \in Pointers : Leave(p) \/ IncrementUsage(p)
  \/ \E o \in Objects : DestroyReference(o) \/ Invalidate(o) \/ Destroy(o)

-----------------------------------------------------------------------------
(* A shared object lives exactly as long as somebody holds it, and nobody  *)
(* counts on a counter that is gone, unless a pointer to it was passed by  *)
(* value, which nothing counts (ObjectsDumbPointer.imp:39; Logging.cpp:98, *)
(* 172, where LoggingInit passes its directory so).                        *)
Holders(o) == Cardinality({p \in Pointers : pointer[p] = o}) + references[o]

OwnersCounted ==
  /\ \A o \in Objects \ copied : owner[o] = "counter" =>
       IF object[o] = "freed" THEN Holders(o) = 0
                              ELSE Holders(o) > 0 /\ counter[o] = Holders(o)
  /\ wrong = "freed counter" => copied # {}
=============================================================================
