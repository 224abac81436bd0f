-------------------------- MODULE LibraryServicesProofs --------------------------
(***************************************************************************)
(* What the services of the library promise, for any number of objects,    *)
(* pointers, entries, tasks, pages and printers: counters count holders,   *)
(* whatever is taken of the kernel is given back once, and lines of the    *)
(* log are whole.                                                          *)
(*                                                                         *)
(* Each service has its invariant, with a lemma for the beginning, one for *)
(* a step, and one for what the invariant says; the invariant of the       *)
(* library puts them together at the end.                                  *)
(***************************************************************************)
EXTENDS LibraryServices, FiniteSetTheorems, TLAPS

One(holds) == IF holds THEN 1 ELSE 0

(* A finite set that changes at one place changes its size by what is      *)
(* there before and after.                                                 *)
LEMMA OneChanged ==
  ASSUME NEW S, NEW T, NEW U, IsFiniteSet(U), S \subseteq U, T \subseteq U, NEW h, S \ {h} = T \ {h}
  PROVE  /\ Cardinality(S) \in Nat /\ Cardinality(T) \in Nat
         /\ Cardinality(T) = Cardinality(S) - One(h \in S) + One(h \in T)
<1>1. IsFiniteSet(S) /\ IsFiniteSet(T)
  BY FS_Subset
<1>2. Cardinality(S) \in Nat /\ Cardinality(T) \in Nat
  BY <1>1, FS_CardinalityType
<1>3. ASSUME NEW A, IsFiniteSet(A), Cardinality(A) \in Nat
      PROVE  Cardinality(A \ {h}) = Cardinality(A) - One(h \in A) /\ One(h \in A) \in {0, 1}
  <2>1. CASE h \in A
    <3>1. One(h \in A) = 1
      BY <2>1 DEF One
    <3>2. Cardinality(A \ {h}) = Cardinality(A) - 1
      BY <1>3, <2>1, FS_RemoveElement
    <3> QED
      BY <3>1, <3>2
  <2>2. CASE h \notin A
    <3>1. One(h \in A) = 0
      BY <2>2 DEF One
    <3>2. Cardinality(A \ {h}) = Cardinality(A)
      <4>1. A \ {h} = A
        BY <2>2
      <4> QED
        BY <4>1, Zenon
    <3> QED
      BY <1>3, <3>1, <3>2
  <2> QED
    BY <2>1, <2>2
<1>4. Cardinality(S) - One(h \in S) = Cardinality(T) - One(h \in T)
  BY <1>1, <1>2, <1>3
<1>5. One(h \in S) \in {0, 1} /\ One(h \in T) \in {0, 1}
  BY DEF One
<1> QED
  BY <1>2, <1>4, <1>5

-----------------------------------------------------------------------------
(* The pointers objects are handed out by.                                 *)
(*                                                                         *)
(* OwnersCounted is not inductive: it does not say that whatever points to *)
(* an object shares it, nor that an object not made yet has no owner.      *)
(* OwnersKnown adds that; the rest is arithmetic on the sets of pointers   *)
(* that each call changes by one element.                                  *)

(* The types of PointerTypeOK but for the bound of the counter.            *)
PointerTypes ==
  /\ object \in [Objects -> {"unborn", "alive", "dead", "freed"}]
  /\ counter \in [Objects -> Int]
  /\ pointer \in [Pointers -> Objects \cup {Null}]
  /\ references \in [Objects -> 0..1]
  /\ owner \in [Objects -> {"nobody", "counter", "optr", "raw"}]
  /\ copied \subseteq Objects
  /\ wrong \in {"no", "freed counter", "null counter"}

(* What is held by a pointer or a reference is shared through a counter.   *)
OwnersKnown ==
  /\ \A p \in Pointers : pointer[p] # Null => owner[pointer[p]] = "counter"
  /\ \A o \in Objects : references[o] > 0 => owner[o] = "counter"
  /\ \A o \in Objects : object[o] = "unborn" => owner[o] = "nobody"

Counted(o) ==
  o \notin copied /\ owner[o] = "counter" =>
    IF object[o] = "freed" THEN Holders(o) = 0
                           ELSE Holders(o) > 0 /\ counter[o] = Holders(o)

OwnersInv ==
  /\ PointerTypes
  /\ OwnersKnown
  /\ \A o \in Objects : Counted(o)
  /\ wrong = "freed counter" => copied # {}

Pointing(f, o) == {p \in Pointers : f[p] = o}

(* Counters c and objects b are what p leaves behind when it lets go.      *)
Released(p, c, b) ==
  \A o \in Objects :
    IF pointer[p] # o THEN c[o] = counter[o] /\ b[o] = object[o]
    ELSE IF counter[o] = 1 THEN c[o] = -1 /\ b[o] = "freed"
    ELSE c[o] = counter[o] - 1 /\ b[o] = object[o]

(* The step makes p point to x.                                            *)
PointsNow(p, x) == DOMAIN pointer = Pointers /\ pointer' = [pointer EXCEPT ![p] = x]

(* The pointers of an object can be counted; who points to it is counted.  *)
LEMMA PointingCounted ==
  ASSUME NEW f, NEW o
  PROVE  /\ IsFiniteSet(Pointing(f, o))
         /\ Cardinality(Pointing(f, o)) \in Nat
         /\ Cardinality(Pointing(f, o)) = 0 <=> \A p \in Pointers : f[p] # o
<1>1. IsFiniteSet(Pointing(f, o))
  BY PointerAssumption, FS_Subset DEF Pointing
<1>2. Pointing(f, o) = {} <=> \A p \in Pointers : f[p] # o
  BY DEF Pointing
<1> QED
  BY <1>1, <1>2, FS_CardinalityType, FS_EmptySet

(* Two pointers to one object count for two.                               *)
LEMMA TwoPointing ==
  ASSUME NEW o, NEW p \in Pointers, NEW q \in Pointers, p # q, pointer[p] = o, pointer[q] = o
  PROVE  Cardinality(Pointing(pointer, o)) >= 2
<1>1. {p, q} \subseteq Pointing(pointer, o)
  BY DEF Pointing
<1>2. Cardinality({p, q}) = 2
  <2>1. IsFiniteSet({p}) /\ Cardinality({p}) = 1
    BY FS_Singleton
  <2>2. {p, q} = {p} \cup {q} /\ q \notin {p}
    OBVIOUS
  <2> QED
    BY <2>1, <2>2, FS_AddElement
<1> QED
  BY <1>1, <1>2, PointingCounted, FS_Subset

(* What it points to neither before nor after keeps its holders.           *)
LEMMA NotMoved ==
  ASSUME NEW p \in Pointers, NEW x, NEW o, PointsNow(p, x), x # o, pointer[p] # o
  PROVE  Pointing(pointer', o) = Pointing(pointer, o)
BY DEF Pointing, PointsNow

(* Making one pointer point elsewhere moves one holder.                    *)
LEMMA Moved ==
  ASSUME NEW p \in Pointers, NEW x, NEW o, PointsNow(p, x)
  PROVE  /\ x = o /\ pointer[p] = o =>
              Cardinality(Pointing(pointer', o)) = Cardinality(Pointing(pointer, o))
         /\ x = o /\ pointer[p] # o =>
              Cardinality(Pointing(pointer', o)) = Cardinality(Pointing(pointer, o)) + 1
         /\ x # o /\ pointer[p] = o =>
              Cardinality(Pointing(pointer', o)) = Cardinality(Pointing(pointer, o)) - 1
<1>0. IsFiniteSet(Pointing(pointer, o)) /\ Cardinality(Pointing(pointer, o)) \in Nat
  BY PointingCounted
<1>1. CASE x = o /\ pointer[p] = o
  <2>1. Pointing(pointer', o) = Pointing(pointer, o)
    BY <1>1 DEF Pointing, PointsNow
  <2> QED
    BY <1>1, <2>1
<1>2. CASE x = o /\ pointer[p] # o
  <2>1. Pointing(pointer', o) = Pointing(pointer, o) \cup {p} /\ p \notin Pointing(pointer, o)
    BY <1>2 DEF Pointing, PointsNow
  <2>2. Cardinality(Pointing(pointer', o)) = Cardinality(Pointing(pointer, o)) + 1
    BY <1>0, <2>1, FS_AddElement
  <2> QED
    BY <1>2, <2>2
<1>3. CASE x # o /\ pointer[p] = o
  <2>1. Pointing(pointer', o) = Pointing(pointer, o) \ {p} /\ p \in Pointing(pointer, o)
    BY <1>3 DEF Pointing, PointsNow
  <2>2. Cardinality(Pointing(pointer', o)) = Cardinality(Pointing(pointer, o)) - 1
    BY <1>0, <2>1, FS_RemoveElement
  <2> QED
    BY <1>3, <2>2
<1> QED
  BY <1>1, <1>2, <1>3

(* Whoever has a pointer or a reference to an object that was never copied *)
(* finds its counter in place, at the number of holders.                   *)
LEMMA HeldCounter ==
  ASSUME OwnersInv, NEW o \in Objects, o \notin copied,
         references[o] > 0 \/ \E p \in Pointers : pointer[p] = o
  PROVE  /\ object[o] # "freed" /\ ~Gone(o)
         /\ counter[o] = Cardinality(Pointing(pointer, o)) + references[o]
<1>1. owner[o] = "counter"
  BY PointerAssumption DEF OwnersInv, OwnersKnown
<1>2. Cardinality(Pointing(pointer, o)) \in Nat /\ references[o] \in 0..1
  BY PointingCounted DEF OwnersInv, PointerTypes
<1>3. Cardinality(Pointing(pointer, o)) + references[o] > 0
  BY <1>2, PointingCounted
<1>4. Holders(o) = Cardinality(Pointing(pointer, o)) + references[o]
  BY DEF Holders, Pointing
<1>5. Holders(o) # 0
  BY <1>2, <1>3, <1>4
<1>6. Counted(o)
  BY DEF OwnersInv
<1>7. object[o] # "freed" /\ counter[o] = Holders(o)
  BY <1>1, <1>5, <1>6 DEF Counted
<1> QED
  BY <1>2, <1>3, <1>4, <1>7 DEF Gone

(* Only the counter of a copied object is ever missed.                     *)
LEMMA MissedMeansCopied ==
  ASSUME OwnersInv, NEW p \in Pointers, pointer[p] # Null, Gone(pointer[p])
  PROVE  copied # {}
<1>1. pointer[p] \in Objects
  BY DEF OwnersInv, PointerTypes
<1> QED
  BY <1>1, HeldCounter

(* Counting down: the last one destroys, nothing else is touched.          *)
LEMMA CollectEffect ==
  ASSUME PointerTypes, NEW o \in Objects
  PROVE  /\ Collect(Now, o) =
              [count  |-> [counter EXCEPT ![o] = IF counter[o] = 1 THEN -1 ELSE counter[o] - 1],
               object |-> [object EXCEPT ![o] = IF counter[o] = 1 THEN "freed" ELSE object[o]]]
<1>1. CASE counter[o] = 1
  BY <1>1 DEF Collect, Now, PointerTypes
<1>2. CASE counter[o] # 1
  BY <1>2 DEF Collect, Now, PointerTypes
<1> QED
  BY <1>1, <1>2

(* The fields of what a pointer leaves behind when it lets go.             *)
LEMMA CollectFromEffect ==
  ASSUME PointerTypes, NEW p \in Pointers
  PROVE  \E c \in [Objects -> Int],
            b \in [Objects -> {"unborn", "alive", "dead", "freed"}] :
           /\ CollectFrom(Now, p) = [count |-> c, object |-> b]
           /\ Released(p, c, b)
<1>1. CASE pointer[p] = Null
  BY <1>1, PointerAssumption DEF CollectFrom, Now, PointerTypes, Released
<1>2. CASE pointer[p] # Null
  <2> DEFINE o == pointer[p]
             c == [counter EXCEPT ![o] = IF counter[o] = 1 THEN -1 ELSE counter[o] - 1]
             b == [object EXCEPT ![o] = IF counter[o] = 1 THEN "freed" ELSE object[o]]
  <2>1. o \in Objects
    BY <1>2 DEF PointerTypes
  <2>2. CollectFrom(Now, p) = [count |-> c, object |-> b]
    BY <1>2, <2>1, CollectEffect DEF CollectFrom
  <2>3. /\ c \in [Objects -> Int]
        /\ b \in [Objects -> {"unborn", "alive", "dead", "freed"}]
    <3>1. counter[o] \in Int
      BY <2>1 DEF PointerTypes
    <3>2. (IF counter[o] = 1 THEN -1 ELSE counter[o] - 1) \in Int
      BY <3>1
    <3>3. (IF counter[o] = 1 THEN "freed" ELSE object[o]) \in {"unborn", "alive", "dead", "freed"}
      BY <2>1 DEF PointerTypes
    <3> QED
      BY <3>2, <3>3 DEF PointerTypes
  <2>4. \A u \in Objects :
          IF pointer[p] # u THEN c[u] = counter[u] /\ b[u] = object[u]
          ELSE IF counter[u] = 1 THEN c[u] = -1 /\ b[u] = "freed"
          ELSE c[u] = counter[u] - 1 /\ b[u] = object[u]
    <3> SUFFICES ASSUME NEW u \in Objects
                 PROVE  IF o # u THEN c[u] = counter[u] /\ b[u] = object[u]
                        ELSE IF counter[u] = 1 THEN c[u] = -1 /\ b[u] = "freed"
                        ELSE c[u] = counter[u] - 1 /\ b[u] = object[u]
      OBVIOUS
    <3>1. CASE o # u
      BY <2>1, <3>1 DEF PointerTypes
    <3>2. CASE o = u /\ counter[u] = 1
      BY <2>1, <3>2 DEF PointerTypes
    <3>3. CASE o = u /\ counter[u] # 1
      BY <2>1, <3>3 DEF PointerTypes
    <3> QED
      BY <3>1, <3>2, <3>3
  <2> HIDE DEF c, b
  <2> QED
    BY <2>2, <2>3, <2>4 DEF Released
<1> QED
  BY <1>1, <1>2

(* What the calls that let a pointer go of its object make of the state.   *)
LEMMA PassEffect ==
  ASSUME PointerTypes, NEW o \in Objects, NEW p \in Pointers, PassToDumbPointer(o, p),
         ~(pointer[p] # Null /\ Gone(pointer[p]))
  PROVE  \E c \in [Objects -> Int], b \in [Objects -> {"unborn", "alive", "dead", "freed"}] :
           /\ Released(p, c, b)
           /\ counter' = [c EXCEPT ![o] = 1] /\ object' = [b EXCEPT ![o] = "alive"]
           /\ pointer' = [pointer EXCEPT ![p] = o] /\ owner' = [owner EXCEPT ![o] = "counter"]
           /\ UNCHANGED <<references, copied, wrong>>
<1>1. PICK c \in [Objects -> Int], b \in [Objects -> {"unborn", "alive", "dead", "freed"}] :
        CollectFrom(Now, p) = [count |-> c, object |-> b] /\ Released(p, c, b)
  BY CollectFromEffect
<1>2. \A r : r = [count |-> c, object |-> b] =>
        /\ [r EXCEPT !.count[o] = 1, !.object[o] = "alive"].count = [c EXCEPT ![o] = 1]
        /\ [r EXCEPT !.count[o] = 1, !.object[o] = "alive"].object = [b EXCEPT ![o] = "alive"]
  OBVIOUS
<1>3. /\ Set([CollectFrom(Now, p) EXCEPT !.count[o] = 1, !.object[o] = "alive"])
      /\ pointer' = [pointer EXCEPT ![p] = o] /\ owner' = [owner EXCEPT ![o] = "counter"]
      /\ UNCHANGED <<references, copied, wrong>>
  BY DEF PassToDumbPointer, Touches
<1>4. counter' = [c EXCEPT ![o] = 1] /\ object' = [b EXCEPT ![o] = "alive"]
  BY <1>1, <1>2, <1>3 DEF Set
<1> QED
  BY <1>1, <1>3, <1>4

LEMMA SwapEffect ==
  ASSUME PointerTypes, NEW p \in Pointers, NEW q \in Pointers, SwapValue(p, q), Takeable(p, q),
         NEW o \in Objects, o = pointer[q], ~(pointer[p] # Null /\ Gone(pointer[p]))
  PROVE  \E c \in [Objects -> Int], b \in [Objects -> {"unborn", "alive", "dead", "freed"}] :
           /\ Released(p, c, b)
           /\ counter' = [c EXCEPT ![o] = c[o] + 1] /\ object' = b
           /\ pointer' = [pointer EXCEPT ![p] = o]
           /\ UNCHANGED <<references, owner, copied, wrong>>
<1>1. PICK c \in [Objects -> Int], b \in [Objects -> {"unborn", "alive", "dead", "freed"}] :
        CollectFrom(Now, p) = [count |-> c, object |-> b] /\ Released(p, c, b)
  BY CollectFromEffect
<1>2. \A r, k : r = [count |-> c, object |-> b] =>
        /\ [r EXCEPT !.count[k] = @ + 1].count = [c EXCEPT ![k] = c[k] + 1]
        /\ [r EXCEPT !.count[k] = @ + 1].object = b
  OBVIOUS
<1>3. /\ Set([CollectFrom(Now, p) EXCEPT !.count[pointer[q]] = @ + 1])
      /\ pointer' = [pointer EXCEPT ![p] = o]
      /\ UNCHANGED <<references, owner, copied, wrong>>
  BY DEF SwapValue, Touches
<1>4. counter' = [c EXCEPT ![o] = c[o] + 1] /\ object' = b
  BY <1>1, <1>2, <1>3 DEF Set
<1> QED
  BY <1>1, <1>3, <1>4

LEMMA LeaveEffect ==
  ASSUME PointerTypes, NEW p \in Pointers, Leave(p), ~Gone(pointer[p])
  PROVE  \E c \in [Objects -> Int], b \in [Objects -> {"unborn", "alive", "dead", "freed"}] :
           /\ Released(p, c, b)
           /\ counter' = c /\ object' = b
           /\ pointer' = [pointer EXCEPT ![p] = Null]
           /\ UNCHANGED <<references, owner, copied, wrong>>
<1>1. PICK c \in [Objects -> Int], b \in [Objects -> {"unborn", "alive", "dead", "freed"}] :
        CollectFrom(Now, p) = [count |-> c, object |-> b] /\ Released(p, c, b)
  BY CollectFromEffect
<1> QED
  BY <1>1 DEF Leave, Touches, Set

(* An object whose holders and counter a step leaves alone stays counted.  *)
LEMMA CountedAlone ==
  ASSUME OwnersInv, NEW o \in Objects,
         counter'[o] = counter[o], references'[o] = references[o], owner'[o] = owner[o],
         object'[o] = "freed" <=> object[o] = "freed",
         Cardinality(Pointing(pointer', o)) = Cardinality(Pointing(pointer, o)),
         copied \subseteq copied'
  PROVE  Counted(o)'
<1>1. Holders(o)' = Holders(o)
  BY DEF Holders, Pointing
<1>2. Counted(o)
  BY DEF OwnersInv
<1> QED
  BY <1>1, <1>2 DEF Counted

(* What a pointer lets go of, and what it never had, stays counted: the    *)
(* last holder frees the object, any other leaves one holder less.         *)
LEMMA ReleaseCounted ==
  ASSUME OwnersInv, NEW p \in Pointers, NEW x \in Objects \cup {Null}, NEW c, NEW b,
         NEW u \in Objects, u # x,
         Released(p, c, b),
         pointer' = [pointer EXCEPT ![p] = x],
         counter'[u] = c[u], object'[u] = b[u], owner'[u] = owner[u],
         UNCHANGED <<references, copied>>
  PROVE  Counted(u)'
<1>0. PointsNow(p, x)
  BY DEF OwnersInv, PointerTypes, PointsNow
<1>1. /\ pointer[p] = u =>
           Cardinality(Pointing(pointer', u)) = Cardinality(Pointing(pointer, u)) - 1
      /\ pointer[p] # u =>
           Cardinality(Pointing(pointer', u)) = Cardinality(Pointing(pointer, u))
  <2>1. ASSUME pointer[p] = u
        PROVE  Cardinality(Pointing(pointer', u)) = Cardinality(Pointing(pointer, u)) - 1
    BY <1>0, <2>1, Moved
  <2>2. ASSUME pointer[p] # u
        PROVE  Cardinality(Pointing(pointer', u)) = Cardinality(Pointing(pointer, u))
    BY <1>0, <2>2, NotMoved
  <2> QED
    BY <2>1, <2>2
<1>2. CASE pointer[p] # u
  <2>1. Cardinality(Pointing(pointer', u)) = Cardinality(Pointing(pointer, u))
    BY <1>1, <1>2, PointingCounted
  <2>2. counter'[u] = counter[u] /\ object'[u] = object[u]
    BY <1>2 DEF Released
  <2> QED
    BY <2>1, <2>2, CountedAlone
<1>3. CASE pointer[p] = u
  <2> SUFFICES ASSUME u \notin copied PROVE Counted(u)'
    BY DEF Counted
  <2>1. object[u] # "freed" /\ counter[u] = Cardinality(Pointing(pointer, u)) + references[u]
    BY <1>3, HeldCounter
  <2>2. /\ Cardinality(Pointing(pointer, u)) \in Nat /\ Cardinality(Pointing(pointer, u)) > 0
        /\ references[u] \in 0..1
    <3>1. Cardinality(Pointing(pointer, u)) \in Nat /\ Cardinality(Pointing(pointer, u)) # 0
      BY <1>3, PointingCounted
    <3>2. references[u] \in 0..1
      BY DEF OwnersInv, PointerTypes
    <3> QED
      BY <3>1, <3>2
  <2>3. Holders(u)' = counter[u] - 1
    <3>1. Holders(u)' = Cardinality(Pointing(pointer', u)) + references[u]
      BY DEF Holders, Pointing
    <3> QED
      BY <1>1, <1>3, <2>1, <2>2, <3>1
  <2>4. CASE counter[u] = 1
    BY <1>3, <2>3, <2>4 DEF Counted, Released
  <2>5. CASE counter[u] # 1
    <3>1. counter'[u] = counter[u] - 1 /\ object'[u] # "freed"
      BY <1>3, <2>1, <2>5 DEF Released
    <3>2. counter[u] - 1 > 0
      BY <2>1, <2>2, <2>5
    <3> QED
      BY <2>3, <3>1, <3>2 DEF Counted
  <2> QED
    BY <2>4, <2>5
<1> QED
  BY <1>2, <1>3

(* A call that goes wrong changes nothing else.                            *)
LEMMA GoesWrong ==
  ASSUME OwnersInv, UNCHANGED <<object, counter, pointer, references, owner, copied>>,
         wrong' = wrong \/ wrong' = "null counter" \/ (wrong' = "freed counter" /\ copied # {})
  PROVE  OwnersInv'
<1>1. PointerTypes' /\ OwnersKnown'
  BY DEF OwnersInv, PointerTypes, OwnersKnown
<1>2. \A u \in Objects : Counted(u)'
  BY CountedAlone
<1>3. wrong' = "freed counter" => copied' # {}
  BY DEF OwnersInv
<1> QED
  BY <1>1, <1>2, <1>3 DEF OwnersInv

(* A new object passed to a pointer has one holder, and what the pointer   *)
(* had before is let go.                                                   *)
LEMMA PassToDumbPointerStep ==
  ASSUME OwnersInv, NEW o \in Objects, NEW p \in Pointers, PassToDumbPointer(o, p)
  PROVE  OwnersInv'
<1>0. /\ PointerTypes /\ OwnersKnown
      /\ object[o] = "unborn" /\ UNCHANGED <<references, copied>>
  BY DEF OwnersInv, PassToDumbPointer, Touches
<1>1. CASE pointer[p] # Null /\ Gone(pointer[p])
  <2>1. /\ wrong' = "freed counter"
        /\ UNCHANGED <<object, counter, pointer, references, owner, copied>>
    BY <1>1 DEF PassToDumbPointer, Touches
  <2> QED
    BY <1>1, <2>1, MissedMeansCopied, GoesWrong
<1>2. CASE ~(pointer[p] # Null /\ Gone(pointer[p]))
  <2>1. PICK c \in [Objects -> Int], b \in [Objects -> {"unborn", "alive", "dead", "freed"}] :
          /\ Released(p, c, b)
          /\ counter' = [c EXCEPT ![o] = 1] /\ object' = [b EXCEPT ![o] = "alive"]
          /\ pointer' = [pointer EXCEPT ![p] = o] /\ owner' = [owner EXCEPT ![o] = "counter"]
          /\ UNCHANGED <<references, copied, wrong>>
    BY <1>0, <1>2, PassEffect
  <2>2. /\ counter' = [c EXCEPT ![o] = 1] /\ object' = [b EXCEPT ![o] = "alive"]
        /\ pointer' = [pointer EXCEPT ![p] = o] /\ owner' = [owner EXCEPT ![o] = "counter"]
        /\ UNCHANGED <<references, copied, wrong>>
    BY <2>1
  <2>3. PointerTypes'
    <3>1. counter' \in [Objects -> Int]
      BY <2>1, <2>2
    <3>2. object' \in [Objects -> {"unborn", "alive", "dead", "freed"}]
      BY <2>1, <2>2
    <3>3. pointer' \in [Pointers -> Objects \cup {Null}]
      BY <1>0, <2>2 DEF PointerTypes
    <3>4. owner' \in [Objects -> {"nobody", "counter", "optr", "raw"}]
      BY <1>0, <2>2 DEF PointerTypes
    <3> QED
      BY <1>0, <2>2, <3>1, <3>2, <3>3, <3>4 DEF PointerTypes
  <2>4. /\ owner[o] = "nobody" /\ references[o] = 0
        /\ \A q \in Pointers : pointer[q] # o
    <3>1. owner[o] = "nobody"
      BY <1>0 DEF OwnersKnown
    <3>2. references[o] = 0
      <4>1. references[o] \in 0..1
        BY <1>0 DEF PointerTypes
      <4>2. ~(references[o] > 0)
        BY <1>0, <3>1 DEF OwnersKnown
      <4> QED
        BY <4>1, <4>2
    <3>3. ASSUME NEW q \in Pointers PROVE pointer[q] # o
      BY <1>0, <3>1, PointerAssumption DEF OwnersKnown
    <3> QED
      BY <3>1, <3>2, <3>3
  <2>5. OwnersKnown'
    <3>1. /\ owner'[o] = "counter" /\ object'[o] = "alive"
          /\ \A u \in Objects : u # o => owner'[u] = owner[u] /\ object'[u] = b[u]
      BY <1>0, <2>1, <2>2 DEF PointerTypes
    <3>2. \A q \in Pointers : pointer'[q] = o \/ pointer'[q] = pointer[q]
      BY <1>0, <2>2 DEF PointerTypes
    <3>3. \A q \in Pointers : pointer'[q] # Null => owner'[pointer'[q]] = "counter"
      <4> SUFFICES ASSUME NEW q \in Pointers, pointer'[q] # Null
                   PROVE  owner'[pointer'[q]] = "counter"
        OBVIOUS
      <4>1. CASE pointer'[q] = o
        BY <3>1, <4>1
      <4>2. CASE pointer'[q] = pointer[q] /\ pointer[q] # o
        <5>1. pointer[q] \in Objects
          BY <1>0, <4>2 DEF PointerTypes
        <5>2. owner[pointer[q]] = "counter"
          BY <1>0, <4>2 DEF OwnersKnown
        <5> QED
          BY <3>1, <4>2, <5>1, <5>2
      <4> QED
        BY <2>4, <3>2, <4>1, <4>2
    <3>4. \A u \in Objects : references'[u] > 0 => owner'[u] = "counter"
      BY <1>0, <3>1 DEF OwnersKnown
    <3>5. \A u \in Objects : b[u] = "unborn" => object[u] = "unborn"
      BY <2>1 DEF Released
    <3>6. \A u \in Objects : object'[u] = "unborn" => owner'[u] = "nobody"
      BY <1>0, <3>1, <3>5 DEF OwnersKnown
    <3> QED
      BY <3>3, <3>4, <3>6 DEF OwnersKnown
  <2>6. ASSUME NEW u \in Objects, u # o PROVE Counted(u)'
    <3>1. counter'[u] = c[u] /\ object'[u] = b[u] /\ owner'[u] = owner[u]
      BY <1>0, <2>1, <2>2, <2>6 DEF PointerTypes
    <3> QED
      BY <2>1, <2>2, <2>6, <3>1, ReleaseCounted
  <2>7. Counted(o)'
    <3>1. Cardinality(Pointing(pointer, o)) = 0
      BY <2>4, PointingCounted
    <3>2. Cardinality(Pointing(pointer', o)) = 1
      <4>1. PointsNow(p, o) /\ pointer[p] # o
        BY <1>0, <2>2, <2>4 DEF PointerTypes, PointsNow
      <4>2. Cardinality(Pointing(pointer', o)) = Cardinality(Pointing(pointer, o)) + 1
        BY <4>1, Moved
      <4> QED
        BY <3>1, <4>2
    <3>3. Holders(o)' = 1 /\ counter'[o] = 1 /\ object'[o] = "alive"
      <4>1. Holders(o)' = Cardinality(Pointing(pointer', o)) + references[o]
        BY <1>0 DEF Holders, Pointing
      <4>2. counter'[o] = 1 /\ object'[o] = "alive"
        BY <2>1, <2>2
      <4> QED
        BY <2>4, <3>2, <4>1, <4>2
    <3> QED
      BY <3>3 DEF Counted
  <2> QED
    BY <2>2, <2>3, <2>5, <2>6, <2>7 DEF OwnersInv
<1> QED
  BY <1>1, <1>2

(* An object with one owner has no counter to keep.                        *)
LEMMA PassToOtherStep ==
  ASSUME OwnersInv, NEW o \in Objects, NEW whom \in {"nobody", "optr", "raw"}, PassToOther(o, whom)
  PROVE  OwnersInv'
<1>0. /\ PointerTypes /\ OwnersKnown /\ object[o] = "unborn"
      /\ object' = [object EXCEPT ![o] = IF whom = "nobody" THEN "freed" ELSE "alive"]
      /\ owner' = [owner EXCEPT ![o] = whom]
      /\ UNCHANGED <<counter, pointer, references, copied, wrong>>
  BY DEF OwnersInv, PassToOther
<1>1. owner[o] = "nobody"
  BY <1>0 DEF OwnersKnown
<1>2. PointerTypes'
  BY <1>0 DEF PointerTypes
<1>3. OwnersKnown'
  <2>1. ASSUME NEW p \in Pointers, pointer[p] # Null PROVE owner'[pointer[p]] = "counter"
    BY <1>0, <1>1, <2>1 DEF OwnersKnown, PointerTypes
  <2>2. ASSUME NEW u \in Objects, references[u] > 0 PROVE owner'[u] = "counter"
    BY <1>0, <1>1, <2>2 DEF OwnersKnown, PointerTypes
  <2>3. ASSUME NEW u \in Objects, object'[u] = "unborn" PROVE owner'[u] = "nobody"
    BY <1>0, <1>1, <2>3 DEF OwnersKnown, PointerTypes
  <2> QED
    BY <1>0, <2>1, <2>2, <2>3 DEF OwnersKnown
<1>4. ASSUME NEW u \in Objects PROVE Counted(u)'
  <2>1. CASE u = o
    BY <1>0, <2>1 DEF Counted, PointerTypes
  <2>2. CASE u # o
    <3>1. owner'[u] = owner[u] /\ object'[u] = object[u]
      BY <1>0, <2>2 DEF PointerTypes
    <3> QED
      BY <1>0, <3>1, CountedAlone
  <2> QED
    BY <2>1, <2>2
<1> QED
  BY <1>0, <1>2, <1>3, <1>4 DEF OwnersInv

(* Assignment: one holder less of the old object, one more of the new one. *)
LEMMA SwapValueStep ==
  ASSUME OwnersInv, NEW p \in Pointers, NEW q \in Pointers, SwapValue(p, q)
  PROVE  OwnersInv'
<1>0. PointerTypes /\ OwnersKnown /\ p # q
  BY DEF OwnersInv, SwapValue
<1>1. CASE ~Takeable(p, q)
  <2> DEFINE o == pointer[q]
  <2>1. /\ wrong' = IF o = Null THEN "null counter" ELSE "freed counter"
        /\ UNCHANGED <<object, counter, pointer, references, owner, copied>>
    BY <1>1 DEF SwapValue
  <2>2. ASSUME o # Null PROVE copied # {}
    <3>1. o \in Objects /\ (Gone(o) \/ (pointer[p] = o /\ counter[o] = 1))
      BY <1>0, <1>1, <2>2 DEF Takeable, PointerTypes
    <3>2. CASE Gone(o)
      BY <2>2, <3>2, MissedMeansCopied
    <3>3. CASE pointer[p] = o /\ counter[o] = 1
      <4> SUFFICES ASSUME o \notin copied PROVE FALSE
        OBVIOUS
      <4>1. counter[o] = Cardinality(Pointing(pointer, o)) + references[o]
        BY <3>1, HeldCounter
      <4>2. Cardinality(Pointing(pointer, o)) >= 2 /\ Cardinality(Pointing(pointer, o)) \in Nat
        BY <1>0, <3>3, TwoPointing, PointingCounted
      <4>3. references[o] \in 0..1
        BY <1>0, <3>1 DEF PointerTypes
      <4> QED
        BY <3>3, <4>1, <4>2, <4>3
    <3> QED
      BY <3>1, <3>2, <3>3
  <2> QED
    BY <2>1, <2>2, GoesWrong
<1>2. CASE Takeable(p, q) /\ pointer[p] # Null /\ Gone(pointer[p])
  <2>1. /\ wrong' = "freed counter"
        /\ UNCHANGED <<object, counter, pointer, references, owner, copied>>
    BY <1>2 DEF SwapValue, Touches
  <2> QED
    BY <1>2, <2>1, MissedMeansCopied, GoesWrong
<1>3. CASE Takeable(p, q) /\ ~(pointer[p] # Null /\ Gone(pointer[p]))
  <2>0. PICK o \in Objects : o = pointer[q] /\ ~(pointer[p] = o /\ counter[o] = 1)
    BY <1>0, <1>3 DEF Takeable, PointerTypes
  <2>1. PICK c \in [Objects -> Int], b \in [Objects -> {"unborn", "alive", "dead", "freed"}] :
          /\ Released(p, c, b)
          /\ counter' = [c EXCEPT ![o] = c[o] + 1] /\ object' = b
          /\ pointer' = [pointer EXCEPT ![p] = o]
          /\ UNCHANGED <<references, owner, copied, wrong>>
    BY <1>0, <1>3, <2>0, SwapEffect
  <2>2. /\ counter' = [c EXCEPT ![o] = c[o] + 1] /\ object' = b
        /\ pointer' = [pointer EXCEPT ![p] = o]
        /\ UNCHANGED <<references, owner, copied, wrong>>
    BY <2>1
  <2>3. PointerTypes'
    <3>1. counter' \in [Objects -> Int]
      BY <2>0, <2>1, <2>2
    <3>2. pointer' \in [Pointers -> Objects \cup {Null}]
      BY <1>0, <2>0, <2>2 DEF PointerTypes
    <3> QED
      BY <1>0, <2>1, <2>2, <3>1, <3>2 DEF PointerTypes
  <2>4. OwnersKnown'
    <3>1. owner[o] = "counter"
      BY <1>0, <1>3, <2>0 DEF OwnersKnown, Takeable
    <3>2. \A r \in Pointers : pointer'[r] = o \/ pointer'[r] = pointer[r]
      BY <1>0, <2>2 DEF PointerTypes
    <3>3. \A r \in Pointers : pointer'[r] # Null => owner[pointer'[r]] = "counter"
      BY <1>0, <3>1, <3>2 DEF OwnersKnown
    <3>4. \A u \in Objects : b[u] = "unborn" => object[u] = "unborn"
      BY <2>1 DEF Released
    <3> QED
      BY <1>0, <2>2, <3>3, <3>4 DEF OwnersKnown
  <2>5. ASSUME NEW u \in Objects, u # o PROVE Counted(u)'
    <3>1. counter'[u] = c[u] /\ object'[u] = b[u] /\ owner'[u] = owner[u]
      BY <2>0, <2>1, <2>2, <2>5
    <3> QED
      BY <2>0, <2>1, <2>2, <2>5, <3>1, ReleaseCounted
  <2>6. Counted(o)'
    <3> SUFFICES ASSUME o \notin copied PROVE Counted(o)'
      BY <2>2 DEF Counted
    <3>1. /\ object[o] # "freed"
          /\ counter[o] = Cardinality(Pointing(pointer, o)) + references[o]
      BY <2>0, HeldCounter
    <3>2. /\ Cardinality(Pointing(pointer, o)) \in Nat /\ references[o] \in 0..1
          /\ Cardinality(Pointing(pointer, o)) # 0
      <4>1. references[o] \in 0..1
        BY <1>0 DEF PointerTypes
      <4> QED
        BY <2>0, <4>1, PointingCounted
    <3>3. Holders(o)' = Cardinality(Pointing(pointer', o)) + references[o]
      BY <2>2 DEF Holders, Pointing
    <3>4. counter'[o] = c[o] + 1 /\ object'[o] = b[o]
      BY <2>0, <2>1, <2>2
    <3>5. CASE pointer[p] = o
      <4>1. c[o] = counter[o] - 1 /\ b[o] = object[o]
        BY <2>0, <2>1, <3>5 DEF Released
      <4>2. Cardinality(Pointing(pointer', o)) = Cardinality(Pointing(pointer, o))
        <5>1. PointsNow(p, o)
          BY <1>0, <2>2 DEF PointerTypes, PointsNow
        <5> QED
          BY <3>5, <5>1, Moved
      <4>3. Holders(o)' > 0 /\ counter'[o] = Holders(o)'
        BY <3>1, <3>2, <3>3, <3>4, <4>1, <4>2
      <4> QED
        BY <3>1, <3>4, <4>1, <4>3 DEF Counted
    <3>6. CASE pointer[p] # o
      <4>1. c[o] = counter[o] /\ b[o] = object[o]
        BY <2>0, <2>1, <3>6 DEF Released
      <4>2. Cardinality(Pointing(pointer', o)) = Cardinality(Pointing(pointer, o)) + 1
        <5>1. PointsNow(p, o)
          BY <1>0, <2>2 DEF PointerTypes, PointsNow
        <5> QED
          BY <3>6, <5>1, Moved
      <4>3. Holders(o)' > 0 /\ counter'[o] = Holders(o)'
        BY <3>1, <3>2, <3>3, <3>4, <4>1, <4>2
      <4> QED
        BY <3>1, <3>4, <4>1, <4>3 DEF Counted
    <3> QED
      BY <3>5, <3>6
  <2> QED
    BY <2>2, <2>3, <2>4, <2>5, <2>6 DEF OwnersInv
<1> QED
  BY <1>1, <1>2, <1>3

(* A copy nobody counts is the only thing that harms the count.            *)
LEMMA CopyByValueStep ==
  ASSUME OwnersInv, NEW p \in Pointers, NEW q \in Pointers, CopyByValue(p, q)
  PROVE  OwnersInv'
<1>0. PointerTypes /\ OwnersKnown /\ pointer[p] # Null /\ pointer[q] = Null
  BY DEF OwnersInv, CopyByValue
<1>1. PICK o \in Objects : o = pointer[p]
  BY <1>0 DEF PointerTypes
<1>2. /\ pointer' = [pointer EXCEPT ![q] = o] /\ copied' = copied \cup {o}
      /\ UNCHANGED <<object, counter, references, owner, wrong>>
  BY <1>1 DEF CopyByValue
<1>3. PointerTypes'
  BY <1>0, <1>1, <1>2 DEF PointerTypes
<1>4. OwnersKnown'
  <2>1. owner[o] = "counter"
    BY <1>0, <1>1 DEF OwnersKnown
  <2>2. \A r \in Pointers : pointer'[r] = o \/ pointer'[r] = pointer[r]
    BY <1>0, <1>2 DEF PointerTypes
  <2>3. \A r \in Pointers : pointer'[r] # Null => owner[pointer'[r]] = "counter"
    BY <1>0, <2>1, <2>2 DEF OwnersKnown
  <2> QED
    BY <1>0, <1>2, <2>3 DEF OwnersKnown
<1>5. ASSUME NEW u \in Objects PROVE Counted(u)'
  <2>1. CASE u = o
    BY <1>2, <2>1 DEF Counted
  <2>2. CASE u # o
    <3>1. Cardinality(Pointing(pointer', u)) = Cardinality(Pointing(pointer, u))
      <4>1. PointsNow(q, o) /\ pointer[q] # u
        BY <1>0, <1>2, PointerAssumption DEF PointerTypes, PointsNow
      <4> QED
        BY <2>2, <4>1, NotMoved
    <3> QED
      BY <1>2, <3>1, CountedAlone
  <2> QED
    BY <2>1, <2>2
<1> QED
  BY <1>2, <1>3, <1>4, <1>5 DEF OwnersInv

(* The end of a pointer lets go of what it had.                            *)
LEMMA LeaveStep ==
  ASSUME OwnersInv, NEW p \in Pointers, Leave(p)
  PROVE  OwnersInv'
<1>0. PointerTypes /\ OwnersKnown /\ pointer[p] # Null
  BY DEF OwnersInv, Leave
<1>1. CASE Gone(pointer[p])
  <2>1. /\ wrong' = "freed counter"
        /\ UNCHANGED <<object, counter, pointer, references, owner, copied>>
    BY <1>0, <1>1 DEF Leave, Touches
  <2> QED
    BY <1>0, <1>1, <2>1, MissedMeansCopied, GoesWrong
<1>2. CASE ~Gone(pointer[p])
  <2>1. PICK c \in [Objects -> Int], b \in [Objects -> {"unborn", "alive", "dead", "freed"}] :
          /\ Released(p, c, b)
          /\ counter' = c /\ object' = b
          /\ pointer' = [pointer EXCEPT ![p] = Null]
          /\ UNCHANGED <<references, owner, copied, wrong>>
    BY <1>0, <1>2, LeaveEffect
  <2>2. /\ counter' = c /\ object' = b
        /\ pointer' = [pointer EXCEPT ![p] = Null]
        /\ UNCHANGED <<references, owner, copied, wrong>>
    BY <2>1
  <2>3. PointerTypes'
    BY <1>0, <2>1, <2>2 DEF PointerTypes
  <2>4. OwnersKnown'
    <3>1. \A r \in Pointers : pointer'[r] = Null \/ pointer'[r] = pointer[r]
      BY <1>0, <2>2 DEF PointerTypes
    <3>2. \A r \in Pointers : pointer'[r] # Null => owner[pointer'[r]] = "counter"
      BY <1>0, <3>1 DEF OwnersKnown
    <3>3. \A u \in Objects : b[u] = "unborn" => object[u] = "unborn"
      BY <2>1 DEF Released
    <3> QED
      BY <1>0, <2>2, <3>2, <3>3 DEF OwnersKnown
  <2>5. ASSUME NEW u \in Objects PROVE Counted(u)'
    <3>1. u # Null
      BY PointerAssumption
    <3> QED
      BY <2>1, <2>2, <3>1, ReleaseCounted
  <2> QED
    BY <2>2, <2>3, <2>4, <2>5 DEF OwnersInv
<1> QED
  BY <1>1, <1>2

(* One usage more, in the counter and among the references.                *)
LEMMA IncrementUsageStep ==
  ASSUME OwnersInv, NEW p \in Pointers, IncrementUsage(p)
  PROVE  OwnersInv'
<1>0. PointerTypes /\ OwnersKnown
  BY DEF OwnersInv
<1>1. CASE pointer[p] = Null
  <2>1. /\ wrong' = "null counter"
        /\ UNCHANGED <<object, counter, pointer, references, owner, copied>>
    BY <1>1 DEF IncrementUsage
  <2> QED
    BY <2>1, GoesWrong
<1>2. CASE pointer[p] # Null /\ Gone(pointer[p])
  <2>1. /\ wrong' = "freed counter"
        /\ UNCHANGED <<object, counter, pointer, references, owner, copied>>
    BY <1>2 DEF IncrementUsage, Touches
  <2> QED
    BY <1>2, <2>1, MissedMeansCopied, GoesWrong
<1>3. CASE pointer[p] # Null /\ ~Gone(pointer[p])
  <2>1. PICK o \in Objects : o = pointer[p]
    BY <1>0, <1>3 DEF PointerTypes
  <2>2. /\ references[o] = 0
        /\ counter' = [counter EXCEPT ![o] = counter[o] + 1]
        /\ references' = [references EXCEPT ![o] = references[o] + 1]
        /\ UNCHANGED <<object, pointer, owner, copied, wrong>>
    BY <1>3, <2>1 DEF IncrementUsage, Touches
  <2>3. PointerTypes'
    <3>1. counter' \in [Objects -> Int] /\ references' \in [Objects -> 0..1]
      <4>1. counter[o] + 1 \in Int /\ references[o] + 1 \in 0..1
        <5>1. counter[o] \in Int
          BY <1>0 DEF PointerTypes
        <5> QED
          BY <2>2, <5>1
      <4> QED
        BY <1>0, <2>2, <4>1 DEF PointerTypes
    <3> QED
      BY <1>0, <2>2, <3>1 DEF PointerTypes
  <2>4. OwnersKnown'
    <3>1. owner[o] = "counter"
      BY <1>0, <1>3, <2>1 DEF OwnersKnown
    <3>2. \A u \in Objects : references'[u] > 0 => owner[u] = "counter"
      BY <1>0, <2>2, <3>1 DEF OwnersKnown, PointerTypes
    <3> QED
      BY <1>0, <2>2, <3>2 DEF OwnersKnown
  <2>5. ASSUME NEW u \in Objects PROVE Counted(u)'
    <3>1. CASE u # o
      <4>1. counter'[u] = counter[u] /\ references'[u] = references[u]
        BY <1>0, <2>2, <3>1 DEF PointerTypes
      <4> QED
        BY <2>2, <4>1, CountedAlone
    <3>2. CASE u = o
      <4> SUFFICES ASSUME o \notin copied PROVE Counted(o)'
        BY <2>2, <3>2 DEF Counted
      <4>1. object[o] # "freed" /\ counter[o] = Cardinality(Pointing(pointer, o)) + 0
        BY <2>1, <2>2, HeldCounter
      <4>2. counter'[o] = counter[o] + 1 /\ references'[o] = 1
        <5>1. references[o] + 1 = 1
          BY <2>2
        <5>2. references'[o] = references[o] + 1
          BY <1>0, <2>2 DEF PointerTypes
        <5>3. counter'[o] = counter[o] + 1
          BY <1>0, <2>2 DEF PointerTypes
        <5> QED
          BY <5>1, <5>2, <5>3
      <4>3. Holders(o)' = Cardinality(Pointing(pointer, o)) + 1
        BY <2>2, <4>2 DEF Holders, Pointing
      <4>4. Cardinality(Pointing(pointer, o)) \in Nat
        BY PointingCounted
      <4>5. Holders(o)' > 0 /\ counter'[o] = Holders(o)'
        BY <4>1, <4>2, <4>3, <4>4
      <4> QED
        BY <2>2, <4>1, <4>5 DEF Counted
    <3> QED
      BY <3>1, <3>2
  <2> QED
    BY <2>2, <2>3, <2>4, <2>5 DEF OwnersInv
<1> QED
  BY <1>1, <1>2, <1>3

(* A usage given back: the last holder may be a reference.                 *)
LEMMA DestroyReferenceStep ==
  ASSUME OwnersInv, NEW o \in Objects, DestroyReference(o)
  PROVE  OwnersInv'
<1>0. /\ PointerTypes /\ OwnersKnown /\ references[o] = 1
      /\ references' = [references EXCEPT ![o] = 0]
      /\ UNCHANGED <<pointer, owner, copied>>
  <2>1. references[o] \in 0..1 /\ references[o] > 0
    BY DEF OwnersInv, PointerTypes, DestroyReference
  <2>2. references[o] = 1
    BY <2>1
  <2>3. /\ references' = [references EXCEPT ![o] = references[o] - 1]
        /\ UNCHANGED <<pointer, owner, copied>>
    BY DEF DestroyReference
  <2> QED
    <3>1. references[o] - 1 = 0
      BY <2>2
    <3> QED
      BY <2>2, <2>3, <3>1 DEF OwnersInv
<1>1. /\ references' \in [Objects -> 0..1] /\ references'[o] = 0
      /\ \A u \in Objects : u # o => references'[u] = references[u]
  <2>0. 0 \in 0..1
    OBVIOUS
  <2>1. references \in [Objects -> 0..1]
    BY <1>0 DEF PointerTypes
  <2>2. references' = [references EXCEPT ![o] = 0]
    BY <1>0
  <2> QED
    BY <2>0, <2>1, <2>2
<1>2. Holders(o)' = Cardinality(Pointing(pointer, o))
  <2>1. Holders(o)' = Cardinality(Pointing(pointer, o)) + 0
    BY <1>0, <1>1 DEF Holders, Pointing
  <2> QED
    BY <2>1, PointingCounted
<1>3. CASE Gone(o)
  <2>1. wrong' = "freed counter" /\ UNCHANGED <<counter, object>>
    BY <1>3 DEF DestroyReference
  <2>2. o \in copied
    BY <1>0, <1>3, HeldCounter
  <2>3. PointerTypes' /\ OwnersKnown'
    <3>1. \A u \in Objects : references'[u] > 0 => references[u] > 0
      BY <1>0, <1>1
    <3>2. wrong' \in {"no", "freed counter", "null counter"}
      BY <2>1
    <3>3. PointerTypes'
      BY <1>0, <1>1, <2>1, <3>2 DEF PointerTypes
    <3>4. OwnersKnown'
      BY <1>0, <2>1, <3>1 DEF OwnersKnown
    <3> QED
      BY <3>3, <3>4
  <2>4. ASSUME NEW u \in Objects PROVE Counted(u)'
    <3>1. CASE u = o
      BY <1>0, <2>2, <3>1 DEF Counted
    <3>2. CASE u # o
      BY <1>0, <1>1, <2>1, <3>2, CountedAlone
    <3> QED
      BY <3>1, <3>2
  <2> QED
    BY <1>0, <2>2, <2>3, <2>4 DEF OwnersInv
<1>4. CASE ~Gone(o)
  <2>1. /\ counter' = [counter EXCEPT ![o] = IF counter[o] = 1 THEN -1 ELSE counter[o] - 1]
        /\ object' = [object EXCEPT ![o] = IF counter[o] = 1 THEN "freed" ELSE object[o]]
        /\ UNCHANGED wrong
    BY <1>0, <1>4, CollectEffect DEF DestroyReference, Set
  <2>2. /\ counter'[o] = IF counter[o] = 1 THEN -1 ELSE counter[o] - 1
        /\ object'[o] = IF counter[o] = 1 THEN "freed" ELSE object[o]
        /\ \A u \in Objects : u # o => counter'[u] = counter[u] /\ object'[u] = object[u]
    BY <1>0, <2>1 DEF PointerTypes
  <2>3. PointerTypes'
    <3>1. (IF counter[o] = 1 THEN -1 ELSE counter[o] - 1) \in Int
      <4>1. counter[o] \in Int
        BY <1>0 DEF PointerTypes
      <4> QED
        BY <4>1
    <3>2. (IF counter[o] = 1 THEN "freed" ELSE object[o]) \in {"unborn", "alive", "dead", "freed"}
      BY <1>0 DEF PointerTypes
    <3>3. /\ counter' \in [Objects -> Int]
          /\ object' \in [Objects -> {"unborn", "alive", "dead", "freed"}]
      BY <1>0, <2>1, <3>1, <3>2 DEF PointerTypes
    <3> QED
      BY <1>0, <1>1, <2>1, <3>3 DEF PointerTypes
  <2>4. OwnersKnown'
    <3>1. \A u \in Objects : references'[u] > 0 => references[u] > 0
      BY <1>0, <1>1
    <3>2. \A u \in Objects : object'[u] = "unborn" => object[u] = "unborn"
      BY <2>2
    <3> QED
      BY <1>0, <3>1, <3>2 DEF OwnersKnown
  <2>5. ASSUME NEW u \in Objects, u # o PROVE Counted(u)'
    BY <1>0, <1>1, <2>2, <2>5, CountedAlone
  <2>6. Counted(o)'
    <3> SUFFICES ASSUME o \notin copied PROVE Counted(o)'
      BY <1>0 DEF Counted
    <3>1. /\ object[o] # "freed"
          /\ counter[o] = Cardinality(Pointing(pointer, o)) + 1
      BY <1>0, HeldCounter
    <3>2. Cardinality(Pointing(pointer, o)) \in Nat
      BY PointingCounted
    <3>3. CASE counter[o] = 1
      <4>1. Holders(o)' = 0 /\ object'[o] = "freed"
        BY <1>2, <2>2, <3>1, <3>2, <3>3
      <4> QED
        BY <4>1 DEF Counted
    <3>4. CASE counter[o] # 1
      <4>1. Holders(o)' > 0 /\ counter'[o] = Holders(o)' /\ object'[o] # "freed"
        BY <1>2, <2>2, <3>1, <3>2, <3>4
      <4> QED
        BY <4>1 DEF Counted
    <3> QED
      BY <3>3, <3>4
  <2> QED
    BY <1>0, <2>1, <2>3, <2>4, <2>5, <2>6 DEF OwnersInv
<1> QED
  BY <1>3, <1>4

(* Death is not the end of the counter, and only an owner without one      *)
(* destroys an object at once.                                             *)
LEMMA InvalidateStep ==
  ASSUME OwnersInv, NEW o \in Objects, Invalidate(o) \/ Destroy(o)
  PROVE  OwnersInv'
<1>0. /\ PointerTypes /\ OwnersKnown /\ object[o] \in {"alive", "dead"}
      /\ UNCHANGED <<counter, pointer, references, owner, copied, wrong>>
  BY DEF OwnersInv, Invalidate, Destroy
<1>1. \/ object' = [object EXCEPT ![o] = "dead"]
      \/ object' = [object EXCEPT ![o] = "freed"] /\ owner[o] # "counter"
  BY DEF Invalidate, Destroy
<1>2. PointerTypes'
  BY <1>0, <1>1 DEF PointerTypes
<1>3. OwnersKnown'
  <2>1. \A u \in Objects : object'[u] = "unborn" => object[u] = "unborn"
    BY <1>0, <1>1 DEF PointerTypes
  <2> QED
    BY <1>0, <2>1 DEF OwnersKnown
<1>4. ASSUME NEW u \in Objects PROVE Counted(u)'
  <2>1. CASE owner[u] # "counter"
    BY <1>0, <2>1 DEF Counted
  <2>2. CASE owner[u] = "counter"
    <3>1. object'[u] = "freed" <=> object[u] = "freed"
      BY <1>0, <1>1, <2>2 DEF PointerTypes
    <3> QED
      BY <1>0, <3>1, CountedAlone
  <2> QED
    BY <2>1, <2>2
<1> QED
  BY <1>0, <1>2, <1>3, <1>4 DEF OwnersInv

(* Copies that nobody counts only add holders: a counter in use is never   *)
(* above the number of them.                                               *)
Bounded(o) == counter[o] = -1 \/ (counter[o] > 0 /\ counter[o] <= Holders(o))

PointerInv == OwnersInv /\ \A o \in Objects : Bounded(o)

(* The number of holders is one, of pointers and references.               *)
LEMMA HoldersNumber ==
  ASSUME PointerTypes, NEW o \in Objects
  PROVE  /\ Holders(o) \in Nat /\ counter[o] \in Int
         /\ Holders(o) = Cardinality(Pointing(pointer, o)) + references[o]
         /\ Cardinality(Pointing(pointer, o)) \in Nat
<1>1. Holders(o) = Cardinality(Pointing(pointer, o)) + references[o]
  BY DEF Holders, Pointing
<1>2. Cardinality(Pointing(pointer, o)) \in Nat
  BY PointingCounted
<1>3. references[o] \in 0..1 /\ counter[o] \in Int
  BY DEF PointerTypes
<1> QED
  BY <1>1, <1>2, <1>3

(* The ways in which a call changes a counter and its holders.             *)
LEMMA BoundedFollows ==
  ASSUME PointerTypes, PointerTypes', NEW u \in Objects, Bounded(u),
         \/ counter'[u] = -1
         \/ counter'[u] = counter[u] /\ Holders(u)' >= Holders(u)
         \/ /\ counter[u] \notin {-1, 1} /\ counter'[u] = counter[u] - 1
            /\ Holders(u)' = Holders(u) - 1
         \/ counter[u] # -1 /\ counter'[u] = counter[u] + 1 /\ Holders(u)' = Holders(u) + 1
         \/ counter'[u] = 1 /\ Holders(u)' > 0
  PROVE  Bounded(u)'
<1>1. Holders(u) \in Nat /\ counter[u] \in Int
  BY HoldersNumber
<1>2. Holders(u)' \in Nat /\ counter'[u] \in Int
  <2>1. Holders(u)' = Cardinality(Pointing(pointer', u)) + references'[u]
    BY DEF Holders, Pointing
  <2>2. Cardinality(Pointing(pointer', u)) \in Nat
    BY PointingCounted
  <2>3. references'[u] \in 0..1 /\ counter'[u] \in Int
    BY DEF PointerTypes
  <2> QED
    BY <2>1, <2>2, <2>3
<1>3. Bounded(u)' <=> counter'[u] = -1 \/ (counter'[u] > 0 /\ counter'[u] <= Holders(u)')
  BY DEF Bounded
<1>4. Bounded(u) <=> counter[u] = -1 \/ (counter[u] > 0 /\ counter[u] <= Holders(u))
  BY DEF Bounded
<1> QED
  BY <1>1, <1>2, <1>3, <1>4

(* What a pointer lets go of, or never had, stays bounded.                 *)
LEMMA ReleaseBounded ==
  ASSUME PointerTypes, PointerTypes', NEW p \in Pointers, NEW x \in Objects \cup {Null},
         NEW c, NEW b, NEW u \in Objects, u # x, Bounded(u),
         Released(p, c, b), ~(pointer[p] # Null /\ Gone(pointer[p])),
         pointer' = [pointer EXCEPT ![p] = x], counter'[u] = c[u], UNCHANGED references
  PROVE  Bounded(u)'
<1>1. PointsNow(p, x)
  BY DEF PointerTypes, PointsNow
<1>2. Holders(u)' = Cardinality(Pointing(pointer', u)) + references[u]
  BY DEF Holders, Pointing
<1>3. CASE pointer[p] # u
  <2>1. Holders(u)' = Holders(u)
    BY <1>1, <1>2, <1>3, NotMoved, HoldersNumber
  <2>2. counter'[u] = counter[u]
    BY <1>3 DEF Released
  <2> QED
    BY <2>1, <2>2, HoldersNumber, BoundedFollows
<1>4. CASE pointer[p] = u
  <2>1. counter[u] # -1
    BY <1>4, PointerAssumption DEF Gone
  <2>2. Holders(u)' = Holders(u) - 1
    <3>1. Cardinality(Pointing(pointer', u)) = Cardinality(Pointing(pointer, u)) - 1
      BY <1>1, <1>4, Moved
    <3>2. references[u] \in 0..1
      BY DEF PointerTypes
    <3> QED
      BY <1>2, <3>1, <3>2, HoldersNumber
  <2>3. CASE counter[u] = 1
    <3>1. counter'[u] = -1
      BY <1>4, <2>3 DEF Released
    <3> QED
      BY <3>1, BoundedFollows
  <2>4. CASE counter[u] # 1
    <3>1. counter'[u] = counter[u] - 1
      BY <1>4, <2>4 DEF Released
    <3> QED
      BY <2>1, <2>2, <2>4, <3>1, BoundedFollows
  <2> QED
    BY <2>3, <2>4
<1> QED
  BY <1>3, <1>4

(* Where nothing is counted nothing changes.                               *)
LEMMA BoundedAlone ==
  ASSUME PointerTypes, NEW u \in Objects, Bounded(u),
         counter'[u] = counter[u], references'[u] = references[u], pointer' = pointer
  PROVE  Bounded(u)'
BY DEF Bounded, Holders

(* Each call keeps counters in use below their holders.                    *)
LEMMA PassBounded ==
  ASSUME PointerInv, PointerTypes', NEW o \in Objects, NEW p \in Pointers, PassToDumbPointer(o, p)
  PROVE  \A u \in Objects : Bounded(u)'
<1>0. PointerTypes /\ \A u \in Objects : Bounded(u)
  BY DEF PointerInv, OwnersInv
<1>1. CASE pointer[p] # Null /\ Gone(pointer[p])
  BY <1>0, <1>1, BoundedAlone DEF PassToDumbPointer, Touches
<1>2. CASE ~(pointer[p] # Null /\ Gone(pointer[p]))
  <2>1. PICK c \in [Objects -> Int], b \in [Objects -> {"unborn", "alive", "dead", "freed"}] :
          /\ Released(p, c, b)
          /\ counter' = [c EXCEPT ![o] = 1] /\ object' = [b EXCEPT ![o] = "alive"]
          /\ pointer' = [pointer EXCEPT ![p] = o] /\ owner' = [owner EXCEPT ![o] = "counter"]
          /\ UNCHANGED <<references, copied, wrong>>
    BY <1>0, <1>2, PassEffect
  <2>2. ASSUME NEW u \in Objects, u # o PROVE Bounded(u)'
    <3>1. counter'[u] = c[u]
      BY <2>1, <2>2
    <3> QED
      BY <1>0, <1>2, <2>1, <2>2, <3>1, ReleaseBounded
  <2>3. Bounded(o)'
    <3>1. counter'[o] = 1
      BY <2>1
    <3>2. Holders(o)' > 0
      <4>1. Holders(o)' = Cardinality(Pointing(pointer', o)) + references[o]
        BY <2>1 DEF Holders, Pointing
      <4>2. pointer'[p] = o
        BY <1>0, <2>1 DEF PointerTypes
      <4>3. Cardinality(Pointing(pointer', o)) \in Nat /\ Cardinality(Pointing(pointer', o)) # 0
        BY <4>2, PointingCounted
      <4>4. references[o] \in 0..1
        BY <1>0 DEF PointerTypes
      <4> QED
        BY <4>1, <4>3, <4>4
    <3> QED
      BY <1>0, <3>1, <3>2, BoundedFollows
  <2> QED
    BY <2>2, <2>3
<1> QED
  BY <1>1, <1>2

LEMMA SwapBounded ==
  ASSUME PointerInv, PointerTypes', NEW p \in Pointers, NEW q \in Pointers, SwapValue(p, q)
  PROVE  \A u \in Objects : Bounded(u)'
<1>0. PointerTypes /\ \A u \in Objects : Bounded(u)
  BY DEF PointerInv, OwnersInv
<1>1. CASE ~Takeable(p, q) \/ (pointer[p] # Null /\ Gone(pointer[p]))
  BY <1>0, <1>1, BoundedAlone DEF SwapValue, Touches
<1>2. CASE Takeable(p, q) /\ ~(pointer[p] # Null /\ Gone(pointer[p]))
  <2>0. PICK o \in Objects : o = pointer[q] /\ ~Gone(o) /\ ~(pointer[p] = o /\ counter[o] = 1)
    BY <1>0, <1>2 DEF Takeable, PointerTypes
  <2>1. PICK c \in [Objects -> Int], b \in [Objects -> {"unborn", "alive", "dead", "freed"}] :
          /\ Released(p, c, b)
          /\ counter' = [c EXCEPT ![o] = c[o] + 1] /\ object' = b
          /\ pointer' = [pointer EXCEPT ![p] = o]
          /\ UNCHANGED <<references, owner, copied, wrong>>
    BY <1>0, <1>2, <2>0, SwapEffect
  <2>2. ASSUME NEW u \in Objects, u # o PROVE Bounded(u)'
    <3>1. counter'[u] = c[u]
      BY <2>0, <2>1, <2>2
    <3> QED
      BY <1>0, <1>2, <2>0, <2>1, <2>2, <3>1, ReleaseBounded
  <2>3. Bounded(o)'
    <3>1. /\ counter'[o] = c[o] + 1 /\ PointsNow(p, o) /\ counter[o] # -1
          /\ Holders(o)' = Cardinality(Pointing(pointer', o)) + references[o]
      BY <1>0, <2>0, <2>1 DEF Holders, Pointing, PointsNow, Gone, PointerTypes
    <3>2. /\ Holders(o) \in Nat /\ counter[o] \in Int
          /\ Holders(o) = Cardinality(Pointing(pointer, o)) + references[o]
          /\ Cardinality(Pointing(pointer, o)) \in Nat /\ references[o] \in 0..1
      BY <1>0, HoldersNumber DEF PointerTypes
    <3>3. CASE pointer[p] = o
      <4>1. c[o] = counter[o] - 1
        BY <2>0, <2>1, <3>3 DEF Released
      <4>2. Holders(o)' = Holders(o)
        BY <3>1, <3>2, <3>3, Moved
      <4>3. counter'[o] = counter[o]
        BY <3>1, <3>2, <4>1
      <4> QED
        BY <1>0, <3>2, <4>2, <4>3, BoundedFollows
    <3>4. CASE pointer[p] # o
      <4>1. counter'[o] = counter[o] + 1
        BY <2>0, <2>1, <3>1, <3>4 DEF Released
      <4>2. Cardinality(Pointing(pointer', o)) = Cardinality(Pointing(pointer, o)) + 1
        BY <3>1, <3>4, Moved
      <4>3. Holders(o)' = Holders(o) + 1
        BY <3>1, <3>2, <4>2
      <4> QED
        BY <1>0, <3>1, <4>1, <4>3, BoundedFollows
    <3> QED
      BY <3>3, <3>4
  <2> QED
    BY <2>2, <2>3
<1> QED
  BY <1>1, <1>2

LEMMA CopyBounded ==
  ASSUME PointerInv, PointerTypes', NEW p \in Pointers, NEW q \in Pointers, CopyByValue(p, q)
  PROVE  \A u \in Objects : Bounded(u)'
<1>0. PointerTypes /\ \A u \in Objects : Bounded(u)
  BY DEF PointerInv, OwnersInv
<1>1. PICK o \in Objects : o = pointer[p]
  BY <1>0 DEF CopyByValue, PointerTypes
<1>2. PointsNow(q, o) /\ pointer[q] = Null /\ UNCHANGED <<counter, references>>
  BY <1>0, <1>1 DEF CopyByValue, PointsNow, PointerTypes
<1>3. ASSUME NEW u \in Objects PROVE Bounded(u)'
  <2>1. Cardinality(Pointing(pointer', u)) = Cardinality(Pointing(pointer, u)) + One(u = o)
    <3>1. pointer[q] # u
      BY <1>2, PointerAssumption
    <3>2. CASE u = o
      BY <1>2, <3>1, <3>2, Moved DEF One
    <3>3. CASE u # o
      <4>1. Pointing(pointer', u) = Pointing(pointer, u)
        BY <1>2, <3>1, <3>3, NotMoved
      <4> QED
        BY <3>3, <4>1, PointingCounted DEF One
    <3> QED
      BY <3>2, <3>3
  <2>2. Holders(u)' = Cardinality(Pointing(pointer', u)) + references[u]
    BY <1>2 DEF Holders, Pointing
  <2>3. /\ Holders(u) \in Nat /\ counter'[u] = counter[u]
        /\ Holders(u) = Cardinality(Pointing(pointer, u)) + references[u]
        /\ Cardinality(Pointing(pointer, u)) \in Nat /\ references[u] \in 0..1
    BY <1>0, <1>2, HoldersNumber DEF PointerTypes
  <2>4. One(u = o) \in {0, 1}
    BY DEF One
  <2>5. Holders(u)' >= Holders(u)
    BY <2>1, <2>2, <2>3, <2>4
  <2> QED
    BY <1>0, <2>3, <2>5, BoundedFollows
<1> QED
  BY <1>3

LEMMA LeaveBounded ==
  ASSUME PointerInv, PointerTypes', NEW p \in Pointers, Leave(p)
  PROVE  \A u \in Objects : Bounded(u)'
<1>0. PointerTypes /\ (\A u \in Objects : Bounded(u)) /\ pointer[p] # Null
  BY DEF PointerInv, OwnersInv, Leave
<1>1. CASE Gone(pointer[p])
  BY <1>0, <1>1, BoundedAlone DEF Leave, Touches
<1>2. CASE ~Gone(pointer[p])
  <2>1. PICK c \in [Objects -> Int], b \in [Objects -> {"unborn", "alive", "dead", "freed"}] :
          /\ Released(p, c, b)
          /\ counter' = c /\ object' = b
          /\ pointer' = [pointer EXCEPT ![p] = Null]
          /\ UNCHANGED <<references, owner, copied, wrong>>
    BY <1>0, <1>2, LeaveEffect
  <2>2. ASSUME NEW u \in Objects PROVE Bounded(u)'
    <3>1. u # Null
      BY PointerAssumption
    <3> QED
      BY <1>0, <1>2, <2>1, <3>1, ReleaseBounded
  <2> QED
    BY <2>2
<1> QED
  BY <1>1, <1>2

LEMMA UsageBounded ==
  ASSUME PointerInv, PointerTypes', NEW p \in Pointers, IncrementUsage(p)
  PROVE  \A u \in Objects : Bounded(u)'
<1>0. PointerTypes /\ \A u \in Objects : Bounded(u)
  BY DEF PointerInv, OwnersInv
<1>1. CASE pointer[p] = Null \/ Gone(pointer[p])
  BY <1>0, <1>1, BoundedAlone DEF IncrementUsage, Touches
<1>2. CASE pointer[p] # Null /\ ~Gone(pointer[p])
  <2>1. PICK o \in Objects : o = pointer[p]
    BY <1>0, <1>2 DEF PointerTypes
  <2>2. /\ counter' = [counter EXCEPT ![o] = counter[o] + 1]
        /\ references' = [references EXCEPT ![o] = references[o] + 1]
        /\ UNCHANGED pointer /\ counter[o] # -1
    BY <1>2, <2>1 DEF IncrementUsage, Touches, Gone
  <2>3. ASSUME NEW u \in Objects, u # o PROVE Bounded(u)'
    <3>1. counter'[u] = counter[u] /\ references'[u] = references[u]
      BY <1>0, <2>2, <2>3 DEF PointerTypes
    <3> QED
      BY <1>0, <2>2, <3>1, BoundedAlone
  <2>4. Bounded(o)'
    <3>1. counter'[o] = counter[o] + 1 /\ references'[o] = references[o] + 1
      BY <1>0, <2>2 DEF PointerTypes
    <3>2. Holders(o)' = Cardinality(Pointing(pointer, o)) + (references[o] + 1)
      BY <2>2, <3>1 DEF Holders, Pointing
    <3>3. Holders(o)' = Holders(o) + 1
      <4>1. references[o] \in 0..1
        BY <1>0 DEF PointerTypes
      <4> QED
        BY <1>0, <3>2, <4>1, HoldersNumber
    <3> QED
      BY <1>0, <2>2, <3>1, <3>3, BoundedFollows
  <2> QED
    BY <2>3, <2>4
<1> QED
  BY <1>1, <1>2

LEMMA ReferenceBounded ==
  ASSUME PointerInv, PointerTypes', NEW o \in Objects, DestroyReference(o)
  PROVE  \A u \in Objects : Bounded(u)'
<1>0. PointerTypes /\ (\A u \in Objects : Bounded(u)) /\ references[o] \in 0..1
  BY DEF PointerInv, OwnersInv, PointerTypes
<1>1. /\ references' = [references EXCEPT ![o] = references[o] - 1] /\ UNCHANGED pointer
      /\ counter' = IF Gone(o) THEN counter
                    ELSE [counter EXCEPT ![o] = IF counter[o] = 1 THEN -1 ELSE counter[o] - 1]
  <2>1. CASE Gone(o)
    BY <2>1 DEF DestroyReference
  <2>2. CASE ~Gone(o)
    BY <1>0, <2>2, CollectEffect DEF DestroyReference, Set
  <2> QED
    BY <2>1, <2>2
<1>2. ASSUME NEW u \in Objects, u # o PROVE Bounded(u)'
  <2>1. counter'[u] = counter[u] /\ references'[u] = references[u]
    BY <1>0, <1>1, <1>2 DEF PointerTypes
  <2> QED
    BY <1>0, <1>1, <2>1, BoundedAlone
<1>3. Bounded(o)'
  <2>1. CASE Gone(o) \/ counter[o] = 1
    <3>1. counter'[o] = -1
      BY <1>0, <1>1, <2>1 DEF PointerTypes, Gone
    <3> QED
      BY <1>0, <3>1, BoundedFollows
  <2>2. CASE ~Gone(o) /\ counter[o] # 1
    <3>1. counter'[o] = counter[o] - 1 /\ references'[o] = references[o] - 1
      BY <1>0, <1>1, <2>2 DEF PointerTypes
    <3>2. Holders(o)' = Cardinality(Pointing(pointer, o)) + (references[o] - 1)
      BY <1>1, <3>1 DEF Holders, Pointing
    <3>3. Holders(o)' = Holders(o) - 1
      BY <1>0, <3>2, HoldersNumber
    <3>4. counter[o] # -1
      BY <2>2 DEF Gone
    <3> QED
      BY <1>0, <2>2, <3>1, <3>3, <3>4, BoundedFollows
  <2> QED
    BY <2>1, <2>2
<1> QED
  BY <1>2, <1>3

(* No object is made at first.                                             *)
LEMMA PointerInvInit ==
  ASSUME PointerInit
  PROVE  PointerInv
<1>1. PointerTypes
  BY DEF PointerInit, PointerTypes
<1>2. OwnersKnown
  BY DEF PointerInit, OwnersKnown
<1>3. \A o \in Objects : Counted(o) /\ Bounded(o)
  BY DEF PointerInit, Counted, Bounded
<1> QED
  BY <1>1, <1>2, <1>3 DEF PointerInv, OwnersInv, PointerInit

(* Every call keeps the invariant of pointers.                             *)
LEMMA PointerInvStep ==
  ASSUME PointerInv, PointerStep \/ UNCHANGED pointerVars
  PROVE  PointerInv'
<1>0. OwnersInv /\ PointerTypes /\ \A u \in Objects : Bounded(u)
  BY DEF PointerInv, OwnersInv
<1>1. CASE UNCHANGED pointerVars
  <2>1. OwnersInv'
    BY <1>0, <1>1, GoesWrong DEF pointerVars
  <2>2. \A u \in Objects : Bounded(u)'
    BY <1>0, <1>1, BoundedAlone DEF pointerVars
  <2> QED
    BY <2>1, <2>2 DEF PointerInv
<1>2. CASE PointerStep
  <2>1. OwnersInv'
    BY <1>0, <1>2, PassToDumbPointerStep, PassToOtherStep, SwapValueStep, CopyByValueStep,
       LeaveStep, IncrementUsageStep, DestroyReferenceStep, InvalidateStep DEF PointerStep
  <2>2. PointerTypes'
    BY <2>1 DEF OwnersInv
  <2>3. ASSUME NEW o \in Objects,
               (\E whom \in {"nobody", "optr", "raw"} : PassToOther(o, whom)) \/ Invalidate(o) \/ Destroy(o)
        PROVE  \A u \in Objects : Bounded(u)'
    BY <1>0, <2>3, BoundedAlone DEF PassToOther, Invalidate, Destroy
  <2>4. \A u \in Objects : Bounded(u)'
    BY <1>2, <2>2, <2>3, PassBounded, SwapBounded, CopyBounded, LeaveBounded, UsageBounded,
       ReferenceBounded DEF PointerStep
  <2> QED
    BY <2>1, <2>4 DEF PointerInv
<1> QED
  BY <1>1, <1>2

(* What the invariant says of the counters.                                *)
LEMMA PointerInvSays == PointerInv => PointerTypeOK /\ OwnersCounted
<1> SUFFICES ASSUME PointerInv PROVE PointerTypeOK /\ OwnersCounted
  OBVIOUS
<1>1. PointerTypes /\ \A u \in Objects : Bounded(u)
  BY DEF PointerInv, OwnersInv
<1>2. ASSUME NEW o \in Objects PROVE counter[o] \in -1..(Cardinality(Pointers) + 2)
  <2>1. /\ Pointing(pointer, o) \subseteq Pointers
        /\ IsFiniteSet(Pointers)
    BY PointerAssumption DEF Pointing
  <2>2. /\ Cardinality(Pointing(pointer, o)) <= Cardinality(Pointers)
        /\ Cardinality(Pointers) \in Nat
    BY <2>1, FS_Subset, FS_CardinalityType
  <2>3. /\ Holders(o) = Cardinality(Pointing(pointer, o)) + references[o]
        /\ Cardinality(Pointing(pointer, o)) \in Nat /\ counter[o] \in Int
    BY <1>1, HoldersNumber
  <2>4. references[o] \in 0..1
    BY <1>1 DEF PointerTypes
  <2>5. counter[o] = -1 \/ (counter[o] > 0 /\ counter[o] <= Holders(o))
    BY <1>1 DEF Bounded
  <2> QED
    BY <2>2, <2>3, <2>4, <2>5
<1>3. counter \in [Objects -> -1..(Cardinality(Pointers) + 2)]
  BY <1>1, <1>2 DEF PointerTypes
<1>4. PointerTypeOK
  BY <1>1, <1>3 DEF PointerTypes, PointerTypeOK
<1>5. OwnersCounted
  BY DEF PointerInv, OwnersInv, Counted, OwnersCounted
<1> QED
  BY <1>4, <1>5

-----------------------------------------------------------------------------
(* Files, directories and paths.                                           *)

HandleRecords == [kind: Kinds, entry: Entries, filp: {"null", "open"},
                  fili: {"null", "open", "closed"}, dead: BOOLEAN]

(* What one object holds: of the mount, of an entry, of open files.        *)
HoldsMount(o) == o.kind = "path" \/ (o.kind = "directory" /\ ~o.dead)
HoldsEntry(o, e) == HoldsMount(o) /\ o.entry = e
HoldsFile(o) == o.filp = "open"

(* Only files have a file open, and it is what they were opened with; only *)
(* directories die.                                                        *)
Sane(o) ==
  /\ o.kind = "none" => o = Nothing
  /\ o.kind # "file" => o.filp = "null"
  /\ o.filp = "open" => o.fili = "open"
  /\ o.kind # "directory" => ~o.dead

FsInv == FsTypeOK /\ FsBalanced /\ \A h \in Handles : Sane(handle[h])

(* An object that becomes another one, with the references that makes.     *)
LEMMA BecomesStep ==
  ASSUME FsInv, NEW h \in Handles, NEW o \in HandleRecords, Sane(o), Becomes(h, o),
         entryRefs' \in [Entries -> Int],
         \A e \in Entries : entryRefs'[e] =
           entryRefs[e] - One(HoldsEntry(handle[h], e)) + One(HoldsEntry(o, e)),
         mountRefs' = mountRefs - One(HoldsMount(handle[h])) + One(HoldsMount(o)),
         openFiles' = openFiles - One(HoldsFile(handle[h])) + One(HoldsFile(o)),
         UNCHANGED <<stubs, failedIterates, crash>>
  PROVE  FsInv'
<1>1. handle \in [Handles -> HandleRecords] /\ handle' = [handle EXCEPT ![h] = o]
  BY DEF FsInv, FsTypeOK, HandleRecords, Becomes
<1>2. handle' \in [Handles -> HandleRecords] /\ handle'[h] = o
      /\ \A g \in Handles : g # h => handle'[g] = handle[g]
  BY <1>1
<1>3. IsFiniteSet(Handles)
  BY EntryAssumption
<1>4. ASSUME NEW e \in Entries
      PROVE  /\ entryRefs'[e] = Cardinality({g \in Handles : Holding(g)' /\ handle'[g].entry = e})
             /\ entryRefs'[e] \in Nat
  <2> DEFINE S == {g \in Handles : Holding(g) /\ handle[g].entry = e}
             T == {g \in Handles : Holding(g)' /\ handle'[g].entry = e}
  <2>1. S \ {h} = T \ {h}
    BY <1>2 DEF Holding, Is
  <2>2. (h \in S <=> HoldsEntry(handle[h], e)) /\ (h \in T <=> HoldsEntry(o, e))
    BY <1>2 DEF Holding, Is, HoldsEntry, HoldsMount
  <2>3. entryRefs[e] = Cardinality(S)
    BY DEF FsInv, FsBalanced
  <2>4. /\ Cardinality(T) = Cardinality(S) - One(h \in S) + One(h \in T)
        /\ Cardinality(T) \in Nat
    <3> HIDE DEF S, T
    <3>1. S \subseteq Handles /\ T \subseteq Handles
      BY DEF S, T
    <3> QED
      BY <1>3, <2>1, <3>1, OneChanged
  <2>5. One(h \in S) = One(HoldsEntry(handle[h], e)) /\ One(h \in T) = One(HoldsEntry(o, e))
    BY <2>2 DEF One
  <2> HIDE DEF S, T
  <2>6. entryRefs'[e] = Cardinality(T)
    BY <2>3, <2>4, <2>5
  <2> QED
    BY <2>4, <2>6 DEF T
<1>5. mountRefs' = Cardinality({g \in Handles : Holding(g)'}) /\ mountRefs' \in Nat
  <2> DEFINE S == {g \in Handles : Holding(g)}
             T == {g \in Handles : Holding(g)'}
  <2>1. S \ {h} = T \ {h}
    BY <1>2 DEF Holding, Is
  <2>2. (h \in S <=> HoldsMount(handle[h])) /\ (h \in T <=> HoldsMount(o))
    BY <1>2 DEF Holding, Is, HoldsMount
  <2>3. mountRefs = Cardinality(S)
    BY DEF FsInv, FsBalanced
  <2>4. /\ Cardinality(T) = Cardinality(S) - One(h \in S) + One(h \in T)
        /\ Cardinality(T) \in Nat
    <3> HIDE DEF S, T
    <3>1. S \subseteq Handles /\ T \subseteq Handles
      BY DEF S, T
    <3> QED
      BY <1>3, <2>1, <3>1, OneChanged
  <2>5. One(h \in S) = One(HoldsMount(handle[h])) /\ One(h \in T) = One(HoldsMount(o))
    BY <2>2 DEF One
  <2> HIDE DEF S, T
  <2>6. mountRefs' = Cardinality(T)
    BY <2>3, <2>4, <2>5
  <2> QED
    BY <2>4, <2>6 DEF T
<1>6. openFiles' = Cardinality({g \in Handles : handle'[g].filp = "open"}) /\ openFiles' \in Nat
  <2> DEFINE S == {g \in Handles : handle[g].filp = "open"}
             T == {g \in Handles : handle'[g].filp = "open"}
  <2>1. S \ {h} = T \ {h}
    BY <1>2
  <2>2. (h \in S <=> HoldsFile(handle[h])) /\ (h \in T <=> HoldsFile(o))
    BY <1>2 DEF HoldsFile
  <2>3. openFiles = Cardinality(S)
    BY DEF FsInv, FsBalanced
  <2>4. /\ Cardinality(T) = Cardinality(S) - One(h \in S) + One(h \in T)
        /\ Cardinality(T) \in Nat
    <3> HIDE DEF S, T
    <3>1. S \subseteq Handles /\ T \subseteq Handles
      BY DEF S, T
    <3> QED
      BY <1>3, <2>1, <3>1, OneChanged
  <2>5. One(h \in S) = One(HoldsFile(handle[h])) /\ One(h \in T) = One(HoldsFile(o))
    BY <2>2 DEF One
  <2> HIDE DEF S, T
  <2>6. openFiles' = Cardinality(T)
    BY <2>3, <2>4, <2>5
  <2> QED
    BY <2>4, <2>6 DEF T
<1>7. FsTypeOK'
  <2>1. entryRefs' \in [Entries -> Nat]
    BY <1>4
  <2> QED
    BY <1>2, <1>5, <1>6, <2>1 DEF FsInv, FsTypeOK, HandleRecords
<1>8. stubs' = failedIterates'
  BY DEF FsInv, FsBalanced
<1>9. \A g \in Handles : Sane(handle'[g])
  BY <1>2 DEF FsInv
<1>10. \A g \in Handles : handle'[g].filp # "null" => handle'[g].fili = "open"
  BY <1>2, <1>9 DEF HandleRecords, Sane
<1> QED
  BY <1>4, <1>5, <1>6, <1>7, <1>8, <1>9, <1>10 DEF FsInv, FsBalanced, HasError

(* No object changes and no reference is kept.                             *)
LEMMA NothingHeldStep ==
  ASSUME FsInv, UNCHANGED <<handle, entryRefs, mountRefs, openFiles>>,
         stubs' = failedIterates', stubs' \in Nat,
         crash' \in {"no", "no file", "closed file", "no path", "no directory"}
  PROVE  FsInv'
BY DEF FsInv, FsTypeOK, FsBalanced, Holding, Is, HasError

(* A call that dereferences nothing holds nothing more.                    *)
LEMMA CrashesStep ==
  ASSUME FsInv, NEW how \in {"no file", "closed file", "no path", "no directory"}, Crashes(how)
  PROVE  FsInv'
BY NothingHeldStep DEF FsInv, FsTypeOK, FsBalanced, Crashes

(* A call that is refused changes nothing.                                 *)
LEMMA RefusedStep ==
  ASSUME FsInv, Refused
  PROVE  FsInv'
BY NothingHeldStep DEF FsInv, FsTypeOK, FsBalanced, Refused, fsVars

(* References as functions of what they were.                              *)
RefsOf(f, m) == [entry |-> f, mount |-> m]

(* Taking and giving back one entry, as an update of the function.         *)
LEMMA RefSteps ==
  ASSUME NEW f \in [Entries -> Int], NEW m \in Int, NEW e \in Entries
  PROVE  /\ dget(RefsOf(f, m), e) = RefsOf([f EXCEPT ![e] = f[e] + 1], m)
         /\ dput(RefsOf(f, m), e) = RefsOf([f EXCEPT ![e] = f[e] - 1], m)
         /\ [f EXCEPT ![e] = f[e] + 1] \in [Entries -> Int]
         /\ [f EXCEPT ![e] = f[e] - 1] \in [Entries -> Int]
<1>1. dget(RefsOf(f, m), e) = RefsOf([f EXCEPT ![e] = f[e] + 1], m)
  BY DEF dget, RefsOf
<1>2. dput(RefsOf(f, m), e) = RefsOf([f EXCEPT ![e] = f[e] - 1], m)
  BY DEF dput, RefsOf
<1>3. f[e] + 1 \in Int /\ f[e] - 1 \in Int
  OBVIOUS
<1> QED
  BY <1>1, <1>2, <1>3

(* A path is one reference of an entry and one of the mount.               *)
LEMMA PathSteps ==
  ASSUME NEW f \in [Entries -> Int], NEW m \in Int, NEW e \in Entries
  PROVE  /\ OpenPath(RefsOf(f, m), e) = RefsOf([f EXCEPT ![e] = f[e] + 1], m + 1)
         /\ ClosePath(RefsOf(f, m), e) = RefsOf([f EXCEPT ![e] = f[e] - 1], m - 1)
<1>1. OpenPath(RefsOf(f, m), e) = RefsOf([f EXCEPT ![e] = f[e] + 1], m + 1)
  <2> DEFINE g == [f EXCEPT ![e] = f[e] + 1]
  <2>1. dget(RefsOf(f, m), e) = RefsOf(g, m)
    BY RefSteps
  <2> HIDE DEF g
  <2>2. [RefsOf(g, m) EXCEPT !.mount = @ + 1] = RefsOf(g, m + 1)
    BY DEF RefsOf
  <2>3. OpenPath(RefsOf(f, m), e) = RefsOf(g, m + 1)
    BY <2>1, <2>2 DEF OpenPath
  <2> QED
    BY <2>3 DEF g
<1>2. ClosePath(RefsOf(f, m), e) = RefsOf([f EXCEPT ![e] = f[e] - 1], m - 1)
  <2> DEFINE g == [f EXCEPT ![e] = f[e] - 1]
  <2>1. dput(RefsOf(f, m), e) = RefsOf(g, m)
    BY RefSteps
  <2> HIDE DEF g
  <2>2. [RefsOf(g, m) EXCEPT !.mount = @ - 1] = RefsOf(g, m - 1)
    BY DEF RefsOf
  <2>3. ClosePath(RefsOf(f, m), e) = RefsOf(g, m - 1)
    BY <2>1, <2>2 DEF ClosePath
  <2> QED
    BY <2>3 DEF g
<1> QED
  BY <1>1, <1>2

(* What is taken and given back was not touched.                           *)
LEMMA UpAndDown ==
  ASSUME NEW f \in [Entries -> Int], NEW e \in Entries, NEW d \in Entries
  PROVE  /\ [[f EXCEPT ![e] = f[e] + 1] EXCEPT ![e] = [f EXCEPT ![e] = f[e] + 1][e] - 1] = f
         /\ LET g == [f EXCEPT ![e] = f[e] + 1]
                k == [g EXCEPT ![d] = g[d] + 1] IN
            [k EXCEPT ![e] = k[e] - 1] = [f EXCEPT ![d] = f[d] + 1]
<1>1. f[e] \in Int /\ f[d] \in Int
  OBVIOUS
<1> DEFINE g == [f EXCEPT ![e] = f[e] + 1]
           k == [g EXCEPT ![d] = g[d] + 1]
<1>2. g \in [Entries -> Int] /\ k \in [Entries -> Int]
  BY <1>1
<1>3. [g EXCEPT ![e] = g[e] - 1] = f
  <2>1. ASSUME NEW x \in Entries
        PROVE  [g EXCEPT ![e] = g[e] - 1][x] = f[x]
    BY <1>1, <1>2
  <2> QED
    BY <1>1, <1>2, <2>1
<1>4. ASSUME NEW x \in Entries
      PROVE  [k EXCEPT ![e] = k[e] - 1][x] = [f EXCEPT ![d] = f[d] + 1][x]
  BY <1>1, <1>2
<1>5. [k EXCEPT ![e] = k[e] - 1] = [f EXCEPT ![d] = f[d] + 1]
  BY <1>1, <1>2, <1>4
<1> QED
  BY <1>3, <1>5

RefRecords == {RefsOf(f, m) : f \in [Entries -> Int], m \in Int}

(* References stay functions into the integers.                            *)
LEMMA PathsTyped ==
  ASSUME NEW r \in RefRecords, NEW e \in Entries
  PROVE  OpenPath(r, e) \in RefRecords /\ ClosePath(r, e) \in RefRecords
<1>1. PICK f \in [Entries -> Int], m \in Int : r = RefsOf(f, m)
  BY DEF RefRecords
<1>2. m + 1 \in Int /\ m - 1 \in Int
  OBVIOUS
<1>3. /\ OpenPath(r, e) = RefsOf([f EXCEPT ![e] = f[e] + 1], m + 1)
      /\ ClosePath(r, e) = RefsOf([f EXCEPT ![e] = f[e] - 1], m - 1)
  BY <1>1, PathSteps
<1>4. /\ [f EXCEPT ![e] = f[e] + 1] \in [Entries -> Int]
      /\ [f EXCEPT ![e] = f[e] - 1] \in [Entries -> Int]
  BY RefSteps
<1>5. \A h \in [Entries -> Int], n \in Int : RefsOf(h, n) \in RefRecords
  BY DEF RefRecords
<1>6. /\ RefsOf([f EXCEPT ![e] = f[e] + 1], m + 1) \in RefRecords
      /\ RefsOf([f EXCEPT ![e] = f[e] - 1], m - 1) \in RefRecords
  BY <1>2, <1>4, <1>5
<1> QED
  BY <1>3, <1>6

(* What is opened and closed again was not touched.                        *)
LEMMA PathOpenedAndClosed ==
  ASSUME NEW r \in RefRecords, NEW e \in Entries
  PROVE  ClosePath(OpenPath(r, e), e) = r
<1>1. PICK f \in [Entries -> Int], m \in Int : r = RefsOf(f, m)
  BY DEF RefRecords
<1> DEFINE g == [f EXCEPT ![e] = f[e] + 1]
<1>2. OpenPath(r, e) = RefsOf(g, m + 1)
  BY <1>1, PathSteps
<1>3. g \in [Entries -> Int] /\ m + 1 \in Int /\ (m + 1) - 1 = m
  BY RefSteps
<1>4. [g EXCEPT ![e] = g[e] - 1] = f
  BY UpAndDown
<1> HIDE DEF g
<1>5. ClosePath(RefsOf(g, m + 1), e) = RefsOf([g EXCEPT ![e] = g[e] - 1], (m + 1) - 1)
  BY <1>3, PathSteps
<1> QED
  BY <1>1, <1>2, <1>3, <1>4, <1>5

(* Of two paths opened, the one not closed stays.                          *)
LEMMA OnePathStays ==
  ASSUME NEW r \in RefRecords, NEW e \in Entries, NEW d \in Entries
  PROVE  ClosePath(OpenPath(OpenPath(r, e), d), e) = OpenPath(r, d)
<1>1. PICK f \in [Entries -> Int], m \in Int : r = RefsOf(f, m)
  BY DEF RefRecords
<1> DEFINE g == [f EXCEPT ![e] = f[e] + 1]
           k == [g EXCEPT ![d] = g[d] + 1]
<1>2. OpenPath(r, e) = RefsOf(g, m + 1)
  BY <1>1, PathSteps
<1>3. OpenPath(r, d) = RefsOf([f EXCEPT ![d] = f[d] + 1], m + 1)
  BY <1>1, PathSteps
<1>4. /\ g \in [Entries -> Int] /\ m + 1 \in Int /\ (m + 1) + 1 \in Int
      /\ ((m + 1) + 1) - 1 = m + 1
  BY RefSteps
<1>5. [k EXCEPT ![e] = k[e] - 1] = [f EXCEPT ![d] = f[d] + 1]
  BY UpAndDown
<1> HIDE DEF g
<1>6. OpenPath(RefsOf(g, m + 1), d) = RefsOf(k, (m + 1) + 1)
  BY <1>4, PathSteps
<1>61. k \in [Entries -> Int]
  BY <1>4, RefSteps
<1> HIDE DEF k
<1>7. ClosePath(RefsOf(k, (m + 1) + 1), e) = RefsOf([k EXCEPT ![e] = k[e] - 1], ((m + 1) + 1) - 1)
  BY <1>4, <1>61, PathSteps
<1> QED
  BY <1>2, <1>3, <1>4, <1>5, <1>6, <1>7

(* The parent of a path is a path of the parent, or nothing.               *)
LEMMA ParentGot ==
  ASSUME NEW r \in RefRecords, NEW e \in Entries
  PROVE  /\ Parent[e] \in Entries
         /\ GetParent(r, e, FALSE) = OpenPath(r, Parent[e])
         /\ GetParent(r, e, TRUE) = r
<1>1. PICK f \in [Entries -> Int], m \in Int : r = RefsOf(f, m)
  BY DEF RefRecords
<1>2. PICK d \in Entries : d = Parent[e]
  BY EntryAssumption
<1> DEFINE g == [f EXCEPT ![d] = f[d] + 1]
           k == [g EXCEPT ![d] = g[d] + 1]
<1>3. g \in [Entries -> Int] /\ dget(r, d) = RefsOf(g, m)
  BY <1>1, RefSteps
<1>4. [g EXCEPT ![d] = g[d] - 1] = f /\ [k EXCEPT ![d] = k[d] - 1] = g
  BY UpAndDown
<1>5. OpenPath(r, d) = RefsOf(g, m + 1)
  BY <1>1, PathSteps
<1> HIDE DEF g
<1>6. dput(RefsOf(g, m), d) = RefsOf([g EXCEPT ![d] = g[d] - 1], m)
  BY <1>3, RefSteps
<1>7. OpenPath(RefsOf(g, m), d) = RefsOf(k, m + 1)
  BY <1>3, PathSteps
<1>71. k \in [Entries -> Int] /\ m + 1 \in Int
  BY <1>3, RefSteps
<1> HIDE DEF k
<1>8. dput(RefsOf(k, m + 1), d) = RefsOf([k EXCEPT ![d] = k[d] - 1], m + 1)
  BY <1>71, RefSteps
<1>9. GetParent(r, e, TRUE) = r
  BY <1>1, <1>2, <1>3, <1>4, <1>6 DEF GetParent
<1>10. GetParent(r, e, FALSE) = OpenPath(r, Parent[e])
  BY <1>2, <1>3, <1>4, <1>5, <1>7, <1>8 DEF GetParent
<1> QED
  BY <1>2, <1>9, <1>10

(* The references there are, as one value.                                 *)
LEMMA RefsTyped ==
  ASSUME FsInv
  PROVE  Refs = RefsOf(entryRefs, mountRefs) /\ Refs \in RefRecords
<1>1. entryRefs \in [Entries -> Int] /\ mountRefs \in Int
  <2>1. entryRefs \in [Entries -> Nat] /\ mountRefs \in Nat
    BY DEF FsInv, FsTypeOK
  <2> QED
    BY <2>1
<1> QED
  BY <1>1 DEF Refs, RefsOf, RefRecords

(* What is written back: nothing, a path more, or a path less.             *)
LEMMA RefsSet ==
  ASSUME FsInv, NEW e \in Entries
  PROVE  /\ SetRefs(Refs) => UNCHANGED <<entryRefs, mountRefs>>
         /\ SetRefs(OpenPath(Refs, e)) =>
              entryRefs' = [entryRefs EXCEPT ![e] = entryRefs[e] + 1] /\ mountRefs' = mountRefs + 1
         /\ SetRefs(ClosePath(Refs, e)) =>
              entryRefs' = [entryRefs EXCEPT ![e] = entryRefs[e] - 1] /\ mountRefs' = mountRefs - 1
<1>1. entryRefs \in [Entries -> Int] /\ mountRefs \in Int
  <2>1. entryRefs \in [Entries -> Nat] /\ mountRefs \in Nat
    BY DEF FsInv, FsTypeOK
  <2> QED
    BY <2>1
<1>2. \A f, m : RefsOf(f, m).entry = f /\ RefsOf(f, m).mount = m
  BY DEF RefsOf
<1>3. /\ OpenPath(Refs, e) = RefsOf([entryRefs EXCEPT ![e] = entryRefs[e] + 1], mountRefs + 1)
      /\ ClosePath(Refs, e) = RefsOf([entryRefs EXCEPT ![e] = entryRefs[e] - 1], mountRefs - 1)
  BY <1>1, RefsTyped, PathSteps
<1>4. Refs = RefsOf(entryRefs, mountRefs)
  BY RefsTyped
<1>5. /\ Refs.entry = entryRefs /\ Refs.mount = mountRefs
      /\ OpenPath(Refs, e).entry = [entryRefs EXCEPT ![e] = entryRefs[e] + 1]
      /\ OpenPath(Refs, e).mount = mountRefs + 1
      /\ ClosePath(Refs, e).entry = [entryRefs EXCEPT ![e] = entryRefs[e] - 1]
      /\ ClosePath(Refs, e).mount = mountRefs - 1
  BY <1>2, <1>3, <1>4
<1> QED
  BY <1>5 DEF SetRefs

(* A place that was free holds nothing.                                    *)
LEMMA FreeHoldsNothing ==
  ASSUME NEW h \in Handles, Free(h), NEW e \in Entries
  PROVE  /\ One(HoldsEntry(handle[h], e)) = 0 /\ One(HoldsMount(handle[h])) = 0
         /\ One(HoldsFile(handle[h])) = 0
BY DEF Free, Nothing, One, HoldsEntry, HoldsMount, HoldsFile

(* A slot without an object is in order.                                   *)
LEMMA NothingTyped == Nothing \in HandleRecords /\ Sane(Nothing)
BY EntryAssumption DEF Nothing, HandleRecords, Kinds, Sane

(* The types of the counts, as integers.                                   *)
LEMMA FsNumbers ==
  ASSUME FsInv
  PROVE  /\ entryRefs \in [Entries -> Int] /\ mountRefs \in Int /\ openFiles \in Int
         /\ handle \in [Handles -> HandleRecords] /\ \A h \in Handles : Sane(handle[h])
<1>1. entryRefs \in [Entries -> Nat] /\ mountRefs \in Nat /\ openFiles \in Nat
  BY DEF FsInv, FsTypeOK
<1>2. entryRefs \in [Entries -> Int] /\ mountRefs \in Int /\ openFiles \in Int
  BY <1>1
<1>3. handle \in [Handles -> HandleRecords] /\ \A h \in Handles : Sane(handle[h])
  BY DEF FsInv, FsTypeOK, HandleRecords
<1> QED
  BY <1>2, <1>3

(* An object that changes without a path taken or given back.              *)
LEMMA FileBecomesStep ==
  ASSUME FsInv, NEW h \in Handles, NEW o \in HandleRecords, Sane(o), Becomes(h, o),
         ~HoldsMount(handle[h]), ~HoldsMount(o),
         openFiles' = openFiles - One(HoldsFile(handle[h])) + One(HoldsFile(o)),
         UNCHANGED <<entryRefs, mountRefs, stubs, failedIterates, crash>>
  PROVE  FsInv'
<1>1. /\ One(HoldsMount(handle[h])) = 0 /\ One(HoldsMount(o)) = 0
      /\ \A e \in Entries : One(HoldsEntry(handle[h], e)) = 0 /\ One(HoldsEntry(o, e)) = 0
  BY DEF One, HoldsEntry
<1>2. /\ entryRefs' \in [Entries -> Int] /\ mountRefs' = mountRefs - 0 + 0
      /\ \A e \in Entries : entryRefs'[e] = entryRefs[e] - 0 + 0
  BY FsNumbers
<1> QED
  BY <1>1, <1>2, BecomesStep

(* An object made in a free place, with a path taken for it.               *)
LEMMA PathTakenStep ==
  ASSUME FsInv, NEW h \in Handles, Free(h), NEW o \in HandleRecords, Sane(o), Becomes(h, o),
         HoldsMount(o), o.filp = "null",
         SetRefs(OpenPath(Refs, o.entry)),
         UNCHANGED <<openFiles, stubs, failedIterates, crash>>
  PROVE  FsInv'
<1>1. o.entry \in Entries
  BY DEF HandleRecords
<1>2. /\ entryRefs' = [entryRefs EXCEPT ![o.entry] = entryRefs[o.entry] + 1]
      /\ mountRefs' = mountRefs + 1
  BY <1>1, RefsSet
<1>3. /\ One(HoldsMount(o)) = 1 /\ One(HoldsFile(o)) = 0
      /\ \A e \in Entries : One(HoldsEntry(o, e)) = IF o.entry = e THEN 1 ELSE 0
  BY DEF One, HoldsEntry, HoldsFile
<1>4. /\ One(HoldsMount(handle[h])) = 0 /\ One(HoldsFile(handle[h])) = 0
      /\ \A e \in Entries : One(HoldsEntry(handle[h], e)) = 0
  BY <1>1, FreeHoldsNothing
<1>5. entryRefs' \in [Entries -> Int]
  BY <1>1, <1>2, FsNumbers
<1>6. \A e \in Entries : entryRefs'[e] = entryRefs[e] - 0 + (IF o.entry = e THEN 1 ELSE 0)
  BY <1>1, <1>2, FsNumbers
<1>7. mountRefs' = mountRefs - 0 + 1 /\ openFiles' = openFiles - 0 + 0
  BY <1>2, FsNumbers
<1> QED
  BY <1>3, <1>4, <1>5, <1>6, <1>7, BecomesStep

(* An object that gives its path back.                                     *)
LEMMA PathGivenBackStep ==
  ASSUME FsInv, NEW h \in Handles, NEW o \in HandleRecords, Sane(o), Becomes(h, o),
         HoldsMount(handle[h]), handle[h].filp = "null", ~HoldsMount(o), o.filp = "null",
         SetRefs(ClosePath(Refs, handle[h].entry)),
         UNCHANGED <<openFiles, stubs, failedIterates, crash>>
  PROVE  FsInv'
<1>1. handle[h].entry \in Entries
  BY FsNumbers DEF HandleRecords
<1>2. /\ entryRefs' = [entryRefs EXCEPT ![handle[h].entry] = entryRefs[handle[h].entry] - 1]
      /\ mountRefs' = mountRefs - 1
  BY <1>1, RefsSet
<1>3. /\ One(HoldsMount(o)) = 0 /\ One(HoldsFile(o)) = 0
      /\ \A e \in Entries : One(HoldsEntry(o, e)) = 0
  BY DEF One, HoldsEntry, HoldsFile
<1>4. /\ One(HoldsMount(handle[h])) = 1 /\ One(HoldsFile(handle[h])) = 0
      /\ \A e \in Entries : One(HoldsEntry(handle[h], e)) = IF handle[h].entry = e THEN 1 ELSE 0
  BY DEF One, HoldsEntry, HoldsFile
<1>5. entryRefs' \in [Entries -> Int]
  BY <1>1, <1>2, FsNumbers
<1>6. \A e \in Entries : entryRefs'[e] = entryRefs[e] - (IF handle[h].entry = e THEN 1 ELSE 0) + 0
  BY <1>1, <1>2, FsNumbers
<1>7. mountRefs' = mountRefs - 1 + 0 /\ openFiles' = openFiles - 0 + 0
  BY <1>2, FsNumbers
<1> QED
  BY <1>3, <1>4, <1>5, <1>6, <1>7, BecomesStep

(* OpenFile holds what it opened, or nothing.                              *)
LEMMA OpenFileStep ==
  ASSUME FsInv, NEW h \in Handles, NEW e \in Entries, OpenFile(h, e)
  PROVE  FsInv'
<1>1. ~HoldsMount(handle[h]) /\ One(HoldsFile(handle[h])) = 0
  BY DEF OpenFile, Free, Nothing, HoldsMount, HoldsFile, One
<1>2. CASE /\ Becomes(h, [Nothing EXCEPT !.kind = "file", !.entry = e, !.filp = "open", !.fili = "open"])
           /\ openFiles' = openFiles + 1
  <2> DEFINE o == [Nothing EXCEPT !.kind = "file", !.entry = e, !.filp = "open", !.fili = "open"]
  <2>1. o \in HandleRecords /\ Sane(o) /\ ~HoldsMount(o) /\ HoldsFile(o)
    BY DEF HandleRecords, Kinds, Nothing, Sane, HoldsMount, HoldsFile
  <2> HIDE DEF o
  <2>2. openFiles' = openFiles - 0 + One(HoldsFile(o))
    BY <1>2, <2>1, FsNumbers DEF One
  <2> QED
    BY <1>1, <1>2, <2>1, <2>2, FileBecomesStep DEF OpenFile, o
<1>3. CASE Becomes(h, [Nothing EXCEPT !.kind = "file", !.entry = e]) /\ UNCHANGED openFiles
  <2> DEFINE o == [Nothing EXCEPT !.kind = "file", !.entry = e]
  <2>1. o \in HandleRecords /\ Sane(o) /\ ~HoldsMount(o) /\ ~HoldsFile(o)
    BY DEF HandleRecords, Kinds, Nothing, Sane, HoldsMount, HoldsFile
  <2> HIDE DEF o
  <2>2. openFiles' = openFiles - 0 + One(HoldsFile(o))
    BY <1>3, <2>1, FsNumbers DEF One
  <2> QED
    BY <1>1, <1>3, <2>1, <2>2, FileBecomesStep DEF OpenFile, o
<1> QED
  BY <1>2, <1>3 DEF OpenFile

(* What a path or a directory is when it is made.                          *)
LEMMA MadeWithPath ==
  ASSUME NEW e \in Entries, NEW kind \in {"path", "directory"}
  PROVE  LET o == [Nothing EXCEPT !.kind = kind, !.entry = e] IN
         o \in HandleRecords /\ Sane(o) /\ HoldsMount(o) /\ o.filp = "null" /\ o.entry = e
BY DEF HandleRecords, Kinds, Nothing, Sane, HoldsMount

(* OpenDirectory keeps its path, or gives it back.                         *)
LEMMA OpenDirectoryStep ==
  ASSUME FsInv, NEW h \in Handles, NEW e \in Entries, OpenDirectory(h, e)
  PROVE  FsInv'
<1>1. CASE Crashes("no path")
  BY <1>1, CrashesStep
<1>2. CASE /\ Becomes(h, Directory(e)) /\ SetRefs(OpenPath(Refs, e))
           /\ UNCHANGED <<openFiles, stubs, failedIterates, crash>>
  <2>1. /\ Directory(e) \in HandleRecords /\ Sane(Directory(e)) /\ HoldsMount(Directory(e))
        /\ Directory(e).filp = "null" /\ Directory(e).entry = e
    BY MadeWithPath DEF Directory
  <2>2. Free(h)
    BY DEF OpenDirectory
  <2> QED
    BY <1>2, <2>1, <2>2, PathTakenStep
<1> QED
  BY <1>1, <1>2 DEF OpenDirectory

(* CreateDirectory opens what it made, or gives everything back.           *)
LEMMA CreateDirectoryStep ==
  ASSUME FsInv, NEW h \in Handles, NEW e \in Entries, CreateDirectory(h, e)
  PROVE  FsInv'
BY OpenDirectoryStep, CrashesStep DEF CreateDirectory

(* GoUp makes a directory of the parent.                                   *)
LEMMA GoUpStep ==
  ASSUME FsInv, NEW h \in Handles, NEW new \in Handles, GoUp(h, new)
  PROVE  FsInv'
<1>1. Parent[handle[h].entry] \in Entries
  BY FsNumbers, EntryAssumption DEF HandleRecords
<1> QED
  BY <1>1, OpenDirectoryStep DEF GoUp

(* The path of a file becomes an object with references of its own.        *)
LEMMA FileGetPathStep ==
  ASSUME FsInv, NEW h \in Handles, NEW new \in Handles, FileGetPath(h, new)
  PROVE  FsInv'
<1>1. handle[h].entry \in Entries
  BY FsNumbers DEF HandleRecords
<1> DEFINE o == [Nothing EXCEPT !.kind = "path", !.entry = handle[h].entry]
<1>2. o \in HandleRecords /\ Sane(o) /\ HoldsMount(o) /\ o.filp = "null" /\ o.entry = handle[h].entry
  BY <1>1, MadeWithPath
<1>3. /\ Free(new) /\ Becomes(new, o) /\ SetRefs(OpenPath(Refs, handle[h].entry))
      /\ UNCHANGED <<openFiles, stubs, failedIterates, crash>>
  BY DEF FileGetPath
<1> HIDE DEF o
<1> QED
  BY <1>2, <1>3, PathTakenStep

(* A path that goes up changes one reference for another.                  *)
LEMMA UpDirStep ==
  ASSUME FsInv, NEW h \in Handles, NEW new \in Handles, UpDir(h, new)
  PROVE  FsInv'
<1> SUFFICES ASSUME ~Crashes("no path") PROVE FsInv'
  BY CrashesStep
<1>1. /\ Free(new) /\ UNCHANGED <<openFiles, stubs, failedIterates, crash>>
      /\ \E noMemory \in BOOLEAN :
           LET r == GetParent(Refs, handle[h].entry, FALSE)
               e == handle[h].entry IN
           /\ SetRefs(ClosePath(IF noMemory THEN r ELSE OpenPath(r, Parent[e]), Parent[e]))
           /\ IF noMemory THEN UNCHANGED handle ELSE Becomes(new, Directory(Parent[e]))
  BY DEF UpDir
<1>2. PICK e \in Entries : e = handle[h].entry
  BY FsNumbers DEF HandleRecords
<1>3. PICK d \in Entries : d = Parent[e]
  BY EntryAssumption
<1>4. GetParent(Refs, e, FALSE) = OpenPath(Refs, d) /\ Refs \in RefRecords
  BY <1>3, ParentGot, RefsTyped
<1>5. /\ ClosePath(OpenPath(Refs, d), d) = Refs
      /\ ClosePath(OpenPath(OpenPath(Refs, d), d), d) = OpenPath(Refs, d)
  BY <1>4, PathOpenedAndClosed, OnePathStays
<1>6. CASE SetRefs(Refs) /\ UNCHANGED handle
  <2>1. UNCHANGED <<handle, entryRefs, mountRefs, openFiles>>
    BY <1>1, <1>2, <1>6, RefsSet
  <2> QED
    BY <1>1, <2>1, NothingHeldStep DEF FsInv, FsTypeOK, FsBalanced
<1>7. CASE SetRefs(OpenPath(Refs, d)) /\ Becomes(new, Directory(d))
  <2>1. /\ Directory(d) \in HandleRecords /\ Sane(Directory(d)) /\ HoldsMount(Directory(d))
        /\ Directory(d).filp = "null" /\ Directory(d).entry = d
    BY MadeWithPath DEF Directory
  <2> QED
    BY <1>1, <1>7, <2>1, PathTakenStep
<1> QED
  BY <1>1, <1>2, <1>3, <1>4, <1>5, <1>6, <1>7

(* A directory deleted is dead, and holds its path no more.                *)
LEMMA DeleteDirectoryStep ==
  ASSUME FsInv, NEW h \in Handles, DeleteDirectory(h)
  PROVE  FsInv'
<1>1. /\ Is(h, "directory") /\ ~handle[h].dead /\ UNCHANGED <<openFiles, stubs, failedIterates, crash>>
      /\ LET e == handle[h].entry
             r == ClosePath(GetParent(Refs, e, FALSE), Parent[e]) IN
         \/ SetRefs(ClosePath(r, e)) /\ Becomes(h, [handle[h] EXCEPT !.dead = TRUE])
         \/ SetRefs(r) /\ UNCHANGED handle
  BY DEF DeleteDirectory
<1>2. PICK e \in Entries : e = handle[h].entry
  BY FsNumbers DEF HandleRecords
<1>3. Refs \in RefRecords /\ ClosePath(GetParent(Refs, e, FALSE), Parent[e]) = Refs
  BY ParentGot, RefsTyped, PathOpenedAndClosed
<1>4. CASE SetRefs(Refs) /\ UNCHANGED handle
  <2>1. UNCHANGED <<handle, entryRefs, mountRefs, openFiles>>
    BY <1>1, <1>2, <1>4, RefsSet
  <2> QED
    BY <1>1, <2>1, NothingHeldStep DEF FsInv, FsTypeOK, FsBalanced
<1>5. CASE SetRefs(ClosePath(Refs, e)) /\ Becomes(h, [handle[h] EXCEPT !.dead = TRUE])
  <2> DEFINE o == [handle[h] EXCEPT !.dead = TRUE]
  <2>1. handle[h] \in HandleRecords /\ Sane(handle[h])
    BY FsNumbers
  <2>2. o \in HandleRecords /\ Sane(o) /\ ~HoldsMount(o) /\ o.filp = "null"
    BY <1>1, <2>1 DEF HandleRecords, Sane, HoldsMount, Is
  <2>3. HoldsMount(handle[h]) /\ handle[h].filp = "null"
    BY <1>1, <2>1 DEF Sane, HoldsMount, Is
  <2>4. Becomes(h, o)
    BY <1>5
  <2> HIDE DEF o
  <2> QED
    BY <1>1, <1>2, <1>5, <2>2, <2>3, <2>4, PathGivenBackStep
<1> QED
  BY <1>1, <1>2, <1>3, <1>4, <1>5

(* A file deleted is closed, once.                                         *)
LEMMA DeleteFileStep ==
  ASSUME FsInv, NEW h \in Handles, DeleteFile(h)
  PROVE  FsInv'
<1>1. CASE Refused
  BY <1>1, RefusedStep
<1>2. CASE ~Refused
  <2>1. /\ Is(h, "file") /\ UNCHANGED <<stubs, failedIterates, crash>>
        /\ \E noMemory \in BOOLEAN :
             LET e == handle[h].entry
                 r == GetParent(OpenPath(Refs, e), e, noMemory)
                 s == IF noMemory THEN r ELSE ClosePath(r, Parent[e]) IN
             /\ SetRefs(ClosePath(s, e))
             /\ IF noMemory THEN UNCHANGED <<handle, openFiles>>
                ELSE /\ Becomes(h, CloseFile(handle[h]))
                     /\ openFiles' = OpenAfter(handle[h])
    BY <1>2 DEF DeleteFile
  <2>2. PICK e \in Entries : e = handle[h].entry
    BY FsNumbers DEF HandleRecords
  <2>3. OpenPath(Refs, e) \in RefRecords /\ ClosePath(OpenPath(Refs, e), e) = Refs
    BY RefsTyped, PathsTyped, PathOpenedAndClosed
  <2>4. /\ GetParent(OpenPath(Refs, e), e, TRUE) = OpenPath(Refs, e)
        /\ ClosePath(GetParent(OpenPath(Refs, e), e, FALSE), Parent[e]) = OpenPath(Refs, e)
    BY <2>3, ParentGot, PathOpenedAndClosed
  <2>5. /\ SetRefs(Refs)
        /\ \/ UNCHANGED <<handle, openFiles>>
           \/ Becomes(h, CloseFile(handle[h])) /\ openFiles' = OpenAfter(handle[h])
    BY <2>1, <2>2, <2>3, <2>4
  <2>6. UNCHANGED <<entryRefs, mountRefs>>
    BY <2>5, RefsSet, EntryAssumption
  <2>7. CASE UNCHANGED <<handle, openFiles>>
    BY <2>1, <2>6, <2>7, NothingHeldStep DEF FsInv, FsTypeOK, FsBalanced
  <2>8. CASE Becomes(h, CloseFile(handle[h])) /\ openFiles' = OpenAfter(handle[h])
    <3> DEFINE o == CloseFile(handle[h])
    <3>1. handle[h] \in HandleRecords /\ Sane(handle[h])
      BY FsNumbers
    <3>2. o \in HandleRecords /\ Sane(o) /\ ~HoldsMount(o) /\ ~HoldsFile(o) /\ ~HoldsMount(handle[h])
      BY <2>1, <3>1 DEF HandleRecords, Sane, HoldsMount, HoldsFile, Is, CloseFile
    <3>3. openFiles' = openFiles - One(HoldsFile(handle[h])) + One(HoldsFile(o))
      BY <2>8, <3>2, FsNumbers DEF One, OpenAfter, HoldsFile
    <3> HIDE DEF o
    <3> QED
      BY <2>1, <2>6, <2>8, <3>2, <3>3, FileBecomesStep DEF o
  <2> QED
    BY <2>5, <2>7, <2>8
<1> QED
  BY <1>1, <1>2

(* An object destroyed gives back whatever it holds.                       *)
LEMMA DestroyHandleStep ==
  ASSUME FsInv, NEW h \in Handles, DestroyHandle(h)
  PROVE  FsInv'
<1>1. /\ Becomes(h, Nothing) /\ UNCHANGED <<stubs, failedIterates, crash>> /\ handle[h] # Nothing
      /\ IF handle[h].kind = "file"
           THEN openFiles' = OpenAfter(handle[h]) /\ UNCHANGED <<entryRefs, mountRefs>>
           ELSE /\ SetRefs(IF handle[h].dead THEN Refs ELSE ClosePath(Refs, handle[h].entry))
                /\ UNCHANGED openFiles
  BY DEF DestroyHandle
<1>2. /\ handle[h] \in HandleRecords /\ Sane(handle[h]) /\ Nothing \in HandleRecords /\ Sane(Nothing)
      /\ ~HoldsMount(Nothing) /\ ~HoldsFile(Nothing) /\ Nothing.filp = "null"
  BY FsNumbers, NothingTyped DEF Nothing, HoldsMount, HoldsFile
<1>3. CASE handle[h].kind = "file"
  <2>1. ~HoldsMount(handle[h])
    BY <1>3 DEF HoldsMount
  <2>2. openFiles' = openFiles - One(HoldsFile(handle[h])) + One(HoldsFile(Nothing))
    BY <1>1, <1>2, <1>3, FsNumbers DEF One, OpenAfter, HoldsFile
  <2> QED
    BY <1>1, <1>2, <1>3, <2>1, <2>2, FileBecomesStep
<1>4. CASE handle[h].kind # "file" /\ handle[h].dead
  <2>1. ~HoldsMount(handle[h]) /\ ~HoldsFile(handle[h])
    BY <1>2, <1>4 DEF HoldsMount, HoldsFile, Sane
  <2>2. UNCHANGED <<entryRefs, mountRefs, openFiles>>
    BY <1>1, <1>4, RefsSet, EntryAssumption
  <2>3. openFiles' = openFiles - One(HoldsFile(handle[h])) + One(HoldsFile(Nothing))
    BY <1>2, <2>1, <2>2, FsNumbers DEF One
  <2> QED
    BY <1>1, <1>2, <2>1, <2>2, <2>3, FileBecomesStep
<1>5. CASE handle[h].kind # "file" /\ ~handle[h].dead
  <2>1. HoldsMount(handle[h]) /\ handle[h].filp = "null"
    BY <1>1, <1>2, <1>5 DEF HoldsMount, Sane, HandleRecords, Kinds
  <2> QED
    BY <1>1, <1>2, <1>5, <2>1, PathGivenBackStep
<1> QED
  BY <1>3, <1>4, <1>5, <1>2 DEF HandleRecords

(* Reading, writing, asking and iterating hold nothing.                    *)
LEMMA OtherCallsStep ==
  ASSUME FsInv, NEW h \in Handles, ReadOrWrite(h) \/ FileStat(h) \/ Iterate(h)
  PROVE  FsInv'
<1>1. CASE Refused
  BY <1>1, RefusedStep
<1>2. CASE \E how \in {"no file", "closed file"} : Crashes(how)
  BY <1>2, CrashesStep
<1>3. CASE /\ stubs' = stubs + 1 /\ failedIterates' = failedIterates + 1
           /\ UNCHANGED <<handle, entryRefs, mountRefs, openFiles, crash>>
  <2>1. stubs \in Nat /\ failedIterates = stubs
    BY DEF FsInv, FsTypeOK, FsBalanced
  <2>2. stubs' \in Nat /\ stubs' = failedIterates'
    BY <1>3, <2>1
  <2> QED
    BY <1>3, <2>2, NothingHeldStep DEF FsInv, FsTypeOK
<1>4. handle[h].fili \in {"null", "open", "closed"}
  BY FsNumbers DEF HandleRecords
<1> QED
  BY <1>1, <1>2, <1>3, <1>4 DEF ReadOrWrite, FileStat, Iterate

(* No file object holds anything at first.                                 *)
LEMMA FsInvInit ==
  ASSUME FsInit
  PROVE  FsInv
<1>1. \A h \in Handles : handle[h] = Nothing /\ ~Holding(h) /\ handle[h].filp # "open"
  BY DEF FsInit, Nothing, Holding, Is
<1>2. /\ {h \in Handles : Holding(h)} = {} /\ {h \in Handles : handle[h].filp = "open"} = {}
      /\ \A e \in Entries : {h \in Handles : Holding(h) /\ handle[h].entry = e} = {}
  BY <1>1
<1>3. Cardinality({}) = 0
  BY FS_EmptySet
<1>4. FsBalanced
  <2>1. \A h \in Handles : ~Is(h, "file")
    BY <1>1 DEF Is, Nothing
  <2> QED
    BY <1>2, <1>3, <2>1 DEF FsInit, FsBalanced
<1>5. FsTypeOK
  BY NothingTyped DEF FsInit, FsTypeOK, HandleRecords
<1> QED
  BY <1>1, <1>4, <1>5, NothingTyped DEF FsInv

(* Every call keeps the invariant of files and directories.                *)
LEMMA FsInvStep ==
  ASSUME FsInv, FsStep \/ UNCHANGED fsVars
  PROVE  FsInv'
<1>1. CASE UNCHANGED fsVars
  BY <1>1, RefusedStep DEF Refused
<1>2. CASE FsStep
  BY <1>2, OpenFileStep, OpenDirectoryStep, CreateDirectoryStep, OtherCallsStep, DeleteFileStep,
     DeleteDirectoryStep, DestroyHandleStep, FileGetPathStep, GoUpStep, UpDirStep DEF FsStep
<1> QED
  BY <1>1, <1>2

-----------------------------------------------------------------------------
(* Processes and threads.                                                  *)

ObjectRecords == [kind: {"none", "process", "thread"}, task: Tasks, dead: BOOLEAN, paths: BOOLEAN]
TaskStates == {"unborn", "running", "zombie", "unlinked", "put", "freed"}

Keeps(o, t) == o.kind # "none" /\ ~o.dead /\ o.task = t
ObjectsOf(t) == {h \in ObjectSlots : seen[h].kind # "none" /\ ~seen[h].dead /\ seen[h].task = t}
WithMm(l) == {t \in Tasks : Leader[t] = l /\ HasMm(t)}
Accessing(l) == {h \in access : Leader[seen[h].task] = l}

UsageCounted(t) ==
  /\ usage[t] = Kept(t) + Cardinality(ObjectsOf(t))
  /\ task[t] # "unborn" => (task[t] = "freed" <=> usage[t] = 0)
  /\ task[t] = "unborn" => usage[t] = 0

MmUsersBalanced(l) == mmUsers[l] = Cardinality(WithMm(l)) + Cardinality(Accessing(l))

ProcTypes ==
  /\ task \in [Tasks -> TaskStates] /\ parent \in [Tasks -> Tasks]
  /\ usage \in [Tasks -> Int] /\ mmUsers \in [Tasks -> Int]
  /\ seen \in [ObjectSlots -> ObjectRecords]
  /\ access \subseteq ObjectSlots /\ panicked \in BOOLEAN
  /\ arrays \in Nat /\ withoutMm \in Nat /\ pinned \in Nat

(* A leader is linked as long as a thread of its group is.                 *)
LeadersLinked ==
  /\ task[InitTask] = "running"
  /\ \A t \in Linked : Leader[t] \in Linked

(* Accesses are of objects that live, and within the bound.                *)
AccessesBounded ==
  /\ \A h \in access : seen[h].kind # "none" /\ ~seen[h].dead
  /\ arrays = withoutMm + Cardinality(access)
  /\ arrays <= Accesses /\ pinned + Cardinality(access) <= Accesses

ProcInv ==
  /\ ProcTypes /\ LeadersLinked /\ AccessesBounded
  /\ \A t \in Tasks : UsageCounted(t) /\ MmUsersBalanced(t)

(* Whatever is counted of processes is a finite set.                       *)
LEMMA SlotsCounted ==
  ASSUME ProcInv, NEW t \in Tasks
  PROVE  /\ Cardinality(ObjectsOf(t)) \in Nat /\ Cardinality(WithMm(t)) \in Nat
         /\ Cardinality(Accessing(t)) \in Nat /\ Cardinality(access) \in Nat
         /\ IsFiniteSet(access) /\ IsFiniteSet(ObjectSlots) /\ IsFiniteSet(Tasks)
<1>1. IsFiniteSet(ObjectSlots) /\ IsFiniteSet(Tasks)
  BY ProcessAssumption
<1>2. access \subseteq ObjectSlots
  BY DEF ProcInv, ProcTypes
<1>3. ObjectsOf(t) \subseteq ObjectSlots /\ WithMm(t) \subseteq Tasks /\ Accessing(t) \subseteq ObjectSlots
  BY <1>2 DEF ObjectsOf, WithMm, Accessing
<1>4. /\ IsFiniteSet(ObjectsOf(t)) /\ IsFiniteSet(WithMm(t))
      /\ IsFiniteSet(Accessing(t)) /\ IsFiniteSet(access)
  BY <1>1, <1>2, <1>3, FS_Subset
<1> QED
  BY <1>1, <1>4, FS_CardinalityType

(* The invariant is the property and the types of a run.                   *)
LEMMA ProcInvSays ==
  ASSUME ProcInv
  PROVE  ProcTypeOK /\ TasksBalanced
<1>1. ASSUME NEW t \in Tasks
      PROVE  /\ usage[t] = Kept(t) + Cardinality(ObjectsOf(t))
             /\ mmUsers[t] = Cardinality(WithMm(t)) + Cardinality(Accessing(t))
             /\ usage[t] \in Nat /\ mmUsers[t] \in Nat
             /\ task[t] # "unborn" => (task[t] = "freed" <=> usage[t] = 0)
  BY SlotsCounted DEF ProcInv, UsageCounted, MmUsersBalanced, Kept
<1>2. usage \in [Tasks -> Nat] /\ mmUsers \in [Tasks -> Nat]
  BY <1>1 DEF ProcInv, ProcTypes
<1>3. arrays \in 0..Accesses /\ withoutMm \in 0..Accesses /\ pinned \in 0..Accesses
  <2>1. Cardinality(access) \in Nat
    BY SlotsCounted, ProcessAssumption
  <2> QED
    BY <2>1, ProcessAssumption DEF ProcInv, ProcTypes, AccessesBounded
<1>4. ProcTypeOK
  BY <1>2, <1>3 DEF ProcInv, ProcTypes, ProcTypeOK, TaskStates, ObjectRecords
<1>5. TasksBalanced
  BY <1>1 DEF TasksBalanced, ObjectsOf, WithMm, Accessing, ProcInv, AccessesBounded
<1> QED
  BY <1>4, <1>5

(* Two objects that swap places change what keeps the tasks of both.       *)
LEMMA ObjectSwapped ==
  ASSUME ProcInv, NEW h \in ObjectSlots, NEW o \in ObjectRecords, seen' = [seen EXCEPT ![h] = o],
         NEW t \in Tasks
  PROVE  /\ Cardinality(ObjectsOf(t)') =
              Cardinality(ObjectsOf(t)) - One(Keeps(seen[h], t)) + One(Keeps(o, t))
         /\ Cardinality(ObjectsOf(t)) \in Nat /\ Cardinality(ObjectsOf(t)') \in Nat
         /\ Keeps(seen[h], t) => Cardinality(ObjectsOf(t)) >= 1
<1>1. seen \in [ObjectSlots -> ObjectRecords]
  BY DEF ProcInv, ProcTypes
<1>2. seen'[h] = o /\ \A g \in ObjectSlots : g # h => seen'[g] = seen[g]
  BY <1>1
<1>3. ObjectsOf(t) \ {h} = ObjectsOf(t)' \ {h}
  BY <1>2 DEF ObjectsOf
<1>4. (h \in ObjectsOf(t) <=> Keeps(seen[h], t)) /\ (h \in ObjectsOf(t)' <=> Keeps(o, t))
  BY <1>2 DEF ObjectsOf, Keeps
<1>5. One(h \in ObjectsOf(t)) = One(Keeps(seen[h], t)) /\ One(h \in ObjectsOf(t)') = One(Keeps(o, t))
  BY <1>4 DEF One
<1>6. ObjectsOf(t) \subseteq ObjectSlots /\ ObjectsOf(t)' \subseteq ObjectSlots /\ IsFiniteSet(ObjectSlots)
  BY ProcessAssumption DEF ObjectsOf
<1>7. /\ Cardinality(ObjectsOf(t)') =
           Cardinality(ObjectsOf(t)) - One(h \in ObjectsOf(t)) + One(h \in ObjectsOf(t)')
      /\ Cardinality(ObjectsOf(t)) \in Nat /\ Cardinality(ObjectsOf(t)') \in Nat
  BY <1>3, <1>6, OneChanged
<1>8. ASSUME Keeps(seen[h], t) PROVE Cardinality(ObjectsOf(t)) >= 1
  <2>1. ObjectsOf(t) # {} /\ IsFiniteSet(ObjectsOf(t))
    BY <1>4, <1>6, <1>8, FS_Subset
  <2>2. Cardinality(ObjectsOf(t)) # 0
    BY <2>1, FS_EmptySet
  <2> QED
    BY <1>7, <2>2
<1> QED
  BY <1>5, <1>7, <1>8

(* Where tasks and accesses stay, the objects of accesses too, every mm is *)
(* held as before.                                                         *)
LEMMA MmUsersKept ==
  ASSUME ProcInv, UNCHANGED <<mmUsers, access>>,
         \A t \in Tasks : HasMm(t)' <=> HasMm(t),
         \A h \in access : seen'[h].task = seen[h].task
  PROVE  \A l \in Tasks : MmUsersBalanced(l)'
<1> SUFFICES ASSUME NEW l \in Tasks PROVE MmUsersBalanced(l)'
  OBVIOUS
<1>1. WithMm(l)' = WithMm(l)
  BY DEF WithMm
<1>2. Accessing(l)' = Accessing(l)
  BY DEF Accessing
<1> QED
  BY <1>1, <1>2 DEF ProcInv, MmUsersBalanced

(* A new object of a task that exists holds it once more.                  *)
LEMMA NewObjectStep ==
  ASSUME ProcInv, NEW h \in ObjectSlots, NEW o \in ObjectRecords, o.kind # "none", ~o.dead,
         task[o.task] \notin {"unborn", "freed"}, NewObject(h, o)
  PROVE  ProcInv'
<1>1. /\ seen[h] = NoObject /\ seen' = [seen EXCEPT ![h] = o]
      /\ usage' = [usage EXCEPT ![o.task] = usage[o.task] + 1]
      /\ UNCHANGED <<task, parent, mmUsers, access, arrays, withoutMm, pinned, panicked>>
      /\ seen[h].kind = "none" /\ o.task \in Tasks
  BY DEF NewObject, NoObject, ObjectRecords
<1>2. ProcTypes /\ LeadersLinked /\ AccessesBounded
  BY DEF ProcInv
<1>3. h \notin access
  BY <1>1, <1>2 DEF AccessesBounded
<1>4. ProcTypes'
  <2>1. usage[o.task] + 1 \in Int
    BY <1>1, <1>2 DEF ProcTypes
  <2> QED
    BY <1>1, <1>2, <2>1 DEF ProcTypes
<1>5. LeadersLinked' /\ AccessesBounded'
  BY <1>1, <1>2, <1>3 DEF LeadersLinked, Linked, AccessesBounded, ProcTypes
<1>6. \A t \in Tasks : MmUsersBalanced(t)'
  <2>1. \A g \in access : seen'[g].task = seen[g].task
    BY <1>1, <1>2, <1>3 DEF ProcTypes
  <2> QED
    BY <1>1, <2>1, MmUsersKept DEF HasMm
<1>7. ASSUME NEW t \in Tasks PROVE UsageCounted(t)'
  <2>1. ~Keeps(seen[h], t) /\ (Keeps(o, t) <=> t = o.task)
    BY <1>1 DEF Keeps
  <2>2. One(Keeps(seen[h], t)) = 0 /\ One(Keeps(o, t)) = IF t = o.task THEN 1 ELSE 0
    BY <2>1 DEF One
  <2>3. /\ Cardinality(ObjectsOf(t)') = Cardinality(ObjectsOf(t)) - 0 + (IF t = o.task THEN 1 ELSE 0)
        /\ Cardinality(ObjectsOf(t)) \in Nat
    BY <1>1, <2>2, ObjectSwapped
  <2>4. usage'[t] = usage[t] + (IF t = o.task THEN 1 ELSE 0) /\ usage[t] \in Int
    BY <1>1, <1>2 DEF ProcTypes
  <2>5. Kept(t)' = Kept(t) /\ Kept(t) \in {0, 1} /\ task'[t] = task[t]
    BY <1>1 DEF Kept
  <2>6. UsageCounted(t)
    BY DEF ProcInv
  <2> QED
    BY <2>3, <2>4, <2>5, <2>6 DEF UsageCounted
<1> QED
  BY <1>4, <1>5, <1>6, <1>7 DEF ProcInv

(* Whoever is found is linked, or was found already.                       *)
LEMMA FoundExist ==
  ASSUME ProcInv
  PROVE  /\ \A found \in LinuxTransverseAll :
              /\ found.task \in Linked
              /\ found.spawner # "null" => found.spawner \in Linked
         /\ \A t \in Tasks : \A found \in LinuxTransverseThreadsInProcess(t) :
              found.task = t \/ found.task \in Linked
<1>1. InitTask \in Linked /\ Linked \subseteq Tasks
  BY ProcessAssumption DEF ProcInv, LeadersLinked, Linked
<1>2. Descendants(InitTask) \subseteq Linked
  <2>1. \A p \in Linked : Children(p) \subseteq Linked
    BY DEF Children
  <2> QED
    BY <1>1, <2>1 DEF Descendants
<1>3. \A p : Children(p) \subseteq Linked
  BY DEF Children
<1>4. \A t, s : Found(t, s).task = t /\ Found(t, s).spawner = s
  BY DEF Found
<1>5. ASSUME NEW root, NEW processes, NEW found \in KernelTransverseThreads(root, processes)
      PROVE  \/ found = Found(root, "null")
             \/ found.task \in Linked /\ found.spawner \in processes
  <2>1. CASE found \in UNION {{Found(t, p) : t \in ((Group(p) \ {p}) \cap Linked) \cup Children(p)} :
                                p \in processes}
    <3>1. PICK p \in processes : \E t \in ((Group(p) \ {p}) \cap Linked) \cup Children(p) : found = Found(t, p)
      BY <2>1
    <3> QED
      BY <1>3, <1>4, <3>1
  <2> QED
    BY <1>5, <2>1 DEF KernelTransverseThreads
<1>6. ASSUME NEW found \in LinuxTransverseAll
      PROVE  found.task \in Linked /\ (found.spawner # "null" => found.spawner \in Linked)
  BY <1>1, <1>2, <1>4, <1>5, <1>6 DEF LinuxTransverseAll
<1>7. ASSUME NEW t \in Tasks, NEW found \in LinuxTransverseThreadsInProcess(t)
      PROVE  found.task = t \/ found.task \in Linked
  BY <1>4, <1>5, <1>7 DEF LinuxTransverseThreadsInProcess
<1> QED
  BY <1>6, <1>7

(* A task that can be found exists.                                        *)
LEMMA LinkedExist ==
  ASSUME NEW t \in Linked
  PROVE  t \in Tasks /\ task[t] \notin {"unborn", "freed"}
BY DEF Linked

(* What an object that lives has is not freed.                             *)
LEMMA HeldExist ==
  ASSUME ProcInv, NEW h \in ObjectSlots, seen[h].kind # "none", ~seen[h].dead
  PROVE  seen[h].task \in Tasks /\ task[seen[h].task] \notin {"unborn", "freed"}
<1>1. PICK t \in Tasks : t = seen[h].task
  BY DEF ProcInv, ProcTypes, ObjectRecords
<1>2. ObjectsOf(t) # {} /\ ObjectsOf(t) \subseteq ObjectSlots
  BY <1>1 DEF ObjectsOf
<1>3. Cardinality(ObjectsOf(t)) \in Nat /\ Cardinality(ObjectsOf(t)) # 0
  BY <1>2, SlotsCounted, FS_Subset, FS_EmptySet
<1>4. UsageCounted(t) /\ Kept(t) \in {0, 1}
  BY DEF ProcInv, Kept
<1>5. usage[t] # 0
  BY <1>3, <1>4 DEF UsageCounted
<1> QED
  BY <1>1, <1>4, <1>5 DEF UsageCounted

(* A new object has its task and lives.                                    *)
LEMMA ObjectMade ==
  ASSUME NEW kind \in {"process", "thread"}, NEW t \in Tasks
  PROVE  /\ Object(kind, t) \in ObjectRecords /\ Object(kind, t).kind # "none"
         /\ ~Object(kind, t).dead /\ Object(kind, t).task = t
BY DEF Object, NoObject, ObjectRecords

(* A new object of a task that exists takes one usage.                     *)
LEMMA ObjectOfTaskStep ==
  ASSUME ProcInv, NEW h \in ObjectSlots, NEW kind \in {"process", "thread"}, NEW t \in Tasks,
         task[t] \notin {"unborn", "freed"}, NewObject(h, Object(kind, t))
  PROVE  ProcInv'
BY NewObjectStep, ObjectMade

(* GetProcess finds a leader, and its usage goes into the object.          *)
LEMMA GetProcessStep ==
  ASSUME ProcInv, NEW h \in ObjectSlots,
         \/ GetProcessById(h) \/ GetProcessParentById(h)
         \/ \E me \in Tasks : GetProcessByCurrent(h, me)
  PROVE  ProcInv'
<1>1. \E t \in Linked : NewObject(h, Object("process", t))
  <2>1. CASE GetProcessById(h) \/ GetProcessParentById(h)
    BY <2>1, FoundExist DEF GetProcessById, GetProcessParentById
  <2>2. CASE \E me \in Tasks : GetProcessByCurrent(h, me)
    <3>1. PICK me \in Tasks : GetProcessByCurrent(h, me)
      BY <2>2
    <3>2. me \in Linked
      BY <3>1 DEF GetProcessByCurrent, Linked
    <3> QED
      BY <3>1, <3>2 DEF GetProcessByCurrent, ProcInv, LeadersLinked
  <2> QED
    BY <2>1, <2>2
<1> QED
  BY <1>1, LinkedExist, ObjectOfTaskStep

(* GetThread takes a usage the same way.                                   *)
LEMMA GetThreadStep ==
  ASSUME ProcInv, NEW h \in ObjectSlots, NEW from \in ObjectSlots,
         GetThreadById(h, from) \/ AsProcess(h, from)
  PROVE  ProcInv'
<1>1. seen[from].kind # "none" /\ ~seen[from].dead
  BY DEF GetThreadById, AsProcess, Lives
<1>2. seen[from].task \in Tasks /\ task[seen[from].task] \notin {"unborn", "freed"}
  BY <1>1, HeldExist
<1>3. CASE AsProcess(h, from)
  BY <1>2, <1>3, ObjectOfTaskStep DEF AsProcess
<1>4. CASE GetThreadById(h, from)
  <2>1. PICK found \in LinuxTransverseThreadsInProcess(seen[from].task) :
          NewObject(h, Object("thread", found.task))
    BY <1>4 DEF GetThreadById
  <2>2. found.task \in Tasks /\ task[found.task] \notin {"unborn", "freed"}
    BY <1>2, FoundExist, LinkedExist
  <2> QED
    BY <2>1, <2>2, ObjectOfTaskStep
<1> QED
  BY <1>3, <1>4

(* What an iteration calls back with is a task held meanwhile.             *)
LEMMA IterateCallbackStep ==
  ASSUME ProcInv, ProcessIterateCallback \/ \E process \in ObjectSlots : ThreadIterateCallback(process)
  PROVE  ProcInv'
<1>1. Buffer \in ObjectSlots /\ InitTask \in Tasks
  BY ProcessAssumption
<1>2. CASE ProcessIterateCallback
  <2>1. PICK found \in LinuxTransverseAll \cup LinuxTransverseThreadsInProcess(InitTask) :
          NewObject(Buffer, Object("process", found.task))
    BY <1>2 DEF ProcessIterateCallback
  <2>2. found.task \in Linked
    <3>1. InitTask \in Linked
      BY <1>1 DEF ProcInv, LeadersLinked, Linked
    <3> QED
      BY <1>1, <3>1, FoundExist
  <2> QED
    BY <1>1, <2>1, <2>2, LinkedExist, ObjectOfTaskStep
<1>3. CASE \E process \in ObjectSlots : ThreadIterateCallback(process)
  <2>1. PICK from \in ObjectSlots : ThreadIterateCallback(from)
    BY <1>3
  <2>2. seen[from].kind # "none" /\ ~seen[from].dead
    BY <2>1 DEF ThreadIterateCallback, Lives
  <2>3. PICK found \in LinuxTransverseThreadsInProcess(seen[from].task) :
          NewObject(Buffer, Object("thread", found.task))
    BY <2>1 DEF ThreadIterateCallback
  <2>4. found.task \in Tasks /\ task[found.task] \notin {"unborn", "freed"}
    BY <2>2, HeldExist, FoundExist, LinkedExist
  <2> QED
    BY <1>1, <2>3, <2>4, ObjectOfTaskStep
<1> QED
  BY <1>2, <1>3

(* An object that lets its task go, dead or gone itself after it.          *)
LEMMA LetsGoStep ==
  ASSUME ProcInv, NEW h \in ObjectSlots, h \notin access, seen[h].kind # "none",
         NEW o \in ObjectRecords, o.dead \/ o.kind = "none",
         DecrementCounter(h), seen' = [seen EXCEPT ![h] = o],
         UNCHANGED <<parent, mmUsers, access, arrays, withoutMm, pinned, panicked>>
  PROVE  ProcInv'
<1>0. \A t \in Tasks :
        /\ Cardinality(ObjectsOf(t)') =
             Cardinality(ObjectsOf(t)) - One(Keeps(seen[h], t)) + One(Keeps(o, t))
        /\ Cardinality(ObjectsOf(t)) \in Nat
        /\ Keeps(seen[h], t) => Cardinality(ObjectsOf(t)) >= 1
  BY ObjectSwapped
<1>1. ProcTypes /\ LeadersLinked /\ AccessesBounded
  BY DEF ProcInv
<1>2. PICK u \in Tasks : u = seen[h].task
  BY <1>1 DEF ProcTypes, ObjectRecords
<1>3. /\ \A g \in access : seen'[g] = seen[g]
      /\ \A t \in Tasks : ~Keeps(o, t) /\ One(Keeps(o, t)) = 0
      /\ seen' \in [ObjectSlots -> ObjectRecords]
  BY <1>1 DEF ProcTypes, Keeps, One
<1>4. AccessesBounded'
  BY <1>1, <1>3 DEF AccessesBounded
<1>5. CASE seen[h].dead
  <2>1. UNCHANGED <<usage, task>>
    BY <1>5 DEF DecrementCounter
  <2>2. ProcTypes' /\ LeadersLinked'
    BY <1>1, <1>3, <2>1 DEF ProcTypes, LeadersLinked, Linked
  <2>3. \A t \in Tasks : MmUsersBalanced(t)'
    BY <1>3, <2>1, MmUsersKept DEF HasMm
  <2>4. ASSUME NEW t \in Tasks PROVE UsageCounted(t)'
    <3>1. One(Keeps(seen[h], t)) = 0
      BY <1>5 DEF One, Keeps
    <3>2. /\ Cardinality(ObjectsOf(t)') = Cardinality(ObjectsOf(t)) - 0 + 0
          /\ Cardinality(ObjectsOf(t)) \in Nat
      BY <1>0, <1>3, <3>1
    <3>3. Kept(t)' = Kept(t) /\ usage'[t] = usage[t] /\ task'[t] = task[t] /\ UsageCounted(t)
      BY <2>1 DEF Kept, ProcInv
    <3> QED
      BY <3>2, <3>3 DEF UsageCounted
  <2> QED
    BY <1>4, <2>2, <2>3, <2>4 DEF ProcInv
<1>6. CASE ~seen[h].dead
  <2>1. /\ usage' = [usage EXCEPT ![u] = usage[u] - 1]
        /\ task' = IF usage[u] = 1 THEN [task EXCEPT ![u] = "freed"] ELSE task
    BY <1>2, <1>6 DEF DecrementCounter
  <2>2. /\ Cardinality(ObjectsOf(u)) \in Nat /\ Cardinality(ObjectsOf(u)) >= 1
        /\ Cardinality(ObjectsOf(u)') = Cardinality(ObjectsOf(u)) - 1
    <3>1. Keeps(seen[h], u) /\ One(Keeps(seen[h], u)) = 1 /\ One(Keeps(o, u)) = 0
      BY <1>2, <1>3, <1>6 DEF Keeps, One
    <3>2. Cardinality(ObjectsOf(u)') = Cardinality(ObjectsOf(u)) - 1 + 0
      BY <1>0, <3>1
    <3>3. Cardinality(ObjectsOf(u)) \in Nat /\ Cardinality(ObjectsOf(u)) >= 1
      BY <1>0, <3>1
    <3> QED
      BY <3>2, <3>3
  <2>3. UsageCounted(u) /\ Kept(u) \in {0, 1} /\ usage[u] \in Int
    BY <1>1 DEF ProcInv, ProcTypes, Kept
  <2>4. usage[u] = 1 => task[u] \in {"put"} /\ Kept(u) = 0
    BY <1>1, <2>2, <2>3 DEF UsageCounted, Kept, ProcTypes, TaskStates
  <2>5. \A t \in Tasks : task'[t] = task[t] \/ (t = u /\ task[t] = "put" /\ task'[t] = "freed")
    BY <1>1, <2>1, <2>4 DEF ProcTypes
  <2>6. ProcTypes'
    <3>1. usage' \in [Tasks -> Int]
      <4>1. usage[u] - 1 \in Int
        BY <2>3
      <4> QED
        BY <1>1, <2>1, <4>1 DEF ProcTypes
    <3>2. task' \in [Tasks -> TaskStates]
      BY <1>1, <2>1 DEF ProcTypes, TaskStates
    <3> QED
      BY <1>1, <1>3, <3>1, <3>2 DEF ProcTypes
  <2>7. LeadersLinked'
    <3>1. Linked' = Linked
      BY <2>5 DEF Linked
    <3> QED
      BY <1>1, <2>5, <3>1, ProcessAssumption DEF LeadersLinked
  <2>8. \A t \in Tasks : MmUsersBalanced(t)'
    <3>1. \A t \in Tasks : HasMm(t)' <=> HasMm(t)
      BY <2>5 DEF HasMm
    <3> QED
      BY <1>3, <3>1, MmUsersKept
  <2>9. ASSUME NEW t \in Tasks, t # u PROVE UsageCounted(t)'
    <3>1. One(Keeps(seen[h], t)) = 0
      BY <1>2, <2>9 DEF One, Keeps
    <3>2. /\ Cardinality(ObjectsOf(t)') = Cardinality(ObjectsOf(t)) - 0 + 0
          /\ Cardinality(ObjectsOf(t)) \in Nat
      BY <1>0, <1>3, <3>1
    <3>3. usage'[t] = usage[t] /\ task'[t] = task[t] /\ UsageCounted(t)
      BY <1>1, <2>1, <2>5, <2>9 DEF ProcTypes, ProcInv
    <3>4. Kept(t)' = Kept(t)
      BY <3>3 DEF Kept
    <3> QED
      BY <3>2, <3>3, <3>4 DEF UsageCounted
  <2>10. UsageCounted(u)'
    <3>1. usage'[u] = usage[u] - 1
      BY <1>1, <2>1 DEF ProcTypes
    <3>2. CASE usage[u] = 1
      <4>1. task'[u] = "freed" /\ Kept(u)' = 0
        BY <1>1, <2>1, <3>2 DEF ProcTypes, Kept
      <4>2. Cardinality(ObjectsOf(u)') = 0
        BY <2>2, <2>3, <2>4, <3>2 DEF UsageCounted
      <4> QED
        BY <3>1, <3>2, <4>1, <4>2 DEF UsageCounted
    <3>3. CASE usage[u] # 1
      <4>1. task'[u] = task[u] /\ Kept(u)' = Kept(u)
        BY <2>1, <3>3 DEF Kept
      <4>2. usage[u] >= 1 /\ usage'[u] # 0
        BY <2>2, <2>3, <3>1, <3>3 DEF UsageCounted
      <4> QED
        BY <2>2, <2>3, <3>1, <4>1, <4>2 DEF UsageCounted
    <3> QED
      BY <3>2, <3>3
  <2> QED
    BY <1>4, <2>6, <2>7, <2>8, <2>9, <2>10 DEF ProcInv
<1> QED
  BY <1>5, <1>6

(* An object that dies gives back its usage.                               *)
LEMMA InvalidateObjectStep ==
  ASSUME ProcInv, NEW h \in ObjectSlots, InvalidateObject(h) \/ DestroyObject(h)
  PROVE  ProcInv'
<1>1. CASE InvalidateObject(h)
  <2> DEFINE o == [seen[h] EXCEPT !.dead = TRUE]
  <2>1. o \in ObjectRecords /\ o.dead
    BY DEF ProcInv, ProcTypes, ObjectRecords
  <2>2. seen' = [seen EXCEPT ![h] = o]
    BY <1>1 DEF InvalidateObject
  <2> HIDE DEF o
  <2> QED
    BY <1>1, <2>1, <2>2, LetsGoStep DEF InvalidateObject
<1>2. CASE DestroyObject(h)
  <2>1. NoObject \in ObjectRecords /\ NoObject.kind = "none"
    BY ProcessAssumption DEF NoObject, ObjectRecords
  <2> QED
    BY <1>2, <2>1, LetsGoStep DEF DestroyObject
<1> QED
  BY <1>1, <1>2

(* Nothing of what an object keeps changes.                                *)
LEMMA ObjectsKept ==
  ASSUME ProcInv, UNCHANGED <<usage, task>>,
         \A h \in ObjectSlots : /\ seen'[h].kind = seen[h].kind /\ seen'[h].dead = seen[h].dead
                                /\ seen'[h].task = seen[h].task
  PROVE  \A t \in Tasks : UsageCounted(t)'
<1> SUFFICES ASSUME NEW t \in Tasks PROVE UsageCounted(t)'
  OBVIOUS
<1>1. ObjectsOf(t)' = ObjectsOf(t)
  BY DEF ObjectsOf
<1> QED
  BY <1>1 DEF ProcInv, UsageCounted, Kept

(* Paths are set up once; nothing is counted.                              *)
LEMMA TryInitPathsStep ==
  ASSUME ProcInv, NEW h \in ObjectSlots, TryInitPaths(h)
  PROVE  ProcInv'
<1>1. /\ UNCHANGED <<task, parent, usage, mmUsers, access, arrays, withoutMm, pinned>>
      /\ panicked' \in BOOLEAN
      /\ seen' = seen \/ seen' = [seen EXCEPT ![h] = [seen[h] EXCEPT !.paths = TRUE]]
  BY DEF TryInitPaths, ProcInv, ProcTypes
<1>2. seen \in [ObjectSlots -> ObjectRecords] /\ access \subseteq ObjectSlots
  BY DEF ProcInv, ProcTypes
<1>3. seen' \in [ObjectSlots -> ObjectRecords]
  BY <1>1, <1>2 DEF ObjectRecords
<1>4. ASSUME NEW g \in ObjectSlots
      PROVE  /\ seen'[g].kind = seen[g].kind /\ seen'[g].dead = seen[g].dead
             /\ seen'[g].task = seen[g].task
  <2>1. seen'[g] = seen[g] \/ seen'[g] = [seen[g] EXCEPT !.paths = TRUE]
    BY <1>1, <1>2
  <2>2. seen[g] \in ObjectRecords
    BY <1>2
  <2> QED
    BY <2>1, <2>2 DEF ObjectRecords
<1>5. ProcTypes' /\ LeadersLinked' /\ AccessesBounded'
  BY <1>1, <1>2, <1>3, <1>4 DEF ProcInv, ProcTypes, LeadersLinked, Linked, AccessesBounded
<1>6. \A t \in Tasks : MmUsersBalanced(t)'
  BY <1>1, <1>2, <1>4, MmUsersKept DEF HasMm
<1>7. \A t \in Tasks : UsageCounted(t)'
  BY <1>1, <1>4, ObjectsKept
<1> QED
  BY <1>5, <1>6, <1>7 DEF ProcInv

(* A set of finite size that gains or loses a member.                      *)
LEMMA OneMore ==
  ASSUME NEW S, IsFiniteSet(S), NEW x, x \notin S
  PROVE  Cardinality(S \cup {x}) = Cardinality(S) + 1
BY FS_AddElement, FS_CardinalityType

(* An element taken out of a finite set makes it smaller by one.           *)
LEMMA OneLess ==
  ASSUME NEW S, IsFiniteSet(S), NEW x \in S
  PROVE  Cardinality(S \ {x}) = Cardinality(S) - 1
BY FS_RemoveElement

(* An access takes the address space, if there is one still.               *)
LEMMA AccessBeginsStep ==
  ASSUME ProcInv, NEW h \in ObjectSlots, AccessBegins(h)
  PROVE  ProcInv'
<1>1. ProcTypes /\ LeadersLinked /\ AccessesBounded
  BY DEF ProcInv
<1>2. /\ seen[h].kind # "none" /\ ~seen[h].dead /\ h \notin access
      /\ arrays + Cardinality(access) + pinned < Accesses
      /\ arrays' = arrays + 1
      /\ UNCHANGED <<task, parent, usage, seen, pinned, panicked>>
  BY DEF AccessBegins, Lives
<1>3. PICK u \in Tasks : u = seen[h].task
  BY <1>1 DEF ProcTypes, ObjectRecords
<1>4. PICK l \in Tasks : l = Leader[u]
  BY ProcessAssumption
<1>5. /\ Cardinality(access) \in Nat /\ IsFiniteSet(access) /\ Accesses \in Nat
      /\ arrays \in Nat /\ pinned \in Nat /\ withoutMm \in Nat
  BY <1>1, SlotsCounted, ProcessAssumption DEF ProcTypes
<1>6. \A t \in Tasks : UsageCounted(t)'
  BY <1>2, ObjectsKept
<1>7. LeadersLinked'
  BY <1>1, <1>2 DEF LeadersLinked, Linked
<1>8. CASE ~HasMm(u)
  <2>1. withoutMm' = withoutMm + 1 /\ UNCHANGED <<mmUsers, access>>
    BY <1>3, <1>8 DEF AccessBegins
  <2>2. AccessesBounded'
    BY <1>1, <1>2, <1>5, <2>1 DEF AccessesBounded
  <2>3. ProcTypes'
    BY <1>1, <1>2, <1>5, <2>1 DEF ProcTypes
  <2>4. \A t \in Tasks : MmUsersBalanced(t)'
    BY <1>2, <2>1, MmUsersKept DEF HasMm
  <2> QED
    BY <1>6, <1>7, <2>2, <2>3, <2>4 DEF ProcInv
<1>9. CASE HasMm(u)
  <2>1. /\ mmUsers' = [mmUsers EXCEPT ![l] = mmUsers[l] + 1]
        /\ access' = access \cup {h} /\ UNCHANGED withoutMm
    BY <1>3, <1>4, <1>9 DEF AccessBegins
  <2>2. Cardinality(access') = Cardinality(access) + 1
    BY <1>2, <1>5, <2>1, OneMore
  <2>3. AccessesBounded'
    <3>1. \A g \in access' : seen'[g].kind # "none" /\ ~seen'[g].dead
      BY <1>1, <1>2, <2>1 DEF AccessesBounded
    <3> QED
      BY <1>1, <1>2, <1>5, <2>1, <2>2, <3>1 DEF AccessesBounded
  <2>4. ProcTypes'
    <3>1. mmUsers[l] + 1 \in Int /\ arrays' \in Nat
      BY <1>1, <1>2 DEF ProcTypes
    <3> QED
      BY <1>1, <1>2, <2>1, <3>1 DEF ProcTypes
  <2>5. ASSUME NEW t \in Tasks PROVE MmUsersBalanced(t)'
    <3>1. WithMm(t)' = WithMm(t)
      BY <1>2 DEF WithMm, HasMm
    <3>2. MmUsersBalanced(t) /\ mmUsers[t] \in Int
      BY <1>1 DEF ProcInv, ProcTypes
    <3>3. /\ Cardinality(WithMm(t)) \in Nat /\ Cardinality(Accessing(t)) \in Nat
          /\ IsFiniteSet(Accessing(t))
      BY <1>5, SlotsCounted, FS_Subset DEF Accessing
    <3>4. CASE t = l
      <4>1. Accessing(t)' = Accessing(t) \cup {h} /\ h \notin Accessing(t)
        BY <1>2, <1>3, <1>4, <2>1, <3>4 DEF Accessing
      <4>2. Cardinality(Accessing(t)') = Cardinality(Accessing(t)) + 1
        BY <3>3, <4>1, OneMore
      <4>3. mmUsers'[t] = mmUsers[t] + 1
        BY <1>1, <2>1, <3>4 DEF ProcTypes
      <4> QED
        BY <3>1, <3>2, <3>3, <4>2, <4>3 DEF MmUsersBalanced
    <3>5. CASE t # l
      <4>1. Accessing(t)' = Accessing(t)
        BY <1>2, <1>3, <1>4, <2>1, <3>5 DEF Accessing
      <4>2. mmUsers'[t] = mmUsers[t]
        BY <1>1, <2>1, <3>5 DEF ProcTypes
      <4> QED
        BY <3>1, <3>2, <4>1, <4>2 DEF MmUsersBalanced
    <3> QED
      BY <3>4, <3>5
  <2> QED
    BY <1>6, <1>7, <2>3, <2>4, <2>5 DEF ProcInv
<1> QED
  BY <1>8, <1>9

(* An access gives back the address space it took.                         *)
LEMMA AccessReturnsStep ==
  ASSUME ProcInv, NEW h \in ObjectSlots, AccessReturns(h)
  PROVE  ProcInv'
<1>1. ProcTypes /\ LeadersLinked /\ AccessesBounded
  BY DEF ProcInv
<1>2. /\ h \in access /\ pinned' \in {pinned, pinned + 1}
      /\ arrays' = arrays - 1 /\ access' = access \ {h}
      /\ UNCHANGED <<task, parent, usage, seen, withoutMm, panicked>>
  BY DEF AccessReturns
<1>3. PICK u \in Tasks : u = seen[h].task
  BY <1>1 DEF ProcTypes, ObjectRecords
<1>4. PICK l \in Tasks : l = Leader[u]
  BY ProcessAssumption
<1>5. mmUsers' = [mmUsers EXCEPT ![l] = mmUsers[l] - 1]
  BY <1>3, <1>4 DEF AccessReturns
<1>6. /\ Cardinality(access) \in Nat /\ IsFiniteSet(access) /\ Accesses \in Nat
      /\ arrays \in Nat /\ pinned \in Nat /\ withoutMm \in Nat
  BY <1>1, SlotsCounted, ProcessAssumption DEF ProcTypes
<1>7. Cardinality(access') = Cardinality(access) - 1 /\ Cardinality(access') \in Nat
  <2>1. Cardinality(access') = Cardinality(access) - 1
    BY <1>2, <1>6, OneLess
  <2>2. IsFiniteSet(access')
    BY <1>2, <1>6, FS_Subset
  <2> QED
    BY <2>1, <2>2, FS_CardinalityType
<1>8. \A t \in Tasks : UsageCounted(t)'
  BY <1>2, ObjectsKept
<1>9. LeadersLinked'
  BY <1>1, <1>2 DEF LeadersLinked, Linked
<1>10. AccessesBounded' /\ arrays' \in Nat /\ pinned' \in Nat
  <2>1. \A g \in access' : seen'[g].kind # "none" /\ ~seen'[g].dead
    BY <1>1, <1>2 DEF AccessesBounded
  <2> QED
    BY <1>1, <1>2, <1>6, <1>7, <2>1 DEF AccessesBounded
<1>11. ProcTypes'
  <2>1. mmUsers[l] - 1 \in Int
    BY <1>1 DEF ProcTypes
  <2> QED
    BY <1>1, <1>2, <1>5, <1>10, <2>1 DEF ProcTypes
<1>12. ASSUME NEW t \in Tasks PROVE MmUsersBalanced(t)'
  <2>1. WithMm(t)' = WithMm(t)
    BY <1>2 DEF WithMm, HasMm
  <2>2. MmUsersBalanced(t) /\ mmUsers[t] \in Int
    BY <1>1 DEF ProcInv, ProcTypes
  <2>3. /\ Cardinality(WithMm(t)) \in Nat /\ Cardinality(Accessing(t)) \in Nat
        /\ IsFiniteSet(Accessing(t))
    BY <1>6, SlotsCounted, FS_Subset DEF Accessing
  <2>4. CASE t = l
    <3>1. Accessing(t)' = Accessing(t) \ {h} /\ h \in Accessing(t)
      BY <1>2, <1>3, <1>4, <2>4 DEF Accessing
    <3>2. Cardinality(Accessing(t)') = Cardinality(Accessing(t)) - 1
      BY <2>3, <3>1, OneLess
    <3>3. mmUsers'[t] = mmUsers[t] - 1
      BY <1>1, <1>5, <2>4 DEF ProcTypes
    <3> QED
      BY <2>1, <2>2, <2>3, <3>2, <3>3 DEF MmUsersBalanced
  <2>5. CASE t # l
    <3>1. Accessing(t)' = Accessing(t)
      BY <1>2, <1>3, <1>4, <2>5 DEF Accessing
    <3>2. mmUsers'[t] = mmUsers[t]
      BY <1>1, <1>5, <2>5 DEF ProcTypes
    <3> QED
      BY <2>1, <2>2, <3>1, <3>2 DEF MmUsersBalanced
  <2> QED
    BY <2>4, <2>5
<1> QED
  BY <1>8, <1>9, <1>10, <1>11, <1>12 DEF ProcInv

-----------------------------------------------------------------------------
(* Tasks fork and exit.                                                    *)

(* The objects and accesses stay, and one task more or less has an mm.     *)
LEMMA MmUsersFollow ==
  ASSUME ProcInv, NEW t \in Tasks, UNCHANGED libraryVars,
         \A u \in Tasks : u # t => (HasMm(u)' <=> HasMm(u)),
         HasMm(t)' # HasMm(t),
         mmUsers' = [mmUsers EXCEPT ![Leader[t]] = IF HasMm(t) THEN @ - 1 ELSE @ + 1]
  PROVE  mmUsers' \in [Tasks -> Int] /\ \A l \in Tasks : MmUsersBalanced(l)'
<1>0. UNCHANGED <<seen, access>>
  BY DEF libraryVars
<1>1. mmUsers \in [Tasks -> Int] /\ Leader[t] \in Tasks
  BY ProcessAssumption DEF ProcInv, ProcTypes
<1>2. ASSUME NEW l \in Tasks PROVE MmUsersBalanced(l)' /\ mmUsers'[l] \in Int
  <2>1. Accessing(l)' = Accessing(l)
    BY <1>0 DEF Accessing
  <2>2. MmUsersBalanced(l) /\ mmUsers[l] \in Int
    BY <1>1 DEF ProcInv
  <2>3. /\ Cardinality(WithMm(l)) \in Nat /\ Cardinality(Accessing(l)) \in Nat
        /\ IsFiniteSet(WithMm(l))
    BY SlotsCounted, FS_Subset DEF WithMm
  <2>4. CASE l # Leader[t]
    <3>1. WithMm(l)' = WithMm(l)
      BY <2>4 DEF WithMm
    <3>2. mmUsers'[l] = mmUsers[l]
      BY <1>1, <2>4
    <3> QED
      BY <2>1, <2>2, <3>1, <3>2 DEF MmUsersBalanced
  <2>5. CASE l = Leader[t] /\ HasMm(t)
    <3>1. WithMm(l)' = WithMm(l) \ {t} /\ t \in WithMm(l)
      BY <2>5 DEF WithMm
    <3>2. mmUsers'[l] = mmUsers[l] - 1
      BY <1>1, <2>5
    <3>3. Cardinality(WithMm(l)') = Cardinality(WithMm(l)) - 1
      BY <2>3, <3>1, OneLess
    <3> QED
      BY <2>1, <2>2, <2>3, <3>2, <3>3 DEF MmUsersBalanced
  <2>6. CASE l = Leader[t] /\ ~HasMm(t)
    <3>0. HasMm(t)'
      BY <2>6 DEF HasMm
    <3>1. WithMm(l)' = WithMm(l) \cup {t} /\ t \notin WithMm(l)
      BY <2>6, <3>0 DEF WithMm
    <3>2. mmUsers'[l] = mmUsers[l] + 1
      BY <1>1, <2>6
    <3>3. Cardinality(WithMm(l)') = Cardinality(WithMm(l)) + 1
      BY <2>3, <3>1, OneMore
    <3> QED
      BY <2>1, <2>2, <2>3, <3>2, <3>3 DEF MmUsersBalanced
  <2> QED
    BY <2>4, <2>5, <2>6
<1>3. mmUsers' \in [Tasks -> Int]
  BY <1>1, <1>2
<1> QED
  BY <1>2, <1>3

(* A task made has one usage of its own and shares its leader's memory.    *)
LEMMA ForkStep ==
  ASSUME ProcInv, NEW t \in Tasks, NEW by \in Tasks, Fork(t, by)
  PROVE  ProcInv'
<1>1. ProcTypes /\ LeadersLinked /\ AccessesBounded
  BY DEF ProcInv
<1>2. /\ task[t] = "unborn" /\ task[by] = "running" /\ (Leader[t] # t => Leader[by] = Leader[t])
      /\ task' = [task EXCEPT ![t] = "running"] /\ parent' = [parent EXCEPT ![t] = by]
      /\ usage' = [usage EXCEPT ![t] = 1]
      /\ mmUsers' = [mmUsers EXCEPT ![Leader[t]] = mmUsers[Leader[t]] + 1]
      /\ UNCHANGED libraryVars
  BY DEF Fork
<1>3. UNCHANGED <<seen, access, arrays, withoutMm, pinned, panicked>>
  BY <1>2 DEF libraryVars
<1>4. /\ task'[t] = "running" /\ \A u \in Tasks : u # t => task'[u] = task[u]
      /\ t # InitTask
  BY <1>1, <1>2 DEF ProcTypes, LeadersLinked
<1>5. mmUsers' \in [Tasks -> Int] /\ \A l \in Tasks : MmUsersBalanced(l)'
  <2>1. \A u \in Tasks : u # t => (HasMm(u)' <=> HasMm(u))
    BY <1>4 DEF HasMm
  <2>2. HasMm(t)' /\ ~HasMm(t)
    BY <1>2, <1>4 DEF HasMm
  <2>3. mmUsers' = [mmUsers EXCEPT ![Leader[t]] = IF HasMm(t) THEN @ - 1 ELSE @ + 1]
    BY <1>2, <2>2
  <2> QED
    BY <1>2, <2>1, <2>2, <2>3, MmUsersFollow
<1>6. ProcTypes'
  BY <1>1, <1>2, <1>3, <1>5 DEF ProcTypes, TaskStates
<1>7. LeadersLinked'
  <2>1. Linked' = Linked \cup {t}
    BY <1>4 DEF Linked
  <2>2. Leader[t] \in Linked'
    <3>1. CASE Leader[t] = t
      BY <2>1, <3>1
    <3>2. CASE Leader[t] # t
      <4>1. by \in Linked
        BY <1>2 DEF Linked
      <4> QED
        BY <1>1, <1>2, <2>1, <3>2, <4>1 DEF LeadersLinked
    <3> QED
      BY <3>1, <3>2
  <2> QED
    BY <1>1, <1>4, <2>1, <2>2, ProcessAssumption DEF LeadersLinked
<1>8. AccessesBounded'
  BY <1>1, <1>3 DEF AccessesBounded
<1>9. ASSUME NEW u \in Tasks PROVE UsageCounted(u)'
  <2>1. ObjectsOf(u)' = ObjectsOf(u) /\ UsageCounted(u) /\ Cardinality(ObjectsOf(u)) \in Nat
    BY <1>3, SlotsCounted DEF ObjectsOf, ProcInv
  <2>2. CASE u # t
    <3>1. usage'[u] = usage[u] /\ task'[u] = task[u]
      BY <1>1, <1>2, <1>4, <2>2 DEF ProcTypes
    <3> QED
      BY <2>1, <3>1 DEF UsageCounted, Kept
  <2>3. CASE u = t
    <3>1. Cardinality(ObjectsOf(u)) = 0
      BY <1>2, <2>1, <2>3 DEF UsageCounted, Kept
    <3>2. usage'[u] = 1 /\ task'[u] = "running" /\ Kept(u)' = 1
      BY <1>1, <1>2, <1>4, <2>3 DEF ProcTypes, Kept
    <3> QED
      BY <2>1, <3>1, <3>2 DEF UsageCounted
  <2> QED
    BY <2>2, <2>3
<1> QED
  BY <1>5, <1>6, <1>7, <1>8, <1>9 DEF ProcInv

(* A task that exits lets go of its address space.                         *)
LEMMA TaskExitsStep ==
  ASSUME ProcInv, NEW t \in Tasks, TaskExits(t)
  PROVE  ProcInv'
<1>1. ProcTypes /\ LeadersLinked /\ AccessesBounded
  BY DEF ProcInv
<1> DEFINE left == {u \in Group(t) \ {t} : u \in Linked}
<1>2. /\ HasMm(t) /\ task[t] = "running" /\ t # InitTask
      /\ parent' = [u \in Tasks |-> IF parent[u] = t THEN NewParent(t) ELSE parent[u]]
      /\ mmUsers' = [mmUsers EXCEPT ![Leader[t]] = mmUsers[Leader[t]] - 1]
      /\ UNCHANGED <<usage, libraryVars>>
  BY DEF TaskExits, HasMm
<1>3. task' = [u \in Tasks |->
                 IF u = t THEN IF Leader[t] = t /\ left # {} THEN "zombie" ELSE "unlinked"
                 ELSE IF u = Leader[t] /\ task[u] = "zombie" /\ left = {u} THEN "unlinked"
                 ELSE task[u]]
  BY DEF TaskExits
<1>4. UNCHANGED <<seen, access, arrays, withoutMm, pinned, panicked>>
  BY <1>2 DEF libraryVars
<1>5. /\ task'[t] = IF Leader[t] = t /\ left # {} THEN "zombie" ELSE "unlinked"
      /\ \A u \in Tasks : u # t =>
           task'[u] = IF u = Leader[t] /\ task[u] = "zombie" /\ left = {u} THEN "unlinked" ELSE task[u]
  BY <1>3
<1>6. left = {u \in Tasks : u # t /\ Leader[u] = Leader[t] /\ u \in Linked}
  BY DEF Group
<1> HIDE DEF left
<1>7. mmUsers' \in [Tasks -> Int] /\ \A l \in Tasks : MmUsersBalanced(l)'
  <2>1. \A u \in Tasks : u # t => (HasMm(u)' <=> HasMm(u))
    BY <1>5 DEF HasMm
  <2>2. ~HasMm(t)'
    BY <1>5 DEF HasMm
  <2>3. mmUsers' = [mmUsers EXCEPT ![Leader[t]] = IF HasMm(t) THEN @ - 1 ELSE @ + 1]
    BY <1>2
  <2> QED
    BY <1>2, <2>1, <2>2, <2>3, MmUsersFollow
<1>8. ProcTypes'
  <2>1. NewParent(t) \in Tasks
    <3>1. CASE {u \in Group(t) \ {t} : task[u] = "running"} = {}
      BY <3>1, ProcessAssumption DEF NewParent
    <3>2. CASE {u \in Group(t) \ {t} : task[u] = "running"} # {}
      <4>1. NewParent(t) \in {u \in Group(t) \ {t} : task[u] = "running"}
        BY <3>2 DEF NewParent
      <4> QED
        BY <4>1 DEF Group
    <3> QED
      BY <3>1, <3>2
  <2>2. parent' \in [Tasks -> Tasks]
    BY <1>1, <1>2, <2>1 DEF ProcTypes
  <2>3. task' \in [Tasks -> TaskStates]
    BY <1>1, <1>3 DEF ProcTypes, TaskStates
  <2> QED
    BY <1>1, <1>2, <1>4, <1>7, <2>2, <2>3 DEF ProcTypes
<1>9. LeadersLinked'
  <2>1. task'[InitTask] = "running"
    BY <1>1, <1>2, <1>5, ProcessAssumption DEF LeadersLinked
  <2>2. ASSUME NEW u \in Linked' PROVE Leader[u] \in Linked'
    <3>1. u \in Tasks /\ task'[u] \in {"running", "zombie"} /\ u \in Linked /\ Leader[u] \in Linked
      BY <1>1, <1>2, <1>5, <2>2 DEF Linked, LeadersLinked
    <3>2. CASE Leader[u] = t
      <4>1. Leader[t] = t
        BY <3>1, <3>2, ProcessAssumption
      <4>2. u = t \/ u \in left
        BY <1>6, <3>1, <3>2, <4>1
      <4>3. task'[t] = "zombie"
        BY <1>5, <3>1, <4>1, <4>2
      <4> QED
        BY <3>2, <4>3 DEF Linked
    <3>3. CASE Leader[u] # t /\ Leader[u] = Leader[t] /\ u # t
      <4>1. u \in left /\ Leader[u] \in Tasks
        BY <1>6, <3>1, <3>3 DEF Linked
      <4>2. CASE left = {Leader[u]}
        <5>1. u = Leader[u]
          BY <4>1, <4>2
        <5> QED
          BY <2>2, <5>1
      <4>3. CASE left # {Leader[u]}
        BY <1>5, <3>1, <3>3, <4>1, <4>3 DEF Linked
      <4> QED
        BY <4>2, <4>3
    <3>4. CASE u = t
      <4>1. task'[t] = "zombie"
        BY <1>5, <3>1, <3>4
      <4> QED
        BY <1>5, <3>4, <4>1, <2>2
    <3>5. CASE Leader[u] # Leader[t] /\ Leader[u] # t
      <4>1. Leader[u] \in Tasks
        BY <3>1 DEF Linked
      <4> QED
        BY <1>5, <3>1, <3>5, <4>1 DEF Linked
    <3> QED
      BY <3>2, <3>3, <3>4, <3>5
  <2> QED
    BY <2>1, <2>2 DEF LeadersLinked
<1>10. AccessesBounded'
  BY <1>1, <1>4 DEF AccessesBounded
<1>11. ASSUME NEW u \in Tasks PROVE UsageCounted(u)'
  <2>1. ObjectsOf(u)' = ObjectsOf(u) /\ UsageCounted(u) /\ Cardinality(ObjectsOf(u)) \in Nat
    BY <1>4, SlotsCounted DEF ObjectsOf, ProcInv
  <2>2. \/ task'[u] = task[u]
        \/ task[u] \in {"running", "zombie"} /\ task'[u] \in {"zombie", "unlinked"}
    BY <1>2, <1>5
  <2>3. Kept(u)' = Kept(u) /\ usage'[u] = usage[u]
    BY <1>2, <2>2 DEF Kept
  <2> QED
    BY <2>1, <2>2, <2>3 DEF UsageCounted
<1> QED
  BY <1>7, <1>8, <1>9, <1>10, <1>11 DEF ProcInv

(* The task itself is freed with its last usage.                           *)
LEMMA GraceEndsStep ==
  ASSUME ProcInv, NEW t \in Tasks, GraceEnds(t)
  PROVE  ProcInv'
<1>1. ProcTypes /\ LeadersLinked /\ AccessesBounded
  BY DEF ProcInv
<1>2. /\ task[t] = "unlinked" /\ usage' = [usage EXCEPT ![t] = usage[t] - 1]
      /\ task' = [task EXCEPT ![t] = IF usage[t] = 1 THEN "freed" ELSE "put"]
      /\ UNCHANGED <<parent, mmUsers, seen, access, arrays, withoutMm, pinned, panicked>>
  BY DEF GraceEnds, libraryVars
<1>3. /\ task'[t] = (IF usage[t] = 1 THEN "freed" ELSE "put") /\ usage'[t] = usage[t] - 1
      /\ \A u \in Tasks : u # t => task'[u] = task[u] /\ usage'[u] = usage[u]
  BY <1>1, <1>2 DEF ProcTypes
<1>4. ProcTypes'
  <2>1. usage[t] - 1 \in Int
    BY <1>1 DEF ProcTypes
  <2> QED
    BY <1>1, <1>2, <2>1 DEF ProcTypes, TaskStates
<1>5. LeadersLinked' /\ AccessesBounded'
  <2>1. Linked' = Linked
    BY <1>2, <1>3 DEF Linked
  <2>2. task'[InitTask] = "running"
    BY <1>1, <1>2, <1>3, ProcessAssumption DEF LeadersLinked
  <2> QED
    BY <1>1, <1>2, <2>1, <2>2 DEF LeadersLinked, AccessesBounded
<1>6. \A l \in Tasks : MmUsersBalanced(l)'
  <2>1. \A u \in Tasks : HasMm(u)' <=> HasMm(u)
    BY <1>2, <1>3 DEF HasMm
  <2> QED
    BY <1>2, <2>1, MmUsersKept
<1>7. ASSUME NEW u \in Tasks PROVE UsageCounted(u)'
  <2>1. ObjectsOf(u)' = ObjectsOf(u) /\ UsageCounted(u) /\ Cardinality(ObjectsOf(u)) \in Nat
    BY <1>2, SlotsCounted DEF ObjectsOf, ProcInv
  <2>2. CASE u # t
    BY <1>3, <2>1, <2>2 DEF UsageCounted, Kept
  <2>3. CASE u = t
    <3>1. Kept(u) = 1 /\ Kept(u)' = 0
      BY <1>2, <1>3, <2>3 DEF Kept
    <3> QED
      BY <1>2, <1>3, <2>1, <2>3, <3>1 DEF UsageCounted
  <2> QED
    BY <2>2, <2>3
<1> QED
  BY <1>4, <1>5, <1>6, <1>7 DEF ProcInv

(* One task is running at first, and no object has it.                     *)
LEMMA ProcInvInit ==
  ASSUME ProcInit
  PROVE  ProcInv
<1>1. IsFiniteSet(Tasks) /\ IsFiniteSet(ObjectSlots) /\ Cardinality({}) = 0
  BY ProcessAssumption, FS_EmptySet
<1>2. ProcTypes
  <2>1. NoObject \in ObjectRecords
    BY ProcessAssumption DEF NoObject, ObjectRecords
  <2>2. task \in [Tasks -> TaskStates] /\ parent \in [Tasks -> Tasks]
    BY ProcessAssumption DEF ProcInit, TaskStates
  <2>3. usage \in [Tasks -> Int] /\ mmUsers \in [Tasks -> Int]
    BY DEF ProcInit
  <2>4. seen \in [ObjectSlots -> ObjectRecords]
    BY <2>1 DEF ProcInit
  <2> QED
    BY <2>2, <2>3, <2>4 DEF ProcInit, ProcTypes
<1>3. LeadersLinked
  BY ProcessAssumption DEF ProcInit, LeadersLinked, Linked
<1>4. AccessesBounded
  BY <1>1, ProcessAssumption DEF ProcInit, AccessesBounded
<1>5. ASSUME NEW t \in Tasks PROVE UsageCounted(t) /\ MmUsersBalanced(t)
  <2>1. \A h \in ObjectSlots : seen[h].kind = "none"
    BY DEF ProcInit, NoObject
  <2>2. ObjectsOf(t) = {} /\ WithMm(t) = {} /\ Accessing(t) = {}
    BY <2>1 DEF ProcInit, ObjectsOf, WithMm, HasMm, Accessing
  <2> QED
    BY <1>1, <2>2 DEF ProcInit, UsageCounted, MmUsersBalanced, Kept
<1> QED
  BY <1>2, <1>3, <1>4, <1>5 DEF ProcInv

(* Every call, and every step of a task, keeps the invariant.              *)
LEMMA ProcInvStep ==
  ASSUME ProcInv, ProcStep \/ UNCHANGED procVars
  PROVE  ProcInv'
<1>1. CASE UNCHANGED procVars
  <2>1. UNCHANGED <<task, parent, usage, mmUsers, seen, access, arrays, withoutMm, pinned, panicked>>
    BY <1>1 DEF procVars
  <2>2. \A t \in Tasks : MmUsersBalanced(t)' /\ UsageCounted(t)'
    BY <2>1, MmUsersKept, ObjectsKept DEF HasMm
  <2> QED
    BY <2>1, <2>2 DEF ProcInv, ProcTypes, LeadersLinked, Linked, AccessesBounded
<1>2. CASE ProcStep
  BY <1>2, ForkStep, TaskExitsStep, GraceEndsStep, GetProcessStep, GetThreadStep, InvalidateObjectStep,
     TryInitPathsStep, AccessBeginsStep, AccessReturnsStep, IterateCallbackStep, ProcessAssumption
     DEF ProcStep, CallbackReturns
<1> QED
  BY <1>1, <1>2

-----------------------------------------------------------------------------
(* Page arrays.                                                            *)

(* The powers of two that orders have.                                     *)
LEMMA Powers ==
  ASSUME NEW n \in 0..30
  PROVE  2^n \in Nat /\ 2^n >= 1
<1> DEFINE P == {
             2^0, 2^1, 2^2, 2^3, 2^4, 2^5, 2^6, 2^7, 2^8, 2^9, 2^10, 2^11, 2^12, 2^13, 2^14, 2^15,
             2^16, 2^17, 2^18, 2^19, 2^20, 2^21, 2^22, 2^23, 2^24, 2^25, 2^26, 2^27, 2^28, 2^29,
             2^30}
           Q == {
             1, 2, 4, 8, 16, 32, 64, 128, 256, 512, 1024, 2048, 4096, 8192, 16384, 32768, 65536,
             131072, 262144, 524288, 1048576, 2097152, 4194304, 8388608, 16777216, 33554432,
             67108864, 134217728, 268435456, 536870912, 1073741824}
<1>1. n \in {0, 1, 2, 3, 4, 5, 6, 7, 8, 9, 10, 11, 12, 13, 14, 15, 16, 17, 18, 19, 20, 21, 22, 23,
            24, 25, 26, 27, 28, 29, 30}
  OBVIOUS
<1>2. 2^n \in P
  BY <1>1, Zenon
<1>3. P = Q
  OBVIOUS
<1>4. \A k \in Q : k \in Nat /\ k >= 1
  OBVIOUS
<1> HIDE DEF P, Q
<1> QED
  BY <1>2, <1>3, <1>4

(* Every set of numbers that is not empty has a least one.                 *)
LEMMA LeastNumber ==
  ASSUME NEW N \in SUBSET Nat, N # {}
  PROVE  \E k \in N : \A j \in N : k <= j
<1>1. PICK k \in N : \A j \in N : ~(<<j, k>> \in OpToRel(<, Nat))
  BY WFMin, NatLessThanWellFounded
<1>2. ASSUME NEW j \in N
      PROVE  k <= j
  <2>1. k \in Nat /\ j \in Nat
    OBVIOUS
  <2>2. ~(j < k)
    BY <1>1, <2>1 DEF OpToRel
  <2> QED
    BY <2>1, <2>2
<1> QED
  BY <1>2

(* A block of the order holds the pages asked for.                         *)
LEMMA OrderHolds ==
  ASSUME NEW count \in Counts
  PROVE  /\ PagesToOrder(count) \in 0..30
         /\ 2^PagesToOrder(count) \in Nat /\ 2^PagesToOrder(count) >= count
         /\ count \in Nat /\ count >= 1 /\ count < LengthLimit
<1>1. count \in Nat /\ count >= 1 /\ count < LengthLimit /\ LengthLimit <= 2^24
  BY PageAssumption
<1>2. CASE count = 1
  <2>1. PagesToOrder(count) = 0
    BY <1>2 DEF PagesToOrder
  <2>2. 2^PagesToOrder(count) = 2^0
    BY <2>1, Zenon
  <2>3. 2^0 = 1
    OBVIOUS
  <2> QED
    BY <1>1, <1>2, <2>1, <2>2, <2>3
<1>3. CASE count # 1
  <2> DEFINE Large == {i \in 0..30 : 2^i > count}
             Chosen(i) == 2^i > count /\ \A j \in 0..(i - 1) : 2^j <= count
  <2>1. 24 \in Large
    <3>1. 2^24 > count
      BY <1>1, PageAssumption
    <3> QED
      BY <3>1
  <2>2. PICK k \in Large : \A j \in Large : k <= j
    <3>1. Large \in SUBSET Nat
      OBVIOUS
    <3> HIDE DEF Large
    <3> QED
      BY <2>1, <3>1, LeastNumber
  <2>3. Chosen(k)
    <3>1. k \in 0..30 /\ 2^k > count
      BY <2>2
    <3>2. ASSUME NEW j \in 0..(k - 1) PROVE 2^j <= count
      <4>1. j \in 0..30 /\ ~(k <= j)
        BY <3>1
      <4>2. j \notin Large
        BY <2>2, <4>1
      <4>3. ~(2^j > count) /\ 2^j \in Nat
        BY <4>1, <4>2, Powers
      <4> QED
        BY <1>1, <4>3
    <3> QED
      BY <3>1, <3>2
  <2>4. PagesToOrder(count) = CHOOSE i \in 0..30 : Chosen(i)
    BY <1>3 DEF PagesToOrder
  <2>5. k \in 0..30
    BY <2>2
  <2> HIDE DEF Chosen
  <2>6. PagesToOrder(count) \in 0..30 /\ Chosen(PagesToOrder(count))
    BY <2>3, <2>4, <2>5
  <2>7. 2^PagesToOrder(count) > count
    BY <2>6 DEF Chosen
  <2>8. 2^PagesToOrder(count) \in Nat
    BY <2>6, Powers
  <2> QED
    BY <1>1, <2>6, <2>7, <2>8
<1> QED
  BY <1>2, <1>3

ArrayRecords == [state: {"none", "filling", "unwinding", "live"}, cnt: Counts \cup {0},
                 contig: BOOLEAN, byPfn: BOOLEAN, elems: Seq(0..(Frames - 1))]

Different(e) == \A i, j \in 1..Len(e) : e[i] = e[j] => i = j

InRow(e) == \A i \in 1..Len(e) : e[i] = e[1] + (i - 1)

AllFirst(e) == \A i \in 1..Len(e) : e[i] = e[1]

(* An array is filled page by page, or is one block from the start.        *)
Built(r) ==
  /\ r.state = "none" => r = NoArray
  /\ r.state = "live" => Len(r.elems) = r.cnt /\ r.cnt \in Counts
  /\ r.contig => r.state = "live" /\ IF r.byPfn THEN AllFirst(r.elems) ELSE InRow(r.elems)
  /\ ~r.contig => Different(r.elems)
  /\ r.state = "filling" => r.cnt \in Counts

RecBlocks(r) ==
  IF r.contig THEN {<<r.elems[1], PagesToOrder(r.cnt)>>}
  ELSE {<<r.elems[i], 0>> : i \in 1..Len(r.elems)}

PageInv ==
  /\ array \in [Arrays -> ArrayRecords] /\ \A a \in Arrays : Built(array[a])
  /\ wrongFree = FALSE
  /\ \A b \in blocks : PagesOf(b) \subseteq 0..(Frames - 1)
  /\ \A b : b \in blocks <=> \E a \in Arrays : b \in RecBlocks(array[a])
  /\ \A a, c \in Arrays : a # c => RecBlocks(array[a]) \cap RecBlocks(array[c]) = {}

(* An array that changes gives blocks back and takes new ones.             *)
LEMMA ArrayStep ==
  ASSUME PageInv, NEW a \in Arrays, NEW r \in ArrayRecords, Built(r),
         array' = [array EXCEPT ![a] = r],
         blocks' = (blocks \ RecBlocks(array[a])) \cup RecBlocks(r),
         \A b \in RecBlocks(r) : /\ b \in RecBlocks(array[a]) \/ b \notin blocks
                                 /\ PagesOf(b) \subseteq 0..(Frames - 1),
         UNCHANGED wrongFree
  PROVE  PageInv'
<1>1. array \in [Arrays -> ArrayRecords] /\ array'[a] = r
      /\ \A c \in Arrays : c # a => array'[c] = array[c]
  BY DEF PageInv
<1>2. array' \in [Arrays -> ArrayRecords] /\ \A c \in Arrays : Built(array'[c])
  BY <1>1 DEF PageInv
<1>3. \A b \in blocks' : PagesOf(b) \subseteq 0..(Frames - 1)
  BY DEF PageInv
<1>4. \A c \in Arrays : c # a => RecBlocks(array[c]) \cap RecBlocks(r) = {}
  BY DEF PageInv
<1>5. ASSUME NEW b
      PROVE  b \in blocks' <=> \E c \in Arrays : b \in RecBlocks(array'[c])
  <2>1. ASSUME b \in blocks' PROVE \E c \in Arrays : b \in RecBlocks(array'[c])
    <3>1. CASE b \in RecBlocks(r)
      BY <1>1, <3>1
    <3>2. CASE b \notin RecBlocks(r)
      <4>1. PICK c \in Arrays : b \in RecBlocks(array[c])
        BY <2>1, <3>2 DEF PageInv
      <4>2. c # a
        BY <2>1, <3>2, <4>1
      <4> QED
        BY <1>1, <4>1, <4>2
    <3> QED
      BY <3>1, <3>2
  <2>2. ASSUME NEW c \in Arrays, b \in RecBlocks(array'[c]) PROVE b \in blocks'
    <3>1. CASE c = a
      BY <1>1, <2>2, <3>1
    <3>2. CASE c # a
      <4>1. b \in RecBlocks(array[c])
        BY <1>1, <2>2, <3>2
      <4>2. b \in blocks /\ b \notin RecBlocks(array[a])
        BY <3>2, <4>1 DEF PageInv
      <4> QED
        BY <4>2
    <3> QED
      BY <3>1, <3>2
  <2> QED
    BY <2>1, <2>2
<1>6. ASSUME NEW c \in Arrays, NEW d \in Arrays, c # d
      PROVE  RecBlocks(array'[c]) \cap RecBlocks(array'[d]) = {}
  <2>1. CASE c = a
    BY <1>1, <1>4, <1>6, <2>1
  <2>2. CASE d = a
    BY <1>1, <1>4, <1>6, <2>2
  <2>3. CASE c # a /\ d # a
    BY <1>1, <1>6, <2>3 DEF PageInv
  <2> QED
    BY <2>1, <2>2, <2>3
<1>7. wrongFree' = FALSE
  BY DEF PageInv
<1> QED
  BY <1>2, <1>3, <1>5, <1>6, <1>7 DEF PageInv

(* What the kernel hands out was not out.                                  *)
LEMMA AllocatedIsNew ==
  ASSUME NEW order \in 0..30, NEW b \in alloc_pages(order)
  PROVE  /\ b = <<b[1], order>> /\ b[1] \in 0..(Frames - 1)
         /\ PagesOf(b) \subseteq 0..(Frames - 1) /\ b \notin blocks
         /\ b[1] + (2^order - 1) <= Frames - 1
<1>1. PICK f \in 0..(Frames - 1) : b = <<f, order>>
  BY DEF alloc_pages
<1>2. PagesOf(b) \subseteq 0..(Frames - 1) /\ PagesOf(b) \cap Used = {}
  BY DEF alloc_pages
<1>3. b[1] = f /\ b[2] = order
  BY <1>1
<1>4. 2^order \in Nat /\ 2^order >= 1 /\ Frames \in Nat
  BY Powers, PageAssumption
<1>5. PagesOf(b) = f..(f + 2^order - 1)
  BY <1>3 DEF PagesOf
<1>6. f \in PagesOf(b) /\ f + (2^order - 1) \in PagesOf(b)
  BY <1>4, <1>5
<1>7. b \notin blocks
  <2>1. b \in blocks => f \in Used
    BY <1>6 DEF Used
  <2> QED
    BY <1>2, <1>6, <2>1
<1> QED
  BY <1>1, <1>2, <1>3, <1>4, <1>6, <1>7

(* A slot without an array is in order.                                    *)
LEMMA NoArrayBuilt ==
  /\ NoArray \in ArrayRecords /\ Built(NoArray) /\ RecBlocks(NoArray) = {}
<1>1. << >> \in Seq(0..(Frames - 1)) /\ Len(<< >>) = 0
  OBVIOUS
<1> QED
  BY <1>1 DEF NoArray, ArrayRecords, Built, RecBlocks, Different

(* A function on 1..n is a sequence of that length.                        *)
LEMMA FunctionIsSequence ==
  ASSUME NEW S, NEW n \in Nat, NEW e \in [1..n -> S]
  PROVE  e \in Seq(S) /\ Len(e) = n
OBVIOUS

(* Pages in a row are allocated at once, or not at all.                    *)
LEMMA AllocateContigArrayStep ==
  ASSUME PageInv, NEW a \in Arrays, NEW cnt \in Counts, NEW byPfn \in BOOLEAN,
         AllocateContigArray(a, cnt, byPfn)
  PROVE  PageInv'
<1> DEFINE order == PagesToOrder(cnt)
<1>1. /\ order \in 0..30 /\ 2^order \in Nat /\ 2^order >= cnt
      /\ cnt \in Nat /\ cnt >= 1
  BY OrderHolds
<1>2. array[a] = NoArray /\ UNCHANGED wrongFree
  BY DEF AllocateContigArray
<1>3. PICK b \in alloc_pages(order) :
        /\ blocks' = blocks \cup {b}
        /\ array' = [array EXCEPT ![a] =
             [state |-> "live", cnt |-> cnt, contig |-> TRUE, byPfn |-> byPfn,
              elems |-> [i \in 1..cnt |-> IF byPfn THEN b[1] ELSE b[1] + i - 1]]]
  BY DEF AllocateContigArray
<1> HIDE DEF order
<1>4. /\ b = <<b[1], order>> /\ b[1] \in 0..(Frames - 1)
      /\ PagesOf(b) \subseteq 0..(Frames - 1) /\ b \notin blocks
      /\ b[1] + (2^order - 1) <= Frames - 1
  BY <1>1, AllocatedIsNew
<1> DEFINE e == [i \in 1..cnt |-> IF byPfn THEN b[1] ELSE b[1] + i - 1]
           r == [state |-> "live", cnt |-> cnt, contig |-> TRUE, byPfn |-> byPfn, elems |-> e]
<1>5. /\ e \in Seq(0..(Frames - 1)) /\ Len(e) = cnt /\ e[1] = b[1]
      /\ IF byPfn THEN AllFirst(e) ELSE InRow(e)
  <2>1. \A i \in 1..cnt : e[i] = IF byPfn THEN b[1] ELSE b[1] + (i - 1)
    BY <1>1, <1>4
  <2>2. ASSUME NEW i \in 1..cnt PROVE e[i] \in 0..(Frames - 1)
    BY <1>1, <1>4, <2>1, PageAssumption
  <2>3. e \in Seq(0..(Frames - 1)) /\ Len(e) = cnt
    <3>1. DOMAIN e = 1..cnt /\ e = [i \in 1..cnt |-> e[i]]
      OBVIOUS
    <3> HIDE DEF e
    <3>2. e \in [1..cnt -> 0..(Frames - 1)]
      BY <2>2, <3>1
    <3> QED
      BY <1>1, <3>2, FunctionIsSequence
  <2>4. e[1] = b[1]
    BY <1>1, <1>4, <2>1
  <2> HIDE DEF e
  <2> QED
    BY <1>1, <1>4, <2>1, <2>3, <2>4 DEF AllFirst, InRow
<1> HIDE DEF e
<1>6. r \in ArrayRecords /\ Built(r) /\ RecBlocks(r) = {<<b[1], PagesToOrder(cnt)>>}
  BY <1>5 DEF ArrayRecords, Built, RecBlocks
<1>7. RecBlocks(r) = {b}
  BY <1>4, <1>6 DEF order
<1>8. RecBlocks(array[a]) = {}
  BY <1>2, NoArrayBuilt
<1>9. array' = [array EXCEPT ![a] = r]
  BY <1>3 DEF e
<1> HIDE DEF r
<1>10. blocks' = (blocks \ RecBlocks(array[a])) \cup RecBlocks(r)
  BY <1>3, <1>7, <1>8
<1> QED
  BY <1>2, <1>4, <1>6, <1>7, <1>9, <1>10, ArrayStep

(* An array page by page begins empty.                                     *)
LEMMA AllocateBeginsStep ==
  ASSUME PageInv, NEW a \in Arrays, NEW cnt \in Counts, NEW byPfn \in BOOLEAN,
         AllocateBegins(a, cnt, byPfn)
  PROVE  PageInv'
<1> DEFINE r == [NoArray EXCEPT !.state = "filling", !.cnt = cnt, !.byPfn = byPfn]
<1>1. /\ array[a] = NoArray /\ UNCHANGED <<blocks, wrongFree>>
      /\ array' = [array EXCEPT ![a] = r]
  BY DEF AllocateBegins
<1>2. /\ r.state = "filling" /\ r.cnt = cnt /\ ~r.contig /\ r.elems = << >>
      /\ r \in ArrayRecords
  BY NoArrayBuilt DEF NoArray, ArrayRecords
<1> HIDE DEF r
<1>3. Len(<< >>) = 0
  OBVIOUS
<1>4. Built(r) /\ RecBlocks(r) = {}
  BY <1>2, <1>3 DEF Built, RecBlocks, Different
<1>5. blocks' = (blocks \ RecBlocks(array[a])) \cup RecBlocks(r)
  BY <1>1, <1>4, NoArrayBuilt
<1> QED
  BY <1>1, <1>2, <1>4, <1>5, ArrayStep

(* A change of the state alone.                                            *)
LEMMA StateStep ==
  ASSUME PageInv, NEW a \in Arrays, NEW s \in {"unwinding", "live"},
         array[a].state = "filling", s = "live" => Len(array[a].elems) = array[a].cnt,
         array' = [array EXCEPT ![a] = [array[a] EXCEPT !.state = s]],
         UNCHANGED <<blocks, wrongFree>>
  PROVE  PageInv'
<1> DEFINE r == [array[a] EXCEPT !.state = s]
<1>1. array[a] \in ArrayRecords /\ Built(array[a])
  BY DEF PageInv
<1>2. /\ r \in ArrayRecords /\ r.state = s /\ r.cnt = array[a].cnt /\ r.contig = array[a].contig
      /\ r.elems = array[a].elems /\ r.byPfn = array[a].byPfn
  BY <1>1 DEF ArrayRecords
<1>3. array' = [array EXCEPT ![a] = r]
  OBVIOUS
<1> HIDE DEF r
<1>4. ~array[a].contig /\ array[a].cnt \in Counts /\ Different(array[a].elems)
  BY <1>1 DEF Built
<1>5. Built(r)
  BY <1>2, <1>4 DEF Built
<1>6. RecBlocks(r) = RecBlocks(array[a])
  BY <1>2, <1>4 DEF RecBlocks
<1>7. \A b \in RecBlocks(array[a]) : b \in blocks
  BY DEF PageInv
<1>8. blocks' = (blocks \ RecBlocks(array[a])) \cup RecBlocks(r)
  BY <1>6, <1>7
<1>9. \A b \in RecBlocks(r) : b \in RecBlocks(array[a]) /\ PagesOf(b) \subseteq 0..(Frames - 1)
  BY <1>6, <1>7 DEF PageInv
<1> QED
  BY <1>2, <1>3, <1>5, <1>8, <1>9, ArrayStep

(* Each page allocated is one no array has.                                *)
LEMMA AllocatePageStep ==
  ASSUME PageInv, NEW a \in Arrays, AllocatePage(a)
  PROVE  PageInv'
<1>1. CASE array' = [array EXCEPT ![a].state = "unwinding"] /\ UNCHANGED blocks
  BY <1>1, StateStep DEF AllocatePage
<1>2. CASE \E b \in alloc_pages(0) :
             /\ blocks' = blocks \cup {b}
             /\ array' = [array EXCEPT ![a].elems = Append(@, b[1])]
  <2>1. PICK b \in alloc_pages(0) :
          /\ blocks' = blocks \cup {b}
          /\ array' = [array EXCEPT ![a] = [array[a] EXCEPT !.elems = Append(array[a].elems, b[1])]]
    BY <1>2
  <2>2. /\ b = <<b[1], 0>> /\ b[1] \in 0..(Frames - 1)
        /\ PagesOf(b) \subseteq 0..(Frames - 1) /\ b \notin blocks
    BY AllocatedIsNew
  <2>3. array[a] \in ArrayRecords /\ Built(array[a]) /\ array[a].state = "filling" /\ UNCHANGED wrongFree
    BY DEF PageInv, AllocatePage
  <2>4. /\ ~array[a].contig /\ array[a].cnt \in Counts /\ Different(array[a].elems)
        /\ array[a].elems \in Seq(0..(Frames - 1))
    BY <2>3 DEF Built, ArrayRecords
  <2> DEFINE old == array[a].elems
             e == Append(old, b[1])
             r == [array[a] EXCEPT !.elems = e]
  <2>5. /\ e \in Seq(0..(Frames - 1)) /\ Len(e) = Len(old) + 1 /\ Len(old) \in Nat
        /\ e[Len(e)] = b[1] /\ \A i \in 1..Len(old) : e[i] = old[i]
    BY <2>2, <2>4
  <2>6. array' = [array EXCEPT ![a] = r]
    BY <2>1
  <2> HIDE DEF e
  <2>7. /\ r \in ArrayRecords /\ r.state = "filling" /\ r.cnt = array[a].cnt /\ ~r.contig /\ r.elems = e
    BY <2>3, <2>4, <2>5 DEF ArrayRecords
  <2> HIDE DEF r
  <2>8. \A i \in 1..Len(old) : old[i] # b[1]
    <3> SUFFICES ASSUME NEW i \in 1..Len(old), old[i] = b[1] PROVE FALSE
      OBVIOUS
    <3>1. <<old[i], 0>> \in RecBlocks(array[a])
      BY <2>4 DEF RecBlocks
    <3> QED
      BY <2>2, <3>1 DEF PageInv
  <2>9. Different(e)
    <3>0. 1..Len(e) = 1..Len(old) \cup {Len(e)}
      BY <2>5
    <3> SUFFICES ASSUME NEW i \in 1..Len(e), NEW j \in 1..Len(e), e[i] = e[j] PROVE i = j
      BY DEF Different
    <3>1. CASE i \in 1..Len(old) /\ j \in 1..Len(old)
      BY <2>4, <2>5, <3>1 DEF Different
    <3>2. CASE i = Len(e) \/ j = Len(e)
      BY <2>5, <2>8, <3>0, <3>2
    <3> QED
      BY <3>0, <3>1, <3>2
  <2>10. Built(r)
    BY <2>4, <2>7, <2>9 DEF Built
  <2>11. RecBlocks(array[a]) = {<<old[i], 0>> : i \in 1..Len(old)}
    BY <2>4 DEF RecBlocks
  <2>12. RecBlocks(r) = {<<e[i], 0>> : i \in 1..Len(e)}
    BY <2>7 DEF RecBlocks
  <2>13. RecBlocks(r) = RecBlocks(array[a]) \cup {b}
    <3>0. 1..Len(e) = 1..Len(old) \cup {Len(e)}
      BY <2>5
    <3>1. ASSUME NEW c \in RecBlocks(r) PROVE c \in RecBlocks(array[a]) \cup {b}
      <4>1. PICK i \in 1..Len(e) : c = <<e[i], 0>>
        BY <2>12
      <4> QED
        BY <2>2, <2>5, <2>11, <3>0, <4>1
    <3>2. ASSUME NEW c \in RecBlocks(array[a]) PROVE c \in RecBlocks(r)
      <4>1. PICK i \in 1..Len(old) : c = <<old[i], 0>>
        BY <2>11
      <4> QED
        BY <2>5, <2>12, <3>0, <4>1
    <3>3. b \in RecBlocks(r)
      BY <2>2, <2>5, <2>12, <3>0
    <3> QED
      BY <3>1, <3>2, <3>3
  <2>14. \A c \in RecBlocks(array[a]) : c \in blocks
    BY DEF PageInv
  <2>15. blocks' = (blocks \ RecBlocks(array[a])) \cup RecBlocks(r)
    BY <2>1, <2>13, <2>14
  <2>16. \A c \in RecBlocks(r) : /\ c \in RecBlocks(array[a]) \/ c \notin blocks
                                 /\ PagesOf(c) \subseteq 0..(Frames - 1)
    BY <2>2, <2>13, <2>14 DEF PageInv
  <2> QED
    BY <2>3, <2>6, <2>7, <2>10, <2>15, <2>16, ArrayStep
<1> QED
  BY <1>1, <1>2 DEF AllocatePage

(* The array is handed out when it is full.                                *)
LEMMA AllocateReturnsStep ==
  ASSUME PageInv, NEW a \in Arrays, AllocateReturns(a)
  PROVE  PageInv'
BY StateStep DEF AllocateReturns

(* The blocks of an array are out, and none of them is given back twice.   *)
LEMMA ArrayGone ==
  ASSUME PageInv, NEW a \in Arrays, array' = [array EXCEPT ![a] = NoArray],
         blocks' = blocks \ RecBlocks(array[a]), UNCHANGED wrongFree
  PROVE  PageInv'
<1>1. /\ NoArray \in ArrayRecords /\ Built(NoArray) /\ RecBlocks(NoArray) = {}
      /\ blocks' = (blocks \ RecBlocks(array[a])) \cup RecBlocks(NoArray)
      /\ \A b \in RecBlocks(NoArray) : /\ b \in RecBlocks(array[a]) \/ b \notin blocks
                                       /\ PagesOf(b) \subseteq 0..(Frames - 1)
  BY NoArrayBuilt
<1> QED
  BY <1>1, ArrayStep

(* What was allocated before a failure is given back.                      *)
LEMMA UnwindStep ==
  ASSUME PageInv, NEW a \in Arrays, Unwind(a)
  PROVE  PageInv'
<1>1. /\ array[a] \in ArrayRecords /\ Built(array[a]) /\ array[a].state = "unwinding"
      /\ ~array[a].contig /\ Different(array[a].elems) /\ array[a].elems \in Seq(0..(Frames - 1))
  BY DEF PageInv, Unwind, Built, ArrayRecords
<1>2. RecBlocks(array[a]) = {<<array[a].elems[i], 0>> : i \in 1..Len(array[a].elems)}
  BY <1>1 DEF RecBlocks
<1>3. CASE array[a].elems = << >>
  <2>1. RecBlocks(array[a]) = {}
    BY <1>2, <1>3
  <2> QED
    BY <1>3, <2>1, ArrayGone DEF Unwind
<1>4. CASE array[a].elems # << >>
  <2> DEFINE old == array[a].elems
             b == <<Head(old), 0>>
             e == Tail(old)
             r == [array[a] EXCEPT !.elems = e]
  <2>1. /\ e \in Seq(0..(Frames - 1)) /\ Len(old) = Len(e) + 1 /\ Len(e) \in Nat
        /\ Head(old) = old[1] /\ \A i \in 1..Len(e) : e[i] = old[i + 1]
    <3>1. old \in Seq(0..(Frames - 1)) /\ old # << >>
      BY <1>1, <1>4
    <3> HIDE DEF old
    <3>2. e \in Seq(0..(Frames - 1)) /\ Len(old) = Len(e) + 1 /\ Len(e) \in Nat
      BY <3>1
    <3>3. Head(old) = old[1]
      BY <3>1
    <3>4. \A i \in 1..Len(e) : e[i] = old[i + 1]
      BY <3>1
    <3> QED
      BY <3>2, <3>3, <3>4
  <2>2. /\ array' = [array EXCEPT ![a] = r]
        /\ blocks' = blocks \ {b} /\ wrongFree' = (wrongFree \/ b \notin blocks)
    BY <1>4 DEF Unwind, free_pages
  <2>3. b \in RecBlocks(array[a])
    BY <1>2, <2>1
  <2>4. b \in blocks /\ UNCHANGED wrongFree
    BY <2>2, <2>3 DEF PageInv
  <2>5. r \in ArrayRecords /\ r.state = "unwinding" /\ ~r.contig /\ r.elems = e
    <3> HIDE DEF e
    <3> QED
      BY <1>1, <2>1 DEF ArrayRecords
  <2> HIDE DEF e, b, r
  <2>6. Different(e)
    <3> SUFFICES ASSUME NEW i \in 1..Len(e), NEW j \in 1..Len(e), e[i] = e[j] PROVE i = j
      BY DEF Different
    <3>1. i + 1 \in 1..Len(old) /\ j + 1 \in 1..Len(old) /\ old[i + 1] = old[j + 1]
      BY <2>1
    <3>2. i + 1 = j + 1
      BY <1>1, <3>1 DEF Different
    <3> QED
      BY <3>2
  <2>7. Built(r)
    BY <2>5, <2>6 DEF Built
  <2>8. RecBlocks(r) = {<<e[i], 0>> : i \in 1..Len(e)}
    BY <2>5 DEF RecBlocks
  <2>9. RecBlocks(r) = RecBlocks(array[a]) \ {b}
    <3>1. ASSUME NEW c \in RecBlocks(r) PROVE c \in RecBlocks(array[a]) /\ c # b
      <4>1. PICK i \in 1..Len(e) : c = <<e[i], 0>>
        BY <2>8
      <4>2. i + 1 \in 1..Len(old) /\ 1 \in 1..Len(old) /\ i + 1 # 1 /\ c = <<old[i + 1], 0>>
        BY <2>1, <4>1
      <4>3. old[i + 1] # old[1]
        BY <1>1, <4>2 DEF Different
      <4> QED
        BY <1>2, <2>1, <4>2, <4>3 DEF b
    <3>2. ASSUME NEW c \in RecBlocks(array[a]), c # b PROVE c \in RecBlocks(r)
      <4>1. PICK i \in 1..Len(old) : c = <<old[i], 0>>
        BY <1>2
      <4>2. i # 1
        BY <2>1, <3>2, <4>1 DEF b
      <4>3. i - 1 \in 1..Len(e) /\ e[i - 1] = old[i]
        BY <2>1, <4>1, <4>2
      <4> QED
        BY <2>8, <4>1, <4>3
    <3> QED
      BY <2>3, <3>1, <3>2
  <2>10. \A c \in RecBlocks(array[a]) : c \in blocks
    BY DEF PageInv
  <2>11. blocks' = (blocks \ RecBlocks(array[a])) \cup RecBlocks(r)
    BY <2>2, <2>3, <2>9, <2>10
  <2>12. \A c \in RecBlocks(r) : c \in RecBlocks(array[a]) /\ PagesOf(c) \subseteq 0..(Frames - 1)
    BY <2>9, <2>10 DEF PageInv
  <2> QED
    BY <2>2, <2>4, <2>5, <2>7, <2>11, <2>12, ArrayStep
<1> QED
  BY <1>3, <1>4

(* The length kept beside an array is the whole length.                    *)
LEMMA WholeLength ==
  ASSUME PageInv, NEW a \in Arrays, array[a].state = "live"
  PROVE  /\ HiddenLength(a) = array[a].cnt /\ Len(array[a].elems) = array[a].cnt
         /\ array[a].cnt \in Counts
<1>1. Len(array[a].elems) = array[a].cnt /\ array[a].cnt \in Counts
  BY DEF PageInv, Built
<1>2. array[a].cnt \in 0..(LengthLimit - 1) /\ LengthLimit \in Nat
  BY <1>1, PageAssumption
<1>3. array[a].cnt % LengthLimit = array[a].cnt
  BY <1>2
<1> QED
  BY <1>1, <1>3 DEF HiddenLength

(* Pages in a row are freed at once.                                       *)
LEMMA FreeContigStep ==
  ASSUME PageInv, NEW a \in Arrays, FreeContig(a)
  PROVE  PageInv'
<1> DEFINE b == <<array[a].elems[1], PagesToOrder(HiddenLength(a))>>
<1>1. /\ array[a].state = "live" /\ array[a].contig
      /\ array' = [array EXCEPT ![a] = NoArray]
      /\ blocks' = blocks \ {b} /\ wrongFree' = (wrongFree \/ b \notin blocks)
  BY DEF FreeContig, free_pages
<1>2. RecBlocks(array[a]) = {b}
  BY <1>1, WholeLength DEF RecBlocks
<1> HIDE DEF b
<1>3. b \in blocks /\ UNCHANGED wrongFree
  <2>1. b \in blocks /\ wrongFree = FALSE
    BY <1>2 DEF PageInv
  <2> QED
    BY <1>1, <2>1
<1> QED
  BY <1>1, <1>2, <1>3, ArrayGone

(* Other pages are freed one by one.                                       *)
LEMMA FreeEachStep ==
  ASSUME PageInv, NEW a \in Arrays, FreeEach(a)
  PROVE  PageInv'
<1> DEFINE freed == {<<array[a].elems[i], 0>> : i \in FreedElems(a)}
<1>1. /\ array[a].state = "live" /\ ~array[a].contig
      /\ array' = [array EXCEPT ![a] = NoArray]
      /\ blocks' = blocks \ freed /\ wrongFree' = (wrongFree \/ ~(freed \subseteq blocks))
  BY DEF FreeEach
<1>2. FreedElems(a) = 1..Len(array[a].elems)
  BY <1>1, WholeLength DEF FreedElems
<1>3. RecBlocks(array[a]) = freed
  BY <1>1, <1>2 DEF RecBlocks
<1> HIDE DEF freed
<1>4. freed \subseteq blocks /\ UNCHANGED wrongFree
  <2>1. freed \subseteq blocks /\ wrongFree = FALSE
    BY <1>3 DEF PageInv
  <2> QED
    BY <1>1, <2>1
<1> QED
  BY <1>1, <1>3, <1>4, ArrayGone

(* No page is allocated at first.                                          *)
LEMMA PageInvInit ==
  ASSUME PageInit
  PROVE  PageInv
<1>1. \A a \in Arrays : array[a] = NoArray
  BY DEF PageInit
<1>2. array \in [Arrays -> ArrayRecords] /\ blocks = {} /\ wrongFree = FALSE
  BY NoArrayBuilt DEF PageInit
<1> QED
  BY <1>1, <1>2, NoArrayBuilt DEF PageInv

(* Every call keeps the invariant of pages.                                *)
LEMMA PageInvStep ==
  ASSUME PageInv, PageStep \/ UNCHANGED pageVars
  PROVE  PageInv'
<1>1. CASE UNCHANGED pageVars
  BY <1>1 DEF pageVars, PageInv
<1>2. CASE PageStep
  BY <1>2, AllocateContigArrayStep, AllocateBeginsStep, AllocatePageStep, AllocateReturnsStep,
     UnwindStep, FreeContigStep, FreeEachStep DEF PageStep
<1> QED
  BY <1>1, <1>2

(* Elements of which no two are the same are as many as the array is long. *)
LEMMA DifferentCounted ==
  ASSUME NEW S, NEW e \in Seq(S), Different(e)
  PROVE  Cardinality({e[i] : i \in 1..Len(e)}) = Len(e)
<1> DEFINE T == {e[i] : i \in 1..Len(e)}
           f == [i \in 1..Len(e) |-> e[i]]
<1>1. Len(e) \in Nat
  OBVIOUS
<1>2. f \in [1..Len(e) -> T] /\ \A i \in 1..Len(e) : f[i] = e[i]
  OBVIOUS
<1>3. \A t \in T : \E i \in 1..Len(e) : f[i] = t
  OBVIOUS
<1>4. \A i, j \in 1..Len(e) : f[i] = f[j] => i = j
  BY DEF Different
<1> HIDE DEF f, T
<1>5. DOMAIN f = 1..Len(e)
  BY <1>2
<1>6. f \in Bijection(1..Len(e), T)
  BY <1>2, <1>3, <1>4, <1>5 DEF Bijection, Injection, Surjection, IsInjective
<1>7. ExistsBijection(1..Len(e), T)
  BY <1>6 DEF ExistsBijection
<1>8. Cardinality(T) = Len(e)
  BY <1>1, <1>7, FS_CountingElements
<1> QED
  BY <1>8 DEF T

(* Whatever is in a sequence is of its kind.                               *)
LEMMA SequenceMembers ==
  ASSUME NEW S, NEW e \in Seq(S)
  PROVE  Len(e) \in Nat /\ \A i \in 1..Len(e) : e[i] \in S
OBVIOUS

(* Pages in a row are different ones.                                      *)
LEMMA RowDiffers ==
  ASSUME NEW e \in Seq(0..(Frames - 1)), InRow(e)
  PROVE  Different(e) /\ \A i \in 2..Len(e) : e[i] = e[i - 1] + 1
<1>1. \A i \in 1..Len(e) : e[i] \in Int /\ e[i] = e[1] + (i - 1)
  <2>1. \A i \in 1..Len(e) : e[i] \in 0..(Frames - 1)
    BY SequenceMembers
  <2>2. 0..(Frames - 1) \subseteq Int
    BY PageAssumption
  <2> QED
    BY <2>1, <2>2 DEF InRow
<1>2. ASSUME NEW i \in 1..Len(e), NEW j \in 1..Len(e), e[i] = e[j] PROVE i = j
  <2>1. 1 \in 1..Len(e) /\ e[1] \in Int
    BY <1>1
  <2> QED
    BY <1>1, <1>2, <2>1
<1>3. ASSUME NEW i \in 2..Len(e) PROVE e[i] = e[i - 1] + 1
  <2>0. Len(e) \in Nat
    BY SequenceMembers
  <2>1. i \in 1..Len(e) /\ i - 1 \in 1..Len(e) /\ 1 \in 1..Len(e)
    BY <2>0
  <2>2. e[1] \in Int /\ e[i] = e[1] + (i - 1) /\ e[i - 1] = e[1] + ((i - 1) - 1)
    BY <1>1, <2>1
  <2> QED
    BY <2>2
<1> QED
  BY <1>2, <1>3 DEF Different

(* The invariant is the property and the types of a run.                   *)
LEMMA PageInvSays ==
  ASSUME PageInv
  PROVE  PageTypeOK /\ PagesBalanced
<1>1. \A a \in Arrays : array[a] \in ArrayRecords /\ Built(array[a])
  BY DEF PageInv
<1>2. PageTypeOK
  <2>1. ASSUME NEW a \in Arrays
        PROVE  /\ array[a].state \in {"none", "filling", "unwinding", "live"}
               /\ array[a].cnt \in Counts \cup {0}
               /\ array[a].contig \in BOOLEAN /\ array[a].byPfn \in BOOLEAN
               /\ \A i \in 1..Len(array[a].elems) : array[a].elems[i] \in 0..(Frames - 1)
    <3>0. array[a].elems \in Seq(0..(Frames - 1))
      BY <1>1 DEF ArrayRecords
    <3>1. \A i \in 1..Len(array[a].elems) : array[a].elems[i] \in 0..(Frames - 1)
      BY <3>0, SequenceMembers
    <3> QED
      BY <1>1, <3>1 DEF ArrayRecords
  <2> QED
    BY <2>1 DEF PageInv, PageTypeOK
<1>3. ASSUME NEW a \in Arrays
      PROVE  BlocksOf(a) = RecBlocks(array[a])
  <2>1. CASE array[a].contig
    BY <2>1 DEF BlocksOf, RecBlocks
  <2>2. CASE ~array[a].contig
    BY <2>2 DEF BlocksOf, RecBlocks
  <2> QED
    BY <2>1, <2>2
<1>4. blocks = UNION {BlocksOf(a) : a \in Arrays}
  BY <1>3 DEF PageInv
<1>5. \A a, b \in Arrays : a # b => BlocksOf(a) \cap BlocksOf(b) = {}
  BY <1>3 DEF PageInv
<1>6. ASSUME NEW a \in Arrays, array[a].state = "live"
      PROVE  LET e == array[a].elems IN
             IF array[a].contig /\ array[a].byPfn THEN \A i \in 1..Len(e) : e[i] = e[1]
             ELSE /\ Cardinality({e[i] : i \in 1..Len(e)}) = array[a].cnt
                  /\ array[a].contig => \A i \in 2..Len(e) : e[i] = e[i - 1] + 1
  <2> DEFINE e == array[a].elems
  <2>1. e \in Seq(0..(Frames - 1)) /\ Len(e) = array[a].cnt
    BY <1>1, <1>6 DEF ArrayRecords, Built
  <2>2. CASE array[a].contig /\ array[a].byPfn
    BY <1>1, <2>2 DEF Built, AllFirst
  <2>3. CASE array[a].contig /\ ~array[a].byPfn
    <3>1. InRow(e)
      BY <1>1, <2>3 DEF Built
    <3> HIDE DEF e
    <3>2. Different(e) /\ \A i \in 2..Len(e) : e[i] = e[i - 1] + 1
      BY <2>1, <3>1, RowDiffers
    <3>3. Cardinality({e[i] : i \in 1..Len(e)}) = array[a].cnt
      BY <2>1, <3>2, DifferentCounted
    <3> QED
      BY <2>3, <3>2, <3>3 DEF e
  <2>4. CASE ~array[a].contig
    <3>1. Different(e)
      BY <1>1, <2>4 DEF Built
    <3> HIDE DEF e
    <3>2. Cardinality({e[i] : i \in 1..Len(e)}) = array[a].cnt
      BY <2>1, <3>1, DifferentCounted
    <3> QED
      BY <2>4, <3>2 DEF e
  <2> QED
    BY <2>2, <2>3, <2>4
<1>7. PagesBalanced
  BY <1>4, <1>5, <1>6 DEF PagesBalanced, PageInv
<1> QED
  BY <1>2, <1>7

-----------------------------------------------------------------------------
(* The log.                                                                *)

Texts == Printers \cup {Nobody, Garbled}
Lines == [origin: Texts, message: Texts]
Writes == [line: Lines \cup {LineEnd}, by: Printers, alone: BOOLEAN]

LogTypes ==
  /\ LogTypeOK
  /\ logging_tstr \in Texts /\ logging_tline \in Lines
  /\ written \in Seq(Writes)

(* Who is between a line and its end has the mutex, and nobody else.       *)
MutexHeld == \A p \in Printers : printer[p] = "writing" <=> logging_mutex = p

(* Nobody prints before the start, and nothing is written without a file.  *)
Started ==
  /\ log_file = "null" => Busy = {}
  /\ log_file # "open" => written = << >>

(* Two that print at once are both known to have met.                      *)
MeetingsKnown == \A p, q \in Busy : p # q => p \in disturbed

(* What a thread that met nobody put in a buffer is there.                 *)
BuffersKept ==
  \A p \in Printers \ disturbed :
    /\ printer[p] = "line" => logging_tstr = p
    /\ printer[p] = "waiting" => logging_tline = [origin |-> p, message |-> p]

(* The end of a line is missing while somebody has the mutex.              *)
EndsMissing ==
  log_file = "open" =>
    /\ Len(written) % 2 = IF logging_mutex = Nobody THEN 0 ELSE 1
    /\ logging_mutex # Nobody => written[Len(written)].by = logging_mutex

DirectorySmall ==
  /\ log_file = "null" => oldLogs <= MaxOldLogs
  /\ log_file # "null" /\ ~undeleted => oldLogs + 2 <= KeptLogs

WriteWhole(i) ==
  LET w == written[i] IN
  IF i % 2 = 1 THEN w.line # LineEnd /\ (w.alone => w.line = [origin |-> w.by, message |-> w.by])
               ELSE w.line = LineEnd /\ w.by = written[i - 1].by

LogInv ==
  /\ LogTypes /\ MutexHeld /\ Started /\ MeetingsKnown /\ BuffersKept /\ EndsMissing
  /\ DirectorySmall
  /\ \A i \in 1..Len(written) : WriteWhole(i)

(* What the log promises is two parts of its invariant.                    *)
LEMMA LinesWholeParts == DirectorySmall /\ (\A i \in 1..Len(written) : WriteWhole(i)) => LinesWhole
BY DEF LinesWhole, DirectorySmall, WriteWhole

(* A printer is no other text, and no line is the end of a line.           *)
LEMMA LogNames ==
  /\ Nobody \notin Printers /\ Garbled \notin Printers
  /\ "end" \notin Texts
  /\ LineEnd \notin Lines
<1>1. Nobody \notin Printers /\ Garbled \notin Printers /\ "end" \notin Texts
  BY LogAssumption DEF Nobody, Garbled, Texts
<1>2. LineEnd.origin = "end"
  BY DEF LineEnd
<1> QED
  BY <1>1, <1>2 DEF Lines

(* The log begins with nothing written and nobody in it.                   *)
LEMMA LogInvInit ==
  ASSUME LogInit
  PROVE  LogInv
<1>1. LogTypes
  <2>1. oldLogs \in 0..(MaxOldLogs + 1) /\ prints \in [Printers -> 0..Prints]
    BY LogAssumption DEF LogInit
  <2>2. /\ undeleted \in BOOLEAN /\ log_file \in {"null", "failed", "open"}
        /\ printer \in [Printers -> {"ready", "message", "line", "waiting", "writing"}]
        /\ logging_mutex \in Printers \cup {Nobody} /\ disturbed \subseteq Printers
    BY DEF LogInit
  <2>3. logging_tstr \in Texts /\ logging_tline \in Lines
    BY DEF LogInit, Texts, Lines, NoLine
  <2>4. << >> \in Seq(Writes)
    OBVIOUS
  <2> QED
    BY <2>1, <2>2, <2>3, <2>4 DEF LogInit, LogTypes, LogTypeOK
<1>2. MutexHeld /\ Started /\ MeetingsKnown /\ BuffersKept
  BY LogNames DEF LogInit, MutexHeld, Started, MeetingsKnown, BuffersKept, Busy
<1>3. EndsMissing /\ DirectorySmall
  BY DEF LogInit, EndsMissing, DirectorySmall
<1>4. \A i \in 1..Len(written) : WriteWhole(i)
  BY DEF LogInit
<1> QED
  BY <1>1, <1>2, <1>3, <1>4 DEF LogInv

(* What is written only grows by one write at a time.                      *)
LEMMA WritesKept ==
  ASSUME NEW p \in Printers, NEW line \in Lines \cup {LineEnd}, NEW alone \in BOOLEAN,
         written \in Seq(Writes),
         written' = Append(written, [line |-> line, by |-> p, alone |-> alone])
  PROVE  /\ written' \in Seq(Writes) /\ Len(written') = Len(written) + 1 /\ Len(written) \in Nat
         /\ written'[Len(written')] = [line |-> line, by |-> p, alone |-> alone]
         /\ \A i \in 1..Len(written) : written'[i] = written[i]
<1>1. [line |-> line, by |-> p, alone |-> alone] \in Writes
  BY DEF Writes
<1> QED
  BY <1>1

(* Lines have odd places, ends of lines even ones.                         *)
LEMMA Parity ==
  ASSUME NEW n \in Nat
  PROVE  n % 2 \in {0, 1} /\ (n + 1) % 2 = 1 - (n % 2)
OBVIOUS

(* The start deletes old logs until few are left, then opens a new one.    *)
LEMMA LoggingInitStep ==
  ASSUME LogInv, LoggingInit
  PROVE  LogInv'
<1>1. /\ log_file = "null" /\ log_file' \in {"open", "failed"}
      /\ UNCHANGED <<written, printer, prints, logging_tstr, logging_tline, logging_mutex, disturbed>>
  BY DEF LoggingInit
<1>2. /\ oldLogs \in 0..(MaxOldLogs + 1) /\ oldLogs' \in 0..(MaxOldLogs + 1)
      /\ undeleted' \in BOOLEAN /\ DirectorySmall'
  <2>1. oldLogs \in 0..MaxOldLogs /\ oldLogs \in Nat /\ undeleted \in BOOLEAN
    BY <1>1, LogAssumption DEF LogInv, LogTypes, LogTypeOK, DirectorySmall
  <2>2. ResetDir(oldLogs) \in 0..oldLogs /\ ResetDir(oldLogs) + 3 <= KeptLogs
    BY <2>1, LogAssumption DEF ResetDir
  <2>3. CASE oldLogs' = ResetDir(oldLogs) + 1 /\ UNCHANGED undeleted
    BY <1>1, <2>1, <2>2, <2>3, LogAssumption DEF DirectorySmall
  <2>4. CASE oldLogs' \in (ResetDir(oldLogs) + 1)..(oldLogs + 1) /\ undeleted' = TRUE
    BY <1>1, <2>1, <2>2, <2>4, LogAssumption DEF DirectorySmall
  <2> QED
    BY <2>1, <2>3, <2>4, LogAssumption DEF LoggingInit
<1>3. LogTypes' /\ MutexHeld' /\ Started' /\ MeetingsKnown' /\ BuffersKept'
  BY <1>1, <1>2 DEF LogInv, LogTypes, LogTypeOK, MutexHeld, Started, MeetingsKnown, BuffersKept, Busy
<1>4. EndsMissing'
  <2>1. written = << >> /\ Busy = {}
    BY <1>1 DEF LogInv, Started
  <2>2. logging_mutex = Nobody
    BY <2>1 DEF LogInv, LogTypes, LogTypeOK, MutexHeld, Busy
  <2> QED
    BY <1>1, <2>1, <2>2 DEF EndsMissing
<1> QED
  BY <1>1, <1>2, <1>3, <1>4 DEF LogInv, WriteWhole

(* A step before the mutex writes nothing.                                 *)
LEMMA NothingWritten ==
  ASSUME LogInv, UNCHANGED <<oldLogs, undeleted, log_file, written, logging_mutex>>,
         LogTypes', MutexHeld', Started', MeetingsKnown', BuffersKept'
  PROVE  LogInv'
BY DEF LogInv, EndsMissing, DirectorySmall, WriteWhole

(* A thread that begins to print disturbs those in the middle of it.       *)
LEMMA LoggingPrintStep ==
  ASSUME LogInv, NEW p \in Printers, LoggingPrint(p)
  PROVE  LogInv'
<1>1. /\ UNCHANGED <<oldLogs, undeleted, log_file, written, logging_tstr, logging_tline, logging_mutex>>
      /\ printer[p] = "ready" /\ printer' = [printer EXCEPT ![p] = "message"]
      /\ disturbed' = IF Busy = {} THEN disturbed \ {p} ELSE disturbed \cup Busy \cup {p}
      /\ log_file # "null"
  BY DEF LoggingPrint, Goes
<1>2. LogTypes /\ MutexHeld /\ Started /\ MeetingsKnown /\ BuffersKept
  BY DEF LogInv
<1>3. printer \in [Printers -> {"ready", "message", "line", "waiting", "writing"}]
  BY <1>2 DEF LogTypes, LogTypeOK
<1>4. prints' \in [Printers -> 0..Prints]
  BY <1>2, LogAssumption DEF LoggingPrint, LogTypes, LogTypeOK
<1>5. Busy' = Busy \cup {p} /\ p \notin Busy /\ Busy \subseteq Printers
  BY <1>1, <1>3 DEF Busy
<1>6. LogTypes'
  BY <1>1, <1>2, <1>3, <1>4, <1>5 DEF LogTypes, LogTypeOK
<1>7. MutexHeld' /\ Started'
  BY <1>1, <1>2, <1>3 DEF MutexHeld, Started
<1>8. MeetingsKnown'
  BY <1>1, <1>2, <1>5 DEF MeetingsKnown
<1>9. BuffersKept'
  <2> SUFFICES ASSUME NEW q \in Printers \ disturbed', printer'[q] \in {"line", "waiting"}
               PROVE  /\ printer'[q] = "line" => logging_tstr' = q
                      /\ printer'[q] = "waiting" => logging_tline' = [origin |-> q, message |-> q]
    BY DEF BuffersKept
  <2>1. q # p /\ printer'[q] = printer[q] /\ q \in Busy
    BY <1>1, <1>3 DEF Busy
  <2>2. q \notin disturbed
    BY <1>1, <2>1
  <2> QED
    BY <1>1, <1>2, <2>1, <2>2 DEF BuffersKept
<1> QED
  BY <1>1, <1>6, <1>7, <1>8, <1>9, NothingWritten

(* A thread that met nobody is alone.                                      *)
LEMMA Alone ==
  ASSUME LogInv, NEW p \in Busy, NEW q \in Busy, q \notin disturbed
  PROVE  p = q
BY DEF LogInv, MeetingsKnown

(* A buffer is garbled only by somebody else who is printing.              *)
LEMMA FormatsStep ==
  ASSUME LogInv, NEW p \in Printers, FormatsMessage(p) \/ FormatsLine(p)
  PROVE  LogInv'
<1>1. /\ UNCHANGED <<oldLogs, undeleted, log_file, written, prints, logging_mutex, disturbed>>
      /\ \/ /\ printer[p] = "message" /\ printer' = [printer EXCEPT ![p] = "line"]
            /\ logging_tstr' \in Leaves(p, p, Garbled) /\ logging_tline' = logging_tline
         \/ /\ printer[p] = "line" /\ printer' = [printer EXCEPT ![p] = "waiting"]
            /\ logging_tline' \in Leaves(p, [origin |-> p, message |-> logging_tstr],
                                            [origin |-> Garbled, message |-> Garbled])
            /\ logging_tstr' = logging_tstr
  BY DEF FormatsMessage, FormatsLine, Goes
<1>2. LogTypes /\ MutexHeld /\ Started /\ MeetingsKnown /\ BuffersKept
  BY DEF LogInv
<1>3. printer \in [Printers -> {"ready", "message", "line", "waiting", "writing"}]
  BY <1>2 DEF LogTypes, LogTypeOK
<1>4. Busy' = Busy /\ p \in Busy
  BY <1>1, <1>3 DEF Busy
<1>5. logging_tstr' \in Texts /\ logging_tline' \in Lines
  BY <1>1, <1>2 DEF LogTypes, Leaves, Texts, Lines
<1>6. LogTypes'
  BY <1>1, <1>2, <1>3, <1>5 DEF LogTypes, LogTypeOK
<1>7. MutexHeld' /\ Started' /\ MeetingsKnown'
  BY <1>1, <1>2, <1>3, <1>4 DEF MutexHeld, Started, MeetingsKnown
<1>8. BuffersKept'
  <2> SUFFICES ASSUME NEW q \in Printers \ disturbed, printer'[q] \in {"line", "waiting"}
               PROVE  /\ printer'[q] = "line" => logging_tstr' = q
                      /\ printer'[q] = "waiting" => logging_tline' = [origin |-> q, message |-> q]
    BY <1>1 DEF BuffersKept
  <2>1. q \in Busy
    BY <1>1, <1>3 DEF Busy
  <2>2. q = p /\ Busy \subseteq {p}
    BY <1>4, <2>1, Alone
  <2>3. printer[p] = "line" => logging_tstr = p
    BY <1>2, <2>2 DEF BuffersKept
  <2> QED
    BY <1>1, <1>3, <2>2, <2>3 DEF Leaves
<1> QED
  BY <1>1, <1>6, <1>7, <1>8, NothingWritten

(* A line is written by whoever gets the mutex.                            *)
LEMMA AppendLineStep ==
  ASSUME LogInv, NEW p \in Printers, AppendLine(p)
  PROVE  LogInv'
<1>1. /\ UNCHANGED <<oldLogs, undeleted, log_file, prints, logging_tstr, logging_tline, disturbed>>
      /\ printer[p] = "waiting" /\ printer' = [printer EXCEPT ![p] = "writing"]
      /\ logging_mutex = Nobody /\ logging_mutex' = p
      /\ written' = IF log_file = "open"
                      THEN Append(written, [line |-> logging_tline, by |-> p, alone |-> p \notin disturbed])
                      ELSE written
  BY DEF AppendLine, Goes
<1>2. LogTypes /\ MutexHeld /\ Started /\ MeetingsKnown /\ BuffersKept /\ EndsMissing
      /\ DirectorySmall /\ written \in Seq(Writes)
  BY DEF LogInv, LogTypes
<1>3. printer \in [Printers -> {"ready", "message", "line", "waiting", "writing"}]
  BY <1>2 DEF LogTypes, LogTypeOK
<1>4. Busy' = Busy
  BY <1>1, <1>3 DEF Busy
<1>5. logging_tline \in Lines /\ (p \notin disturbed => logging_tline = [origin |-> p, message |-> p])
  BY <1>1, <1>2 DEF LogTypes, BuffersKept
<1>6. MutexHeld' /\ MeetingsKnown' /\ BuffersKept' /\ DirectorySmall'
  <2>1. MutexHeld'
    BY <1>1, <1>2, <1>3, LogNames DEF MutexHeld
  <2>2. BuffersKept'
    BY <1>1, <1>2, <1>3 DEF BuffersKept
  <2> QED
    BY <1>1, <1>2, <1>4, <2>1, <2>2 DEF MeetingsKnown, DirectorySmall
<1>7. CASE log_file # "open"
  <2>1. written' = written /\ LogTypes' /\ Started' /\ EndsMissing'
    BY <1>1, <1>2, <1>3, <1>4, <1>7 DEF LogTypes, LogTypeOK, Started, EndsMissing
  <2> QED
    BY <1>6, <2>1 DEF LogInv, WriteWhole
<1>8. CASE log_file = "open"
  <2> DEFINE alone == p \notin disturbed
  <2>0. alone \in BOOLEAN /\ (alone => p \notin disturbed)
    OBVIOUS
  <2>01. written' = Append(written, [line |-> logging_tline, by |-> p, alone |-> alone])
    BY <1>1, <1>8
  <2> HIDE DEF alone
  <2>1. /\ written' \in Seq(Writes) /\ Len(written') = Len(written) + 1 /\ Len(written) \in Nat
        /\ written'[Len(written')] = [line |-> logging_tline, by |-> p, alone |-> alone]
        /\ \A i \in 1..Len(written) : written'[i] = written[i]
    BY <1>2, <1>5, <2>0, <2>01, WritesKept
  <2>2. LogTypes' /\ Started'
    BY <1>1, <1>2, <1>3, <1>4, <1>8, <2>1 DEF LogTypes, LogTypeOK, Started
  <2>3. Len(written) % 2 = 0 /\ (Len(written) + 1) % 2 = 1
    <3>1. Len(written) % 2 = 0
      BY <1>1, <1>2, <1>8 DEF EndsMissing
    <3> QED
      BY <2>1, <3>1, Parity
  <2>4. EndsMissing'
    BY <1>1, <2>1, <2>3, LogNames DEF EndsMissing
  <2>5. ASSUME NEW i \in 1..Len(written')
        PROVE  WriteWhole(i)'
    <3>1. CASE i \in 1..Len(written)
      <4>1. i - 1 \in 1..Len(written) \/ i = 1
        BY <2>1, <3>1
      <4>2. WriteWhole(i)
        BY <3>1 DEF LogInv
      <4> QED
        BY <2>1, <3>1, <4>1, <4>2 DEF WriteWhole
    <3>2. CASE i = Len(written')
      <4>1. logging_tline # LineEnd /\ i % 2 = 1
        BY <1>5, <2>1, <2>3, <3>2, LogNames
      <4>2. /\ written'[i].line = logging_tline /\ written'[i].by = p
            /\ written'[i].alone => p \notin disturbed
        BY <2>0, <2>1, <3>2
      <4> QED
        BY <1>5, <4>1, <4>2 DEF WriteWhole
    <3> QED
      BY <2>1, <3>1, <3>2
  <2> QED
    BY <1>6, <2>2, <2>4, <2>5 DEF LogInv
<1> QED
  BY <1>7, <1>8

(* The end of a line is written by whoever wrote the line.                 *)
LEMMA AppendEndStep ==
  ASSUME LogInv, NEW p \in Printers, AppendEnd(p)
  PROVE  LogInv'
<1>1. /\ UNCHANGED <<oldLogs, undeleted, log_file, prints, logging_tstr, logging_tline, disturbed>>
      /\ printer[p] = "writing" /\ printer' = [printer EXCEPT ![p] = "ready"]
      /\ logging_mutex' = Nobody
      /\ written' = IF log_file = "open"
                      THEN Append(written, [line |-> LineEnd, by |-> p, alone |-> TRUE]) ELSE written
  BY DEF AppendEnd, Goes
<1>2. LogTypes /\ MutexHeld /\ Started /\ MeetingsKnown /\ BuffersKept /\ EndsMissing
      /\ DirectorySmall /\ written \in Seq(Writes) /\ logging_mutex = p
  BY <1>1 DEF LogInv, LogTypes, MutexHeld
<1>3. printer \in [Printers -> {"ready", "message", "line", "waiting", "writing"}]
  BY <1>2 DEF LogTypes, LogTypeOK
<1>4. Busy' = Busy \ {p}
  BY <1>1, <1>3 DEF Busy
<1>6. MutexHeld' /\ MeetingsKnown' /\ BuffersKept' /\ DirectorySmall'
  <2>1. MutexHeld'
    BY <1>1, <1>2, <1>3, LogNames DEF MutexHeld
  <2>2. BuffersKept'
    BY <1>1, <1>2, <1>3 DEF BuffersKept
  <2> QED
    BY <1>1, <1>2, <1>4, <2>1, <2>2 DEF MeetingsKnown, DirectorySmall
<1>7. CASE log_file # "open"
  <2>1. written' = written /\ LogTypes' /\ Started' /\ EndsMissing'
    BY <1>1, <1>2, <1>3, <1>4, <1>7 DEF LogTypes, LogTypeOK, Started, EndsMissing
  <2> QED
    BY <1>6, <2>1 DEF LogInv, WriteWhole
<1>8. CASE log_file = "open"
  <2>1. /\ written' \in Seq(Writes) /\ Len(written') = Len(written) + 1 /\ Len(written) \in Nat
        /\ written'[Len(written')] = [line |-> LineEnd, by |-> p, alone |-> TRUE]
        /\ \A i \in 1..Len(written) : written'[i] = written[i]
    BY <1>1, <1>2, <1>8, WritesKept
  <2>2. LogTypes' /\ Started'
    BY <1>1, <1>2, <1>3, <1>4, <1>8, <2>1 DEF LogTypes, LogTypeOK, Started
  <2>3. /\ Len(written) % 2 = 1 /\ (Len(written) + 1) % 2 = 0
        /\ written[Len(written)].by = p /\ Len(written) # 0
    BY <1>1, <1>2, <1>8, <2>1, Parity, LogNames DEF EndsMissing
  <2>4. EndsMissing'
    BY <1>1, <2>1, <2>3 DEF EndsMissing
  <2>5. ASSUME NEW i \in 1..Len(written')
        PROVE  WriteWhole(i)'
    <3>1. CASE i \in 1..Len(written)
      <4>1. i - 1 \in 1..Len(written) \/ i = 1
        BY <2>1, <3>1
      <4>2. WriteWhole(i)
        BY <3>1 DEF LogInv
      <4> QED
        BY <2>1, <3>1, <4>1, <4>2 DEF WriteWhole
    <3>2. CASE i = Len(written')
      <4>1. i % 2 = 0 /\ i - 1 = Len(written) /\ i - 1 \in 1..Len(written)
        BY <2>1, <2>3, <3>2
      <4>2. written'[i - 1].by = p
        BY <2>1, <2>3, <4>1
      <4> QED
        BY <2>1, <3>2, <4>1, <4>2 DEF WriteWhole
    <3> QED
      BY <2>1, <3>1, <3>2
  <2> QED
    BY <1>6, <2>2, <2>4, <2>5 DEF LogInv
<1> QED
  BY <1>7, <1>8

(* Every call keeps the invariant of the log.                              *)
LEMMA LogInvStep ==
  ASSUME LogInv, LogStep \/ UNCHANGED logVars
  PROVE  LogInv'
<1>1. CASE UNCHANGED logVars
  BY <1>1 DEF logVars, LogInv, LogTypes, LogTypeOK, MutexHeld, Started, MeetingsKnown, BuffersKept,
              EndsMissing, DirectorySmall, WriteWhole, Busy
<1> QED
  BY <1>1, LoggingInitStep, LoggingPrintStep, FormatsStep, AppendLineStep, AppendEndStep DEF LogStep

-----------------------------------------------------------------------------
(* Computations.                                                           *)

(* Quotient and rest.                                                      *)
LEMMA Division ==
  ASSUME NEW n \in Nat, NEW d \in Nat \ {0}
  PROVE  /\ n \div d \in Nat /\ d * (n \div d) <= n /\ n < d * (n \div d) + d
OBVIOUS

(* A quotient is below whatever the number is too small for.               *)
LEMMA QuotientBelow ==
  ASSUME NEW n \in Nat, NEW d \in Nat \ {0}, NEW q \in Nat, n < d * q + d
  PROVE  n \div d <= q
<1> DEFINE p == n \div d
<1>1. p \in Nat /\ d * p <= n
  BY Division
<1> HIDE DEF p
<1>2. SUFFICES ASSUME p >= q + 1 PROVE FALSE
  BY <1>1 DEF p
<1>3. d * p >= d * (q + 1)
  BY <1>1, <1>2
<1>4. d * (q + 1) = d * q + d
  OBVIOUS
<1> QED
  BY <1>1, <1>3, <1>4

(* Sums of two addresses wrap once at most.                                *)
LEMMA Wrapping ==
  ASSUME NEW W \in Nat \ {0}, NEW x \in Int
  PROVE  /\ x \in 0..(W - 1) => x % W = x
         /\ x \in W..(2 * W - 1) => x % W = x - W
         /\ x \in (-W)..-1 => x % W = x + W
OBVIOUS

(* A wait of a second or less gets between its time in ticks and twice it. *)
LEMMA ShortWait ==
  ASSUME NEW HZ \in Nat, NEW ms \in Nat \ {0}, ms <= 1000
  PROVE  /\ 1000 \div ms \in Nat \ {0}
         /\ HZ \div (1000 \div ms) \in Nat
         /\ HZ \div (1000 \div ms) >= (HZ * ms) \div 1000
         /\ (HZ \div (1000 \div ms)) * 1000 <= 2 * HZ * ms
<1> DEFINE k == 1000 \div ms
<1>1. k \in Nat /\ ms * k <= 1000 /\ 1000 < ms * k + ms
  BY Division
<1> HIDE DEF k
<1>2. k \in Nat \ {0}
  <2>1. ms * 0 = 0
    OBVIOUS
  <2> QED
    BY <1>1, <2>1
<1> DEFINE t == HZ \div k
<1>3. t \in Nat /\ k * t <= HZ /\ HZ < k * t + k
  BY <1>2, Division
<1> HIDE DEF t
<1>4. (HZ * ms) \div 1000 <= t
  <2>1. HZ * ms \in Nat
    OBVIOUS
  <2>2. HZ * ms < 1000 * t + 1000
    <3>1. HZ + 1 <= k * (t + 1)
      BY <1>2, <1>3
    <3>2. (HZ + 1) * ms <= (k * (t + 1)) * ms
      BY <1>2, <1>3, <3>1
    <3>3. (k * (t + 1)) * ms = (ms * k) * (t + 1)
      BY <1>2, <1>3
    <3>4. (ms * k) * (t + 1) <= 1000 * (t + 1)
      <4>1. ms * k \in Nat /\ t + 1 \in Nat
        BY <1>1, <1>3
      <4> QED
        BY <1>1, <4>1
    <3>5. (HZ + 1) * ms = HZ * ms + ms
      OBVIOUS
    <3>6. (k * (t + 1)) * ms \in Nat /\ (HZ + 1) * ms \in Nat
      BY <1>2, <1>3
    <3> QED
      BY <1>3, <2>1, <3>2, <3>3, <3>4, <3>5, <3>6
  <2> QED
    BY <1>3, <2>1, <2>2, QuotientBelow
<1>5. t * 1000 <= 2 * HZ * ms
  <2>1. 1000 <= 2 * (ms * k)
    <3>1. ms <= ms * k
      BY <1>2
    <3>2. ms * k \in Nat
      BY <1>2
    <3> QED
      BY <1>1, <3>1, <3>2
  <2>2. t * 1000 <= t * (2 * (ms * k))
    BY <1>2, <1>3, <2>1
  <2>3. t * (2 * (ms * k)) = 2 * ((k * t) * ms)
    BY <1>2, <1>3
  <2>4. (k * t) * ms <= HZ * ms
    <3>1. k * t \in Nat
      BY <1>2, <1>3
    <3> QED
      BY <1>3, <3>1
  <2>5. 2 * HZ * ms = 2 * (HZ * ms) /\ (k * t) * ms \in Nat /\ HZ * ms \in Nat /\ t * (2 * (ms * k)) \in Nat
    BY <1>2, <1>3
  <2> QED
    BY <1>3, <2>2, <2>3, <2>4, <2>5
<1> QED
  BY <1>2, <1>3, <1>4, <1>5 DEF k, t

(* A longer wait gets no fewer ticks, also past a second.                  *)
LEMMA TicksGrow ==
  ASSUME NEW HZ \in Nat, NEW ms \in Nat \ {0, 1}
  PROVE  MSToOSTicks(HZ, ms - 1) <= MSToOSTicks(HZ, ms)
<1>1. CASE ms > 1001
  <2>1. (HZ * (ms - 1)) \div 1000 <= (HZ * ms) \div 1000
    <3> DEFINE n == HZ * (ms - 1)
               q == (HZ * ms) \div 1000
    <3>1. n \in Nat /\ HZ * ms \in Nat /\ n <= HZ * ms
      OBVIOUS
    <3>2. q \in Nat /\ HZ * ms < 1000 * q + 1000
      BY <3>1, Division
    <3> HIDE DEF n, q
    <3>3. n \div 1000 <= q
      BY <3>1, <3>2, QuotientBelow
    <3> QED
      BY <3>3 DEF n, q
  <2> QED
    BY <1>1, <2>1 DEF MSToOSTicks
<1>2. CASE ms = 1001
  <2>1. MSToOSTicks(HZ, ms) = (HZ * 1001) \div 1000
    BY <1>2 DEF MSToOSTicks
  <2>2. MSToOSTicks(HZ, ms - 1) = HZ
    <3>1. 1000 \div 1000 = 1 /\ HZ \div 1 = HZ
      OBVIOUS
    <3>2. ms - 1 = 1000
      BY <1>2
    <3> QED
      BY <3>1, <3>2 DEF MSToOSTicks
  <2>3. HZ <= (HZ * 1001) \div 1000
    OBVIOUS
  <2> QED
    BY <2>1, <2>2, <2>3
<1>3. CASE ms <= 1000
  <2> DEFINE k == 1000 \div ms
             j == 1000 \div (ms - 1)
  <2>1. k \in Nat \ {0} /\ j \in Nat \ {0}
    BY <1>3, ShortWait
  <2>2. k <= j
    <3>1. (ms - 1) * j <= 1000 /\ 1000 < (ms - 1) * j + (ms - 1)
      BY Division
    <3>2. 1000 < ms * j + ms
      <4>1. ms * j = (ms - 1) * j + j
        BY <2>1
      <4>2. (ms - 1) * j \in Nat
        BY <2>1
      <4> HIDE DEF j
      <4> QED
        BY <2>1, <3>1, <4>1, <4>2
    <3> QED
      BY <2>1, <3>2, QuotientBelow DEF k
  <2> HIDE DEF k, j
  <2>3. HZ \div j <= HZ \div k
    <3> DEFINE t == HZ \div k
    <3>1. t \in Nat /\ HZ < k * t + k
      BY <2>1, Division
    <3> HIDE DEF t
    <3>2. k * (t + 1) <= j * (t + 1)
      BY <2>1, <2>2, <3>1
    <3>3. k * (t + 1) = k * t + k /\ j * (t + 1) = j * t + j
      BY <2>1, <3>1
    <3>4. k * t \in Nat /\ j * t \in Nat
      BY <2>1, <3>1
    <3>5. HZ < j * t + j
      BY <2>1, <3>1, <3>2, <3>3, <3>4
    <3>6. HZ \div j <= t
      BY <2>1, <3>1, <3>5, QuotientBelow
    <3> QED
      BY <3>6 DEF t
  <2>4. MSToOSTicks(HZ, ms - 1) = HZ \div j /\ MSToOSTicks(HZ, ms) = HZ \div k
    BY <1>3 DEF MSToOSTicks, j, k
  <2> QED
    BY <2>3, <2>4
<1> QED
  BY <1>1, <1>2, <1>3

(* The questions, answered one by one.                                     *)
LEMMA TicksAnswered ==
  ASSUME NEW HZ \in Frequencies, NEW ms \in Waits,
         question' = <<"ticks", HZ, ms>>, answer' = <<MSToOSTicks(HZ, ms)>>
  PROVE  TicksRight'
<1>1. HZ \in Nat /\ ms \in Nat \ {0}
  BY NumbersAssumption
<1>2. question'[2] = HZ /\ question'[3] = ms /\ answer'[1] = MSToOSTicks(HZ, ms)
  OBVIOUS
<1>3. /\ MSToOSTicks(HZ, ms) >= (HZ * ms) \div 1000
      /\ MSToOSTicks(HZ, ms) * 1000 <= 2 * HZ * ms
  <2>1. CASE ms <= 1000
    BY <1>1, <2>1, ShortWait DEF MSToOSTicks
  <2>2. CASE ms > 1000
    <3>1. HZ * ms \in Nat /\ 2 * HZ * ms = 2 * (HZ * ms)
      BY <1>1
    <3>2. /\ (HZ * ms) \div 1000 \in Nat
          /\ 1000 * ((HZ * ms) \div 1000) <= HZ * ms
      BY <3>1, Division
    <3>3. MSToOSTicks(HZ, ms) = (HZ * ms) \div 1000
      BY <2>2 DEF MSToOSTicks
    <3> QED
      BY <3>1, <3>2, <3>3
  <2> QED
    BY <1>1, <2>1, <2>2
<1>4. ms - 1 \in Waits => MSToOSTicks(HZ, ms - 1) <= MSToOSTicks(HZ, ms)
  <2>1. ms - 1 \in Waits => ms \in Nat \ {0, 1}
    BY <1>1, NumbersAssumption
  <2> QED
    BY <1>1, <2>1, TicksGrow
<1> QED
  BY <1>2, <1>3, <1>4 DEF TicksRight

(* The cache type is written into the protection.                          *)
LEMMA CacheWritten ==
  ASSUME NEW a, NEW b, NEW c, NEW d, NEW x, NEW y, NEW cache
  PROVE  UpdatePageEntryCache([kprot |-> [present |-> a, rw |-> b, nx |-> c, mode |-> d],
                               access |-> x, cache |-> y], cache) =
           [kprot |-> [present |-> a, rw |-> b, nx |-> c, mode |-> cache], access |-> x, cache |-> y]
BY DEF UpdatePageEntryCache

LEMMA EntryAnswered ==
  ASSUME NEW asked \in Accesses3, NEW cache \in CacheTypes,
         question' = <<"entry", asked, cache>>, answer' = <<CreatePageEntry(asked, cache)>>
  PROVE  EntriesRight'
<1>1. question'[2] = asked /\ answer'[1] = CreatePageEntry(asked, cache)
  OBVIOUS
<1> DEFINE granted == Granted(asked)
           none == [present |-> FALSE, rw |-> FALSE, nx |-> FALSE, mode |-> cache]
           e == [kprot |-> none, access |-> {}, cache |-> "cache"]
           prot == [present |-> "read" \in granted, rw |-> "write" \in granted,
                    nx |-> "execute" \notin granted, mode |-> "cache"]
<1>2. UpdatePageEntryCache(NoEntry, cache) = e
  <2>1. NoEntry = [kprot |-> [present |-> FALSE, rw |-> FALSE, nx |-> FALSE, mode |-> "cache"],
                   access |-> {}, cache |-> "cache"]
    BY DEF NoEntry
  <2>2. \A no : UpdatePageEntryCache([kprot |-> [present |-> no, rw |-> no, nx |-> no, mode |-> "cache"],
                                     access |-> {}, cache |-> "cache"], cache)
                 = [kprot |-> [present |-> no, rw |-> no, nx |-> no, mode |-> cache],
                    access |-> {}, cache |-> "cache"]
    BY CacheWritten
  <2> QED
    BY <2>1, <2>2
<1>3. UpdatePageEntryAccess(e, asked) =
        UpdatePageEntryCache([kprot |-> prot, access |-> granted, cache |-> "cache"], "cache")
  BY DEF UpdatePageEntryAccess
<1>4. UpdatePageEntryCache([kprot |-> prot, access |-> granted, cache |-> "cache"], "cache") =
        [kprot |-> prot, access |-> granted, cache |-> "cache"]
  BY CacheWritten
<1>6. CreatePageEntry(asked, cache).kprot = prot
  <2>1. UpdatePageEntryAccess(e, asked).kprot = prot
    <3> HIDE DEF prot, e, granted
    <3> QED
      BY <1>3, <1>4
  <2> QED
    BY <1>2, <2>1 DEF CreatePageEntry
<1>7. /\ "write" \in granted <=> "write" \in asked
      /\ "execute" \in granted <=> "execute" \in asked
      /\ "read" \in granted <=> asked # {}
  BY DEF Granted, Accesses3
<1>8. /\ prot.rw = ("write" \in granted) /\ prot.nx = ("execute" \notin granted)
      /\ prot.present = ("read" \in granted) /\ prot.mode = "cache"
  OBVIOUS
<1> HIDE DEF prot, granted
<1> QED
  BY <1>1, <1>6, <1>7, <1>8 DEF EntriesRight

LEMMA RangeAnswered ==
  ASSUME NEW a \in 0..(WordSize - 1), NEW l \in -(WordSize \div 2)..(WordSize \div 2 - 1),
         question' = <<"range", a, l>>, answer' = <<IsInRangeEx(a, l)>>, answer'[1] = "yes"
  PROVE  LET bytes == IF l > 0 THEN a..(a + l - 1) ELSE (a + l)..(a - 1) IN
         bytes # {} /\ bytes \subseteq Stack.start..(Stack.end - 1)
<1> DEFINE other == (a + l) % WordSize
           min == IF l > 0 THEN a ELSE other
           max == IF l > 0 THEN other ELSE a
<1>1. WordSize \in Nat \ {0} /\ Stack.start \in Nat /\ Stack.end \in Nat
  BY NumbersAssumption
<1>2. a \in Nat /\ a < WordSize /\ l \in Int /\ -WordSize <= 2 * l /\ 2 * l < WordSize
  BY <1>1
<1>3. min < max /\ ~(min < Stack.start) /\ ~(max >= Stack.end)
  <2>1. IsInRangeEx(a, l) = "yes"
    OBVIOUS
  <2>2. other \in Int
    BY <1>1, <1>2
  <2> QED
    BY <1>2, <2>1, <2>2 DEF IsInRangeEx
<1>4. other = a + l
  <2>1. a + l \in (-WordSize)..(2 * WordSize - 1)
    BY <1>1, <1>2
  <2> DEFINE x == a + l
  <2>2. /\ x >= 0 /\ x < WordSize => x % WordSize = x
        /\ x >= WordSize => x % WordSize = x - WordSize
        /\ x < 0 => x % WordSize = x + WordSize
    <3>1. x \in Int /\ -WordSize <= x /\ x <= 2 * WordSize - 1
      BY <1>1, <2>1
    <3> HIDE DEF x
    <3>2. /\ x \in 0..(WordSize - 1) => x % WordSize = x
          /\ x \in WordSize..(2 * WordSize - 1) => x % WordSize = x - WordSize
          /\ x \in (-WordSize)..-1 => x % WordSize = x + WordSize
      BY <1>1, <3>1, Wrapping
    <3> QED
      BY <1>1, <3>1, <3>2
  <2> QED
    BY <1>1, <1>2, <1>3, <2>1, <2>2
<1> QED
  BY <1>1, <1>2, <1>3, <1>4

LEMMA ZoneAnswered ==
  ASSUME NEW minutes \in ZoneMinutes,
         question' = <<"zone", minutes>>, answer' = <<ZoneText(GetTimeZoneOffset(minutes))>>
  PROVE  ZonesRight'
<1>1. minutes \in -900..900
  BY NumbersAssumption
<1> DEFINE m == IF minutes > 0 THEN minutes ELSE -minutes
           z == answer'[1]
<1>2. z.neg = (minutes > 0) /\ z.hrs = (m * 60000) \div 3600000 /\ z.mins = ((m * 60000) % 3600000) \div 60000
  <2>1. GetTimeZoneOffset(minutes) = (-minutes) * 60000
    BY <1>1 DEF GetTimeZoneOffset
  <2>2. (m * 60000) % 86400000 = m * 60000
    BY <1>1
  <2> QED
    BY <1>1, <2>1, <2>2 DEF ZoneText
<1>3. 60 * z.hrs + z.mins = m /\ z.mins < 60
  <2>1. m \in 0..900
    BY <1>1
  <2> HIDE DEF m
  <2>2. 60 * ((m * 60000) \div 3600000) + ((m * 60000) % 3600000) \div 60000 = m
    BY <2>1
  <2>3. ((m * 60000) % 3600000) \div 60000 < 60
    BY <2>1
  <2> QED
    BY <1>2, <2>2, <2>3
<1>4. (IF z.neg THEN -m ELSE m) = -minutes
  <2> HIDE DEF z
  <2>0. z.neg = (minutes > 0)
    BY <1>2
  <2>1. CASE minutes > 0
    BY <1>1, <2>0, <2>1
  <2>2. CASE ~(minutes > 0)
    BY <1>1, <2>0, <2>2
  <2> QED
    BY <2>1, <2>2
<1>5. question'[2] = minutes
  OBVIOUS
<1> HIDE DEF m, z
<1>6. (IF z.neg THEN -(60 * z.hrs + z.mins) ELSE 60 * z.hrs + z.mins) = -question'[2]
  BY <1>3, <1>4, <1>5
<1> QED
  BY <1>3, <1>6 DEF ZonesRight, z

(* Where the names of a path begin.                                        *)
Starts(s) == {i \in 1..Len(s) : s[i] # "/" /\ (i = 1 \/ s[i - 1] = "/")}

(* A set of places of a path has a last one.                               *)
LEMMA LastPlace ==
  ASSUME NEW n \in Nat, NEW S, S \subseteq 1..n, S # {}
  PROVE  \E i \in S : \A j \in S : j <= i
<1> DEFINE below == {n - i : i \in S}
<1>1. PICK k \in below : \A j \in below : k <= j
  <2>1. below \subseteq Nat
    <3>1. \A i \in S : n - i \in Nat
      OBVIOUS
    <3> QED
      BY <3>1
  <2>2. below # {}
    OBVIOUS
  <2> HIDE DEF below
  <2> QED
    BY <2>1, <2>2, LeastNumber
<1>2. PICK i \in S : k = n - i
  OBVIOUS
<1>3. ASSUME NEW j \in S PROVE j <= i
  <2>1. k <= n - j
    BY <1>1
  <2>2. i \in Nat /\ j \in Nat
    OBVIOUS
  <2> QED
    BY <1>2, <2>1, <2>2
<1> QED
  BY <1>3

(* In an absolute path without doubled slashes a name begins after each    *)
(* slash that is not at the end.                                           *)
LEMMA PathUp ==
  ASSUME NEW T, NEW path \in Seq(T), Len(path) > 1, path[1] = "/", ~Doubled(path),
         NEW up, up = PathUpDir(path)
  PROVE  /\ up.found <=> Names(path) > 1
         /\ up.found => /\ Len(up.dest) < Len(path) /\ up.dest = SubSeq(path, 1, Len(up.dest))
                        /\ up.dest[Len(up.dest)] = "/" /\ Names(up.dest) = Names(path) - 1
<1> DEFINE n == Len(path)
           last == IF path[n] = "/" THEN n - 1 ELSE n
           slashes == {i \in 2..last : path[i] = "/"}
<1>1. n \in Nat /\ n > 1 /\ last \in Nat /\ last <= n
  OBVIOUS
<1>2. \A i \in 1..(n - 1) : ~(path[i] = "/" /\ path[i + 1] = "/")
  BY DEF Doubled
<1>3. \A i \in slashes : i + 1 \in Starts(path) /\ i + 1 # 2 /\ i < n
  <2> SUFFICES ASSUME NEW i \in slashes PROVE i + 1 \in Starts(path) /\ i + 1 # 2 /\ i < n
    OBVIOUS
  <2>1. i \in 2..n /\ path[i] = "/" /\ i < n
    BY <1>1
  <2>2. path[i + 1] # "/" /\ i + 1 \in 1..n /\ (i + 1) - 1 = i
    BY <1>1, <1>2, <2>1
  <2> QED
    BY <2>1, <2>2 DEF Starts
<1>4. 2 \in Starts(path)
  <2>1. 1 \in 1..(n - 1) /\ 1 + 1 = 2 /\ 2 \in 1..n /\ 2 - 1 = 1
    BY <1>1
  <2>2. path[2] # "/"
    BY <1>2, <2>1
  <2> QED
    BY <2>1, <2>2 DEF Starts
<1>5. \A j \in Starts(path) : j # 2 => j - 1 \in slashes
  <2> SUFFICES ASSUME NEW j \in Starts(path), j # 2 PROVE j - 1 \in slashes
    OBVIOUS
  <2>1. j \in 1..n /\ path[j] # "/" /\ j # 1 /\ path[j - 1] = "/"
    BY DEF Starts
  <2>2. j - 1 \in 2..last
    BY <1>1, <2>1
  <2> QED
    BY <2>1, <2>2
<1>6. IsFiniteSet(Starts(path))
  <2>1. Starts(path) \subseteq 1..n /\ IsFiniteSet(1..n)
    BY <1>1, FS_Interval DEF Starts
  <2> QED
    BY <2>1, FS_Subset
<1>7. Names(path) = Cardinality(Starts(path)) /\ Names(path) \in Nat
  BY <1>6, FS_CardinalityType DEF Names, Starts
<1>8. CASE slashes = {}
  <2>1. Starts(path) = {2}
    BY <1>4, <1>5, <1>8
  <2>2. Names(path) = 1
    BY <1>7, <2>1, FS_Singleton
  <2>3. up.found = FALSE
    BY <1>8 DEF PathUpDir
  <2> QED
    BY <2>2, <2>3
<1>9. CASE slashes # {}
  <2> DEFINE m == CHOOSE i \in slashes : \A j \in slashes : j <= i
  <2>1. m \in slashes /\ \A j \in slashes : j <= m
    <3>1. slashes \subseteq 1..n
      BY <1>1
    <3>2. \E i \in slashes : \A j \in slashes : j <= i
      <4> HIDE DEF slashes
      <4> QED
        BY <1>1, <1>9, <3>1, LastPlace
    <3> QED
      BY <3>2
  <2>2. up.found = TRUE /\ up.dest = SubSeq(path, 1, m)
    BY <1>9 DEF PathUpDir
  <2>3. m \in 2..n /\ m < n /\ path[m] = "/" /\ m + 1 \in Starts(path) /\ m + 1 # 2
    BY <1>1, <1>3, <2>1
  <2> HIDE DEF m
  <2> DEFINE dest == SubSeq(path, 1, m)
  <2>4. Len(dest) = m /\ \A i \in 1..m : dest[i] = path[i]
    BY <1>1, <2>3
  <2> HIDE DEF dest, slashes
  <2>5. Starts(dest) = Starts(path) \ {m + 1}
    <3>1. ASSUME NEW i \in Starts(dest) PROVE i \in Starts(path) /\ i # m + 1
      <4>1. i \in 1..m /\ i \in 1..n
        BY <1>1, <2>3, <2>4 DEF Starts
      <4>2. path[i] # "/" /\ (i = 1 \/ (i - 1 \in 1..m /\ path[i - 1] = "/"))
        BY <2>3, <2>4, <4>1 DEF Starts
      <4> QED
        BY <2>3, <4>1, <4>2 DEF Starts
    <3>2. ASSUME NEW i \in Starts(path), i # m + 1 PROVE i \in Starts(dest)
      <4>1. i \in 1..n /\ path[i] # "/" /\ (i = 1 \/ path[i - 1] = "/")
        BY DEF Starts
      <4>2. i <= m
        <5>1. CASE i = 2
          BY <2>3, <5>1
        <5>2. CASE i # 2
          BY <1>5, <2>1, <2>3, <3>2, <4>1, <5>2
        <5> QED
          BY <5>1, <5>2
      <4>3. dest[i] # "/" /\ (i = 1 \/ dest[i - 1] = "/") /\ i \in 1..m
        <5>1. i \in 1..m
          BY <2>3, <4>1, <4>2
        <5>2. i = 1 \/ i - 1 \in 1..m
          BY <2>3, <4>1, <4>2
        <5> QED
          BY <2>4, <4>1, <5>1, <5>2
      <4> QED
        BY <2>4, <4>3 DEF Starts
    <3> QED
      BY <3>1, <3>2
  <2>6. Names(dest) = Names(path) - 1
    <3>1. Names(dest) = Cardinality(Starts(dest))
      BY DEF Names, Starts
    <3> QED
      BY <1>6, <1>7, <2>3, <2>5, <3>1, FS_RemoveElement
  <2>7. Names(path) > 1
    <3>1. 2 \in Starts(dest)
      BY <1>4, <2>3, <2>5
    <3>2. IsFiniteSet(Starts(dest))
      BY <1>6, <2>5, FS_RemoveElement
    <3>3. Cardinality(Starts(dest)) # 0 /\ Cardinality(Starts(dest)) \in Nat
      BY <3>1, <3>2, FS_EmptySet, FS_CardinalityType
    <3>4. Names(dest) # 0 /\ Names(dest) \in Nat
      BY <3>3 DEF Names, Starts
    <3> QED
      BY <1>7, <2>6, <3>4
  <2> QED
    BY <2>2, <2>3, <2>4, <2>6, <2>7 DEF dest
<1> QED
  BY <1>8, <1>9

LEMMA UpAnswered ==
  ASSUME NEW path \in Paths, question' = <<"up", path>>, answer' = <<PathUpDir(path)>>
  PROVE  UpRight'
<1>1. /\ path \in Seq({path[i] : i \in DOMAIN path}) /\ Len(path) > 1 /\ path[1] = "/"
  BY NumbersAssumption, ZenonT(60)
<1>2. question'[2] = path /\ answer'[1] = PathUpDir(path)
  OBVIOUS
<1>3. SUFFICES ASSUME ~Doubled(path) PROVE UpRight'
  BY <1>2 DEF UpRight
<1> DEFINE up == PathUpDir(path)
<1>4. /\ up.found <=> Names(path) > 1
      /\ up.found => /\ Len(up.dest) < Len(path) /\ up.dest = SubSeq(path, 1, Len(up.dest))
                     /\ up.dest[Len(up.dest)] = "/" /\ Names(up.dest) = Names(path) - 1
  <2> HIDE DEF up
  <2> QED
    BY <1>1, <1>3, PathUp DEF up
<1> QED
  BY <1>2, <1>4 DEF UpRight

(* Nothing is asked at first.                                              *)
LEMMA NumbersInit ==
  ASSUME NumInit
  PROVE  NumTypeOK /\ NumbersRight
<1>1. question[1] = "nothing"
  BY DEF NumInit
<1> QED
  BY <1>1 DEF NumTypeOK, NumbersRight, TicksRight, EntriesRight, RangesRight, UpRight, ZonesRight

(* Each question is answered right.                                        *)
LEMMA NumbersStep ==
  ASSUME NumTypeOK, NumbersRight, NumStep \/ UNCHANGED numVars
  PROVE  NumTypeOK' /\ NumbersRight'
<1>1. CASE UNCHANGED numVars
  BY <1>1 DEF numVars, NumTypeOK, NumbersRight, TicksRight, EntriesRight, RangesRight, UpRight, ZonesRight
<1>2. ASSUME NEW HZ \in Frequencies, NEW ms \in Waits, Asks(<<"ticks", HZ, ms>>, <<MSToOSTicks(HZ, ms)>>)
      PROVE  NumTypeOK' /\ NumbersRight'
  <2>1. question' = <<"ticks", HZ, ms>> /\ answer' = <<MSToOSTicks(HZ, ms)>>
    BY <1>2 DEF Asks
  <2>2. TicksRight'
    BY <2>1, TicksAnswered
  <2>3. question'[1] = "ticks"
    BY <2>1
  <2> QED
    BY <2>2, <2>3 DEF NumTypeOK, NumbersRight, EntriesRight, RangesRight, UpRight, ZonesRight
<1>3. ASSUME NEW asked \in Accesses3, NEW cache \in CacheTypes,
             Asks(<<"entry", asked, cache>>, <<CreatePageEntry(asked, cache)>>)
      PROVE  NumTypeOK' /\ NumbersRight'
  <2>1. question' = <<"entry", asked, cache>> /\ answer' = <<CreatePageEntry(asked, cache)>>
    BY <1>3 DEF Asks
  <2>2. EntriesRight'
    BY <2>1, EntryAnswered
  <2>3. question'[1] = "entry"
    BY <2>1
  <2> QED
    BY <2>2, <2>3 DEF NumTypeOK, NumbersRight, TicksRight, RangesRight, UpRight, ZonesRight
<1>4. ASSUME NEW address \in 0..(WordSize - 1), NEW length \in -(WordSize \div 2)..(WordSize \div 2 - 1),
             Asks(<<"range", address, length>>, <<IsInRangeEx(address, length)>>)
      PROVE  NumTypeOK' /\ NumbersRight'
  <2>1. question' = <<"range", address, length>> /\ answer' = <<IsInRangeEx(address, length)>>
    BY <1>4 DEF Asks
  <2>2. RangesRight'
    <3>1. question'[2] = address /\ question'[3] = length
      BY <2>1
    <3> QED
      BY <2>1, <3>1, RangeAnswered DEF RangesRight
  <2>3. question'[1] = "range"
    BY <2>1
  <2> QED
    BY <2>2, <2>3 DEF NumTypeOK, NumbersRight, TicksRight, EntriesRight, UpRight, ZonesRight
<1>5. ASSUME NEW path \in Paths, Asks(<<"up", path>>, <<PathUpDir(path)>>)
      PROVE  NumTypeOK' /\ NumbersRight'
  <2>1. question' = <<"up", path>> /\ answer' = <<PathUpDir(path)>>
    BY <1>5 DEF Asks
  <2>2. UpRight'
    BY <2>1, UpAnswered
  <2>3. question'[1] = "up"
    BY <2>1
  <2> QED
    BY <2>2, <2>3 DEF NumTypeOK, NumbersRight, TicksRight, EntriesRight, RangesRight, ZonesRight
<1>6. ASSUME NEW minutes \in ZoneMinutes,
             Asks(<<"zone", minutes>>, <<ZoneText(GetTimeZoneOffset(minutes))>>)
      PROVE  NumTypeOK' /\ NumbersRight'
  <2>1. question' = <<"zone", minutes>> /\ answer' = <<ZoneText(GetTimeZoneOffset(minutes))>>
    BY <1>6 DEF Asks
  <2>2. ZonesRight'
    BY <2>1, ZoneAnswered
  <2>3. question'[1] = "zone"
    BY <2>1
  <2> QED
    BY <2>2, <2>3 DEF NumTypeOK, NumbersRight, TicksRight, EntriesRight, RangesRight, UpRight
<1> QED
  BY <1>1, <1>2, <1>3, <1>4, <1>5, <1>6 DEF NumStep

-----------------------------------------------------------------------------
(* The services together: one of them acts, the others stay where they     *)
(* began.                                                                  *)

IInv ==
  /\ service \in Services
  /\ PointerInv /\ FsInv /\ ProcInv /\ PageInv /\ LogInv /\ ClockTypeOK
  /\ NumTypeOK /\ NumbersRight

(* Days go on from a natural number.                                       *)
LEMMA ClockStays ==
  ASSUME ClockTypeOK, ClockStep \/ UNCHANGED clockVars
  PROVE  ClockTypeOK'
BY DEF ClockTypeOK, ClockStep, clockVars

(* Every reachable state satisfies the invariants of all the services.     *)
THEOREM Invariance == Spec => []IInv
<1>1. Init => IInv
  <2> SUFFICES ASSUME Init PROVE IInv
    OBVIOUS
  <2>1. PointerInv /\ FsInv /\ ProcInv /\ PageInv /\ LogInv
    BY PointerInvInit, FsInvInit, ProcInvInit, PageInvInit, LogInvInit DEF Init
  <2>2. ClockTypeOK /\ NumTypeOK /\ NumbersRight
    BY ClockAssumption, NumbersInit DEF Init, ClockInit, ClockTypeOK
  <2> QED
    BY <2>1, <2>2 DEF Init, IInv
<1>2. IInv /\ [Next]_vars => IInv'
  <2> SUFFICES ASSUME IInv, [Next]_vars PROVE IInv'
    OBVIOUS
  <2>1. /\ PointerStep \/ UNCHANGED pointerVars
        /\ FsStep \/ UNCHANGED fsVars
        /\ ProcStep \/ UNCHANGED procVars
        /\ PageStep \/ UNCHANGED pageVars
        /\ LogStep \/ UNCHANGED logVars
        /\ ClockStep \/ UNCHANGED clockVars
        /\ NumStep \/ UNCHANGED numVars
        /\ UNCHANGED service
    BY DEF Next, vars
  <2>2. PointerInv' /\ FsInv' /\ ProcInv'
    BY <2>1, PointerInvStep, FsInvStep, ProcInvStep DEF IInv
  <2>3. PageInv' /\ LogInv'
    BY <2>1, PageInvStep, LogInvStep DEF IInv
  <2>4. ClockTypeOK' /\ NumTypeOK' /\ NumbersRight'
    BY <2>1, ClockStays, NumbersStep DEF IInv
  <2> QED
    BY <2>1, <2>2, <2>3, <2>4 DEF IInv
<1> QED
  BY <1>1, <1>2, PTL DEF Spec

(* The properties of all services are parts of the invariant.              *)
LEMMA IInvSays ==
  IInv => TypeOK /\ OwnersCounted /\ ReferencesBalanced /\ LinesWhole /\ NumbersRight
<1> SUFFICES ASSUME IInv
             PROVE  TypeOK /\ OwnersCounted /\ ReferencesBalanced /\ LinesWhole /\ NumbersRight
  OBVIOUS
<1>1. PointerTypeOK /\ OwnersCounted
  BY PointerInvSays DEF IInv
<1>2. FsTypeOK /\ FsBalanced
  BY DEF IInv, FsInv
<1>3. ProcTypeOK /\ TasksBalanced /\ PageTypeOK /\ PagesBalanced
  BY ProcInvSays, PageInvSays DEF IInv
<1>4. LogTypeOK /\ LinesWhole
  BY LinesWholeParts DEF IInv, LogInv, LogTypes
<1> QED
  BY <1>1, <1>2, <1>3, <1>4 DEF IInv, TypeOK, ReferencesBalanced

(* The state of every service keeps its types; a counter of an object      *)
(* stays below the number of pointers and references there can be.         *)
THEOREM TypeCorrect == Spec => []TypeOK
BY Invariance, IInvSays, PTL

(* A shared object is freed exactly when its last holder lets go, and its  *)
(* counter is used after that only if a pointer was passed by value,       *)
(* whatever the order of assignments, usages and destructors of any number *)
(* of pointers.                                                            *)
THEOREM OwnersRight == Spec => []OwnersCounted
BY Invariance, IInvSays, PTL

(* Whatever calls fail, and whoever forks and exits meanwhile, entries,    *)
(* mounts, open files, tasks, address spaces and pages are taken and given *)
(* back in equal number, for any number of objects, tasks and frames.      *)
THEOREM ReferencesRight == Spec => []ReferencesBalanced
BY Invariance, IInvSays, PTL

(* Lines of the log and their ends alternate, each end following the line  *)
(* of the thread that wrote it; a line is whole unless another thread was  *)
(* formatting at the same time; old logs are deleted down to what is kept. *)
THEOREM LinesRight == Spec => []LinesWhole
BY Invariance, IInvSays, PTL

(* Whatever is computed is right for every input: ticks of any wait, the   *)
(* protection of any page, ranges at any address, the directory above any  *)
(* path, the notation of any zone the kernel accepts.                      *)
THEOREM ComputationsRight == Spec => []NumbersRight
BY Invariance, IInvSays, PTL
=============================================================================
