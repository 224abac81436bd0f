------------------------ MODULE MemoryDescriptorsProofs ------------------------
(***************************************************************************)
(* The safety of MemoryDescriptors, for every number of descriptors, of    *)
(* pages in the process and in each descriptor, for all entries, starts    *)
(* and bounds.                                                             *)
(***************************************************************************)
EXTENDS MemoryDescriptors, FiniteSetTheorems, WellFoundedInduction, TLAPS

-----------------------------------------------------------------------------
(* Areas.                                                                  *)

Access == {VM_READ, VM_WRITE, VM_EXEC}
Owners == UserDescs \cup {"app"}

(* Areas lie in the address space and share no page.                       *)
Sound(vs) ==
  /\ vs \subseteq Area(Owners)
  /\ \A v \in vs : v.lo <= v.hi
  /\ \A v, w \in vs : v = w \/ v.hi < w.lo \/ w.hi < v.lo

(* Whatever is not the process's lies in an area of the same owner.        *)
Within(new, old) ==
  \A v \in new : v.owner = "app" \/ \E w \in old : v.owner = w.owner /\ w.lo <= v.lo /\ v.hi <= w.hi

LEMMA Space == Top \in Nat /\ Top >= 1 /\ Last = Top + 1 /\ Pages = 0..Last
BY TopAssumption DEF Last, Pages

LEMMA AreaFields ==
  ASSUME NEW v \in Area(Owners)
  PROVE  /\ v.owner \in Owners /\ v.prot \subseteq Access /\ v.may \subseteq Access
         /\ v = [lo |-> v.lo, hi |-> v.hi, owner |-> v.owner, prot |-> v.prot, may |-> v.may]
BY DEF Area, Access

LEMMA AreaNumbers ==
  ASSUME NEW v \in Area(Owners)
  PROVE  /\ v.lo \in Int /\ v.hi \in Int /\ 1 <= v.lo /\ v.lo <= Top /\ 1 <= v.hi /\ v.hi <= Top
         /\ v # NoArea
<1>1. v.lo \in 1..Top /\ v.hi \in 1..Top
  BY DEF Area
<1>2. NoArea.lo = 0
  BY DEF NoArea
<1> QED
  BY <1>1, <1>2, Space

(* Every set of numbers that is not empty has a least one.                 *)
LEMMA LeastNumber ==
  ASSUME NEW N \in SUBSET Nat, N # {}
  PROVE  \E k \in N : \A j \in N : k <= j
<1>1. PICK k \in N : \A j \in N : ~(<<j, k>> \in OpToRel(<, Nat))
  BY WFMin, NatLessThanWellFounded
<1>2. ASSUME NEW j \in N
      PROVE  k <= j
  <2>1. k \in Nat /\ j \in Nat
    OBVIOUS
  <2>2. ~(j < k)
    BY <1>1, <2>1 DEF OpToRel
  <2> QED
    BY <2>1, <2>2
<1> QED
  BY <1>2

(* find_vma finds the lowest area that ends above the page, if any does.   *)
LEMMA FoundArea ==
  ASSUME NEW vs, Sound(vs), NEW page \in Int
  PROVE  LET v == find_vma(vs, page) IN
         \/ v = NoArea /\ \A w \in vs : w.hi < page
         \/ v \in vs /\ v # NoArea /\ v.hi >= page /\ \A w \in vs : w.hi >= page => v.lo <= w.lo
<1> DEFINE Above == {v \in vs : v.hi >= page}
<1>1. vs \subseteq Area(Owners)
  BY DEF Sound
<1>0. \A w \in vs : w.lo \in Int /\ w.hi \in Int /\ w.lo >= 1 /\ w # NoArea
  BY <1>1, AreaNumbers
<1>2. CASE Above = {}
  <2>1. \A w \in vs : w.hi < page
    BY <1>0, <1>2
  <2> QED
    BY <1>2, <2>1 DEF find_vma
<1>3. CASE Above # {}
  <2> DEFINE Lows == {v.lo : v \in Above}
  <2>1. Lows \in SUBSET Nat /\ Lows # {}
    BY <1>0, <1>3
  <2>2. PICK k \in Lows : \A j \in Lows : k <= j
    <3> HIDE DEF Lows
    <3> QED
      BY <2>1, LeastNumber
  <2>3. \E v \in Above : \A w \in Above : v.lo <= w.lo
    BY <2>2
  <2>4. /\ find_vma(vs, page) = CHOOSE v \in Above : \A w \in Above : v.lo <= w.lo
    BY <1>3 DEF find_vma
  <2>5. find_vma(vs, page) \in Above /\ \A w \in Above : find_vma(vs, page).lo <= w.lo
    <3> HIDE DEF Above, Lows
    <3> QED
      BY <2>3, <2>4
  <2> QED
    BY <1>0, <2>5
<1> QED
  BY <1>2, <1>3

(* An area that covers the page is the one it finds.                       *)
LEMMA CoveringArea ==
  ASSUME NEW vs, Sound(vs), NEW page \in Int, NEW v \in vs, Covers(v, page)
  PROVE  find_vma(vs, page) = v
<1> DEFINE f == find_vma(vs, page)
<1>1. /\ v.lo \in Int /\ v.hi \in Int /\ v.lo <= page /\ page <= v.hi
  BY AreaNumbers DEF Sound, Covers
<1>2. f \in vs /\ f.hi >= page /\ f.lo <= v.lo
  BY <1>1, FoundArea
<1>3. f.lo \in Int /\ f.hi \in Int
  BY <1>2, AreaNumbers DEF Sound
<1>4. f = v \/ f.hi < v.lo \/ v.hi < f.lo
  BY <1>2 DEF Sound
<1> QED
  BY <1>1, <1>2, <1>3, <1>4

LEMMA MappedArea ==
  ASSUME NEW vs, Sound(vs), NEW page \in Int, Mapped(vs, page)
  PROVE  find_vma(vs, page) \in vs /\ Covers(find_vma(vs, page), page)
BY CoveringArea DEF Mapped

(* munmap leaves what lies outside of its range.                           *)
LEMMA UnmappedSound ==
  ASSUME NEW vs, Sound(vs), NEW lo \in Int, NEW hi \in Int, lo <= hi + 1
  PROVE  /\ Sound(Unmapped(vs, lo, hi))
         /\ \A v \in Unmapped(vs, lo, hi) :
              /\ v.hi < lo \/ v.lo > hi
              /\ \E w \in vs : /\ v.owner = w.owner
                               /\ w.lo <= v.lo /\ v.hi <= w.hi
                               /\ w.hi < lo \/ w.lo > hi => v = w
         /\ \A w \in vs : w.hi < lo \/ w.lo > hi => w \in Unmapped(vs, lo, hi)
<1> DEFINE cut == Unmapped(vs, lo, hi)
           Left(w)  == [w EXCEPT !.hi = IF w.hi < lo THEN w.hi ELSE lo - 1]
           Right(w) == [w EXCEPT !.lo = IF w.lo > hi THEN w.lo ELSE hi + 1]
           Part(v, w) == /\ v \in Area(Owners) /\ v.lo <= v.hi
                         /\ v.owner = w.owner
                         /\ w.lo <= v.lo /\ v.hi <= w.hi
                         /\ v.hi < lo \/ v.lo > hi
                         /\ w.hi < lo \/ w.lo > hi => v = w
<1>1. vs \subseteq Area(Owners) /\ (\A v \in vs : v.lo <= v.hi)
  BY DEF Sound
<1>2. ASSUME NEW w \in vs, w.lo < lo
      PROVE  Left(w).hi < lo /\ Left(w).lo = w.lo /\ Part(Left(w), w)
  <2>0. /\ w.lo \in Int /\ w.hi \in Int /\ 1 <= w.lo /\ w.hi <= Top /\ w.lo <= w.hi
        /\ w \in Area(Owners) /\ Top \in Nat
    BY <1>1, AreaNumbers, Space
  <2>1. CASE w.hi < lo
    <3>1. Left(w) = w
      BY <2>0, <2>1 DEF Area
    <3> HIDE DEF Left, Right
    <3> QED
      BY <1>2, <2>0, <2>1, <3>1
  <2>2. CASE ~(w.hi < lo)
    <3>1. Left(w) = [w EXCEPT !.hi = lo - 1]
      BY <2>2
    <3>2. lo - 1 \in 1..Top /\ w.lo <= lo - 1 /\ lo - 1 <= w.hi
      BY <1>2, <2>0, <2>2
    <3>3. Left(w) \in Area(Owners) /\ Left(w).hi = lo - 1 /\ Left(w).lo = w.lo
      BY <2>0, <3>1, <3>2 DEF Area
    <3>4. Left(w).owner = w.owner
      BY <2>0, <3>1 DEF Area
    <3> QED
      BY <1>2, <2>0, <2>2, <3>2, <3>3, <3>4
  <2> QED
    BY <2>1, <2>2
<1>3. ASSUME NEW w \in vs, w.hi > hi
      PROVE  Right(w).lo > hi /\ Right(w).hi = w.hi /\ Part(Right(w), w)
  <2>0. /\ w.lo \in Int /\ w.hi \in Int /\ 1 <= w.lo /\ w.hi <= Top /\ w.lo <= w.hi
        /\ w \in Area(Owners) /\ Top \in Nat
    BY <1>1, AreaNumbers, Space
  <2>1. CASE w.lo > hi
    <3>1. Right(w) = w
      BY <2>0, <2>1 DEF Area
    <3> HIDE DEF Left, Right
    <3> QED
      BY <1>3, <2>0, <2>1, <3>1
  <2>2. CASE ~(w.lo > hi)
    <3>1. Right(w) = [w EXCEPT !.lo = hi + 1]
      BY <2>2
    <3>2. hi + 1 \in 1..Top /\ w.lo <= hi + 1 /\ hi + 1 <= w.hi
      BY <1>3, <2>0, <2>2
    <3>3. Right(w) \in Area(Owners) /\ Right(w).lo = hi + 1 /\ Right(w).hi = w.hi
      BY <2>0, <3>1, <3>2 DEF Area
    <3>4. Right(w).owner = w.owner
      BY <2>0, <3>1 DEF Area
    <3> QED
      BY <1>3, <2>0, <2>2, <3>2, <3>3, <3>4
  <2> QED
    BY <2>1, <2>2
<1>4. cut = {Left(w) : w \in {u \in vs : u.lo < lo}} \cup {Right(w) : w \in {u \in vs : u.hi > hi}}
  BY DEF Unmapped
<1>5. ASSUME NEW v \in cut
      PROVE  \E w \in vs : /\ Part(v, w)
                           /\ \/ v = Left(w) /\ w.lo < lo /\ v.hi < lo
                              \/ v = Right(w) /\ w.hi > hi /\ v.lo > hi
  <2> HIDE DEF Left, Right, Part, cut
  <2>1. CASE \E w \in vs : w.lo < lo /\ v = Left(w)
    BY <1>2, <2>1
  <2>2. CASE \E w \in vs : w.hi > hi /\ v = Right(w)
    BY <1>3, <2>2
  <2> QED
    BY <1>4, <2>1, <2>2
<1>6. ASSUME NEW w \in vs, w.hi < lo \/ w.lo > hi
      PROVE  w \in cut
  <2>0. w.lo \in Int /\ w.hi \in Int /\ w.lo <= w.hi /\ w \in Area(Owners)
    BY <1>1, AreaNumbers
  <2>1. CASE w.hi < lo
    <3>1. w.lo < lo /\ Left(w) = w
      BY <2>0, <2>1 DEF Area
    <3> QED
      BY <1>4, <3>1
  <2>2. CASE w.lo > hi
    <3>1. w.hi > hi /\ Right(w) = w
      BY <2>0, <2>2 DEF Area
    <3> QED
      BY <1>4, <3>1
  <2> QED
    BY <1>6, <2>1, <2>2
<1>7. ASSUME NEW v \in cut, NEW u \in cut
      PROVE  v = u \/ v.hi < u.lo \/ u.hi < v.lo
  <2> HIDE DEF cut
  <2>1. PICK w \in vs : /\ Part(v, w)
                        /\ \/ v = Left(w) /\ w.lo < lo /\ v.hi < lo
                           \/ v = Right(w) /\ w.hi > hi /\ v.lo > hi
    BY <1>5
  <2>2. PICK x \in vs : /\ Part(u, x)
                        /\ \/ u = Left(x) /\ x.lo < lo /\ u.hi < lo
                           \/ u = Right(x) /\ x.hi > hi /\ u.lo > hi
    BY <1>5
  <2> HIDE DEF Left, Right
  <2>3. /\ w.lo \in Int /\ w.hi \in Int /\ x.lo \in Int /\ x.hi \in Int
        /\ v.lo \in Int /\ v.hi \in Int /\ u.lo \in Int /\ u.hi \in Int
        /\ w.lo <= v.lo /\ v.hi <= w.hi /\ x.lo <= u.lo /\ u.hi <= x.hi
    BY <1>1, <2>1, <2>2, AreaNumbers
  <2> HIDE DEF Part
  <2>4. w = x \/ w.hi < x.lo \/ x.hi < w.lo
    BY DEF Sound
  <2>5. CASE w = x
    BY <2>1, <2>2, <2>3, <2>5
  <2> QED
    BY <2>3, <2>4, <2>5
<1>8. Sound(cut)
  BY <1>5, <1>7 DEF Sound
<1>9. ASSUME NEW v \in cut
      PROVE  /\ v.hi < lo \/ v.lo > hi
             /\ \E w \in vs : /\ v.owner = w.owner
                              /\ w.lo <= v.lo /\ v.hi <= w.hi
                              /\ w.hi < lo \/ w.lo > hi => v = w
  <2> HIDE DEF cut, Left, Right
  <2> QED
    BY <1>5
<1> HIDE DEF cut, Left, Right, Part
<1>10. /\ Sound(cut)
       /\ \A v \in cut :
            /\ v.hi < lo \/ v.lo > hi
            /\ \E w \in vs : /\ v.owner = w.owner
                             /\ w.lo <= v.lo /\ v.hi <= w.hi
                             /\ w.hi < lo \/ w.lo > hi => v = w
       /\ \A w \in vs : w.hi < lo \/ w.lo > hi => w \in cut
  BY <1>6, <1>8, <1>9
<1> QED
  BY <1>10 DEF cut

LEMMA UnmappedWithin ==
  ASSUME NEW vs, Sound(vs), NEW lo \in Int, NEW hi \in Int, lo <= hi + 1
  PROVE  Within(Unmapped(vs, lo, hi), vs)
BY UnmappedSound DEF Within

(* The areas of the process itself.                                        *)
OfApp(vs) == {v \in vs : v.owner = "app"}

LEMMA UnmappedOfApp ==
  ASSUME NEW vs, Sound(vs), NEW lo \in Int, NEW hi \in Int, lo <= hi + 1,
         \A v \in OfApp(vs) : v.hi < lo \/ v.lo > hi
  PROVE  OfApp(Unmapped(vs, lo, hi)) = OfApp(vs)
BY UnmappedSound DEF OfApp

LEMMA WithinItself ==
  ASSUME NEW vs, vs \subseteq Area(Owners)
  PROVE  Within(vs, vs)
BY AreaNumbers DEF Within

(* An area that replaces a part of another, or lies where there was none.  *)
LEMMA AddedSound ==
  ASSUME NEW vs, Sound(vs), NEW r \in Area(Owners), r.lo <= r.hi,
         \A v \in vs : v.hi < r.lo \/ v.lo > r.hi
  PROVE  Sound(vs \cup {r})
<1> DEFINE new == vs \cup {r}
<1>1. /\ vs \subseteq Area(Owners) /\ \A v \in vs : v.lo <= v.hi
      /\ \A v, w \in vs : v = w \/ v.hi < w.lo \/ w.hi < v.lo
  BY DEF Sound
<1>2. r.lo \in Int /\ r.hi \in Int /\ \A v \in vs : v.lo \in Int /\ v.hi \in Int
  BY <1>1, AreaNumbers
<1>3. \A v, w \in new : v = w \/ v.hi < w.lo \/ w.hi < v.lo
  BY <1>1, <1>2
<1>4. new \subseteq Area(Owners) /\ \A v \in new : v.lo <= v.hi
  BY <1>1
<1> QED
  BY <1>3, <1>4 DEF Sound

(* mprotect gives one page a protection and leaves the rest alone.         *)
LEMMA ProtectedSound ==
  ASSUME NEW vs, Sound(vs), NEW page \in Int, Mapped(vs, page), NEW prot, prot \subseteq Access
  PROVE  LET new == Protected(vs, page, prot) IN
         /\ Sound(new) /\ Within(new, vs)
         /\ find_vma(new, page) # NoArea /\ find_vma(new, page).prot = prot
         /\ Covers(find_vma(new, page), page)
         /\ find_vma(vs, page).owner # "app" => OfApp(new) = OfApp(vs)
<1> DEFINE v == find_vma(vs, page)
           new == Protected(vs, page, prot)
           u == [v EXCEPT !.lo = page, !.hi = page, !.prot = prot]
           rest == Unmapped(vs, page, page)
<1>1. v \in vs /\ Covers(v, page)
  BY MappedArea
<1>2. /\ v \in Area(Owners) /\ v.lo \in Int /\ v.hi \in Int /\ v.lo <= page /\ page <= v.hi
      /\ 1 <= v.lo /\ v.hi <= Top /\ v # NoArea /\ v.owner \in Owners
      /\ vs \subseteq Area(Owners)
  BY <1>1, AreaNumbers, AreaFields DEF Sound, Covers
<1> HIDE DEF v
<1>3. CASE v.prot = prot
  <2>1. new = vs
    BY <1>3 DEF Protected, v
  <2> QED
    BY <1>1, <1>2, <1>3, <2>1, WithinItself DEF v
<1>4. CASE v.prot # prot
  <2>1. new = rest \cup {u}
    BY <1>4 DEF Protected, v
  <2>2. /\ u \in Area(Owners) /\ u.lo = page /\ u.hi = page /\ u.prot = prot
        /\ u.owner = v.owner
    <3>1. page \in 1..Top
      BY <1>2, Space
    <3> QED
      BY <1>2, <3>1 DEF Area, Access
  <2> HIDE DEF u
  <2>3. Sound(rest) /\ Within(rest, vs) /\ \A w \in rest : w.hi < page \/ w.lo > page
    BY UnmappedSound, UnmappedWithin
  <2> HIDE DEF rest
  <2>4. Sound(new)
    BY <2>1, <2>2, <2>3, AddedSound
  <2>5. Within(new, vs)
    BY <1>1, <1>2, <2>1, <2>2, <2>3 DEF Within
  <2>6. u \in new /\ Covers(u, page)
    BY <2>1, <2>2 DEF Covers
  <2> HIDE DEF new
  <2>7. find_vma(new, page) = u
    BY <2>4, <2>6, CoveringArea
  <2>8. u # NoArea
    BY <2>2, AreaNumbers
  <2>9. ASSUME v.owner # "app"
        PROVE  OfApp(new) = OfApp(vs)
    <3>1. ASSUME NEW w \in OfApp(vs)
          PROVE  w.hi < page \/ w.lo > page
      <4>1. w \in vs /\ w # v
        BY <2>9, <3>1 DEF OfApp
      <4>2. w.lo \in Int /\ w.hi \in Int
        BY <1>2, <4>1, AreaNumbers
      <4>3. w.hi < v.lo \/ v.hi < w.lo
        BY <1>1, <4>1 DEF Sound
      <4> QED
        BY <1>2, <4>2, <4>3
    <3>2. OfApp(rest) = OfApp(vs)
      BY <3>1, UnmappedOfApp DEF rest
    <3> QED
      BY <2>1, <2>2, <2>9, <3>2 DEF OfApp
  <2> QED
    BY <2>2, <2>4, <2>5, <2>6, <2>7, <2>8, <2>9 DEF new, v
<1> QED
  BY <1>3, <1>4

(* The allowance changes what an area may be given.                        *)
Allowed(vs, cur, prot) == (vs \ {cur}) \cup {[cur EXCEPT !.may = prot]}

LEMMA AllowedSound ==
  ASSUME NEW vs, Sound(vs), NEW cur \in vs, NEW prot, prot \subseteq Access
  PROVE  /\ Sound(Allowed(vs, cur, prot)) /\ Within(Allowed(vs, cur, prot), vs)
         /\ cur.owner # "app" => OfApp(Allowed(vs, cur, prot)) = OfApp(vs)
<1> DEFINE r == [cur EXCEPT !.may = prot]
           rest == vs \ {cur}
<1>1. cur \in Area(Owners) /\ vs \subseteq Area(Owners) /\ cur.lo <= cur.hi
  BY DEF Sound
<1>2. /\ r \in Area(Owners) /\ r.lo = cur.lo /\ r.hi = cur.hi /\ r.owner = cur.owner
  BY <1>1 DEF Area, Access
<1> HIDE DEF r
<1>3. Allowed(vs, cur, prot) = rest \cup {r}
  BY DEF Allowed, r
<1>4. Sound(rest)
  BY DEF Sound
<1>5. \A v \in rest : v.hi < r.lo \/ v.lo > r.hi
  <2>1. \A v \in rest : v.lo \in Int /\ v.hi \in Int /\ (v.hi < cur.lo \/ cur.hi < v.lo)
    BY <1>1, AreaNumbers DEF Sound
  <2> QED
    BY <1>2, <2>1, AreaNumbers
<1>6. Sound(rest \cup {r})
  BY <1>1, <1>2, <1>4, <1>5, AddedSound
<1>7. Within(rest \cup {r}, vs)
  <2>1. Within(vs, vs)
    BY <1>1, WithinItself
  <2> QED
    BY <1>2, <2>1 DEF Within
<1>8. cur.owner # "app" => OfApp(rest \cup {r}) = OfApp(vs)
  BY <1>2 DEF OfApp
<1> QED
  BY <1>3, <1>6, <1>7, <1>8

(* A mapping lies where nothing was mapped.                                *)
LEMMA FreeSound ==
  ASSUME NEW vs, Sound(vs), NEW lo \in 1..Top, NEW pages \in Nat \ {0}, FreeRange(vs, lo, pages),
         NEW r \in Area(Owners), r.lo = lo, r.hi = lo + pages - 1
  PROVE  Sound(vs \cup {r})
<1>1. lo \in Int /\ lo + pages - 1 \in Int /\ r.lo <= r.hi
  BY Space
<1>2. ASSUME NEW v \in vs
      PROVE  v.hi < r.lo \/ v.lo > r.hi
  <2>1. v.lo \in Int /\ v.hi \in Int /\ v.lo <= v.hi
    BY AreaNumbers DEF Sound
  <2>2. \A p \in lo..(lo + pages - 1) : ~(v.lo <= p /\ p <= v.hi)
    BY DEF FreeRange, Mapped, Covers
  <2>3. lo \in lo..(lo + pages - 1) /\ (v.lo \in lo..(lo + pages - 1) <=> lo <= v.lo /\ v.lo <= lo + pages - 1)
    BY <1>1, <2>1
  <2>4. ~(v.lo <= lo /\ lo <= v.hi)
    BY <2>2, <2>3
  <2>5. ~(lo <= v.lo /\ v.lo <= lo + pages - 1)
    BY <2>1, <2>2, <2>3
  <2> QED
    BY <1>1, <2>1, <2>4, <2>5
<1> QED
  BY <1>1, <1>2, AddedSound

LEMMA NothingSound ==
  ASSUME NEW vs
  PROVE  Sound({}) /\ Within({}, vs)
BY DEF Sound, Within

-----------------------------------------------------------------------------
(* Constants.                                                              *)

LEMMA Counts ==
  /\ SizeInPages \in Nat /\ SizeInPages >= 1
  /\ Indices \subseteq Nat /\ 0 \in Indices
  /\ \A i \in Indices : i <= SizeInPages - 1
  /\ AppCalls \in Nat /\ Inserts \in Nat
  /\ \A s \in Starts : s \in Int /\ 0 <= s /\ s <= Top /\ s + SizeInPages <= Last + 1
<1>0. SizeInPages \in Nat \ {0}
  BY DescriptorAssumption
<1>1. SizeInPages \in Nat /\ SizeInPages >= 1
  BY <1>0
<1>2. Indices \subseteq Nat /\ 0 \in Indices /\ \A i \in Indices : i <= SizeInPages - 1
  BY <1>1 DEF Indices
<1>3. Starts \subseteq 0..Top /\ \A s \in Starts : s + SizeInPages <= Last + 1
  BY DescriptorAssumption
<1>4. \A s \in Starts : s \in Int /\ 0 <= s /\ s <= Top
  BY <1>3, Space
<1> QED
  BY <1>1, <1>2, <1>3, <1>4, DescriptorAssumption

LEMMA Names ==
  /\ "app" \notin UserDescs /\ "mm" \notin UserDescs /\ "none" \notin UserDescs
  /\ Empty \notin UserDescs /\ DummyPage \notin UserDescs
  /\ UserDescs \subseteq Descs /\ KernDescs \subseteq Descs
  /\ \A d \in KernDescs : d \notin UserDescs
  /\ UserEntries \subseteq Entries /\ KernEntries \subseteq Entries
BY DescriptorAssumption DEF Empty, DummyPage, Descs, Entries

LEMMA EntryFields ==
  ASSUME NEW e \in Entries
  PROVE  /\ e.type \in {"page", "address", "pfn", "dummy"}
         /\ e.value \in Nat /\ e.access \subseteq Access
         /\ e.type = "address" => e.value % PageSize = 0
         /\ e # Absent
<1>1. e \in [type: {"page", "address", "pfn", "dummy"}, value: Nat,
             access: SUBSET {VM_READ, VM_WRITE, VM_EXEC}]
  BY DescriptorAssumption DEF Entries
<1>2. e.type = "address" => e.value % PageSize = 0
  BY DescriptorAssumption DEF Entries
<1>3. e.type \in {"page", "address", "pfn", "dummy"} /\ e.value \in Nat /\ e.access \subseteq Access
  BY <1>1 DEF Access
<1>4. Absent.type = "absent"
  BY DEF Absent
<1>5. e # Absent
  BY <1>3, <1>4
<1> QED
  BY <1>2, <1>3, <1>5

Puttable == Entries \cup {Absent, Dummy}

LEMMA ProtType ==
  ASSUME NEW e \in Puttable
  PROVE  GetMProtectProt(e) \subseteq Access
<1>1. e.access \subseteq Access
  BY EntryFields DEF Puttable, Absent, Dummy
<1> QED
  BY <1>1 DEF GetMProtectProt, Access

(* Both ways to the address of what an entry stands for agree.             *)
LEMMA KernelMapsPhys ==
  ASSUME NEW e \in Entries
  PROVE  /\ KernelMaps(e) \in Int
         /\ KernelMaps(e) = IF e.type = "dummy" THEN DummyFrame ELSE PagePhysAddr(e)
<1>1. e.value \in Nat /\ e.type \in {"page", "address", "pfn", "dummy"}
  BY EntryFields
<1>2. CASE e.type = "dummy"
  BY <1>2 DEF KernelMaps, DummyFrame
<1>3. CASE e.type = "page"
  <2>1. KernelMaps(e) = pfn_to_phys(page_to_pfn(e.value))
    BY <1>3 DEF KernelMaps, PfnOf
  <2>2. PagePhysAddr(e) = pfn_to_phys(page_to_pfn(e.value))
    BY <1>3 DEF PagePhysAddr, PfnOf
  <2>3. page_to_pfn(e.value) \in Int
    BY <1>1 DEF page_to_pfn, VmemMap, StructPage
  <2>4. pfn_to_phys(page_to_pfn(e.value)) \in Int
    BY <2>3 DEF pfn_to_phys, PageSize
  <2> QED
    BY <1>3, <2>1, <2>2, <2>4
<1>4. CASE e.type = "address"
  <2>1. KernelMaps(e) = pfn_to_phys(phys_to_pfn(e.value))
    BY <1>4 DEF KernelMaps, PfnOf
  <2>2. PagePhysAddr(e) = e.value
    BY <1>4 DEF PagePhysAddr
  <2>3. e.value % 4096 = 0
    BY <1>4, EntryFields DEF PageSize
  <2>4. (e.value \div 4096) * 4096 = e.value
    BY <1>1, <2>3
  <2>5. pfn_to_phys(phys_to_pfn(e.value)) = e.value
    BY <2>4 DEF pfn_to_phys, phys_to_pfn, PageSize
  <2> QED
    BY <1>1, <1>4, <2>1, <2>2, <2>5
<1>5. CASE e.type = "pfn"
  <2>1. KernelMaps(e) = pfn_to_phys(e.value) /\ PagePhysAddr(e) = pfn_to_phys(e.value)
    BY <1>5 DEF KernelMaps, PagePhysAddr, PfnOf
  <2>2. pfn_to_phys(e.value) \in Int
    BY <1>1 DEF pfn_to_phys, PageSize
  <2> QED
    BY <1>5, <2>1, <2>2
<1> QED
  BY <1>1, <1>2, <1>3, <1>4, <1>5

LEMMA ZonePages ==
  ASSUME NEW d \in UserDescs, NEW i \in Indices, address[d] \in Pages
  PROVE  /\ ZoneAddress(d, i) \in Int /\ 0 <= ZoneAddress(d, i)
         /\ address[d] # Last /\ address[d] + SizeInPages <= Last + 1
              => ZoneAddress(d, i) = address[d] + i
<1>1. /\ address[d] \in Int /\ 0 <= address[d] /\ i \in Int /\ 0 <= i /\ i <= SizeInPages - 1
      /\ SizeInPages \in Int /\ Last \in Int /\ 0 < Last + 1
  BY Counts, Space
<1> DEFINE a == address[d] + i  m == Last + 1
<1>2. a \in Nat /\ m \in Nat /\ m > 0 /\ (address[d] + SizeInPages <= m => a < m)
  BY <1>1
<1>3. ZoneAddress(d, i) = a % m
  BY DEF ZoneAddress, WrapPage
<1> HIDE DEF a, m
<1>4. a % m \in Int /\ 0 <= a % m /\ (a < m => a % m = a)
  BY <1>2
<1> QED
  BY <1>2, <1>3, <1>4 DEF a, m

-----------------------------------------------------------------------------
(* The invariant.                                                          *)

(* A descriptor that may have pages and areas in the process.              *)
Present(d) ==
  \/ desc[d] \in {"alive", "closing"}
  \/ desc[d] \in {"unmapped", "dead"} /\ (lingering[d] \/ d \in kept)

(* It put a page where no area was.                                        *)
Strays(d) == \E m \in BOOLEAN : <<d, m>> \in stray

InZone(d, p) == address[d] # Last /\ address[d] <= p /\ p <= address[d] + SizeInPages - 1

(* What a descriptor has in the process lies in its zone, and its pages in *)
(* areas, but for one that strays.                                         *)
OwnInv ==
  \A d \in UserDescs :
    /\ \A v \in areas : v.owner = d => Present(d) /\ InZone(d, v.lo) /\ InZone(d, v.hi)
    /\ \A p \in 1..Top : pte[p] = d => Strays(d) \/ (Present(d) /\ InZone(d, p) /\ Mapped(areas, p))

(* What a descriptor has while it lives.                                   *)
LifeInv ==
  \A d \in UserDescs :
    /\ desc[d] \in {"none", "mapping"} => ~lingering[d]
    /\ desc[d] \notin {"none", "dead"} => stub[d]
    /\ desc[d] # "none" => address[d] = Last \/ address[d] + SizeInPages <= Last + 1

(* An insertion that got past mprotect finds the protection it asked for,  *)
(* unless somebody touched the area since.                                 *)
StepInv ==
  \A d \in UserDescs :
    /\ work[d].at # "idle" => desc[d] \in {"alive", "closing"}
    /\ At(d, "page") =>
         /\ address[d] # Last
         /\ touched[d] \/ LET v == find_vma(areas, ZoneAddress(d, work[d].index)) IN
                          /\ v # NoArea /\ v.prot = GetMProtectProt(work[d].put)
                          /\ Covers(v, ZoneAddress(d, work[d].index))

-----------------------------------------------------------------------------
(* Types, in parts.                                                        *)

Works == [at: {"idle", "allowance", "protect", "page"}, index: Indices, put: Puttable,
          want: Entries \cup {Absent}, why: {"none", "insert", "remove", "unwind", "close"}]

DescOK == desc \in [Descs -> {"none", "mapping", "alive", "closing", "unmapped", "dead"}]
EntryOK == entries \in [Descs -> [Indices -> Entries \cup {Absent}]]
ZoneOK ==
  /\ lingering \in [Descs -> BOOLEAN] /\ address \in [Descs -> Pages]
  /\ hasMm \in [UserDescs -> BOOLEAN] /\ stub \in [UserDescs -> BOOLEAN]
  /\ kept \subseteq UserDescs /\ stray \subseteq UserDescs \X BOOLEAN
WorkOK == work \in [UserDescs -> Works]
KpteOK == kpte \in [KernDescs -> [Indices -> Int]]
PteOK == pte \in [1..Top -> UserDescs \cup {Empty, DummyPage}]
MmOK == mmUsers \in Nat /\ missed \in Nat
AppOK == appAlive \in BOOLEAN /\ appCalls \in 0..AppCalls /\ inserts \in 0..Inserts
TouchedOK == touched \in [UserDescs -> BOOLEAN]
HaltedOK ==
  halted \in {"no", "panic", "assert", "uninitialised entry", "no mm", "freed mm", "page in use",
             "stale handler"}

LEMMA TypeParts ==
  /\ TypeOK => /\ DescOK /\ EntryOK /\ ZoneOK /\ WorkOK /\ KpteOK /\ PteOK /\ MmOK /\ AppOK
               /\ TouchedOK /\ HaltedOK
  /\ Sound(areas) /\ DescOK /\ EntryOK /\ ZoneOK /\ WorkOK /\ KpteOK /\ PteOK /\ MmOK /\ AppOK
       /\ TouchedOK /\ HaltedOK => TypeOK
BY DEF TypeOK, Sound, Owners, DescOK, EntryOK, ZoneOK, WorkOK, Works, Puttable, KpteOK, PteOK, MmOK,
       AppOK, TouchedOK, HaltedOK

-----------------------------------------------------------------------------
(* Steps, taken apart.  The three parts of an insertion end in one of      *)
(* seven ways.                                                             *)

Zone(d) == ZoneAddress(d, work[d].index)
Found(d) == find_vma(areas, Zone(d))
Wanted(d) == GetMProtectProt(work[d].put)

Faults(d) ==
  /\ work[d].at # "idle" \/ (desc[d] = "closing" /\ ~lingering[d])
  /\ MmFault(d)

Misses(d) ==
  /\ At(d, "allowance") /\ MmUsable(d)
  /\ MmUsers(mmUsers - 1) /\ missed' = missed + 1 /\ Failed(d)
  /\ UNCHANGED <<desc, kpte, zoneVars, appVars>>

Allows(d) ==
  /\ At(d, "allowance") /\ MmUsable(d) /\ Found(d) # NoArea
  /\ ChangeAreas(d, Allowed(areas, Found(d), Wanted(d)))
  /\ GoTo(d, "protect")
  /\ UNCHANGED <<desc, kpte, zoneVars, appVars, mmUsers, missed, halted>>

Protects(d) ==
  /\ At(d, "protect") /\ MmUsable(d) /\ address[d] # Last /\ Mapped(areas, Zone(d))
  /\ ChangeAreas(d, Protected(areas, Zone(d), Wanted(d)))
  /\ GoTo(d, "page")
  /\ UNCHANGED <<desc, kpte, zoneVars, appVars, mmUsers, missed, halted>>

Refuses(d) ==
  /\ work[d].at # "idle"
  /\ Failed(d)
  /\ UNCHANGED <<desc, kpte, zoneVars, appVars, mmVars, missed, touched>>

Panics(d) ==
  /\ At(d, "page")
  /\ \/ Found(d).prot # Wanted(d) /\ Found(d) # NoArea /\ Halt("panic")
     \/ Halt("page in use")

Puts(d) ==
  \/ InjectPage(d, Zone(d)) /\ UNCHANGED stray
  \/ InjectPfn(d, Zone(d))

Injects(d) ==
  /\ At(d, "page") /\ Found(d) # NoArea
  /\ Puts(d) /\ Inserted(d)
  /\ touched' = [touched EXCEPT ![d] = FALSE]
  /\ UNCHANGED <<desc, kpte, lingering, address, hasMm, stub, kept, appVars, areas, mmUsers, missed,
                 halted>>

Leaves(d) ==
  \/ lingering[d] /\ UNCHANGED <<mmVars, touched, kept>>
  \/ ~lingering[d] /\ MmUsers(mmUsers - 1) /\ kept' = kept \cup {d}

Takes(d) ==
  /\ ~lingering[d] /\ mmUsers' = mmUsers - 1 /\ UNCHANGED kept
  /\ ChangeAreas(d, IF mmUsers = 1 THEN {} ELSE UnmapSpecial(d))

Frees(d) ==
  /\ Closable(d) /\ (~lingering[d] => MmUsable(d))
  /\ desc' = [desc EXCEPT ![d] = "unmapped"]
  /\ Leaves(d) \/ Takes(d)
  /\ UNCHANGED <<entries, work, kpte, lingering, address, hasMm, stub, stray, appVars, missed, halted>>

Inserting(d) ==
  Faults(d) \/ Misses(d) \/ Allows(d) \/ Protects(d) \/ Refuses(d) \/ Panics(d) \/ Injects(d)

Living(d) ==
  \/ \E s \in Starts : AllocateZone(d, s)
  \/ MappingTryInsert(d) \/ InvalidateImp(d) \/ Frees(d) \/ FreeZoneContext(d)
  \/ \E i \in Indices : CleanUpPageEntry(d, i)
  \/ \E i \in Indices, e \in UserEntries : PageInsert(d, i, e)

Kernel(d) ==
  KernelStep(d) \/ \E i \in Indices, e \in KernEntries : KernelPageInsert(d, i, e)

LEMMA UserCases ==
  ASSUME NEW d \in UserDescs, UserStep(d)
  PROVE  Inserting(d) \/ Living(d)
<1>1. CASE UpdateMProtectAllowance(d)
  <2>1. CASE MmFault(d)
    <3>1. work[d].at # "idle"
      BY <1>1 DEF UpdateMProtectAllowance, At
    <3> QED
      BY <2>1, <3>1 DEF Inserting, Faults
  <2>2. CASE ~MmFault(d)
    BY <1>1, <2>2 DEF UpdateMProtectAllowance, Inserting, Misses, Allows, Allowed, Found, Zone, Wanted
  <2> QED
    BY <2>1, <2>2
<1>2. CASE MProtect(d)
  <2>1. CASE MmFault(d)
    <3>1. work[d].at # "idle"
      BY <1>2 DEF MProtect, At
    <3> QED
      BY <2>1, <3>1 DEF Inserting, Faults
  <2>2. CASE ~MmFault(d)
    BY <1>2, <2>2 DEF MProtect, MayProtect, Inserting, Protects, Refuses, At, Zone, Wanted, mmVars
  <2> QED
    BY <2>1, <2>2
<1>3. CASE UpdatePageEntry(d)
  <2>1. CASE MmFault(d)
    <3>1. work[d].at # "idle"
      BY <1>3 DEF UpdatePageEntry, At
    <3> QED
      BY <2>1, <3>1 DEF Inserting, Faults
  <2>2. CASE ~MmFault(d)
    BY <1>3, <2>2
    DEF UpdatePageEntry, Inserting, Refuses, Panics, Injects, Puts, At, Found, Zone, Wanted
  <2> QED
    BY <2>1, <2>2
<1>4. CASE FreeZoneMapping(d)
  BY <1>4 DEF FreeZoneMapping, Closable, Faults, Frees, Leaves, Takes, Inserting, Living
<1> QED
  BY <1>1, <1>2, <1>3, <1>4 DEF UserStep, Living

LEMMA StepCases ==
  ASSUME [Next]_vars
  PROVE  \/ UNCHANGED vars
         \/ /\ halted = "no" /\ (inserts' = inserts \/ (inserts < Inserts /\ inserts' = inserts + 1))
            /\ \/ \E d \in UserDescs : Inserting(d)
               \/ \E d \in UserDescs : Living(d)
               \/ \E d \in KernDescs : Kernel(d)
               \/ \E d \in Descs : ForceLinger(d)
               \/ AppStep
<1>1. CASE \E i \in Indices : InsertStep(i) /\ halted = "no"
  BY <1>1 DEF InsertStep, Living, Kernel
<1>2. CASE /\ halted = "no" /\ UNCHANGED inserts
           /\ \/ \E d \in UserDescs : UserStep(d)
              \/ \E d \in KernDescs : KernelStep(d)
              \/ \E d \in Descs : ForceLinger(d)
              \/ AppStep
  <2>1. ASSUME NEW d \in UserDescs, UserStep(d)
        PROVE  Inserting(d) \/ Living(d)
    BY <2>1, UserCases
  <2>2. ASSUME NEW d \in KernDescs, KernelStep(d)
        PROVE  Kernel(d)
    BY <2>2 DEF Kernel
  <2> QED
    BY <1>2, <2>1, <2>2
<1> QED
  BY <1>1, <1>2 DEF Next

-----------------------------------------------------------------------------
(* How an insertion ends.                                                  *)

LEMMA FailedFacts ==
  ASSUME EntryOK, WorkOK, halted = "no", NEW d \in UserDescs, Failed(d)
  PROVE  /\ EntryOK' /\ WorkOK'
         /\ \A e \in UserDescs : e # d => work'[e] = work[e]
         /\ \A k \in KernDescs : entries'[k] = entries[k]
         /\ \/ work'[d].at \in {"idle", "allowance"} /\ halted' = "no"
            \/ UNCHANGED <<work, entries>> /\ halted' \in {"uninitialised entry", "assert"}
<1>1. work[d] \in Works /\ work[d].index \in Indices /\ d \in Descs
  BY Names DEF WorkOK, Works
<1>2. Idle \in Works
  BY Counts DEF Idle, Works, Puttable
<1>3. CASE UNCHANGED <<work, entries>> /\ halted' \in {"uninitialised entry", "assert"}
  BY <1>3 DEF EntryOK, WorkOK
<1>4. CASE SetEntry(d, Absent) /\ Done(d) /\ UNCHANGED halted
  <2>1. entries' = [entries EXCEPT ![d][work[d].index] = Absent] /\ work' = [work EXCEPT ![d] = Idle]
    BY <1>4 DEF SetEntry, Done
  <2>2. EntryOK'
    BY <1>1, <2>1 DEF EntryOK
  <2>3. WorkOK'
    BY <1>2, <2>1 DEF WorkOK
  <2>4. work'[d].at = "idle"
    BY <2>1 DEF WorkOK, Idle
  <2>5. \A k \in KernDescs : entries'[k] = entries[k]
    BY <2>1, Names DEF EntryOK
  <2> QED
    BY <1>4, <2>1, <2>2, <2>3, <2>4, <2>5 DEF WorkOK
<1>5. CASE InsertAt(d, work[d].index, Dummy, Absent, "unwind") /\ UNCHANGED <<entries, halted>>
  <2> DEFINE w == [at |-> "allowance", index |-> work[d].index, put |-> Dummy, want |-> Absent,
                   why |-> "unwind"]
  <2>1. work' = [work EXCEPT ![d] = w]
    BY <1>5 DEF InsertAt
  <2>2. w \in Works /\ w.at = "allowance"
    BY <1>1 DEF Works, Puttable
  <2> HIDE DEF w
  <2>3. WorkOK' /\ work'[d] = w /\ \A e \in UserDescs : e # d => work'[e] = work[e]
    BY <2>1, <2>2 DEF WorkOK
  <2> QED
    BY <1>5, <2>2, <2>3 DEF EntryOK
<1> QED
  BY <1>3, <1>4, <1>5 DEF Failed

LEMMA InsertedFacts ==
  ASSUME EntryOK, WorkOK, NEW d \in UserDescs, Inserted(d)
  PROVE  /\ EntryOK' /\ WorkOK'
         /\ \A e \in UserDescs : e # d => work'[e] = work[e]
         /\ \A k \in KernDescs : entries'[k] = entries[k]
         /\ work'[d].at \in {"idle", "allowance"}
<1>1. work[d] \in Works /\ work[d].index \in Indices /\ work[d].want \in Entries \cup {Absent}
      /\ d \in Descs
  BY Names DEF WorkOK, Works
<1>2. Idle \in Works
  BY Counts DEF Idle, Works, Puttable
<1>3. ASSUME NEW x \in Entries \cup {Absent}, SetEntry(d, x), Done(d)
      PROVE  /\ EntryOK' /\ WorkOK'
             /\ \A e \in UserDescs : e # d => work'[e] = work[e]
             /\ \A k \in KernDescs : entries'[k] = entries[k]
             /\ work'[d].at \in {"idle", "allowance"}
  <2>1. entries' = [entries EXCEPT ![d][work[d].index] = x] /\ work' = [work EXCEPT ![d] = Idle]
    BY <1>3 DEF SetEntry, Done
  <2>2. EntryOK'
    BY <1>1, <2>1 DEF EntryOK
  <2>3. WorkOK'
    BY <1>2, <2>1 DEF WorkOK
  <2>4. work'[d].at = "idle"
    BY <2>1 DEF WorkOK, Idle
  <2>5. \A k \in KernDescs : entries'[k] = entries[k]
    BY <2>1, Names DEF EntryOK
  <2> QED
    BY <2>1, <2>2, <2>3, <2>4, <2>5 DEF WorkOK
<1>4. CASE InsertAt(d, work[d].index, work[d].want, work[d].want, "insert") /\ UNCHANGED entries
  <2> DEFINE w == [at |-> "allowance", index |-> work[d].index, put |-> work[d].want,
                   want |-> work[d].want, why |-> "insert"]
  <2>1. work' = [work EXCEPT ![d] = w]
    BY <1>4 DEF InsertAt
  <2>2. w \in Works /\ w.at = "allowance"
    BY <1>1 DEF Works, Puttable
  <2> HIDE DEF w
  <2>3. WorkOK' /\ work'[d] = w /\ \A e \in UserDescs : e # d => work'[e] = work[e]
    BY <2>1, <2>2 DEF WorkOK
  <2> QED
    BY <1>4, <2>2, <2>3 DEF EntryOK
<1> QED
  BY <1>1, <1>3, <1>4 DEF Inserted

-----------------------------------------------------------------------------
(* What becomes of the areas.                                              *)

Reshapes(m) == \E new : Sound(new) /\ Within(new, areas) /\ ChangeAreas(m, new)

Installs(d) ==
  \E p \in 1..Top : /\ desc[d] = "mapping" /\ desc' = [desc EXCEPT ![d] = "alive"]
                    /\ FreeRange(areas, p, SizeInPages) /\ address' = [address EXCEPT ![d] = p]
                    /\ UNCHANGED lingering
                    /\ InstallSpecialMapping(d, p)

LEMMA MmUsersAreas ==
  ASSUME NEW n, MmUsers(n)
  PROVE  UNCHANGED <<areas, pte, touched>> \/ Reshapes("mm")
BY NothingSound DEF MmUsers, Reshapes

LEMMA WorkFacts ==
  ASSUME TypeOK, NEW d \in UserDescs
  PROVE  /\ work[d].index \in Indices /\ Zone(d) \in Int /\ 0 <= Zone(d) /\ Wanted(d) \subseteq Access
         /\ address[d] \in Pages /\ address[d] \in Int
         /\ address[d] # Last /\ address[d] + SizeInPages <= Last + 1
              => Zone(d) = address[d] + work[d].index
<1>1. work[d] \in Works /\ address[d] \in Pages
  BY TypeParts, Names DEF WorkOK, ZoneOK
<1>2. work[d].index \in Indices /\ work[d].put \in Puttable
  BY <1>1 DEF Works
<1> QED
  BY <1>1, <1>2, ZonePages, ProtType, Space DEF Zone, Wanted

LEMMA InsertingAreas ==
  ASSUME TypeOK, Sound(areas), NEW d \in UserDescs, Inserting(d)
  PROVE  UNCHANGED <<areas, pte>> \/ Reshapes(d) \/ Reshapes("mm") \/ Injects(d)
<1>1. CASE Faults(d) \/ Refuses(d) \/ Panics(d)
  BY <1>1 DEF Faults, MmFault, Refuses, Panics, Halt, mmVars
<1>2. CASE Misses(d)
  BY <1>2, MmUsersAreas DEF Misses
<1>3. CASE Allows(d)
  <2>1. Found(d) \in areas
    BY <1>3, WorkFacts, FoundArea DEF Allows, Found
  <2>2. Sound(Allowed(areas, Found(d), Wanted(d))) /\ Within(Allowed(areas, Found(d), Wanted(d)), areas)
    BY <2>1, WorkFacts, AllowedSound
  <2> QED
    BY <1>3, <2>2 DEF Allows, Reshapes
<1>4. CASE Protects(d)
  <2>1. /\ Sound(Protected(areas, Zone(d), Wanted(d)))
        /\ Within(Protected(areas, Zone(d), Wanted(d)), areas)
    BY <1>4, WorkFacts, ProtectedSound DEF Protects
  <2> QED
    BY <1>4, <2>1 DEF Protects, Reshapes
<1> QED
  BY <1>1, <1>2, <1>3, <1>4 DEF Inserting

LEMMA LivingAreas ==
  ASSUME TypeOK, Sound(areas), NEW d \in UserDescs, Living(d)
  PROVE  UNCHANGED <<areas, pte>> \/ Reshapes(d) \/ Reshapes("mm") \/ Installs(d)
<1>1. CASE MappingTryInsert(d)
  <2>1. CASE UNCHANGED <<areas, pte, touched>>
    BY <2>1
  <2>2. CASE ~UNCHANGED <<areas, pte, touched>>
    <3>1. \E p \in RequestUnmappedArea :
            p # Last /\ address' = [address EXCEPT ![d] = p] /\ InstallSpecialMapping(d, p)
      BY <1>1, <2>2 DEF MappingTryInsert
    <3> QED
      BY <1>1, <3>1 DEF MappingTryInsert, RequestUnmappedArea, Installs
  <2> QED
    BY <2>1, <2>2
<1>2. CASE Frees(d)
  <2>1. /\ address[d] \in Int /\ address[d] + SizeInPages - 1 \in Int
        /\ address[d] <= address[d] + SizeInPages - 1 + 1
    BY WorkFacts, Counts
  <2>2. areas \subseteq Area(Owners)
    BY DEF Sound
  <2>3. Sound(UnmapSpecial(d)) /\ Within(UnmapSpecial(d), areas)
    BY <2>1, <2>2, UnmappedSound, UnmappedWithin, WithinItself DEF UnmapSpecial
  <2>4. CASE Takes(d)
    BY <2>3, <2>4, NothingSound DEF Takes, Reshapes
  <2>5. CASE Leaves(d)
    BY <2>5, MmUsersAreas DEF Leaves, mmVars
  <2> QED
    BY <1>2, <2>4, <2>5 DEF Frees
<1>3. CASE \/ \E s \in Starts : AllocateZone(d, s)
           \/ InvalidateImp(d) \/ FreeZoneContext(d)
           \/ \E i \in Indices : CleanUpPageEntry(d, i)
           \/ \E i \in Indices, e \in UserEntries : PageInsert(d, i, e)
  BY <1>3 DEF AllocateZone, InvalidateImp, FreeZoneContext, CleanUpPageEntry, PageInsert, mmVars
<1> QED
  BY <1>1, <1>2, <1>3 DEF Living

LEMMA AppAreasStep ==
  ASSUME TypeOK, Sound(areas), AppStep
  PROVE  UNCHANGED <<areas, pte, touched>> \/ Reshapes("app") \/ Reshapes("mm")
<1>1. ASSUME NEW p \in 1..Top, AppMaps(p)
      PROVE  Reshapes("app")
  <2> DEFINE r == [lo |-> p, hi |-> p, owner |-> "app", prot |-> {VM_READ}, may |-> {VM_READ, VM_WRITE}]
  <2>1. r \in Area(Owners) /\ r.lo = p /\ r.hi = p + 1 - 1 /\ r.owner = "app"
    BY Space DEF Area, Owners
  <2>2. ChangeAreas("app", areas \cup {r}) /\ FreeRange(areas, p, 1)
    BY <1>1 DEF AppMaps
  <2> HIDE DEF r
  <2>3. Sound(areas \cup {r})
    BY <2>1, <2>2, FreeSound
  <2>4. Within(areas, areas)
    BY WithinItself DEF Sound
  <2>5. Within(areas \cup {r}, areas)
    BY <2>1, <2>4 DEF Within
  <2> QED
    BY <2>2, <2>3, <2>5 DEF Reshapes
<1>2. ASSUME NEW p \in 1..Top, AppUnmaps(p)
      PROVE  Reshapes("app")
  <2>1. p \in Int /\ p <= p + 1
    OBVIOUS
  <2> QED
    BY <1>2, <2>1, UnmappedSound, UnmappedWithin DEF AppUnmaps, Reshapes
<1>3. ASSUME NEW p \in 1..Top, NEW prot, AppProtects(p, prot)
      PROVE  Reshapes("app")
  <2>1. p \in Int /\ Mapped(areas, p) /\ prot \subseteq find_vma(areas, p).may
    BY <1>3 DEF AppProtects, MayProtect
  <2>2. find_vma(areas, p) \in Area(Owners)
    BY <2>1, MappedArea DEF Sound
  <2>3. prot \subseteq Access
    BY <2>1, <2>2, AreaFields
  <2> QED
    BY <1>3, <2>1, <2>3, ProtectedSound DEF AppProtects, Reshapes
<1>4. ASSUME NEW p \in 1..Top, AppFaults(p)
      PROVE  UNCHANGED <<areas, pte, touched>>
  BY <1>4 DEF AppFaults, Halt, mmVars
<1>5. CASE AppExits
  BY <1>5, MmUsersAreas DEF AppExits
<1> QED
  BY <1>1, <1>2, <1>3, <1>4, <1>5 DEF AppStep

LEMMA KernelAreas ==
  ASSUME NEW d, Kernel(d) \/ ForceLinger(d)
  PROVE  UNCHANGED <<areas, pte>>
BY DEF Kernel, KernelStep, KernelZone, KernelInvalidateImp, KernelPageInsert, ForceLinger, mmVars

LEMMA AreaCases ==
  ASSUME TypeOK, Sound(areas), [Next]_vars
  PROVE  \/ UNCHANGED <<areas, pte>>
         \/ \E m \in UserDescs \cup {"app", "mm"} : Reshapes(m)
         \/ \E d \in UserDescs : Installs(d) \/ Injects(d)
<1>1. CASE UNCHANGED vars
  BY <1>1 DEF vars, mmVars
<1> QED
  BY <1>1, StepCases, InsertingAreas, LivingAreas, KernelAreas, AppAreasStep

LEMMA SoundStep ==
  ASSUME TypeOK, Sound(areas), [Next]_vars
  PROVE  Sound(areas)'
<1>1. CASE UNCHANGED <<areas, pte>>
  BY <1>1
<1>2. CASE \E m \in UserDescs \cup {"app", "mm"} : Reshapes(m)
  BY <1>2 DEF Reshapes, ChangeAreas
<1>3. ASSUME NEW d \in UserDescs, Installs(d)
      PROVE  Sound(areas)'
  <2>1. PICK p \in 1..Top : FreeRange(areas, p, SizeInPages) /\ InstallSpecialMapping(d, p)
    BY <1>3 DEF Installs
  <2> DEFINE r == [lo |-> p, hi |-> p + SizeInPages - 1, owner |-> d, prot |-> {}, may |-> {}]
  <2>2. areas' = areas \cup {r}
    BY <2>1 DEF InstallSpecialMapping, ChangeAreas
  <2>3. SizeInPages \in Nat \ {0} /\ p + SizeInPages - 1 \in 1..Top
    BY <2>1, Counts, Space DEF FreeRange
  <2>4. r \in Area(Owners) /\ r.lo = p /\ r.hi = p + SizeInPages - 1
    BY <2>3 DEF Area, Owners
  <2> HIDE DEF r
  <2> QED
    BY <2>1, <2>2, <2>3, <2>4, FreeSound
<1>4. ASSUME NEW d \in UserDescs, Injects(d)
      PROVE  Sound(areas)'
  BY <1>4 DEF Injects
<1> QED
  BY <1>1, <1>2, <1>3, <1>4, AreaCases

-----------------------------------------------------------------------------
(* Types.                                                                  *)

LEMMA AreasTypes ==
  ASSUME PteOK, TouchedOK, NEW m, NEW new, ChangeAreas(m, new)
  PROVE  PteOK' /\ TouchedOK'
<1>1. ASSUME NEW p \in 1..Top
      PROVE  (IF Mapped(areas, p) /\ ~Mapped(new, p) THEN Empty ELSE pte[p]) \in UserDescs \cup {Empty, DummyPage}
  BY DEF PteOK
<1>2. PteOK'
  BY <1>1 DEF ChangeAreas, PteOK
<1>3. ASSUME NEW d \in UserDescs
      PROVE  (touched[d] \/ /\ d # m /\ work[d].at = "page"
                            /\ LET a == ZoneAddress(d, work[d].index) IN
                               find_vma(new, a) # find_vma(areas, a)) \in BOOLEAN
  BY DEF TouchedOK
<1>4. TouchedOK'
  BY <1>3 DEF ChangeAreas, TouchedOK
<1> QED
  BY <1>2, <1>4

LEMMA MmUsersTypes ==
  ASSUME PteOK, TouchedOK, NEW n, MmUsers(n)
  PROVE  PteOK' /\ TouchedOK' /\ mmUsers' = n
BY AreasTypes DEF MmUsers, PteOK, TouchedOK

Typed == DescOK /\ EntryOK /\ ZoneOK /\ WorkOK /\ KpteOK /\ PteOK /\ MmOK /\ TouchedOK /\ HaltedOK

LEMMA HaltTypes ==
  ASSUME Typed, NEW why \in {"panic", "no mm", "freed mm", "page in use", "stale handler"}, Halt(why)
  PROVE  Typed'
BY DEF Typed, Halt, DescOK, EntryOK, ZoneOK, WorkOK, KpteOK, PteOK, MmOK, TouchedOK, HaltedOK,
       zoneVars, mmVars

LEMMA InsertingTypes ==
  ASSUME Typed, halted = "no", NEW d \in UserDescs, Inserting(d)
  PROVE  Typed'
<1> USE DEF Typed
<1>0. work[d] \in Works
  BY DEF WorkOK
<1>1. CASE Faults(d) \/ Panics(d)
  BY <1>1, HaltTypes DEF Faults, MmFault, Panics
<1>2. CASE Misses(d)
  <2>1. mmUsers > 0 /\ MmUsers(mmUsers - 1) /\ missed' = missed + 1 /\ Failed(d)
        /\ UNCHANGED <<desc, kpte, zoneVars>>
    BY <1>2 DEF Misses, MmUsable
  <2>2. PteOK' /\ TouchedOK' /\ mmUsers' = mmUsers - 1
    BY <2>1, MmUsersTypes
  <2>3. MmOK'
    BY <2>1, <2>2 DEF MmOK
  <2>4. EntryOK' /\ WorkOK' /\ HaltedOK'
    BY <2>1, FailedFacts DEF HaltedOK
  <2> QED
    BY <2>1, <2>2, <2>3, <2>4 DEF DescOK, ZoneOK, KpteOK, zoneVars
<1>3. CASE Allows(d) \/ Protects(d)
  <2>1. PICK where \in {"protect", "page"} : (\E new : ChangeAreas(d, new)) /\ GoTo(d, where)
    BY <1>3 DEF Allows, Protects
  <2>2. PteOK' /\ TouchedOK'
    BY <2>1, AreasTypes
  <2>3. WorkOK' /\ EntryOK'
    <3>1. [work[d] EXCEPT !.at = where] \in Works
      BY <1>0 DEF Works
    <3> QED
      BY <2>1, <3>1 DEF GoTo, WorkOK, EntryOK
  <2> QED
    BY <1>3, <2>2, <2>3 DEF Allows, Protects, DescOK, ZoneOK, KpteOK, MmOK, HaltedOK, zoneVars
<1>4. CASE Refuses(d)
  <2>1. EntryOK' /\ WorkOK' /\ HaltedOK'
    BY <1>4, FailedFacts DEF Refuses, HaltedOK
  <2> QED
    BY <1>4, <2>1 DEF Refuses, DescOK, ZoneOK, KpteOK, PteOK, MmOK, TouchedOK, zoneVars, mmVars
<1>5. CASE Injects(d)
  <2>1. EntryOK' /\ WorkOK'
    BY <1>5, InsertedFacts DEF Injects
  <2>2. PteOK'
    <3>1. pte' = pte \/ \E x \in {DummyPage, d} : pte' = [pte EXCEPT ![Zone(d)] = x]
      BY <1>5 DEF Injects, Puts, InjectPage, InjectPfn
    <3> QED
      BY <3>1 DEF PteOK
  <2>3. TouchedOK'
    BY <1>5 DEF Injects, TouchedOK
  <2>4. stray' \subseteq UserDescs \X BOOLEAN
    <3>1. touched[d] \in BOOLEAN
      BY DEF TouchedOK
    <3>2. stray' = stray \/ stray' = stray \cup {<<d, touched[d]>>}
      BY <1>5 DEF Injects, Puts, InjectPfn
    <3> QED
      BY <3>1, <3>2 DEF ZoneOK
  <2> QED
    BY <1>5, <2>1, <2>2, <2>3, <2>4 DEF Injects, DescOK, ZoneOK, KpteOK, MmOK, HaltedOK
<1> QED
  BY <1>1, <1>2, <1>3, <1>4, <1>5 DEF Inserting

LEMMA LivingTypes ==
  ASSUME Typed, NEW d \in UserDescs, appAlive \in BOOLEAN, Living(d)
  PROVE  Typed'
<1> USE Names DEF Typed
<1>0. d \in Descs
  OBVIOUS
<1>1. ASSUME NEW s \in Starts, AllocateZone(d, s)
      PROVE  Typed'
  <2>1. s \in Pages
    BY Counts, Space
  <2>2. ZoneOK'
    BY <1>0, <1>1, <2>1 DEF AllocateZone, ZoneOK
  <2>3. DescOK'
    BY <1>0, <1>1 DEF AllocateZone, DescOK
  <2>4. MmOK'
    BY <1>1 DEF AllocateZone, MmOK
  <2> QED
    BY <1>1, <2>2, <2>3, <2>4 DEF AllocateZone, EntryOK, WorkOK, KpteOK, PteOK, TouchedOK, HaltedOK
<1>2. CASE MappingTryInsert(d)
  <2>1. PteOK' /\ TouchedOK'
    BY <1>2, AreasTypes DEF MappingTryInsert, InstallSpecialMapping, PteOK, TouchedOK
  <2>2. ZoneOK'
    <3>1. address' = address \/ \E p \in Pages : address' = [address EXCEPT ![d] = p]
      BY <1>2, Space DEF MappingTryInsert, RequestUnmappedArea
    <3> QED
      BY <1>0, <1>2, <3>1 DEF MappingTryInsert, ZoneOK
  <2>3. DescOK'
    BY <1>0, <1>2 DEF MappingTryInsert, DescOK
  <2> QED
    BY <1>2, <2>1, <2>2, <2>3 DEF MappingTryInsert, EntryOK, WorkOK, KpteOK, MmOK, HaltedOK
<1>3. CASE InvalidateImp(d)
  <2>1. DescOK'
    BY <1>0, <1>3 DEF InvalidateImp, DescOK
  <2>2. EntryOK'
    BY <1>0, <1>3 DEF InvalidateImp, EntryOK
  <2> QED
    BY <1>3, <2>1, <2>2
    DEF InvalidateImp, ZoneOK, WorkOK, KpteOK, PteOK, MmOK, TouchedOK, HaltedOK, zoneVars, mmVars
<1>4. CASE Frees(d)
  <2>1. DescOK'
    BY <1>0, <1>4 DEF Frees, DescOK
  <2>2. PteOK' /\ TouchedOK'
    BY <1>4, AreasTypes, MmUsersTypes DEF Frees, Takes, Leaves, PteOK, TouchedOK, mmVars
  <2>3. mmUsers' = mmUsers \/ (mmUsers > 0 /\ mmUsers' = mmUsers - 1)
    BY <1>4 DEF Frees, Takes, Leaves, MmUsers, MmUsable, mmVars
  <2>4. MmOK'
    BY <1>4, <2>3 DEF Frees, MmOK
  <2>5. kept' \subseteq UserDescs
    BY <1>4 DEF Frees, Takes, Leaves, ZoneOK
  <2> QED
    BY <1>4, <2>1, <2>2, <2>4, <2>5 DEF Frees, EntryOK, ZoneOK, WorkOK, KpteOK, HaltedOK
<1>5. CASE FreeZoneContext(d)
  <2>1. DescOK' /\ ZoneOK'
    BY <1>0, <1>5 DEF FreeZoneContext, DescOK, ZoneOK
  <2> QED
    BY <1>5, <2>1
    DEF FreeZoneContext, EntryOK, WorkOK, KpteOK, PteOK, MmOK, TouchedOK, HaltedOK, mmVars
<1>6. ASSUME NEW i \in Indices, NEW put \in Puttable, NEW want \in Entries \cup {Absent},
             NEW why \in {"insert", "remove", "close"}, InsertAt(d, i, put, want, why),
             touched' = [touched EXCEPT ![d] = FALSE],
             UNCHANGED <<desc, entries, kpte, zoneVars, mmVars, missed, halted>>
      PROVE  Typed'
  <2>1. [at |-> "allowance", index |-> i, put |-> put, want |-> want, why |-> why] \in Works
    BY DEF Works
  <2>2. WorkOK'
    BY <1>6, <2>1 DEF InsertAt, WorkOK
  <2>3. TouchedOK'
    BY <1>6 DEF TouchedOK
  <2> QED
    BY <1>6, <2>2, <2>3 DEF DescOK, EntryOK, ZoneOK, KpteOK, PteOK, MmOK, HaltedOK, zoneVars, mmVars
<1>7. ASSUME NEW i \in Indices, CleanUpPageEntry(d, i)
      PROVE  Typed'
  BY <1>6, <1>7 DEF CleanUpPageEntry, Puttable
<1>8. ASSUME NEW i \in Indices, NEW e \in UserEntries, PageInsert(d, i, e)
      PROVE  Typed'
  <2>1. e \in Entries /\ e \in Puttable /\ Dummy \in Puttable
    BY DEF Puttable
  <2> QED
    BY <1>6, <1>8, <2>1 DEF PageInsert
<1> QED
  BY <1>1, <1>2, <1>3, <1>4, <1>5, <1>7, <1>8 DEF Living

LEMMA KernelTypes ==
  ASSUME Typed, NEW d \in KernDescs, Kernel(d)
  PROVE  Typed'
<1> USE Names DEF Typed
<1>0. d \in Descs /\ NoFrame \in Int
  BY DEF NoFrame
<1>1. CASE KernelZone(d)
  <2>1. DescOK'
    BY <1>0, <1>1 DEF KernelZone, DescOK
  <2> QED
    BY <1>1, <2>1
    DEF KernelZone, EntryOK, ZoneOK, WorkOK, KpteOK, PteOK, MmOK, TouchedOK, HaltedOK, zoneVars, mmVars
<1>2. CASE KernelInvalidateImp(d)
  <2>1. DescOK' /\ EntryOK'
    BY <1>0, <1>2 DEF KernelInvalidateImp, DescOK, EntryOK
  <2>2. KpteOK'
    BY <1>0, <1>2 DEF KernelInvalidateImp, KpteOK
  <2> QED
    BY <1>2, <2>1, <2>2
    DEF KernelInvalidateImp, ZoneOK, WorkOK, PteOK, MmOK, TouchedOK, HaltedOK, zoneVars, mmVars
<1>3. ASSUME NEW i \in Indices, NEW e \in KernEntries, KernelPageInsert(d, i, e)
      PROVE  Typed'
  <2> DEFINE zone == IF entries[d][i] = Absent THEN kpte[d] ELSE KernelRemoveAt(kpte[d], i)
  <2>1. KernelMaps(e) \in Int /\ e \in Entries
    BY KernelMapsPhys
  <2>2. zone \in [Indices -> Int]
    BY <1>0 DEF KpteOK, KernelRemoveAt
  <2>3. KernelInsertAt(zone, i, e) \in [Indices -> Int]
    BY <2>1, <2>2 DEF KernelInsertAt
  <2>4. /\ \/ kpte' = [kpte EXCEPT ![d] = KernelInsertAt(zone, i, e)]
           \/ kpte' = [kpte EXCEPT ![d] = zone]
           \/ kpte' = kpte
        /\ \/ entries' = [entries EXCEPT ![d][i] = e]
           \/ entries' = [entries EXCEPT ![d][i] = Absent]
           \/ entries' = entries
        /\ halted' = halted \/ halted' = "uninitialised entry"
    BY <1>3 DEF KernelPageInsert
  <2> HIDE DEF zone
  <2>5. KpteOK'
    BY <2>2, <2>3, <2>4 DEF KpteOK
  <2>6. EntryOK'
    <3>1. ASSUME NEW x \in Entries \cup {Absent}, entries' = [entries EXCEPT ![d][i] = x]
          PROVE  EntryOK'
      BY <1>0, <3>1 DEF EntryOK
    <3>2. entries' = entries => EntryOK'
      BY DEF EntryOK
    <3> QED
      BY <2>1, <2>4, <3>1, <3>2
  <2> QED
    BY <1>3, <2>4, <2>5, <2>6
    DEF KernelPageInsert, DescOK, ZoneOK, WorkOK, PteOK, MmOK, TouchedOK, HaltedOK, zoneVars, mmVars
<1> QED
  BY <1>1, <1>2, <1>3 DEF Kernel, KernelStep

LEMMA AppTypes ==
  ASSUME Typed, AppStep
  PROVE  Typed'
<1> USE DEF Typed
<1>1. ASSUME NEW new, ChangeAreas("app", new), AppCalled
      PROVE  Typed'
  BY <1>1, AreasTypes
  DEF AppCalled, DescOK, EntryOK, ZoneOK, WorkOK, KpteOK, MmOK, HaltedOK, zoneVars
<1>2. ASSUME NEW p \in 1..Top, AppFaults(p)
      PROVE  Typed'
  BY <1>2, HaltTypes DEF AppFaults
<1>3. CASE AppExits
  <2>1. mmUsers > 0 /\ MmUsers(mmUsers - 1)
    BY <1>3 DEF AppExits
  <2>2. PteOK' /\ TouchedOK' /\ mmUsers' = mmUsers - 1
    BY <2>1, MmUsersTypes
  <2>3. MmOK'
    BY <1>3, <2>1, <2>2 DEF AppExits, MmOK
  <2> QED
    BY <1>3, <2>2, <2>3 DEF AppExits, DescOK, EntryOK, ZoneOK, WorkOK, KpteOK, HaltedOK, zoneVars
<1> QED
  BY <1>1, <1>2, <1>3 DEF AppStep, AppMaps, AppUnmaps, AppProtects

LEMMA LingerTypes ==
  ASSUME Typed, NEW d \in Descs, ForceLinger(d)
  PROVE  Typed'
<1>1. ZoneOK'
  BY DEF Typed, ForceLinger, ZoneOK
<1> QED
  BY <1>1
  DEF Typed, ForceLinger, DescOK, EntryOK, WorkOK, KpteOK, PteOK, MmOK, TouchedOK, HaltedOK, mmVars

(* Only the process and the bounds are left.                               *)
LEMMA AppOKStep ==
  ASSUME AppOK, [Next]_vars
  PROVE  AppOK'
<1>1. CASE UNCHANGED vars
  BY <1>1 DEF vars, appVars, AppOK
<1>2. inserts' = inserts \/ (inserts < Inserts /\ inserts' = inserts + 1)
  BY StepCases DEF vars
<1>3. inserts' \in 0..Inserts
  BY <1>2, Counts DEF AppOK
<1>4. ASSUME NEW d \in UserDescs, Inserting(d)
      PROVE  UNCHANGED appVars
  BY <1>4
  DEF Inserting, Faults, MmFault, Misses, Allows, Protects, Refuses, Panics, Injects, Halt
<1>5. ASSUME NEW d \in UserDescs, Living(d)
      PROVE  UNCHANGED appVars
  BY <1>5
  DEF Living, AllocateZone, MappingTryInsert, InvalidateImp, Frees, FreeZoneContext,
      CleanUpPageEntry, PageInsert
<1>6. ASSUME NEW d, Kernel(d) \/ ForceLinger(d)
      PROVE  UNCHANGED appVars
  BY <1>6 DEF Kernel, KernelStep, KernelZone, KernelInvalidateImp, KernelPageInsert, ForceLinger
<1>7. ASSUME AppStep
      PROVE  appAlive' \in BOOLEAN /\ appCalls' \in 0..AppCalls
  <2>1. CASE AppExits
    BY <2>1 DEF AppExits, AppOK
  <2>2. CASE AppCalled
    BY <2>2, Counts DEF AppCalled, AppOK
  <2>3. ASSUME NEW p \in 1..Top, AppFaults(p)
        PROVE  UNCHANGED appVars
    BY <2>3 DEF AppFaults, Halt
  <2> QED
    BY <1>7, <2>1, <2>2, <2>3 DEF AppStep, AppMaps, AppUnmaps, AppProtects, appVars, AppOK
<1> QED
  BY <1>1, <1>3, <1>4, <1>5, <1>6, <1>7, StepCases DEF appVars, AppOK

LEMMA TypeStep ==
  ASSUME TypeOK, Sound(areas), [Next]_vars
  PROVE  TypeOK'
<1>1. Typed /\ AppOK
  BY TypeParts DEF Typed
<1>2. Typed'
  <2>1. CASE UNCHANGED vars
    BY <1>1, <2>1
    DEF vars, zoneVars, mmVars, Typed, DescOK, EntryOK, ZoneOK, WorkOK, KpteOK, PteOK, MmOK, TouchedOK,
        HaltedOK
  <2> QED
    BY <1>1, <2>1, StepCases, InsertingTypes, LivingTypes, KernelTypes, AppTypes, LingerTypes DEF AppOK
<1>3. Sound(areas)' /\ AppOK'
  BY <1>1, SoundStep, AppOKStep
<1>4. Sound(areas)' /\ Typed' /\ AppOK' => TypeOK'
  BY TypeParts, PTL DEF Typed
<1> QED
  BY <1>2, <1>3, <1>4

-----------------------------------------------------------------------------
(* What a step leaves alone.                                               *)

LEMMA InsertingFrame ==
  ASSUME NEW d, Inserting(d)
  PROVE  UNCHANGED <<desc, kpte, lingering, address, hasMm, stub, kept, appAlive>>
         /\ stray \subseteq stray' /\ (~Injects(d) => stray' = stray)
BY DEF Inserting, Faults, MmFault, Misses, Allows, Protects, Refuses, Panics, Injects, Puts, InjectPfn,
       Halt, zoneVars, appVars

LEMMA KernelFrame ==
  ASSUME DescOK, NEW d \in KernDescs, Kernel(d)
  PROVE  /\ UNCHANGED <<work, lingering, address, hasMm, stub, kept, stray, appAlive, areas, pte, mmUsers,
                        missed, touched>>
         /\ \A e \in UserDescs : desc'[e] = desc[e]
         /\ halted' = halted \/ halted' = "uninitialised entry"
<1>1. UNCHANGED <<work, lingering, address, hasMm, stub, kept, stray, appAlive, areas, pte, mmUsers, missed,
                  touched>>
  BY DEF Kernel, KernelStep, KernelZone, KernelInvalidateImp, KernelPageInsert, zoneVars, mmVars, appVars
<1>2. desc' = desc \/ \E x : desc' = [desc EXCEPT ![d] = x]
  BY DEF Kernel, KernelStep, KernelZone, KernelInvalidateImp, KernelPageInsert
<1>3. \A e \in UserDescs : desc'[e] = desc[e]
  BY <1>2, Names DEF DescOK
<1>4. halted' = halted \/ halted' = "uninitialised entry"
  BY DEF Kernel, KernelStep, KernelZone, KernelInvalidateImp, KernelPageInsert
<1> QED
  BY <1>1, <1>3, <1>4

LEMMA AppFrame ==
  ASSUME AppStep
  PROVE  UNCHANGED <<desc, entries, work, kpte, lingering, address, hasMm, stub, kept, stray, missed>>
BY DEF AppStep, AppMaps, AppUnmaps, AppProtects, AppFaults, AppExits, AppCalled, Halt, zoneVars

LEMMA LingerFrame ==
  ASSUME ZoneOK, NEW d \in Descs, ForceLinger(d)
  PROVE  /\ desc[d] = "alive" /\ lingering'[d]
         /\ \A e \in Descs : e # d => lingering'[e] = lingering[e]
         /\ UNCHANGED <<desc, entries, work, kpte, address, hasMm, stub, kept, stray, appAlive, areas, pte,
                        mmUsers, missed, touched, halted>>
BY DEF ForceLinger, ZoneOK, appVars, mmVars

(* The stages of the life of a descriptor in the process.                  *)
LEMMA LivingFrame ==
  ASSUME DescOK, ZoneOK, WorkOK, NEW d \in UserDescs, Living(d)
  PROVE  /\ UNCHANGED <<kpte, lingering, appAlive, missed, halted, stray>>
         /\ kept' = kept \/ (Frees(d) /\ kept' = kept \cup {d})
         /\ \A k \in KernDescs : entries'[k] = entries[k]
         /\ \A e \in Descs : e # d => desc'[e] = desc[e] /\ address'[e] = address[e]
         /\ \A e \in UserDescs : e # d => /\ stub'[e] = stub[e] /\ hasMm'[e] = hasMm[e]
                                          /\ work'[e] = work[e]
         /\ \/ /\ desc[d] = "none" /\ desc'[d] = "mapping" /\ stub'[d]
               /\ UNCHANGED <<work, areas, pte, touched>>
               /\ \E s \in Starts : address'[d] = s
               /\ hasMm'[d] = appAlive /\ mmUsers' = IF appAlive THEN mmUsers + 1 ELSE mmUsers
            \/ /\ desc[d] = "mapping" /\ desc'[d] = "alive"
               /\ UNCHANGED <<work, stub, hasMm, mmUsers>>
               /\ address' = address \/ \E p \in RequestUnmappedArea : address'[d] = p
               /\ UNCHANGED <<areas, pte, touched>> \/ \E new : ChangeAreas(d, new)
            \/ /\ desc[d] = "alive" /\ desc'[d] = "closing" /\ work[d] = Idle
               /\ UNCHANGED <<work, address, stub, hasMm, areas, pte, mmUsers, touched>>
            \/ /\ desc[d] \in {"alive", "closing"}
               /\ UNCHANGED <<desc, address, stub, hasMm, areas, pte, mmUsers>>
               /\ work'[d].at = "allowance" /\ \A e \in UserDescs : e # d => touched'[e] = touched[e]
            \/ /\ desc[d] = "closing" /\ desc'[d] = "unmapped" /\ work[d] = Idle
               /\ UNCHANGED <<work, address, stub, hasMm>>
               /\ Frees(d)
            \/ /\ desc[d] = "unmapped" /\ desc'[d] = "dead"
               /\ UNCHANGED <<work, address, hasMm, areas, pte, mmUsers, touched>>
<1> USE Names
<1>0. d \in Descs
  OBVIOUS
<1>1. ASSUME NEW s \in Starts, AllocateZone(d, s)
      PROVE  /\ desc[d] = "none" /\ desc'[d] = "mapping" /\ stub'[d]
             /\ UNCHANGED <<work, areas, pte, touched>>
             /\ address'[d] = s
             /\ hasMm'[d] = appAlive /\ mmUsers' = IF appAlive THEN mmUsers + 1 ELSE mmUsers
             /\ UNCHANGED <<kpte, lingering, appAlive, missed, halted, stray, kept, entries>>
             /\ \A e \in Descs : e # d => desc'[e] = desc[e] /\ address'[e] = address[e]
             /\ \A e \in UserDescs : e # d => stub'[e] = stub[e] /\ hasMm'[e] = hasMm[e]
  BY <1>0, <1>1 DEF AllocateZone, DescOK, ZoneOK, appVars
<1>2. CASE MappingTryInsert(d)
  <2>1. /\ desc[d] = "mapping" /\ desc'[d] = "alive"
        /\ UNCHANGED <<entries, work, kpte, lingering, stub, hasMm, appAlive, mmUsers, missed, halted, stray,
                       kept>>
        /\ \A e \in Descs : e # d => desc'[e] = desc[e]
    BY <1>0, <1>2 DEF MappingTryInsert, DescOK, appVars
  <2>2. address' = address \/ \E p \in RequestUnmappedArea : address' = [address EXCEPT ![d] = p]
    BY <1>2 DEF MappingTryInsert
  <2>3. /\ address' = address \/ \E p \in RequestUnmappedArea : address'[d] = p
        /\ \A e \in Descs : e # d => address'[e] = address[e]
    BY <1>0, <2>2 DEF ZoneOK
  <2>4. UNCHANGED <<areas, pte, touched>> \/ \E new : ChangeAreas(d, new)
    BY <1>2 DEF MappingTryInsert, InstallSpecialMapping
  <2> QED
    BY <2>1, <2>3, <2>4
<1>3. CASE InvalidateImp(d)
  <2>1. \A k \in KernDescs : entries'[k] = entries[k]
    BY <1>3 DEF InvalidateImp
  <2> QED
    BY <1>0, <1>3, <2>1 DEF InvalidateImp, DescOK, zoneVars, appVars, mmVars
<1>4. CASE Frees(d)
  <2>1. kept' = kept \/ kept' = kept \cup {d}
    BY <1>4 DEF Frees, Leaves, Takes
  <2> QED
    BY <1>0, <1>4, <2>1 DEF Frees, Closable, DescOK, appVars
<1>5. CASE FreeZoneContext(d)
  BY <1>0, <1>5 DEF FreeZoneContext, DescOK, ZoneOK, appVars, mmVars
<1>6. ASSUME NEW i, NEW put, NEW want, NEW why, InsertAt(d, i, put, want, why)
      PROVE  work'[d].at = "allowance" /\ \A e \in UserDescs : e # d => work'[e] = work[e]
  BY <1>6 DEF InsertAt, WorkOK
<1>7. ASSUME touched' = [touched EXCEPT ![d] = FALSE]
      PROVE  \A e \in UserDescs : e # d => touched'[e] = touched[e]
  BY <1>7
<1>8. ASSUME NEW i \in Indices, CleanUpPageEntry(d, i)
      PROVE  /\ desc[d] = "closing" /\ work'[d].at = "allowance"
             /\ UNCHANGED <<desc, entries, kpte, address, lingering, stub, hasMm, appAlive,
                            areas, pte, mmUsers, missed, halted, stray, kept>>
             /\ \A e \in UserDescs : e # d => work'[e] = work[e] /\ touched'[e] = touched[e]
  BY <1>6, <1>7, <1>8 DEF CleanUpPageEntry, zoneVars, appVars, mmVars
<1>9. ASSUME NEW i \in Indices, NEW e \in UserEntries, PageInsert(d, i, e)
      PROVE  /\ desc[d] = "alive" /\ work'[d].at = "allowance"
             /\ UNCHANGED <<desc, entries, kpte, address, lingering, stub, hasMm, appAlive,
                            areas, pte, mmUsers, missed, halted, stray, kept>>
             /\ \A f \in UserDescs : f # d => work'[f] = work[f] /\ touched'[f] = touched[f]
  BY <1>6, <1>7, <1>9 DEF PageInsert, zoneVars, appVars, mmVars
<1> QED
  BY <1>1, <1>2, <1>3, <1>4, <1>5, <1>8, <1>9 DEF Living

(* What is recorded of munmap and of pages that stray stays recorded.      *)
LEMMA HistoriesGrow ==
  ASSUME TypeOK, [Next]_vars
  PROVE  kept \subseteq kept' /\ stray \subseteq stray'
<1>0. DescOK /\ ZoneOK /\ WorkOK
  BY TypeParts
<1>1. CASE UNCHANGED vars
  BY <1>1 DEF vars, zoneVars
<1>2. ASSUME NEW d \in UserDescs, Inserting(d) \/ Living(d)
      PROVE  kept \subseteq kept' /\ stray \subseteq stray'
  BY <1>0, <1>2, InsertingFrame, LivingFrame
<1>3. ASSUME NEW d \in KernDescs, Kernel(d)
      PROVE  kept \subseteq kept' /\ stray \subseteq stray'
  BY <1>0, <1>3, KernelFrame
<1>4. ASSUME NEW d \in Descs, ForceLinger(d)
      PROVE  kept \subseteq kept' /\ stray \subseteq stray'
  BY <1>0, <1>4, LingerFrame
<1> QED
  BY <1>1, <1>2, <1>3, <1>4, StepCases, AppFrame

LEMMA LifeStep ==
  ASSUME TypeOK, LifeInv, [Next]_vars
  PROVE  LifeInv'
<1>0. DescOK /\ ZoneOK /\ WorkOK
  BY TypeParts
<1>1. CASE UNCHANGED <<desc, lingering, address, stub>>
  BY <1>1 DEF LifeInv
<1>2. ASSUME NEW d \in UserDescs, Living(d)
      PROVE  LifeInv'
  <2> SUFFICES ASSUME NEW e \in UserDescs
               PROVE  /\ desc'[e] \in {"none", "mapping"} => ~lingering'[e]
                      /\ desc'[e] \notin {"none", "dead"} => stub'[e]
                      /\ desc'[e] # "none" => address'[e] = Last \/ address'[e] + SizeInPages <= Last + 1
    BY DEF LifeInv
  <2>1. /\ desc[e] \in {"none", "mapping"} => ~lingering[e]
        /\ desc[e] \notin {"none", "dead"} => stub[e]
        /\ desc[e] # "none" => address[e] = Last \/ address[e] + SizeInPages <= Last + 1
    BY DEF LifeInv
  <2>2. CASE e # d
    BY <1>0, <1>2, <2>1, <2>2, LivingFrame, Names
  <2>3. CASE e = d
    <3>1. \A p \in RequestUnmappedArea : p = Last \/ p + SizeInPages <= Last + 1
      BY Counts, Space DEF RequestUnmappedArea, FreeRange
    <3>2. \A s \in Starts : s + SizeInPages <= Last + 1
      BY Counts
    <3> QED
      BY <1>0, <1>2, <2>1, <2>3, <3>1, <3>2, LivingFrame
  <2> QED
    BY <2>2, <2>3
<1>3. ASSUME NEW d \in KernDescs, Kernel(d)
      PROVE  LifeInv'
  BY <1>0, <1>3, KernelFrame DEF LifeInv
<1>4. ASSUME NEW d \in Descs, ForceLinger(d)
      PROVE  LifeInv'
  BY <1>0, <1>4, LingerFrame, Names DEF LifeInv
<1> QED
  BY <1>1, <1>2, <1>3, <1>4, StepCases, InsertingFrame, AppFrame DEF vars, zoneVars

-----------------------------------------------------------------------------
(* What a descriptor has stays in its zone.                                *)

Keeps(d) == Present(d) => Present(d)' /\ address'[d] = address[d]

OwnOf(d) ==
  /\ \A v \in areas : v.owner = d => Present(d) /\ InZone(d, v.lo) /\ InZone(d, v.hi)
  /\ \A p \in 1..Top : pte[p] = d => Strays(d) \/ (Present(d) /\ InZone(d, p) /\ Mapped(areas, p))

LEMMA OwnKept ==
  ASSUME Sound(areas), TypeOK, NEW d \in UserDescs, OwnOf(d), Keeps(d), stray \subseteq stray',
         UNCHANGED <<areas, pte>> \/ \E m \in UserDescs \cup {"app", "mm"} : Reshapes(m)
  PROVE  OwnOf(d)'
<1>0. Strays(d) => Strays(d)'
  BY DEF Strays
<1>1. CASE UNCHANGED <<areas, pte>>
  BY <1>0, <1>1 DEF OwnOf, Keeps, InZone
<1>2. ASSUME NEW m, NEW new, Sound(new), Within(new, areas), ChangeAreas(m, new)
      PROVE  OwnOf(d)'
  <2>1. areas' = new
    BY <1>2 DEF ChangeAreas
  <2>2. ASSUME NEW v \in new, v.owner = d
        PROVE  Present(d)' /\ InZone(d, v.lo)' /\ InZone(d, v.hi)'
    <3>1. PICK w \in areas : w.owner = d /\ w.lo <= v.lo /\ v.hi <= w.hi
      BY <1>2, <2>2, Names DEF Within
    <3>2. w.lo \in Int /\ w.hi \in Int /\ v.lo \in Int /\ v.hi \in Int /\ v.lo <= v.hi
      BY <1>2, <2>2, AreaNumbers DEF Sound
    <3>3. Present(d) /\ address[d] # Last /\ address[d] <= w.lo /\ w.hi <= address[d] + SizeInPages - 1
      BY <3>1 DEF OwnOf, InZone
    <3>4. Present(d)' /\ address'[d] = address[d]
      BY <3>3 DEF Keeps
    <3>5. address[d] \in Int /\ SizeInPages \in Int
      BY WorkFacts, Counts
    <3>6. address[d] <= v.lo /\ v.lo <= address[d] + SizeInPages - 1
          /\ address[d] <= v.hi /\ v.hi <= address[d] + SizeInPages - 1
      BY <3>1, <3>2, <3>3, <3>5
    <3> QED
      BY <3>3, <3>4, <3>6 DEF InZone
  <2>3. ASSUME NEW p \in 1..Top, pte'[p] = d
        PROVE  Strays(d)' \/ (Present(d)' /\ InZone(d, p)' /\ Mapped(areas', p))
    <3>1. pte[p] = d /\ (Mapped(areas, p) => Mapped(new, p))
      BY <1>2, <2>3, Names DEF ChangeAreas
    <3> QED
      BY <1>0, <2>1, <3>1 DEF OwnOf, Keeps, InZone
  <2> QED
    BY <2>1, <2>2, <2>3 DEF OwnOf
<1> QED
  BY <1>1, <1>2 DEF Reshapes

LEMMA KeepsSteps ==
  ASSUME TypeOK, [Next]_vars, NEW e \in UserDescs
  PROVE  Keeps(e) \/ (Frees(e) /\ Takes(e))
<1>0. DescOK /\ ZoneOK /\ WorkOK
  BY TypeParts
<1>00. kept \subseteq kept'
  BY HistoriesGrow
<1>1. CASE UNCHANGED <<desc, lingering, address>>
  BY <1>00, <1>1 DEF Keeps, Present
<1>2. ASSUME NEW d \in UserDescs, Living(d), ~(Frees(e) /\ Takes(e))
      PROVE  Keeps(e)
  <2>1. CASE e # d
    BY <1>00, <1>0, <1>2, <2>1, LivingFrame, Names DEF Present, Keeps
  <2>2. CASE e = d
    <3>1. Frees(d) => address' = address /\ (lingering[d] \/ d \in kept')
      BY <1>2, <2>2 DEF Frees, Leaves
    <3> QED
      BY <1>00, <1>0, <1>2, <2>2, <3>1, LivingFrame DEF Present, Keeps
  <2> QED
    BY <2>1, <2>2
<1>3. ASSUME NEW d \in KernDescs, Kernel(d)
      PROVE  Keeps(e)
  BY <1>00, <1>0, <1>3, KernelFrame DEF Keeps, Present
<1>4. ASSUME NEW d \in Descs, ForceLinger(d)
      PROVE  Keeps(e)
  BY <1>00, <1>0, <1>4, LingerFrame, Names DEF Keeps, Present
<1> QED
  BY <1>1, <1>2, <1>3, <1>4, StepCases, InsertingFrame, AppFrame DEF vars, zoneVars

(* The end of a descriptor leaves nothing of it.                           *)
LEMMA FreesNothingLeft ==
  ASSUME TypeOK, Sound(areas), NEW d \in UserDescs, OwnOf(d), Takes(d)
  PROVE  /\ \A v \in areas' : v.owner # d
         /\ Strays(d) \/ \A p \in 1..Top : pte'[p] # d
<1> DEFINE lo == address[d]  hi == address[d] + SizeInPages - 1
           new == IF mmUsers = 1 THEN {} ELSE UnmapSpecial(d)
<1>1. lo \in Int /\ hi \in Int /\ lo <= hi + 1
  BY WorkFacts, Counts
<1>2. ChangeAreas(d, new)
  BY DEF Takes
<1>3. Sound(new) /\ Within(new, areas)
  <2>1. Within(areas, areas)
    BY WithinItself DEF Sound
  <2> QED
    BY <1>1, <2>1, NothingSound, UnmappedSound, UnmappedWithin DEF UnmapSpecial
<1>4. address[d] # Last => \A v \in new : v.hi < lo \/ v.lo > hi
  BY <1>1, UnmappedSound DEF UnmapSpecial
<1> HIDE DEF lo, hi, new
<1>5. ASSUME NEW v \in new, v.owner = d
      PROVE  FALSE
  <2>1. PICK w \in areas : w.owner = d /\ w.lo <= v.lo /\ v.hi <= w.hi
    BY <1>3, <1>5, Names DEF Within
  <2>2. v.lo \in Int /\ v.hi \in Int /\ v.lo <= v.hi /\ w.lo \in Int /\ w.hi \in Int
    BY <1>3, AreaNumbers DEF Sound
  <2>3. address[d] # Last /\ lo <= w.lo /\ w.hi <= hi
    BY <2>1 DEF OwnOf, InZone, lo, hi
  <2> QED
    BY <1>1, <1>4, <2>1, <2>2, <2>3
<1>6. ASSUME NEW p \in 1..Top, pte'[p] = d, ~Strays(d)
      PROVE  FALSE
  <2>1. pte[p] = d /\ (Mapped(areas, p) => Mapped(new, p))
    BY <1>2, <1>6, Names DEF ChangeAreas
  <2>2. address[d] # Last /\ lo <= p /\ p <= hi /\ Mapped(new, p)
    BY <1>6, <2>1 DEF OwnOf, InZone, lo, hi
  <2>3. PICK v \in new : v.lo <= p /\ p <= v.hi
    BY <2>2 DEF Mapped, Covers
  <2>4. v.lo \in Int /\ v.hi \in Int /\ p \in Int
    BY <1>3, AreaNumbers DEF Sound
  <2> QED
    BY <1>1, <1>4, <2>2, <2>3, <2>4
<1> QED
  BY <1>2, <1>5, <1>6 DEF ChangeAreas

(* A mapping gives its own descriptor an area, and nobody else.            *)
LEMMA OwnInstalled ==
  ASSUME TypeOK, NEW e \in UserDescs, OwnOf(e), Keeps(e), stray \subseteq stray',
         NEW d \in UserDescs, Installs(d)
  PROVE  OwnOf(e)'
<1>0. DescOK /\ ZoneOK
  BY TypeParts
<1>1. PICK p \in 1..Top : /\ desc' = [desc EXCEPT ![d] = "alive"]
                          /\ address' = [address EXCEPT ![d] = p]
                          /\ InstallSpecialMapping(d, p)
  BY DEF Installs
<1> DEFINE r == [lo |-> p, hi |-> p + SizeInPages - 1, owner |-> d, prot |-> {}, may |-> {}]
<1>2. ChangeAreas(d, areas \cup {r}) /\ r.owner = d /\ r.lo = p /\ r.hi = p + SizeInPages - 1
  BY <1>1 DEF InstallSpecialMapping
<1> HIDE DEF r
<1>3. p # Last /\ p <= p + SizeInPages - 1 /\ p + SizeInPages - 1 <= p + SizeInPages - 1
  BY Counts, Space
<1>4. Present(d)' /\ address'[d] = p
  BY <1>0, <1>1, Names DEF Present, DescOK, ZoneOK
<1>5. Present(d)' /\ InZone(d, r.lo)' /\ InZone(d, r.hi)'
  BY <1>2, <1>3, <1>4 DEF InZone
<1>6. ASSUME NEW v \in areas', v.owner = e
      PROVE  Present(e)' /\ InZone(e, v.lo)' /\ InZone(e, v.hi)'
  <2>1. v \in areas \/ v = r
    BY <1>2 DEF ChangeAreas
  <2>2. CASE v = r
    BY <1>2, <1>5, <1>6, <2>2
  <2>3. CASE v \in areas
    BY <1>6, <2>3 DEF OwnOf, Keeps, InZone
  <2> QED
    BY <2>1, <2>2, <2>3
<1>7. ASSUME NEW q \in 1..Top, pte'[q] = e
      PROVE  Strays(e)' \/ (Present(e)' /\ InZone(e, q)' /\ Mapped(areas', q))
  <2>1. pte[q] = e
    BY <1>2, <1>7, Names DEF ChangeAreas
  <2>2. Mapped(areas, q) => Mapped(areas', q)
    BY <1>2 DEF ChangeAreas, Mapped
  <2> QED
    BY <2>1, <2>2 DEF OwnOf, Keeps, InZone, Strays
<1> QED
  BY <1>6, <1>7 DEF OwnOf

(* A page is put where its descriptor lies.                                *)
LEMMA OwnInjected ==
  ASSUME TypeOK, LifeInv, StepInv, NEW e \in UserDescs, OwnOf(e), Keeps(e),
         stray \subseteq stray', NEW d \in UserDescs, Injects(d)
  PROVE  OwnOf(e)'
<1>0. PteOK
  BY TypeParts
<1>1. desc[d] \in {"alive", "closing"} /\ address[d] # Last
  BY DEF StepInv, Injects, At
<1>2. address[d] + SizeInPages <= Last + 1
  BY <1>1 DEF LifeInv
<1>3. Zone(d) = address[d] + work[d].index /\ address[d] \in Int /\ work[d].index \in Indices
  BY <1>1, <1>2, WorkFacts
<1>4. InZone(d, Zone(d))
  <2>1. work[d].index \in Nat /\ SizeInPages \in Nat
    BY <1>3, Counts
  <2>2. work[d].index <= SizeInPages - 1
    BY <1>3, Counts
  <2> QED
    BY <1>1, <1>3, <2>1, <2>2 DEF InZone
<1>5. UNCHANGED <<areas, desc, lingering, address, kept>>
  BY DEF Injects
<1>6. \/ pte' = pte
      \/ /\ \E x \in {DummyPage, d} : pte' = [pte EXCEPT ![Zone(d)] = x]
         /\ Mapped(areas, Zone(d)) \/ \E m \in BOOLEAN : <<d, m>> \in stray'
  <2>1. touched[d] \in BOOLEAN
    BY TypeParts DEF TouchedOK
  <2> QED
    BY <2>1 DEF Injects, Puts, InjectPage, InjectPfn
<1>7. ASSUME NEW p \in 1..Top, pte'[p] = e
      PROVE  Strays(e)' \/ (Present(e)' /\ InZone(e, p)' /\ Mapped(areas', p))
  <2>1. \/ pte[p] = e
        \/ p = Zone(d) /\ e = d /\ (Mapped(areas, p) \/ \E m \in BOOLEAN : <<d, m>> \in stray')
    BY <1>0, <1>6, <1>7, Names DEF PteOK
  <2>2. Present(d)
    BY <1>1 DEF Present
  <2>3. \/ Strays(e)'
        \/ Present(e) /\ InZone(e, p) /\ Mapped(areas, p)
    BY <1>4, <2>1, <2>2 DEF OwnOf, Strays
  <2> QED
    BY <1>5, <2>3 DEF Keeps, InZone
<1> QED
  BY <1>5, <1>7 DEF OwnOf, Present, InZone

LEMMA OwnStep ==
  ASSUME TypeOK, Sound(areas), OwnInv, LifeInv, StepInv, [Next]_vars
  PROVE  OwnInv'
<1> SUFFICES ASSUME NEW e \in UserDescs
             PROVE  OwnOf(e)'
  BY DEF OwnInv, OwnOf
<1>1. OwnOf(e)
  BY DEF OwnInv, OwnOf
<1>2. CASE Takes(e)
  <2>1. Strays(e) => Strays(e)'
    BY HistoriesGrow DEF Strays
  <2> QED
    BY <1>1, <1>2, <2>1, FreesNothingLeft DEF OwnOf
<1> QED
  BY <1>1, <1>2, KeepsSteps, HistoriesGrow, AreaCases, OwnKept, OwnInstalled, OwnInjected

-----------------------------------------------------------------------------
(* What an insertion relies on past mprotect.                              *)

StepOf(d) ==
  /\ work[d].at # "idle" => desc[d] \in {"alive", "closing"}
  /\ At(d, "page") =>
       /\ address[d] # Last
       /\ touched[d] \/ (Found(d) # NoArea /\ Found(d).prot = Wanted(d) /\ Covers(Found(d), Zone(d)))

(* Somebody else's change of the area under an insertion leaves its mark.  *)
Sees(e) ==
  \/ areas' = areas /\ touched'[e] = touched[e]
  \/ \E m, new : m # e /\ ChangeAreas(m, new)

LEMMA SeenKept ==
  ASSUME NEW e \in UserDescs, StepOf(e), Sees(e), work'[e] = work[e], address'[e] = address[e],
         desc'[e] \in {"alive", "closing"} \/ desc'[e] = desc[e]
  PROVE  StepOf(e)'
<1>1. Zone(e)' = Zone(e) /\ Wanted(e)' = Wanted(e)
  BY DEF Zone, ZoneAddress, Wanted
<1>2. ASSUME At(e, "page")
      PROVE  touched'[e] \/ (~touched[e] /\ Found(e)' = Found(e))
  <2>1. CASE areas' = areas /\ touched'[e] = touched[e]
    BY <1>1, <2>1 DEF Found
  <2>2. ASSUME NEW m, NEW new, m # e, ChangeAreas(m, new)
        PROVE  touched'[e] \/ (~touched[e] /\ Found(e)' = Found(e))
    <3>1. /\ touched'[e] = (touched[e] \/ /\ e # m /\ work[e].at = "page"
                                          /\ find_vma(new, Zone(e)) # find_vma(areas, Zone(e)))
          /\ areas' = new
      BY <2>2 DEF ChangeAreas, Zone
    <3>2. CASE find_vma(new, Zone(e)) # find_vma(areas, Zone(e))
      BY <1>2, <2>2, <3>1, <3>2 DEF At
    <3>3. CASE find_vma(new, Zone(e)) = find_vma(areas, Zone(e))
      <4>1. Found(e)' = Found(e)
        BY <1>1, <3>1, <3>3 DEF Found
      <4>2. touched[e] => touched'[e]
        BY <3>1
      <4> QED
        BY <4>1, <4>2
    <3> QED
      BY <3>2, <3>3
  <2> QED
    BY <2>1, <2>2 DEF Sees
<1> QED
  BY <1>1, <1>2 DEF StepOf, At

LEMMA InsertingSteps ==
  ASSUME TypeOK, Sound(areas), halted = "no", NEW d \in UserDescs, Inserting(d),
         NEW e \in UserDescs, StepOf(e)
  PROVE  StepOf(e)'
<1>0. EntryOK /\ WorkOK /\ UNCHANGED <<desc, address>>
  BY TypeParts, InsertingFrame
<1>1. CASE Faults(d) \/ Panics(d)
  <2>1. UNCHANGED <<work, areas, touched>>
    BY <1>1 DEF Faults, MmFault, Panics, Halt, mmVars
  <2> QED
    BY <1>0, <2>1, SeenKept DEF Sees
<1>2. CASE Misses(d)
  <2>1. Failed(d) /\ work[d].at = "allowance" /\ MmUsers(mmUsers - 1)
    BY <1>2 DEF Misses, At
  <2>2. /\ \A f \in UserDescs : f # d => work'[f] = work[f]
        /\ work'[d].at \in {"idle", "allowance"}
    BY <1>0, <2>1, FailedFacts
  <2>3. Sees(e)
    BY <2>1, Names DEF MmUsers, Sees
  <2>4. CASE e = d
    BY <1>0, <2>1, <2>2, <2>4 DEF StepOf, At
  <2> QED
    BY <1>0, <2>2, <2>3, <2>4, SeenKept
<1>3. CASE Allows(d) \/ Protects(d)
  <2>1. (\E new : ChangeAreas(d, new)) /\ work[d].at # "idle"
    BY <1>3 DEF Allows, Protects, At
  <2>2. PICK where \in {"protect", "page"} :
          work' = [work EXCEPT ![d].at = where] /\ (where = "page" => Protects(d))
    BY <1>3 DEF Allows, Protects, GoTo
  <2>3. CASE e # d
    <3>1. work'[e] = work[e]
      BY <1>0, <2>2, <2>3 DEF WorkOK
    <3>2. Sees(e)
      BY <2>1, <2>3 DEF Sees
    <3> QED
      BY <1>0, <3>1, <3>2, SeenKept
  <2>4. CASE e = d
    <3>0. work'[d] = [work[d] EXCEPT !.at = where] /\ work[d] \in Works
      BY <1>0, <2>2 DEF WorkOK
    <3>1. work'[d].at = where /\ work'[d].index = work[d].index /\ work'[d].put = work[d].put
      BY <3>0 DEF Works
    <3>2. CASE where = "protect"
      BY <1>0, <2>1, <2>4, <3>1, <3>2 DEF StepOf, At
    <3>3. CASE where = "page"
      <4>1. Protects(d)
        BY <2>2, <3>3
      <4>2. /\ areas' = Protected(areas, Zone(d), Wanted(d)) /\ Mapped(areas, Zone(d))
            /\ address[d] # Last
        BY <4>1 DEF Protects, ChangeAreas
      <4>3. Zone(d)' = Zone(d) /\ Wanted(d)' = Wanted(d)
        BY <1>0, <3>1 DEF Zone, ZoneAddress, Wanted
      <4>4. Zone(d) \in Int /\ Wanted(d) \subseteq Access
        BY WorkFacts
      <4>5. /\ find_vma(areas', Zone(d)) # NoArea /\ find_vma(areas', Zone(d)).prot = Wanted(d)
            /\ Covers(find_vma(areas', Zone(d)), Zone(d))
        BY <4>2, <4>4, ProtectedSound
      <4> QED
        BY <1>0, <2>1, <2>4, <4>2, <4>3, <4>5 DEF StepOf, Found
    <3> QED
      BY <3>2, <3>3
  <2> QED
    BY <2>3, <2>4
<1>4. CASE Refuses(d)
  <2>1. Failed(d) /\ work[d].at # "idle" /\ UNCHANGED <<areas, touched>>
    BY <1>4 DEF Refuses, mmVars
  <2>2. /\ \A f \in UserDescs : f # d => work'[f] = work[f]
        /\ work'[d].at \in {"idle", "allowance"} \/ work' = work
    BY <1>0, <2>1, FailedFacts
  <2>3. CASE work'[e] = work[e]
    BY <1>0, <2>1, <2>3, SeenKept DEF Sees
  <2>4. CASE e = d /\ work'[d].at \in {"idle", "allowance"}
    BY <1>0, <2>1, <2>4 DEF StepOf, At
  <2> QED
    BY <2>2, <2>3, <2>4
<1>5. CASE Injects(d)
  <2>1. Inserted(d) /\ work[d].at = "page" /\ areas' = areas /\ touched' = [touched EXCEPT ![d] = FALSE]
    BY <1>5 DEF Injects, At
  <2>2. /\ \A f \in UserDescs : f # d => work'[f] = work[f]
        /\ work'[d].at \in {"idle", "allowance"}
    BY <1>0, <2>1, InsertedFacts
  <2>3. CASE e # d
    <3>1. TouchedOK
      BY TypeParts
    <3>2. Sees(e)
      BY <2>1, <2>3, <3>1 DEF Sees, TouchedOK
    <3> QED
      BY <1>0, <2>2, <2>3, <3>2, SeenKept
  <2>4. CASE e = d
    BY <1>0, <2>1, <2>2, <2>4 DEF StepOf, At
  <2> QED
    BY <2>3, <2>4
<1> QED
  BY <1>1, <1>2, <1>3, <1>4, <1>5 DEF Inserting

LEMMA LivingSteps ==
  ASSUME TypeOK, NEW d \in UserDescs, Living(d), NEW e \in UserDescs, StepOf(e)
  PROVE  StepOf(e)'
<1>0. DescOK /\ ZoneOK /\ WorkOK
  BY TypeParts
<1>1. CASE e # d
  <2>1. work'[e] = work[e] /\ address'[e] = address[e] /\ desc'[e] = desc[e]
    BY <1>0, <1>1, LivingFrame, Names
  <2>2. Frees(d) => Sees(e)
    BY <1>1, Names DEF Frees, Takes, Leaves, MmUsers, mmVars, Sees
  <2>3. Sees(e)
    BY <1>0, <1>1, <2>2, LivingFrame DEF Sees
  <2> QED
    BY <2>1, <2>3, SeenKept
<1>2. CASE e = d
  <2>1. Idle.at = "idle"
    BY DEF Idle
  <2>2. \/ work' = work /\ work[d].at = "idle"
        \/ work'[d].at = "allowance" /\ desc'[d] \in {"alive", "closing"}
    BY <1>0, <1>2, <2>1, LivingFrame DEF StepOf
  <2> QED
    BY <1>2, <2>2 DEF StepOf, At
<1> QED
  BY <1>1, <1>2

LEMMA StepStep ==
  ASSUME TypeOK, Sound(areas), StepInv, [Next]_vars
  PROVE  StepInv'
<1> SUFFICES ASSUME NEW e \in UserDescs
             PROVE  StepOf(e)'
  BY DEF StepInv, StepOf, Found, Zone, Wanted
<1>0. DescOK /\ ZoneOK /\ WorkOK
  BY TypeParts
<1>1. StepOf(e)
  BY DEF StepInv, StepOf, Found, Zone, Wanted
<1>2. CASE UNCHANGED vars
  BY <1>1, <1>2, SeenKept DEF vars, zoneVars, mmVars, Sees
<1>3. ASSUME NEW d \in KernDescs, Kernel(d)
      PROVE  StepOf(e)'
  BY <1>0, <1>1, <1>3, KernelFrame, SeenKept DEF Sees
<1>4. ASSUME NEW d \in Descs, ForceLinger(d)
      PROVE  StepOf(e)'
  BY <1>0, <1>1, <1>4, LingerFrame, SeenKept DEF Sees
<1>5. ASSUME AppStep
      PROVE  StepOf(e)'
  <2>1. Sees(e)
    BY <1>5, AppAreasStep, Names DEF Reshapes, Sees
  <2> QED
    BY <1>1, <1>5, <2>1, AppFrame, SeenKept
<1> QED
  BY <1>1, <1>2, <1>3, <1>4, <1>5, StepCases, InsertingSteps, LivingSteps

-----------------------------------------------------------------------------
(* Users of the mm.                                                        *)

Holders == {d \in UserDescs : HoldsMm(d)}
AppCounts == IF appAlive THEN 1 ELSE 0
Balanced == mmUsers + missed = Cardinality(Holders) + AppCounts

LEMMA HoldersFinite == IsFiniteSet(Holders) /\ Cardinality(Holders) \in Nat
<1>1. IsFiniteSet(UserDescs) /\ Holders \subseteq UserDescs
  BY DescriptorAssumption DEF Holders
<1> QED
  BY <1>1, FS_Subset, FS_CardinalityType

LEMMA InsertingBalance ==
  ASSUME TypeOK, StepInv, Balanced, halted = "no", NEW d \in UserDescs, Inserting(d)
  PROVE  Balanced' /\ (halted' = "freed mm" => missed' > 0)
<1>0. WorkOK /\ MmOK /\ EntryOK /\ mmUsers \in Nat /\ missed \in Nat
  BY TypeParts DEF MmOK
<1>1. Holders' = Holders /\ AppCounts' = AppCounts
  BY InsertingFrame DEF Holders, HoldsMm, AppCounts
<1>2. CASE Faults(d)
  <2>1. /\ mmUsers' = mmUsers /\ missed' = missed /\ (hasMm[d] => ~(mmUsers > 0))
        /\ halted' = "freed mm" => hasMm[d]
    BY <1>2 DEF Faults, MmFault, MmUsable, Halt, mmVars
  <2>2. desc[d] \in {"alive", "closing"}
    BY <1>2 DEF Faults, StepInv
  <2>3. ASSUME hasMm[d]
        PROVE  missed > 0
    <3>1. d \in Holders
      BY <2>2, <2>3 DEF Holders, HoldsMm
    <3>2. Cardinality(Holders) # 0 /\ Cardinality(Holders) \in Nat
      BY <3>1, HoldersFinite, FS_EmptySet
    <3> QED
      BY <1>0, <2>1, <2>3, <3>2 DEF Balanced, AppCounts
  <2> QED
    BY <1>1, <2>1, <2>3 DEF Balanced
<1>3. CASE Misses(d)
  <2>1. mmUsers' = mmUsers - 1 /\ missed' = missed + 1 /\ Failed(d)
    BY <1>3 DEF Misses, MmUsers
  <2>2. mmUsers' + missed' = mmUsers + missed
    BY <1>0, <2>1
  <2>3. halted' # "freed mm"
    BY <1>0, <2>1, FailedFacts
  <2> QED
    BY <1>1, <2>2, <2>3 DEF Balanced
<1>4. CASE Refuses(d)
  <2>1. halted' # "freed mm"
    BY <1>0, <1>4, FailedFacts DEF Refuses
  <2> QED
    BY <1>1, <1>4, <2>1 DEF Refuses, mmVars, Balanced
<1>5. CASE Allows(d) \/ Protects(d) \/ Panics(d) \/ Injects(d)
  <2>1. UNCHANGED <<mmUsers, missed>> /\ halted' # "freed mm"
    BY <1>5 DEF Allows, Protects, Panics, Injects, Halt, mmVars
  <2> QED
    BY <1>1, <2>1 DEF Balanced
<1> QED
  BY <1>2, <1>3, <1>4, <1>5 DEF Inserting

LEMMA LivingBalance ==
  ASSUME TypeOK, LifeInv, Balanced, NEW d \in UserDescs, Living(d)
  PROVE  Balanced'
<1>0. /\ DescOK /\ ZoneOK /\ WorkOK /\ mmUsers \in Nat /\ missed \in Nat /\ missed' = missed
      /\ AppCounts' = AppCounts /\ lingering' = lingering /\ appAlive \in BOOLEAN
  BY TypeParts, LivingFrame DEF MmOK, AppCounts, AppOK
<1>1. \A e \in UserDescs : e # d => (HoldsMm(e)' <=> HoldsMm(e))
  BY <1>0, LivingFrame, Names DEF HoldsMm
<1>2. IsFiniteSet(Holders) /\ Cardinality(Holders) \in Nat
  BY HoldersFinite
<1>3. CASE desc[d] = "none" /\ desc'[d] = "mapping"
  <2>1. ~HoldsMm(d) /\ hasMm'[d] = appAlive /\ mmUsers' = IF appAlive THEN mmUsers + 1 ELSE mmUsers
    BY <1>0, <1>3, LivingFrame DEF LifeInv, HoldsMm
  <2>2. d \notin Holders
    BY <2>1 DEF Holders
  <2>3. CASE appAlive
    <3>1. HoldsMm(d)'
      BY <1>3, <2>1, <2>3 DEF HoldsMm
    <3>2. Holders' = Holders \cup {d}
      BY <1>1, <3>1 DEF Holders
    <3>3. Cardinality(Holders') = Cardinality(Holders) + 1
      BY <1>2, <2>2, <3>2, FS_AddElement
    <3> QED
      BY <1>0, <1>2, <2>1, <2>3, <3>3 DEF Balanced, AppCounts
  <2>4. CASE ~appAlive
    <3>1. ~HoldsMm(d)'
      BY <1>0, <1>3, <2>1, <2>4 DEF HoldsMm
    <3>2. Holders' = Holders
      BY <1>1, <2>1, <3>1 DEF Holders
    <3> QED
      BY <1>0, <2>1, <2>4, <3>2 DEF Balanced
  <2> QED
    BY <2>3, <2>4
<1>4. CASE Frees(d) /\ ~lingering[d]
  <2>1. /\ desc[d] = "closing" /\ hasMm[d] /\ mmUsers' = mmUsers - 1 /\ desc'[d] = "unmapped"
    BY <1>0, <1>4, Names DEF Frees, Takes, Leaves, MmUsers, Closable, MmUsable, DescOK
  <2>2. d \in Holders
    BY <2>1 DEF Holders, HoldsMm
  <2>3. ~HoldsMm(d)'
    BY <1>0, <1>4, <2>1 DEF HoldsMm
  <2>4. Holders' = Holders \ {d}
    BY <1>1, <2>3 DEF Holders
  <2>5. Cardinality(Holders') = Cardinality(Holders) - 1
    BY <1>2, <2>2, <2>4, FS_RemoveElement
  <2> QED
    BY <1>0, <1>2, <2>1, <2>5 DEF Balanced, AppCounts
<1>5. CASE Frees(d) /\ lingering[d]
  <2>1. mmUsers' = mmUsers /\ hasMm' = hasMm
    BY <1>5 DEF Frees, Takes, Leaves, mmVars
  <2>2. HoldsMm(d)' <=> HoldsMm(d)
    BY <1>0, <1>5, <2>1 DEF HoldsMm
  <2>3. Holders' = Holders
    BY <1>1, <2>2 DEF Holders
  <2> QED
    BY <1>0, <2>1, <2>3 DEF Balanced
<1>6. CASE ~(desc[d] = "none" /\ desc'[d] = "mapping") /\ ~Frees(d)
  <2>1. mmUsers' = mmUsers /\ (HoldsMm(d)' <=> HoldsMm(d))
    BY <1>0, <1>6, LivingFrame DEF HoldsMm
  <2>2. Holders' = Holders
    BY <1>1, <2>1 DEF Holders
  <2> QED
    BY <1>0, <2>1, <2>2 DEF Balanced
<1> QED
  BY <1>3, <1>4, <1>5, <1>6

LEMMA AppBalance ==
  ASSUME TypeOK, Balanced, AppStep
  PROVE  Balanced' /\ (halted = "no" => halted' # "freed mm")
<1>0. mmUsers \in Nat /\ missed \in Nat /\ missed' = missed /\ Holders' = Holders
      /\ appAlive \in BOOLEAN /\ Cardinality(Holders) \in Nat
  BY TypeParts, AppFrame, HoldersFinite DEF MmOK, AppOK, Holders, HoldsMm
<1>1. CASE AppExits
  <2>1. appAlive /\ appAlive' = FALSE /\ mmUsers' = mmUsers - 1 /\ halted' = halted
    BY <1>1 DEF AppExits, MmUsers
  <2>2. AppCounts = 1 /\ AppCounts' = 0
    BY <2>1 DEF AppCounts
  <2>3. Cardinality(Holders)' = Cardinality(Holders)
    BY <1>0
  <2>4. mmUsers + missed = Cardinality(Holders) + 1
    BY <2>2 DEF Balanced
  <2>5. mmUsers' + missed' = Cardinality(Holders) + 0
    BY <1>0, <2>1, <2>4
  <2>6. mmUsers' + missed' = Cardinality(Holders)' + AppCounts'
    BY <2>2, <2>3, <2>5
  <2>7. Balanced'
    BY <2>6 DEF Balanced
  <2> QED
    BY <2>1, <2>7
<1>2. CASE AppCalled
  BY <1>0, <1>2 DEF AppCalled, Balanced, AppCounts
<1>3. ASSUME NEW p \in 1..Top, AppFaults(p)
      PROVE  Balanced' /\ halted' # "freed mm"
  BY <1>0, <1>3 DEF AppFaults, Halt, appVars, mmVars, Balanced, AppCounts
<1> QED
  BY <1>1, <1>2, <1>3 DEF AppStep, AppMaps, AppUnmaps, AppProtects

LEMMA MmStep ==
  ASSUME TypeOK, LifeInv, StepInv, MmCounted, [Next]_vars
  PROVE  MmCounted'
<1>0. DescOK /\ ZoneOK /\ WorkOK
  BY TypeParts
<1>1. CASE UNCHANGED vars
  BY <1>1 DEF vars, zoneVars, mmVars, appVars, MmCounted, HoldsMm
<1>2. halted = "no" => Balanced
  BY DEF MmCounted, Balanced, Holders, AppCounts
<1>3. Balanced' /\ (halted' = "freed mm" => missed' > 0) => MmCounted'
  BY DEF MmCounted, Balanced, Holders, AppCounts
<1>4. ASSUME halted = "no", NEW d \in UserDescs, Inserting(d)
      PROVE  MmCounted'
  BY <1>2, <1>3, <1>4, InsertingBalance
<1>5. ASSUME halted = "no", NEW d \in UserDescs, Living(d)
      PROVE  MmCounted'
  BY <1>0, <1>2, <1>3, <1>5, LivingBalance, LivingFrame
<1>6. ASSUME halted = "no", NEW d \in KernDescs, Kernel(d)
      PROVE  MmCounted'
  <2>0. /\ UNCHANGED <<lingering, hasMm, appAlive, mmUsers, missed>>
        /\ \A e \in UserDescs : desc'[e] = desc[e]
        /\ halted' # "freed mm"
    BY <1>0, <1>6, KernelFrame
  <2>1. \A e \in UserDescs : HoldsMm(e)' <=> HoldsMm(e)
    BY <2>0 DEF HoldsMm
  <2>2. Holders' = Holders /\ AppCounts' = AppCounts
    BY <2>0, <2>1 DEF Holders, AppCounts
  <2> QED
    BY <1>2, <1>3, <1>6, <2>0, <2>2 DEF Balanced
<1>7. ASSUME halted = "no", NEW d \in Descs, ForceLinger(d)
      PROVE  MmCounted'
  <2>1. \A e \in UserDescs : HoldsMm(e)' <=> HoldsMm(e)
    BY <1>0, <1>7, LingerFrame, Names DEF HoldsMm
  <2>2. Holders' = Holders /\ AppCounts' = AppCounts /\ UNCHANGED <<mmUsers, missed>> /\ halted' = "no"
    BY <1>0, <1>7, <2>1, LingerFrame DEF Holders, AppCounts
  <2> QED
    BY <1>2, <1>3, <1>7, <2>2 DEF Balanced
<1>8. ASSUME halted = "no", AppStep
      PROVE  MmCounted'
  BY <1>2, <1>3, <1>8, AppBalance
<1> QED
  BY <1>1, <1>4, <1>5, <1>6, <1>7, <1>8, StepCases

-----------------------------------------------------------------------------
(* Panics.                                                                 *)

LEMMA PanicStep ==
  ASSUME TypeOK, Sound(areas), StepInv, PanicNeedsMeddling, [Next]_vars
  PROVE  PanicNeedsMeddling'
<1>0. DescOK /\ ZoneOK /\ WorkOK /\ EntryOK
  BY TypeParts
<1>2. ASSUME halted = "no", NEW d \in UserDescs, Inserting(d)
      PROVE  halted' = "panic" => At(d, "page")' /\ touched'[d]
  <2>1. CASE Panics(d)
    <3>1. CASE Halt("page in use")
      BY <3>1 DEF Halt
    <3>2. CASE Found(d).prot # Wanted(d)
      <4>1. At(d, "page") /\ touched[d]
        BY <2>1, <3>2 DEF Panics, StepInv, Found, Zone, Wanted
      <4> QED
        BY <2>1, <4>1 DEF Panics, Halt, At
    <3> QED
      BY <2>1, <3>1, <3>2 DEF Panics
  <2>2. CASE Misses(d) \/ Refuses(d)
    BY <1>0, <1>2, <2>2, FailedFacts DEF Misses, Refuses
  <2>3. CASE Faults(d) \/ Allows(d) \/ Protects(d) \/ Injects(d)
    BY <1>2, <2>3 DEF Faults, MmFault, Allows, Protects, Injects, Halt
  <2> QED
    BY <1>2, <2>1, <2>2, <2>3 DEF Inserting
<1>3. ASSUME halted = "no", NEW d \in UserDescs, Living(d)
      PROVE  halted' # "panic"
  BY <1>0, <1>3, LivingFrame
<1>4. ASSUME halted = "no", NEW d \in KernDescs, Kernel(d)
      PROVE  halted' # "panic"
  BY <1>0, <1>4, KernelFrame
<1>5. ASSUME halted = "no", NEW d \in Descs, ForceLinger(d)
      PROVE  halted' # "panic"
  BY <1>0, <1>5, LingerFrame
<1>6. ASSUME halted = "no", AppStep
      PROVE  halted' # "panic"
  BY <1>6 DEF AppStep, AppMaps, AppUnmaps, AppProtects, AppFaults, AppExits, AppCalled, Halt
<1>7. ASSUME NEW d \in UserDescs, Injects(d), NEW e \in UserDescs, <<e, FALSE>> \in stray'
      PROVE  FALSE
  <2>1. <<e, FALSE>> \notin stray
    BY DEF PanicNeedsMeddling
  <2>2. InjectPfn(d, Zone(d)) /\ ~Mapped(areas, Zone(d)) /\ <<e, FALSE>> = <<d, touched[d]>>
    BY <1>7, <2>1 DEF Injects, Puts, InjectPfn
  <2>3. Found(d) # NoArea /\ Covers(Found(d), Zone(d))
    BY <1>7, <2>2 DEF Injects, StepInv, Found, Zone
  <2>4. Found(d) \in areas
    BY <2>3, WorkFacts, FoundArea DEF Found
  <2> QED
    BY <2>2, <2>3, <2>4 DEF Mapped
<1>8. \A e \in UserDescs : <<e, FALSE>> \notin stray'
  <2>1. (\E d \in UserDescs : Injects(d)) \/ stray' = stray
    <3>1. ASSUME NEW d \in UserDescs, Inserting(d), ~Injects(d)
          PROVE  stray' = stray
      BY <3>1, InsertingFrame
    <3>2. ASSUME NEW d \in UserDescs, Living(d)
          PROVE  stray' = stray
      BY <1>0, <3>2, LivingFrame
    <3>3. ASSUME NEW d \in KernDescs, Kernel(d)
          PROVE  stray' = stray
      BY <1>0, <3>3, KernelFrame
    <3>4. ASSUME NEW d \in Descs, ForceLinger(d)
          PROVE  stray' = stray
      BY <1>0, <3>4, LingerFrame
    <3>5. CASE UNCHANGED vars
      BY <3>5 DEF vars, zoneVars
    <3> QED
      BY <3>1, <3>2, <3>3, <3>4, <3>5, StepCases, AppFrame
  <2> QED
    BY <1>7, <2>1 DEF PanicNeedsMeddling
<1>9. halted' = "panic" => \E d \in UserDescs : At(d, "page")' /\ touched'[d]
  <2>1. CASE UNCHANGED vars
    BY <2>1 DEF vars, PanicNeedsMeddling, At
  <2> QED
    BY <1>2, <1>3, <1>4, <1>5, <1>6, <2>1, StepCases
<1> QED
  BY <1>8, <1>9 DEF PanicNeedsMeddling, At

-----------------------------------------------------------------------------
(* Tables.                                                                 *)

(* Zones of the kernel are changed by their own calls only.                *)
LEMMA KernelZoneKept ==
  ASSUME TypeOK, halted = "no", NEW k \in KernDescs,
         \/ \E d \in UserDescs : Inserting(d) \/ Living(d)
         \/ AppStep
  PROVE  /\ desc'[k] = desc[k] /\ entries'[k] = entries[k] /\ kpte'[k] = kpte[k]
         /\ lingering'[k] = lingering[k]
<1>0. DescOK /\ ZoneOK /\ WorkOK /\ EntryOK
  BY TypeParts
<1>1. ASSUME NEW d \in UserDescs, Inserting(d)
      PROVE  /\ desc'[k] = desc[k] /\ entries'[k] = entries[k] /\ kpte'[k] = kpte[k]
             /\ lingering'[k] = lingering[k]
  <2>1. UNCHANGED <<desc, kpte, lingering>>
    BY <1>1, InsertingFrame
  <2>2. CASE Failed(d)
    BY <1>0, <2>1, <2>2, FailedFacts
  <2>3. CASE Inserted(d)
    BY <1>0, <2>1, <2>3, InsertedFacts
  <2>4. CASE entries' = entries
    BY <2>1, <2>4
  <2>5. Failed(d) \/ Inserted(d) \/ entries' = entries
    BY <1>1
    DEF Inserting, Faults, MmFault, Misses, Allows, Protects, Refuses, Panics, Injects, Halt, GoTo
  <2> QED
    BY <2>2, <2>3, <2>4, <2>5
<1>2. ASSUME NEW d \in UserDescs, Living(d)
      PROVE  /\ desc'[k] = desc[k] /\ entries'[k] = entries[k] /\ kpte'[k] = kpte[k]
             /\ lingering'[k] = lingering[k]
  <2>1. k # d /\ k \in Descs
    BY Names
  <2> QED
    BY <1>0, <1>2, <2>1, LivingFrame
<1> QED
  BY <1>1, <1>2, AppFrame

KernelFresh(k) == desc[k] = "none" => \A i \in Indices : entries[k][i] = Absent /\ kpte[k][i] = NoFrame

KernelClear(k) == desc[k] = "dead" /\ ~lingering[k] => \A i \in Indices : kpte[k][i] = NoFrame

Maps(e) == IF e = Absent THEN NoFrame ELSE IF e.type = "dummy" THEN DummyFrame ELSE PagePhysAddr(e)

KernelAgrees(k) ==
  desc[k] = "alive" /\ halted = "no" => \A i \in Indices : kpte[k][i] = Maps(entries[k][i])

KernelOf(k) == KernelFresh(k) /\ KernelClear(k) /\ KernelAgrees(k)

LEMMA KernelOfKept ==
  ASSUME NEW k \in KernDescs, KernelOf(k), desc'[k] = desc[k], entries'[k] = entries[k],
         kpte'[k] = kpte[k], lingering'[k] = lingering[k] \/ desc[k] = "alive",
         halted' = halted \/ halted' # "no"
  PROVE  KernelOf(k)'
BY DEF KernelOf, KernelFresh, KernelClear, KernelAgrees

LEMMA KernelInserts ==
  ASSUME TypeOK, NEW k \in KernDescs, KernelOf(k), halted = "no",
         NEW i \in Indices, NEW e \in KernEntries, KernelPageInsert(k, i, e)
  PROVE  KernelOf(k)'
<1>0. EntryOK /\ KpteOK /\ k \in Descs
  BY TypeParts, Names
<1>1. desc[k] = "alive" /\ desc' = desc
  BY DEF KernelPageInsert
<1>2. \A j \in Indices : kpte[k][j] = Maps(entries[k][j])
  BY <1>1 DEF KernelOf, KernelAgrees
<1>3. e \in Entries /\ Maps(e) = KernelMaps(e) /\ Maps(Absent) = NoFrame
  BY Names, EntryFields, KernelMapsPhys DEF Maps
<1> DEFINE zone == IF entries[k][i] = Absent THEN kpte[k] ELSE KernelRemoveAt(kpte[k], i)
<1>4. /\ zone \in [Indices -> Int] /\ zone[i] = NoFrame
      /\ \A j \in Indices : j # i => zone[j] = kpte[k][j]
  <2>1. kpte[k] \in [Indices -> Int] /\ NoFrame \in Int
    BY <1>0 DEF KpteOK, NoFrame
  <2>2. CASE entries[k][i] = Absent
    BY <1>2, <1>3, <2>1, <2>2
  <2>3. CASE entries[k][i] # Absent
    BY <2>1, <2>3 DEF KernelRemoveAt
  <2> QED
    BY <2>2, <2>3
<1>5. CASE /\ kpte' = [kpte EXCEPT ![k] = KernelInsertAt(zone, i, e)]
           /\ entries' = [entries EXCEPT ![k][i] = e]
  <2>1. kpte'[k] = [zone EXCEPT ![i] = KernelMaps(e)] /\ entries'[k] = [entries[k] EXCEPT ![i] = e]
    BY <1>0, <1>5 DEF KernelInsertAt, KpteOK, EntryOK
  <2>2. entries[k] \in [Indices -> Entries \cup {Absent}]
    BY <1>0 DEF EntryOK
  <2> HIDE DEF zone
  <2>3. ASSUME NEW j \in Indices
        PROVE  kpte'[k][j] = Maps(entries'[k][j])
    BY <1>2, <1>3, <1>4, <2>1, <2>2
  <2> QED
    BY <1>1, <2>3 DEF KernelOf, KernelFresh, KernelClear, KernelAgrees
<1>6. CASE kpte' = [kpte EXCEPT ![k] = zone] /\ entries' = [entries EXCEPT ![k][i] = Absent]
  <2>1. kpte'[k] = zone /\ entries'[k] = [entries[k] EXCEPT ![i] = Absent]
    BY <1>0, <1>6 DEF KpteOK, EntryOK
  <2>2. entries[k] \in [Indices -> Entries \cup {Absent}]
    BY <1>0 DEF EntryOK
  <2> HIDE DEF zone
  <2>3. ASSUME NEW j \in Indices
        PROVE  kpte'[k][j] = Maps(entries'[k][j])
    BY <1>2, <1>3, <1>4, <2>1, <2>2
  <2> QED
    BY <1>1, <2>3 DEF KernelOf, KernelFresh, KernelClear, KernelAgrees
<1>7. CASE halted' = "uninitialised entry"
  BY <1>1, <1>7 DEF KernelOf, KernelFresh, KernelClear, KernelAgrees
<1> QED
  BY <1>5, <1>6, <1>7 DEF KernelPageInsert

LEMMA KernelOfKernel ==
  ASSUME TypeOK, NEW k \in KernDescs, KernelOf(k), halted = "no", NEW d \in KernDescs, Kernel(d)
  PROVE  KernelOf(k)'
<1>0. DescOK /\ EntryOK /\ KpteOK /\ k \in Descs /\ d \in Descs
  BY TypeParts, Names
<1>1. CASE d # k
  <2>1. /\ desc' = desc \/ \E x : desc' = [desc EXCEPT ![d] = x]
        /\ kpte' = kpte \/ \E x : kpte' = [kpte EXCEPT ![d] = x]
        /\ lingering' = lingering
        /\ halted' = halted \/ halted' # "no"
    BY DEF Kernel, KernelStep, KernelZone, KernelInvalidateImp, KernelPageInsert, zoneVars
  <2>2. \/ entries' = entries
        \/ \E x : entries' = [entries EXCEPT ![d] = x]
        \/ \E i \in Indices : \E x : entries' = [entries EXCEPT ![d][i] = x]
    BY DEF Kernel, KernelStep, KernelZone, KernelInvalidateImp, KernelPageInsert
  <2>3. entries'[k] = entries[k] /\ desc'[k] = desc[k] /\ kpte'[k] = kpte[k]
    BY <1>0, <1>1, <2>1, <2>2 DEF DescOK, EntryOK, KpteOK
  <2> QED
    BY <2>1, <2>3, KernelOfKept
<1>2. CASE d = k /\ KernelZone(k)
  <2>1. desc[k] = "none" /\ desc'[k] = "alive" /\ UNCHANGED <<entries, kpte, halted>>
    BY <1>0, <1>2 DEF KernelZone, DescOK
  <2>2. \A i \in Indices : kpte'[k][i] = Maps(entries'[k][i])
    BY <2>1 DEF KernelOf, KernelFresh, Maps
  <2> QED
    BY <2>1, <2>2 DEF KernelOf, KernelFresh, KernelClear, KernelAgrees
<1>3. CASE d = k /\ KernelInvalidateImp(k)
  <2>1. /\ desc'[k] = "dead" /\ lingering' = lingering
        /\ ~lingering[k] => kpte'[k] = [i \in Indices |-> NoFrame]
    BY <1>0, <1>3 DEF KernelInvalidateImp, DescOK, KpteOK, zoneVars
  <2> QED
    BY <2>1 DEF KernelOf, KernelFresh, KernelClear, KernelAgrees
<1>4. CASE d = k /\ \E i \in Indices, e \in KernEntries : KernelPageInsert(k, i, e)
  BY <1>4, KernelInserts
<1> QED
  BY <1>1, <1>2, <1>3, <1>4 DEF Kernel, KernelStep

KernelInv == \A k \in KernDescs : KernelOf(k)

LEMMA KernelInvStep ==
  ASSUME TypeOK, KernelInv, [Next]_vars
  PROVE  KernelInv'
<1> SUFFICES ASSUME NEW k \in KernDescs
             PROVE  KernelOf(k)'
  BY DEF KernelInv
<1>0. KernelOf(k) /\ DescOK /\ ZoneOK
  BY TypeParts DEF KernelInv
<1>1. CASE UNCHANGED vars
  BY <1>0, <1>1, KernelOfKept DEF vars, zoneVars
<1>2. ASSUME NEW d \in Descs, ForceLinger(d)
      PROVE  KernelOf(k)'
  BY <1>0, <1>2, LingerFrame, KernelOfKept, Names
<1>3. ASSUME halted = "no", (\E d \in UserDescs : Inserting(d) \/ Living(d)) \/ AppStep
      PROVE  KernelOf(k)'
  BY <1>0, <1>3, KernelZoneKept, KernelOfKept
<1> QED
  BY <1>0, <1>1, <1>2, <1>3, StepCases, KernelOfKernel

(* An area whose handler is gone is that of a descriptor that lingered, or *)
(* that munmap refused to take away.                                       *)
StaleOnlyLingering ==
  halted = "stale handler" =>
    \E d \in UserDescs : desc[d] = "dead" /\ (lingering[d] \/ d \in kept)

LEMMA StaleStep ==
  ASSUME TypeOK, Sound(areas), OwnInv, LifeInv, StaleOnlyLingering, [Next]_vars
  PROVE  StaleOnlyLingering'
<1>0. DescOK /\ ZoneOK /\ WorkOK /\ EntryOK
  BY TypeParts
<1>1. CASE UNCHANGED vars
  BY <1>1 DEF vars, zoneVars, StaleOnlyLingering
<1>2. ASSUME halted = "no", NEW d \in UserDescs, Inserting(d)
      PROVE  halted' # "stale handler"
  <2>1. CASE Misses(d) \/ Refuses(d)
    BY <1>0, <1>2, <2>1, FailedFacts DEF Misses, Refuses
  <2>2. CASE Faults(d) \/ Panics(d) \/ Allows(d) \/ Protects(d) \/ Injects(d)
    BY <1>2, <2>2 DEF Faults, MmFault, Panics, Allows, Protects, Injects, Halt
  <2> QED
    BY <1>2, <2>1, <2>2 DEF Inserting
<1>3. ASSUME halted = "no", NEW d \in UserDescs, Living(d)
      PROVE  halted' # "stale handler"
  BY <1>0, <1>3, LivingFrame
<1>4. ASSUME halted = "no", NEW d \in KernDescs, Kernel(d)
      PROVE  halted' # "stale handler"
  BY <1>0, <1>4, KernelFrame
<1>5. ASSUME halted = "no", NEW d \in Descs, ForceLinger(d)
      PROVE  halted' # "stale handler"
  BY <1>0, <1>5, LingerFrame
<1>6. ASSUME NEW p \in 1..Top, AppFaults(p)
      PROVE  StaleOnlyLingering'
  <2> DEFINE v == find_vma(areas, p)  d == v.owner
  <2>1. Covers(v, p) /\ d \in UserDescs /\ ~stub[d] /\ UNCHANGED <<desc, lingering, kept>>
    BY <1>6 DEF AppFaults, Halt, zoneVars
  <2>2. v # NoArea
    <3>1. NoArea.hi = 0 /\ p \in Int /\ p >= 1
      BY DEF NoArea
    <3> QED
      BY <2>1, <3>1 DEF Covers
  <2>3. v \in areas
    BY <2>2, FoundArea
  <2> HIDE DEF v
  <2>4. Present(d) /\ desc[d] \in {"none", "dead"}
    BY <2>1, <2>3 DEF OwnInv, LifeInv
  <2> QED
    BY <2>1, <2>4 DEF Present, StaleOnlyLingering
<1>7. CASE AppStep /\ ~\E p \in 1..Top : AppFaults(p)
  BY <1>7 DEF AppStep, AppMaps, AppUnmaps, AppProtects, AppExits, AppCalled, StaleOnlyLingering, zoneVars
<1> QED
  BY <1>1, <1>2, <1>3, <1>4, <1>5, <1>6, <1>7, StepCases DEF StaleOnlyLingering

LEMMA NothingLeft ==
  ASSUME OwnInv, PanicNeedsMeddling, KernelInv, StaleOnlyLingering
  PROVE  TablesSound
<1>1. ASSUME NEW d \in UserDescs, desc[d] \in {"unmapped", "dead"}, ~lingering[d], d \notin kept
      PROVE  (\A v \in areas : v.owner # d) /\ (<<d, TRUE>> \in stray \/ \A p \in 1..Top : pte[p] # d)
  <2>1. ~Present(d)
    BY <1>1 DEF Present
  <2>2. Strays(d) => <<d, TRUE>> \in stray
    BY DEF PanicNeedsMeddling, Strays
  <2> QED
    BY <2>1, <2>2 DEF OwnInv
<1>2. KernelMatches
  BY DEF KernelInv, KernelOf, KernelAgrees, KernelMatches, Maps
<1> QED
  BY <1>1, <1>2
  DEF KernelInv, KernelOf, KernelClear, StaleOnlyLingering, NothingLeftBehind, TablesSound

-----------------------------------------------------------------------------
(* The invariant, whole.                                                   *)

DescriptorInv ==
  /\ TypeOK /\ Sound(areas)
  /\ OwnInv /\ LifeInv /\ StepInv
  /\ MmCounted /\ PanicNeedsMeddling /\ KernelInv /\ StaleOnlyLingering

LEMMA InitTypes ==
  ASSUME Init
  PROVE  TypeOK /\ Sound(areas)
<1> DEFINE stack == [lo |-> Top, hi |-> Top, owner |-> "app", prot |-> {VM_READ, VM_WRITE},
                     may |-> {VM_READ, VM_WRITE, VM_EXEC}]
<1>1. areas = {stack}
  BY DEF Init
<1>2. stack \in Area(Owners) /\ stack.lo <= stack.hi
  BY Space DEF Area, Owners
<1> HIDE DEF stack
<1>3. Sound(areas)
  BY <1>1, <1>2 DEF Sound
<1>4. Idle \in Works
  BY Counts DEF Idle, Works, Puttable
<1>5. 0 \in Pages /\ NoFrame \in Int
  BY Space DEF NoFrame
<1>6. DescOK /\ EntryOK /\ ZoneOK /\ WorkOK /\ KpteOK
  BY <1>4, <1>5 DEF Init, DescOK, EntryOK, ZoneOK, WorkOK, KpteOK
<1>7. PteOK /\ MmOK /\ AppOK /\ TouchedOK /\ HaltedOK
  BY Counts DEF Init, PteOK, MmOK, AppOK, TouchedOK, HaltedOK
<1> QED
  BY <1>3, <1>6, <1>7, TypeParts

LEMMA InitInv ==
  ASSUME Init
  PROVE  DescriptorInv
<1>1. TypeOK /\ Sound(areas)
  BY InitTypes
<1>2. OwnInv
  BY Names DEF Init, OwnInv
<1>3. LifeInv
  BY Names DEF Init, LifeInv
<1>4. StepInv
  BY DEF Init, StepInv, At, Idle
<1>5. MmCounted
  <2>1. {d \in UserDescs : HoldsMm(d)} = {}
    BY DEF Init, HoldsMm
  <2>2. mmUsers + missed = 0 + (IF appAlive THEN 1 ELSE 0) /\ halted = "no"
    BY DEF Init
  <2> QED
    BY <2>1, <2>2, FS_EmptySet DEF MmCounted
<1>6. PanicNeedsMeddling /\ StaleOnlyLingering
  BY DEF Init, PanicNeedsMeddling, StaleOnlyLingering
<1>7. KernelInv
  BY Names DEF Init, KernelInv, KernelOf, KernelFresh, KernelClear, KernelAgrees
<1> QED
  BY <1>1, <1>2, <1>3, <1>4, <1>5, <1>6, <1>7 DEF DescriptorInv

LEMMA NextInv ==
  ASSUME DescriptorInv, [Next]_vars
  PROVE  DescriptorInv'
<1>1. TypeOK' /\ Sound(areas)'
  BY TypeStep, SoundStep DEF DescriptorInv
<1>2. OwnInv' /\ LifeInv' /\ StepInv'
  BY OwnStep, LifeStep, StepStep DEF DescriptorInv
<1>3. MmCounted' /\ PanicNeedsMeddling'
  BY MmStep, PanicStep DEF DescriptorInv
<1>4. KernelInv' /\ StaleOnlyLingering'
  BY KernelInvStep, StaleStep DEF DescriptorInv
<1> QED
  BY <1>1, <1>2, <1>3, <1>4 DEF DescriptorInv

LEMMA DescriptorInvariant == Spec => []DescriptorInv
<1>1. Init => DescriptorInv
  BY InitInv
<1>2. DescriptorInv /\ [Next]_vars => DescriptorInv'
  BY NextInv
<1> QED
  BY <1>1, <1>2, PTL DEF Spec

(* Every call on a descriptor, whatever the process does meanwhile, leaves *)
(* tables, zones and areas of the shape the code expects                   *)
(* (VMAllocation.cpp, UserVMManager.cpp, KernelVMManager.cpp).             *)
THEOREM DescriptorTypesCorrect == Spec => []TypeOK
<1>1. DescriptorInv => TypeOK
  BY DEF DescriptorInv
<1> QED
  BY <1>1, DescriptorInvariant, PTL

(* mm_users counts the process and the zones that still hold the mm, less  *)
(* one for every insertion that found no area and gave back a reference it *)
(* had not taken; the mm is used after it was freed only after one of      *)
(* those (UserVMManager.cpp:246, UpdateMProtectAllowance).                 *)
THEOREM MmUsersCounted == Spec => []MmCounted
<1>1. DescriptorInv => MmCounted
  BY DEF DescriptorInv
<1> QED
  BY <1>1, DescriptorInvariant, PTL

(* The panic of InjectPage about the protection of an area, and a page put *)
(* where no area is, need somebody else to have changed the area between   *)
(* two steps of the insertion, for the lock is dropped there               *)
(* (UserVMManager.cpp:273, 289, 381).                                      *)
THEOREM PanicsAreMeddled == Spec => []PanicNeedsMeddling
<1>1. DescriptorInv => PanicNeedsMeddling
  BY DEF DescriptorInv
<1> QED
  BY <1>1, DescriptorInvariant, PTL

(* A destroyed descriptor that did not linger leaves no area in the        *)
(* process, unless munmap refused, no page, unless one was put where no    *)
(* area was, and nothing in the kernel; a zone of the kernel maps what its *)
(* descriptor says (UserVMManager.cpp:252, 289, VMAllocation.cpp:205,      *)
(* KernelVMManager.cpp).                                                   *)
THEOREM TablesStaySound == Spec => []TablesSound
<1>1. DescriptorInv => TablesSound
  BY NothingLeft DEF DescriptorInv
<1> QED
  BY <1>1, DescriptorInvariant, PTL

-----------------------------------------------------------------------------
(* The areas of the process itself.                                        *)

LEMMA OthersWork ==
  ASSUME TypeOK, halted = "no", NEW e \in UserDescs, Inserting(e), NEW d \in UserDescs, d # e
  PROVE  work'[d] = work[d]
<1>0. EntryOK /\ WorkOK
  BY TypeParts
<1>1. Failed(e) \/ Inserted(e) \/ work' = work \/ \E a : work' = [work EXCEPT ![e].at = a]
  BY DEF Inserting, Faults, MmFault, Misses, Allows, Protects, Refuses, Panics, Injects, Halt, GoTo
<1> QED
  BY <1>0, <1>1, FailedFacts, InsertedFacts DEF WorkOK

(* Only calls on a descriptor change its work and its stage of life.       *)
LEMMA ActorCases ==
  ASSUME TypeOK, [Next]_vars, NEW d \in UserDescs, work'[d] # work[d] \/ desc'[d] # desc[d]
  PROVE  halted = "no" /\ (Inserting(d) \/ Living(d))
<1>0. DescOK /\ ZoneOK /\ WorkOK /\ d \in Descs
  BY TypeParts, Names
<1>1. CASE UNCHANGED <<work, desc>>
  BY <1>1
<1>2. ASSUME halted = "no", NEW e \in UserDescs, Inserting(e)
      PROVE  e = d
  BY <1>2, OthersWork, InsertingFrame
<1>3. ASSUME NEW e \in UserDescs, Living(e)
      PROVE  e = d
  BY <1>0, <1>3, LivingFrame
<1>4. ASSUME NEW e \in KernDescs, Kernel(e)
      PROVE  FALSE
  BY <1>0, <1>4, KernelFrame
<1>5. ASSUME NEW e \in Descs, ForceLinger(e)
      PROVE  FALSE
  BY <1>0, <1>5, LingerFrame
<1> QED
  BY <1>1, <1>2, <1>3, <1>4, <1>5, StepCases, AppFrame DEF vars

(* An insertion in a zone of its own changes areas of its own.             *)
LEMMA InsertingApp ==
  ASSUME TypeOK, Sound(areas), StepInv, NEW d \in UserDescs, Inserting(d), mmUsers' > 0,
         desc[d] \in {"none", "mapping"} \/ Intact(d)
  PROVE  OfApp(areas') = OfApp(areas)
<1>1. CASE Faults(d) \/ Refuses(d) \/ Panics(d) \/ Injects(d)
  BY <1>1 DEF Faults, MmFault, Refuses, Panics, Injects, Halt, mmVars
<1>2. CASE Misses(d)
  <2>1. mmUsers' = mmUsers - 1 /\ mmUsers - 1 # 0
    BY <1>2 DEF Misses, MmUsers
  <2> QED
    BY <1>2, <2>1 DEF Misses, MmUsers
<1>3. ASSUME work[d].at # "idle"
      PROVE  Covers(Found(d), Zone(d)) /\ Found(d).owner = d /\ d # "app"
  <2>1. Intact(d)
    BY <1>3 DEF StepInv
  <2> QED
    BY <2>1, WorkFacts, Names DEF Intact, Found, Zone
<1>4. CASE Allows(d)
  <2>1. Found(d).owner # "app"
    BY <1>3, <1>4 DEF Allows, At
  <2>2. Found(d) \in areas
    BY <1>4, WorkFacts, FoundArea DEF Allows, Found
  <2>3. OfApp(Allowed(areas, Found(d), Wanted(d))) = OfApp(areas)
    BY <2>1, <2>2, WorkFacts, AllowedSound
  <2> QED
    BY <1>4, <2>3 DEF Allows, ChangeAreas
<1>5. CASE Protects(d)
  <2>1. Found(d).owner # "app"
    BY <1>3, <1>5 DEF Protects, At
  <2>2. OfApp(Protected(areas, Zone(d), Wanted(d))) = OfApp(areas)
    BY <1>5, <2>1, WorkFacts, ProtectedSound DEF Protects, Found
  <2> QED
    BY <1>5, <2>2 DEF Protects, ChangeAreas
<1> QED
  BY <1>1, <1>2, <1>4, <1>5 DEF Inserting

(* munmap of a zone of its own takes areas of its own.                     *)
LEMMA UnmapSpecialApp ==
  ASSUME TypeOK, Sound(areas), LifeInv, NEW d \in UserDescs, desc[d] # "none", Intact(d)
  PROVE  OfApp(UnmapSpecial(d)) = OfApp(areas)
<1> DEFINE lo == address[d]  hi == address[d] + SizeInPages - 1
<1>1. /\ address[d] \in Pages /\ lo \in Int /\ hi \in Int /\ lo <= hi + 1 /\ lo <= hi
      /\ SizeInPages \in Nat /\ hi = lo + SizeInPages - 1
  BY WorkFacts, Counts
<1>2. CASE address[d] # Last
  <2>0. address[d] + SizeInPages <= Last + 1
    BY <1>2 DEF LifeInv
  <2> HIDE DEF lo, hi
  <2>1. ASSUME NEW p \in lo..hi
        PROVE  find_vma(areas, p).owner = d
    <3> DEFINE i == p - lo
    <3>1. i \in Indices /\ address[d] + i = p
      BY <1>1 DEF Indices, lo
    <3> HIDE DEF i
    <3>2. ZoneAddress(d, i) = p
      BY <1>1, <1>2, <2>0, <3>1, ZonePages
    <3> QED
      BY <3>1, <3>2 DEF Intact
  <2>2. ASSUME NEW v \in OfApp(areas)
        PROVE  v.hi < lo \/ v.lo > hi
    <3>1. /\ v \in areas /\ v.owner # d
      BY Names DEF OfApp
    <3>2. v.lo \in Int /\ v.hi \in Int /\ v.lo <= v.hi
      BY <3>1, AreaNumbers DEF Sound
    <3>3. SUFFICES ASSUME v.hi >= lo, v.lo <= hi
                   PROVE  FALSE
      BY <1>1, <3>2
    <3>4. PICK p \in lo..hi : v.lo <= p /\ p <= v.hi
      <4>1. CASE v.lo <= lo
        BY <1>1, <3>2, <3>3, <4>1
      <4>2. CASE v.lo > lo
        BY <1>1, <3>2, <3>3, <4>2
      <4> QED
        BY <1>1, <3>2, <4>1, <4>2
    <3>5. p \in Int /\ Covers(v, p)
      BY <1>1, <3>4 DEF Covers
    <3>6. find_vma(areas, p) = v
      BY <3>1, <3>5, CoveringArea
    <3> QED
      BY <2>1, <3>1, <3>6
  <2>3. OfApp(Unmapped(areas, lo, hi)) = OfApp(areas)
    BY <1>1, <2>2, UnmappedOfApp
  <2> QED
    BY <1>2, <2>3 DEF UnmapSpecial, lo, hi
<1> QED
  BY <1>2 DEF UnmapSpecial

LEMMA LivingApp ==
  ASSUME TypeOK, Sound(areas), LifeInv, NEW d \in UserDescs, Living(d), mmUsers' > 0,
         desc[d] \in {"none", "mapping"} \/ Intact(d)
  PROVE  OfApp(areas') = OfApp(areas)
<1>1. CASE MappingTryInsert(d)
  <2>1. CASE areas' = areas
    BY <2>1
  <2>2. CASE areas' # areas
    <3>1. PICK p \in RequestUnmappedArea : InstallSpecialMapping(d, p)
      BY <1>1, <2>2 DEF MappingTryInsert
    <3> DEFINE r == [lo |-> p, hi |-> p + SizeInPages - 1, owner |-> d, prot |-> {}, may |-> {}]
    <3>2. areas' = areas \cup {r} /\ r.owner # "app"
      BY <3>1, Names DEF InstallSpecialMapping, ChangeAreas
    <3> HIDE DEF r
    <3> QED
      BY <3>2 DEF OfApp
  <2> QED
    BY <2>1, <2>2
<1>2. CASE Frees(d)
  <2>1. CASE lingering[d]
    BY <1>2, <2>1 DEF Frees, Takes, Leaves, mmVars
  <2>2. CASE ~lingering[d]
    <3>1. desc[d] = "closing" /\ mmUsers' = mmUsers - 1
      BY <1>2, <2>2 DEF Frees, Takes, Leaves, MmUsers, Closable
    <3>2. mmUsers # 1 /\ mmUsers - 1 # 0 /\ Intact(d)
      BY <3>1
    <3>3. areas' = UnmapSpecial(d) \/ areas' = areas
      BY <1>2, <2>2, <3>2 DEF Frees, Takes, Leaves, MmUsers, ChangeAreas
    <3> QED
      BY <3>1, <3>2, <3>3, UnmapSpecialApp
  <2> QED
    BY <2>1, <2>2
<1>3. CASE \/ \E s \in Starts : AllocateZone(d, s)
           \/ InvalidateImp(d) \/ FreeZoneContext(d)
           \/ \E i \in Indices : CleanUpPageEntry(d, i)
           \/ \E i \in Indices, e \in UserEntries : PageInsert(d, i, e)
  BY <1>3 DEF AllocateZone, InvalidateImp, FreeZoneContext, CleanUpPageEntry, PageInsert, mmVars
<1> QED
  BY <1>1, <1>2, <1>3 DEF Living

(* A descriptor whose zone is still its own changes no area of the process *)
(* in any step of a call on it: allowance, split, munmap and mapping stay  *)
(* within the zone (UserVMManager.cpp:221, 252, 336, 388).                 *)
THEOREM AppKeepsItsAreas == Spec => AppAreasKept
<1> DEFINE Kept(d) == /\ work'[d] # work[d] \/ desc'[d] # desc[d]
                      /\ desc[d] \in {"none", "mapping"} \/ Intact(d)
                      /\ mmUsers' > 0
                      => AppAreas' = AppAreas
           AllKept == \A d \in UserDescs : Kept(d)
<1>1. ASSUME DescriptorInv, [Next]_vars
      PROVE  AllKept
  <2>1. ASSUME NEW d \in UserDescs, work'[d] # work[d] \/ desc'[d] # desc[d],
               desc[d] \in {"none", "mapping"} \/ Intact(d), mmUsers' > 0
        PROVE  AppAreas' = AppAreas
    <3>1. Inserting(d) \/ Living(d)
      BY <1>1, <2>1, ActorCases DEF DescriptorInv
    <3>2. OfApp(areas') = OfApp(areas)
      BY <1>1, <2>1, <3>1, InsertingApp, LivingApp DEF DescriptorInv
    <3> QED
      BY <3>2 DEF OfApp, AppAreas
  <2> QED
    BY <2>1
<1>2. DescriptorInv /\ [Next]_vars => [AllKept]_vars
  BY <1>1
<1>3. Spec => [][AllKept]_vars
  <2> HIDE DEF AllKept
  <2> QED
    BY <1>2, DescriptorInvariant, PTL DEF Spec
<1> QED
  BY <1>3 DEF AppAreasKept
=============================================================================
