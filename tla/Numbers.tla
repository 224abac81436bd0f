--------------------------------- MODULE Numbers ---------------------------------
(***************************************************************************)
(* Computations of the library that keep no state, asked with every input  *)
(* of a small set: ticks of a wait, the protection of a page, ranges on a  *)
(* stack, the directory above a path, the notation of a time zone.         *)
(*                                                                         *)
(* Addresses have WordSize values, and wrap.                               *)
(***************************************************************************)
EXTENDS Integers, Sequences, FiniteSets

CONSTANTS
  Frequencies,    \* KERNEL_FREQUENCY
  Waits,          \* milliseconds of a wait, none of them 0, by which it would divide
  WordSize,       \* 2^64 in the code
  Stack,          \* start and end of the stack asked about
  Paths,          \* absolute paths of more than a character, as sequences
  ZoneMinutes     \* tz_minuteswest

(* The kernel accepts zones of at most 15 hours.                           *)
ASSUME NumbersAssumption ==
  /\ Frequencies \subseteq Nat /\ Waits \subseteq Nat \ {0}
  /\ WordSize \in Nat \ {0} /\ Stack.start \in 0..(WordSize - 1) /\ Stack.end \in 0..(WordSize - 1)
  /\ \A p \in Paths : p \in Seq({p[i] : i \in DOMAIN p}) /\ Len(p) > 1 /\ p[1] = "/"
  /\ ZoneMinutes \subseteq -900..900

VARIABLES question, answer

numVars == <<question, answer>>

-----------------------------------------------------------------------------
MSToOSTicks(HZ, ms) == IF ms > 1000 THEN (HZ * ms) \div 1000 ELSE HZ \div (1000 \div ms)

(* CreatePageEntry.  The cache type is worked into an entry that the       *)
(* access then overwrites, from a cache field that nobody has set.         *)
Accesses3 == SUBSET {"read", "write", "execute"}

CacheTypes == {"cache", "writeCombined", "noCache", "writeThrough", "writeProtected"}

Granted(access) == IF access \cap {"write", "execute"} # {} THEN access \cup {"read"} ELSE access

UpdatePageEntryCache(entry, cache) == [entry EXCEPT !.kprot = [@ EXCEPT !.mode = cache]]

UpdatePageEntryAccess(entry, access) ==
  LET granted == Granted(access) IN
  UpdatePageEntryCache(
    [kprot |-> [present |-> "read" \in granted, rw |-> "write" \in granted,
                nx |-> "execute" \notin granted, mode |-> "cache"],
     access |-> granted, cache |-> entry.cache],
    entry.cache)

NoEntry == [kprot |-> [present |-> FALSE, rw |-> FALSE, nx |-> FALSE, mode |-> "cache"],
            access |-> {}, cache |-> "cache"]

CreatePageEntry(access, cache) ==
  UpdatePageEntryAccess(UpdatePageEntryCache(NoEntry, cache), access)

(* IsInRangeEx: the assertion, then the ends.                              *)
IsInRangeExOpen(address, length) ==          \* mutant: looks at the start of the range alone
  LET other == (address + length) % WordSize
      min == IF length > 0 THEN address ELSE other
      max == IF length > 0 THEN other ELSE address IN
  IF min >= max THEN "assertion" ELSE IF min < Stack.start \/ min >= Stack.end THEN "no" ELSE "yes"

IsInRangeEx(address, length) ==
  LET other == (address + length) % WordSize
      min == IF length > 0 THEN address ELSE other
      max == IF length > 0 THEN other ELSE address IN
  IF min >= max THEN "assertion" ELSE IF min < Stack.start \/ max >= Stack.end THEN "no" ELSE "yes"

(* UpDir: a slash at the end is passed over; what follows the one before   *)
(* it is cut off, unless that is the first character.                      *)
PathUpDir(path) ==
  LET last == IF path[Len(path)] = "/" THEN Len(path) - 1 ELSE Len(path)
      slashes == {i \in 2..last : path[i] = "/"} IN
  IF slashes = {} THEN [found |-> FALSE, dest |-> path]
  ELSE [found |-> TRUE,
        dest |-> SubSeq(path, 1, CHOOSE i \in slashes : \A j \in slashes : j <= i)]

(* GetTimeZoneOffset, and the zone as FormatSharedISO8601 writes it.       *)
GetTimeZoneOffset(tz_minuteswest) == -tz_minuteswest * 60000

ZoneText(tz) ==
  LET m == IF tz < 0 THEN -tz ELSE tz IN
  [neg |-> tz < 0, hrs |-> (m % 86400000) \div 3600000, mins |-> (m % 3600000) \div 60000]

-----------------------------------------------------------------------------
NumInit == question = <<"nothing">> /\ answer = <<"nothing">>

Asks(q, a) == question' = q /\ answer' = a

NumStep ==
  /\ question = <<"nothing">>
  /\ \/ \E HZ \in Frequencies, ms \in Waits : Asks(<<"ticks", HZ, ms>>, <<MSToOSTicks(HZ, ms)>>)
     \/ \E access \in Accesses3, cache \in CacheTypes :
          Asks(<<"entry", access, cache>>, <<CreatePageEntry(access, cache)>>)
     \/ \E address \in 0..(WordSize - 1), length \in -(WordSize \div 2)..(WordSize \div 2 - 1) :
          Asks(<<"range", address, length>>, <<IsInRangeEx(address, length)>>)
     \/ \E path \in Paths : Asks(<<"up", path>>, <<PathUpDir(path)>>)
     \/ \E minutes \in ZoneMinutes :
          Asks(<<"zone", minutes>>, <<ZoneText(GetTimeZoneOffset(minutes))>>)

-----------------------------------------------------------------------------
(* A wait of more milliseconds never gets fewer ticks, and none gets less  *)
(* than its time in whole ticks or more than twice it                      *)
(* (DateHelper.hpp:28, 30, where the way of dividing changes).             *)
TicksRight ==
  question[1] = "ticks" =>
    LET HZ == question[2]  ms == question[3] IN
    /\ answer[1] >= (HZ * ms) \div 1000
    /\ answer[1] * 1000 <= 2 * HZ * ms
    /\ ms - 1 \in Waits => MSToOSTicks(HZ, ms - 1) <= answer[1]

(* A page can be written or executed by the kernel only if that was asked, *)
(* and is there for any access at all.  It is always cached, whatever was  *)
(* asked (OLinuxMemory.cpp:103, 116).                                      *)
EntriesRight ==
  question[1] = "entry" =>
    LET prot == answer[1].kprot  access == question[2] IN
    /\ prot.rw <=> "write" \in access
    /\ prot.nx <=> "execute" \notin access
    /\ prot.present <=> access # {}
    /\ prot.mode = "cache"

(* What is said to be on the stack is, every byte of it, even where the    *)
(* sum of address and length wraps (OLinuxStack.cpp:37, 42).               *)
RangesRight ==
  question[1] = "range" /\ answer[1] = "yes" =>
    LET a == question[2]  l == question[3]
        bytes == IF l > 0 THEN a..(a + l - 1) ELSE (a + l)..(a - 1) IN
    bytes # {} /\ bytes \subseteq Stack.start..(Stack.end - 1)

(* The directory above is a proper beginning of the path, ends in a slash, *)
(* leaves out exactly one name, and is not found for what is directly      *)
(* under the root (FileIOHelper.cpp:22).                                   *)
Names(s) == Cardinality({i \in 1..Len(s) : s[i] # "/" /\ (i = 1 \/ s[i - 1] = "/")})

Doubled(s) == \E i \in 1..(Len(s) - 1) : s[i] = "/" /\ s[i + 1] = "/"

UpRight ==
  question[1] = "up" /\ ~Doubled(question[2]) =>
    LET path == question[2]  up == answer[1] IN
    /\ up.found <=> Names(path) > 1
    /\ up.found => /\ Len(up.dest) < Len(path) /\ up.dest = SubSeq(path, 1, Len(up.dest))
                   /\ up.dest[Len(up.dest)] = "/" /\ Names(up.dest) = Names(path) - 1

ZonesRight ==
  question[1] = "zone" =>
    LET z == answer[1]  m == 60 * z.hrs + z.mins IN
    (IF z.neg THEN -m ELSE m) = -question[2] /\ z.mins < 60

NumbersRight == TicksRight /\ EntriesRight /\ RangesRight /\ UpRight /\ ZonesRight

NumTypeOK == question[1] \in {"nothing", "ticks", "entry", "range", "up", "zone"}
=============================================================================
