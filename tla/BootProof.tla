------------------------------- MODULE BootProof -------------------------------
(***************************************************************************)
(* The seed, for any number of servers, crashes and tries. The INSERT into *)
(* the stores, whose codes are unique, lets one server through and no      *)
(* other ever after; from there on the tables show how far it has come.    *)
(*                                                                         *)
(* And what the rate limiter of a server lets through, for any limit and   *)
(* window. Since a bucket's first tick it is what the bucket counts; in a  *)
(* whole window a limit of the bucket before comes on top of that, and one *)
(* more for each bucket lost in it.                                        *)
(***************************************************************************)
EXTENDS Serving, SumLemmas

\* The tables are filled in the order of seedData, each at most once.
InOrder ==
    /\ seeds["stores"] <= 1
    /\ seeds["users"] <= seeds["stores"]
    /\ seeds["skus"] <= seeds["users"]
    /\ seeds["inventories"] <= seeds["skus"]
    /\ seeds["records"] <= seeds["inventories"]

\* Server s got its stores in.
Seeding(s) == at[s] \in Tables \ {"stores"}

\* What a server that got its stores in finds in the tables.
Found(s) ==
    /\ at[s] = "users" => seeds["stores"] = 1 /\ seeds["users"] = 0
    /\ at[s] = "skus" => seeds["users"] = 1 /\ seeds["skus"] = 0
    /\ at[s] = "inventories" => seeds["skus"] = 1 /\ seeds["inventories"] = 0
    /\ at[s] = "records" => seeds["inventories"] = 1 /\ seeds["records"] = 0

BootInv ==
    /\ BootTypeOK
    /\ InOrder
    /\ \A s \in Servers : Found(s)
    /\ \A r, s \in Servers : Seeding(r) /\ Seeding(s) => r = s

USE BootAssumption

LEMMA BootStarts == BootInit => BootInv
  BY DEF BootInit, BootInv, BootTypeOK, InOrder, Found, Seeding, Tables, Phases

\* A step that leaves the tables alone and puts no server past the stores.
LEMMA QuietKeeps ==
    ASSUME BootInv, BootTypeOK', UNCHANGED seeds,
           \A s \in Servers : at'[s] = at[s] \/ at'[s] \in Phases \cup {"stores"}
    PROVE  BootInv'
<1>1. InOrder'
  BY DEF BootInv, InOrder
<1>2. \A s \in Servers : at'[s] # at[s] => at'[s] \notin Tables \ {"stores"}
  BY DEF Phases, Tables
<1>3. \A s \in Servers : Found(s)'
  BY DEF BootInv, Found, Phases
<1>4. \A r, s \in Servers : Seeding(r)' /\ Seeding(s)' => r = s
  BY <1>2 DEF BootInv, Seeding
<1> QED BY <1>1, <1>3, <1>4 DEF BootInv

\* An INSERT of the seed.
LEMMA InsertKeeps ==
    ASSUME BootInv, NEW s \in Servers, Insert(s)
    PROVE  BootInv'
<1>1. /\ seeds \in [Tables -> Nat] /\ at \in [Servers -> Phases \cup Tables]
      /\ tries' = tries /\ crashes' = crashes
      /\ InOrder /\ Found(s)
      /\ at[s] \in Tables
  BY DEF BootInv, BootTypeOK, Insert
<1>2. CASE Refused(at[s])
  <2>1. seeds' = seeds /\ at' = [at EXCEPT ![s] = "down"]
    BY <1>2 DEF Insert
  <2>2. BootTypeOK'
    BY <1>1, <2>1 DEF BootInv, BootTypeOK, Phases
  <2> QED BY <1>1, <2>1, <2>2, QuietKeeps DEF Phases
<1>3. CASE ~Refused(at[s])
  <2> DEFINE t == at[s]
  <2>1. /\ seeds' = [seeds EXCEPT ![t] = @ + 1]
        /\ at' = [at EXCEPT ![s] = After[t]]
    BY <1>3 DEF Insert
  <2>2. t = "stores" => seeds["stores"] = 0
    BY <1>1, <1>3 DEF Refused, UniqueTables, Tables
  <2>3. \A r \in Servers : r # s => ~Seeding(r)
    <3>1. CASE t = "stores"
      BY <3>1, <2>2, <1>1 DEF BootInv, InOrder, Found, Seeding, Tables
    <3>2. CASE t # "stores"
      BY <3>2, <1>1 DEF BootInv, Seeding
    <3> QED BY <3>1, <3>2
  <2>4. /\ seeds' \in [Tables -> Nat]
        /\ After[t] \in Tables \cup {"serving"}
        /\ at' \in [Servers -> Phases \cup Tables]
        /\ at'[s] = After[t]
        /\ \A r \in Servers : r # s => at'[r] = at[r]
    BY <1>1, <2>1 DEF After, Tables, Phases
  <2>5. BootTypeOK'
    BY <1>1, <2>4 DEF BootInv, BootTypeOK
  <2>6. InOrder' /\ Found(s)'
    <3>1. CASE t = "stores"
      BY <3>1, <1>1, <2>1, <2>2, <2>4 DEF After, Tables, InOrder, Found
    <3>2. CASE t = "users"
      BY <3>2, <1>1, <2>1, <2>4 DEF After, Tables, InOrder, Found
    <3>3. CASE t = "skus"
      BY <3>3, <1>1, <2>1, <2>4 DEF After, Tables, InOrder, Found
    <3>4. CASE t = "inventories"
      BY <3>4, <1>1, <2>1, <2>4 DEF After, Tables, InOrder, Found
    <3>5. CASE t = "records"
      BY <3>5, <1>1, <2>1, <2>4 DEF After, Tables, InOrder, Found
    <3> QED BY <1>1, <3>1, <3>2, <3>3, <3>4, <3>5 DEF Tables
  <2>7. \A r \in Servers : Found(r)'
    BY <2>3, <2>4, <2>6 DEF Found, Seeding, Tables
  <2>8. \A q, r \in Servers : Seeding(q)' /\ Seeding(r)' => q = r
    BY <2>3, <2>4 DEF Seeding
  <2> QED BY <2>5, <2>6, <2>7, <2>8 DEF BootInv
<1> QED BY <1>2, <1>3

LEMMA BootStep == BootInv /\ [BootNext]_bootVars => BootInv'
<1> SUFFICES ASSUME BootInv, [BootNext]_bootVars PROVE BootInv'
  OBVIOUS
<1>1. ASSUME NEW s \in Servers, Start(s) PROVE BootInv'
  <2>1. BootTypeOK'
    BY <1>1 DEF Start, BootInv, BootTypeOK, Phases
  <2> QED BY <1>1, <2>1, QuietKeeps DEF Start, BootInv, BootTypeOK, Phases
<1>2. ASSUME NEW s \in Servers, Connect(s) PROVE BootInv'
  <2>1. BootTypeOK'
    BY <1>2 DEF Connect, BootInv, BootTypeOK, Phases
  <2> QED BY <1>2, <2>1, QuietKeeps DEF Connect, BootInv, BootTypeOK, Phases
<1>3. ASSUME NEW s \in Servers, CountUsers(s) PROVE BootInv'
  <2>1. BootTypeOK'
    BY <1>3 DEF CountUsers, BootInv, BootTypeOK, Phases, Tables
  <2> QED BY <1>3, <2>1, QuietKeeps DEF CountUsers, BootInv, BootTypeOK, Phases
<1>4. ASSUME NEW s \in Servers, Insert(s) PROVE BootInv'
  BY <1>4, InsertKeeps
<1>5. ASSUME NEW s \in Servers, ConnectFails(s) PROVE BootInv'
  <2>1. BootTypeOK'
    BY <1>5 DEF ConnectFails, BootInv, BootTypeOK, Phases
  <2> QED BY <1>5, <2>1, QuietKeeps DEF ConnectFails, BootInv, BootTypeOK, Phases
<1>6. ASSUME NEW s \in Servers, Crash(s) PROVE BootInv'
  <2>1. BootTypeOK'
    BY <1>6 DEF Crash, BootInv, BootTypeOK, Phases
  <2> QED BY <1>6, <2>1, QuietKeeps DEF Crash, BootInv, BootTypeOK, Phases
<1>7. CASE UNCHANGED bootVars
  <2>1. BootTypeOK'
    BY <1>7 DEF bootVars, BootInv, BootTypeOK
  <2> QED BY <1>7, <2>1, QuietKeeps DEF bootVars
<1> QED BY <1>1, <1>2, <1>3, <1>4, <1>5, <1>6, <1>7 DEF BootNext, Progress

-----------------------------------------------------------------------------
USE LimiterAssumption, FrontAssumption

\* The bucket and the clock, which no step of a start touches.
LEMMA LimiterStep ==
    ASSUME LimiterTypeOK, [ServingNext]_servingVars
    PROVE  LimiterTypeOK'
<1> DEFINE Typed == /\ age' \in -1..(Window + 1)
                    /\ count' \in 0..(StrictLimit + 1)
                    /\ served' \in [Ages -> Nat]
<1>1. /\ age \in -1..(Window + 1) /\ count \in 0..(StrictLimit + 1)
      /\ served \in [Ages -> Nat]
  BY DEF LimiterTypeOK
<1>2. StrictLimit \in Nat \ {0} /\ 0 \in Ages
  BY DEF StrictLimit, Ages
<1>3. CASE Memory
  BY <1>1, <1>2, <1>3 DEF Memory, LimiterTypeOK
<1>4. CASE AllowFresh
  <2>1. served' = [served EXCEPT ![0] = @ + 1]
    BY <1>4 DEF AllowFresh
  <2>2. served' \in [Ages -> Nat]
    BY <1>1, <1>2, <2>1
  <2>3. age' = 0 /\ count' = 1
    BY <1>4 DEF AllowFresh
  <2> QED BY <1>2, <2>2, <2>3 DEF LimiterTypeOK
<1>5. CASE AllowCounted
  <2>1. count' \in 0..(StrictLimit + 1) /\ age' = age
    BY <1>1, <1>2, <1>5 DEF AllowCounted
  <2>2. served' = served \/ served' = [served EXCEPT ![0] = @ + 1]
    BY <1>5 DEF AllowCounted
  <2>3. served' \in [Ages -> Nat]
    BY <1>1, <1>2, <2>2
  <2> QED BY <1>1, <2>1, <2>3 DEF LimiterTypeOK
<1>6. CASE Tick
  <2>1. age' \in -1..(Window + 1) /\ count' = count
    BY <1>1, <1>6 DEF Tick
  <2>2. \A a \in Ages : a # 0 => a - 1 \in Ages
    BY DEF Ages
  <2>3. served' \in [Ages -> Nat]
    BY <1>1, <1>6, <2>2 DEF Tick
  <2> QED BY <1>1, <2>1, <2>3 DEF LimiterTypeOK
<1>7. CASE UNCHANGED servingVars
  BY <1>7 DEF servingVars, LimiterTypeOK
<1> QED BY <1>3, <1>4, <1>5, <1>6, <1>7
        DEF ServingNext, Starting, Failing, Request, Ask, Passing

\* Seen from the tables, a serving server is one that starts: a request and the
\* clock are stutters.
LEMMA ServingStep == BootInv /\ [ServingNext]_servingVars => BootInv'
<1>1. [ServingNext]_servingVars => [BootNext]_bootVars
  BY DEF ServingNext, Starting, Failing, Request, Passing, BootNext, servingVars, bootVars
<1> QED BY <1>1, BootStep

LEMMA BootInvariant == ServingSpec => []BootInv
<1>1. ServingInit => BootInv
  BY BootStarts DEF ServingInit
<1> QED BY <1>1, ServingStep, PTL DEF ServingSpec

\* Servers, tries and tables keep their types: no server tries to connect more
\* often than connectDB allows.
THEOREM BootTypeCorrect == ServingSpec => []BootTypeOK
<1>1. BootInv => BootTypeOK
  BY DEF BootInv
<1> QED BY <1>1, BootInvariant, PTL

\* However many servers start, crash and start again, no table holds the seed
\* twice (seedData), though inventory and records have no unique column.
THEOREM SeededOnceCorrect == ServingSpec => []SeededOnce
<1>1. BootInv => SeededOnce
  BY DEF BootInv, BootTypeOK, InOrder, SeededOnce, Tables
<1> QED BY <1>1, BootInvariant, PTL

\* A partial seed never refers to rows that are not there.
THEOREM SeedRefersCorrect == ServingSpec => []SeedRefersToRows
<1>1. BootInv => SeedRefersToRows
  BY DEF BootInv, BootTypeOK, InOrder, SeedRefersToRows, Tables
<1> QED BY <1>1, BootInvariant, PTL

\* The bucket of the limiter (allow) keeps its types over crashes and restarts,
\* whatever limit and window are configured.
THEOREM LimiterTypeCorrect == ServingSpec => []LimiterTypeOK
<1>1. ServingInit => LimiterTypeOK
  BY DEF ServingInit, LimiterInit, LimiterTypeOK, StrictLimit
<1> QED BY <1>1, LimiterStep, PTL DEF ServingSpec

-----------------------------------------------------------------------------
\* The requests that got through. Each bucket lets at most the limit through and
\* then expires only after a whole window, so the last n ticks see the present
\* bucket, one before it, and every bucket that was lost in these n ticks.

\* What a history of ticks, requests served or buckets lost, adds up to.
Last(h, n) == SumFunctionOnSet(h, 0..(n - 1))

\* How many requests the present bucket has let through.
Allowed == IF count > StrictLimit THEN StrictLimit ELSE count

\* Only a serving Front has a bucket. What got through since its first tick, that
\* one apart, was let through by it; and what got through in the last n ticks.
MemoryInv ==
    /\ LimiterTypeOK
    /\ lost \in [Ages -> Nat]
    /\ age # -1 => at[Front] = "serving"
    /\ age = -1 => count = 0
    /\ age # -1 => \A n \in 0..age : Last(served, n) <= Allowed
    /\ \A n \in Ages : Last(served, n) <= (1 + Last(lost, n)) * StrictLimit + Allowed

LEMMA WithinLast ==
    /\ ServedWithin(Window) = Last(served, Window)
    /\ LostWithin(Window) = Last(lost, Window)
<1>1. ServedWithin(Window) = Last(served, Window)
  BY DEF ServedWithin, MapThenSumSet, SumFunctionOnSet, FoldFunctionOnSet, MapThenFoldSet, Last
<1>2. LostWithin(Window) = Last(lost, Window)
  BY DEF LostWithin, MapThenSumSet, SumFunctionOnSet, FoldFunctionOnSet, MapThenFoldSet, Last
<1> QED BY <1>1, <1>2

\* Sums over the last ticks are numbers.
LEMMA LastType ==
    ASSUME NEW h \in [Ages -> Nat], NEW n \in 0..(Window + 1)
    PROVE  Last(h, n) \in Nat
<1>1. n - 1 \in Int /\ \A a \in 0..(n - 1) : a \in 0..Window
  OBVIOUS
<1>2. IsFiniteSet(0..(n - 1))
  BY <1>1, FS_Interval
<1>3. \A a \in 0..(n - 1) : h[a] \in Nat
  BY <1>1 DEF Ages
<1> QED BY <1>2, <1>3, SumNatural DEF Last

\* No tick, nothing.
LEMMA LastNone == ASSUME NEW h PROVE Last(h, 0) = 0
<1>1. SumFunctionOnSet(h, {}) = 0
  BY SumZero, FS_EmptySet
<1>2. 0..(0 - 1) = {}
  OBVIOUS
<1> QED BY <1>1, <1>2 DEF Last

\* What happens now counts in all of the last ticks.
LEMMA LastMore ==
    ASSUME NEW h \in [Ages -> Nat], NEW n \in 0..(Window + 1)
    PROVE  Last([h EXCEPT ![0] = @ + 1], n) = Last(h, n) + IF n = 0 THEN 0 ELSE 1
<1> DEFINE D == 0..(n - 1)
           g == [h EXCEPT ![0] = @ + 1]
<1>1. CASE n = 0
  BY <1>1, LastNone
<1>2. CASE n # 0
  <2>1. n - 1 \in Int /\ 0 \in D /\ \A a \in D : a \in 0..Window
    BY <1>2
  <2>2. IsFiniteSet(D)
    BY <2>1, FS_Interval
  <2>3. \A a \in D : h[a] \in Int /\ g[a] = IF a = 0 THEN h[a] + 1 ELSE h[a]
    BY <2>1 DEF Ages
  <2>4. SumFunctionOnSet(g, D) = SumFunctionOnSet(h, D) + 1
    <3> HIDE DEF D, g
    <3> QED BY <2>1, <2>2, <2>3, SumChange
  <2> QED BY <1>2, <2>4 DEF Last
<1> QED BY <1>1, <1>2

\* With a tick of the clock every sum moves on by one place.
LEMMA LastShifted ==
    ASSUME NEW h, h \in [Ages -> Nat], NEW g, NEW n \in 0..Window,
           g = [a \in Ages |-> IF a = 0 THEN 0 ELSE h[a - 1]]
    PROVE  Last(g, n + 1) = Last(h, n)
<1>1. Window \in Nat /\ Shifts(g, h, Window)
  BY DEF Ages, Shifts
<1>2. SumFunctionOnSet(g, 0..n) = SumFunctionOnSet(h, 0..(n - 1))
  BY <1>1, SumShifted
<1>3. (n + 1) - 1 = n
  OBVIOUS
<1> QED BY <1>2, <1>3 DEF Last

\* One limit, and one more for each bucket lost.
LEMMA Limits ==
    ASSUME NEW m \in Nat
    PROVE  /\ StrictLimit \in Nat \ {0}
           /\ (1 + m) * StrictLimit \in Nat
           /\ StrictLimit <= (1 + m) * StrictLimit
           /\ (1 + (m + 1)) * StrictLimit = (1 + m) * StrictLimit + StrictLimit
           /\ (2 + m) * StrictLimit = (1 + m) * StrictLimit + StrictLimit
<1>1. StrictLimit \in Nat \ {0}
  BY DEF StrictLimit
<1>2. \A k \in Nat : /\ (1 + m) * k \in Nat /\ k <= (1 + m) * k
                     /\ (1 + (m + 1)) * k = (1 + m) * k + k
                     /\ (2 + m) * k = (1 + m) * k + k
  OBVIOUS
<1> QED BY <1>1, <1>2

\* What MemoryInv says of the last n ticks, with its numbers typed.
LEMMA LastBounded ==
    ASSUME MemoryInv, NEW n \in Ages
    PROVE  /\ Last(served, n) \in Nat /\ Last(lost, n) \in Nat
           /\ Allowed \in Nat /\ Allowed <= StrictLimit
           /\ Last(served, n) <= (1 + Last(lost, n)) * StrictLimit + Allowed
<1>1. n \in 0..(Window + 1) /\ served \in [Ages -> Nat] /\ lost \in [Ages -> Nat]
  BY DEF MemoryInv, LimiterTypeOK, Ages
<1>2. Last(served, n) \in Nat /\ Last(lost, n) \in Nat
  BY <1>1, LastType
<1>3. Allowed \in Nat /\ Allowed <= StrictLimit
  BY DEF MemoryInv, LimiterTypeOK, Allowed, StrictLimit
<1> QED BY <1>2, <1>3 DEF MemoryInv

\* A new bucket: the old one let its limit through at most, and all that got
\* through within the window is the old one's.
LEMMA FreshMemory ==
    ASSUME MemoryInv, AllowFresh, lost' = lost, at' = at, at[Front] = "serving",
           LimiterTypeOK'
    PROVE  MemoryInv'
<1>1. /\ age' = 0 /\ count' = 1 /\ served' = [served EXCEPT ![0] = @ + 1]
      /\ age = -1 \/ age = Window + 1
      /\ served \in [Ages -> Nat] /\ lost \in [Ages -> Nat]
  BY DEF AllowFresh, Fresh, MemoryInv, LimiterTypeOK
<1>2. StrictLimit \in Nat \ {0} /\ Allowed' = 1
  BY <1>1 DEF Allowed, StrictLimit
<1>3. ASSUME NEW n \in Ages
      PROVE  Last(served', n) <= (1 + Last(lost', n)) * StrictLimit + Allowed'
  <2> DEFINE S == Last(served, n)
             B == (1 + Last(lost, n)) * StrictLimit
  <2>1. S \in Nat /\ B \in Nat /\ Allowed \in Nat /\ Allowed <= StrictLimit /\ StrictLimit <= B
    BY LastBounded, Limits
  <2>2. S <= B
    <3>1. CASE age = -1
      <4>1. Allowed = 0
        BY <1>2, <3>1 DEF MemoryInv, Allowed
      <4>2. S <= B + Allowed
        BY DEF MemoryInv
      <4> HIDE DEF S, B
      <4> QED BY <2>1, <4>1, <4>2
    <3>2. CASE age = Window + 1
      <4>1. S <= Allowed
        BY <3>2 DEF MemoryInv, Ages
      <4> HIDE DEF S, B
      <4> QED BY <1>2, <2>1, <4>1
    <3> QED BY <1>1, <3>1, <3>2
  <2>3. Last(served', n) \in {S, S + 1}
    <3>1. n \in 0..(Window + 1)
      BY DEF Ages
    <3>2. Last(served', n) = S + IF n = 0 THEN 0 ELSE 1
      BY <1>1, <3>1, LastMore
    <3> HIDE DEF S
    <3> QED BY <2>1, <3>2
  <2>4. Last(served', n) <= B + 1
    <3> HIDE DEF S, B
    <3> QED BY <2>1, <2>2, <2>3
  <2> QED BY <1>2, <2>4
<1>4. \A n \in 0..age' : Last(served', n) <= Allowed'
  BY <1>1, <1>2, LastNone
<1>5. /\ lost' \in [Ages -> Nat]
      /\ age' # -1 => at'[Front] = "serving"
      /\ age' = -1 => count' = 0
  BY <1>1
<1> QED BY <1>3, <1>4, <1>5 DEF MemoryInv

\* A counted request is let through only while the limit lasts.
LEMMA CountedMemory ==
    ASSUME MemoryInv, AllowCounted, lost' = lost, at' = at, LimiterTypeOK'
    PROVE  MemoryInv'
<1>1. /\ age' = age /\ age \in 0..Window /\ lost \in [Ages -> Nat]
      /\ count' = IF count > StrictLimit THEN count ELSE count + 1
      /\ served' = IF count' <= StrictLimit THEN [served EXCEPT ![0] = @ + 1] ELSE served
  BY DEF AllowCounted, Fresh, MemoryInv, LimiterTypeOK
<1>2. served \in [Ages -> Nat] /\ count \in Nat /\ StrictLimit \in Nat
  BY DEF MemoryInv, LimiterTypeOK, StrictLimit
<1>3. ASSUME NEW n \in Ages
      PROVE  /\ Last(served, n) \in Nat /\ Last(served', n) \in Nat
             /\ Last(served', n) - Last(served, n) <= Allowed' - Allowed
             /\ Allowed \in Nat /\ Allowed' \in Nat
  <2>1. Last(served, n) \in Nat /\ n \in 0..(Window + 1)
    BY LastBounded DEF Ages
  <2>2. CASE count' <= StrictLimit
    <3>1. Last(served', n) = Last(served, n) + IF n = 0 THEN 0 ELSE 1
      <4>1. served' = [served EXCEPT ![0] = @ + 1]
        BY <1>1, <2>2
      <4> QED BY <1>2, <2>1, <4>1, LastMore
    <3>2. Allowed' = Allowed + 1 /\ Allowed \in Nat
      BY <1>1, <1>2, <2>2 DEF Allowed, StrictLimit
    <3> QED BY <2>1, <3>1, <3>2
  <2>3. CASE ~(count' <= StrictLimit)
    <3>1. Last(served', n) = Last(served, n)
      BY <1>1, <2>3
    <3>2. Allowed' >= Allowed /\ Allowed \in Nat /\ Allowed' \in Nat
      BY <1>1, <1>2 DEF Allowed, StrictLimit
    <3> QED BY <2>1, <3>1, <3>2
  <2> QED BY <2>2, <2>3
<1>4. ASSUME NEW n \in Ages
      PROVE  Last(served', n) <= (1 + Last(lost', n)) * StrictLimit + Allowed'
  <2> DEFINE B == (1 + Last(lost, n)) * StrictLimit
  <2>1. B \in Nat /\ Last(served, n) <= B + Allowed
    BY LastBounded, Limits
  <2>2. Last(served', n) <= B + Allowed'
    <3> HIDE DEF B
    <3> QED BY <1>3, <2>1
  <2> QED BY <2>2
<1>5. ASSUME NEW n \in 0..age' PROVE Last(served', n) <= Allowed'
  <2>1. n \in Ages /\ Last(served, n) <= Allowed
    BY <1>1 DEF MemoryInv, Ages
  <2> QED BY <1>3, <2>1
<1>6. /\ lost' \in [Ages -> Nat]
      /\ age' # -1 => at'[Front] = "serving"
      /\ age' = -1 => count' = 0
  BY <1>1 DEF MemoryInv
<1> QED BY <1>4, <1>5, <1>6 DEF MemoryInv

\* The clock only moves requests, and lost buckets, out of the window.
LEMMA TickMemory ==
    ASSUME MemoryInv, Passing, LimiterTypeOK'
    PROVE  MemoryInv'
<1>1. /\ served \in [Ages -> Nat] /\ lost \in [Ages -> Nat]
      /\ served' = [a \in Ages |-> IF a = 0 THEN 0 ELSE served[a - 1]]
      /\ lost' = [a \in Ages |-> IF a = 0 THEN 0 ELSE lost[a - 1]]
      /\ age \in -1..(Window + 1) /\ count' = count /\ at' = at
      /\ age' = IF age = -1 \/ age > Window THEN age ELSE age + 1
  BY DEF Passing, Tick, MemoryInv, LimiterTypeOK, bootVars
<1>2. Allowed' = Allowed /\ Allowed \in Nat
  BY <1>1 DEF Allowed, StrictLimit, MemoryInv, LimiterTypeOK
<1>3. lost' \in [Ages -> Nat]
  <2>1. \A a \in Ages : a # 0 => a - 1 \in Ages
    BY DEF Ages
  <2> QED BY <1>1, <2>1
<1>4. ASSUME NEW n \in 0..Window
      PROVE  Last(served', n + 1) = Last(served, n) /\ Last(lost', n + 1) = Last(lost, n)
  BY <1>1, LastShifted DEF Ages
<1>5. Last(served', 0) = 0 /\ Last(lost', 0) = 0
  BY LastNone
<1>6. ASSUME NEW n \in Ages
      PROVE  Last(served', n) <= (1 + Last(lost', n)) * StrictLimit + Allowed'
  <2>1. CASE n = 0
    <3>1. (1 + 0) * StrictLimit \in Nat
      BY Limits
    <3> QED BY <1>2, <1>5, <2>1, <3>1
  <2>2. CASE n # 0
    <3>1. n - 1 \in 0..Window /\ (n - 1) + 1 = n
      BY <2>2 DEF Ages
    <3>2. Last(served', n) = Last(served, n - 1) /\ Last(lost', n) = Last(lost, n - 1)
      BY <1>4, <3>1
    <3> QED BY <1>2, <3>1, <3>2 DEF MemoryInv, Ages
  <2> QED BY <2>1, <2>2
<1>7. ASSUME age' # -1, NEW n \in 0..age' PROVE Last(served', n) <= Allowed'
  <2>1. CASE n = 0
    BY <1>2, <1>5, <2>1
  <2>2. CASE n # 0
    <3>1. n - 1 \in 0..Window /\ n - 1 \in 0..age /\ age # -1 /\ (n - 1) + 1 = n
      BY <1>1, <1>7, <2>2
    <3>2. Last(served', n) = Last(served, n - 1)
      BY <1>4, <3>1
    <3> QED BY <1>2, <3>1, <3>2 DEF MemoryInv
  <2> QED BY <2>1, <2>2
<1>8. (age' = -1 => count' = 0) /\ (age' # -1 => at'[Front] = "serving")
  BY <1>1 DEF MemoryInv
<1> QED BY <1>3, <1>6, <1>7, <1>8 DEF MemoryInv

\* A step of a server's life: the bucket stays, or is lost and counted as lost.
LEMMA LifeMemory ==
    ASSUME MemoryInv, BootTypeOK, NEW s \in Servers,
           Progress(s) \/ ConnectFails(s) \/ Crash(s), Memory, LimiterTypeOK'
    PROVE  MemoryInv'
<1>1. /\ at \in [Servers -> Phases \cup Tables] /\ served' = served
      /\ served \in [Ages -> Nat] /\ lost \in [Ages -> Nat] /\ 0 \in Ages
  BY DEF MemoryInv, BootTypeOK, LimiterTypeOK, Memory, Ages
<1>2. CASE at'[Front] = "down" /\ age # -1
  <2>1. age' = -1 /\ count' = 0 /\ Allowed' = 0 /\ lost' = [lost EXCEPT ![0] = @ + 1]
    BY <1>2 DEF Memory, Allowed, StrictLimit
  <2>2. lost' \in [Ages -> Nat]
    BY <1>1, <2>1
  <2>3. ASSUME NEW n \in Ages
        PROVE  Last(served', n) <= (1 + Last(lost', n)) * StrictLimit + Allowed'
    <3> DEFINE S == Last(served, n)
               L == Last(lost, n)
    <3>1. S \in Nat /\ L \in Nat /\ Allowed \in Nat /\ Allowed <= StrictLimit
          /\ S <= (1 + L) * StrictLimit + Allowed
      BY LastBounded
    <3>2. CASE n = 0
      <4>1. S = 0 /\ Last(lost', n) = 0
        BY <3>2, LastNone
      <4>2. (1 + 0) * StrictLimit \in Nat
        BY Limits
      <4> QED BY <1>1, <2>1, <4>1, <4>2
    <3>3. CASE n # 0
      <4>1. n \in 0..(Window + 1)
        BY DEF Ages
      <4>2. Last(lost', n) = L + IF n = 0 THEN 0 ELSE 1
        BY <1>1, <2>1, <4>1, LastMore
      <4>3. Last(lost', n) = L + 1
        BY <3>3, <4>2
      <4>4. /\ (1 + L) * StrictLimit \in Nat /\ StrictLimit \in Nat
            /\ (1 + (L + 1)) * StrictLimit = (1 + L) * StrictLimit + StrictLimit
        BY <3>1, Limits
      <4>5. S <= (1 + (L + 1)) * StrictLimit
        <5> HIDE DEF S, L
        <5> QED BY <3>1, <4>4
      <4> QED BY <1>1, <2>1, <3>1, <4>3, <4>4, <4>5
    <3> QED BY <3>2, <3>3
  <2> QED BY <2>1, <2>2, <2>3 DEF MemoryInv
<1>3. CASE ~(at'[Front] = "down" /\ age # -1)
  <2>1. age' = age /\ count' = count /\ lost' = lost /\ Allowed' = Allowed
    BY <1>3 DEF Memory, MemoryInv, Allowed, StrictLimit
  <2>2. at[Front] = "serving" /\ at'[Front] # "down" => at'[Front] = "serving"
    BY <1>1 DEF Progress, Start, Connect, CountUsers, Insert, ConnectFails, Crash, Tables
  <2>3. age' # -1 => at'[Front] = "serving"
    BY <1>3, <2>1, <2>2 DEF MemoryInv
  <2> QED BY <1>1, <2>1, <2>3 DEF MemoryInv
<1> QED BY <1>2, <1>3

LEMMA MemoryStep ==
    ASSUME MemoryInv, BootTypeOK, LimiterTypeOK', [ServingNext]_servingVars
    PROVE  MemoryInv'
<1>1. ASSUME NEW s \in Servers, Starting(s) \/ Failing(s) PROVE MemoryInv'
  BY <1>1, LifeMemory DEF Starting, Failing
<1>2. CASE Request
  BY <1>2, FreshMemory, CountedMemory DEF Request, Ask, bootVars
<1>3. CASE Passing
  BY <1>3, TickMemory
<1>4. CASE UNCHANGED servingVars
  BY <1>4 DEF servingVars, MemoryInv, Allowed, StrictLimit
<1> QED BY <1>1, <1>2, <1>3, <1>4 DEF ServingNext

LEMMA MemoryStarts == ServingInit => MemoryInv
<1> SUFFICES ASSUME ServingInit PROVE MemoryInv
  OBVIOUS
<1>1. /\ age = -1 /\ count = 0
      /\ served = [a \in Ages |-> 0] /\ lost = [a \in Ages |-> 0]
  BY DEF ServingInit, LimiterInit
<1>2. LimiterTypeOK /\ Allowed = 0 /\ lost \in [Ages -> Nat]
  BY <1>1 DEF LimiterTypeOK, Allowed, StrictLimit
<1>3. ASSUME NEW n \in Ages
      PROVE  Last(served, n) <= (1 + Last(lost, n)) * StrictLimit + Allowed
  <2>1. n - 1 \in Int /\ \A a \in 0..(n - 1) : a \in Ages
    BY DEF Ages
  <2>2. IsFiniteSet(0..(n - 1)) /\ \A a \in 0..(n - 1) : served[a] = 0 /\ lost[a] = 0
    BY <1>1, <2>1, FS_Interval
  <2>3. Last(served, n) = 0 /\ Last(lost, n) = 0
    BY <2>2, SumZero DEF Last
  <2>4. (1 + 0) * StrictLimit \in Nat
    BY Limits
  <2> QED BY <1>2, <2>3, <2>4
<1> QED BY <1>1, <1>2, <1>3 DEF MemoryInv

\* Whatever limit and window are configured, however requests fall in time and
\* servers crash: no window sees more requests get through (allow) than two
\* limits, and one more for each bucket the front server lost in that window.
THEOREM AtMostTwoLimitsCorrect == ServingSpec => []AtMostTwoLimits
<1>1. MemoryInv => AtMostTwoLimits
  <2> SUFFICES ASSUME MemoryInv
               PROVE  Last(served, Window) <= (2 + Last(lost, Window)) * StrictLimit
    BY WithinLast DEF AtMostTwoLimits
  <2> DEFINE S == Last(served, Window)
             L == Last(lost, Window)
             Earlier == (1 + L) * StrictLimit
             Later == (2 + L) * StrictLimit
  <2>1. /\ S \in Nat /\ L \in Nat /\ Allowed \in Nat /\ Allowed <= StrictLimit
        /\ S <= Earlier + Allowed
    BY LastBounded DEF Ages
  <2>2. StrictLimit \in Nat /\ Earlier \in Nat /\ Later = Earlier + StrictLimit
    BY <2>1, Limits
  <2> HIDE DEF S, Earlier, Later
  <2>3. S <= Later
    BY <2>1, <2>2
  <2> QED BY <2>3 DEF S, Later
<1>2. BootInv => BootTypeOK
  BY DEF BootInv
<1> QED BY <1>1, <1>2, BootInvariant, LimiterTypeCorrect, MemoryStarts, MemoryStep, PTL
        DEF ServingSpec
=============================================================================
