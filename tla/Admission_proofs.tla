--------------------------- MODULE Admission_proofs ---------------------------
(***************************************************************************)
(* Proofs about what the platform admits: the gate at its edge, the        *)
(* durable limiter of the signed API and the readiness probe.  They share  *)
(* the rate arithmetic of Gcra and no state.                               *)
(***************************************************************************)
EXTENDS EdgeAdmission, SignedRateLimit, PlatformReadiness, FiniteSetTheorems, TLAPS

-------------------------------------------------------------------------------
(* The rate arithmetic.                                                      *)

(* Products are kept folded: the provers need no more of them than this.     *)
Times(k, i) == k * i

LEMMA ProductsOf ==
  ASSUME NEW k \in Int, NEW i \in Int
  PROVE  Times(k, i) \in Int /\ Times(k + 1, i) = Times(k, i) + i /\ Times(1, i) = i
  BY DEF Times

LEMMA BurstIsOne ==
  ASSUME NEW burst \in Nat \ {0}, NEW i \in Nat \ {0}
  PROVE  Times(burst, i) \in Nat /\ i <= Times(burst, i) /\ (burst - 1) * i = Times(burst, i) - i
  <1>1. (burst - 1) * i \in Nat
    OBVIOUS
  <1>2. (burst - 1) * i = burst * i - i /\ burst * i \in Int
    OBVIOUS
  <1> QED BY <1>1, <1>2 DEF Times

LEMMA Folded ==
  ASSUME NEW times, NEW burst, NEW i, NEW b
  PROVE  /\ Covers(times, i, b) <=> \A k \in 1..Len(times) : times[k] + Times(Len(times) - k + 1, i) <= b
         /\ WithinRate(times, burst, i) <=>
              \A k \in 1..Len(times) : \A j \in k..Len(times) :
                  Times(j - k + 1, i) <= Times(burst, i) + (times[j] - times[k])
  BY DEF Covers, WithinRate, Times

LEMMA CoversMore ==
  ASSUME NEW times \in Seq(Nat), NEW i \in Nat \ {0}, NEW b \in Int, NEW d \in Int, b <= d, Covers(times, i, b)
  PROVE  Covers(times, i, d)
  <1> SUFFICES ASSUME NEW k \in 1..Len(times) PROVE times[k] + Times(Len(times) - k + 1, i) <= d
    BY Folded
  <1>1. times[k] + Times(Len(times) - k + 1, i) <= b
    BY Folded
  <1>2. times[k] \in Nat /\ Len(times) - k + 1 \in Int
    OBVIOUS
  <1>3. Times(Len(times) - k + 1, i) \in Int
    BY <1>2, ProductsOf
  <1> QED BY <1>1, <1>2, <1>3

LEMMA NothingCovered ==
  ASSUME NEW i \in Nat \ {0}, NEW b \in Int, NEW burst \in Nat \ {0}
  PROVE  Covers(<<>>, i, b) /\ WithinRate(<<>>, burst, i)
  BY DEF Covers, WithinRate

LEMMA OneMore ==
  ASSUME NEW n \in Nat, NEW k \in 1..n, NEW x \in Nat, NEW i \in Nat \ {0}, NEW b \in Int,
         x + Times(n - k + 1, i) <= b
  PROVE  x + Times((n + 1) - k + 1, i) <= b + i /\ Times((n + 1) - k + 1, i) \in Int
  <1> DEFINE m == n - k + 1
  <1>1. m \in Int /\ (n + 1) - k + 1 = m + 1 /\ i \in Int
    OBVIOUS
  <1>2. x + Times(m, i) <= b
    OBVIOUS
  <1> HIDE DEF m
  <1>3. Times(m, i) \in Int /\ Times(m + 1, i) = Times(m, i) + i
    BY <1>1, ProductsOf
  <1>4. x + Times(m + 1, i) <= b + i /\ Times(m + 1, i) \in Int
    BY <1>1, <1>2, <1>3
  <1> QED BY <1>1, <1>4

LEMMA Slack ==
  ASSUME NEW x \in Int, NEW m \in Int, NEW top \in Int, NEW t \in Int, NEW b \in Int,
         x + m <= top, top <= t + b
  PROVE  m <= b + (t - x)
  OBVIOUS

(* An allowed request: what was granted before, and the request itself, is   *)
(* within the rate and covered by the bucket as it is charged.               *)
LEMMA GcraGrants ==
  ASSUME NEW times \in Seq(Nat), NEW tat \in Int, NEW burst \in Nat \ {0}, NEW i \in Nat \ {0},
         NEW t \in Nat, NEW b \in Int, b <= tat \/ b <= t,
         Covers(times, i, b), WithinRate(times, burst, i), GcraAllows(tat, burst, i, t)
  PROVE  /\ WithinRate(Append(times, t), burst, i)
         /\ Covers(Append(times, t), i, GcraNext(tat, i, t))
         /\ GcraNext(tat, i, t) \in Int /\ t + i <= GcraNext(tat, i, t)
         /\ GcraNext(tat, i, t) <= t + Times(burst, i)
  <1> DEFINE n == Len(times)
             top == IF tat > t THEN tat ELSE t
             new == Append(times, t)
             C(k) == new[k] + Times((n + 1) - k + 1, i) <= top + i
             R(k, j) == Times(j - k + 1, i) <= Times(burst, i) + (new[j] - new[k])
  <1>1. n \in Nat /\ top \in Int /\ b <= top /\ t <= top /\ i \in Int
    OBVIOUS
  <1>2. Times(burst, i) \in Nat /\ i <= Times(burst, i) /\ (burst - 1) * i = Times(burst, i) - i
    BY BurstIsOne
  <1>3. top + i <= t + Times(burst, i)
    BY <1>2 DEF GcraAllows
  <1>4. GcraNext(tat, i, t) = top + i
    BY DEF GcraNext
  <1>5. /\ Len(new) = n + 1 /\ new[n + 1] = t
        /\ \A k \in 1..n : new[k] = times[k] /\ times[k] \in Nat
    OBVIOUS
  <1> HIDE DEF top, new
  <1>6. ASSUME NEW k \in 1..n PROVE C(k) /\ R(k, n + 1)
    <2>1. times[k] + Times(n - k + 1, i) <= b
      BY Folded
    <2>2. n \in Nat /\ k \in 1..n /\ times[k] \in Nat /\ times[k] + Times(n - k + 1, i) <= top /\ top \in Int
      <3>1. n - k + 1 \in Int /\ times[k] \in Nat
        BY <1>1, <1>5
      <3>2. Times(n - k + 1, i) \in Int
        BY <1>1, <3>1, ProductsOf
      <3> DEFINE m == Times(n - k + 1, i)
      <3>3. m \in Int /\ times[k] + m <= b
        BY <2>1, <3>2
      <3> HIDE DEF m, n
      <3>4. times[k] + m <= top
        BY <1>1, <3>1, <3>3
      <3> QED BY <1>1, <3>1, <3>4 DEF m
    <2> HIDE DEF n
    <2>3. times[k] + Times((n + 1) - k + 1, i) <= top + i /\ Times((n + 1) - k + 1, i) \in Int
      BY <2>2, OneMore
    <2>4. new[k] = times[k] /\ times[k] \in Nat /\ new[n + 1] = t
      BY <1>5
    <2>5. C(k)
      BY <2>3, <2>4
    <2>6. R(k, n + 1)
      <3> DEFINE m == Times((n + 1) - k + 1, i)
      <3>1. m \in Int /\ times[k] + m <= top + i
        BY <2>3
      <3> HIDE DEF m
      <3> DEFINE B == Times(burst, i)
                 u == top + i
      <3>2. B \in Int /\ u \in Int /\ t \in Int /\ times[k] \in Int /\ times[k] + m <= u /\ u <= t + B
        BY <1>1, <1>2, <1>3, <2>4, <3>1
      <3> HIDE DEF B, u
      <3>3. m <= B + (t - times[k])
        BY <3>1, <3>2, Slack
      <3> QED BY <2>4, <3>3 DEF m, B
    <2> QED BY <2>5, <2>6
  <1>7. C(n + 1) /\ R(n + 1, n + 1)
    <2>1. (n + 1) - (n + 1) + 1 = 1 /\ Times(1, i) = i
      BY <1>1, ProductsOf
    <2> HIDE DEF n
    <2>2. C(n + 1)
      BY <1>1, <1>5, <2>1
    <2>3. R(n + 1, n + 1)
      BY <1>1, <1>2, <1>5, <2>1
    <2> QED BY <2>2, <2>3
  <1>8. ASSUME NEW k \in 1..n, NEW j \in k..n PROVE R(k, j)
    <2>1. Times(j - k + 1, i) <= Times(burst, i) + (times[j] - times[k])
      BY Folded
    <2>2. new[k] = times[k] /\ new[j] = times[j]
      BY <1>1, <1>5
    <2> QED BY <2>1, <2>2
  <1>9. Covers(new, i, top + i)
    <2>1. \A k \in 1..(n + 1) : C(k)
      <3> SUFFICES ASSUME NEW k \in 1..(n + 1) PROVE C(k)
        OBVIOUS
      <3> HIDE DEF n, C, R
      <3>1. k \in 1..n \/ k = n + 1
        BY <1>1
      <3> QED BY <1>6, <1>7, <3>1
    <2> QED BY <1>5, <2>1, Folded
  <1>10. WithinRate(new, burst, i)
    <2>1. \A k \in 1..(n + 1) : \A j \in k..(n + 1) : R(k, j)
      <3> SUFFICES ASSUME NEW k \in 1..(n + 1), NEW j \in k..(n + 1) PROVE R(k, j)
        OBVIOUS
      <3> HIDE DEF n, C, R
      <3>1. \/ k \in 1..n /\ j \in k..n
            \/ k \in 1..n /\ j = n + 1
            \/ k = n + 1 /\ j = n + 1
        BY <1>1
      <3> QED BY <1>6, <1>7, <1>8, <3>1
    <2> QED BY <1>5, <2>1, Folded
  <1> QED BY <1>1, <1>3, <1>4, <1>9, <1>10 DEF new

-------------------------------------------------------------------------------
(* The gate.                                                                 *)

Connection == [stage : Stages, source : Sources, deadline : Nat, released : BOOLEAN]
Scope == [leases : Nat, tat : Nat, lastSeen : Nat]

LEMMA EdgeConstants ==
  /\ Capacity \in Nat /\ Concurrency \in Nat /\ MaxTime \in Nat /\ IdleTime \in Nat /\ SweepInterval \in Nat
  /\ BodyDeadline \in Nat
  /\ SourceBurst \in Nat \ {0} /\ SourceInterval \in Nat \ {0}
  /\ GlobalBurst \in Nat \ {0} /\ GlobalInterval \in Nat \ {0}
  /\ IsFiniteSet(Connections) /\ IsFiniteSet(Sources) /\ Sources # {}
  BY EdgeAssumption

(* What the gate remembers of a source's charges: its bucket while it is in  *)
(* the map, and once it was forgotten, that they are paid.                   *)
Remembered(s) == IF s \in tracked THEN source[s].tat ELSE lastClock

RatesCovered ==
    /\ \A s \in Sources : Covers(charges[s], SourceInterval, Remembered(s))
    /\ Covers(admissions, GlobalInterval, globalTat)

IdleHoldsNothing == \A r \in Connections : request[r].stage = "idle" => request[r].released = TRUE

EdgeInv ==
    /\ EdgeTypeOK /\ EdgeRateKept /\ RatesCovered
    /\ IdleHoldsNothing /\ LeasesCounted /\ ScopesBounded

LEMMA NoConnectionIs == NoConnection \in Connection /\ NoConnection.released = TRUE /\ NoConnection.stage = "idle"
  BY EdgeConstants DEF NoConnection, Connection, Stages

LEMMA NewSourceIs ==
  ASSUME NEW t \in Nat
  PROVE  NewSource(t) \in Scope /\ NewSource(t).leases = 0 /\ NewSource(t).tat = 0 /\ NewSource(t).lastSeen = t
  BY DEF NewSource, Scope

LEMMA InitEdgeInv == EdgeInit => EdgeInv
  <1> SUFFICES ASSUME EdgeInit PROVE EdgeInv
    OBVIOUS
  <1>1. EdgeTypeOK
    <2>1. request \in [Connections -> Connection] /\ source \in [Sources -> Scope]
      BY NoConnectionIs, NewSourceIs DEF EdgeInit
    <2> QED BY <2>1, EdgeConstants DEF EdgeInit, EdgeTypeOK, Connection, Scope
  <1>2. (\A s \in Sources : charges[s] = <<>>) /\ admissions = <<>> /\ globalTat = 0 /\ lastClock = 0 /\ tracked = {}
    BY DEF EdgeInit
  <1>3. EdgeRateKept /\ RatesCovered
    BY <1>2, NothingCovered, EdgeConstants DEF EdgeRateKept, RatesCovered, Remembered
  <1>4. \A r \in Connections : request[r] = NoConnection
    BY DEF EdgeInit
  <1>5. Holders = {}
    BY <1>4, NoConnectionIs DEF Holders
  <1>6. LeasesCounted
    BY <1>2, <1>5, FS_EmptySet, EdgeConstants DEF LeasesCounted, EdgeInit
  <1>7. ScopesBounded
    BY <1>2, FS_EmptySet, EdgeConstants DEF ScopesBounded
  <1>8. IdleHoldsNothing
    BY <1>4, NoConnectionIs DEF IdleHoldsNothing
  <1> QED BY <1>1, <1>3, <1>6, <1>7, <1>8 DEF EdgeInv

(* The gate's clock never goes back.                                         *)
LEMMA EdgeNowIs == EdgeTypeOK => EdgeNow \in Nat /\ lastClock <= EdgeNow
  BY DEF EdgeTypeOK, EdgeNow

(* The sweep forgets a source only when its charges are paid and it holds    *)
(* no lease.                                                                 *)
LEMMA SweepForgets ==
  ASSUME EdgeInv, NEW s \in tracked, s \notin Kept(EdgeNow)
  PROVE  source[s].leases = 0 /\ source[s].tat <= EdgeNow
  BY DEF Kept, Evictable

LEMMA KeptIs == Kept(EdgeNow) \subseteq tracked
  BY DEF Kept

(* The rate of a source after a call of acquire that charged it or not.      *)
LEMMA SourceAfterCall ==
  ASSUME EdgeInv, NEW s \in Sources, charges'[s] = charges[s], lastClock' = EdgeNow,
         s \in tracked' => s \in Kept(EdgeNow), source'[s].tat = source[s].tat,
         s \in Kept(EdgeNow) => s \in tracked'
  PROVE  /\ Covers(charges'[s], SourceInterval, Remembered(s)')
         /\ WithinRate(charges'[s], SourceBurst, SourceInterval)
  <1>1. /\ charges[s] \in Seq(Nat) /\ lastClock \in Nat /\ source[s].tat \in Nat
        /\ EdgeNow \in Nat /\ lastClock <= EdgeNow
    BY EdgeNowIs DEF EdgeInv, EdgeTypeOK
  <1>2. /\ Covers(charges[s], SourceInterval, Remembered(s))
        /\ WithinRate(charges[s], SourceBurst, SourceInterval)
    BY DEF EdgeInv, RatesCovered, EdgeRateKept
  <1>3. Remembered(s) <= Remembered(s)' /\ Remembered(s) \in Int /\ Remembered(s)' \in Int
    <2>1. CASE s \in Kept(EdgeNow)
      BY <1>1, <2>1, KeptIs DEF Remembered
    <2>2. CASE s \notin Kept(EdgeNow) /\ s \in tracked
      BY <1>1, <2>2, SweepForgets DEF Remembered
    <2>3. CASE s \notin Kept(EdgeNow) /\ s \notin tracked
      BY <1>1, <2>3 DEF Remembered
    <2> QED BY <2>1, <2>2, <2>3
  <1>4. Covers(charges[s], SourceInterval, Remembered(s)')
    BY <1>1, <1>2, <1>3, CoversMore, EdgeConstants
  <1> QED BY <1>2, <1>4

LEMMA FoundIs ==
  ASSUME EdgeInv, NEW s \in Sources
  PROVE  /\ Found(s, EdgeNow) \in Scope
         /\ Remembered(s) \in Int
         /\ Remembered(s) <= Found(s, EdgeNow).tat \/ Remembered(s) <= EdgeNow
         /\ Found(s, EdgeNow).leases = IF s \in tracked THEN source[s].leases ELSE 0
  <1>1. source[s] \in Scope /\ lastClock \in Nat /\ EdgeNow \in Nat /\ lastClock <= EdgeNow /\ source[s].tat \in Nat
    BY EdgeNowIs DEF EdgeInv, EdgeTypeOK, Scope
  <1>2. NewSource(EdgeNow) \in Scope /\ NewSource(EdgeNow).leases = 0
    BY <1>1, NewSourceIs
  <1>3. CASE s \in Kept(EdgeNow)
    BY <1>1, <1>3, KeptIs DEF Found, Remembered
  <1>4. CASE s \notin Kept(EdgeNow) /\ s \in tracked
    BY <1>1, <1>2, <1>4, SweepForgets DEF Found, Remembered
  <1>5. CASE s \notin Kept(EdgeNow) /\ s \notin tracked
    BY <1>1, <1>2, <1>5 DEF Found, Remembered
  <1> QED BY <1>3, <1>4, <1>5

(* A charge keeps to the rate of the source.                                 *)
LEMMA ChargeKeepsRate ==
  ASSUME EdgeInv, NEW s \in Sources, ~SourceLimited(s, EdgeNow)
  PROVE  LET c == Charged(s, EdgeNow) IN
         /\ c \in Scope /\ c.leases = Found(s, EdgeNow).leases
         /\ Append(charges[s], EdgeNow) \in Seq(Nat)
         /\ WithinRate(Append(charges[s], EdgeNow), SourceBurst, SourceInterval)
         /\ Covers(Append(charges[s], EdgeNow), SourceInterval, c.tat)
  <1> DEFINE f == Found(s, EdgeNow)
             next == GcraNext(f.tat, SourceInterval, EdgeNow)
  <1>1. /\ f \in Scope /\ Remembered(s) \in Int /\ f.tat \in Nat /\ (Remembered(s) <= f.tat \/ Remembered(s) <= EdgeNow)
    BY FoundIs DEF Scope
  <1>2. EdgeNow \in Nat /\ charges[s] \in Seq(Nat) /\ GcraAllows(f.tat, SourceBurst, SourceInterval, EdgeNow)
    BY EdgeNowIs DEF EdgeInv, EdgeTypeOK, SourceLimited
  <1>3. /\ Covers(charges[s], SourceInterval, Remembered(s))
        /\ WithinRate(charges[s], SourceBurst, SourceInterval)
    BY DEF EdgeInv, RatesCovered, EdgeRateKept
  <1>4. Charged(s, EdgeNow) = [f EXCEPT !.tat = next]
    BY DEF Charged
  <1>5. next \in Nat
    BY <1>1, <1>2, EdgeConstants DEF GcraNext
  <1> HIDE DEF f
  <1>6. /\ WithinRate(Append(charges[s], EdgeNow), SourceBurst, SourceInterval)
        /\ Covers(Append(charges[s], EdgeNow), SourceInterval, next)
    BY <1>1, <1>2, <1>3, GcraGrants, EdgeConstants
  <1> HIDE DEF next
  <1>7. /\ [f EXCEPT !.tat = next] \in Scope /\ [f EXCEPT !.tat = next].leases = f.leases
        /\ [f EXCEPT !.tat = next].tat = next
    BY <1>1, <1>5 DEF Scope
  <1> QED BY <1>2, <1>4, <1>6, <1>7 DEF f

LEMMA HoldersFinite ==
  /\ IsFiniteSet(Holders) /\ Holders \subseteq Connections
  /\ \A s : IsFiniteSet(HoldersOf(s)) /\ HoldersOf(s) \subseteq Holders
  <1>1. Holders \subseteq Connections /\ \A s : HoldersOf(s) \subseteq Holders /\ HoldersOf(s) \subseteq Connections
    BY DEF Holders, HoldersOf
  <1> QED BY <1>1, EdgeConstants, FS_Subset

(* A source that somebody holds a lease of is in the map and stays there.    *)
LEMMA HolderIsKept ==
  ASSUME EdgeInv, NEW r \in Holders
  PROVE  request[r].source \in Kept(EdgeNow) /\ request[r].source \in Sources
  <1> DEFINE s == request[r].source
  <1>1. s \in tracked /\ s \in Sources /\ source[s].leases = Cardinality(HoldersOf(s)) /\ r \in HoldersOf(s)
    BY DEF EdgeInv, LeasesCounted, HoldersOf, EdgeTypeOK
  <1>2. source[s].leases # 0
    BY <1>1, HoldersFinite, FS_EmptySet
  <1> QED BY <1>1, <1>2, SweepForgets

LEMMA TrackedFinite ==
  ASSUME EdgeInv
  PROVE  /\ IsFiniteSet(tracked) /\ IsFiniteSet(Kept(EdgeNow))
         /\ Cardinality(Kept(EdgeNow)) \in Nat /\ Cardinality(Kept(EdgeNow)) <= Capacity
  <1>1. IsFiniteSet(tracked) /\ Cardinality(tracked) <= Capacity
    BY EdgeConstants, FS_Subset DEF EdgeInv, EdgeTypeOK, ScopesBounded
  <1>2. /\ IsFiniteSet(Kept(EdgeNow)) /\ Cardinality(Kept(EdgeNow)) <= Cardinality(tracked)
        /\ Cardinality(Kept(EdgeNow)) \in Nat /\ Cardinality(tracked) \in Nat
    BY <1>1, KeptIs, FS_Subset, FS_CardinalityType
  <1> QED BY <1>1, <1>2, EdgeConstants

(* A refusal: the map is swept, a source in it may be charged, and no lease  *)
(* changes hands.                                                            *)
LEMMA RefusalKeeps ==
  ASSUME EdgeInv, NEW s \in Sources, refuseSource(s) \/ refuseShared(s)
  PROVE  EdgeInv'
  <1>1. /\ lastClock' = EdgeNow /\ lastSweep' \in {EdgeNow, lastSweep} /\ tracked' = Kept(EdgeNow)
        /\ UNCHANGED <<class, wall, globalTat, concurrency, request, admissions, admitted>>
    BY DEF refuseSource, refuseShared, Sweep
  <1>2. EdgeTypeOK /\ EdgeNow \in Nat /\ source \in [Sources -> Scope] /\ charges \in [Sources -> Seq(Nat)]
    BY EdgeNowIs DEF EdgeInv, EdgeTypeOK, Scope
  <1>3. \/ source' = source /\ charges' = charges
        \/ /\ s \in Kept(EdgeNow) /\ ~SourceLimited(s, EdgeNow)
           /\ source' = [source EXCEPT ![s] = Charged(s, EdgeNow)]
           /\ charges' = [charges EXCEPT ![s] = Append(@, EdgeNow)]
    BY DEF refuseSource, refuseShared
  <1> DEFINE c == Charged(s, EdgeNow)
  <1>4. ~SourceLimited(s, EdgeNow) =>
           /\ c \in Scope /\ c.leases = Found(s, EdgeNow).leases
           /\ Append(charges[s], EdgeNow) \in Seq(Nat)
           /\ WithinRate(Append(charges[s], EdgeNow), SourceBurst, SourceInterval)
           /\ Covers(Append(charges[s], EdgeNow), SourceInterval, c.tat)
    BY ChargeKeepsRate
  <1> HIDE DEF c
  <1>5. source' \in [Sources -> Scope] /\ charges' \in [Sources -> Seq(Nat)]
    BY <1>2, <1>3, <1>4 DEF c
  <1>6. EdgeTypeOK'
    <2>1. tracked' \subseteq Sources /\ lastSweep' \in Int /\ lastClock' \in Nat
      BY <1>1, <1>2, KeptIs DEF EdgeTypeOK
    <2> QED BY <1>1, <1>2, <1>5, <2>1 DEF EdgeTypeOK, Scope
  <1>7. ASSUME NEW z \in Sources
        PROVE  /\ Covers(charges'[z], SourceInterval, Remembered(z)')
               /\ WithinRate(charges'[z], SourceBurst, SourceInterval)
               /\ z \in Kept(EdgeNow) => source'[z].leases = source[z].leases
               /\ charges'[z] = charges[z] \/ charges'[z] = Append(charges[z], EdgeNow)
    <2>1. CASE source'[z] = source[z] /\ charges'[z] = charges[z]
      BY <1>1, <2>1, SourceAfterCall
    <2>2. CASE z = s /\ source'[s] = c /\ charges'[s] = Append(charges[s], EdgeNow)
                /\ s \in Kept(EdgeNow) /\ ~SourceLimited(s, EdgeNow)
      <3>1. Remembered(s)' = c.tat
        BY <1>1, <2>2 DEF Remembered
      <3>2. c.leases = source[s].leases
        BY <1>4, <2>2 DEF Found
      <3> QED BY <1>4, <2>2, <3>1, <3>2
    <2> QED BY <1>2, <1>3, <2>1, <2>2 DEF c
  <1>8. EdgeRateKept' /\ RatesCovered'
    BY <1>1, <1>7 DEF EdgeInv, EdgeRateKept, RatesCovered
  <1>9. IdleHoldsNothing' /\ Holders' = Holders /\ \A z \in Sources : HoldersOf(z)' = HoldersOf(z)
    BY <1>1 DEF EdgeInv, IdleHoldsNothing, Holders, HoldersOf
  <1>10. LeasesCounted'
    <2>1. \A z \in tracked' : source'[z].leases = Cardinality(HoldersOf(z)')
      BY <1>1, <1>2, <1>7, <1>9, KeptIs DEF EdgeInv, LeasesCounted, EdgeTypeOK
    <2>2. \A r \in Holders' : request'[r].source \in tracked'
      BY <1>1, <1>9, HolderIsKept
    <2>3. concurrency' = Cardinality(Holders') /\ concurrency' <= Concurrency
      BY <1>1, <1>9 DEF EdgeInv, LeasesCounted
    <2> QED BY <2>1, <2>2, <2>3 DEF LeasesCounted
  <1>11. ScopesBounded'
    <2>1. Cardinality(tracked') <= Capacity
      BY <1>1, TrackedFinite
    <2>2. tracked' \subseteq admitted'
      BY <1>1, KeptIs DEF EdgeInv, ScopesBounded
    <2> QED BY <2>1, <2>2 DEF ScopesBounded
  <1> QED BY <1>6, <1>8, <1>9, <1>10, <1>11 DEF EdgeInv

LEMMA LeaseOf ==
  ASSUME NEW c \in Scope, NEW t \in Nat
  PROVE  LET d == [c EXCEPT !.leases = @ + 1, !.lastSeen = t]
         IN d \in Scope /\ d.leases = c.leases + 1 /\ d.tat = c.tat
  <1> DEFINE n == c.leases + 1
  <1>1. n \in Nat
    BY DEF Scope
  <1> HIDE DEF n
  <1>2. [c EXCEPT !.leases = n, !.lastSeen = t] = [leases |-> n, tat |-> c.tat, lastSeen |-> t] /\ c.tat \in Nat
    <2>1. c = [leases |-> c.leases, tat |-> c.tat, lastSeen |-> c.lastSeen] /\ c.tat \in Nat
      BY DEF Scope
    <2> DEFINE e == [c EXCEPT !.leases = n]
    <2>2. e = [leases |-> n, tat |-> c.tat, lastSeen |-> c.lastSeen]
      BY <2>1
    <2> HIDE DEF e
    <2>3. [e EXCEPT !.lastSeen = t] = [leases |-> n, tat |-> c.tat, lastSeen |-> t]
      BY <2>2
    <2> QED BY <2>1, <2>3 DEF e
  <1>3. [leases |-> n, tat |-> c.tat, lastSeen |-> t] \in Scope
    BY <1>1, <1>2 DEF Scope
  <1> QED BY <1>2, <1>3 DEF n

(* A lease is acquired: one more holder, of the class and of the source.     *)
LEMMA AcquireKeeps ==
  ASSUME EdgeInv, NEW s \in Sources, NEW r \in Connections, acquire(r, s)
  PROVE  EdgeInv'
  <1> DEFINE c == Charged(s, EdgeNow)
             d == [c EXCEPT !.leases = @ + 1, !.lastSeen = EdgeNow]
             q == [stage |-> FirstStage, source |-> s, deadline |-> wall + BodyDeadline, released |-> FALSE]
  <1>1. /\ request[r].stage = "idle" /\ ~AtCapacity(s, EdgeNow) /\ ~SourceLimited(s, EdgeNow)
        /\ ~SharedLimited(EdgeNow)
        /\ lastClock' = EdgeNow /\ lastSweep' \in {EdgeNow, lastSweep} /\ tracked' = Kept(EdgeNow) \cup {s}
        /\ source' = [source EXCEPT ![s] = d]
        /\ globalTat' = GcraNext(globalTat, GlobalInterval, EdgeNow)
        /\ concurrency' = concurrency + 1
        /\ request' = [request EXCEPT ![r] = q]
        /\ charges' = [charges EXCEPT ![s] = Append(charges[s], EdgeNow)]
        /\ admissions' = Append(admissions, EdgeNow) /\ admitted' = admitted \cup {s}
        /\ UNCHANGED <<class, wall>>
    BY DEF acquire, Sweep
  <1>2. /\ EdgeTypeOK /\ EdgeNow \in Nat /\ source \in [Sources -> Scope] /\ charges \in [Sources -> Seq(Nat)]
        /\ request \in [Connections -> Connection] /\ admissions \in Seq(Nat) /\ globalTat \in Nat
        /\ concurrency \in Nat /\ tracked \subseteq Sources
    BY EdgeNowIs DEF EdgeInv, EdgeTypeOK, Scope, Connection
  <1>3. /\ c \in Scope /\ c.leases = Found(s, EdgeNow).leases
        /\ Append(charges[s], EdgeNow) \in Seq(Nat)
        /\ WithinRate(Append(charges[s], EdgeNow), SourceBurst, SourceInterval)
        /\ Covers(Append(charges[s], EdgeNow), SourceInterval, c.tat)
    BY <1>1, ChargeKeepsRate
  <1> HIDE DEF c
  <1>4. d \in Scope /\ d.leases = Found(s, EdgeNow).leases + 1 /\ d.tat = c.tat
    <2>1. c \in Scope /\ EdgeNow \in Nat /\ c.leases = Found(s, EdgeNow).leases
      BY <1>2, <1>3
    <2>2. d \in Scope /\ d.leases = c.leases + 1 /\ d.tat = c.tat
      BY <2>1, LeaseOf
    <2> QED BY <2>1, <2>2
  <1>5. q \in Connection /\ q.source = s /\ q.released = FALSE /\ q.stage # "idle"
    <2>1. FirstStage \in Stages /\ FirstStage # "idle" /\ wall + BodyDeadline \in Nat
      BY <1>2, EdgeConstants DEF FirstStage, Stages, EdgeTypeOK
    <2> QED BY <2>1 DEF Connection
  <1> HIDE DEF d, q
  <1>6. /\ source' \in [Sources -> Scope] /\ source'[s] = d /\ \A z \in Sources : z # s => source'[z] = source[z]
        /\ charges' \in [Sources -> Seq(Nat)] /\ charges'[s] = Append(charges[s], EdgeNow)
        /\ \A z \in Sources : z # s => charges'[z] = charges[z]
        /\ request' \in [Connections -> Connection] /\ request'[r] = q
        /\ \A x \in Connections : x # r => request'[x] = request[x]
    BY <1>1, <1>2, <1>3, <1>4, <1>5
  <1>7. /\ WithinRate(admissions', GlobalBurst, GlobalInterval)
        /\ Covers(admissions', GlobalInterval, globalTat') /\ admissions' \in Seq(Nat)
    <2>1. GcraAllows(globalTat, GlobalBurst, GlobalInterval, EdgeNow)
      BY <1>1 DEF SharedLimited
    <2>2. Covers(admissions, GlobalInterval, globalTat) /\ WithinRate(admissions, GlobalBurst, GlobalInterval)
      BY DEF EdgeInv, RatesCovered, EdgeRateKept
    <2>3. globalTat \in Int /\ globalTat <= globalTat
      BY <1>2
    <2>4. /\ WithinRate(Append(admissions, EdgeNow), GlobalBurst, GlobalInterval)
          /\ Covers(Append(admissions, EdgeNow), GlobalInterval, GcraNext(globalTat, GlobalInterval, EdgeNow))
      BY <1>2, <2>1, <2>2, <2>3, GcraGrants, EdgeConstants
    <2> QED BY <1>1, <1>2, <2>4
  <1>8. EdgeTypeOK'
    <2>1. tracked' \subseteq Sources /\ lastSweep' \in Int /\ lastClock' \in Nat
      BY <1>1, <1>2, KeptIs DEF EdgeTypeOK
    <2>2. globalTat' \in Nat /\ concurrency' \in Nat /\ class' \in Classes /\ wall' \in Nat
      BY <1>1, <1>2, EdgeConstants DEF EdgeTypeOK, GcraNext
    <2> QED BY <1>6, <1>7, <2>1, <2>2 DEF EdgeTypeOK, Scope, Connection
  <1>9. EdgeRateKept' /\ RatesCovered'
    <2>1. ASSUME NEW z \in Sources
          PROVE  /\ Covers(charges'[z], SourceInterval, Remembered(z)')
                 /\ WithinRate(charges'[z], SourceBurst, SourceInterval)
      <3>1. CASE z = s
        BY <1>1, <1>3, <1>4, <1>6, <3>1 DEF Remembered
      <3>2. CASE z # s
        BY <1>1, <1>6, <3>2, SourceAfterCall
      <3> QED BY <3>1, <3>2
    <2> QED BY <1>7, <2>1 DEF EdgeRateKept, RatesCovered
  <1>10. IdleHoldsNothing'
    BY <1>5, <1>6 DEF EdgeInv, IdleHoldsNothing
  <1>11. /\ r \notin Holders /\ Holders' = Holders \cup {r}
         /\ HoldersOf(s)' = HoldersOf(s) \cup {r} /\ r \notin HoldersOf(s)
         /\ \A z \in Sources : z # s => HoldersOf(z)' = HoldersOf(z)
    <2>1. request[r].released = TRUE
      BY <1>1 DEF EdgeInv, IdleHoldsNothing
    <2>2. r \notin Holders /\ Holders' = Holders \cup {r}
      BY <1>5, <1>6, <2>1 DEF Holders
    <2> QED BY <1>5, <1>6, <2>2, HoldersFinite DEF HoldersOf
  <1>12. LeasesCounted'
    <2>1. concurrency' = Cardinality(Holders') /\ concurrency' <= Concurrency
      <3>1. concurrency = Cardinality(Holders) /\ concurrency < Concurrency
        BY <1>1, <1>2, EdgeConstants DEF EdgeInv, LeasesCounted, SharedLimited
      <3>2. Cardinality(Holders \cup {r}) = Cardinality(Holders) + 1
        BY <1>11, HoldersFinite, FS_AddElement
      <3>3. Cardinality(Holders') = Cardinality(Holders) + 1
        BY <1>11, <3>2
      <3> QED BY <1>1, <1>2, <3>1, <3>3, EdgeConstants
    <2>2. source'[s].leases = Cardinality(HoldersOf(s)')
      <3>1. Found(s, EdgeNow).leases = Cardinality(HoldersOf(s))
        <4>1. CASE s \in tracked
          BY <4>1, FoundIs DEF EdgeInv, LeasesCounted
        <4>2. CASE s \notin tracked
          <5>1. HoldersOf(s) = {}
            BY <4>2 DEF EdgeInv, LeasesCounted, HoldersOf
          <5> QED BY <4>2, <5>1, FoundIs, FS_EmptySet
        <4> QED BY <4>1, <4>2
      <3>2. Cardinality(HoldersOf(s) \cup {r}) = Cardinality(HoldersOf(s)) + 1
        BY <1>11, HoldersFinite, FS_AddElement
      <3>3. Cardinality(HoldersOf(s)') = Cardinality(HoldersOf(s)) + 1
        BY <1>11, <3>2
      <3> QED BY <1>4, <1>6, <3>1, <3>3
    <2>3. ASSUME NEW z \in tracked', z # s PROVE source'[z].leases = Cardinality(HoldersOf(z)')
      <3>1. z \in tracked /\ z \in Sources
        BY <1>1, <1>2, <2>3, KeptIs
      <3> QED BY <1>6, <1>11, <2>3, <3>1 DEF EdgeInv, LeasesCounted
    <2>4. ASSUME NEW x \in Holders' PROVE request'[x].source \in tracked'
      <3>1. CASE x = r
        BY <1>1, <1>5, <1>6, <3>1
      <3>2. CASE x # r
        <4>1. x \in Holders /\ x \in Connections
          BY <1>11, <2>4, <3>2, HoldersFinite
        <4> QED BY <1>1, <1>6, <3>2, <4>1, HolderIsKept
      <3> QED BY <3>1, <3>2
    <2> QED BY <2>1, <2>2, <2>3, <2>4 DEF LeasesCounted
  <1>13. ScopesBounded'
    <2>1. Cardinality(tracked') <= Capacity
      <3>1. s \notin Kept(EdgeNow) => Cardinality(Kept(EdgeNow)) < Capacity
        BY <1>1, TrackedFinite, EdgeConstants DEF AtCapacity
      <3>2. Cardinality(Kept(EdgeNow) \cup {s}) =
              IF s \in Kept(EdgeNow) THEN Cardinality(Kept(EdgeNow)) ELSE Cardinality(Kept(EdgeNow)) + 1
        BY TrackedFinite, FS_AddElement
      <3>3. /\ Cardinality(tracked') = Cardinality(Kept(EdgeNow) \cup {s})
            /\ Cardinality(Kept(EdgeNow)) \in Nat /\ Cardinality(Kept(EdgeNow)) <= Capacity
        BY <1>1, TrackedFinite
      <3> QED BY <3>1, <3>2, <3>3, EdgeConstants
    <2>2. tracked' \subseteq admitted'
      BY <1>1, KeptIs DEF EdgeInv, ScopesBounded
    <2> QED BY <2>1, <2>2 DEF ScopesBounded
  <1> QED BY <1>8, <1>9, <1>10, <1>12, <1>13 DEF EdgeInv

(* What the steps of the handlers have in common.                            *)
HandlerMoves(r, q) ==
    /\ request' = [request EXCEPT ![r] = q]
    /\ q.stage = "idle" => q.released = TRUE
    /\ \/ q.released = TRUE /\ release(r)
       \/ q.released = request[r].released /\ q.source = request[r].source /\ UNCHANGED <<source, concurrency>>

LEMMA HandlerIs ==
  ASSUME EdgeInv, NEW r \in Connections, Handler(r)
  PROVE  GateOtherwise /\ \E q \in Connection : HandlerMoves(r, q)
  <1>1. request[r] \in Connection /\ request \in [Connections -> Connection]
    BY DEF EdgeInv, EdgeTypeOK, Connection
  <1>2. GateOtherwise
    BY DEF Handler, bodyComplete, verified, approvalWithinLimit, dispatch, requestEnds
  <1>3. ASSUME NEW st \in Stages \ {"idle"}, request' = [request EXCEPT ![r].stage = st], UNCHANGED <<source, concurrency>>
        PROVE  \E q \in Connection : HandlerMoves(r, q)
    <2> DEFINE q == [request[r] EXCEPT !.stage = st]
    <2>1. q \in Connection /\ q.stage = st /\ q.released = request[r].released /\ q.source = request[r].source
      BY <1>1 DEF Connection
    <2>2. request' = [request EXCEPT ![r] = q]
      BY <1>1, <1>3
    <2> HIDE DEF q
    <2> QED BY <1>3, <2>1, <2>2 DEF HandlerMoves
  <1>4. ASSUME request' = [request EXCEPT ![r].stage = "dispatch", ![r].released = TRUE], release(r)
        PROVE  \E q \in Connection : HandlerMoves(r, q)
    <2> DEFINE q == [request[r] EXCEPT !.stage = "dispatch", !.released = TRUE]
    <2>1. q \in Connection /\ q.released = TRUE
      BY <1>1 DEF Connection, Stages
    <2>2. request' = [request EXCEPT ![r] = q]
      BY <1>1, <1>4
    <2> HIDE DEF q
    <2> QED BY <1>4, <2>1, <2>2 DEF HandlerMoves
  <1>5. ASSUME Idle(r), release(r)
        PROVE  \E q \in Connection : HandlerMoves(r, q)
    BY <1>5, NoConnectionIs DEF HandlerMoves, Idle
  <1>6. "verify" \in Stages \ {"idle"} /\ "limit" \in Stages \ {"idle"} /\ "attest" \in Stages \ {"idle"}
    BY DEF Stages
  <1>7. \E q \in Connection : HandlerMoves(r, q)
    <2>1. CASE bodyComplete(r)
      BY <1>3, <1>4, <1>6, <2>1 DEF bodyComplete
    <2>2. CASE verified(r)
      BY <1>3, <1>6, <2>2 DEF verified
    <2>3. CASE approvalWithinLimit(r)
      BY <1>3, <1>6, <2>3 DEF approvalWithinLimit
    <2>4. CASE dispatch(r)
      BY <1>4, <2>4 DEF dispatch
    <2>5. CASE requestEnds(r)
      BY <1>5, <2>5 DEF requestEnds
    <2> QED BY <2>1, <2>2, <2>3, <2>4, <2>5 DEF Handler
  <1> QED BY <1>2, <1>7

(* A handler goes on.  A lease that it holds is given back at most once.     *)
LEMMA HandlerKeeps ==
  ASSUME EdgeInv, NEW r \in Connections, Handler(r)
  PROVE  EdgeInv'
  <1>1. UNCHANGED <<class, wall, lastClock, tracked, globalTat, lastSweep, charges, admissions, admitted>>
    BY HandlerIs DEF GateOtherwise
  <1>2. PICK q \in Connection : HandlerMoves(r, q)
    BY HandlerIs
  <1>3. /\ EdgeTypeOK /\ request \in [Connections -> Connection] /\ source \in [Sources -> Scope]
        /\ concurrency \in Nat /\ request[r].source \in Sources /\ request[r].released \in BOOLEAN
    BY DEF EdgeInv, EdgeTypeOK, Connection, Scope
  <1>4. /\ request' \in [Connections -> Connection] /\ request'[r] = q
        /\ \A x \in Connections : x # r => request'[x] = request[x]
    BY <1>2, <1>3 DEF HandlerMoves
  <1>5. IdleHoldsNothing'
    BY <1>2, <1>4 DEF EdgeInv, IdleHoldsNothing, HandlerMoves
  <1> DEFINE s == request[r].source
  <1>6. \/ /\ source' = source /\ concurrency' = concurrency
           /\ Holders' = Holders /\ \A z \in Sources : HoldersOf(z)' = HoldersOf(z)
           /\ \A x \in Holders : request'[x].source = request[x].source
        \/ /\ r \in Holders /\ q.released = TRUE /\ Holders' = Holders \ {r}
           /\ \A z \in Sources : HoldersOf(z)' = HoldersOf(z) \ {r}
           /\ source' = [source EXCEPT ![s].leases = Less(@)] /\ concurrency' = Less(concurrency)
    <2>1. CASE q.released = TRUE /\ release(r) /\ request[r].released = TRUE
      BY <1>3, <1>4, <2>1 DEF release, Holders, HoldersOf
    <2>2. CASE q.released = TRUE /\ release(r) /\ request[r].released = FALSE
      BY <1>3, <1>4, <2>2 DEF release, Holders, HoldersOf
    <2>3. CASE q.released = request[r].released /\ q.source = request[r].source /\ UNCHANGED <<source, concurrency>>
      BY <1>3, <1>4, <2>3 DEF Holders, HoldersOf
    <2> QED BY <1>2, <1>3, <2>1, <2>2, <2>3 DEF HandlerMoves
  <1>7. /\ source' \in [Sources -> Scope] /\ concurrency' \in Nat
        /\ \A z \in Sources : source'[z].tat = source[z].tat
    <2>1. CASE source' = source /\ concurrency' = concurrency
      BY <1>3, <2>1
    <2>2. CASE source' = [source EXCEPT ![s].leases = Less(@)] /\ concurrency' = Less(concurrency)
      <3>1. \A n \in Nat : Less(n) \in Nat
        BY DEF Less
      <3> QED BY <1>3, <2>2, <3>1 DEF Scope
    <2> QED BY <1>6, <2>1, <2>2
  <1>8. EdgeTypeOK'
    BY <1>1, <1>3, <1>4, <1>7 DEF EdgeTypeOK, Connection, Scope
  <1>9. EdgeRateKept' /\ RatesCovered'
    <2>1. \A z \in Sources : Remembered(z)' = Remembered(z)
      BY <1>1, <1>7 DEF Remembered
    <2> QED BY <1>1, <2>1 DEF EdgeInv, EdgeRateKept, RatesCovered
  <1>10. ScopesBounded'
    BY <1>1 DEF EdgeInv, ScopesBounded
  <1>11. LeasesCounted'
    <2>1. CASE /\ source' = source /\ concurrency' = concurrency
               /\ Holders' = Holders /\ \A z \in Sources : HoldersOf(z)' = HoldersOf(z)
               /\ \A x \in Holders : request'[x].source = request[x].source
      BY <1>1, <1>3, <2>1 DEF EdgeInv, LeasesCounted, EdgeTypeOK
    <2>2. CASE /\ r \in Holders /\ q.released = TRUE /\ Holders' = Holders \ {r}
               /\ \A z \in Sources : HoldersOf(z)' = HoldersOf(z) \ {r}
               /\ source' = [source EXCEPT ![s].leases = Less(@)] /\ concurrency' = Less(concurrency)
      <3>1. Cardinality(Holders \ {r}) = Cardinality(Holders) - 1 /\ Cardinality(Holders) # 0
        BY <2>2, HoldersFinite, FS_RemoveElement, FS_EmptySet
      <3>2. concurrency = Cardinality(Holders) /\ concurrency <= Concurrency /\ s \in tracked
        BY <2>2 DEF EdgeInv, LeasesCounted
      <3>3. concurrency' = Cardinality(Holders') /\ concurrency' <= Concurrency
        BY <1>3, <2>2, <3>1, <3>2, EdgeConstants DEF Less
      <3>4. ASSUME NEW z \in tracked' PROVE source'[z].leases = Cardinality(HoldersOf(z)')
        <4>1. z \in tracked /\ z \in Sources /\ source[z].leases = Cardinality(HoldersOf(z)) /\ source[z].leases \in Nat
          BY <1>1, <1>3, <3>4 DEF EdgeInv, LeasesCounted, EdgeTypeOK
        <4>2. CASE z = s
          <5>1. r \in HoldersOf(z)
            BY <2>2, <4>2 DEF HoldersOf
          <5>2. /\ Cardinality(HoldersOf(z) \ {r}) = Cardinality(HoldersOf(z)) - 1
                /\ Cardinality(HoldersOf(z)) # 0
            BY <5>1, HoldersFinite, FS_RemoveElement, FS_EmptySet
          <5>3. source'[z].leases = Less(source[z].leases)
            BY <1>3, <2>2, <4>1, <4>2 DEF Scope
          <5>4. Cardinality(HoldersOf(z)') = Cardinality(HoldersOf(z) \ {r})
            BY <2>2, <4>1
          <5>5. \A n \in Nat : n # 0 => Less(n) = n - 1
            BY DEF Less
          <5>6. source[z].leases # 0
            BY <4>1, <5>2
          <5>7. Less(source[z].leases) = source[z].leases - 1
            BY <4>1, <5>5, <5>6
          <5> QED BY <4>1, <5>2, <5>3, <5>4, <5>7
        <4>3. CASE z # s
          <5>1. HoldersOf(z) \ {r} = HoldersOf(z)
            BY <4>3 DEF HoldersOf
          <5> QED BY <1>3, <2>2, <4>1, <4>3, <5>1
        <4> QED BY <4>2, <4>3
      <3>5. \A x \in Holders' : request'[x].source \in tracked'
        BY <1>1, <1>4, <2>2, HoldersFinite DEF EdgeInv, LeasesCounted
      <3> QED BY <3>3, <3>4, <3>5 DEF LeasesCounted
    <2> QED BY <1>6, <2>1, <2>2
  <1> QED BY <1>5, <1>8, <1>9, <1>10, <1>11 DEF EdgeInv

LEMMA EdgeStays ==
  ASSUME EdgeInv, UNCHANGED <<class, gate, request, charges, admissions, admitted>>, wall' \in Nat
  PROVE  EdgeInv'
  <1>1. UNCHANGED <<class, lastClock, tracked, source, globalTat, concurrency, lastSweep, request, charges, admissions, admitted>>
    BY DEF gate
  <1>2. EdgeTypeOK' /\ EdgeRateKept' /\ IdleHoldsNothing' /\ ScopesBounded'
    BY <1>1 DEF EdgeInv, EdgeTypeOK, EdgeRateKept, IdleHoldsNothing, ScopesBounded
  <1>3. RatesCovered'
    BY <1>1 DEF EdgeInv, RatesCovered, Remembered
  <1>4. LeasesCounted'
    BY <1>1 DEF EdgeInv, LeasesCounted, Holders, HoldersOf
  <1> QED BY <1>2, <1>3, <1>4 DEF EdgeInv

LEMMA NextEdgeInv == EdgeInv /\ [EdgeNext]_edgeVars => EdgeInv'
  <1> SUFFICES ASSUME EdgeInv, [EdgeNext]_edgeVars PROVE EdgeInv'
    OBVIOUS
  <1>1. CASE \E s \in Sources : refuseSource(s) \/ refuseShared(s) \/ \E r \in Connections : acquire(r, s)
    BY <1>1, RefusalKeeps, AcquireKeeps
  <1>2. CASE \E r \in Connections : Handler(r)
    BY <1>2, HandlerKeeps
  <1>3. CASE ClockMoves
    <2>1. wall' \in Nat
      BY <1>3, EdgeConstants DEF ClockMoves
    <2> QED BY <1>3, <2>1, EdgeStays DEF ClockMoves
  <1>4. CASE UNCHANGED edgeVars
    <2>1. wall' \in Nat
      BY <1>4 DEF edgeVars, EdgeInv, EdgeTypeOK
    <2> QED BY <1>4, <2>1, EdgeStays DEF edgeVars
  <1> QED BY <1>1, <1>2, <1>3, <1>4 DEF EdgeNext

(* The gate's map, counters and buckets keep to one another whatever the     *)
(* clock and the handlers do (edge-admission.ts).                            *)
THEOREM EdgeInvariance == EdgeSpec => []EdgeInv
  BY InitEdgeInv, NextEdgeInv, PTL DEF EdgeSpec

(* The counters of the gate are the leases that handlers hold, and its map   *)
(* stays within its capacity, for every number of connections and sources    *)
(* (edge-admission.ts #acquire, release, #sweep).                            *)
THEOREM GateAccountsTrue == EdgeSpec => []GateAccounts
  <1>1. EdgeInv => GateAccounts
    BY DEF EdgeInv, GateAccounts
  <1> QED BY <1>1, EdgeInvariance, PTL

(* No source is charged and no class admits faster than its burst and rate,  *)
(* for every burst, interval, capacity and idle time, although sources are   *)
(* forgotten and the clock is set back (previewGcra, #now, #sweep).          *)
THEOREM EdgeRates == EdgeSpec => []EdgeRateKept
  <1>1. EdgeInv => EdgeRateKept
    BY DEF EdgeInv
  <1> QED BY <1>1, EdgeInvariance, PTL

-------------------------------------------------------------------------------
(* The durable limiter.                                                      *)

Work == [step : Steps, scope : Scopes, at : Nat, seen : Bucket]

LEMMA LimitConstants ==
  /\ MaxScopes \in Nat /\ StaleAfter \in Nat /\ MaxDbSetBack \in Nat /\ MaxClock \in Nat /\ MaxGrants \in Nat
  /\ LimitBurst \in Nat \ {0} /\ LimitInterval \in Nat \ {0}
  /\ Times(LimitBurst, LimitInterval) \in Nat
  /\ Times(LimitBurst, LimitInterval) + MaxDbSetBack <= StaleAfter
  /\ IsFiniteSet(Scopes) /\ Scopes # {} /\ NoTransaction \notin Transactions /\ NoBucket \notin Bucket
  <1>1. /\ MaxScopes \in Nat /\ StaleAfter \in Nat /\ MaxDbSetBack \in Nat /\ MaxClock \in Nat /\ MaxGrants \in Nat
        /\ LimitBurst \in Nat \ {0} /\ LimitInterval \in Nat \ {0}
        /\ LimitBurst * LimitInterval + MaxDbSetBack <= StaleAfter
        /\ IsFiniteSet(Scopes) /\ Scopes # {} /\ NoTransaction \notin Transactions /\ NoBucket \notin Bucket
    BY LimitAssumption, NoBucketAssumption
  <1>2. Times(LimitBurst, LimitInterval) \in Nat
    BY <1>1, BurstIsOne
  <1> QED BY <1>1, <1>2 DEF Times

(* What the table remembers of a scope's grants: its bucket, which never     *)
(* owes more than the burst, and once it was swept, that they are paid even  *)
(* for a clock that was set back.                                            *)
Paid(s) == Absent(s) => Covers(grants[s], LimitInterval, highClock - MaxDbSetBack)
Owed(s) ==
    ~Absent(s) => /\ Covers(grants[s], LimitInterval, bucket[s].tat)
                  /\ bucket[s].tat <= bucket[s].lastSeen + Times(LimitBurst, LimitInterval)

(* What a transaction relies on between its statements.                      *)
HoldsRow(c) ==
    txn[c].step = "consume" => rowLock[txn[c].scope] = c /\ bucket[txn[c].scope] = txn[c].seen
HoldsAdvisory(c) == txn[c].step \in {"again", "create"} => advisory = c
MayCreate(c) ==
    txn[c].step = "create" => /\ Absent(txn[c].scope)
                              /\ Covers(grants[txn[c].scope], LimitInterval, txn[c].at)
TakenInTime(c) == txn[c].at <= highClock

ClockWithin == dbClock <= highClock /\ highClock - MaxDbSetBack <= dbClock

LimitInv ==
    /\ LimitTypeOK /\ LimitKept /\ ClockWithin
    /\ \A s \in Scopes : Paid(s) /\ Owed(s)
    /\ \A c \in Transactions : HoldsRow(c) /\ HoldsAdvisory(c) /\ MayCreate(c) /\ TakenInTime(c)

LEMMA LimitTypes ==
  ASSUME LimitTypeOK
  PROVE  /\ dbClock \in Nat /\ highClock \in Nat
         /\ bucket \in [Scopes -> Bucket \cup {NoBucket}] /\ txn \in [Transactions -> Work]
         /\ rowLock \in [Scopes -> Transactions \cup {NoTransaction}] /\ advisory \in Transactions \cup {NoTransaction}
         /\ grants \in [Scopes -> Seq(Nat)]
         /\ \A s \in Scopes : ~Absent(s) => bucket[s] \in Bucket /\ bucket[s].tat \in Nat /\ bucket[s].lastSeen \in Nat
         /\ \A c \in Transactions : /\ txn[c].step \in Steps /\ txn[c].scope \in Scopes /\ txn[c].at \in Nat
                                    /\ txn[c].seen \in Bucket
  <1>1. \A s \in Scopes : ~Absent(s) => bucket[s] \in Bucket
    BY DEF LimitTypeOK, Absent
  <1>2. \A b \in Bucket : b.tat \in Nat /\ b.lastSeen \in Nat
    BY DEF Bucket
  <1>3. \A w \in Work : w.step \in Steps /\ w.scope \in Scopes /\ w.at \in Nat /\ w.seen \in Bucket
    BY DEF Work
  <1>4. txn \in [Transactions -> Work]
    BY DEF LimitTypeOK, Work
  <1> QED BY <1>1, <1>2, <1>3, <1>4 DEF LimitTypeOK

LEMMA NoWorkIs == NoWork \in Work /\ NoWork.step = "idle" /\ NoWork.at = 0
  BY LimitConstants DEF NoWork, Work, Bucket, Steps

LEMMA InitLimitInv == LimitInit => LimitInv
  <1> SUFFICES ASSUME LimitInit PROVE LimitInv
    OBVIOUS
  <1>1. /\ \A c \in Transactions : txn[c] = NoWork
        /\ \A s \in Scopes : bucket[s] = NoBucket /\ grants[s] = <<>>
        /\ dbClock = 0 /\ highClock = 0
    BY DEF LimitInit
  <1>2. LimitTypeOK
    BY NoWorkIs DEF LimitInit, LimitTypeOK, Work
  <1>3. Rows = {}
    BY <1>1 DEF Rows, Absent
  <1>4. LimitKept
    BY <1>1, <1>3, NothingCovered, LimitConstants, FS_EmptySet DEF LimitKept, LimitRateKept, RowsBounded
  <1>5. ClockWithin /\ highClock - MaxDbSetBack \in Int
    BY <1>1, LimitConstants DEF ClockWithin
  <1>6. \A s \in Scopes : Paid(s) /\ Owed(s)
    BY <1>1, <1>5, NothingCovered, LimitConstants DEF Paid, Owed, Absent
  <1>7. \A c \in Transactions : HoldsRow(c) /\ HoldsAdvisory(c) /\ MayCreate(c) /\ TakenInTime(c)
    BY <1>1, NoWorkIs DEF HoldsRow, HoldsAdvisory, MayCreate, TakenInTime
  <1> QED BY <1>2, <1>4, <1>5, <1>6, <1>7 DEF LimitInv

(* A statement that writes no bucket: what concerns buckets stays, and so    *)
(* does what the transactions that did not move rely on.                     *)
LEMMA BucketsStay ==
  ASSUME LimitInv, LimitTypeOK', UNCHANGED <<dbClock, highClock, bucket, grants>>,
         NEW c \in Transactions,
         \A x \in Transactions : x # c =>
             /\ txn'[x] = txn[x] /\ \A s \in Scopes : rowLock[s] = x => rowLock'[s] = x
             /\ advisory = x => advisory' = x,
         HoldsRow(c)', HoldsAdvisory(c)', MayCreate(c)', TakenInTime(c)'
  PROVE  LimitInv'
  <1>1. LimitKept' /\ ClockWithin'
    BY DEF LimitInv, LimitKept, LimitRateKept, RowsBounded, Rows, Absent, ClockWithin
  <1>2. \A s \in Scopes : Paid(s)' /\ Owed(s)'
    BY DEF LimitInv, Paid, Owed, Absent
  <1>3. ASSUME NEW x \in Transactions, x # c
        PROVE  HoldsRow(x)' /\ HoldsAdvisory(x)' /\ MayCreate(x)' /\ TakenInTime(x)'
    <2>1. txn'[x] = txn[x] /\ txn[x].scope \in Scopes
      BY <1>3, LimitTypes DEF LimitInv
    <2>2. HoldsRow(x) /\ HoldsAdvisory(x) /\ MayCreate(x) /\ TakenInTime(x)
      BY DEF LimitInv
    <2>3. HoldsRow(x)'
      BY <1>3, <2>1, <2>2 DEF HoldsRow
    <2>4. HoldsAdvisory(x)'
      BY <1>3, <2>1, <2>2 DEF HoldsAdvisory
    <2>5. MayCreate(x)' /\ TakenInTime(x)'
      BY <2>1, <2>2 DEF MayCreate, TakenInTime, Absent
    <2> QED BY <2>3, <2>4, <2>5
  <1> QED BY <1>1, <1>2, <1>3 DEF LimitInv

LEMMA CallBegins ==
  ASSUME LimitInv, NEW c \in Transactions, NEW s \in Scopes, consumeSignedRequestRateLimit(c, s)
  PROVE  LimitInv'
  <1>1. /\ txn \in [Transactions -> Work] /\ txn[c].at <= highClock
        /\ txn' = [txn EXCEPT ![c].step = "look", ![c].scope = s]
        /\ UNCHANGED <<dbClock, highClock, bucket, rowLock, advisory, grants>>
    BY LimitTypes DEF LimitInv, consumeSignedRequestRateLimit, TakenInTime
  <1>2. /\ txn' \in [Transactions -> Work] /\ txn'[c].step = "look" /\ txn'[c].at = txn[c].at
        /\ \A x \in Transactions : x # c => txn'[x] = txn[x]
    BY <1>1 DEF Work, Steps
  <1>3. LimitTypeOK'
    BY <1>1, <1>2 DEF LimitInv, LimitTypeOK, Work
  <1>4. HoldsRow(c)' /\ HoldsAdvisory(c)' /\ MayCreate(c)' /\ TakenInTime(c)'
    BY <1>1, <1>2 DEF HoldsRow, HoldsAdvisory, MayCreate, TakenInTime
  <1> QED BY <1>1, <1>2, <1>3, <1>4, BucketsStay

(* The row is there and its lock is free: it is read under the lock.         *)
LEMMA RowLocked ==
  ASSUME LimitInv, NEW c \in Transactions, lockRow(c), UNCHANGED <<dbClock, highClock, bucket, advisory, grants>>
  PROVE  LimitInv'
  <1> DEFINE s == txn[c].scope
  <1>1. /\ txn \in [Transactions -> Work] /\ s \in Scopes /\ dbClock \in Nat /\ dbClock <= highClock
        /\ rowLock \in [Scopes -> Transactions \cup {NoTransaction}]
    BY LimitTypes DEF LimitInv, ClockWithin
  <1>2. /\ bucket[s] \in Bucket /\ rowLock[s] = NoTransaction /\ rowLock' = [rowLock EXCEPT ![s] = c]
        /\ txn' = [txn EXCEPT ![c].step = "consume", ![c].at = dbClock, ![c].seen = bucket[s]]
    BY <1>1, LimitTypes DEF lockRow, LimitInv
  <1> HIDE DEF s
  <1>3. /\ txn' \in [Transactions -> Work] /\ txn'[c].step = "consume" /\ txn'[c].at = dbClock
        /\ txn'[c].seen = bucket[s] /\ txn'[c].scope = txn[c].scope
        /\ \A x \in Transactions : x # c => txn'[x] = txn[x]
    BY <1>1, <1>2 DEF Work, Steps
  <1>4. LimitTypeOK'
    BY <1>1, <1>2, <1>3 DEF LimitInv, LimitTypeOK, Work
  <1>5. HoldsRow(c)' /\ HoldsAdvisory(c)' /\ MayCreate(c)' /\ TakenInTime(c)'
    BY <1>1, <1>2, <1>3 DEF HoldsRow, HoldsAdvisory, MayCreate, TakenInTime, s
  <1>6. \A x \in Transactions : \A z \in Scopes : rowLock[z] = x => rowLock'[z] = x
    BY <1>1, <1>2, LimitConstants
  <1> QED BY <1>3, <1>4, <1>5, <1>6, BucketsStay

LEMMA LookUpKeeps ==
  ASSUME LimitInv, NEW c \in Transactions, lookUp(c)
  PROVE  LimitInv'
  <1>1. UNCHANGED <<dbClock, highClock, bucket, advisory, grants>>
    BY DEF lookUp
  <1>2. CASE lockRow(c)
    BY <1>1, <1>2, RowLocked
  <1>3. CASE txn' = [txn EXCEPT ![c].step = "first"] /\ UNCHANGED rowLock
    <2>1. txn \in [Transactions -> Work] /\ txn[c].at <= highClock
      BY LimitTypes DEF LimitInv, TakenInTime
    <2>2. /\ txn' \in [Transactions -> Work] /\ txn'[c].step = "first" /\ txn'[c].at = txn[c].at
          /\ \A x \in Transactions : x # c => txn'[x] = txn[x]
      BY <1>3, <2>1 DEF Work, Steps
    <2>3. LimitTypeOK'
      BY <1>1, <1>3, <2>2 DEF LimitInv, LimitTypeOK, Work
    <2>4. HoldsRow(c)' /\ HoldsAdvisory(c)' /\ MayCreate(c)' /\ TakenInTime(c)'
      BY <1>1, <2>1, <2>2 DEF HoldsRow, HoldsAdvisory, MayCreate, TakenInTime
    <2> QED BY <1>1, <1>3, <2>2, <2>3, <2>4, BucketsStay
  <1> QED BY <1>2, <1>3 DEF lookUp

LEMMA LockCardinalityKeeps ==
  ASSUME LimitInv, NEW c \in Transactions, lockCardinality(c)
  PROVE  LimitInv'
  <1>1. /\ txn \in [Transactions -> Work] /\ txn[c].at <= highClock
        /\ txn' = [txn EXCEPT ![c].step = "again"] /\ advisory = NoTransaction /\ advisory' = c
        /\ UNCHANGED <<dbClock, highClock, bucket, rowLock, grants>>
    BY LimitTypes DEF LimitInv, lockCardinality, TakenInTime
  <1>2. /\ txn' \in [Transactions -> Work] /\ txn'[c].step = "again" /\ txn'[c].at = txn[c].at
        /\ \A x \in Transactions : x # c => txn'[x] = txn[x]
    BY <1>1 DEF Work, Steps
  <1>3. LimitTypeOK'
    BY <1>1, <1>2 DEF LimitInv, LimitTypeOK, Work
  <1>4. HoldsRow(c)' /\ HoldsAdvisory(c)' /\ MayCreate(c)' /\ TakenInTime(c)'
    BY <1>1, <1>2 DEF HoldsRow, HoldsAdvisory, MayCreate, TakenInTime
  <1>5. \A x \in Transactions : advisory = x => advisory' = x
    BY <1>1, LimitConstants
  <1> QED BY <1>1, <1>2, <1>3, <1>4, <1>5, BucketsStay

(* Still no row: the time is taken now, so whatever the scope was granted    *)
(* before its bucket was swept is paid by then.                              *)
LEMMA LookAgainKeeps ==
  ASSUME LimitInv, NEW c \in Transactions, lookAgain(c)
  PROVE  LimitInv'
  <1>1. UNCHANGED <<dbClock, highClock, bucket, advisory, grants>> /\ txn[c].step = "again"
    BY DEF lookAgain, Stands
  <1>2. CASE lockRow(c)
    BY <1>1, <1>2, RowLocked
  <1>3. CASE /\ Absent(txn[c].scope) /\ UNCHANGED rowLock
             /\ txn' = [txn EXCEPT ![c].step = "create", ![c].at = dbClock]
    <2>1. /\ txn \in [Transactions -> Work] /\ dbClock \in Nat /\ highClock \in Nat /\ txn[c].scope \in Scopes
          /\ dbClock <= highClock /\ highClock - MaxDbSetBack <= dbClock /\ advisory = c
          /\ Paid(txn[c].scope) /\ grants[txn[c].scope] \in Seq(Nat)
      BY <1>1, LimitTypes DEF LimitInv, ClockWithin, HoldsAdvisory
    <2>2. /\ txn' \in [Transactions -> Work] /\ txn'[c].step = "create" /\ txn'[c].at = dbClock
          /\ txn'[c].scope = txn[c].scope /\ \A x \in Transactions : x # c => txn'[x] = txn[x]
      BY <1>3, <2>1 DEF Work, Steps
    <2>3. LimitTypeOK'
      BY <1>1, <1>3, <2>2 DEF LimitInv, LimitTypeOK, Work
    <2>4. Covers(grants[txn[c].scope], LimitInterval, dbClock)
      <3>1. /\ Covers(grants[txn[c].scope], LimitInterval, highClock - MaxDbSetBack)
            /\ highClock - MaxDbSetBack \in Int /\ dbClock \in Int
        BY <1>3, <2>1, LimitConstants DEF Paid
      <3> QED BY <2>1, <3>1, CoversMore, LimitConstants
    <2>5. HoldsRow(c)' /\ HoldsAdvisory(c)' /\ MayCreate(c)' /\ TakenInTime(c)'
      BY <1>1, <1>3, <2>1, <2>2, <2>4 DEF HoldsRow, HoldsAdvisory, MayCreate, TakenInTime, Absent
    <2> QED BY <1>1, <1>3, <2>2, <2>3, <2>5, BucketsStay
  <1> QED BY <1>2, <1>3 DEF lookAgain

(* What the end of a transaction leaves: others keep their locks.            *)
LEMMA EndIs ==
  ASSUME LimitTypeOK, NEW c \in Transactions, End(c)
  PROVE  /\ txn' \in [Transactions -> Work] /\ txn'[c] = NoWork
         /\ \A x \in Transactions : x # c =>
              /\ txn'[x] = txn[x] /\ \A s \in Scopes : rowLock[s] = x => rowLock'[s] = x
              /\ advisory = x => advisory' = x
         /\ rowLock' \in [Scopes -> Transactions \cup {NoTransaction}] /\ advisory' \in Transactions \cup {NoTransaction}
  <1>1. /\ txn \in [Transactions -> Work] /\ advisory \in Transactions \cup {NoTransaction}
        /\ rowLock \in [Scopes -> Transactions \cup {NoTransaction}]
    BY LimitTypes
  <1>2. txn' \in [Transactions -> Work] /\ txn'[c] = NoWork /\ \A x \in Transactions : x # c => txn'[x] = txn[x]
    BY <1>1, NoWorkIs DEF End
  <1>3. /\ rowLock' \in [Scopes -> Transactions \cup {NoTransaction}]
        /\ \A x \in Transactions : x # c => \A s \in Scopes : rowLock[s] = x => rowLock'[s] = x
    BY <1>1 DEF End
  <1>4. /\ advisory' \in Transactions \cup {NoTransaction}
        /\ \A x \in Transactions : x # c => (advisory = x => advisory' = x)
    BY <1>1 DEF End
  <1> QED BY <1>2, <1>3, <1>4

LEMMA EndedHoldsNothing ==
  ASSUME NEW c \in Transactions, txn'[c] = NoWork, highClock' \in Nat
  PROVE  HoldsRow(c)' /\ HoldsAdvisory(c)' /\ MayCreate(c)' /\ TakenInTime(c)'
  BY NoWorkIs DEF HoldsRow, HoldsAdvisory, MayCreate, TakenInTime

LEMMA RollBackKeeps ==
  ASSUME LimitInv, NEW c \in Transactions, rollBack(c)
  PROVE  LimitInv'
  <1>1. End(c) /\ UNCHANGED <<dbClock, highClock, bucket, grants>> /\ LimitTypeOK /\ highClock \in Nat
    BY LimitTypes DEF rollBack, LimitInv
  <1>2. LimitTypeOK'
    BY <1>1, EndIs DEF LimitTypeOK, Work
  <1> QED BY <1>1, <1>2, EndIs, EndedHoldsNothing, BucketsStay

(* A swept bucket was unused for so long that its grants are paid even by a  *)
(* clock that was set back.                                                  *)
LEMMA SweptIsPaid ==
  ASSUME NEW tat \in Nat, NEW seen \in Nat, NEW at \in Nat, NEW high \in Nat,
         tat <= seen + Times(LimitBurst, LimitInterval), seen <= at - StaleAfter, at <= high
  PROVE  tat <= high - MaxDbSetBack
  <1> DEFINE B == Times(LimitBurst, LimitInterval)
  <1>1. B \in Nat /\ B + MaxDbSetBack <= StaleAfter /\ MaxDbSetBack \in Nat /\ StaleAfter \in Nat /\ tat <= seen + B
    BY LimitConstants
  <1> HIDE DEF B
  <1> QED BY <1>1

LEMMA ClockArithmetic ==
  ASSUME NEW high \in Nat, NEW back \in Nat, NEW db \in Nat, high - back <= db
  PROVE  LET next == IF db > high THEN db ELSE high
         IN /\ next \in Nat /\ high <= next /\ db <= next /\ next - back <= db
            /\ high - back \in Int /\ next - back \in Int /\ high - back <= next - back
  OBVIOUS

(* A bucket made at an instant is a full one that is charged once.           *)
LEMMA FirstCharge ==
  ASSUME NEW burst \in Nat \ {0}, NEW i \in Nat \ {0}, NEW t \in Nat
  PROVE  GcraAllows(t, burst, i, t) /\ GcraNext(t, i, t) = t + i
  <1> DEFINE m == (burst - 1) * i
  <1>1. m \in Nat
    OBVIOUS
  <1>2. GcraAllows(t, burst, i, t) <=> t >= t - m
    BY DEF GcraAllows
  <1> HIDE DEF m
  <1>3. t >= t - m
    BY <1>1
  <1> QED BY <1>2, <1>3 DEF GcraNext

(* Sweep, count and insert: the scope starts from a full bucket, which its   *)
(* earlier grants allow because they are paid; a row that another            *)
(* transaction has read is locked and stays.                                 *)
LEMMA CreateKeeps ==
  ASSUME LimitInv, NEW c \in Transactions, createBucket(c)
  PROVE  LimitInv'
  <1> DEFINE s == txn[c].scope
             at == txn[c].at
             new == [tat |-> at + LimitInterval, lastSeen |-> at]
  <1>1. /\ LimitTypeOK /\ s \in Scopes /\ at \in Nat /\ dbClock \in Nat /\ highClock \in Nat
        /\ grants \in [Scopes -> Seq(Nat)] /\ bucket \in [Scopes -> Bucket \cup {NoBucket}]
        /\ txn[c].step = "create" /\ HasRoom(c) /\ End(c) /\ UNCHANGED <<dbClock, highClock>>
    BY LimitTypes DEF LimitInv, createBucket, Stands
  <1>2. /\ bucket' = [z \in Scopes |-> IF z = s THEN new ELSE IF z \in Remaining(c) THEN bucket[z] ELSE NoBucket]
        /\ grants' = [grants EXCEPT ![s] = Append(grants[s], at)]
    BY DEF createBucket
  <1>3. Absent(s) /\ Covers(grants[s], LimitInterval, at) /\ at <= highClock /\ advisory = c
    BY <1>1 DEF LimitInv, MayCreate, TakenInTime, HoldsAdvisory
  <1>4. new \in Bucket /\ new.tat = at + LimitInterval /\ new.lastSeen = at
    BY <1>1, LimitConstants DEF Bucket
  <1> HIDE DEF s, at, new
  <1>5. /\ bucket' \in [Scopes -> Bucket \cup {NoBucket}] /\ bucket'[s] = new
        /\ \A z \in Scopes : z # s /\ z \in Remaining(c) => bucket'[z] = bucket[z]
        /\ \A z \in Scopes : z # s /\ z \notin Remaining(c) => bucket'[z] = NoBucket
    BY <1>1, <1>2, <1>4
  <1>6. /\ grants' \in [Scopes -> Seq(Nat)] /\ grants'[s] = Append(grants[s], at)
        /\ \A z \in Scopes : z # s => grants'[z] = grants[z]
    BY <1>1, <1>2
  <1>7. LimitTypeOK'
    BY <1>1, <1>5, <1>6, EndIs DEF LimitTypeOK, Work
  <1>8. /\ WithinRate(grants'[s], LimitBurst, LimitInterval)
        /\ Covers(grants'[s], LimitInterval, at + LimitInterval)
        /\ at + LimitInterval <= at + Times(LimitBurst, LimitInterval)
    <2>1. /\ GcraAllows(at, LimitBurst, LimitInterval, at) /\ GcraNext(at, LimitInterval, at) = at + LimitInterval
      BY <1>1, FirstCharge, LimitConstants
    <2>2. WithinRate(grants[s], LimitBurst, LimitInterval) /\ grants[s] \in Seq(Nat) /\ at \in Int /\ at <= at
      BY <1>1 DEF LimitInv, LimitKept, LimitRateKept
    <2>3. /\ WithinRate(Append(grants[s], at), LimitBurst, LimitInterval)
          /\ Covers(Append(grants[s], at), LimitInterval, GcraNext(at, LimitInterval, at))
          /\ GcraNext(at, LimitInterval, at) <= at + Times(LimitBurst, LimitInterval)
      BY <1>1, <1>3, <2>1, <2>2, GcraGrants, LimitConstants
    <2> QED BY <1>6, <2>1, <2>3
  <1>9. LimitKept' /\ ClockWithin'
    <2>1. LimitRateKept'
      BY <1>6, <1>8 DEF LimitInv, LimitKept, LimitRateKept
    <2>2. Rows' = Remaining(c) \cup {s}
      BY <1>1, <1>4, <1>5, LimitConstants DEF Rows, Absent, Remaining
    <2>3. IsFiniteSet(Remaining(c))
      BY LimitConstants, FS_Subset DEF Remaining, Rows
    <2>4. /\ Cardinality(Remaining(c)) \in Nat
          /\ Cardinality(Remaining(c) \cup {s}) \in {Cardinality(Remaining(c)), Cardinality(Remaining(c)) + 1}
      BY <2>3, FS_AddElement, FS_CardinalityType
    <2>5. Cardinality(Rows') = Cardinality(Remaining(c) \cup {s})
      BY <2>2
    <2>6. RowsBounded'
      BY <1>1, <2>4, <2>5, LimitConstants DEF HasRoom, RowsBounded
    <2> QED BY <1>1, <2>1, <2>6 DEF LimitInv, LimitKept, ClockWithin
  <1>10. ASSUME NEW z \in Scopes PROVE Paid(z)' /\ Owed(z)'
    <2>1. CASE z = s
      <3>1. ~Absent(z)' /\ bucket'[z] = new
        BY <1>4, <1>5, <2>1, LimitConstants DEF Absent
      <3> QED BY <1>4, <1>8, <2>1, <3>1 DEF Paid, Owed
    <2>2. CASE z # s /\ z \in Remaining(c)
      <3>1. bucket'[z] = bucket[z] /\ grants'[z] = grants[z]
        BY <1>5, <1>6, <2>2
      <3> QED BY <1>1, <3>1 DEF LimitInv, Paid, Owed, Absent
    <2>3. CASE z # s /\ z \notin Remaining(c)
      <3>1. bucket'[z] = NoBucket /\ grants'[z] = grants[z] /\ grants[z] \in Seq(Nat)
        BY <1>1, <1>5, <1>6, <2>3
      <3>2. Paid(z) /\ Owed(z)
        BY DEF LimitInv
      <3>3. Covers(grants[z], LimitInterval, highClock - MaxDbSetBack)
        <4>1. CASE Absent(z)
          BY <3>2, <4>1 DEF Paid
        <4>2. CASE ~Absent(z)
          <5>1. Stale(z, at)
            BY <2>3, <4>2 DEF Remaining, Rows, at
          <5>2. bucket[z].tat \in Nat /\ bucket[z].lastSeen \in Nat /\ bucket[z].lastSeen <= at - StaleAfter
            BY <1>1, <4>2, <5>1, LimitTypes DEF Stale
          <5>3. /\ Covers(grants[z], LimitInterval, bucket[z].tat)
                /\ bucket[z].tat <= bucket[z].lastSeen + Times(LimitBurst, LimitInterval)
            BY <3>2, <4>2 DEF Owed
          <5>4. bucket[z].tat <= highClock - MaxDbSetBack
            BY <1>1, <1>3, <5>2, <5>3, SweptIsPaid
          <5>5. bucket[z].tat \in Int /\ highClock - MaxDbSetBack \in Int
            BY <1>1, <5>2, LimitConstants
          <5> QED BY <3>1, <5>3, <5>4, <5>5, CoversMore, LimitConstants
        <4> QED BY <4>1, <4>2
      <3> QED BY <1>1, <3>1, <3>3 DEF Paid, Owed, Absent
    <2> QED BY <2>1, <2>2, <2>3
  <1>11. ASSUME NEW x \in Transactions
         PROVE  HoldsRow(x)' /\ HoldsAdvisory(x)' /\ MayCreate(x)' /\ TakenInTime(x)'
    <2>1. CASE x = c
      BY <1>1, <2>1, EndIs, EndedHoldsNothing
    <2>2. CASE x # c
      <3>1. /\ txn'[x] = txn[x] /\ txn[x].scope \in Scopes /\ txn[x].seen \in Bucket /\ advisory # x
            /\ rowLock[txn[x].scope] = x => rowLock'[txn[x].scope] = x
        BY <1>1, <1>3, <2>2, EndIs, LimitTypes
      <3>2. HoldsRow(x) /\ HoldsAdvisory(x) /\ MayCreate(x) /\ TakenInTime(x)
        BY DEF LimitInv
      <3>3. HoldsRow(x)'
        <4> SUFFICES ASSUME txn[x].step = "consume"
                     PROVE  rowLock'[txn[x].scope] = x /\ bucket'[txn[x].scope] = txn[x].seen
          BY <3>1 DEF HoldsRow
        <4>1. rowLock[txn[x].scope] = x /\ bucket[txn[x].scope] = txn[x].seen
          BY <3>2 DEF HoldsRow
        <4>2. ~Absent(txn[x].scope) /\ rowLock[txn[x].scope] # NoTransaction
          BY <3>1, <4>1, LimitConstants DEF Absent
        <4>3. txn[x].scope # s /\ txn[x].scope \in Remaining(c)
          BY <1>3, <3>1, <4>2 DEF Remaining, Rows, Stale
        <4> QED BY <1>5, <3>1, <4>1, <4>3
      <3>4. txn[x].step \notin {"again", "create"}
        BY <3>1, <3>2 DEF HoldsAdvisory
      <3>5. HoldsAdvisory(x)' /\ MayCreate(x)' /\ TakenInTime(x)'
        BY <1>1, <3>1, <3>2, <3>4 DEF HoldsAdvisory, MayCreate, TakenInTime
      <3> QED BY <3>3, <3>5
    <2> QED BY <2>1, <2>2
  <1> QED BY <1>7, <1>9, <1>10, <1>11 DEF LimitInv

(* Charging a bucket, or marking it as seen: the row is as it was read.      *)
LEMMA ConsumeIs ==
  ASSUME LimitInv, NEW c \in Transactions, consume(c)
  PROVE  LET s == txn[c].scope IN
         \E b \in Bucket, g \in Seq(Nat) :
            /\ bucket' = [bucket EXCEPT ![s] = b] /\ grants' = [grants EXCEPT ![s] = g]
            /\ WithinRate(g, LimitBurst, LimitInterval) /\ Covers(g, LimitInterval, b.tat)
            /\ b.tat <= b.lastSeen + Times(LimitBurst, LimitInterval)
  <1> DEFINE s == txn[c].scope
             t == EffectiveNow(c)
             tat == txn[c].seen.tat
  <1>1. /\ s \in Scopes /\ txn[c].at \in Nat /\ txn[c].seen \in Bucket /\ grants \in [Scopes -> Seq(Nat)]
        /\ bucket[s] = txn[c].seen
    BY LimitTypes DEF LimitInv, HoldsRow, consume, Stands
  <1>2. tat \in Nat /\ txn[c].seen.lastSeen \in Nat
    BY <1>1 DEF Bucket
  <1>3. t \in Nat /\ txn[c].seen.lastSeen <= t
    BY <1>1, <1>2 DEF EffectiveNow
  <1>4. /\ Covers(grants[s], LimitInterval, tat) /\ WithinRate(grants[s], LimitBurst, LimitInterval)
        /\ tat <= txn[c].seen.lastSeen + Times(LimitBurst, LimitInterval)
    BY <1>1, LimitConstants DEF LimitInv, Owed, Absent, LimitKept, LimitRateKept
  <1>5. CASE GcraAllows(tat, LimitBurst, LimitInterval, t)
    <2> DEFINE n == GcraNext(tat, LimitInterval, t)
               b == [tat |-> n, lastSeen |-> t]
               g == Append(grants[s], t)
    <2>1. tat \in Int /\ tat <= tat /\ grants[s] \in Seq(Nat)
      BY <1>1, <1>2
    <2>2. /\ WithinRate(g, LimitBurst, LimitInterval) /\ Covers(g, LimitInterval, n)
          /\ n \in Int /\ t + LimitInterval <= n /\ n <= t + Times(LimitBurst, LimitInterval)
      BY <1>3, <1>4, <1>5, <2>1, GcraGrants, LimitConstants
    <2>3. bucket' = [bucket EXCEPT ![s] = b] /\ grants' = [grants EXCEPT ![s] = g]
      BY <1>5 DEF consume
    <2>4. n \in Nat
      BY <1>3, <2>2, LimitConstants
    <2>5. g \in Seq(Nat)
      BY <1>3, <2>1
    <2> HIDE DEF n, g, s, t
    <2>6. b \in Bucket /\ b.tat = n /\ b.lastSeen = t
      BY <1>3, <2>4 DEF Bucket
    <2> HIDE DEF b
    <2>7. bucket' = [bucket EXCEPT ![s] = b] /\ b.tat <= b.lastSeen + Times(LimitBurst, LimitInterval)
      BY <2>2, <2>3, <2>6
    <2> QED BY <2>2, <2>3, <2>5, <2>6, <2>7 DEF s
  <1>6. CASE ~GcraAllows(tat, LimitBurst, LimitInterval, t)
    <2> DEFINE b == [tat |-> tat, lastSeen |-> t]
    <2>1. bucket' = [bucket EXCEPT ![s] = b] /\ grants' = grants
      BY <1>6 DEF consume
    <2> HIDE DEF t, tat, s
    <2>2. b \in Bucket /\ b.tat = tat /\ b.lastSeen = t
      BY <1>2, <1>3 DEF Bucket
    <2>3. grants' = [grants EXCEPT ![s] = grants[s]] /\ grants[s] \in Seq(Nat)
      BY <1>1, <2>1
    <2> DEFINE B == Times(LimitBurst, LimitInterval)
    <2>4. B \in Nat /\ tat <= txn[c].seen.lastSeen + B
      BY <1>4, LimitConstants
    <2> HIDE DEF B
    <2>5. tat <= t + B
      BY <1>2, <1>3, <2>4
    <2> HIDE DEF b
    <2> QED BY <1>4, <2>1, <2>2, <2>3, <2>5 DEF s, B
  <1> QED BY <1>5, <1>6

LEMMA ConsumeKeeps ==
  ASSUME LimitInv, NEW c \in Transactions, consume(c)
  PROVE  LimitInv'
  <1> PICK s \in Scopes : s = txn[c].scope
    BY LimitTypes DEF LimitInv
  <1>1. /\ LimitTypeOK /\ s \in Scopes /\ dbClock \in Nat /\ highClock \in Nat
        /\ grants \in [Scopes -> Seq(Nat)] /\ bucket \in [Scopes -> Bucket \cup {NoBucket}]
        /\ End(c) /\ UNCHANGED <<dbClock, highClock>> /\ txn[c].seen \in Bucket
        /\ rowLock[s] = c /\ bucket[s] = txn[c].seen
    BY LimitTypes DEF LimitInv, consume, Stands, HoldsRow
  <1>2. PICK b \in Bucket, g \in Seq(Nat) :
            /\ bucket' = [bucket EXCEPT ![s] = b] /\ grants' = [grants EXCEPT ![s] = g]
            /\ WithinRate(g, LimitBurst, LimitInterval) /\ Covers(g, LimitInterval, b.tat)
            /\ b.tat <= b.lastSeen + Times(LimitBurst, LimitInterval)
    BY ConsumeIs
  <1>3. /\ bucket' \in [Scopes -> Bucket \cup {NoBucket}] /\ bucket'[s] = b
        /\ grants' \in [Scopes -> Seq(Nat)] /\ grants'[s] = g
        /\ \A z \in Scopes : z # s => bucket'[z] = bucket[z] /\ grants'[z] = grants[z]
    BY <1>1, <1>2
  <1>4. LimitTypeOK'
    BY <1>1, <1>3, EndIs DEF LimitTypeOK, Work
  <1>5. ~Absent(s) /\ ~Absent(s)'
    BY <1>1, <1>3, LimitConstants DEF Absent
  <1>6. LimitKept' /\ ClockWithin'
    <2>1. LimitRateKept'
      BY <1>2, <1>3 DEF LimitInv, LimitKept, LimitRateKept
    <2>2. Rows' = Rows
      BY <1>3, <1>5 DEF Rows, Absent
    <2> QED BY <1>1, <2>1, <2>2 DEF LimitInv, LimitKept, RowsBounded, ClockWithin
  <1>7. ASSUME NEW z \in Scopes PROVE Paid(z)' /\ Owed(z)'
    <2>1. CASE z = s
      BY <1>2, <1>3, <1>5, <2>1 DEF Paid, Owed
    <2>2. CASE z # s
      BY <1>1, <1>3, <2>2 DEF LimitInv, Paid, Owed, Absent
    <2> QED BY <2>1, <2>2
  <1>8. ASSUME NEW x \in Transactions
        PROVE  HoldsRow(x)' /\ HoldsAdvisory(x)' /\ MayCreate(x)' /\ TakenInTime(x)'
    <2>1. CASE x = c
      BY <1>1, <2>1, EndIs, EndedHoldsNothing
    <2>2. CASE x # c
      <3>1. /\ txn'[x] = txn[x] /\ txn[x].scope \in Scopes
            /\ rowLock[txn[x].scope] = x => rowLock'[txn[x].scope] = x
            /\ advisory = x => advisory' = x
        BY <1>1, <2>2, EndIs, LimitTypes
      <3>2. HoldsRow(x) /\ HoldsAdvisory(x) /\ MayCreate(x) /\ TakenInTime(x)
        BY DEF LimitInv
      <3>3. HoldsRow(x)'
        BY <1>1, <1>3, <2>2, <3>1, <3>2 DEF HoldsRow
      <3>4. HoldsAdvisory(x)' /\ TakenInTime(x)'
        BY <1>1, <3>1, <3>2 DEF HoldsAdvisory, TakenInTime
      <3>5. MayCreate(x)'
        BY <1>3, <1>5, <3>1, <3>2 DEF MayCreate, Absent
      <3> QED BY <3>3, <3>4, <3>5
    <2> QED BY <2>1, <2>2
  <1> QED BY <1>4, <1>6, <1>7, <1>8 DEF LimitInv

(* The clock moves: what was paid stays paid, for the highest time only grows. *)
LEMMA DbClockKeeps ==
  ASSUME LimitInv, DbClockMoves
  PROVE  LimitInv'
  <1>1. LimitTypeOK /\ dbClock \in Nat /\ highClock \in Nat /\ grants \in [Scopes -> Seq(Nat)]
    BY LimitTypes DEF LimitInv
  <1>2. /\ dbClock' \in Nat /\ highClock' \in Nat /\ highClock <= highClock' /\ dbClock' <= highClock'
        /\ highClock' - MaxDbSetBack <= dbClock' /\ UNCHANGED <<bucket, rowLock, advisory, txn, grants>>
    <2>1. MaxDbSetBack \in Nat /\ MaxClock \in Nat /\ highClock - MaxDbSetBack <= dbClock'
      BY LimitConstants DEF DbClockMoves
    <2>2. dbClock' \in Nat /\ highClock' = IF dbClock' > highClock THEN dbClock' ELSE highClock
      BY <2>1 DEF DbClockMoves
    <2>3. UNCHANGED <<bucket, rowLock, advisory, txn, grants>>
      BY DEF DbClockMoves
    <2> QED BY <1>1, <2>1, <2>2, <2>3, ClockArithmetic
  <1>3. LimitTypeOK' /\ LimitKept' /\ ClockWithin'
    BY <1>1, <1>2 DEF LimitInv, LimitTypeOK, LimitKept, LimitRateKept, RowsBounded, Rows, Absent, ClockWithin
  <1>4. ASSUME NEW z \in Scopes PROVE Paid(z)' /\ Owed(z)'
    <2>1. /\ highClock - MaxDbSetBack \in Int /\ highClock' - MaxDbSetBack \in Int
          /\ highClock - MaxDbSetBack <= highClock' - MaxDbSetBack /\ grants[z] \in Seq(Nat)
      <3>1. MaxDbSetBack \in Nat
        BY LimitConstants
      <3>2. \A a, b, d \in Nat : a <= b => a - d \in Int /\ b - d \in Int /\ a - d <= b - d
        OBVIOUS
      <3> QED BY <1>1, <1>2, <3>1, <3>2
    <2>2. Paid(z) /\ Owed(z)
      BY DEF LimitInv
    <2>3. Paid(z)'
      <3> SUFFICES ASSUME Absent(z) PROVE Covers(grants[z], LimitInterval, highClock' - MaxDbSetBack)
        BY <1>2 DEF Paid, Absent
      <3>1. Covers(grants[z], LimitInterval, highClock - MaxDbSetBack)
        BY <2>2 DEF Paid
      <3> QED BY <2>1, <3>1, CoversMore, LimitConstants
    <2> QED BY <1>2, <2>2, <2>3 DEF Owed, Absent
  <1>5. ASSUME NEW x \in Transactions
        PROVE  HoldsRow(x)' /\ HoldsAdvisory(x)' /\ MayCreate(x)' /\ TakenInTime(x)'
    <2>1. HoldsRow(x) /\ HoldsAdvisory(x) /\ MayCreate(x) /\ TakenInTime(x) /\ txn[x].at \in Nat
      BY LimitTypes DEF LimitInv
    <2> QED BY <1>1, <1>2, <2>1 DEF HoldsRow, HoldsAdvisory, MayCreate, TakenInTime, Absent
  <1> QED BY <1>3, <1>4, <1>5 DEF LimitInv

LEMMA LimitStays ==
  ASSUME LimitInv, UNCHANGED limitVars
  PROVE  LimitInv'
  BY DEF LimitInv, limitVars, LimitTypeOK, LimitKept, LimitRateKept, RowsBounded, Rows, Absent, ClockWithin,
         Paid, Owed, HoldsRow, HoldsAdvisory, MayCreate, TakenInTime

LEMMA NextLimitInv == LimitInv /\ [LimitNext]_limitVars => LimitInv'
  <1> SUFFICES ASSUME LimitInv, [LimitNext]_limitVars PROVE LimitInv'
    OBVIOUS
  <1>1. CASE UNCHANGED limitVars
    BY <1>1, LimitStays
  <1>2. ASSUME NEW c \in Transactions, NEW s \in Scopes, consumeSignedRequestRateLimit(c, s) PROVE LimitInv'
    BY <1>2, CallBegins
  <1>3. ASSUME NEW c \in Transactions, Statement(c) PROVE LimitInv'
    BY <1>3, LookUpKeeps, LockCardinalityKeeps, LookAgainKeeps, CreateKeeps, ConsumeKeeps, RollBackKeeps DEF Statement
  <1>4. CASE DbClockMoves
    BY <1>4, DbClockKeeps
  <1> QED BY <1>1, <1>2, <1>3, <1>4 DEF LimitNext

(* The inductive invariant of refunddesk_consume_signed_request_rate_limit.  *)
THEOREM LimitInvariance == LimitSpec => []LimitInv
  BY InitLimitInv, NextLimitInv, PTL DEF LimitSpec

(* No scope is granted more than its burst and rate, and the table stays     *)
(* within its bound, for any number of scopes and transactions and any       *)
(* interleaving of their statements (migration.sql of the signed limiter).   *)
THEOREM LimitsKept == LimitSpec => []LimitKept
  <1>1. LimitInv => LimitKept
    BY DEF LimitInv
  <1> QED BY <1>1, LimitInvariance, PTL

-------------------------------------------------------------------------------
(* Who waits for whom.                                                       *)

(* The next statement of c waits for the lock on a row, or for the one on    *)
(* the number of rows; the others take no lock that another may hold.        *)
WaitsForRow(c) ==
    /\ txn[c].step \in {"look", "again"}
    /\ ~Absent(txn[c].scope) /\ rowLock[txn[c].scope] # NoTransaction

WaitsForCardinality(c) == txn[c].step = "first" /\ advisory # NoTransaction

Waits(c) == WaitsForRow(c) \/ WaitsForCardinality(c)

Holder(c) == IF WaitsForRow(c) THEN rowLock[txn[c].scope] ELSE advisory

(* Whoever waits, waits for a transaction that is under way and at most one  *)
(* more after it.                                                            *)
WaitsEnd ==
    \A c \in Transactions :
        Waits(c) => LET d == Holder(c)
                    IN  /\ d \in Transactions /\ txn[d].step # "idle"
                        /\ Waits(d) => /\ Holder(d) \in Transactions
                                       /\ txn[Holder(d)].step = "consume"

(* A lock is held by a transaction that is at the statement it is held for.  *)
RowHeld(s) == rowLock[s] # NoTransaction => txn[rowLock[s]].step = "consume" /\ txn[rowLock[s]].scope = s
AdvisoryHeld == advisory # NoTransaction => txn[advisory].step \in {"again", "create", "consume"}

LockInv == LimitTypeOK /\ AdvisoryHeld /\ \A s \in Scopes : RowHeld(s)

LEMMA InitLockInv == LimitInit => LockInv
  <1> SUFFICES ASSUME LimitInit PROVE LockInv
    OBVIOUS
  <1>1. LimitTypeOK
    BY InitLimitInv DEF LimitInv
  <1> QED BY <1>1 DEF LimitInit, LockInv, AdvisoryHeld, RowHeld

LEMMA LockRowHeld ==
  ASSUME LockInv, LimitTypeOK', NEW c \in Transactions, lockRow(c), UNCHANGED advisory,
         txn[c].step \in {"look", "again"}
  PROVE  LockInv'
  <1> DEFINE w == [txn[c] EXCEPT !.step = "consume", !.at = dbClock, !.seen = bucket[txn[c].scope]]
             s == txn[c].scope
  <1>1. /\ txn \in [Transactions -> Work] /\ rowLock \in [Scopes -> Transactions \cup {NoTransaction}]
        /\ s \in Scopes /\ NoTransaction \notin Transactions
        /\ advisory \in Transactions \cup {NoTransaction}
    BY LimitTypes, LimitConstants DEF LockInv
  <1>2. txn' = [txn EXCEPT ![c] = w] /\ rowLock' = [rowLock EXCEPT ![s] = c]
    BY DEF lockRow
  <1>3. w.step = "consume" /\ w.scope = s
    BY <1>1 DEF Work
  <1> HIDE DEF w
  <1>4. /\ txn'[c] = w /\ \A x \in Transactions : x # c => txn'[x] = txn[x]
        /\ rowLock'[s] = c /\ \A z \in Scopes : z # s => rowLock'[z] = rowLock[z]
    BY <1>1, <1>2
  <1>5. ASSUME NEW z \in Scopes PROVE rowLock'[z] # NoTransaction =>
          txn'[rowLock'[z]].step = "consume" /\ txn'[rowLock'[z]].scope = z
    <2>1. CASE z = s
      BY <1>3, <1>4, <2>1
    <2>2. CASE z # s
      <3>1. rowLock'[z] = rowLock[z] /\ RowHeld(z) /\ rowLock[z] \in Transactions \cup {NoTransaction}
        BY <1>1, <1>4, <2>2 DEF LockInv
      <3>2. rowLock[z] # c
        BY <1>1, <3>1 DEF RowHeld
      <3> QED BY <1>4, <3>1, <3>2 DEF RowHeld
    <2> QED BY <2>1, <2>2
  <1>6. advisory # NoTransaction => txn'[advisory].step \in {"again", "create", "consume"}
    <2>1. advisory = c => txn'[advisory].step = "consume"
      BY <1>3, <1>4
    <2> QED BY <1>1, <1>4, <2>1 DEF LockInv, AdvisoryHeld
  <1> QED BY <1>5, <1>6 DEF LockInv, RowHeld, AdvisoryHeld

(* A transaction that takes no row lock and does not end keeps those it has. *)
LEMMA StepHeld ==
  ASSUME LockInv, LimitTypeOK', NEW c \in Transactions, NEW w \in Work, txn' = [txn EXCEPT ![c] = w],
         UNCHANGED rowLock, txn[c].step # "consume",
         \/ UNCHANGED advisory /\ (txn[c].step \in {"again", "create"} => w.step \in {"again", "create"})
         \/ advisory' = c /\ w.step = "again"
  PROVE  LockInv'
  <1>1. /\ txn \in [Transactions -> Work] /\ rowLock \in [Scopes -> Transactions \cup {NoTransaction}]
        /\ NoTransaction \notin Transactions /\ advisory \in Transactions \cup {NoTransaction}
    BY LimitTypes, LimitConstants DEF LockInv
  <1>2. txn'[c] = w /\ \A x \in Transactions : x # c => txn'[x] = txn[x]
    BY <1>1
  <1>3. ASSUME NEW z \in Scopes PROVE RowHeld(z)'
    <2>1. RowHeld(z) /\ rowLock[z] # c /\ rowLock[z] \in Transactions \cup {NoTransaction}
      BY <1>1 DEF LockInv, RowHeld
    <2> QED BY <1>2, <2>1 DEF RowHeld
  <1>4. AdvisoryHeld'
    BY <1>1, <1>2 DEF LockInv, AdvisoryHeld
  <1> QED BY <1>3, <1>4 DEF LockInv

LEMMA EndHeld ==
  ASSUME LockInv, LimitTypeOK', NEW c \in Transactions, End(c)
  PROVE  LockInv'
  <1>1. /\ txn \in [Transactions -> Work] /\ rowLock \in [Scopes -> Transactions \cup {NoTransaction}]
        /\ NoTransaction \notin Transactions /\ advisory \in Transactions \cup {NoTransaction}
        /\ \A x \in Transactions : x # c => txn'[x] = txn[x]
    BY LimitTypes, LimitConstants, EndIs DEF LockInv
  <1>2. ASSUME NEW z \in Scopes PROVE RowHeld(z)'
    <2>1. RowHeld(z) /\ rowLock'[z] = (IF rowLock[z] = c THEN NoTransaction ELSE rowLock[z])
          /\ rowLock[z] \in Transactions \cup {NoTransaction}
      BY <1>1 DEF LockInv, End
    <2> QED BY <1>1, <2>1 DEF RowHeld
  <1>3. AdvisoryHeld'
    BY <1>1 DEF LockInv, AdvisoryHeld, End
  <1> QED BY <1>2, <1>3 DEF LockInv

LEMMA NextLockInv == LockInv /\ LimitTypeOK' /\ [LimitNext]_limitVars => LockInv'
  <1> SUFFICES ASSUME LockInv, LimitTypeOK', [LimitNext]_limitVars PROVE LockInv'
    OBVIOUS
  <1>0. txn \in [Transactions -> Work] /\ dbClock \in Nat
    BY LimitTypes DEF LockInv
  <1>1. CASE UNCHANGED limitVars \/ DbClockMoves
    BY <1>1 DEF limitVars, DbClockMoves, LockInv, AdvisoryHeld, RowHeld
  <1>2. ASSUME NEW c \in Transactions, NEW s \in Scopes, consumeSignedRequestRateLimit(c, s) PROVE LockInv'
    <2> DEFINE w == [txn[c] EXCEPT !.step = "look", !.scope = s]
    <2>1. /\ txn' = [txn EXCEPT ![c] = w] /\ UNCHANGED <<rowLock, advisory>> /\ txn[c].step = "idle"
      BY <1>2 DEF consumeSignedRequestRateLimit, Stands
    <2>2. w \in Work
      BY <1>0 DEF Work, Steps
    <2> HIDE DEF w
    <2> QED BY <2>1, <2>2, StepHeld
  <1>3. ASSUME NEW c \in Transactions, lookUp(c) PROVE LockInv'
    <2>1. CASE lockRow(c)
      BY <1>3, <2>1, LockRowHeld DEF lookUp, Stands
    <2>2. CASE txn' = [txn EXCEPT ![c].step = "first"] /\ UNCHANGED rowLock
      <3> DEFINE w == [txn[c] EXCEPT !.step = "first"]
      <3>1. txn' = [txn EXCEPT ![c] = w] /\ UNCHANGED <<rowLock, advisory>> /\ txn[c].step = "look"
        BY <1>3, <2>2 DEF lookUp, Stands
      <3>2. w \in Work
        BY <1>0 DEF Work, Steps
      <3> HIDE DEF w
      <3> QED BY <3>1, <3>2, StepHeld
    <2> QED BY <1>3, <2>1, <2>2 DEF lookUp
  <1>4. ASSUME NEW c \in Transactions, lockCardinality(c) PROVE LockInv'
    <2> DEFINE w == [txn[c] EXCEPT !.step = "again"]
    <2>1. txn' = [txn EXCEPT ![c] = w] /\ UNCHANGED rowLock /\ advisory' = c /\ txn[c].step = "first"
      BY <1>4 DEF lockCardinality, Stands
    <2>2. w \in Work /\ w.step = "again"
      BY <1>0 DEF Work, Steps
    <2> HIDE DEF w
    <2> QED BY <2>1, <2>2, StepHeld
  <1>5. ASSUME NEW c \in Transactions, lookAgain(c) PROVE LockInv'
    <2>1. CASE lockRow(c)
      BY <1>5, <2>1, LockRowHeld DEF lookAgain, Stands
    <2>2. CASE txn' = [txn EXCEPT ![c].step = "create", ![c].at = dbClock] /\ UNCHANGED rowLock
      <3> DEFINE w == [txn[c] EXCEPT !.step = "create", !.at = dbClock]
      <3>1. txn' = [txn EXCEPT ![c] = w] /\ UNCHANGED <<rowLock, advisory>> /\ txn[c].step = "again"
        BY <1>5, <2>2 DEF lookAgain, Stands
      <3>2. w \in Work /\ w.step = "create"
        BY <1>0 DEF Work, Steps
      <3> HIDE DEF w
      <3> QED BY <3>1, <3>2, StepHeld
    <2> QED BY <1>5, <2>1, <2>2 DEF lookAgain
  <1>6. ASSUME NEW c \in Transactions, createBucket(c) \/ consume(c) \/ rollBack(c) PROVE LockInv'
    BY <1>6, EndHeld DEF createBucket, consume, rollBack
  <1> QED BY <1>1, <1>2, <1>3, <1>4, <1>5, <1>6 DEF LimitNext, Statement

(* The statements of the limiter cannot wait for one another in a circle:    *)
(* whoever waits for a row waits for a transaction that only has to commit,  *)
(* and whoever waits for the cardinality lock for one that waits for no more *)
(* than such a row (the FOR UPDATE and the advisory lock of migration.sql).  *)
THEOREM NoCircularWait == LimitSpec => []WaitsEnd
  <1>1. LockInv => WaitsEnd
    <2> SUFFICES ASSUME LockInv, NEW c \in Transactions, Waits(c)
                 PROVE  /\ Holder(c) \in Transactions /\ txn[Holder(c)].step # "idle"
                        /\ Waits(Holder(c)) => /\ Holder(Holder(c)) \in Transactions
                                               /\ txn[Holder(Holder(c))].step = "consume"
      BY DEF WaitsEnd
    <2>1. /\ rowLock \in [Scopes -> Transactions \cup {NoTransaction}]
          /\ advisory \in Transactions \cup {NoTransaction}
          /\ \A x \in Transactions : txn[x].scope \in Scopes
      BY LimitTypes DEF LockInv
    <2>2. ASSUME NEW x \in Transactions, WaitsForRow(x)
          PROVE  Holder(x) \in Transactions /\ txn[Holder(x)].step = "consume"
      BY <2>1, <2>2 DEF WaitsForRow, Holder, LockInv, RowHeld
    <2>3. CASE WaitsForRow(c)
      BY <2>2, <2>3 DEF Waits, WaitsForRow, WaitsForCardinality
    <2>4. CASE ~WaitsForRow(c)
      <3>1. /\ Holder(c) = advisory /\ advisory \in Transactions
            /\ txn[advisory].step \in {"again", "create", "consume"}
        BY <2>1, <2>4 DEF Waits, WaitsForCardinality, Holder, LockInv, AdvisoryHeld
      <3>2. Waits(advisory) => WaitsForRow(advisory)
        BY <3>1 DEF Waits, WaitsForCardinality
      <3> QED BY <2>2, <3>1, <3>2
    <2> QED BY <2>3, <2>4
  <1>2. LimitSpec => []LimitTypeOK
    <2>1. LimitInv => LimitTypeOK
      BY DEF LimitInv
    <2> QED BY <2>1, LimitInvariance, PTL
  <1> QED BY <1>1, <1>2, InitLockInv, NextLockInv, PTL DEF LimitSpec

-------------------------------------------------------------------------------
(* The readiness probe.                                                      *)

LastSeenReady == IF dbReady THEN real ELSE lastReady

ClocksTogether == real - MaxSetBack <= now /\ now <= real /\ lastReady <= real

(* The query under way is no older than its timeouts, and a good row was     *)
(* read after it was sent.                                                   *)
QueryYoung ==
    flight.on => /\ flight.since <= real /\ real <= flight.since + QueryTimeout
                 /\ flight.row = "ready" => flight.since <= LastSeenReady

(* A good answer expires a query and a cache time after the database was     *)
(* last ready.                                                               *)
CacheYoung == cached.ready => cached.expiresAt <= LastSeenReady + QueryTimeout + ReadyCache

ProbeInv == ProbeTypeOK /\ ClocksTogether /\ QueryYoung /\ CacheYoung /\ ReadyIsRecent

LEMMA ProbeConstants ==
  /\ ReadyCache \in Nat /\ NotReadyCache \in Nat /\ QueryTimeout \in Nat /\ MaxSetBack \in Nat /\ MaxReal \in Nat
  BY ProbeAssumption

LEMMA ProbeTypes ==
  ASSUME ProbeInv
  PROVE  /\ real \in Nat /\ now \in Int /\ dbReady \in BOOLEAN /\ lastReady \in Nat
         /\ LastSeenReady \in Nat /\ LastSeenReady <= real /\ Age = real - LastSeenReady
         /\ cached.ready \in BOOLEAN /\ cached.expiresAt \in Int
         /\ flight.on \in BOOLEAN /\ flight.since \in Nat /\ flight.row \in {"none", "ready", "unready"}
  <1>1. ProbeTypeOK /\ lastReady <= real
    BY DEF ProbeInv, ClocksTogether
  <1>2. real \in Nat /\ now \in Int /\ dbReady \in BOOLEAN /\ lastReady \in Nat
    BY <1>1 DEF ProbeTypeOK
  <1>3. LastSeenReady \in Nat /\ LastSeenReady <= real /\ Age = real - LastSeenReady
    BY <1>1, <1>2 DEF LastSeenReady, Age
  <1>4. cached.ready \in BOOLEAN /\ cached.expiresAt \in Int
    BY <1>1 DEF ProbeTypeOK
  <1>5. flight.on \in BOOLEAN /\ flight.since \in Nat /\ flight.row \in {"none", "ready", "unready"}
    <2>1. CASE flight = NoQuery
      BY <2>1 DEF NoQuery
    <2>2. CASE flight \in [on : {TRUE}, since : Nat, row : {"none", "ready", "unready"}]
      BY <2>2
    <2> QED BY <1>1, <2>1, <2>2 DEF ProbeTypeOK
  <1> QED BY <1>2, <1>3, <1>4, <1>5

LEMMA NoQueryIs == NoQuery.on = FALSE
  BY DEF NoQuery

LEMMA InitProbeInv == ProbeInit => ProbeInv
  <1> SUFFICES ASSUME ProbeInit PROVE ProbeInv
    OBVIOUS
  <1>1. ProbeTypeOK
    BY DEF ProbeInit, ProbeTypeOK
  <1>2. ClocksTogether
    BY ProbeConstants DEF ProbeInit, ClocksTogether
  <1>3. QueryYoung
    BY NoQueryIs DEF ProbeInit, QueryYoung
  <1>4. CacheYoung
    BY DEF ProbeInit, CacheYoung
  <1>5. ReadyIsRecent
    BY ProbeConstants DEF ProbeInit, ReadyIsRecent
  <1> QED BY <1>1, <1>2, <1>3, <1>4, <1>5 DEF ProbeInv

(* An answer is recorded with the age of what it says.                       *)
LEMMA RepliesIs ==
  ASSUME ProbeInv, NEW ready \in BOOLEAN, Replies(ready),
         ready => Age <= ReadyCache + QueryTimeout + MaxSetBack
  PROVE  answer' \in [ready : BOOLEAN, age : Nat] /\ ReadyIsRecent'
  <1>1. Age \in Nat
    BY ProbeTypes
  <1> DEFINE a == IF ready THEN Age ELSE 0
  <1>2. a \in Nat /\ a <= ReadyCache + QueryTimeout + MaxSetBack
    BY <1>1, ProbeConstants
  <1>3. answer' = [ready |-> ready, age |-> a]
    BY DEF Replies
  <1> HIDE DEF a
  <1> QED BY <1>2, <1>3 DEF ReadyIsRecent

(* A kept answer that has not expired is recent: the clock of the cache is   *)
(* not further back than MaxSetBack.                                         *)
LEMMA UseCacheKeeps ==
  ASSUME ProbeInv, useCache
  PROVE  ProbeInv'
  <1>1. now < cached.expiresAt /\ Replies(cached.ready)
    BY DEF useCache
  <1>2. UNCHANGED <<real, now, dbReady, lastReady, cached, flight, waiting>>
    BY DEF useCache
  <1>3. cached.ready => Age <= ReadyCache + QueryTimeout + MaxSetBack
    <2> SUFFICES ASSUME cached.ready PROVE Age <= ReadyCache + QueryTimeout + MaxSetBack
      OBVIOUS
    <2>1. cached.expiresAt <= LastSeenReady + QueryTimeout + ReadyCache /\ real - MaxSetBack <= now
      BY DEF ProbeInv, CacheYoung, ClocksTogether
    <2> QED BY <1>1, <2>1, ProbeTypes, ProbeConstants
  <1>4. answer' \in [ready : BOOLEAN, age : Nat] /\ ReadyIsRecent'
    BY <1>1, <1>3, RepliesIs, ProbeTypes
  <1>5. ProbeTypeOK'
    BY <1>2, <1>4 DEF ProbeInv, ProbeTypeOK
  <1>6. ClocksTogether' /\ QueryYoung' /\ CacheYoung'
    BY <1>2 DEF ProbeInv, ClocksTogether, QueryYoung, CacheYoung, LastSeenReady
  <1> QED BY <1>4, <1>5, <1>6 DEF ProbeInv

LEMMA AwaitQueryKeeps ==
  ASSUME ProbeInv, NEW p \in Probes, awaitQuery(p)
  PROVE  ProbeInv'
  <1> DEFINE f == [on |-> TRUE, since |-> real, row |-> "none"]
  <1>1. waiting' = waiting \cup {p} /\ UNCHANGED <<real, now, dbReady, lastReady, cached, answer>>
    BY DEF awaitQuery
  <1>2. flight' = flight \/ flight' = f
    BY DEF awaitQuery
  <1>3. ProbeTypeOK'
    <2>1. f \in [on : {TRUE}, since : Nat, row : {"none", "ready", "unready"}]
      BY ProbeTypes
    <2> HIDE DEF f
    <2> QED BY <1>1, <1>2, <2>1 DEF ProbeInv, ProbeTypeOK
  <1>4. QueryYoung'
    <2>1. CASE flight' = flight
      BY <1>1, <2>1 DEF ProbeInv, QueryYoung, LastSeenReady
    <2>2. CASE flight' = f
      <3>1. flight'.since = real /\ flight'.row = "none"
        BY <2>2
      <3>2. real <= real + QueryTimeout /\ real <= real
        BY ProbeTypes, ProbeConstants
      <3> QED BY <1>1, <3>1, <3>2 DEF QueryYoung
    <2> QED BY <1>2, <2>1, <2>2
  <1>5. ClocksTogether' /\ CacheYoung' /\ ReadyIsRecent'
    BY <1>1 DEF ProbeInv, ClocksTogether, CacheYoung, LastSeenReady, ReadyIsRecent
  <1> QED BY <1>3, <1>4, <1>5 DEF ProbeInv

LEMMA QueryRunsKeeps ==
  ASSUME ProbeInv, queryRuns
  PROVE  ProbeInv'
  <1> DEFINE row == IF dbReady THEN "ready" ELSE "unready"
  <1>1. flight.on /\ UNCHANGED <<real, now, dbReady, lastReady, cached, waiting, answer>>
    BY DEF queryRuns
  <1>2. flight' = [flight EXCEPT !.row = row]
    BY DEF queryRuns
  <1>3. flight \in [on : {TRUE}, since : Nat, row : {"none", "ready", "unready"}]
    BY <1>1, NoQueryIs DEF ProbeInv, ProbeTypeOK
  <1>4. row \in {"none", "ready", "unready"} /\ (row = "ready" <=> dbReady)
    BY ProbeTypes
  <1> HIDE DEF row
  <1>5. /\ flight' \in [on : {TRUE}, since : Nat, row : {"none", "ready", "unready"}]
        /\ flight'.since = flight.since /\ flight'.row = row
    BY <1>2, <1>3, <1>4
  <1>6. ProbeTypeOK'
    BY <1>1, <1>5 DEF ProbeInv, ProbeTypeOK
  <1>7. QueryYoung'
    BY <1>1, <1>4, <1>5 DEF ProbeInv, QueryYoung, LastSeenReady
  <1>8. ClocksTogether' /\ CacheYoung' /\ ReadyIsRecent'
    BY <1>1 DEF ProbeInv, ClocksTogether, CacheYoung, LastSeenReady, ReadyIsRecent
  <1> QED BY <1>6, <1>7, <1>8 DEF ProbeInv

LEMMA QueryReturnsKeeps ==
  ASSUME ProbeInv, queryReturns
  PROVE  ProbeInv'
  <1>1. PICK ready \in {flight.row = "ready", FALSE} : keep(ready) /\ Replies(ready)
    BY DEF queryReturns
  <1>2. flight.on /\ flight' = NoQuery /\ waiting' = {} /\ UNCHANGED <<real, now, dbReady, lastReady>>
    BY DEF queryReturns, landed
  <1>3. ready \in BOOLEAN /\ (ready => flight.row = "ready")
    BY <1>1
  <1>4. ready => real <= LastSeenReady + QueryTimeout
    <2> SUFFICES ASSUME ready PROVE real <= LastSeenReady + QueryTimeout
      OBVIOUS
    <2>1. real <= flight.since + QueryTimeout /\ flight.since <= LastSeenReady
      BY <1>2, <1>3 DEF ProbeInv, QueryYoung
    <2> QED BY <2>1, ProbeTypes, ProbeConstants
  <1>5. ready => Age <= ReadyCache + QueryTimeout + MaxSetBack
    BY <1>4, ProbeTypes, ProbeConstants
  <1>6. answer' \in [ready : BOOLEAN, age : Nat] /\ ReadyIsRecent'
    BY <1>1, <1>3, <1>5, RepliesIs
  <1> DEFINE e == now + (IF ready THEN ReadyCache ELSE NotReadyCache)
  <1>7. cached' = [ready |-> ready, expiresAt |-> e]
    BY <1>1 DEF keep
  <1>8. e \in Int /\ (ready => e <= LastSeenReady + QueryTimeout + ReadyCache)
    <2>1. now <= real
      BY DEF ProbeInv, ClocksTogether
    <2> QED BY <1>3, <1>4, <2>1, ProbeTypes, ProbeConstants
  <1> HIDE DEF e
  <1>9. cached' \in [ready : BOOLEAN, expiresAt : Int] /\ cached'.ready = ready /\ cached'.expiresAt = e
    BY <1>3, <1>7, <1>8
  <1>10. ProbeTypeOK'
    BY <1>2, <1>6, <1>9 DEF ProbeInv, ProbeTypeOK
  <1>11. CacheYoung'
    BY <1>2, <1>8, <1>9 DEF CacheYoung, LastSeenReady
  <1>12. QueryYoung' /\ ClocksTogether'
    BY <1>2, NoQueryIs DEF ProbeInv, QueryYoung, ClocksTogether
  <1> QED BY <1>6, <1>10, <1>11, <1>12 DEF ProbeInv

(* What the two steps of the environment keep: the database was last ready   *)
(* no earlier than was known before.                                         *)
LEMMA LaterKeeps ==
  ASSUME ProbeInv, LastSeenReady' \in Nat, LastSeenReady <= LastSeenReady', UNCHANGED <<cached, flight, answer>>,
         real' \in Nat, flight.on => flight.since <= real' /\ real' <= flight.since + QueryTimeout
  PROVE  QueryYoung' /\ CacheYoung' /\ ReadyIsRecent'
  <1>1. ReadyIsRecent'
    BY DEF ProbeInv, ReadyIsRecent
  <1>2. QueryYoung'
    <2> SUFFICES ASSUME flight.on, flight.row = "ready" PROVE flight.since <= LastSeenReady'
      BY DEF QueryYoung
    <2>1. flight.since <= LastSeenReady
      BY DEF ProbeInv, QueryYoung
    <2> QED BY <2>1, ProbeTypes
  <1>3. CacheYoung'
    <2> SUFFICES ASSUME cached.ready PROVE cached.expiresAt <= LastSeenReady' + QueryTimeout + ReadyCache
      BY DEF CacheYoung
    <2>1. cached.expiresAt <= LastSeenReady + QueryTimeout + ReadyCache
      BY DEF ProbeInv, CacheYoung
    <2> QED BY <2>1, ProbeTypes, ProbeConstants
  <1> QED BY <1>1, <1>2, <1>3

LEMMA RealTimeKeeps ==
  ASSUME ProbeInv, RealTimePasses
  PROVE  ProbeInv'
  <1>1. /\ flight.on => real < flight.since + QueryTimeout
        /\ real' = real + 1 /\ now' \in (real' - MaxSetBack)..real'
        /\ lastReady' = IF dbReady THEN real' ELSE lastReady
        /\ UNCHANGED <<dbReady, cached, flight, waiting, answer>>
    BY DEF RealTimePasses
  <1>2. real' \in Nat /\ now' \in Int /\ lastReady' \in Nat /\ lastReady' <= real'
    <2>1. lastReady <= real
      BY DEF ProbeInv, ClocksTogether
    <2> QED BY <1>1, <2>1, ProbeTypes, ProbeConstants
  <1>3. ClocksTogether'
    BY <1>1, <1>2, ProbeConstants DEF ClocksTogether
  <1>4. ProbeTypeOK'
    BY <1>1, <1>2 DEF ProbeInv, ProbeTypeOK
  <1>5. LastSeenReady' \in Nat /\ LastSeenReady <= LastSeenReady'
    BY <1>1, <1>2, ProbeTypes DEF LastSeenReady
  <1>6. flight.on => flight.since <= real' /\ real' <= flight.since + QueryTimeout
    <2> SUFFICES ASSUME flight.on PROVE flight.since <= real' /\ real' <= flight.since + QueryTimeout
      OBVIOUS
    <2>1. flight.since <= real
      BY DEF ProbeInv, QueryYoung
    <2> QED BY <1>1, <2>1, ProbeTypes, ProbeConstants
  <1> QED BY <1>1, <1>2, <1>3, <1>4, <1>5, <1>6, LaterKeeps DEF ProbeInv

LEMMA DatabaseKeeps ==
  ASSUME ProbeInv, DatabaseChanges
  PROVE  ProbeInv'
  <1>1. dbReady' = ~dbReady /\ lastReady' = real /\ UNCHANGED <<real, now, cached, flight, waiting, answer>>
    BY DEF DatabaseChanges
  <1>2. ClocksTogether'
    BY <1>1, ProbeTypes DEF ProbeInv, ClocksTogether
  <1>3. ProbeTypeOK'
    BY <1>1, ProbeTypes DEF ProbeInv, ProbeTypeOK
  <1>4. LastSeenReady' = real
    BY <1>1 DEF LastSeenReady
  <1>5. flight.on => flight.since <= real' /\ real' <= flight.since + QueryTimeout
    BY <1>1 DEF ProbeInv, QueryYoung
  <1> QED BY <1>1, <1>2, <1>3, <1>4, <1>5, ProbeTypes, LaterKeeps DEF ProbeInv

LEMMA NextProbeInv == ProbeInv /\ [ProbeNext]_probeVars => ProbeInv'
  <1> SUFFICES ASSUME ProbeInv, [ProbeNext]_probeVars PROVE ProbeInv'
    OBVIOUS
  <1>1. CASE UNCHANGED probeVars
    BY <1>1 DEF ProbeInv, probeVars, ProbeTypeOK, ClocksTogether, QueryYoung, CacheYoung, ReadyIsRecent, LastSeenReady
  <1>2. ASSUME NEW p \in Probes, awaitQuery(p) PROVE ProbeInv'
    BY <1>2, AwaitQueryKeeps
  <1> QED BY <1>1, <1>2, UseCacheKeeps, QueryRunsKeeps, QueryReturnsKeeps, RealTimeKeeps, DatabaseKeeps DEF ProbeNext

(* The inductive invariant of the readiness probe (readiness-runtime.ts).    *)
THEOREM ProbeInvariance == ProbeSpec => []ProbeInv
  BY InitProbeInv, NextProbeInv, PTL DEF ProbeSpec

(* Whoever is told that the platform is ready knows that the database was so *)
(* a cache time, a query and a set-back of the clock ago at most             *)
(* (readiness-runtime.ts check), whatever the values of the timeouts.        *)
THEOREM ReadyRecent == ProbeSpec => []ReadyIsRecent
  <1>1. ProbeInv => ReadyIsRecent
    BY DEF ProbeInv
  <1> QED BY <1>1, ProbeInvariance, PTL

-------------------------------------------------------------------------------
(* The variables of the gate, the limiter and the probe keep their types     *)
(* through every #acquire and release of edge-admission.ts, every statement  *)
(* of the limiter's function and every readiness check.                      *)
THEOREM AdmissionTypes ==
  /\ EdgeSpec => []EdgeTypeOK
  /\ LimitSpec => []LimitTypeOK
  /\ ProbeSpec => []ProbeTypeOK
  <1>1. (EdgeInv => EdgeTypeOK) /\ (LimitInv => LimitTypeOK) /\ (ProbeInv => ProbeTypeOK)
    BY DEF EdgeInv, LimitInv, ProbeInv
  <1> QED BY <1>1, EdgeInvariance, LimitInvariance, ProbeInvariance, PTL
===============================================================================
