------------------------ MODULE RebalancePlanProofs ------------------------
(***************************************************************************)
(* What holds of a rebalance for every number of servers, every placement, *)
(* every naming and every order.  Everything comes from counting: a        *)
(* hypervisor keeps no more servers than its share, and has a place of its *)
(* own for each one it is sent.                                            *)
(***************************************************************************)
EXTENDS RebalancePlan, FiniteSetTheorems, FunctionTheorems, WellFoundedInduction, TLAPS

\* The listing as findMigration gets it.
Listed == start \in [Listing -> Hypervisors] /\ name \in [Listing -> Listing]

On(p, h) == {s \in Listing : p[s] = h}
LeavingOf(h) == {s \in Leaving : start[s] = h}
StayingOn(h) == On(start, h) \ Leaving
RoomsOf(h) == {r \in Rooms : r[1] = h}

LEMMA ListingFinite == IsFiniteSet(Listing) /\ Cardinality(Listing) = N
BY CountAssumption, FS_Interval DEF Listing

LEMMA SubsetFinite ==
  ASSUME NEW S \in SUBSET Listing
  PROVE  IsFiniteSet(S) /\ Cardinality(S) \in Nat /\ Cardinality(S) <= N
BY ListingFinite, FS_Subset, FS_CardinalityType

LEMMA LoadType ==
  ASSUME NEW p, NEW h
  PROVE  /\ On(p, h) \in SUBSET Listing /\ IsFiniteSet(On(p, h))
         /\ Load(p, h) = Cardinality(On(p, h)) /\ Load(p, h) \in Nat
<1>1. On(p, h) \in SUBSET Listing
  BY DEF On
<1> QED
  BY <1>1, SubsetFinite DEF Load, On

\* Multiplying by a positive number keeps the order.
LEMMA Products ==
  ASSUME NEW a \in Nat, NEW b \in Nat, NEW u \in Nat \ {0}
  PROVE  /\ a * u < b * u => a < b
         /\ a * u <= b * u => a <= b
         /\ a * u \in Nat /\ (a + 1) * u = a * u + u
<1>1. a * u \in Nat /\ b * u \in Nat /\ (a + 1) * u = a * u + u
  BY SMTT(30)
<1>2. ASSUME b <= a PROVE b * u <= a * u
  BY <1>2, SMTT(30)
<1>3. ASSUME b + 1 <= a PROVE b * u + u <= a * u
  <2>1. a = b + (a - b) /\ a - b >= 1 /\ a - b \in Nat
    BY <1>3
  <2>2. \A k \in Nat : k >= 1 => k * u >= u
    BY SMTT(30)
  <2>3. \A k \in Nat : (b + k) * u = b * u + k * u
    BY SMTT(30)
  <2> QED
    BY <2>1, <2>2, <2>3, <1>1
<1> QED
  BY <1>1, <1>2, <1>3

LEMMA Division ==
  ASSUME NEW a \in Nat, NEW b \in Nat \ {0}
  PROVE  /\ a \div b \in Nat
         /\ b * (a \div b) <= a
         /\ a < b * (a \div b) + b
BY SMT

LEMMA UsedFinite ==
  ASSUME Listed
  PROVE  /\ Used \subseteq Hypervisors /\ IsFiniteSet(Used)
         /\ Cardinality(Used) \in Nat \ {0}
<1>1. Used \in SUBSET Hypervisors
  BY DEF Used, Listed
<1>2. IsFiniteSet(Used)
  BY <1>1, CountAssumption, FS_Subset
<1>3. start[1] \in Used
  BY CountAssumption DEF Used, Listing
<1>4. Cardinality(Used) # 0
  BY <1>2, <1>3, FS_EmptySet
<1> QED
  BY <1>1, <1>2, <1>4, FS_CardinalityType

\* calculateBestWedth: the least share that is enough for all.
LEMMA Best ==
  ASSUME Listed
  PROVE  /\ BestWedth \in Nat
         /\ BestWedth * Cardinality(Used) >= N
         /\ \A t \in Nat : Share(t) => BestWedth <= t
<1> DEFINE u == Cardinality(Used)
           q == N \div u
<1>1. u \in Nat \ {0}
  BY UsedFinite
<1>2. q \in Nat /\ q * u <= N /\ N < (q + 1) * u
  <2>1. q \in Nat /\ u * q <= N /\ N < u * q + u
    BY <1>1, CountAssumption, Division
  <2>2. u * q = q * u
    BY <1>1, <2>1
  <2> QED
    BY <1>1, <2>1, <2>2, Products
<1>3. BestWedth = IF q * u = N THEN q ELSE q + 1
  BY DEF BestWedth
<1> HIDE DEF u, q
<1>4. BestWedth \in Nat /\ BestWedth * u >= N
  <2>1. q + 1 \in Nat /\ (q + 1) * u \in Nat
    BY <1>1, <1>2, Products
  <2> QED
    BY <1>2, <1>3, <2>1, CountAssumption
<1>5. ASSUME NEW t \in Nat, t * u >= N PROVE BestWedth <= t
  <2>1. CASE q * u = N
    BY <2>1, <1>1, <1>2, <1>3, <1>5, Products
  <2>2. CASE q * u # N
    <3>1. q * u \in Nat /\ t * u \in Nat /\ q * u < t * u
      BY <2>2, <1>1, <1>2, <1>5, CountAssumption, Products
    <3>2. q < t
      BY <3>1, <1>1, <1>2, Products
    <3> QED
      BY <2>2, <3>2, <1>2, <1>3
  <2> QED
    BY <2>1, <2>2
<1> QED
  BY <1>4, <1>5 DEF Share, u

\* vmByHypervisor numbers the servers of a hypervisor.
LEMMA Turns ==
  ASSUME Listed, NEW s \in Listing
  PROVE  /\ Turn(s) \in 1 .. Load(start, start[s])
         /\ \A t \in Listing : start[t] = start[s] /\ s < t => Turn(s) < Turn(t)
<1> DEFINE Upto(t) == {r \in Listing : start[r] = start[t] /\ r <= t}
<1>1. \A t \in Listing : /\ Upto(t) \in SUBSET Listing /\ IsFiniteSet(Upto(t))
                         /\ Turn(t) = Cardinality(Upto(t)) /\ t \in Upto(t)
  <2> TAKE t \in Listing
  <2>1. Upto(t) \in SUBSET Listing /\ t \in Upto(t)
    BY DEF Listing
  <2> QED
    BY <2>1, SubsetFinite DEF Turn
<1>2. Turn(s) >= 1 /\ Turn(s) \in Nat
  <2>1. Upto(s) # {} /\ IsFiniteSet(Upto(s))
    BY <1>1
  <2> HIDE DEF Upto
  <2> QED
    BY <1>1, <2>1, FS_EmptySet, FS_CardinalityType
<1>3. Turn(s) <= Load(start, start[s])
  <2>1. Upto(s) \in SUBSET On(start, start[s])
    BY DEF On
  <2>2. IsFiniteSet(On(start, start[s])) /\ Load(start, start[s]) = Cardinality(On(start, start[s]))
    BY LoadType
  <2>3. Cardinality(Upto(s)) <= Cardinality(On(start, start[s]))
    BY <2>1, <2>2, FS_Subset
  <2> QED
    BY <1>1, <2>2, <2>3
<1>4. ASSUME NEW t \in Listing, start[t] = start[s], s < t PROVE Turn(s) < Turn(t)
  <2>1. Upto(s) \in SUBSET Upto(t)
    BY <1>4 DEF Listing
  <2>2. t \notin Upto(s)
    BY <1>4 DEF Listing
  <2>3. Cardinality(Upto(s)) <= Cardinality(Upto(t)) /\ Cardinality(Upto(s)) # Cardinality(Upto(t))
    BY <1>1, <2>1, <2>2, FS_Subset
  <2>4. Cardinality(Upto(s)) \in Nat /\ Cardinality(Upto(t)) \in Nat
    BY <1>1, FS_CardinalityType
  <2> QED
    BY <1>1, <2>3, <2>4
<1> QED
  BY <1>2, <1>3, <1>4, LoadType

LEMMA IntervalSize ==
  ASSUME NEW lo \in Int, NEW hi \in Int, lo <= hi + 1
  PROVE  IsFiniteSet(lo .. hi) /\ Cardinality(lo .. hi) = hi - lo + 1
BY FS_Interval

LEMMA DifferentTurns ==
  ASSUME Listed, NEW s \in Listing, NEW t \in Listing, start[s] = start[t], Turn(s) = Turn(t)
  PROVE  s = t
<1>1. s \in Int /\ t \in Int /\ Turn(s) \in Int
  BY Turns, LoadType DEF Listing
<1>2. ~(s < t) /\ ~(t < s)
  BY <1>1, Turns
<1> QED
  BY <1>1, <1>2

\* A hypervisor keeps its share, or all it has if that is less.
LEMMA Shares ==
  ASSUME Listed, NEW h
  PROVE  /\ LeavingOf(h) \in SUBSET On(start, h) /\ StayingOn(h) \in SUBSET Listing
         /\ Load(start, h) <= BestWedth => LeavingOf(h) = {}
         /\ Load(start, h) > BestWedth => Cardinality(LeavingOf(h)) <= Load(start, h) - BestWedth
         /\ Cardinality(StayingOn(h)) =
              IF Load(start, h) <= BestWedth THEN Load(start, h) ELSE BestWedth
<1> DEFINE L == Load(start, h)
<1>0. L \in Nat /\ BestWedth \in Nat /\ IsFiniteSet(On(start, h)) /\ L = Cardinality(On(start, h))
  BY LoadType, Best
<1>1. LeavingOf(h) \in SUBSET On(start, h) /\ StayingOn(h) \in SUBSET Listing
  BY DEF LeavingOf, Leaving, StayingOn, On
<1>2. \A s \in LeavingOf(h) : Turn(s) \in 1 .. (L - BestWedth)
  <2> TAKE s \in LeavingOf(h)
  <2>1. s \in Listing /\ start[s] = h /\ Turn(s) <= L - BestWedth
    BY DEF LeavingOf, Leaving
  <2> QED
    BY <2>1, <1>0, Turns
<1>3. \A s \in StayingOn(h) : Turn(s) \in 1 .. L /\ Turn(s) > L - BestWedth
  <2> TAKE s \in StayingOn(h)
  <2>1. s \in Listing /\ start[s] = h /\ ~(Turn(s) <= L - BestWedth)
    BY DEF StayingOn, On, Leaving
  <2>2. Turn(s) \in 1 .. L
    BY <2>1, Turns
  <2> QED
    BY <2>1, <2>2, <1>0
<1>4. Cardinality(StayingOn(h)) = L - Cardinality(LeavingOf(h)) /\ Cardinality(LeavingOf(h)) \in Nat
  <2>1. StayingOn(h) = On(start, h) \ LeavingOf(h) /\ On(start, h) \cap LeavingOf(h) = LeavingOf(h)
    BY DEF StayingOn, LeavingOf, On, Leaving
  <2>2. IsFiniteSet(LeavingOf(h))
    BY <1>0, <1>1, FS_Subset
  <2>3. /\ Cardinality(On(start, h) \ LeavingOf(h))
             = Cardinality(On(start, h)) - Cardinality(On(start, h) \cap LeavingOf(h))
        /\ Cardinality(LeavingOf(h)) \in Nat
    BY <1>0, <2>2, FS_Difference, FS_CardinalityType
  <2> QED
    BY <1>0, <2>1, <2>3
<1>5. CASE L <= BestWedth
  <2>1. LeavingOf(h) = {}
    BY <1>0, <1>2, <1>5
  <2>2. Cardinality(LeavingOf(h)) = 0
    BY <2>1, FS_EmptySet
  <2> QED
    BY <1>0, <1>1, <1>4, <1>5, <2>1, <2>2
<1>6. CASE L > BestWedth
  <2>1. Cardinality(LeavingOf(h)) <= L - BestWedth
    <3> DEFINE f == [s \in LeavingOf(h) |-> Turn(s)]
               T == 1 .. (L - BestWedth)
    <3>1. f \in [LeavingOf(h) -> T]
      BY <1>2
    <3>2. \A a, b \in LeavingOf(h) : f[a] = f[b] => a = b
      BY DifferentTurns DEF LeavingOf, Leaving
    <3>3. f \in Injection(LeavingOf(h), T)
      BY <3>1, <3>2, Fun_IsInj
    <3>4. IsFiniteSet(T) /\ Cardinality(T) = L - BestWedth
      <4>1. 1 \in Int /\ L - BestWedth \in Int /\ 1 <= L - BestWedth + 1
        BY <1>0, <1>6
      <4>2. IsFiniteSet(T) /\ Cardinality(T) = L - BestWedth - 1 + 1
        BY <4>1, IntervalSize
      <4> QED
        BY <1>0, <4>2
    <3> QED
      BY <3>3, <3>4, FS_Injection
  <2>2. Cardinality(StayingOn(h)) <= BestWedth
    <3> DEFINE f == [s \in StayingOn(h) |-> Turn(s)]
               T == (L - BestWedth + 1) .. L
    <3>1. f \in [StayingOn(h) -> T]
      BY <1>0, <1>3
    <3>2. \A a, b \in StayingOn(h) : f[a] = f[b] => a = b
      BY DifferentTurns DEF StayingOn, On
    <3>3. f \in Injection(StayingOn(h), T)
      BY <3>1, <3>2, Fun_IsInj
    <3>4. IsFiniteSet(T) /\ Cardinality(T) = BestWedth
      <4>1. L - BestWedth + 1 \in Int /\ L \in Int /\ L - BestWedth + 1 <= L + 1
        BY <1>0
      <4>2. IsFiniteSet(T) /\ Cardinality(T) = L - (L - BestWedth + 1) + 1
        BY <4>1, IntervalSize
      <4> QED
        BY <1>0, <4>2
    <3> QED
      BY <3>3, <3>4, FS_Injection
  <2> QED
    BY <1>0, <1>1, <1>4, <1>6, <2>1, <2>2
<1> QED
  BY <1>0, <1>5, <1>6

\* A hypervisor gets as many places as it has too few servers.
LEMMA Places ==
  ASSUME Listed, NEW h
  PROVE  /\ IsFiniteSet(Rooms) /\ RoomsOf(h) \in SUBSET Rooms
         /\ Load(start, h) >= BestWedth => RoomsOf(h) = {}
         /\ Load(start, h) < BestWedth => Cardinality(RoomsOf(h)) <= BestWedth - Load(start, h)
<1> DEFINE L == Load(start, h)
<1>0. L \in Nat /\ BestWedth \in Nat
  BY LoadType, Best
<1>1. IsFiniteSet(Rooms) /\ RoomsOf(h) \in SUBSET Rooms
  <2>1. IsFiniteSet(1 .. BestWedth)
    BY <1>0, FS_Interval
  <2>2. IsFiniteSet(Used \X (1 .. BestWedth))
    BY <2>1, UsedFinite, FS_Product
  <2>3. Rooms \in SUBSET (Used \X (1 .. BestWedth))
    BY DEF Rooms
  <2> QED
    BY <2>2, <2>3, FS_Subset DEF RoomsOf
<1>2. \A r \in RoomsOf(h) : r[2] \in (L + 1) .. BestWedth /\ r = <<h, r[2]>>
  BY <1>0 DEF RoomsOf, Rooms
<1>3. CASE L >= BestWedth
  BY <1>0, <1>1, <1>2, <1>3
<1>4. CASE L < BestWedth
  <2> DEFINE f == [r \in RoomsOf(h) |-> r[2]]
             T == (L + 1) .. BestWedth
  <2>1. f \in [RoomsOf(h) -> T]
    BY <1>2
  <2>2. \A a, b \in RoomsOf(h) : f[a] = f[b] => a = b
    BY <1>2
  <2>3. f \in Injection(RoomsOf(h), T)
    BY <2>1, <2>2, Fun_IsInj
  <2>4. IsFiniteSet(T) /\ Cardinality(T) = BestWedth - L
    <3>1. L + 1 \in Int /\ BestWedth \in Int /\ L + 1 <= BestWedth + 1
      BY <1>0, <1>4
    <3>2. IsFiniteSet(T) /\ Cardinality(T) = BestWedth - (L + 1) + 1
      BY <3>1, IntervalSize
    <3> QED
      BY <1>0, <3>2
  <2>5. Cardinality(RoomsOf(h)) <= Cardinality(T)
    BY <2>3, <2>4, FS_Injection
  <2> QED
    BY <1>0, <1>1, <1>4, <2>4, <2>5
<1> QED
  BY <1>0, <1>3, <1>4

\* There is a place for everyone who leaves.
LEMMA PlaceForAll ==
  ASSUME Listed
  PROVE  /\ IsFiniteSet(Leaving) /\ IsFiniteSet(Rooms)
         /\ Cardinality(Leaving) \in Nat /\ Cardinality(Rooms) \in Nat
         /\ Cardinality(Leaving) <= Cardinality(Rooms)
<1> DEFINE Slots == Used \X (1 .. BestWedth)
           Filled == {r \in Slots : r[2] <= Load(start, r[1])}
           Staying == Listing \ Leaving
           Turned(h) == 1 .. Cardinality(StayingOn(h))
           F == [h \in Used |-> CHOOSE f \in Bijection(Turned(h), StayingOn(h)) : TRUE]
           g == [r \in Filled |-> F[r[1]][r[2]]]
<1>1. /\ BestWedth \in Nat /\ IsFiniteSet(Slots)
      /\ Cardinality(Slots) = Cardinality(Used) * BestWedth
  <2>1. BestWedth \in Nat /\ IsFiniteSet(1 .. BestWedth) /\ Cardinality(1 .. BestWedth) = BestWedth
    BY Best, FS_Interval
  <2> QED
    BY <2>1, UsedFinite, FS_Product
<1>2. \A h \in Used : F[h] \in Bijection(Turned(h), StayingOn(h))
  <2> TAKE h \in Used
  <2>1. IsFiniteSet(StayingOn(h))
    BY Shares, SubsetFinite
  <2>2. Bijection(Turned(h), StayingOn(h)) # {}
    BY <2>1, FS_CardinalityType, Fun_ExistsBij
  <2> QED
    BY <2>2
<1>3. \A r \in Filled : r[1] \in Used /\ r[2] \in Turned(r[1]) /\ r = <<r[1], r[2]>>
  <2> TAKE r \in Filled
  <2>1. r[1] \in Used /\ r[2] \in 1 .. BestWedth /\ r[2] <= Load(start, r[1]) /\ r = <<r[1], r[2]>>
    OBVIOUS
  <2>2. Load(start, r[1]) \in Nat
    BY LoadType
  <2>3. r[2] <= Cardinality(StayingOn(r[1])) /\ Cardinality(StayingOn(r[1])) \in Nat
    BY <1>1, <2>1, <2>2, Shares
  <2> QED
    BY <1>1, <2>1, <2>3
<1>4. \A r \in Filled : g[r] \in StayingOn(r[1])
  <2> TAKE r \in Filled
  <2>1. F[r[1]] \in Bijection(Turned(r[1]), StayingOn(r[1])) /\ r[2] \in Turned(r[1])
    BY <1>2, <1>3
  <2>2. g[r] = F[r[1]][r[2]]
    OBVIOUS
  <2> HIDE DEF F, Turned, g
  <2> QED
    BY <2>1, <2>2, Fun_BijectionProperties
<1>5. g \in [Filled -> Staying]
  BY <1>4 DEF StayingOn, On
<1>6. \A a, b \in Filled : g[a] = g[b] => a = b
  <2> SUFFICES ASSUME NEW a \in Filled, NEW b \in Filled, g[a] = g[b] PROVE a = b
    OBVIOUS
  <2>1. a[1] = b[1]
    <3>1. \A h : \A s \in StayingOn(h) : start[s] = h
      BY DEF StayingOn, On
    <3>2. g[a] \in StayingOn(a[1]) /\ g[b] \in StayingOn(b[1])
      BY <1>4
    <3> HIDE DEF g
    <3> QED
      BY <3>1, <3>2
  <2>2. a[2] = b[2]
    <3>1. a[2] \in Turned(a[1]) /\ b[2] \in Turned(a[1]) /\ a[1] \in Used
      BY <1>3, <2>1
    <3>2. F[a[1]][a[2]] = F[a[1]][b[2]]
      BY <2>1
    <3> HIDE DEF F, Turned, g, Filled
    <3> QED
      BY <1>2, <3>1, <3>2, Fun_BijectionProperties
  <2> QED
    BY <1>3, <2>1, <2>2
<1>7. Cardinality(Filled) <= Cardinality(Staying)
  <2>1. g \in Injection(Filled, Staying)
    BY <1>5, <1>6, Fun_IsInj
  <2> QED
    BY <2>1, SubsetFinite, FS_Injection
<1>8. /\ IsFiniteSet(Leaving) /\ Cardinality(Leaving) \in Nat
      /\ Cardinality(Staying) = N - Cardinality(Leaving)
  <2>1. Leaving \in SUBSET Listing /\ Listing \cap Leaving = Leaving
    BY DEF Leaving
  <2> QED
    BY <2>1, SubsetFinite, ListingFinite, FS_Difference
<1>9. /\ IsFiniteSet(Rooms) /\ Cardinality(Rooms) \in Nat
      /\ Cardinality(Rooms) = Cardinality(Slots) - Cardinality(Filled)
      /\ Cardinality(Filled) \in Nat
  <2>1. Rooms = Slots \ Filled /\ Slots \cap Filled = Filled
    <3>1. \A h : Load(start, h) \in Nat
      BY LoadType
    <3> QED
      BY <1>1, <3>1 DEF Rooms
  <2>2. Filled \in SUBSET Slots
    OBVIOUS
  <2> HIDE DEF Slots, Filled
  <2>3. IsFiniteSet(Filled) /\ IsFiniteSet(Rooms)
    BY <1>1, <2>1, <2>2, FS_Subset, FS_Difference
  <2>4. Cardinality(Rooms) = Cardinality(Slots) - Cardinality(Filled)
    <3>1. Cardinality(Slots \ Filled) = Cardinality(Slots) - Cardinality(Slots \cap Filled)
      BY <1>1, FS_Difference
    <3> QED
      BY <2>1, <3>1
  <2> QED
    BY <2>3, <2>4, FS_CardinalityType
<1>10. Cardinality(Slots) >= N /\ Cardinality(Slots) \in Nat
  <2>1. Cardinality(Used) * BestWedth = BestWedth * Cardinality(Used)
    BY <1>1, UsedFinite
  <2> QED
    BY <1>1, <2>1, Best, FS_CardinalityType
<1> HIDE DEF Slots, Filled, Staying
<1> QED
  BY <1>7, <1>8, <1>9, <1>10, CountAssumption

-----------------------------------------------------------------------------
\* The plan.

LEMMA MaxExists ==
  ASSUME NEW S \in SUBSET Nat, NEW b \in Nat, S # {}, \A k \in S : k <= b
  PROVE  \E j \in S : \A k \in S : k <= j
<1> DEFINE T == {b - k : k \in S}
           R == OpToRel(<, Nat)
<1>1. \A k \in S : k \in Nat /\ b - k \in Nat /\ b - k \in T
  OBVIOUS
<1>2. T \subseteq Nat /\ T # {}
  BY <1>1
<1>3. \A x, y \in Nat : <<y, x>> \in R <=> y < x
  BY DEF OpToRel
<1>4. IsWellFoundedOn(R, Nat)
  BY NatLessThanWellFounded, Zenon
<1>5. PICK x \in T : \A y \in T : ~(<<y, x>> \in R)
  <2> HIDE DEF R, T
  <2> QED
    BY <1>2, <1>4, WFMin
<1>6. \A y \in T : ~(y < x)
  <2> HIDE DEF R, T
  <2> QED
    BY <1>2, <1>3, <1>5
<1>7. PICK j \in S : x = b - j
  OBVIOUS
<1> HIDE DEF R, T
<1>8. \A k \in S : ~(b - k < b - j)
  BY <1>1, <1>6, <1>7
<1> QED
  BY <1>1, <1>8

\* Every pair of the two lists is a server that leaves and a place; everyone
\* who leaves is in a pair, nobody twice, and no place is given twice.
LEMMA Lists ==
  ASSUME Listed, NEW vms \in MigrateVMLists, NEW places \in PlaceLists
  PROVE  /\ Pairs(vms, places) = 1 .. Cardinality(Leaving) /\ Cardinality(Leaving) \in Nat
         /\ \A j \in Pairs(vms, places) : vms[j] \in Leaving /\ places[j] \in Rooms
         /\ \A s \in Leaving : \E j \in Pairs(vms, places) : vms[j] = s
         /\ \A j, k \in Pairs(vms, places) : vms[j] = vms[k] \/ places[j] = places[k] => j = k
<1> DEFINE l == Cardinality(Leaving)
           r == Cardinality(Rooms)
<1>1. l \in Nat /\ r \in Nat /\ l <= r
  BY PlaceForAll
<1>2. /\ vms \in [1 .. l -> Leaving]
      /\ \A j, k \in 1 .. l : vms[j] = vms[k] => j = k
      /\ \A s \in Leaving : \E j \in 1 .. l : vms[j] = s
  <2> DEFINE D == 1 .. l
  <2>1. vms \in Bijection(D, Leaving)
    BY DEF MigrateVMLists
  <2> HIDE DEF D
  <2>2. /\ vms \in [D -> Leaving]
        /\ \A j, k \in D : vms[j] = vms[k] => j = k
        /\ \A s \in Leaving : \E j \in D : vms[j] = s
    BY <2>1, Fun_BijectionProperties
  <2> QED
    BY <2>2 DEF D
<1>3. /\ places \in [1 .. r -> Rooms]
      /\ \A j, k \in 1 .. r : places[j] = places[k] => j = k
  <2> DEFINE D == 1 .. r
  <2>1. places \in Bijection(D, Rooms)
    BY DEF PlaceLists
  <2> HIDE DEF D
  <2>2. places \in [D -> Rooms] /\ \A j, k \in D : places[j] = places[k] => j = k
    BY <2>1, Fun_BijectionProperties
  <2> QED
    BY <2>2 DEF D
<1>4. Pairs(vms, places) = 1 .. l /\ 1 .. l \subseteq 1 .. r
  BY <1>1, <1>2, <1>3 DEF Pairs
<1> HIDE DEF l, r
<1> QED
  BY <1>1, <1>2, <1>3, <1>4 DEF l

\* What the plan says of a name comes from a pair with a server of that name.
LEMMA PlanPairs ==
  ASSUME Listed, NEW vms \in MigrateVMLists, NEW places \in PlaceLists
  PROVE  /\ DOMAIN Plan(vms, places) = {name[vms[j]] : j \in Pairs(vms, places)}
         /\ DOMAIN Plan(vms, places) \subseteq Listing
         /\ \A n \in DOMAIN Plan(vms, places) :
              \E j \in Pairs(vms, places) :
                name[vms[j]] = n /\ Plan(vms, places)[n] = places[j][1]
<1> DEFINE P == Pairs(vms, places)
           l == Cardinality(Leaving)
<1>1. /\ l \in Nat /\ P = 1 .. l
      /\ \A j \in P : vms[j] \in Listing
  BY Lists DEF Leaving
<1>2. DOMAIN Plan(vms, places) = {name[vms[j]] : j \in P}
  BY DEF Plan
<1>3. DOMAIN Plan(vms, places) \subseteq Listing
  BY <1>1, <1>2 DEF Listed
<1>4. ASSUME NEW n \in DOMAIN Plan(vms, places)
      PROVE  \E j \in P : name[vms[j]] = n /\ Plan(vms, places)[n] = places[j][1]
  <2> DEFINE S == {j \in P : name[vms[j]] = n}
             Last(j) == name[vms[j]] = n /\ \A k \in P : name[vms[k]] = n => k <= j
  <2>1. S \in SUBSET Nat /\ S # {} /\ \A k \in S : k <= l
    BY <1>1, <1>2, <1>4
  <2>2. \E j \in S : \A k \in S : k <= j
    <3> HIDE DEF S, l
    <3> QED
      BY <1>1, <2>1, MaxExists
  <2>3. \E j \in P : Last(j)
    BY <2>2
  <2>4. Latest(vms, places, n) \in P /\ Last(Latest(vms, places, n))
    BY <2>3 DEF Latest
  <2>5. Plan(vms, places)[n] = places[Latest(vms, places, n)][1]
    BY <1>2, <1>4 DEF Plan
  <2> QED
    BY <2>4, <2>5
<1> QED
  BY <1>2, <1>3, <1>4

Planned == \E vms \in MigrateVMLists, places \in PlaceLists : plan = Plan(vms, places)

\* The plan can be carried out for s.
Assigned(s) == Bearers(name[s]) = {s} /\ name[s] \in DOMAIN plan
AssignedTo(h) == {s \in Listing : Assigned(s) /\ plan[name[s]] = h}

LEMMA PlanType ==
  ASSUME Listed, NEW vms \in MigrateVMLists, NEW places \in PlaceLists
  PROVE  /\ DOMAIN Plan(vms, places) \subseteq Listing
         /\ \A n \in DOMAIN Plan(vms, places) : Plan(vms, places)[n] \in Hypervisors
<1>1. \A j \in Pairs(vms, places) : places[j][1] \in Hypervisors
  BY Lists, UsedFinite DEF Rooms
<1> QED
  BY <1>1, PlanPairs

\* A hypervisor is sent no more servers than it has places, and only servers
\* that have to leave.
LEMMA Arrivals ==
  ASSUME Listed, Planned, NEW h
  PROVE  /\ AssignedTo(h) \in SUBSET Leaving
         /\ Cardinality(AssignedTo(h)) <= Cardinality(RoomsOf(h))
<1>1. PICK vms \in MigrateVMLists, places \in PlaceLists : plan = Plan(vms, places)
  BY DEF Planned
<1> DEFINE P == Pairs(vms, places)
           Takes(s, j) == vms[j] = s /\ plan[name[s]] = places[j][1]
           f == [s \in AssignedTo(h) |-> places[CHOOSE j \in P : Takes(s, j)]]
<1>2. \A s \in AssignedTo(h) : \E j \in P : Takes(s, j)
  <2> TAKE s \in AssignedTo(h)
  <2>1. PICK j \in P : name[vms[j]] = name[s] /\ plan[name[s]] = places[j][1]
    BY <1>1, PlanPairs DEF AssignedTo, Assigned
  <2>2. vms[j] \in Bearers(name[s])
    BY <2>1, Lists DEF Bearers, Leaving
  <2> QED
    BY <2>1, <2>2 DEF AssignedTo, Assigned
<1>3. \A s \in AssignedTo(h) : \E j \in P : Takes(s, j) /\ f[s] = places[j]
  BY <1>2
<1> HIDE DEF f
<1>4. AssignedTo(h) \in SUBSET Leaving
  BY <1>2, Lists
<1>5. f \in [AssignedTo(h) -> RoomsOf(h)]
  <2>1. \A s \in AssignedTo(h) : f[s] \in RoomsOf(h)
    BY <1>3, Lists DEF RoomsOf, AssignedTo
  <2> QED
    BY <2>1 DEF f
<1>6. \A a, b \in AssignedTo(h) : f[a] = f[b] => a = b
  BY <1>3, Lists
<1>7. IsFiniteSet(RoomsOf(h))
  BY Places, FS_Subset
<1>8. f \in Injection(AssignedTo(h), RoomsOf(h))
  BY <1>5, <1>6, Fun_IsInj
<1> QED
  BY <1>4, <1>7, <1>8, FS_Injection

\* With names of their own, all who leave are in the plan.
LEMMA AllAssigned ==
  ASSUME Listed, Planned, \A s, t \in Listing : name[s] = name[t] => s = t,
         NEW s \in Leaving
  PROVE  s \in Listing /\ Assigned(s)
<1>1. PICK vms \in MigrateVMLists, places \in PlaceLists : plan = Plan(vms, places)
  BY DEF Planned
<1>2. PICK j \in Pairs(vms, places) : vms[j] = s
  BY Lists
<1>3. name[s] \in DOMAIN plan
  <2>1. DOMAIN plan = {name[vms[k]] : k \in Pairs(vms, places)}
    BY <1>1, PlanPairs, Zenon
  <2> QED
    BY <1>2, <2>1
<1>4. s \in Listing /\ Bearers(name[s]) = {s}
  BY DEF Leaving, Bearers
<1> QED
  BY <1>3, <1>4 DEF Assigned

-----------------------------------------------------------------------------
\* The run.

\* A server that is not where it was listed was sent where it is.
Moved ==
  \A s \in Listing :
    at[s] # start[s] => Assigned(s) /\ name[s] \notin todo /\ at[s] = plan[name[s]]

IInv ==
  /\ TypeOK
  /\ pc = "run" => Planned
  /\ pc = "plan" => at = start /\ proc \in {"running", "fatal", "killed"}
  /\ Moved

LEMMA InitIInv == Init => IInv
BY PlacementAssumption, NamingAssumption DEF Init, IInv, TypeOK, Moved

LEMMA PlannedStays ==
  ASSUME UNCHANGED <<start, name, plan>>
  PROVE  Planned' = Planned
<1>1. Used' = Used /\ BestWedth' = BestWedth
  BY DEF Used, BestWedth
<1>2. Leaving' = Leaving /\ Rooms' = Rooms
  BY <1>1 DEF Leaving, Turn, Rooms, Load
<1>3. MigrateVMLists' = MigrateVMLists /\ PlaceLists' = PlaceLists
  BY <1>2 DEF MigrateVMLists, PlaceLists, Load
<1>4. \A vms, places : Plan(vms, places)' = Plan(vms, places)
  BY DEF Plan, Latest, Pairs
<1> QED
  BY <1>3, <1>4 DEF Planned

LEMMA StepIInv == IInv /\ [Next]_vars => IInv'
<1> SUFFICES ASSUME IInv, [Next]_vars PROVE IInv'
  OBVIOUS
<1> USE DEF IInv
<1>0. Listed
  BY DEF TypeOK, Listed
<1>1. CASE FindMigration
  <2>1. PICK vms \in MigrateVMLists, places \in PlaceLists : plan' = Plan(vms, places)
    BY <1>1 DEF FindMigration
  <2>2. UNCHANGED <<start, name, at>>
    BY <1>1 DEF FindMigration
  <2>3. Planned'
    <3>1. Used' = Used /\ BestWedth' = BestWedth
      BY <2>2 DEF Used, BestWedth
    <3>2. Leaving' = Leaving /\ Rooms' = Rooms
      BY <2>2, <3>1 DEF Leaving, Turn, Rooms, Load
    <3>3. MigrateVMLists' = MigrateVMLists /\ PlaceLists' = PlaceLists
      BY <2>2, <3>2 DEF MigrateVMLists, PlaceLists, Load
    <3>4. Plan(vms, places)' = Plan(vms, places)
      BY <2>2 DEF Plan, Latest, Pairs
    <3> QED
      BY <2>1, <3>3, <3>4 DEF Planned
  <2>4. Listed' /\ at' = start'
    BY <1>0, <1>1, <2>2 DEF FindMigration, Listed
  <2>5. TypeOK'
    <3>1. DOMAIN plan' \subseteq Listing /\ \A n \in DOMAIN plan' : plan'[n] \in Hypervisors
      BY <1>0, <2>1, PlanType
    <3> QED
      BY <1>1, <3>1 DEF FindMigration, TypeOK
  <2> QED
    BY <1>1, <2>3, <2>4, <2>5 DEF FindMigration, Moved
<1>2. ASSUME NEW n \in todo, Migrate(n) PROVE IInv'
  <2>1. UNCHANGED <<start, name, pc, plan>> /\ pc = "run" /\ proc = "running"
    BY <1>2 DEF Migrate
  <2>2. Planned'
    BY <2>1, PlannedStays
  <2>3. CASE UNCHANGED at
    <3>1. todo' \subseteq todo
      BY <1>2 DEF Migrate
    <3>2. TypeOK'
      BY <1>2, <2>1, <2>3, <3>1 DEF TypeOK, Migrate
    <3>3. Moved'
      BY <2>1, <2>3, <3>1 DEF Moved, Assigned, Bearers
    <3> QED
      BY <2>1, <2>2, <3>2, <3>3
  <2>4. CASE ~UNCHANGED at
    <3>1. /\ Cardinality(Bearers(n)) = 1
          /\ todo' = todo \ {n} /\ exit' \in {exit, 1} /\ UNCHANGED proc
      BY <1>2, <2>4 DEF Migrate
    <3>2. PICK s \in Bearers(n) : at' = [at EXCEPT ![s] = plan[n]]
      BY <1>2, <2>4 DEF Migrate
    <3>3. Bearers(n) = {s} /\ s \in Listing /\ name[s] = n
      <4>1. Bearers(n) \in SUBSET Listing
        BY DEF Bearers
      <4> QED
        BY <3>1, <3>2, <4>1, SubsetFinite, FS_Singleton DEF Bearers
    <3>4. TypeOK'
      <4>1. plan[n] \in Hypervisors
        BY DEF TypeOK
      <4> QED
        BY <2>1, <3>1, <3>2, <3>3, <4>1 DEF TypeOK
    <3>5. Moved'
      BY <2>1, <3>1, <3>2, <3>3 DEF Moved, Assigned, Bearers, TypeOK
    <3> QED
      BY <2>1, <2>2, <3>4, <3>5
  <2> QED
    BY <2>3, <2>4
<1>3. CASE ListFails \/ MainExit \/ Signal \/ UNCHANGED vars
  <2>1. UNCHANGED <<start, name, at, pc, plan, todo>> /\ proc' \in {proc, "fatal", "killed", "clean", "flagged"}
    BY <1>3 DEF ListFails, MainExit, Signal, vars
  <2>2. Planned' = Planned
    BY <2>1, PlannedStays
  <2>3. Moved'
    BY <2>1 DEF Moved, Assigned, Bearers
  <2>4. TypeOK'
    BY <1>3, <2>1 DEF TypeOK, ListFails, MainExit, Signal, vars
  <2> QED
    BY <1>3, <2>1, <2>2, <2>3, <2>4 DEF ListFails, MainExit, Signal, vars
<1> QED
  BY <1>1, <1>2, <1>3 DEF Next, Halted

THEOREM AlwaysIInv == Spec => []IInv
BY InitIInv, StepIInv, PTL DEF Spec

\* The plan is a map from some of the names to hypervisors, whatever order
\* Go's maps and sort give it (rebalance.go:132-162).
THEOREM TypeCorrect == Spec => []TypeOK
BY AlwaysIInv, PTL DEF IInv

-----------------------------------------------------------------------------
\* Where everybody is in the middle of a run.

LEMMA Whereabouts ==
  ASSUME IInv, NEW s \in Listing
  PROVE  /\ at[s] # start[s] => pc = "run" /\ s \in AssignedTo(at[s])
         /\ pc = "run" /\ s \in AssignedTo(at[s]) => s \in Leaving
<1>1. Listed
  BY DEF IInv, TypeOK, Listed
<1>2. pc = "run" => Planned
  BY DEF IInv
<1>3. at[s] # start[s] => pc = "run"
  BY DEF IInv, TypeOK
<1>4. at[s] # start[s] => s \in AssignedTo(at[s])
  BY DEF IInv, Moved, AssignedTo
<1> QED
  BY <1>1, <1>2, <1>3, <1>4, Arrivals

\* A hypervisor that is sent servers ends up with no more than the share,
\* even if it keeps all it has.
LEMMA RoomEnough ==
  ASSUME Listed, Planned, NEW h, NEW S \in SUBSET Listing,
         S \subseteq On(start, h) \cup AssignedTo(h), AssignedTo(h) # {}
  PROVE  Cardinality(S) <= BestWedth
<1> DEFINE A == AssignedTo(h)
           L == Load(start, h)
<1>1. /\ A \in SUBSET Listing /\ IsFiniteSet(A) /\ Cardinality(A) \in Nat
      /\ Cardinality(A) # 0
  <2>1. A \in SUBSET Listing
    BY DEF AssignedTo
  <2> HIDE DEF A
  <2> QED
    BY <2>1, SubsetFinite, FS_EmptySet DEF A
<1>2. L < BestWedth /\ Cardinality(A) <= BestWedth - L
  <2>1. Cardinality(A) <= Cardinality(RoomsOf(h)) /\ IsFiniteSet(RoomsOf(h))
    BY Arrivals, Places, FS_Subset
  <2>2. RoomsOf(h) # {}
    BY <1>1, <2>1, FS_EmptySet
  <2>3. L < BestWedth
    BY <2>2, Places, LoadType, Best
  <2>4. Cardinality(RoomsOf(h)) <= BestWedth - L /\ Cardinality(RoomsOf(h)) \in Nat
    BY <2>1, <2>3, Places, FS_CardinalityType
  <2> QED
    BY <1>1, <2>1, <2>3, <2>4, LoadType, Best
<1>3. Cardinality(S) <= L + Cardinality(A)
  <2> DEFINE O == On(start, h)
  <2>1. IsFiniteSet(O) /\ L = Cardinality(O) /\ L \in Nat
    BY LoadType
  <2> HIDE DEF A, O
  <2>2. /\ IsFiniteSet(O \cup A) /\ IsFiniteSet(O \cap A)
        /\ Cardinality(O \cup A) = Cardinality(O) + Cardinality(A) - Cardinality(O \cap A)
    BY <1>1, <2>1, FS_Union, FS_Intersection
  <2>3. Cardinality(O \cap A) \in Nat
    BY <2>2, FS_CardinalityType
  <2>4. Cardinality(S) <= Cardinality(O \cup A) /\ Cardinality(S) \in Nat
    BY <2>2, FS_Subset, SubsetFinite DEF O, A
  <2> QED
    BY <1>1, <2>1, <2>2, <2>3, <2>4
<1>4. Cardinality(S) \in Nat /\ L \in Nat /\ BestWedth \in Nat
  BY SubsetFinite, LoadType, Best
<1> QED
  BY <1>1, <1>2, <1>3, <1>4

\* One migration that takes place is one that helps.
LEMMA MoveHelps ==
  ASSUME IInv, NEW n \in todo, Migrate(n), NEW s \in Listing, at'[s] # at[s]
  PROVE  Load(at, at[s]) > BestWedth /\ Load(at', at'[s]) <= BestWedth
<1> USE DEF IInv
<1>0. Listed /\ IInv'
  BY StepIInv DEF TypeOK, Listed, Next
<1>1. /\ UNCHANGED <<start, name, pc, plan>> /\ pc = "run" /\ Planned
      /\ Cardinality(Bearers(n)) = 1
  BY DEF Migrate
<1>2. PICK b \in Bearers(n) : at' = [at EXCEPT ![b] = plan[n]]
  BY DEF Migrate
<1>3. /\ s = b /\ at'[s] = plan[n] /\ name[s] = n /\ Bearers(n) = {s}
      /\ at[s] = start[s]
  <2>1. s = b /\ at'[s] = plan[n]
    BY <1>2 DEF TypeOK
  <2>2. Bearers(n) = {s}
    <3>1. Bearers(n) \in SUBSET Listing
      BY DEF Bearers
    <3> QED
      BY <1>1, <1>2, <2>1, <3>1, SubsetFinite, FS_Singleton
  <2>3. name[s] = n
    BY <1>2, <2>1 DEF Bearers
  <2> QED
    BY <2>1, <2>2, <2>3 DEF Moved
<1> DEFINE g == at[s]
           h == plan[n]
<1>4. s \in AssignedTo(h) /\ s \in Leaving
  <2>1. s \in AssignedTo(h)
    BY <1>3 DEF AssignedTo, Assigned, TypeOK
  <2> QED
    BY <1>0, <1>1, <2>1, Arrivals
<1>5. Load(at, g) > BestWedth
  <2> DEFINE G == LeavingOf(g) \ {s}
             O == On(start, g)
             L == Load(start, g)
  <2>1. /\ s \in LeavingOf(g) /\ LeavingOf(g) \in SUBSET O /\ IsFiniteSet(O)
        /\ L = Cardinality(O) /\ L \in Nat /\ BestWedth \in Nat
    BY <1>0, <1>3, <1>4, Shares, LoadType, Best DEF LeavingOf
  <2>2. L > BestWedth /\ Cardinality(LeavingOf(g)) <= L - BestWedth
    BY <1>0, <2>1, Shares
  <2>3. /\ IsFiniteSet(G) /\ Cardinality(G) = Cardinality(LeavingOf(g)) - 1
        /\ Cardinality(LeavingOf(g)) \in Nat
    BY <2>1, FS_Subset, FS_RemoveElement, FS_CardinalityType
  <2>4. O \ G \subseteq On(at, g)
    <3> SUFFICES ASSUME NEW t \in Listing, start[t] = g, t \notin G PROVE at[t] = g
      BY DEF On
    <3>1. CASE t = s
      BY <3>1
    <3>2. CASE t \notin Leaving
      BY <3>2, Whereabouts
    <3> QED
      BY <3>1, <3>2 DEF LeavingOf
  <2> HIDE DEF G, O, L, g
  <2>5. Cardinality(O \ G) = L - Cardinality(G)
    <3>1. O \cap G = G
      BY <2>1 DEF G
    <3>2. Cardinality(O \ G) = Cardinality(O) - Cardinality(O \cap G)
      BY <2>1, FS_Difference
    <3> QED
      BY <2>1, <3>1, <3>2
  <2>6. /\ IsFiniteSet(On(at, g)) /\ Load(at, g) = Cardinality(On(at, g))
        /\ Load(at, g) \in Nat
    BY LoadType
  <2>7. Cardinality(O \ G) <= Load(at, g)
    BY <2>4, <2>6, FS_Subset
  <2> QED
    BY <2>1, <2>2, <2>3, <2>5, <2>6, <2>7
<1>6. Load(at', h) <= BestWedth
  <2>1. On(at', h) \in SUBSET Listing /\ Load(at', h) = Cardinality(On(at', h))
    BY LoadType
  <2>2. On(at', h) \subseteq On(start, h) \cup AssignedTo(h)
    <3> SUFFICES ASSUME NEW t \in Listing, at'[t] = h, start[t] # h PROVE t \in AssignedTo(h)
      BY DEF On
    <3>1. CASE t = s
      BY <1>4, <3>1
    <3>2. CASE t # s
      <4>1. at[t] = h
        BY <1>2, <1>3, <3>2 DEF TypeOK
      <4> QED
        BY <4>1, Whereabouts
    <3> QED
      BY <3>1, <3>2
  <2> QED
    BY <1>0, <1>1, <1>4, <2>1, <2>2, RoomEnough
<1> QED
  BY <1>3, <1>5, <1>6

\* Wherever a rebalance stops, and whichever of its migrations failed, every
\* one that took place left a hypervisor with too many servers for one with
\* too few (rebalance.go:105-181).
THEOREM EveryMoveHelps == Spec => MovesHelp
<1> DEFINE A == \A s \in Listing : at'[s] # at[s] =>
                  /\ Load(at, at[s]) > BestWedth
                  /\ Load(at', at'[s]) <= BestWedth
<1>1. IInv /\ [Next]_vars => [A]_vars
  <2> SUFFICES ASSUME IInv, Next PROVE A
    BY DEF vars
  <2>1. CASE UNCHANGED at
    BY <2>1
  <2>2. ASSUME NEW n \in todo, Migrate(n) PROVE A
    BY <2>2, MoveHelps
  <2> QED
    BY <2>1, <2>2 DEF Next, ListFails, FindMigration, MainExit, Signal, Halted, vars
<1> QED
  BY <1>1, AlwaysIInv, PTL DEF Spec, MovesHelp

\* A plan that was carried out leaves no hypervisor above the least even
\* share, for any number of servers (rebalance.go:96-162).
THEOREM PlanBalances == Spec => []Balanced
<1>1. IInv => Balanced
  <2> SUFFICES ASSUME IInv, proc \in {"clean", "flagged"},
                      \A s, t \in Listing : name[s] = name[t] => s = t,
                      \A n \in DOMAIN plan : \A s \in Bearers(n) : at[s] = plan[n],
                      NEW h \in Hypervisors, NEW t \in 1 .. N, Share(t)
               PROVE  Load(at, h) <= t
    BY DEF Balanced
  <2>1. Listed /\ Planned /\ pc = "run"
    BY DEF IInv, TypeOK, Listed
  <2>2. \A s \in Leaving : s \in AssignedTo(at[s])
    <3> TAKE s \in Leaving
    <3>1. s \in Listing /\ Assigned(s)
      BY <2>1, AllAssigned
    <3>2. at[s] = plan[name[s]]
      BY <3>1 DEF Assigned
    <3> QED
      BY <3>1, <3>2 DEF AssignedTo
  <2>3. On(at, h) \subseteq StayingOn(h) \cup AssignedTo(h)
    <3> SUFFICES ASSUME NEW s \in Listing, at[s] = h, s \notin AssignedTo(h)
                 PROVE  start[s] = h /\ s \notin Leaving
      BY DEF On, StayingOn
    <3> QED
      BY <2>2, Whereabouts
  <2>4. Load(at, h) <= BestWedth
    <3>1. On(at, h) \in SUBSET Listing /\ Load(at, h) = Cardinality(On(at, h)) /\ Load(at, h) \in Nat
      BY LoadType
    <3>2. CASE AssignedTo(h) = {}
      <4>1. IsFiniteSet(StayingOn(h)) /\ Cardinality(StayingOn(h)) <= BestWedth
        BY <2>1, Shares, SubsetFinite, LoadType, Best
      <4>2. Cardinality(On(at, h)) <= Cardinality(StayingOn(h)) /\ Cardinality(StayingOn(h)) \in Nat
        BY <2>3, <3>2, <4>1, FS_Subset, FS_CardinalityType
      <4> QED
        BY <2>1, <3>1, <4>1, <4>2, Best
    <3>3. CASE AssignedTo(h) # {}
      BY <2>1, <2>3, <3>1, <3>3, RoomEnough DEF StayingOn
    <3> QED
      BY <3>2, <3>3
  <2>5. BestWedth <= t /\ BestWedth \in Nat /\ t \in Nat
    BY <2>1, Best, CountAssumption
  <2> QED
    BY <2>4, <2>5, LoadType
<1> QED
  BY <1>1, AlwaysIInv, PTL
=============================================================================
