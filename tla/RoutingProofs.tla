---------------------------- MODULE RoutingProofs ----------------------------
(***************************************************************************)
(* The cluster manager, the rules of a configuration and the choice of a   *)
(* host, for any number of requests, clusters, endpoints and changes of    *)
(* these, any configurations and any answers of the metadata center.       *)
(***************************************************************************)
EXTENDS Routing, FiniteSets, FiniteSetsExt, FiniteSetTheorems, FunctionTheorems, TLAPS

-----------------------------------------------------------------------------
\* Finite sets in order: the code takes the first n of the sorted hosts, the
\* largest and the smallest of a list, and the first rule that matches.  None
\* of it follows from the library without an induction the provers cannot
\* instantiate; all of it follows from counting what comes before an element.

\* R is a strict total order on S, given as a set of pairs.
StrictOrder(R, S) ==
    /\ \A x \in S : <<x, x>> \notin R
    /\ \A x, y, z \in S : <<x, y>> \in R /\ <<y, z>> \in R => <<x, z>> \in R
    /\ \A x, y \in S : x # y => <<x, y>> \in R \/ <<y, x>> \in R

Before(R, S, x) == {y \in S : <<y, x>> \in R}

\* Every place in the order is taken.
EveryRank(R, S) ==
    \A k \in 0 .. Cardinality(S) - 1 : \E x \in S : Cardinality(Before(R, S, x)) = k

\* In a finite set in strict order there is, for every k less than the number
\* of its elements, one that exactly k others come before: what indexing a
\* sorted slice relies on.
LEMMA Ranked ==
    ASSUME NEW S, IsFiniteSet(S), NEW R, StrictOrder(R, S)
    PROVE  EveryRank(R, S)
<1> SUFFICES ASSUME NEW k \in 0 .. Cardinality(S) - 1
             PROVE  \E x \in S : Cardinality(Before(R, S, x)) = k
    BY DEF EveryRank
<1> DEFINE n == Cardinality(S)
           T == 0 .. n - 1
           rank == [x \in S |-> Cardinality(Before(R, S, x))]
<1>1. n \in Nat
    BY FS_CardinalityType
<1>2. ASSUME NEW x \in S
      PROVE  /\ IsFiniteSet(Before(R, S, x))
             /\ Cardinality(Before(R, S, x)) \in T
    <2>1. /\ Before(R, S, x) \in SUBSET S
          /\ Before(R, S, x) # S
        BY DEF Before, StrictOrder
    <2>2. /\ IsFiniteSet(Before(R, S, x))
          /\ Cardinality(Before(R, S, x)) <= n
          /\ Cardinality(S) # Cardinality(Before(R, S, x))
        BY <2>1, FS_Subset
    <2>3. Cardinality(Before(R, S, x)) \in Nat
        BY <2>2, FS_CardinalityType
    <2>4. QED
        BY <1>1, <2>2, <2>3
<1>3. ASSUME NEW x \in S, NEW y \in S, <<x, y>> \in R
      PROVE  Cardinality(Before(R, S, x)) < Cardinality(Before(R, S, y))
    <2>1. /\ Before(R, S, x) \in SUBSET Before(R, S, y)
          /\ x \in Before(R, S, y) /\ x \notin Before(R, S, x)
        BY <1>3 DEF Before, StrictOrder
    <2>2. /\ Cardinality(Before(R, S, x)) <= Cardinality(Before(R, S, y))
          /\ Cardinality(Before(R, S, y)) # Cardinality(Before(R, S, x))
        BY <1>2, <2>1, FS_Subset
    <2>3. QED
        BY <1>1, <1>2, <2>2
<1>4. rank \in [S -> T]
    BY <1>2
<1>5. \A x, y \in S : rank[x] = rank[y] => x = y
    <2>1. SUFFICES ASSUME NEW x \in S, NEW y \in S, x # y
                   PROVE  rank[x] # rank[y]
        OBVIOUS
    <2>2. <<x, y>> \in R \/ <<y, x>> \in R
        BY <2>1 DEF StrictOrder
    <2>3. rank[x] \in Int /\ rank[y] \in Int
        BY <1>1, <1>4
    <2>4. rank[x] < rank[y] \/ rank[y] < rank[x]
        BY <1>3, <2>2
    <2>5. QED
        BY <2>3, <2>4
<1>6. rank \in Injection(S, T)
    BY <1>4, <1>5, Fun_IsInj
<1>7. IsFiniteSet(T) /\ Cardinality(T) = n
    BY <1>1, FS_Interval
<1>8. rank \in Surjection(S, T)
    BY <1>6, <1>7, FS_Injection
<1>k. k \in T
    OBVIOUS
<1> HIDE DEF rank, T
<1>9. PICK x \in S : rank[x] = k
    <2>1. \A t \in T : \E s \in S : rank[s] = t
        BY <1>8, Fun_SurjectionProperties
    <2>2. QED
        BY <1>k, <2>1
<1>10. rank[x] = Cardinality(Before(R, S, x))
    BY DEF rank
<1>11. QED
    BY <1>9, <1>10

\* The k-th smallest of a finite set of integers.
LEMMA NthInteger ==
    ASSUME NEW S \in SUBSET Int, IsFiniteSet(S), NEW k \in 0 .. Cardinality(S) - 1
    PROVE  \E x \in S : Cardinality({y \in S : y < x}) = k
<1> DEFINE R == {p \in S \X S : p[1] < p[2]}
<1>1. \A x, y \in S : <<x, y>> \in R <=> x < y
    OBVIOUS
<1>2. StrictOrder(R, S)
    <2> HIDE DEF R
    <2>1. QED
        BY <1>1 DEF StrictOrder
<1> HIDE DEF R
<1>3. PICK x \in S : Cardinality(Before(R, S, x)) = k
    <2>1. EveryRank(R, S)
        BY <1>2, Ranked
    <2>2. QED
        BY <2>1 DEF EveryRank
<1>4. Before(R, S, x) = {y \in S : y < x}
    BY <1>1 DEF Before
<1>5. QED
    BY <1>3, <1>4

\* A finite set of integers that is not empty has a least and a greatest
\* element, and these are Min and Max.
LEMMA MinMax ==
    ASSUME NEW S \in SUBSET Int, IsFiniteSet(S), S # {}
    PROVE  /\ Min(S) \in S /\ \A y \in S : Min(S) <= y
           /\ Max(S) \in S /\ \A y \in S : Max(S) >= y
<1> DEFINE n == Cardinality(S)
<1>1. n \in Nat /\ n # 0
    BY FS_CardinalityType, FS_EmptySet
<1>2. \E x \in S : \A y \in S : x <= y
    <2>1. PICK x \in S : Cardinality({y \in S : y < x}) = 0
        BY <1>1, NthInteger
    <2>2. IsFiniteSet({y \in S : y < x})
        BY FS_Subset
    <2>3. {y \in S : y < x} = {}
        BY <2>1, <2>2, FS_EmptySet
    <2>4. QED
        BY <2>3
<1>3. \E x \in S : \A y \in S : x >= y
    <2> DEFINE R == {p \in S \X S : p[1] > p[2]}
    <2>1. \A x, y \in S : <<x, y>> \in R <=> x > y
        OBVIOUS
    <2> HIDE DEF R
    <2>2. StrictOrder(R, S)
        BY <2>1 DEF StrictOrder
    <2>3. PICK x \in S : Cardinality(Before(R, S, x)) = 0
        <3>1. EveryRank(R, S)
            BY <2>2, Ranked
        <3>2. QED
            BY <1>1, <3>1 DEF EveryRank
    <2>4. IsFiniteSet(Before(R, S, x))
        BY FS_Subset DEF Before
    <2>5. Before(R, S, x) = {}
        BY <2>3, <2>4, FS_EmptySet
    <2>6. \A y \in S : ~(y > x)
        BY <2>1, <2>5 DEF Before
    <2>7. QED
        BY <2>6
<1>4. Min(S) \in S /\ \A y \in S : Min(S) <= y
    BY <1>2 DEF Min
<1>5. Max(S) \in S /\ \A y \in S : Max(S) >= y
    BY <1>3 DEF Max
<1>6. QED
    BY <1>4, <1>5

\* Of the elements of a finite set, the n with the highest score: there is
\* such a set for every n, whatever elements have the same score.
LEMMA Best ==
    ASSUME NEW S, IsFiniteSet(S), NEW score \in [S -> Int], NEW n \in 0 .. Cardinality(S)
    PROVE  \E C \in SUBSET S :
              /\ Cardinality(C) = n
              /\ \A c \in C, o \in S \ C : score[c] >= score[o]
<1> DEFINE N == Cardinality(S)
<1>1. N \in Nat
    BY FS_CardinalityType
<1>2. PICK place : place \in Injection(S, 1 .. N)
    <2>1. PICK f : f \in Bijection(1 .. N, S)
        BY FS_CardinalityType DEF ExistsBijection
    <2>2. f \in Surjection(1 .. N, S)
        BY <2>1, Fun_BijectionProperties
    <2>3. Inverse(f, 1 .. N, S) \in Injection(S, 1 .. N)
        BY <2>2, Fun_SurjInverse
    <2>4. QED
        BY <2>3
<1> HIDE DEF N
<1>3. /\ place \in [S -> 1 .. N]
      /\ \A a, b \in S : place[a] = place[b] => a = b
    <2> DEFINE T == 1 .. N
    <2>1. place \in Injection(S, T)
        BY <1>2
    <2> HIDE DEF T
    <2>2. place \in [S -> T] /\ \A a, b \in S : place[a] = place[b] => a = b
        BY <2>1, Fun_InjectionProperties
    <2>3. QED
        BY <2>2 DEF T
<1>4. \A x \in S : place[x] \in Int /\ score[x] \in Int
    BY <1>1, <1>3
<1> DEFINE R == {p \in S \X S : \/ score[p[1]] > score[p[2]]
                                \/ score[p[1]] = score[p[2]] /\ place[p[1]] < place[p[2]]}
<1>5. \A x, y \in S : <<x, y>> \in R <=> \/ score[x] > score[y]
                                         \/ score[x] = score[y] /\ place[x] < place[y]
    OBVIOUS
<1> HIDE DEF R
<1>6. StrictOrder(R, S)
    <2>1. \A x \in S : <<x, x>> \notin R
        BY <1>4, <1>5
    <2>2. ASSUME NEW x \in S, NEW y \in S, NEW z \in S, <<x, y>> \in R, <<y, z>> \in R
          PROVE  <<x, z>> \in R
        <3>1. /\ score[x] > score[y] \/ (score[x] = score[y] /\ place[x] < place[y])
              /\ score[y] > score[z] \/ (score[y] = score[z] /\ place[y] < place[z])
            BY <1>5, <2>2
        <3>2. score[x] > score[z] \/ (score[x] = score[z] /\ place[x] < place[z])
            BY <1>4, <3>1
        <3>3. QED
            BY <1>5, <3>2
    <2>3. ASSUME NEW x \in S, NEW y \in S, x # y
          PROVE  <<x, y>> \in R \/ <<y, x>> \in R
        <3>1. place[x] # place[y]
            BY <1>3, <2>3
        <3>2. QED
            BY <1>4, <1>5, <3>1
    <2>4. QED
        BY <2>1, <2>2, <2>3 DEF StrictOrder
<1>7. CASE n = N
    BY <1>7 DEF N
<1>8. CASE n # N
    <2>1. n \in 0 .. N - 1
        BY <1>1, <1>8 DEF N
    <2>2. PICK x \in S : Cardinality(Before(R, S, x)) = n
        <3>1. EveryRank(R, S)
            BY <1>6, Ranked
        <3>2. QED
            BY <2>1, <3>1 DEF EveryRank, N
    <2>3. ASSUME NEW c \in Before(R, S, x), NEW o \in S \ Before(R, S, x)
          PROVE  score[c] >= score[o]
        <3>1. c \in S /\ o \in S /\ <<c, x>> \in R /\ <<o, x>> \notin R
            BY DEF Before
        <3>2. score[c] >= score[x] /\ ~(score[o] > score[x])
            BY <1>4, <1>5, <3>1
        <3>3. QED
            BY <1>4, <3>1, <3>2
    <2>4. Before(R, S, x) \in SUBSET S
        BY DEF Before
    <2>5. QED
        BY <2>2, <2>3, <2>4
<1>9. QED
    BY <1>7, <1>8

-----------------------------------------------------------------------------
\* The values of a function on a finite set.
LEMMA Values ==
    ASSUME NEW S, IsFiniteSet(S), NEW f \in [S -> Int]
    PROVE  /\ IsFiniteSet({f[x] : x \in S})
           /\ {f[x] : x \in S} \in SUBSET Int
<1> DEFINE T == {f[x] : x \in S}
<1>1. f \in [S -> T] /\ \A t \in T : \E s \in S : f[s] = t
    OBVIOUS
<1>2. f \in Surjection(S, T)
    BY <1>1, Fun_IsSurj
<1>3. IsFiniteSet(T)
    BY <1>2, FS_Surjection
<1>4. QED
    BY <1>3

\* The least and the greatest of two numbers.
LEMMA OfTwo ==
    ASSUME NEW a \in Int, NEW b \in Int
    PROVE  /\ Min({a, b}) = IF a <= b THEN a ELSE b
           /\ Max({a, b}) = IF a >= b THEN a ELSE b
<1>1. {a, b} \in SUBSET Int /\ {a, b} # {}
    OBVIOUS
<1>2. IsFiniteSet({a, b})
    <2>1. IsFiniteSet({a}) /\ {a, b} = {a} \cup {b}
        BY FS_Singleton
    <2>2. QED
        BY <2>1, FS_AddElement
<1>3. /\ Min({a, b}) \in {a, b} /\ \A y \in {a, b} : Min({a, b}) <= y
      /\ Max({a, b}) \in {a, b} /\ \A y \in {a, b} : Max({a, b}) >= y
    BY <1>1, <1>2, MinMax
<1>4. PICK m : m = Min({a, b})
    OBVIOUS
<1>5. PICK M : M = Max({a, b})
    OBVIOUS
<1>6. (m = a \/ m = b) /\ m <= a /\ m <= b /\ (M = a \/ M = b) /\ M >= a /\ M >= b
    BY <1>3, <1>4, <1>5
<1>7. m = (IF a <= b THEN a ELSE b) /\ M = (IF a >= b THEN a ELSE b)
    BY <1>6
<1>8. QED
    BY <1>4, <1>5, <1>7

LEMMA ProductSign ==
    ASSUME NEW a \in Int, NEW b \in Int, a >= 0, b >= 0
    PROVE  a * b \in Int /\ a * b >= 0 /\ (a > 0 /\ b > 0 => a * b > 0)
    BY SMT

\* A weighted difference of four factors.
LEMMA WeightedGap ==
    ASSUME NEW w \in Int, NEW x \in Int, NEW y \in Int, NEW c \in Int, NEW d \in Int,
           w >= 0, x >= y, c > 0, d > 0
    PROVE  /\ w * x * c * d \in Int /\ w * y * c * d \in Int
           /\ w * x * c * d >= w * y * c * d
           /\ w > 0 /\ x > y => w * x * c * d > w * y * c * d
<1>1. PICK g \in Int : g = x - y /\ g >= 0 /\ (x > y => g > 0)
    OBVIOUS
<1>2. PICK u \in Int : u = w * g /\ u >= 0 /\ (w > 0 /\ x > y => u > 0)
    BY <1>1, ProductSign
<1>3. PICK v \in Int : v = u * c /\ v >= 0 /\ (w > 0 /\ x > y => v > 0)
    BY <1>2, ProductSign
<1>4. PICK z \in Int : z = v * d /\ z >= 0 /\ (w > 0 /\ x > y => z > 0)
    BY <1>3, ProductSign
<1>5. w * x = w * y + u
    BY <1>1, <1>2
<1>6. w * x * c = w * y * c + v
    BY <1>3, <1>5
<1>7. w * x * c * d = w * y * c * d + z
    BY <1>4, <1>6
<1>8. w * x * c * d \in Int /\ w * y * c * d \in Int
    OBVIOUS
<1>9. QED
    BY <1>4, <1>7, <1>8

-----------------------------------------------------------------------------
\* The steps of a request, field by field.

Fields == {"pc", "in", "cfg", "hosts", "data", "load", "hit", "host", "out"}

Shape == DOMAIN req = Requests /\ \A r \in Requests : DOMAIN req[r] = Fields

\* No other request is touched.
Others(r) == \A s \in Requests : s # r => req'[s] = req[s]

\* What the request asked for, and how it was understood, stays.
SameRequest(r) ==
    /\ req'[r].in = req[r].in
    /\ req'[r].cfg = req[r].cfg
    /\ req'[r].data = req[r].data

SameChoice(r) ==
    /\ req'[r].load = req[r].load
    /\ req'[r].hit = req[r].hit

LEMMA GoEffect ==
    ASSUME Shape, NEW r \in Requests, NEW p, Go(r, p)
    PROVE  /\ Shape' /\ Others(r) /\ SameRequest(r) /\ SameChoice(r)
           /\ req'[r].pc = p /\ req'[r].hosts = req[r].hosts /\ req'[r].host = req[r].host
    BY DEF Shape, Fields, Go, Others, SameRequest, SameChoice

LEMMA RefuseEffect ==
    ASSUME Shape, NEW r \in Requests, NEW code, Refuse(r, code)
    PROVE  /\ Shape' /\ Others(r) /\ SameRequest(r) /\ SameChoice(r)
           /\ req'[r].pc = "done" /\ req'[r].hosts = req[r].hosts /\ req'[r].host = req[r].host
    BY DEF Shape, Fields, Refuse, Others, SameRequest, SameChoice

GoWithHosts(r, p, hosts) == req' = [req EXCEPT ![r].pc = p, ![r].hosts = hosts]

LEMMA HostsEffect ==
    ASSUME Shape, NEW r \in Requests, NEW p, NEW hosts, GoWithHosts(r, p, hosts)
    PROVE  /\ Shape' /\ Others(r) /\ SameRequest(r) /\ SameChoice(r)
           /\ req'[r].pc = p /\ req'[r].hosts = hosts /\ req'[r].host = req[r].host
    BY DEF GoWithHosts, Shape, Fields, Others, SameRequest, SameChoice

GoWithHost(r, h) == req' = [req EXCEPT ![r].pc = "override", ![r].host = h]

LEMMA HostEffect ==
    ASSUME Shape, NEW r \in Requests, NEW h, GoWithHost(r, h)
    PROVE  /\ Shape' /\ Others(r) /\ SameRequest(r) /\ SameChoice(r)
           /\ req'[r].pc = "override" /\ req'[r].hosts = req[r].hosts /\ req'[r].host = h
    BY DEF GoWithHost, Shape, Fields, Others, SameRequest, SameChoice

GoWithStats(r, load, hit) ==
    req' = [req EXCEPT ![r] = [@ EXCEPT !.pc = "choose", !.load = load, !.hit = hit]]

LEMMA StatsEffect ==
    ASSUME Shape, NEW r \in Requests, NEW load, NEW hit, GoWithStats(r, load, hit)
    PROVE  /\ Shape' /\ Others(r) /\ SameRequest(r)
           /\ req'[r].load = load /\ req'[r].hit = hit
           /\ req'[r].pc = "choose" /\ req'[r].hosts = req[r].hosts
    BY DEF GoWithStats, Shape, Fields, Others, SameRequest

LEMMA DecodeEffect ==
    ASSUME Shape, NEW r \in Requests, NEW in, DecodeRequest(r, in)
    PROVE  /\ Shape' /\ Others(r)
           /\ req'[r].in = in /\ req'[r].cfg = cfg /\ req'[r].data = GetRequestData(cfg, in)
           /\ req'[r].pc \in {"load", "done"} /\ req'[r].hosts = req[r].hosts
    BY DEF DecodeRequest, Shape, Fields, Others

-----------------------------------------------------------------------------
\* The cluster manager.

\* clusters maps names to a host set and the LB instances made so far.
MapInv ==
    \A c \in DOMAIN clusters : /\ DOMAIN clusters[c] = {"hosts", "lbs"}
                               /\ DOMAIN clusters[c].lbs \subseteq LbFactories

\* Whoever creates a cluster holds the lock, and the cluster is not there.
LockInv ==
    \A r \in Requests : req[r].pc \in {"create", "watch", "store"} =>
        mux = r /\ ClusterOf(r) \notin DOMAIN clusters

\* A cluster is looked into only once it is stored.
StoredInv ==
    \A r \in Requests : req[r].pc = "next" => ClusterOf(r) \in DOMAIN clusters

\* A cluster is watched before it is stored, and the provider knows it.
WatchedInv ==
    /\ DOMAIN info = DOMAIN Provided
    /\ DOMAIN clusters \subseteq watched \cap DOMAIN info
    /\ \A r \in Requests :
          /\ req[r].pc \in {"watch", "store"} => ClusterOf(r) \in DOMAIN info
          /\ req[r].pc = "store" => ClusterOf(r) \in watched

\* Unless there was a change in between, the hosts on their way from
\* GetClusterInfo to the first LB instance are the provider's.
FreshInv ==
    /\ \A r \in Requests :
          req[r].pc \in {"watch", "store"} /\ ClusterOf(r) \notin raced
            => req[r].hosts = info[ClusterOf(r)]
    /\ \A c \in DOMAIN clusters \ raced :
          DOMAIN clusters[c].lbs = {} => clusters[c].hosts = info[c]

ManagerInv ==
    Shape /\ MapInv /\ LockInv /\ StoredInv /\ WatchedInv /\ FreshInv /\ StaleOnlyIfRaced

\* New LB instances for one cluster.
LEMMA LbsEffect ==
    ASSUME MapInv, NEW c \in DOMAIN clusters, NEW lbs,
           clusters' = [clusters EXCEPT ![c].lbs = lbs]
    PROVE  /\ DOMAIN clusters' = DOMAIN clusters
           /\ DOMAIN clusters'[c] = {"hosts", "lbs"}
           /\ clusters'[c].lbs = lbs /\ clusters'[c].hosts = clusters[c].hosts
           /\ \A d \in DOMAIN clusters : d # c => clusters'[d] = clusters[d]
    BY DEF MapInv

\* A step of r that leaves the manager's maps alone: it may let go of the
\* lock unless it goes on creating.
LEMMA QuietStep ==
    ASSUME ManagerInv, NEW r \in Requests, Shape', Others(r),
           UNCHANGED <<info, watched, clusters, raced>>,
           req'[r].pc \notin {"create", "watch", "store"},
           req'[r].pc = "next" => ClusterOf(r)' \in DOMAIN clusters,
           mux' = mux \/ mux = r
    PROVE  ManagerInv'
<1>1. \A s \in Requests : s # r => req'[s] = req[s] /\ ClusterOf(s)' = ClusterOf(s)
    BY DEF Others, ClusterOf
<1>2. MapInv' /\ StaleOnlyIfRaced'
    BY DEF ManagerInv, MapInv, StaleOnlyIfRaced
<1>3. LockInv'
    BY <1>1 DEF ManagerInv, LockInv
<1>4. StoredInv'
    BY <1>1 DEF ManagerInv, StoredInv
<1>5. WatchedInv'
    BY <1>1 DEF ManagerInv, WatchedInv
<1>6. FreshInv'
    BY <1>1 DEF ManagerInv, FreshInv
<1>7. QED
    BY <1>2, <1>3, <1>4, <1>5, <1>6 DEF ManagerInv

LEMMA LockStep ==
    ASSUME ManagerInv, NEW r \in Requests, LockManager(r)
    PROVE  ManagerInv'
<1>1. /\ req[r].pc = "lock" /\ mux = NoRequest /\ mux' = r
      /\ Go(r, AfterLock(r)) /\ UNCHANGED <<info, watched, clusters, raced>>
    BY DEF LockManager, manager
<1>2. /\ Shape' /\ Others(r) /\ SameRequest(r)
      /\ req'[r].pc = AfterLock(r)
    BY <1>1, GoEffect DEF ManagerInv
<1>3. /\ \A s \in Requests : s # r => req'[s] = req[s]
      /\ \A s \in Requests : ClusterOf(s)' = ClusterOf(s)
    BY <1>2 DEF Others, SameRequest, ClusterOf
<1>4. \A s \in Requests : req[s].pc \notin {"create", "watch", "store"}
    BY <1>1, RoutingConstants DEF ManagerInv, LockInv, RoutingConstants
<1>5. req'[r].pc = "next" => ClusterOf(r) \in DOMAIN clusters
    BY <1>2 DEF AfterLock, Stored
<1>6. req'[r].pc \in {"next", "create"} /\ (req'[r].pc = "create" => ClusterOf(r) \notin DOMAIN clusters)
    BY <1>2 DEF AfterLock, Stored
<1>7. MapInv' /\ StaleOnlyIfRaced'
    BY <1>1 DEF ManagerInv, MapInv, StaleOnlyIfRaced
<1>8. LockInv'
    BY <1>1, <1>3, <1>4, <1>6 DEF LockInv
<1>9. StoredInv'
    BY <1>1, <1>3, <1>5 DEF ManagerInv, StoredInv
<1>10. WatchedInv' /\ FreshInv'
    BY <1>1, <1>3, <1>4, <1>6 DEF ManagerInv, WatchedInv, FreshInv
<1>11. QED
    BY <1>2, <1>7, <1>8, <1>9, <1>10 DEF ManagerInv

LEMMA InfoStep ==
    ASSUME ManagerInv, NEW r \in Requests, GetClusterInfo(r)
    PROVE  ManagerInv'
<1> DEFINE c == ClusterOf(r)
<1>1. /\ req[r].pc = "create" /\ Endpoints(c) # {}
      /\ GoWithHosts(r, "watch", Endpoints(c))
      /\ UNCHANGED <<info, watched, clusters, raced, mux>>
    BY DEF GetClusterInfo, manager, GoWithHosts
<1>2. /\ Shape' /\ Others(r) /\ SameRequest(r)
      /\ req'[r].pc = "watch" /\ req'[r].hosts = Endpoints(c)
    BY <1>1, HostsEffect DEF ManagerInv
<1>3. /\ \A s \in Requests : s # r => req'[s] = req[s]
      /\ \A s \in Requests : ClusterOf(s)' = ClusterOf(s)
    BY <1>2 DEF Others, SameRequest, ClusterOf
<1>4. c \in DOMAIN info /\ req'[r].hosts = info[c]
    BY <1>1, <1>2 DEF Endpoints
<1>5. MapInv' /\ StaleOnlyIfRaced'
    BY <1>1 DEF ManagerInv, MapInv, StaleOnlyIfRaced
<1>6. LockInv' /\ StoredInv'
    BY <1>1, <1>2, <1>3 DEF ManagerInv, LockInv, StoredInv
<1>7. WatchedInv'
    BY <1>1, <1>2, <1>3, <1>4 DEF ManagerInv, WatchedInv
<1>8. FreshInv'
    BY <1>1, <1>2, <1>3, <1>4 DEF ManagerInv, FreshInv
<1>9. QED
    BY <1>2, <1>5, <1>6, <1>7, <1>8 DEF ManagerInv

\* What the provider notifies of at once finds no cluster to update.
LEMMA WatchStep ==
    ASSUME ManagerInv, NEW r \in Requests, WatchCluster(r)
    PROVE  ManagerInv' /\ UNCHANGED clusters
<1> DEFINE c == ClusterOf(r)
<1>1. /\ req[r].pc = "watch" /\ watched' = watched \cup {c}
      /\ clusters' = updateServers(c, Endpoints(c)) /\ Go(r, "store")
      /\ UNCHANGED <<info, raced, mux>>
    BY DEF WatchCluster
<1>2. c \notin DOMAIN clusters
    BY <1>1 DEF ManagerInv, LockInv
<1>3. clusters' = clusters
    BY <1>1, <1>2 DEF updateServers
<1>4. /\ Shape' /\ Others(r) /\ SameRequest(r)
      /\ req'[r].pc = "store" /\ req'[r].hosts = req[r].hosts
    BY <1>1, GoEffect DEF ManagerInv
<1>5. /\ \A s \in Requests : s # r => req'[s] = req[s]
      /\ \A s \in Requests : ClusterOf(s)' = ClusterOf(s)
    BY <1>4 DEF Others, SameRequest, ClusterOf
<1>6. MapInv' /\ StaleOnlyIfRaced'
    BY <1>1, <1>3 DEF ManagerInv, MapInv, StaleOnlyIfRaced
<1>7. LockInv' /\ StoredInv'
    BY <1>1, <1>3, <1>4, <1>5 DEF ManagerInv, LockInv, StoredInv
<1>8. WatchedInv'
    BY <1>1, <1>3, <1>4, <1>5 DEF ManagerInv, WatchedInv
<1>9. FreshInv'
    BY <1>1, <1>3, <1>4, <1>5 DEF ManagerInv, FreshInv
<1>10. QED
    BY <1>3, <1>4, <1>6, <1>7, <1>8, <1>9 DEF ManagerInv

\* The cluster is stored: it was not there, and nobody else is creating one.
LEMMA StoreStep ==
    ASSUME ManagerInv, NEW r \in Requests, StoreCluster(r)
    PROVE  /\ ManagerInv'
           /\ ClusterOf(r) \notin DOMAIN clusters
           /\ DOMAIN clusters' = DOMAIN clusters \cup {ClusterOf(r)}
           /\ \A d \in DOMAIN clusters : clusters'[d] = clusters[d]
<1> DEFINE c == ClusterOf(r)
<1>1. /\ req[r].pc = "store"
      /\ clusters' = Put(clusters, c, NewCluster(req[r].hosts)) /\ Go(r, "next")
      /\ UNCHANGED <<info, watched, raced, mux>>
    BY DEF StoreCluster
<1>2. c \notin DOMAIN clusters /\ mux = r /\ c \in DOMAIN info /\ c \in watched
    BY <1>1 DEF ManagerInv, LockInv, WatchedInv
<1>3. /\ DOMAIN clusters' = DOMAIN clusters \cup {c}
      /\ clusters'[c] = NewCluster(req[r].hosts)
      /\ \A d \in DOMAIN clusters : clusters'[d] = clusters[d]
    BY <1>1, <1>2 DEF Put
<1>4. /\ DOMAIN clusters'[c] = {"hosts", "lbs"}
      /\ clusters'[c].hosts = req[r].hosts /\ DOMAIN clusters'[c].lbs = {}
    <2>1. DOMAIN <<>> = {}
        OBVIOUS
    <2>2. QED
        BY <1>3, <2>1 DEF NewCluster
<1>5. /\ Shape' /\ Others(r) /\ SameRequest(r)
      /\ req'[r].pc = "next"
    BY <1>1, GoEffect DEF ManagerInv
<1>6. /\ \A s \in Requests : s # r => req'[s] = req[s]
      /\ \A s \in Requests : ClusterOf(s)' = ClusterOf(s)
    BY <1>5 DEF Others, SameRequest, ClusterOf
<1>7. \A s \in Requests : req'[s].pc \notin {"create", "watch", "store"}
    BY <1>2, <1>5, <1>6 DEF ManagerInv, LockInv
<1>8. MapInv'
    BY <1>3, <1>4 DEF ManagerInv, MapInv
<1>9. StaleOnlyIfRaced'
    BY <1>1, <1>3, <1>4 DEF ManagerInv, StaleOnlyIfRaced
<1>10. LockInv' /\ StoredInv'
    BY <1>3, <1>5, <1>6, <1>7 DEF ManagerInv, LockInv, StoredInv
<1>11. WatchedInv'
    BY <1>1, <1>2, <1>3, <1>7 DEF ManagerInv, WatchedInv
<1>12. FreshInv'
    BY <1>1, <1>3, <1>4, <1>7 DEF ManagerInv, FreshInv
<1>13. QED
    BY <1>2, <1>3, <1>5, <1>8, <1>9, <1>10, <1>11, <1>12 DEF ManagerInv

\* GetCluster makes the first LB instance from the cluster's hosts; as there
\* is one type of balancer, no later instance is made from them.
LEMMA GetClusterStep ==
    ASSUME ManagerInv, NEW r \in Requests, GetCluster(r)
    PROVE  /\ ManagerInv'
           /\ DOMAIN clusters' = DOMAIN clusters
           /\ \A d \in DOMAIN clusters : DOMAIN clusters[d].lbs \subseteq DOMAIN clusters'[d].lbs
<1>1. PICK c : c = ClusterOf(r)
    OBVIOUS
<1>2. PICK t : t = req[r].cfg.Algorithm
    OBVIOUS
<1>3. PICK lbs : lbs = IF t \in DOMAIN clusters[c].lbs THEN clusters[c].lbs
                       ELSE Put(clusters[c].lbs, t, clusters[c].hosts)
    OBVIOUS
<1>4. /\ req[r].pc = "next" /\ t \in LbFactories
      /\ clusters' = [clusters EXCEPT ![c].lbs = lbs]
      /\ GoWithHosts(r, "query", lbs[t])
      /\ UNCHANGED <<info, watched, raced, mux>>
    BY <1>1, <1>2, <1>3 DEF GetCluster, GoWithHosts
<1>5. c \in DOMAIN clusters /\ DOMAIN clusters[c].lbs \subseteq LbFactories
    BY <1>1, <1>4 DEF ManagerInv, StoredInv, MapInv
<1>6. /\ DOMAIN clusters' = DOMAIN clusters
      /\ DOMAIN clusters'[c] = {"hosts", "lbs"}
      /\ clusters'[c].lbs = lbs /\ clusters'[c].hosts = clusters[c].hosts
      /\ \A d \in DOMAIN clusters : d # c => clusters'[d] = clusters[d]
    BY <1>4, <1>5 DEF ManagerInv, MapInv
<1>7. /\ DOMAIN lbs = DOMAIN clusters[c].lbs \cup {t}
      /\ \/ lbs = clusters[c].lbs
         \/ DOMAIN clusters[c].lbs = {} /\ lbs[t] = clusters[c].hosts
    <2>1. CASE t \in DOMAIN clusters[c].lbs
        BY <1>3, <2>1
    <2>2. CASE t \notin DOMAIN clusters[c].lbs
        <3>1. DOMAIN lbs = DOMAIN clusters[c].lbs \cup {t} /\ lbs[t] = clusters[c].hosts
            BY <1>3, <2>2 DEF Put
        <3>2. DOMAIN clusters[c].lbs = {}
            BY <1>4, <1>5, <2>2 DEF LbFactories
        <3>3. QED
            BY <3>1, <3>2
    <2>3. QED
        BY <2>1, <2>2
<1>8. Shape' /\ Others(r) /\ SameRequest(r) /\ req'[r].pc = "query"
    BY <1>4, HostsEffect DEF ManagerInv
<1>9. /\ \A s \in Requests : s # r => req'[s] = req[s]
      /\ \A s \in Requests : ClusterOf(s)' = ClusterOf(s)
    BY <1>8 DEF Others, SameRequest, ClusterOf
<1>10. MapInv'
    BY <1>4, <1>5, <1>6, <1>7 DEF ManagerInv, MapInv
<1>11. StaleOnlyIfRaced'
    <2>1. SUFFICES ASSUME NEW d \in DOMAIN clusters \ raced, NEW u \in DOMAIN clusters'[d].lbs
                   PROVE  clusters'[d].lbs[u] = info[d]
        BY <1>4, <1>6 DEF StaleOnlyIfRaced
    <2>2. CASE d # c \/ lbs = clusters[c].lbs
        BY <1>6, <2>2 DEF ManagerInv, StaleOnlyIfRaced
    <2>3. CASE d = c /\ DOMAIN clusters[c].lbs = {} /\ lbs[t] = clusters[c].hosts
        <3>1. u = t
            BY <1>6, <1>7, <2>3
        <3>2. clusters[c].hosts = info[c]
            BY <2>3 DEF ManagerInv, FreshInv
        <3>3. QED
            BY <1>6, <2>3, <3>1, <3>2
    <2>4. QED
        BY <1>7, <2>2, <2>3
<1>12. LockInv' /\ StoredInv'
    BY <1>4, <1>6, <1>8, <1>9 DEF ManagerInv, LockInv, StoredInv
<1>13. WatchedInv'
    BY <1>4, <1>6, <1>8, <1>9 DEF ManagerInv, WatchedInv
<1>14. FreshInv'
    <2>1. \A s \in Requests : req'[s].pc \in {"watch", "store"} /\ ClusterOf(s)' \notin raced
            => req'[s].hosts = info[ClusterOf(s)']
        BY <1>8, <1>9 DEF ManagerInv, FreshInv
    <2>2. \A d \in DOMAIN clusters \ raced :
             DOMAIN clusters'[d].lbs = {} => clusters'[d].hosts = info[d]
        BY <1>6, <1>7 DEF ManagerInv, FreshInv
    <2>3. QED
        BY <1>4, <1>6, <2>1, <2>2 DEF FreshInv
<1>15. \A d \in DOMAIN clusters : DOMAIN clusters[d].lbs \subseteq DOMAIN clusters'[d].lbs
    BY <1>6, <1>7
<1>16. QED
    BY <1>6, <1>8, <1>10, <1>11, <1>12, <1>13, <1>14, <1>15 DEF ManagerInv

\* The provider's notification reaches every LB instance of a cluster that
\* is watched; a change that comes between GetClusterInfo and the first
\* instance makes the cluster a raced one.
LEMMA ChangeStep ==
    ASSUME ManagerInv, NEW c \in DOMAIN Provided, NEW hosts, ChangeEndpoints(c, hosts)
    PROVE  /\ ManagerInv'
           /\ DOMAIN clusters' = DOMAIN clusters
           /\ \A d \in DOMAIN clusters : DOMAIN clusters[d].lbs = DOMAIN clusters'[d].lbs
<1>1. /\ info' = [info EXCEPT ![c] = hosts]
      /\ clusters' = IF c \in watched THEN updateServers(c, hosts) ELSE clusters
      /\ raced' = IF UnderCreation(c) THEN raced \cup {c} ELSE raced \ {c}
      /\ UNCHANGED <<watched, mux, req>>
    BY DEF ChangeEndpoints
<1>2. /\ DOMAIN info' = DOMAIN info /\ c \in DOMAIN info /\ info'[c] = hosts
      /\ \A d \in DOMAIN info : d # c => info'[d] = info[d]
    BY <1>1 DEF ManagerInv, WatchedInv
<1>3. \A s \in Requests : ClusterOf(s)' = ClusterOf(s)
    BY <1>1 DEF ClusterOf
<1>4. /\ DOMAIN clusters' = DOMAIN clusters
      /\ \A d \in DOMAIN clusters : /\ DOMAIN clusters'[d] = {"hosts", "lbs"}
                                    /\ DOMAIN clusters'[d].lbs = DOMAIN clusters[d].lbs
                                    /\ clusters'[d].hosts = clusters[d].hosts
      /\ \A d \in DOMAIN clusters : d # c => clusters'[d] = clusters[d]
      /\ c \in DOMAIN clusters =>
            \A t \in DOMAIN clusters[c].lbs : clusters'[c].lbs[t] = hosts
    <2>1. CASE c \notin DOMAIN clusters
        BY <1>1, <2>1 DEF updateServers, ManagerInv, MapInv
    <2>2. CASE c \in DOMAIN clusters
        <3>1. PICK lbs : lbs = [t \in DOMAIN clusters[c].lbs |-> hosts]
            OBVIOUS
        <3>2. clusters' = [clusters EXCEPT ![c].lbs = lbs]
            BY <1>1, <2>2, <3>1 DEF updateServers, ManagerInv, WatchedInv
        <3>3. /\ DOMAIN clusters' = DOMAIN clusters
              /\ DOMAIN clusters'[c] = {"hosts", "lbs"}
              /\ clusters'[c].lbs = lbs /\ clusters'[c].hosts = clusters[c].hosts
              /\ \A d \in DOMAIN clusters : d # c => clusters'[d] = clusters[d]
            BY <2>2, <3>2 DEF ManagerInv, MapInv
        <3>4. QED
            BY <2>2, <3>1, <3>3 DEF ManagerInv, MapInv
    <2>3. QED
        BY <2>1, <2>2
<1>5. Shape' /\ MapInv'
    BY <1>1, <1>4 DEF ManagerInv, Shape, MapInv
<1>6. LockInv' /\ StoredInv'
    BY <1>1, <1>3, <1>4 DEF ManagerInv, LockInv, StoredInv
<1>7. WatchedInv'
    BY <1>1, <1>2, <1>3, <1>4 DEF ManagerInv, WatchedInv
<1>8. c \notin raced' => ~UnderCreation(c)
    BY <1>1
<1>9. \A d : d # c => (d \in raced' <=> d \in raced)
    BY <1>1
<1>10. StaleOnlyIfRaced'
    <2>1. SUFFICES ASSUME NEW d \in DOMAIN clusters, d \notin raced',
                          NEW t \in DOMAIN clusters'[d].lbs
                   PROVE  clusters'[d].lbs[t] = info'[d]
        BY <1>4 DEF StaleOnlyIfRaced
    <2>2. CASE d = c
        BY <1>2, <1>4, <2>2
    <2>3. CASE d # c
        <3>1. d \in DOMAIN info
            BY DEF ManagerInv, WatchedInv
        <3>2. QED
            BY <1>2, <1>4, <1>9, <2>1, <2>3, <3>1 DEF ManagerInv, StaleOnlyIfRaced
    <2>4. QED
        BY <2>2, <2>3
<1>11. FreshInv'
    <2>1. ASSUME NEW s \in Requests, req[s].pc \in {"watch", "store"},
                 ClusterOf(s) \notin raced'
          PROVE  req[s].hosts = info'[ClusterOf(s)]
        <3>1. ClusterOf(s) # c
            BY <1>8, <2>1 DEF UnderCreation
        <3>2. ClusterOf(s) \in DOMAIN info /\ ClusterOf(s) \notin raced
            BY <1>9, <2>1, <3>1 DEF ManagerInv, WatchedInv
        <3>3. QED
            BY <1>2, <2>1, <3>1, <3>2 DEF ManagerInv, FreshInv
    <2>2. ASSUME NEW d \in DOMAIN clusters, d \notin raced', DOMAIN clusters'[d].lbs = {}
          PROVE  clusters'[d].hosts = info'[d]
        <3>1. d # c
            BY <1>4, <1>8, <2>2 DEF UnderCreation
        <3>2. d \in DOMAIN info /\ d \notin raced
            BY <1>9, <2>2, <3>1 DEF ManagerInv, WatchedInv
        <3>3. QED
            BY <1>2, <1>4, <2>2, <3>1, <3>2 DEF ManagerInv, FreshInv
    <2>3. QED
        BY <1>1, <1>3, <1>4, <2>1, <2>2 DEF FreshInv
<1>12. QED
    BY <1>4, <1>5, <1>6, <1>7, <1>10, <1>11 DEF ManagerInv

\* The object other requests work with is not replaced.
Kept ==
    \A c \in DOMAIN clusters : /\ c \in DOMAIN clusters'
                               /\ DOMAIN clusters[c].lbs \subseteq DOMAIN clusters'[c].lbs

LEMMA QuietSteps ==
    ASSUME ManagerInv, NEW r \in Requests,
           \/ LoadCluster(r) \/ NoClusterInfo(r) \/ NoLoadBalancer(r) \/ QueryStats(r)
           \/ PickHost(r) \/ (\E ok \in BOOLEAN : OverrideHost(r, ok))
           \/ (\E in \in Inputs : DecodeRequest(r, in))
    PROVE  ManagerInv' /\ UNCHANGED clusters
<1>a. Shape
    BY DEF ManagerInv
<1>1. UNCHANGED <<info, watched, clusters, raced>>
    BY DEF LoadCluster, NoClusterInfo, NoLoadBalancer, QueryStats, PickHost, OverrideHost,
           DecodeRequest, manager
<1>2. mux' = mux \/ mux = r
    BY DEF LoadCluster, NoClusterInfo, NoLoadBalancer, QueryStats, PickHost, OverrideHost,
           DecodeRequest, Unlock
<1> DEFINE Quiet == /\ Shape' /\ Others(r)
                    /\ req'[r].pc \notin {"create", "watch", "store"}
                    /\ req'[r].pc = "next" => ClusterOf(r)' \in DOMAIN clusters
<1>3. ASSUME NEW code, Refuse(r, code)
      PROVE  Quiet
    BY <1>3, <1>a, RefuseEffect
<1>4. ASSUME LoadCluster(r) PROVE Quiet
    <2>1. PICK p : Go(r, p) /\ p = IF Stored(r) THEN "next" ELSE "lock"
        BY <1>4 DEF LoadCluster
    <2>2. Shape' /\ Others(r) /\ SameRequest(r) /\ req'[r].pc = p
        BY <1>a, <2>1, GoEffect
    <2>3. ClusterOf(r)' = ClusterOf(r)
        BY <2>2 DEF SameRequest, ClusterOf
    <2>4. p \in {"next", "lock"} /\ (p = "next" => ClusterOf(r) \in DOMAIN clusters)
        BY <2>1 DEF Stored
    <2>5. QED
        BY <2>2, <2>3, <2>4
<1> HIDE DEF Quiet
<1>5. ASSUME NoClusterInfo(r) \/ NoLoadBalancer(r) PROVE Quiet
    BY <1>3, <1>5 DEF NoClusterInfo, NoLoadBalancer
<1>6. ASSUME QueryStats(r) PROVE Quiet
    <2>1. \E load, hit : GoWithStats(r, load, hit)
        BY <1>6 DEF QueryStats, GoWithStats
    <2>2. ASSUME NEW load, NEW hit, GoWithStats(r, load, hit) PROVE Quiet
        BY <1>a, <2>2, StatsEffect DEF Quiet
    <2>3. QED
        BY <2>1, <2>2
<1>7. ASSUME PickHost(r) PROVE Quiet
    <2>1. Refuse(r, "404") \/ \E h : GoWithHost(r, h)
        BY <1>7 DEF PickHost, GoWithHost
    <2>2. ASSUME NEW h, GoWithHost(r, h) PROVE Quiet
        BY <1>a, <2>2, HostEffect DEF Quiet
    <2>3. QED
        BY <1>3, <2>1, <2>2
<1>8. ASSUME NEW ok \in BOOLEAN, OverrideHost(r, ok)
      PROVE  Quiet
    BY <1>3, <1>8 DEF OverrideHost
<1>9. ASSUME NEW in \in Inputs, DecodeRequest(r, in)
      PROVE  Quiet
    BY <1>9, <1>a, DecodeEffect DEF Quiet
<1>10. Quiet
    BY <1>4, <1>5, <1>6, <1>7, <1>8, <1>9
<1>11. QED
    BY <1>1, <1>2, <1>10, QuietStep DEF Quiet

LEMMA ManagerStep ==
    ASSUME ManagerInv, [Next]_vars
    PROVE  ManagerInv' /\ Kept
<1>1. ASSUME NEW r \in Requests, Step(r)
      PROVE  ManagerInv' /\ Kept
    <2>1. CASE LockManager(r)
        BY <2>1, LockStep DEF LockManager, manager, Kept
    <2>2. CASE GetClusterInfo(r)
        BY <2>2, InfoStep DEF GetClusterInfo, manager, Kept
    <2>3. CASE WatchCluster(r)
        BY <2>3, WatchStep DEF Kept
    <2>4. CASE StoreCluster(r)
        BY <2>4, StoreStep DEF Kept
    <2>5. CASE GetCluster(r)
        BY <2>5, GetClusterStep DEF Kept
    <2>6. CASE \/ LoadCluster(r) \/ NoClusterInfo(r) \/ NoLoadBalancer(r) \/ QueryStats(r)
               \/ PickHost(r) \/ (\E ok \in BOOLEAN : OverrideHost(r, ok))
        BY <2>6, QuietSteps DEF Kept
    <2>7. QED
        BY <1>1, <2>1, <2>2, <2>3, <2>4, <2>5, <2>6 DEF Step
<1>2. ASSUME NEW r \in Requests, NEW in \in Inputs, DecodeRequest(r, in)
      PROVE  ManagerInv' /\ Kept
    BY <1>2, QuietSteps DEF Kept
<1>3. ASSUME NEW c \in DOMAIN Provided, NEW hosts \in HostSets, ChangeEndpoints(c, hosts)
      PROVE  ManagerInv' /\ Kept
    BY <1>3, ChangeStep DEF Kept
<1>4. ASSUME \/ \E c \in Configs : PushConfig(c)
             \/ UNCHANGED vars
      PROVE  ManagerInv' /\ Kept
    <2>1. UNCHANGED <<info, watched, clusters, mux, req, raced>>
        BY <1>4 DEF PushConfig, vars
    <2>2. \A r \in Requests : ClusterOf(r)' = ClusterOf(r)
        BY <2>1 DEF ClusterOf
    <2>3. QED
        BY <2>1, <2>2 DEF ManagerInv, Shape, MapInv, LockInv, StoredInv, WatchedInv, FreshInv,
                          StaleOnlyIfRaced, Kept
<1>5. QED
    BY <1>1, <1>2, <1>3, <1>4 DEF Next

LEMMA ManagerInit == Init => ManagerInv
<1> SUFFICES ASSUME Init PROVE ManagerInv
    OBVIOUS
<1>1. /\ clusters = <<>> /\ watched = {} /\ info = Provided
      /\ req = [r \in Requests |-> Idle]
    BY DEF Init
<1>2. DOMAIN clusters = {}
    <2>1. DOMAIN <<>> = {}
        OBVIOUS
    <2>2. QED
        BY <1>1, <2>1
<1>3. Shape
    BY <1>1 DEF Shape, Fields, Idle
<1>4. \A r \in Requests : req[r].pc = "idle"
    BY <1>1 DEF Idle
<1>5. QED
    BY <1>1, <1>2, <1>3, <1>4
       DEF ManagerInv, MapInv, LockInv, StoredInv, WatchedInv, FreshInv, StaleOnlyIfRaced

LEMMA Managed == Spec => []ManagerInv
<1>1. ManagerInv /\ [Next]_vars => ManagerInv'
    BY ManagerStep
<1>2. QED
    BY <1>1, ManagerInit, PTL DEF Spec

\* However many requests and changes of endpoints interleave, a balancer
\* works on the provider's current endpoints unless they changed while its
\* cluster was being created (manager.go:59-71; cluster.go:61-103).
THEOREM StaleHosts == Spec => []StaleOnlyIfRaced
<1>1. ManagerInv => StaleOnlyIfRaced
    BY DEF ManagerInv
<1>2. QED
    BY <1>1, Managed, PTL

\* The lock and the second lookup under it suffice: no request replaces a
\* cluster others work with (manager.go:49-56).
THEOREM CreatedOnce == Spec => ClusterCreatedOnce
<1>1. ManagerInv /\ [Next]_vars => [Kept]_vars
    BY ManagerStep
<1>2. QED
    BY <1>1, Managed, PTL DEF Spec, ClusterCreatedOnce, Kept

-----------------------------------------------------------------------------
\* Configurations.

\* f is what Init made of a configuration that was accepted.
Inited(f) == \E c \in Configs : Validate(c) /\ Parse(c) /\ f \in InitConfig(c)

\* What a model's rules are once they are sorted.
GoodTuples(tuples) ==
    /\ \E n \in Nat : DOMAIN tuples = 1 .. n
    /\ \A i \in DOMAIN tuples : tuples[i] \in Rule /\ HeaderNum(tuples[i]) \in Nat
    /\ \A i, j \in DOMAIN tuples : i < j => HeaderNum(tuples[i]) >= HeaderNum(tuples[j])

\* Absent rules and settings are no rules and no settings.
LEMMA Absent == NoRule \notin Rule /\ NoLBConfig \notin LBConfig
<1>1. \A x \in Rule : DOMAIN x # {"nil"}
    BY DEF Rule
<1>2. \A x \in LBConfig : DOMAIN x # {"nil"}
    BY DEF LBConfig
<1>3. DOMAIN NoRule = {"nil"} /\ DOMAIN NoLBConfig = {"nil"}
    BY DEF NoRule, NoLBConfig
<1>4. QED
    BY <1>1, <1>2, <1>3

\* What every order that sort.Slice may leave has (config.go:38-42).
LEMMA SortedTuples ==
    ASSUME NEW rules \in Seq(Rule), NEW tuples \in SortTuples(rules)
    PROVE  GoodTuples(tuples)
<1>1. PICK p \in [DOMAIN rules -> DOMAIN rules] :
         /\ \A i, j \in DOMAIN rules :
               i < j => HeaderNum(rules[p[i]]) >= HeaderNum(rules[p[j]])
         /\ tuples = [i \in DOMAIN rules |-> rules[p[i]]]
    BY DEF SortTuples
<1>2. \A i \in DOMAIN rules : rules[i] \in Rule /\ HeaderNum(rules[i]) \in Nat
    <2>1. \A i \in DOMAIN rules : rules[i] \in Rule
        OBVIOUS
    <2>2. \A rule \in Rule : rule.Headers \in Seq(STRING \X STRING)
        BY DEF Rule
    <2>3. \A rule \in Rule : Len(rule.Headers) \in Nat
        BY <2>2
    <2>4. QED
        BY <2>1, <2>3 DEF HeaderNum
<1>3. DOMAIN tuples = DOMAIN rules /\ \A i \in DOMAIN rules : p[i] \in DOMAIN rules
    BY <1>1
<1>4. \A i \in DOMAIN rules : tuples[i] = rules[p[i]]
    BY <1>1
<1>5. DOMAIN rules = 1 .. Len(rules) /\ Len(rules) \in Nat
    OBVIOUS
<1>6. \A i, j \in DOMAIN tuples : i < j => HeaderNum(tuples[i]) >= HeaderNum(tuples[j])
    BY <1>1, <1>3, <1>4
<1>7. \A i \in DOMAIN tuples : tuples[i] \in Rule /\ HeaderNum(tuples[i]) \in Nat
    BY <1>2, <1>3, <1>4, SMTT(30)
<1>8. \E n \in Nat : DOMAIN tuples = 1 .. n
    BY <1>3, <1>5
<1>9. QED
    BY <1>6, <1>7, <1>8 DEF GoodTuples

\* Every configuration requests see has sorted rules and settings in range.
LEMMA InitedFacts ==
    ASSUME NEW f, Inited(f)
    PROVE  /\ \A m \in DOMAIN f.ModelMappings : GoodTuples(f.ModelMappings[m])
           /\ \A m \in DOMAIN f.LbMappingConfigs :
                 f.LbMappingConfigs[m] \in LBConfig
<1>1. PICK c \in Configs : Validate(c) /\ Parse(c) /\ f \in InitConfig(c)
    BY DEF Inited
<1>2. IsConfig(c)
    BY RoutingConstants DEF RoutingConstants
<1>3. PICK maps \in Mappings(c) :
         f = [ Protocol |-> c.Protocol, Algorithm |-> c.Algorithm,
               ModelMappings |-> maps, LbMappingConfigs |-> c.LbMappingRule ]
    BY <1>1 DEF InitConfig
<1>4. f.ModelMappings = maps /\ f.LbMappingConfigs = c.LbMappingRule
    BY <1>3
<1>5. ASSUME NEW m \in DOMAIN maps
      PROVE  GoodTuples(maps[m])
    <2>1. m \in DOMAIN c.ModelMappingRule /\ maps[m] \in SortTuples(c.ModelMappingRule[m])
        BY DEF Mappings
    <2>2. c.ModelMappingRule[m] \in Seq(Rule)
        BY <1>2, <2>1 DEF IsConfig
    <2>3. QED
        BY <2>1, <2>2, SortedTuples
<1>6. QED
    BY <1>2, <1>4, <1>5 DEF IsConfig

\* rule is one that matches, and no more specific one does.
BestRule(tuples, headers, rule) ==
    LET matching == {i \in DOMAIN tuples : Range(tuples[i].Headers) \subseteq headers}
    IN  IF rule = NoRule THEN matching = {}
        ELSE \E i \in matching :
                /\ rule = tuples[i]
                /\ \A j \in matching : HeaderNum(tuples[j]) <= HeaderNum(rule)

\* The rule GetCandidateRule finds: the first that matches, and so none that
\* matches has more headers (config.go:200-225).
LEMMA CandidateRule ==
    ASSUME NEW tuples, GoodTuples(tuples), NEW headers
    PROVE  BestRule(tuples, headers, GetCandidateRule(tuples, headers))
<1> DEFINE matching == {i \in DOMAIN tuples : Range(tuples[i].Headers) \subseteq headers}
           rule == GetCandidateRule(tuples, headers)
<1>1. PICK n \in Nat : DOMAIN tuples = 1 .. n
    BY DEF GoodTuples
<1>2. matching = {i \in DOMAIN tuples : Matches(tuples[i], headers)}
    BY DEF Matches, Range
<1>3. CASE matching = {}
    BY <1>2, <1>3 DEF GetCandidateRule, BestRule
<1>4. CASE matching # {}
    <2>1. matching \in SUBSET (1 .. n)
        BY <1>1
    <2>2. IsFiniteSet(matching) /\ matching \in SUBSET Int
        <3>1. IsFiniteSet(1 .. n)
            BY FS_Interval
        <3>2. QED
            BY <2>1, <3>1, FS_Subset
    <2> DEFINE first == CHOOSE i \in matching : \A j \in matching : i <= j
    <2>3. \E i \in matching : \A j \in matching : i <= j
        BY <1>4, <2>2, MinMax
    <2>4. first \in matching /\ \A j \in matching : first <= j
        BY <2>3
    <2>5. rule = tuples[first]
        BY <1>2, <1>4 DEF GetCandidateRule
    <2> HIDE DEF first
    <2>6. \A j \in matching : HeaderNum(tuples[j]) <= HeaderNum(tuples[first])
        <3>1. SUFFICES ASSUME NEW j \in matching
                       PROVE  HeaderNum(tuples[j]) <= HeaderNum(tuples[first])
            OBVIOUS
        <3>2. /\ first \in DOMAIN tuples /\ j \in DOMAIN tuples /\ first <= j
              /\ first \in Int /\ j \in Int
              /\ HeaderNum(tuples[j]) \in Nat /\ HeaderNum(tuples[first]) \in Nat
            BY <2>2, <2>4 DEF GoodTuples
        <3>3. first < j => HeaderNum(tuples[first]) >= HeaderNum(tuples[j])
            BY <3>2 DEF GoodTuples
        <3>4. QED
            BY <3>2, <3>3
    <2>7. tuples[first] # NoRule
        BY <2>4, Absent DEF GoodTuples
    <2>8. QED
        BY <2>4, <2>5, <2>6, <2>7 DEF BestRule
<1>5. QED
    BY <1>3, <1>4

\* What GetRequestData makes of a chat request: the model's rule, if there
\* is one (openai.go, GetRequestData).
LEMMA RequestData ==
    ASSUME NEW c, NEW in, in.wellFormed
    PROVE  LET data == GetRequestData(c, in)
               rule == GetCandidateRule(c.ModelMappings[in.model], in.headers)
           IN  /\ in.model \in DOMAIN c.ModelMappings => data.rule = rule
               /\ data.rule # NoRule => /\ in.model \in DOMAIN c.ModelMappings
                                        /\ data.ModelName = in.model
                                        /\ data.rule = rule
<1>1. PICK rule : rule = GetCandidateRule(c.ModelMappings[in.model], in.headers)
    OBVIOUS
<1>2. PICK models : models = DOMAIN c.ModelMappings
    OBVIOUS
<1>3. CASE in.model \notin models
    <2>1. GetRequestData(c, in).rule = NoRule
        BY <1>2, <1>3 DEF GetRequestData
    <2>2. QED
        BY <1>2, <1>3, <2>1
<1>4. CASE in.model \in models /\ rule = NoRule
    <2>1. GetRequestData(c, in).rule = NoRule
        BY <1>1, <1>2, <1>4 DEF GetRequestData
    <2>2. QED
        BY <1>1, <1>4, <2>1
<1>5. CASE in.model \in models /\ rule # NoRule
    <2>1. PICK model : model = in.model
        OBVIOUS
    <2>2. GetRequestData(c, in) = [err |-> "", ModelName |-> model, rule |-> rule]
        BY <1>1, <1>2, <1>5, <2>1 DEF GetRequestData
    <2>3. PICK data : data = GetRequestData(c, in)
        OBVIOUS
    <2>4. data = [err |-> "", ModelName |-> model, rule |-> rule]
        BY <2>2, <2>3
    <2>5. data.rule = rule /\ data.ModelName = model
        BY <2>4
    <2>6. QED
        BY <1>1, <1>2, <1>5, <2>1, <2>3, <2>5
<1>6. QED
    BY <1>3, <1>4, <1>5

\* Requests are decoded with an accepted configuration, and go on with it
\* and with what it said whatever is pushed later.
ConfigInv ==
    /\ cfg # NoConfig => Inited(cfg)
    /\ \A r \in Requests :
          /\ req[r].pc = "idle" => req[r].in = NoInput
          /\ req[r].pc # "idle" => /\ Inited(req[r].cfg)
                                   /\ req[r].data = GetRequestData(req[r].cfg, req[r].in)

\* Every step of a request after DecodeRequest leaves its input, its
\* configuration and its data alone, and no other request is touched.
LEMMA StepEffect ==
    ASSUME Shape, NEW r \in Requests, Step(r)
    PROVE  /\ Shape' /\ Others(r) /\ SameRequest(r)
           /\ req[r].pc # "idle" /\ req'[r].pc # "idle"
           /\ UNCHANGED <<cfg, env, answers>>
<1>1. UNCHANGED <<cfg, env, answers>>
    BY DEF Step, LoadCluster, LockManager, NoClusterInfo, GetClusterInfo, WatchCluster,
           StoreCluster, NoLoadBalancer, GetCluster, QueryStats, PickHost, OverrideHost,
           config, static
<1>2. req[r].pc # "idle"
    BY DEF Step, LoadCluster, LockManager, NoClusterInfo, GetClusterInfo, WatchCluster,
           StoreCluster, NoLoadBalancer, GetCluster, QueryStats, PickHost, OverrideHost
<1> DEFINE Goal == Shape' /\ Others(r) /\ SameRequest(r) /\ req'[r].pc # "idle"
<1>3. ASSUME NEW p, p # "idle", Go(r, p) PROVE Goal
    BY <1>3, GoEffect
<1>4. ASSUME NEW code, Refuse(r, code) PROVE Goal
    BY <1>4, RefuseEffect
<1>5. ASSUME NEW p, p # "idle", NEW hosts, GoWithHosts(r, p, hosts) PROVE Goal
    BY <1>5, HostsEffect
<1>6. ASSUME NEW load, NEW hit, GoWithStats(r, load, hit) PROVE Goal
    BY <1>6, StatsEffect
<1>7. ASSUME NEW h, GoWithHost(r, h) PROVE Goal
    BY <1>7, HostEffect
<1> HIDE DEF Goal
<1>8. ASSUME LoadCluster(r) \/ LockManager(r) \/ WatchCluster(r) \/ StoreCluster(r) PROVE Goal
    <2>1. \E p : p # "idle" /\ Go(r, p)
        BY <1>8 DEF LoadCluster, LockManager, WatchCluster, StoreCluster, AfterLock
    <2>2. QED
        BY <1>3, <2>1
<1>9. ASSUME NoClusterInfo(r) \/ NoLoadBalancer(r) \/ \E ok \in BOOLEAN : OverrideHost(r, ok)
      PROVE  Goal
    BY <1>4, <1>9 DEF NoClusterInfo, NoLoadBalancer, OverrideHost
<1>10. ASSUME GetClusterInfo(r) \/ GetCluster(r) PROVE Goal
    <2>1. CASE GetClusterInfo(r)
        <3>1. GoWithHosts(r, "watch", Endpoints(ClusterOf(r)))
            BY <2>1 DEF GetClusterInfo, GoWithHosts
        <3>2. QED
            BY <1>5, <3>1
    <2>2. CASE GetCluster(r)
        <3>1. \E hosts : GoWithHosts(r, "query", hosts)
            BY <2>2 DEF GetCluster, GoWithHosts
        <3>2. QED
            BY <1>5, <3>1
    <2>3. QED
        BY <1>10, <2>1, <2>2
<1>11. ASSUME QueryStats(r) PROVE Goal
    <2>1. \E load, hit : GoWithStats(r, load, hit)
        BY <1>11 DEF QueryStats, GoWithStats
    <2>2. QED
        BY <1>6, <2>1
<1>12. ASSUME PickHost(r) PROVE Goal
    <2>1. Refuse(r, "404") \/ \E h : GoWithHost(r, h)
        BY <1>12 DEF PickHost, GoWithHost
    <2>2. QED
        BY <1>4, <1>7, <2>1
<1>13. Goal
    BY <1>8, <1>9, <1>10, <1>11, <1>12 DEF Step
<1>14. QED
    BY <1>1, <1>2, <1>13 DEF Goal

LEMMA ConfigStep ==
    ASSUME Shape, ConfigInv, [Next]_vars
    PROVE  ConfigInv'
<1>1. ASSUME NEW r \in Requests, Step(r)
      PROVE  ConfigInv'
    BY <1>1, StepEffect DEF ConfigInv, Others, SameRequest
<1>2. ASSUME NEW r \in Requests, NEW in \in Inputs, DecodeRequest(r, in)
      PROVE  ConfigInv'
    <2>1. cfg # NoConfig /\ UNCHANGED cfg
        BY <1>2 DEF DecodeRequest, config
    <2>2. QED
        BY <1>2, <2>1, DecodeEffect DEF ConfigInv, Others
<1>3. ASSUME NEW c \in Configs, PushConfig(c)
      PROVE  ConfigInv'
    <2>1. UNCHANGED req
        BY <1>3, Zenon DEF PushConfig
    <2>2. CASE Validate(c) /\ Parse(c)
        <3>1. cfg' \in InitConfig(c)
            BY <1>3, <2>2 DEF PushConfig
        <3>2. Inited(cfg')
            BY <2>2, <3>1, Zenon DEF Inited
        <3>3. QED
            BY <2>1, <3>2 DEF ConfigInv
    <2>3. CASE ~(Validate(c) /\ Parse(c))
        <3>1. UNCHANGED cfg
            BY <1>3, <2>3 DEF PushConfig
        <3>2. QED
            BY <2>1, <3>1 DEF ConfigInv
    <2>4. QED
        BY <2>2, <2>3
<1>4. ASSUME \/ \E c \in DOMAIN Provided, hosts \in HostSets : ChangeEndpoints(c, hosts)
             \/ UNCHANGED vars
      PROVE  ConfigInv'
    <2>1. UNCHANGED <<cfg, req>>
        BY <1>4 DEF ChangeEndpoints, config, vars
    <2>2. QED
        BY <2>1 DEF ConfigInv
<1>5. QED
    BY <1>1, <1>2, <1>3, <1>4 DEF Next

LEMMA Configured == Spec => []ConfigInv
<1>1. ASSUME Init PROVE ConfigInv
    <2>1. cfg = NoConfig /\ req = [r \in Requests |-> Idle]
        BY <1>1 DEF Init
    <2>2. \A r \in Requests : req[r].pc = "idle" /\ req[r].in = NoInput
        BY <2>1 DEF Idle
    <2>3. QED
        BY <2>1, <2>2 DEF ConfigInv
<1>2. ManagerInv /\ ConfigInv /\ [Next]_vars => ConfigInv'
    BY ConfigStep DEF ManagerInv
<1>3. QED
    BY <1>1, <1>2, Managed, PTL DEF Spec

\* Whatever configurations are accepted and in whatever order sorting leaves
\* rules of equally many headers, a request is routed by a rule it matches
\* that asks for as many headers as any it matches (config.go:38-42,
\* 200-225).
THEOREM MostSpecific == Spec => []MostSpecificRule
<1>1. ASSUME ConfigInv PROVE MostSpecificRule
    <2>1. SUFFICES ASSUME NEW r \in Requests, Decoded(r),
                          req[r].in.model \in DOMAIN req[r].cfg.ModelMappings
                   PROVE  BestRule(req[r].cfg.ModelMappings[req[r].in.model],
                                   req[r].in.headers, req[r].data.rule)
        BY DEF MostSpecificRule, BestRule
    <2>2. Inited(req[r].cfg) /\ req[r].data = GetRequestData(req[r].cfg, req[r].in)
        BY <1>1, <2>1 DEF ConfigInv, Decoded
    <2>3. PICK tuples : tuples = req[r].cfg.ModelMappings[req[r].in.model]
        OBVIOUS
    <2>4. PICK rule : rule = GetCandidateRule(tuples, req[r].in.headers)
        OBVIOUS
    <2>5. GoodTuples(tuples)
        BY <2>1, <2>2, <2>3, InitedFacts
    <2>6. req[r].data.rule = rule
        BY <2>1, <2>2, <2>3, <2>4, RequestData DEF Decoded
    <2>7. BestRule(tuples, req[r].in.headers, rule)
        BY <2>4, <2>5, CandidateRule
    <2>8. QED
        BY <2>3, <2>6, <2>7, SMTT(30)
<1>2. QED
    BY <1>1, Configured, PTL

-----------------------------------------------------------------------------
\* The load balancer's arithmetic.

\* What QueryLoad and getEndpointStatsByClusterName make of an answer.
IsLoad(load) ==
    /\ IsFiniteSet(DOMAIN load) /\ DOMAIN load # {}
    /\ \A h \in DOMAIN load : load[h].TotalReqs \in Int /\ load[h].PromptLength \in Nat

\* At least one host is picked from, at most all are, and more than one only
\* as far as the percentage allows (inference_lb.go, candidateNum).
LEMMA CandidateNum ==
    ASSUME NEW percent \in Int, NEW n \in Nat, n >= 1
    PROVE  /\ candidateNum(percent, n) \in 1 .. n
           /\ candidateNum(percent, n) > 1 => candidateNum(percent, n) * 100 <= n * percent
<1>1. PICK a \in Int : a = n * percent
    OBVIOUS
<1>2. PICK q \in Int : q = a \div 100 /\ q * 100 <= a
    BY <1>1
<1>3. PICK k \in Int : k = Max({1, q}) /\ k >= 1 /\ (k > 1 => k = q)
    BY <1>2, OfTwo
<1>4. PICK m \in Int : m = Min({k, n}) /\ m <= n /\ m <= k /\ (m = k \/ m = n)
    BY <1>3, OfTwo
<1>5. candidateNum(percent, n) = m
    BY <1>1, <1>2, <1>3, <1>4 DEF candidateNum
<1>6. m \in 1 .. n /\ (m > 1 => m * 100 <= a)
    BY <1>2, <1>3, <1>4
<1>7. QED
    BY <1>1, <1>5, <1>6

\* The extremes of a load: no host is below the least or above the greatest.
LEMMA Extremes ==
    ASSUME NEW load, IsLoad(load)
    PROVE  /\ MinQueueSize(load) \in Int /\ MaxQueueSize(load) \in Int
           /\ \A h \in DOMAIN load : /\ MinQueueSize(load) <= load[h].TotalReqs
                                     /\ load[h].TotalReqs <= MaxQueueSize(load)
           /\ MaxPromptLength(load) \in Int /\ MaxPromptLength(load) >= 1024
           /\ \A h \in DOMAIN load : load[h].PromptLength <= MaxPromptLength(load)
<1>1. PICK S : S = DOMAIN load /\ IsFiniteSet(S) /\ S # {}
    BY DEF IsLoad
<1>2. PICK f \in [S -> Int] : \A h \in S : f[h] = load[h].TotalReqs
    <2>1. [h \in S |-> load[h].TotalReqs] \in [S -> Int]
        BY <1>1 DEF IsLoad
    <2>2. QED
        BY <2>1
<1>3. PICK g \in [S -> Int] : \A h \in S : g[h] = load[h].PromptLength
    <2>1. [h \in S |-> load[h].PromptLength] \in [S -> Int]
        BY <1>1 DEF IsLoad
    <2>2. QED
        BY <2>1
<1>4. PICK Q : Q = {f[h] : h \in S} /\ IsFiniteSet(Q) /\ Q \in SUBSET Int /\ Q # {}
    <2>1. IsFiniteSet({f[h] : h \in S}) /\ {f[h] : h \in S} \in SUBSET Int
        BY <1>1, Values
    <2>2. {f[h] : h \in S} # {}
        BY <1>1
    <2>3. QED
        BY <2>1, <2>2
<1>5. PICK P : P = {g[h] : h \in S} /\ IsFiniteSet(P) /\ P \in SUBSET Int
    <2>1. IsFiniteSet({g[h] : h \in S}) /\ {g[h] : h \in S} \in SUBSET Int
        BY <1>1, Values
    <2>2. QED
        BY <2>1
<1>6. /\ {load[h].TotalReqs : h \in DOMAIN load} = Q
      /\ {load[h].PromptLength : h \in DOMAIN load} = P
    BY <1>1, <1>2, <1>3, <1>4, <1>5
<1>7. MinQueueSize(load) = Min(Q)
    BY <1>6 DEF MinQueueSize
<1>8. MaxQueueSize(load) = Max({0} \cup Q)
    BY <1>6 DEF MaxQueueSize
<1>9. PICK base \in Int : base = 1024
    OBVIOUS
<1>9b. MaxPromptLength(load) = Max({base} \cup P)
    <2>1. PICK T : T = {load[h].PromptLength : h \in DOMAIN load}
        OBVIOUS
    <2>2. MaxPromptLength(load) = Max({1024} \cup T)
        BY <2>1, SMT DEF MaxPromptLength
    <2>3. {1024} \cup T = {base} \cup P
        BY <1>6, <1>9, <2>1
    <2>4. QED
        BY <2>2, <2>3
<1>10. Min(Q) \in Q /\ \A y \in Q : Min(Q) <= y
    BY <1>4, MinMax
<1>11. Max({0} \cup Q) \in Int /\ \A y \in {0} \cup Q : Max({0} \cup Q) >= y
    <2>1. IsFiniteSet(Q \cup {0}) /\ Q \cup {0} = {0} \cup Q
        BY <1>4, FS_AddElement
    <2>2. {0} \cup Q \in SUBSET Int /\ {0} \cup Q # {} /\ IsFiniteSet({0} \cup Q)
        BY <1>4, <2>1
    <2>3. QED
        BY <2>2, MinMax
<1>12. Max({base} \cup P) \in Int /\ \A y \in {base} \cup P : Max({base} \cup P) >= y
    <2>1. IsFiniteSet(P \cup {base}) /\ P \cup {base} = {base} \cup P
        BY <1>5, FS_AddElement
    <2>2. {base} \cup P \in SUBSET Int /\ {base} \cup P # {} /\ IsFiniteSet({base} \cup P)
        BY <1>5, <2>1
    <2>3. QED
        BY <2>2, MinMax
<1>13. \A h \in S : load[h].TotalReqs \in Q /\ load[h].PromptLength \in P
    BY <1>2, <1>3, <1>4, <1>5
<1>14. MinQueueSize(load) \in Int /\ \A h \in DOMAIN load : MinQueueSize(load) <= load[h].TotalReqs
    BY <1>1, <1>4, <1>7, <1>10, <1>13
<1>15. /\ MaxQueueSize(load) \in Int
       /\ \A h \in DOMAIN load : load[h].TotalReqs <= MaxQueueSize(load)
    <2>1. PICK m \in Int : m = MaxQueueSize(load) /\ \A y \in Q : m >= y
        BY <1>8, <1>11
    <2>2. \A h \in S : load[h].TotalReqs <= m
        BY <1>4, <1>13, <2>1
    <2>3. QED
        BY <1>1, <2>1, <2>2
<1>16. /\ MaxPromptLength(load) \in Int /\ MaxPromptLength(load) >= 1024
       /\ \A h \in DOMAIN load : load[h].PromptLength <= MaxPromptLength(load)
    <2>1. PICK m \in Int : m = MaxPromptLength(load) /\ m >= base /\ \A y \in P : m >= y
        BY <1>12, <1>9b
    <2>2. \A h \in S : load[h].PromptLength <= m
        BY <1>5, <1>13, <2>1
    <2>3. QED
        BY <1>1, <1>9, <2>1, <2>2
<1>17. QED
    BY <1>14, <1>15, <1>16

\* The span of the queues, and the two loads within their scales.
LEMMA Normalised ==
    ASSUME NEW load, IsLoad(load)
    PROVE  /\ Delta(load) \in Int /\ Delta(load) >= 2
           /\ \A h \in DOMAIN load : /\ RequestLoad(load)[h] \in 0 .. Delta(load)
                                     /\ PrefillLoad(load)[h] \in 0 .. MaxPromptLength(load)
<1>1. PICK least \in Int : least = MinQueueSize(load)
    BY Extremes
<1>2. PICK most \in Int : most = MaxQueueSize(load)
    BY Extremes
<1>3. PICK d \in Int : d = Delta(load) /\ d >= 2 /\ d >= most - least
    <2>1. PICK m \in Int : m = most - least
        OBVIOUS
    <2>2. Delta(load) = Max({2, m})
        BY <1>1, <1>2, <2>1 DEF Delta
    <2>3. Max({2, m}) = IF 2 >= m THEN 2 ELSE m
        BY OfTwo
    <2>4. QED
        BY <2>1, <2>2, <2>3
<1>4. PICK p \in Int : p = MaxPromptLength(load)
    BY Extremes
<1>5. \A h \in DOMAIN load : /\ load[h].TotalReqs \in Int /\ load[h].PromptLength \in Nat
                             /\ least <= load[h].TotalReqs /\ load[h].TotalReqs <= most
                             /\ load[h].PromptLength <= p
    BY <1>1, <1>2, <1>4, Extremes DEF IsLoad
<1>6. \A h \in DOMAIN load : /\ RequestLoad(load)[h] = load[h].TotalReqs - least
                             /\ PrefillLoad(load)[h] = load[h].PromptLength
    BY <1>1 DEF RequestLoad, PrefillLoad
<1>7. ASSUME NEW h \in DOMAIN load
      PROVE  RequestLoad(load)[h] \in 0 .. d /\ PrefillLoad(load)[h] \in 0 .. p
    BY <1>3, <1>5, <1>6
<1>8. QED
    BY <1>3, <1>4, <1>7

\* Settings, as a model's LBConfig or the process's defaults give them.
Weights(ctx) ==
    /\ ctx.CandidatePercent \in Int /\ ctx.RequestLoadWeight \in Int
    /\ ctx.PrefillLoadWeight \in Int /\ ctx.CacheRadioWeight \in Int

\* A host's score, term by term.
Terms(ctx, load, hit, chunks, d, p, w) ==
    \A h \in DOMAIN load :
        Score(ctx, load, hit, chunks)[h] =
           ctx.CacheRadioWeight * hit[h] * d * p
           - w * RequestLoad(load)[h] * chunks * p
           - ctx.PrefillLoadWeight * PrefillLoad(load)[h] * chunks * d

LEMMA ScoreTerms ==
    ASSUME NEW ctx, Weights(ctx), NEW load, IsLoad(load),
           NEW hit \in [DOMAIN load -> Int], NEW chunks \in Nat, chunks >= 1
    PROVE  \E d \in Int, p \in Int, c \in Int, w \in Int :
              /\ d > 0 /\ p > 0 /\ c > 0 /\ w = ctx.RequestLoadWeight * c
              /\ Terms(ctx, load, hit, chunks, d, p, w)
<1>1. PICK d \in Int : d = Delta(load) /\ d >= 2
    BY Normalised
<1>2. PICK p \in Int : p = MaxPromptLength(load) /\ p >= 1024
    BY Extremes
<1>3. PICK c \in Int : c = CeilDiv(d, 5) /\ c > 0
    BY <1>1 DEF CeilDiv
<1>4. PICK w \in Int : w = ctx.RequestLoadWeight * c
    BY DEF Weights
<1>5. Terms(ctx, load, hit, chunks, d, p, w)
    BY <1>1, <1>2, <1>3, <1>4 DEF Score, Terms
<1>6. d > 0 /\ p > 0 /\ c > 0
    BY <1>1, <1>2, <1>3
<1>7. WITNESS d \in Int, p \in Int, c \in Int, w \in Int
<1>8. QED
    BY <1>4, <1>5, <1>6

\* With no negative weight, a host that is no worse in any count and better
\* in one that has weight has the higher score.
LEMMA ScoreGap ==
    ASSUME NEW ctx, Weights(ctx), NEW load, IsLoad(load),
           NEW hit \in [DOMAIN load -> Int], NEW chunks \in Nat, chunks >= 1,
           ctx.RequestLoadWeight >= 0, ctx.PrefillLoadWeight >= 0, ctx.CacheRadioWeight >= 0,
           NEW o \in DOMAIN load, NEW h \in DOMAIN load,
           load[o].TotalReqs <= load[h].TotalReqs,
           load[o].PromptLength <= load[h].PromptLength,
           hit[o] >= hit[h],
           \/ load[o].TotalReqs < load[h].TotalReqs /\ ctx.RequestLoadWeight > 0
           \/ load[o].PromptLength < load[h].PromptLength /\ ctx.PrefillLoadWeight > 0
           \/ hit[o] > hit[h] /\ ctx.CacheRadioWeight > 0
    PROVE  /\ Score(ctx, load, hit, chunks)[o] \in Int
           /\ Score(ctx, load, hit, chunks)[h] \in Int
           /\ Score(ctx, load, hit, chunks)[o] > Score(ctx, load, hit, chunks)[h]
<1>1. PICK d \in Int, p \in Int, c \in Int, w \in Int :
         /\ d > 0 /\ p > 0 /\ c > 0 /\ w = ctx.RequestLoadWeight * c
         /\ Terms(ctx, load, hit, chunks, d, p, w)
    BY ScoreTerms
<1>2. PICK least \in Int : least = MinQueueSize(load)
    BY Extremes
<1>3. PICK qo \in Int, qh \in Int, po \in Int, ph \in Int :
         /\ qo = RequestLoad(load)[o] /\ qh = RequestLoad(load)[h]
         /\ po = PrefillLoad(load)[o] /\ ph = PrefillLoad(load)[h]
         /\ qh >= qo /\ (load[o].TotalReqs < load[h].TotalReqs => qh > qo)
         /\ ph >= po /\ (load[o].PromptLength < load[h].PromptLength => ph > po)
    <2>1. /\ load[o].TotalReqs \in Int /\ load[h].TotalReqs \in Int
          /\ load[o].PromptLength \in Int /\ load[h].PromptLength \in Int
        BY DEF IsLoad
    <2>2. /\ RequestLoad(load)[o] = load[o].TotalReqs - least
          /\ RequestLoad(load)[h] = load[h].TotalReqs - least
          /\ PrefillLoad(load)[o] = load[o].PromptLength
          /\ PrefillLoad(load)[h] = load[h].PromptLength
        BY <1>2 DEF RequestLoad, PrefillLoad
    <2>3. /\ RequestLoad(load)[o] \in Int /\ RequestLoad(load)[h] \in Int
          /\ PrefillLoad(load)[o] \in Int /\ PrefillLoad(load)[h] \in Int
        BY <1>2, <2>1, <2>2
    <2>4. /\ RequestLoad(load)[h] >= RequestLoad(load)[o]
          /\ load[o].TotalReqs < load[h].TotalReqs =>
                RequestLoad(load)[h] > RequestLoad(load)[o]
        BY <1>2, <2>1, <2>2
    <2>5. /\ PrefillLoad(load)[h] >= PrefillLoad(load)[o]
          /\ load[o].PromptLength < load[h].PromptLength =>
                PrefillLoad(load)[h] > PrefillLoad(load)[o]
        BY <2>1, <2>2
    <2>6. QED
        BY <2>3, <2>4, <2>5
<1>4. PICK wc \in Int, wp \in Int, wr \in Int :
         wc = ctx.CacheRadioWeight /\ wp = ctx.PrefillLoadWeight /\ wr = ctx.RequestLoadWeight
    BY DEF Weights
<1>5. PICK ho \in Int, hh \in Int : ho = hit[o] /\ hh = hit[h]
    OBVIOUS
<1>6. w >= 0 /\ (wr > 0 => w > 0)
    BY <1>1, <1>4, ProductSign
<1>7. PICK Co \in Int, Ch \in Int :
         /\ Co = wc * ho * d * p /\ Ch = wc * hh * d * p
         /\ Co >= Ch /\ (wc > 0 /\ ho > hh => Co > Ch)
    BY <1>1, <1>4, <1>5, WeightedGap
<1>8. PICK Qo \in Int, Qh \in Int :
         /\ Qo = w * qo * chunks * p /\ Qh = w * qh * chunks * p
         /\ Qh >= Qo /\ (w > 0 /\ qh > qo => Qh > Qo)
    <2>1. chunks \in Int /\ chunks > 0 /\ p > 0 /\ w >= 0 /\ qh >= qo
        BY <1>1, <1>3, <1>6
    <2>2. /\ w * qh * chunks * p \in Int /\ w * qo * chunks * p \in Int
          /\ w * qh * chunks * p >= w * qo * chunks * p
          /\ w > 0 /\ qh > qo => w * qh * chunks * p > w * qo * chunks * p
        BY <2>1, WeightedGap
    <2>3. QED
        BY <2>2
<1>9. PICK Po \in Int, Ph \in Int :
         /\ Po = wp * po * chunks * d /\ Ph = wp * ph * chunks * d
         /\ Ph >= Po /\ (wp > 0 /\ ph > po => Ph > Po)
    <2>1. chunks \in Int /\ chunks > 0 /\ d > 0 /\ wp >= 0 /\ ph >= po
        BY <1>1, <1>3, <1>4
    <2>2. /\ wp * ph * chunks * d \in Int /\ wp * po * chunks * d \in Int
          /\ wp * ph * chunks * d >= wp * po * chunks * d
          /\ wp > 0 /\ ph > po => wp * ph * chunks * d > wp * po * chunks * d
        BY <2>1, WeightedGap
    <2>3. QED
        BY <2>2
<1>10. /\ Score(ctx, load, hit, chunks)[o] = Co - Qo - Po
       /\ Score(ctx, load, hit, chunks)[h] = Ch - Qh - Ph
    BY <1>1, <1>3, <1>4, <1>5, <1>7, <1>8, <1>9 DEF Terms
<1>11. Co > Ch \/ Qh > Qo \/ Ph > Po
    BY <1>3, <1>4, <1>5, <1>6, <1>7, <1>8, <1>9
<1>12. QED
    BY <1>7, <1>8, <1>9, <1>10, <1>11

LEMMA ScoreType ==
    ASSUME NEW ctx, Weights(ctx), NEW load, IsLoad(load),
           NEW hit \in [DOMAIN load -> Int], NEW chunks \in Nat, chunks >= 1
    PROVE  Score(ctx, load, hit, chunks) \in [DOMAIN load -> Int]
<1>1. PICK d \in Int, p \in Int, c \in Int, w \in Int :
         Terms(ctx, load, hit, chunks, d, p, w)
    BY ScoreTerms
<1>2. ASSUME NEW x \in DOMAIN load
      PROVE  Score(ctx, load, hit, chunks)[x] \in Int
    <2>1. RequestLoad(load)[x] \in Int /\ PrefillLoad(load)[x] \in Int /\ hit[x] \in Int
        <3>1. /\ RequestLoad(load)[x] \in 0 .. Delta(load)
              /\ PrefillLoad(load)[x] \in 0 .. MaxPromptLength(load)
            BY Normalised
        <3>2. QED
            BY <3>1
    <2>2. PICK q \in Int, f \in Int, k \in Int :
             q = RequestLoad(load)[x] /\ f = PrefillLoad(load)[x] /\ k = hit[x]
        BY <2>1
    <2>3. PICK wc \in Int, wp \in Int : wc = ctx.CacheRadioWeight /\ wp = ctx.PrefillLoadWeight
        BY DEF Weights
    <2>4. Score(ctx, load, hit, chunks)[x] = wc * k * d * p - w * q * chunks * p - wp * f * chunks * d
        BY <1>1, <2>2, <2>3 DEF Terms
    <2>5. QED
        BY <2>4
<1>3. Score(ctx, load, hit, chunks) = [x \in DOMAIN load |-> Score(ctx, load, hit, chunks)[x]]
    BY DEF Score
<1>4. QED
    BY <1>2, <1>3

\* There is a set of candidates, and each is a set of as many hosts as
\* candidateNum says (inference_lb.go, GetCandidateByStats).
LEMMA CandidateSets ==
    ASSUME NEW ctx, Weights(ctx), NEW load, IsLoad(load),
           NEW hit \in [DOMAIN load -> Int], NEW chunks \in Nat, chunks >= 1
    PROVE  /\ UNION GetCandidateByStats(ctx, load, hit, chunks) # {}
           /\ UNION GetCandidateByStats(ctx, load, hit, chunks) \subseteq DOMAIN load
<1>1. PICK S : S = DOMAIN load /\ IsFiniteSet(S) /\ S # {}
    BY DEF IsLoad
<1>2. Cardinality(S) \in Nat /\ Cardinality(S) >= 1
    <2>1. Cardinality(S) \in Nat
        BY <1>1, FS_CardinalityType
    <2>2. Cardinality(S) # 0
        BY <1>1, FS_EmptySet
    <2>3. QED
        BY <2>1, <2>2
<1>3. PICK score \in [S -> Int] : score = Score(ctx, load, hit, chunks)
    BY <1>1, ScoreType
<1>4. PICK n \in 1 .. Cardinality(S) : n = candidateNum(ctx.CandidatePercent, Cardinality(S))
    BY <1>2, CandidateNum DEF Weights
<1>5. n \in 0 .. Cardinality(S)
    BY <1>2, <1>4
<1>6. PICK C \in SUBSET S : /\ Cardinality(C) = n
                            /\ \A c \in C, o \in S \ C : score[c] >= score[o]
    BY <1>1, <1>5, Best
<1>7. GetCandidateByStats(ctx, load, hit, chunks) = TopHosts(S, score, n)
    BY <1>1, <1>3, <1>4 DEF GetCandidateByStats
<1>8. C \in TopHosts(S, score, n)
    BY <1>6 DEF TopHosts
<1>9. C # {}
    BY <1>2, <1>4, <1>6, FS_EmptySet
<1>10. TopHosts(S, score, n) \subseteq SUBSET S
    BY DEF TopHosts
<1>11. QED
    BY <1>1, <1>7, <1>8, <1>9, <1>10

-----------------------------------------------------------------------------
\* What the metadata center's answers become.

\* The load a host is taken to have is what is reported of it, a negative
\* prompt length counting as none.
LEMMA LoadOfAnswer ==
    ASSUME answers \in Answers, answers.load # QueryError, NEW hosts
    PROVE  LET load == EndpointStats(QueryLoad(answers.load), hosts)
           IN  /\ DOMAIN load = hosts
               /\ \A h \in hosts :
                     /\ Reported(h).QueuedReqNum \in Int /\ Reported(h).PromptLength \in Int
                     /\ load[h].TotalReqs = Reported(h).QueuedReqNum
                     /\ load[h].PromptLength \in Nat
                     /\ load[h].PromptLength = Max({0, Reported(h).PromptLength})
<1>1. PICK answer : answer = answers.load
    OBVIOUS
<1>2. PICK load : load = EndpointStats(QueryLoad(answer), hosts)
    OBVIOUS
<1>3. \A ip \in DOMAIN answer : answer[ip] \in [QueuedReqNum : Int, PromptLength : Int]
    BY <1>1, RoutingConstants DEF RoutingConstants, IsLoadAnswer
<1>4. DOMAIN load = hosts
    BY <1>2 DEF EndpointStats
<1>5. ASSUME NEW h \in hosts
      PROVE  /\ Reported(h).QueuedReqNum \in Int /\ Reported(h).PromptLength \in Int
             /\ load[h].TotalReqs = Reported(h).QueuedReqNum
             /\ load[h].PromptLength \in Nat
             /\ load[h].PromptLength = Max({0, Reported(h).PromptLength})
    <2>1. \A n \in Int : revisePromptLength(n) \in Nat /\ revisePromptLength(n) = Max({0, n})
        <3>1. SUFFICES ASSUME NEW n \in Int
                       PROVE  revisePromptLength(n) \in Nat /\ revisePromptLength(n) = Max({0, n})
            OBVIOUS
        <3>2. Max({0, n}) = IF 0 >= n THEN 0 ELSE n
            BY OfTwo
        <3>3. revisePromptLength(n) = IF n < 0 THEN 0 ELSE n
            BY DEF revisePromptLength
        <3>4. QED
            BY <3>2, <3>3
    <2>2. CASE h.ip \in DOMAIN answer
        <3>1. PICK ip : ip = h.ip
            OBVIOUS
        <3>2. PICK q \in Int, p \in Int : q = answer[ip].QueuedReqNum /\ p = answer[ip].PromptLength
            BY <1>3, <2>2, <3>1
        <3>3. Reported(h) = answer[ip]
            BY <1>1, <2>2, <3>1 DEF Reported
        <3>4. load[h] = QueryLoad(answer)[ip]
            BY <1>2, <2>2, <3>1 DEF EndpointStats, QueryLoad
        <3>5. QueryLoad(answer)[ip] = [TotalReqs |-> q, PromptLength |-> revisePromptLength(p)]
            BY <2>2, <3>1, <3>2 DEF QueryLoad
        <3>6. load[h].TotalReqs = q /\ load[h].PromptLength = revisePromptLength(p)
            BY <3>4, <3>5
        <3>7. QED
            BY <2>1, <3>2, <3>3, <3>6
    <2>3. CASE h.ip \notin DOMAIN answer
        <3>1. Reported(h).QueuedReqNum = 0 /\ Reported(h).PromptLength = 0
            BY <1>1, <2>3 DEF Reported
        <3>2. load[h].TotalReqs = 0 /\ load[h].PromptLength = 0
            BY <1>2, <2>3 DEF EndpointStats, QueryLoad, ZeroStats
        <3>3. Max({0, 0}) = 0
            BY OfTwo
        <3>4. QED
            BY <3>1, <3>2, <3>3
    <2>4. QED
        BY <2>2, <2>3
<1>6. QED
    BY <1>1, <1>2, <1>4, <1>5

\* The length cached at a host: that of the last location with its address.
LEMMA HitsOfAnswer ==
    ASSUME answers \in Answers, NEW r, NEW hosts
    PROVE  LET hit == CacheHitLength(Context(r), PromptHash(r), answers.cache, hosts)
           IN  hit \in [hosts -> Int] /\ \A h \in hosts : hit[h] = CachedAt(r, h)
<1>1. PICK locations : locations = IF Context(r).CacheAwareEnable /\ PromptHash(r) # <<>>
                                   THEN QueryKVCache(answers.cache) ELSE <<>>
    OBVIOUS
<1>2. locations \in Seq([Ip : STRING, Length : Int])
    <2>1. answers.cache # QueryError => answers.cache.Locations \in Seq([Ip : STRING, Length : Int])
        BY RoutingConstants DEF RoutingConstants, IsCacheAnswer
    <2>2. <<>> \in Seq([Ip : STRING, Length : Int])
        OBVIOUS
    <2>3. QED
        BY <1>1, <2>1, <2>2 DEF QueryKVCache
<1>3. PICK hit : hit = CacheHitLength(Context(r), PromptHash(r), answers.cache, hosts)
    OBVIOUS
<1> DEFINE At(h) == {i \in DOMAIN locations : locations[i].Ip = h.ip}
<1>4. hit = [h \in hosts |-> IF At(h) = {} THEN 0 ELSE locations[Max(At(h))].Length]
    BY <1>1, <1>3 DEF CacheHitLength
<1>5. ASSUME NEW h \in hosts
      PROVE  hit[h] \in Int /\ hit[h] = CachedAt(r, h)
    <2>1. CASE At(h) = {}
        <3>1. hit[h] = 0
            BY <1>4, <2>1
        <3>2. CachedAt(r, h) = 0
            BY <1>1, <2>1 DEF CachedAt, QueryKVCache
        <3>3. QED
            BY <3>1, <3>2
    <2>2. CASE At(h) # {}
        <3>1. /\ Context(r).CacheAwareEnable /\ PromptHash(r) # <<>> /\ answers.cache # QueryError
              /\ locations = answers.cache.Locations
            BY <1>1, <2>2 DEF QueryKVCache
        <3>2. CachedAt(r, h) = locations[Max(At(h))].Length
            BY <2>2, <3>1 DEF CachedAt
        <3>3. Max(At(h)) \in At(h)
            <4>1. DOMAIN locations = 1 .. Len(locations) /\ Len(locations) \in Nat
                BY <1>2
            <4>2. IsFiniteSet(1 .. Len(locations)) 
                BY <4>1, FS_Interval
            <4>3. IsFiniteSet(At(h)) /\ At(h) \in SUBSET Int
                BY <4>1, <4>2, FS_Subset
            <4>4. QED
                BY <2>2, <4>3, MinMax
        <3>4. locations[Max(At(h))].Length \in Int
            <4>1. PICK m \in DOMAIN locations : m = Max(At(h))
                BY <3>3
            <4>2. PICK Location : Location = [Ip : STRING, Length : Int]
                OBVIOUS
            <4>3. locations \in Seq(Location)
                BY <1>2, <4>2
            <4>4. locations[m] \in Location
                BY <4>3
            <4>5. locations[m].Length \in Int
                BY <4>2, <4>4
            <4>6. QED
                BY <4>1, <4>5
        <3>5. hit[h] = locations[Max(At(h))].Length
            BY <1>4, <2>2
        <3>6. QED
            BY <3>2, <3>4, <3>5
    <2>3. QED
        BY <2>1, <2>2
<1>6. hit \in [hosts -> Int]
    BY <1>4, <1>5
<1>7. QED
    BY <1>3, <1>5, <1>6

-----------------------------------------------------------------------------
\* The choice of a host.

\* The balancer works on what it was answered for its hosts.
Asked(r) ==
    /\ req[r].load = ClusterStats(Context(r), answers.load, req[r].hosts)
    /\ req[r].hit = CacheHitLength(Context(r), PromptHash(r), answers.cache, req[r].hosts)

Chunks(r) == Max({1, Len(PromptHash(r))})

HostsFinite ==
    /\ \A c \in DOMAIN info : IsFiniteSet(info[c])
    /\ \A c \in DOMAIN clusters :
          /\ IsFiniteSet(clusters[c].hosts)
          /\ \A t \in DOMAIN clusters[c].lbs : IsFiniteSet(clusters[c].lbs[t])
    /\ \A r \in Requests : IsFiniteSet(req[r].hosts)

\* A request has hosts only from the provider or its balancer; from the
\* answers on, what it computed from them stays what they say.
Choice(r) ==
    /\ req[r].pc \in {"idle", "load", "lock", "create"} => req[r].hosts = {}
    /\ req[r].pc \in {"choose", "override"} => Asked(r)
    /\ req[r].pc = "override" => req[r].host \in Candidates(r)
    /\ req[r].pc = "done" /\ req[r].hosts # {} /\ req[r].cfg.Algorithm \in LbFactories
          => req[r].host \in req[r].hosts

ChoiceInv ==
    /\ env \in Envs /\ answers \in Answers
    /\ HostsFinite
    /\ \A r \in Requests : Choice(r)

LEMMA ContextWeights ==
    ASSUME env \in Envs, NEW r, Inited(req[r].cfg)
    PROVE  Weights(Context(r))
<1>1. PICK lb : lb = LBConfigOf(r)
    OBVIOUS
<1>2. lb \in LBConfig \/ lb = NoLBConfig
    BY <1>1, InitedFacts DEF LBConfigOf, FindLbMappingRule
<1>3. Context(r) = LBContext(lb, NoLBConfig, env)
    BY <1>1 DEF Context
<1>4. CASE lb # NoLBConfig
    <2>1. Context(r) = lb
        BY <1>3, <1>4 DEF LBContext
    <2>2. QED
        BY <1>2, <1>4, <2>1 DEF LBConfig, Weights
<1>5. CASE lb = NoLBConfig
    <2>1. PICK percent \in Int : percent = env.percent
        BY RoutingConstants DEF RoutingConstants
    <2>2. PICK load, cache :
             LBContext(lb, NoLBConfig, env) =
                [ LoadAwareEnable |-> load, CacheAwareEnable |-> cache,
                  CandidatePercent |-> percent, RequestLoadWeight |-> 1,
                  PrefillLoadWeight |-> 3, CacheRadioWeight |-> 2 ]
        BY <1>5, <2>1 DEF LBContext
    <2>3. QED
        BY <1>3, <2>2 DEF Weights
<1>6. QED
    BY <1>4, <1>5

LEMMA ChunksType ==
    ASSUME NEW r
    PROVE  Chunks(r) \in Nat /\ Chunks(r) >= 1
<1>1. Len(PromptHash(r)) \in Nat
    <2>1. CASE FilterCacheAware(r)
        <3>1. DOMAIN Prompt = 1 .. Len(Prompt) /\ Len(Prompt) \in Nat
            BY RoutingConstants DEF RoutingConstants
        <3>2. PICK f : f = PromptToHash(Prompt)
            OBVIOUS
        <3>3. f = [i \in 1 .. Len(Prompt) |-> SubSeq(Prompt, 1, i)]
            BY <3>1, <3>2 DEF PromptToHash
        <3>4. Len(f) = Len(Prompt)
            BY <3>1, <3>3
        <3>5. QED
            BY <2>1, <3>1, <3>2, <3>4 DEF PromptHash
    <2>2. CASE ~FilterCacheAware(r)
        <3>1. PromptHash(r) = <<>>
            BY <2>2 DEF PromptHash
        <3>2. Len(<<>>) = 0
            OBVIOUS
        <3>3. QED
            BY <3>1, <3>2
    <2>3. QED
        BY <2>1, <2>2
<1>2. PICK n \in Int : n = Len(PromptHash(r))
    BY <1>1
<1>3. Max({1, n}) = IF 1 >= n THEN 1 ELSE n
    BY OfTwo
<1>4. QED
    BY <1>2, <1>3 DEF Chunks

\* The statistics of a request whose balancer has hosts and got an answer.
LEMMA AskedFacts ==
    ASSUME env \in Envs, answers \in Answers, NEW r, Inited(req[r].cfg),
           IsFiniteSet(req[r].hosts), Asked(r), req[r].load # NoStats
    PROVE  /\ DOMAIN req[r].load = req[r].hosts
           /\ req[r].hosts # {} => IsLoad(req[r].load)
           /\ req[r].hit \in [req[r].hosts -> Int]
           /\ \A h \in req[r].hosts :
                 /\ Reported(h).QueuedReqNum \in Int /\ Reported(h).PromptLength \in Int
                 /\ req[r].load[h].TotalReqs = Reported(h).QueuedReqNum
                 /\ req[r].load[h].PromptLength \in Nat
                 /\ req[r].load[h].PromptLength = Max({0, Reported(h).PromptLength})
                 /\ req[r].hit[h] = CachedAt(r, h)
<1>1. PICK hosts : hosts = req[r].hosts
    OBVIOUS
<1>2. PICK load : load = req[r].load
    OBVIOUS
<1>3. answers.load # QueryError /\ load = EndpointStats(QueryLoad(answers.load), hosts)
    BY <1>1, <1>2 DEF Asked, ClusterStats
<1>4. /\ DOMAIN load = hosts
      /\ \A h \in hosts : /\ Reported(h).QueuedReqNum \in Int /\ Reported(h).PromptLength \in Int
                          /\ load[h].TotalReqs = Reported(h).QueuedReqNum
                          /\ load[h].PromptLength \in Nat
                          /\ load[h].PromptLength = Max({0, Reported(h).PromptLength})
    BY <1>3, LoadOfAnswer
<1>5. PICK hit : hit = req[r].hit
    OBVIOUS
<1>6. hit = CacheHitLength(Context(r), PromptHash(r), answers.cache, hosts)
    BY <1>1, <1>5 DEF Asked
<1>7. hit \in [hosts -> Int] /\ \A h \in hosts : hit[h] = CachedAt(r, h)
    BY <1>6, HitsOfAnswer
<1>8. hosts # {} => IsLoad(load)
    BY <1>1, <1>4 DEF IsLoad
<1>9. QED
    BY <1>1, <1>2, <1>4, <1>5, <1>7, <1>8

\* Whatever was answered, the candidates are hosts of the balancer, and
\* there are some if it has any.
LEMMA CandidatesThere ==
    ASSUME env \in Envs, answers \in Answers, NEW r, Inited(req[r].cfg),
           IsFiniteSet(req[r].hosts), Asked(r)
    PROVE  /\ Candidates(r) \subseteq req[r].hosts
           /\ req[r].hosts # {} => Candidates(r) # {}
<1>1. CASE req[r].load = NoStats
    BY <1>1 DEF Candidates, LBChooseHost
<1>2. CASE req[r].load # NoStats
    <2>1. PICK ctx : ctx = Context(r)
        OBVIOUS
    <2>2. PICK load : load = req[r].load
        OBVIOUS
    <2>3. PICK hit : hit = req[r].hit
        OBVIOUS
    <2>4. PICK chunks : chunks = Chunks(r)
        OBVIOUS
    <2>5. Candidates(r) = UNION GetCandidateByStats(ctx, load, hit, chunks)
        BY <1>2, <2>1, <2>2, <2>3, <2>4 DEF Candidates, LBChooseHost, Chunks
    <2>6. DOMAIN load = req[r].hosts /\ hit \in [DOMAIN load -> Int]
        BY <1>2, <2>2, <2>3, AskedFacts
    <2>7. CASE req[r].hosts = {}
        <3>1. GetCandidateByStats(ctx, load, hit, chunks) \subseteq SUBSET DOMAIN load
            BY DEF GetCandidateByStats, TopHosts
        <3>2. QED
            BY <2>5, <2>6, <2>7, <3>1
    <2>8. CASE req[r].hosts # {}
        <3>1. IsLoad(load)
            BY <1>2, <2>2, <2>8, AskedFacts
        <3>2. Weights(ctx) /\ chunks \in Nat /\ chunks >= 1
            BY <2>1, <2>4, ContextWeights, ChunksType
        <3>3. /\ UNION GetCandidateByStats(ctx, load, hit, chunks) # {}
              /\ UNION GetCandidateByStats(ctx, load, hit, chunks) \subseteq DOMAIN load
            BY <2>6, <3>1, <3>2, CandidateSets
        <3>4. QED
            BY <2>5, <2>6, <3>3
    <2>9. QED
        BY <2>7, <2>8
<1>3. QED
    BY <1>1, <1>2

\* What a request's settings and candidates depend on.
LEMMA SameContext ==
    ASSUME NEW r, SameRequest(r), UNCHANGED <<env, answers>>
    PROVE  /\ Context(r)' = Context(r) /\ PromptHash(r)' = PromptHash(r)
           /\ req'[r].hosts = req[r].hosts /\ SameChoice(r) /\ Asked(r) => Asked(r)'
           /\ req'[r].hosts = req[r].hosts /\ SameChoice(r) => Candidates(r)' = Candidates(r)
<1>1. LBConfigOf(r)' = LBConfigOf(r)
    BY DEF LBConfigOf, SameRequest
<1>2. Context(r)' = Context(r) /\ PromptHash(r)' = PromptHash(r)
    BY <1>1 DEF Context, PromptHash, FilterCacheAware
<1>3. ASSUME req'[r].hosts = req[r].hosts, SameChoice(r), Asked(r)
      PROVE  Asked(r)'
    BY <1>2, <1>3 DEF Asked, SameChoice
<1>4. ASSUME req'[r].hosts = req[r].hosts, SameChoice(r)
      PROVE  Candidates(r)' = Candidates(r)
    BY <1>2, <1>4 DEF Candidates, SameChoice
<1>5. QED
    BY <1>2, <1>3, <1>4

LEMMA SameContextIfUntouched ==
    ASSUME NEW r, req'[r] = req[r], UNCHANGED <<env, answers>>
    PROVE  (Asked(r) => Asked(r)') /\ Candidates(r)' = Candidates(r)
<1>1. SameRequest(r) /\ SameChoice(r) /\ req'[r].hosts = req[r].hosts
    BY DEF SameRequest, SameChoice
<1>2. QED
    BY <1>1, SameContext

LEMMA ChoiceUntouched ==
    ASSUME NEW r, Choice(r), req'[r] = req[r], UNCHANGED <<env, answers>>
    PROVE  Choice(r)'
    BY SameContextIfUntouched DEF Choice

\* The way of a request to its host, step by step.
LEMMA ChoiceStep ==
    ASSUME Shape, ConfigInv, ChoiceInv, NEW r \in Requests, Step(r)
    PROVE  Choice(r)'
<1>1. /\ Choice(r) /\ IsFiniteSet(req[r].hosts) /\ env \in Envs /\ answers \in Answers
      /\ SameRequest(r) /\ UNCHANGED <<env, answers>> /\ Inited(req[r].cfg)
    BY StepEffect DEF ChoiceInv, HostsFinite, ConfigInv
<1>2. CASE LoadCluster(r) \/ LockManager(r) \/ WatchCluster(r) \/ StoreCluster(r)
    <2>1. PICK p : /\ Go(r, p) /\ p \in {"next", "lock", "create", "store"}
                   /\ p \in {"lock", "create"} => req[r].pc \in {"load", "lock"}
        BY <1>2 DEF LoadCluster, LockManager, WatchCluster, StoreCluster, AfterLock
    <2>2. req'[r].pc = p /\ req'[r].hosts = req[r].hosts
        BY <2>1, GoEffect
    <2>3. QED
        BY <1>1, <2>1, <2>2 DEF Choice
<1>3. CASE NoClusterInfo(r)
    <2>1. req[r].pc = "create" /\ Refuse(r, "404")
        BY <1>3 DEF NoClusterInfo
    <2>2. req'[r].pc = "done" /\ req'[r].hosts = req[r].hosts
        BY <2>1, RefuseEffect
    <2>3. QED
        BY <1>1, <2>1, <2>2 DEF Choice
<1>4. CASE NoLoadBalancer(r)
    <2>1. req[r].cfg.Algorithm \notin LbFactories /\ Refuse(r, "404")
        BY <1>4 DEF NoLoadBalancer
    <2>2. req'[r].pc = "done" /\ req'[r].cfg = req[r].cfg
        BY <2>1, RefuseEffect DEF SameRequest
    <2>3. QED
        BY <2>1, <2>2 DEF Choice
<1>5. CASE GetClusterInfo(r) \/ GetCluster(r)
    <2>1. CASE GetClusterInfo(r)
        <3>1. GoWithHosts(r, "watch", Endpoints(ClusterOf(r)))
            BY <2>1 DEF GetClusterInfo, GoWithHosts
        <3>2. req'[r].pc = "watch"
            BY <3>1, HostsEffect
        <3>3. QED
            BY <3>2 DEF Choice
    <2>2. CASE GetCluster(r)
        <3>1. PICK hosts : GoWithHosts(r, "query", hosts)
            BY <2>2 DEF GetCluster, GoWithHosts
        <3>2. req'[r].pc = "query"
            BY <3>1, HostsEffect
        <3>3. QED
            BY <3>2 DEF Choice
    <2>3. QED
        BY <1>5, <2>1, <2>2
<1>6. CASE QueryStats(r)
    <2>1. PICK load : load = ClusterStats(Context(r), answers.load, req[r].hosts)
        OBVIOUS
    <2>2. PICK hit : hit = CacheHitLength(Context(r), PromptHash(r), answers.cache, req[r].hosts)
        OBVIOUS
    <2>3. GoWithStats(r, load, hit)
        BY <1>6, <2>1, <2>2 DEF QueryStats, GoWithStats
    <2>4. /\ req'[r].load = load /\ req'[r].hit = hit
          /\ req'[r].pc = "choose" /\ req'[r].hosts = req[r].hosts
        BY <2>3, StatsEffect
    <2>5. Context(r)' = Context(r) /\ PromptHash(r)' = PromptHash(r)
        BY <1>1, SameContext
    <2>6. Asked(r)'
        BY <1>1, <2>1, <2>2, <2>4, <2>5 DEF Asked
    <2>7. QED
        BY <2>4, <2>6 DEF Choice
<1>7. CASE PickHost(r)
    <2>1. req[r].pc = "choose" /\ Asked(r)
        BY <1>1, <1>7 DEF PickHost, Choice
    <2>2. CASE Candidates(r) = {}
        <3>1. Refuse(r, "404")
            BY <1>7, <2>2 DEF PickHost
        <3>2. req'[r].pc = "done" /\ req'[r].hosts = req[r].hosts
            BY <3>1, RefuseEffect
        <3>3. req[r].hosts = {}
            BY <1>1, <2>1, <2>2, CandidatesThere
        <3>4. QED
            BY <3>2, <3>3 DEF Choice
    <2>3. CASE Candidates(r) # {}
        <3>1. PICK h \in Candidates(r) : GoWithHost(r, h)
            BY <1>7, <2>3 DEF PickHost, GoWithHost
        <3>2. /\ SameChoice(r) /\ req'[r].pc = "override"
              /\ req'[r].hosts = req[r].hosts /\ req'[r].host = h
            BY <3>1, HostEffect
        <3>3. Asked(r)' /\ Candidates(r)' = Candidates(r)
            BY <1>1, <2>1, <3>2, SameContext
        <3>4. QED
            BY <3>1, <3>2, <3>3 DEF Choice
    <2>4. QED
        BY <2>2, <2>3
<1>8. CASE \E ok \in BOOLEAN : OverrideHost(r, ok)
    <2>1. req[r].pc = "override" /\ \E code : Refuse(r, code)
        BY <1>8 DEF OverrideHost
    <2>2. req'[r].pc = "done" /\ req'[r].hosts = req[r].hosts /\ req'[r].host = req[r].host
        BY <2>1, RefuseEffect
    <2>3. req[r].host \in req[r].hosts
        BY <1>1, <2>1, CandidatesThere DEF Choice
    <2>4. QED
        BY <2>2, <2>3 DEF Choice
<1>9. QED
    BY <1>2, <1>3, <1>4, <1>5, <1>6, <1>7, <1>8 DEF Step

\* A step of r that leaves the maps alone and brings r no hosts but finitely
\* many.
LEMMA FiniteUnlessChanged ==
    ASSUME HostsFinite, NEW r \in Requests, Others(r), UNCHANGED <<info, clusters>>,
           IsFiniteSet(req'[r].hosts)
    PROVE  HostsFinite'
    BY DEF HostsFinite, Others

LEMMA FiniteStep ==
    ASSUME ManagerInv, HostsFinite, NEW r \in Requests, Step(r)
    PROVE  HostsFinite'
<1>1. Shape /\ Others(r) /\ IsFiniteSet(req[r].hosts)
    BY StepEffect DEF ManagerInv, HostsFinite
<1>2. CASE LoadCluster(r) \/ LockManager(r) \/ WatchCluster(r)
    <2>1. UNCHANGED <<info, clusters>>
        BY <1>2, WatchStep DEF LoadCluster, LockManager, WatchCluster, manager
    <2>2. PICK p : Go(r, p)
        BY <1>2 DEF LoadCluster, LockManager, WatchCluster
    <2>3. req'[r].hosts = req[r].hosts
        BY <1>1, <2>2, GoEffect
    <2>4. QED
        BY <1>1, <2>1, <2>3, FiniteUnlessChanged
<1>3. CASE NoClusterInfo(r) \/ NoLoadBalancer(r) \/ \E ok \in BOOLEAN : OverrideHost(r, ok)
    <2>1. UNCHANGED <<info, clusters>>
        BY <1>3 DEF NoClusterInfo, NoLoadBalancer, OverrideHost, manager
    <2>2. PICK code : Refuse(r, code)
        BY <1>3 DEF NoClusterInfo, NoLoadBalancer, OverrideHost
    <2>3. req'[r].hosts = req[r].hosts
        BY <1>1, <2>2, RefuseEffect
    <2>4. QED
        BY <1>1, <2>1, <2>3, FiniteUnlessChanged
<1>4. CASE GetClusterInfo(r)
    <2>1. GoWithHosts(r, "watch", Endpoints(ClusterOf(r))) /\ UNCHANGED <<info, clusters>>
        BY <1>4 DEF GetClusterInfo, GoWithHosts, manager
    <2>2. req'[r].hosts = Endpoints(ClusterOf(r))
        BY <1>1, <2>1, HostsEffect
    <2>3. IsFiniteSet(Endpoints(ClusterOf(r)))
        BY FS_EmptySet DEF Endpoints, HostsFinite
    <2>4. QED
        BY <1>1, <2>1, <2>2, <2>3, FiniteUnlessChanged
<1>5. CASE StoreCluster(r)
    <2>1. PICK c : c = ClusterOf(r)
        OBVIOUS
    <2>2. /\ clusters' = Put(clusters, c, NewCluster(req[r].hosts))
          /\ Go(r, "next") /\ UNCHANGED info
        BY <1>5, <2>1 DEF StoreCluster
    <2>3. req'[r].hosts = req[r].hosts
        BY <1>1, <2>2, GoEffect
    <2>4. /\ DOMAIN clusters' = DOMAIN clusters \cup {c}
          /\ clusters'[c] = NewCluster(req[r].hosts)
          /\ \A d \in DOMAIN clusters : d # c => clusters'[d] = clusters[d]
        BY <2>2 DEF Put
    <2>5. clusters'[c].hosts = req[r].hosts /\ DOMAIN clusters'[c].lbs = {}
        <3>1. DOMAIN <<>> = {}
            OBVIOUS
        <3>2. QED
            BY <2>4, <3>1 DEF NewCluster
    <2>6. QED
        BY <1>1, <2>2, <2>3, <2>4, <2>5 DEF HostsFinite, Others
<1>6. CASE GetCluster(r)
    <2>1. PICK c : c = ClusterOf(r)
        OBVIOUS
    <2>2. PICK t : t = req[r].cfg.Algorithm
        OBVIOUS
    <2>3. PICK lbs : lbs = IF t \in DOMAIN clusters[c].lbs THEN clusters[c].lbs
                           ELSE Put(clusters[c].lbs, t, clusters[c].hosts)
        OBVIOUS
    <2>4. /\ req[r].pc = "next"
          /\ clusters' = [clusters EXCEPT ![c].lbs = lbs]
          /\ GoWithHosts(r, "query", lbs[t]) /\ UNCHANGED info
        BY <1>6, <2>1, <2>2, <2>3 DEF GetCluster, GoWithHosts
    <2>5. c \in DOMAIN clusters
        BY <2>1, <2>4 DEF ManagerInv, StoredInv
    <2>6. /\ DOMAIN clusters' = DOMAIN clusters
          /\ clusters'[c].lbs = lbs /\ clusters'[c].hosts = clusters[c].hosts
          /\ \A d \in DOMAIN clusters : d # c => clusters'[d] = clusters[d]
        BY <2>4, <2>5, LbsEffect DEF ManagerInv
    <2>7. t \in DOMAIN lbs /\ \A u \in DOMAIN lbs : IsFiniteSet(lbs[u])
        <3>1. CASE t \in DOMAIN clusters[c].lbs
            BY <2>3, <2>5, <3>1 DEF HostsFinite
        <3>2. CASE t \notin DOMAIN clusters[c].lbs
            <4>1. /\ DOMAIN lbs = DOMAIN clusters[c].lbs \cup {t}
                  /\ lbs[t] = clusters[c].hosts
                  /\ \A u \in DOMAIN clusters[c].lbs : u # t => lbs[u] = clusters[c].lbs[u]
                BY <2>3, <3>2 DEF Put
            <4>2. QED
                BY <2>5, <4>1 DEF HostsFinite
        <3>3. QED
            BY <3>1, <3>2
    <2>8. req'[r].hosts = lbs[t]
        BY <1>1, <2>4, HostsEffect
    <2>9. QED
        BY <1>1, <2>4, <2>6, <2>7, <2>8 DEF HostsFinite, Others
<1>7. CASE QueryStats(r)
    <2>1. UNCHANGED <<info, clusters>> /\ \E load, hit : GoWithStats(r, load, hit)
        BY <1>7 DEF QueryStats, GoWithStats, manager
    <2>2. req'[r].hosts = req[r].hosts
        BY <1>1, <2>1, StatsEffect
    <2>3. QED
        BY <1>1, <2>1, <2>2, FiniteUnlessChanged
<1>8. CASE PickHost(r)
    <2>1. UNCHANGED <<info, clusters>> /\ (Refuse(r, "404") \/ \E h : GoWithHost(r, h))
        BY <1>8 DEF PickHost, GoWithHost, manager
    <2>2. req'[r].hosts = req[r].hosts
        BY <1>1, <2>1, RefuseEffect, HostEffect
    <2>3. QED
        BY <1>1, <2>1, <2>2, FiniteUnlessChanged
<1>9. QED
    BY <1>2, <1>3, <1>4, <1>5, <1>6, <1>7, <1>8 DEF Step

\* The provider's changes bring finite host sets.
LEMMA FiniteChange ==
    ASSUME ManagerInv, HostsFinite, NEW c \in DOMAIN Provided, NEW hosts \in HostSets,
           ChangeEndpoints(c, hosts)
    PROVE  HostsFinite'
<1>1. /\ info' = [info EXCEPT ![c] = hosts]
      /\ clusters' = IF c \in watched THEN updateServers(c, hosts) ELSE clusters
      /\ UNCHANGED req
    BY DEF ChangeEndpoints
<1>2. IsFiniteSet(hosts)
    BY RoutingConstants DEF RoutingConstants
<1>3. \A d \in DOMAIN info' : IsFiniteSet(info'[d])
    BY <1>1, <1>2 DEF HostsFinite
<1>4. CASE clusters' = clusters
    BY <1>1, <1>3, <1>4 DEF HostsFinite
<1>5. CASE clusters' # clusters
    <2>1. PICK lbs : lbs = [t \in DOMAIN clusters[c].lbs |-> hosts]
        OBVIOUS
    <2>2. c \in DOMAIN clusters /\ clusters' = [clusters EXCEPT ![c].lbs = lbs]
        BY <1>1, <1>5, <2>1 DEF updateServers
    <2>3. /\ DOMAIN clusters' = DOMAIN clusters
          /\ clusters'[c].lbs = lbs /\ clusters'[c].hosts = clusters[c].hosts
          /\ \A d \in DOMAIN clusters : d # c => clusters'[d] = clusters[d]
        BY <2>2, LbsEffect DEF ManagerInv
    <2>4. \A t \in DOMAIN lbs : IsFiniteSet(lbs[t])
        BY <1>2, <2>1
    <2>5. QED
        BY <1>1, <1>3, <2>3, <2>4 DEF HostsFinite
<1>6. QED
    BY <1>4, <1>5

LEMMA ChoiceNext ==
    ASSUME ManagerInv, ConfigInv, ChoiceInv, [Next]_vars
    PROVE  ChoiceInv'
<1>1. Shape /\ HostsFinite /\ env \in Envs /\ answers \in Answers /\ \A s \in Requests : Choice(s)
    BY DEF ManagerInv, ChoiceInv
<1>2. ASSUME NEW r \in Requests, Step(r)
      PROVE  ChoiceInv'
    <2>1. Others(r) /\ UNCHANGED <<env, answers>>
        BY <1>1, <1>2, StepEffect
    <2>2. \A s \in Requests : s # r => Choice(s)'
        BY <1>1, <2>1, ChoiceUntouched DEF Others
    <2>3. Choice(r)'
        BY <1>1, <1>2, ChoiceStep
    <2>4. HostsFinite'
        BY <1>1, <1>2, FiniteStep
    <2>5. QED
        BY <1>1, <2>1, <2>2, <2>3, <2>4 DEF ChoiceInv
<1>3. ASSUME NEW r \in Requests, NEW in \in Inputs, DecodeRequest(r, in)
      PROVE  ChoiceInv'
    <2>1. req[r].pc = "idle" /\ UNCHANGED <<env, answers, info, clusters>>
        BY <1>3 DEF DecodeRequest, static, manager
    <2>2. Others(r) /\ req'[r].pc \in {"load", "done"} /\ req'[r].hosts = req[r].hosts
        BY <1>1, <1>3, DecodeEffect
    <2>3. req[r].hosts = {}
        BY <1>1, <2>1 DEF Choice
    <2>4. \A s \in Requests : s # r => Choice(s)'
        BY <1>1, <2>1, <2>2, ChoiceUntouched DEF Others
    <2>5. Choice(r)'
        BY <2>2, <2>3 DEF Choice
    <2>6. HostsFinite'
        BY <1>1, <2>1, <2>2, FiniteUnlessChanged DEF HostsFinite
    <2>7. QED
        BY <1>1, <2>1, <2>4, <2>5, <2>6 DEF ChoiceInv
<1>4. ASSUME UNCHANGED <<env, answers, info, clusters, req>>
      PROVE  ChoiceInv'
    <2>1. \A s \in Requests : Choice(s)'
        BY <1>1, <1>4, ChoiceUntouched
    <2>2. HostsFinite'
        BY <1>1, <1>4 DEF HostsFinite
    <2>3. QED
        BY <1>1, <1>4, <2>1, <2>2 DEF ChoiceInv
<1>5. ASSUME NEW c \in Configs, PushConfig(c)
      PROVE  ChoiceInv'
    <2>1. UNCHANGED <<env, answers, info, clusters, req>>
        BY <1>5, Zenon DEF PushConfig, static
    <2>2. QED
        BY <1>4, <2>1
<1>6. ASSUME NEW c \in DOMAIN Provided, NEW hosts \in HostSets, ChangeEndpoints(c, hosts)
      PROVE  ChoiceInv'
    <2>1. UNCHANGED <<env, answers, req>>
        BY <1>6 DEF ChangeEndpoints, static
    <2>2. \A s \in Requests : Choice(s)'
        BY <1>1, <2>1, ChoiceUntouched
    <2>3. HostsFinite'
        BY <1>1, <1>6, FiniteChange
    <2>4. QED
        BY <1>1, <2>1, <2>2, <2>3 DEF ChoiceInv
<1>7. ASSUME UNCHANGED vars
      PROVE  ChoiceInv'
    BY <1>4, <1>7 DEF vars
<1>8. QED
    BY <1>2, <1>3, <1>5, <1>6, <1>7 DEF Next

LEMMA ChoiceInit == Init => ChoiceInv
<1>1. SUFFICES ASSUME Init
               PROVE  ChoiceInv
    OBVIOUS
<1>2. /\ env \in Envs /\ answers \in Answers /\ info = Provided
      /\ DOMAIN clusters = {} /\ req = [r \in Requests |-> Idle]
    <2>1. DOMAIN <<>> = {}
        OBVIOUS
    <2>2. QED
        BY <1>1, <2>1 DEF Init
<1>3. \A r \in Requests : req[r].pc = "idle" /\ req[r].hosts = {}
    BY <1>2 DEF Idle
<1>4. \A c \in DOMAIN info : IsFiniteSet(info[c])
    BY <1>2, RoutingConstants DEF RoutingConstants
<1>5. HostsFinite
    BY <1>2, <1>3, <1>4, FS_EmptySet DEF HostsFinite
<1>6. \A r \in Requests : Choice(r)
    BY <1>3 DEF Choice
<1>7. QED
    BY <1>2, <1>5, <1>6 DEF ChoiceInv

LEMMA Chosen == Spec => []ChoiceInv
<1>1. ManagerInv /\ ConfigInv /\ ChoiceInv /\ [Next]_vars => ChoiceInv'
    BY ChoiceNext
<1>2. QED
    BY <1>1, ChoiceInit, Managed, Configured, PTL DEF Spec

\* Whatever the metadata center answers, with whatever weights and
\* percentage, a balancer with hosts finds a candidate among them.
THEOREM RoutedAnyway == Spec => []RoutedWhateverAnswered
<1>1. ChoiceInv => RoutedWhateverAnswered
    BY DEF ChoiceInv, Choice, RoutedWhateverAnswered
<1>2. QED
    BY <1>1, Chosen, PTL

\* For any counts reported, the negative ones included, and any number of
\* hosts, both loads are fractions of their scales.
THEOREM LoadsAreFractions == Spec => []LoadsNormalised
<1>1. ASSUME ConfigInv, ChoiceInv
      PROVE  LoadsNormalised
    <2>1. SUFFICES ASSUME NEW r \in Requests, ByStats(r), NEW h \in req[r].hosts
                   PROVE  /\ RequestLoad(req[r].load)[h] \in 0 .. Delta(req[r].load)
                          /\ PrefillLoad(req[r].load)[h] \in 0 .. MaxPromptLength(req[r].load)
        BY DEF LoadsNormalised
    <2>2. /\ env \in Envs /\ answers \in Answers /\ Inited(req[r].cfg)
          /\ IsFiniteSet(req[r].hosts) /\ Asked(r) /\ req[r].load # NoStats
        BY <1>1, <2>1 DEF ByStats, ChoiceInv, Choice, HostsFinite, ConfigInv
    <2>3. DOMAIN req[r].load = req[r].hosts /\ IsLoad(req[r].load)
        BY <2>1, <2>2, AskedFacts
    <2>4. QED
        BY <2>1, <2>3, Normalised
<1>2. QED
    BY <1>1, Configured, Chosen, PTL

\* The least of three numbers is at least zero only if all are.
LEMMA LeastOfThree ==
    ASSUME NEW a \in Int, NEW b \in Int, NEW c \in Int, Min({a, b, c}) >= 0
    PROVE  a >= 0 /\ b >= 0 /\ c >= 0
<1>1. IsFiniteSet({a, b, c})
    <2>1. IsFiniteSet({a})
        BY FS_Singleton
    <2>2. IsFiniteSet({a} \cup {b})
        BY <2>1, FS_AddElement
    <2>3. IsFiniteSet({a} \cup {b} \cup {c})
        BY <2>2, FS_AddElement
    <2>4. {a} \cup {b} \cup {c} = {a, b, c}
        OBVIOUS
    <2>5. QED
        BY <2>3, <2>4
<1>2. {a, b, c} \in SUBSET Int /\ {a, b, c} # {}
    OBVIOUS
<1>3. PICK m : m = Min({a, b, c})
    OBVIOUS
<1>4. m \in Int /\ m >= 0 /\ m <= a /\ m <= b /\ m <= c
    BY <1>1, <1>2, <1>3, MinMax
<1>5. QED
    BY <1>4

\* A host that beats the one chosen is a candidate too.
LEMMA BetterIsCandidate ==
    ASSUME ConfigInv, ChoiceInv, NEW r \in Requests, ByStats(r),
           NEW C \in GetCandidateByStats(Context(r), req[r].load, req[r].hit, Chunks(r)),
           req[r].host \in C, req[r].hosts # {},
           Context(r).RequestLoadWeight >= 0, Context(r).PrefillLoadWeight >= 0,
           Context(r).CacheRadioWeight >= 0,
           NEW o \in req[r].hosts, Better(r, o, req[r].host)
    PROVE  o \in C /\ o # req[r].host
<1>1. /\ env \in Envs /\ answers \in Answers /\ Inited(req[r].cfg)
      /\ IsFiniteSet(req[r].hosts) /\ Asked(r) /\ req[r].load # NoStats
    BY DEF ByStats, ChoiceInv, Choice, HostsFinite, ConfigInv
<1>2. PICK ctx : ctx = Context(r)
    OBVIOUS
<1>3. PICK load : load = req[r].load
    OBVIOUS
<1>4. PICK hit : hit = req[r].hit
    OBVIOUS
<1>5. PICK chunks : chunks = Chunks(r)
    OBVIOUS
<1>6. PICK h : h = req[r].host
    OBVIOUS
<1>7. /\ DOMAIN load = req[r].hosts /\ IsLoad(load) /\ hit \in [DOMAIN load -> Int]
      /\ \A x \in DOMAIN load :
            /\ load[x].TotalReqs = Reported(x).QueuedReqNum
            /\ load[x].PromptLength = Max({0, Reported(x).PromptLength})
            /\ hit[x] = CachedAt(r, x)
    BY <1>1, <1>3, <1>4, AskedFacts
<1>8. Weights(ctx) /\ chunks \in Nat /\ chunks >= 1
    BY <1>1, <1>2, <1>5, ContextWeights, ChunksType
<1>9. PICK score : score = Score(ctx, load, hit, chunks)
    OBVIOUS
<1>10. C \in SUBSET DOMAIN load /\ \A c \in C, x \in DOMAIN load \ C : score[c] >= score[x]
    BY <1>2, <1>3, <1>4, <1>5, <1>9 DEF GetCandidateByStats, TopHosts
<1>11. h \in DOMAIN load /\ o \in DOMAIN load
    BY <1>6, <1>7, <1>10
<1>12. /\ load[o].TotalReqs <= load[h].TotalReqs
       /\ load[o].PromptLength <= load[h].PromptLength
       /\ hit[o] >= hit[h]
       /\ \/ load[o].TotalReqs < load[h].TotalReqs /\ ctx.RequestLoadWeight > 0
          \/ load[o].PromptLength < load[h].PromptLength /\ ctx.PrefillLoadWeight > 0
          \/ hit[o] > hit[h] /\ ctx.CacheRadioWeight > 0
    BY <1>2, <1>6, <1>7, <1>11 DEF Better
<1>13. score[o] \in Int /\ score[h] \in Int /\ score[o] > score[h]
    BY <1>2, <1>7, <1>8, <1>9, <1>11, <1>12, ScoreGap
<1>14. o \in C
    BY <1>6, <1>10, <1>11, <1>13
<1>15. QED
    BY <1>6, <1>13, <1>14

\* However many hosts there are and whatever is reported of them, with no
\* weight negative the hosts that beat the chosen one on every count are
\* fewer than the percentage of candidates.
THEOREM AmongTheBest == Spec => []FewBetterHosts
<1>1. ASSUME ConfigInv, ChoiceInv
      PROVE  FewBetterHosts
    <2>1. SUFFICES ASSUME NEW r \in Requests, ByStats(r),
                          Min({Context(r).RequestLoadWeight, Context(r).PrefillLoadWeight,
                               Context(r).CacheRadioWeight}) >= 0,
                          NEW better,
                          better = {o \in req[r].hosts : Better(r, o, req[r].host)}
                   PROVE  \/ better = {}
                          \/ Cardinality(better) * 100
                                < Cardinality(req[r].hosts) * Context(r).CandidatePercent
        BY DEF FewBetterHosts
    <2>2. /\ env \in Envs /\ answers \in Answers /\ Inited(req[r].cfg)
          /\ IsFiniteSet(req[r].hosts) /\ Asked(r) /\ req[r].load # NoStats
          /\ req[r].host \in Candidates(r)
        BY <1>1, <2>1 DEF ByStats, ChoiceInv, Choice, HostsFinite, ConfigInv
    <2>3. PICK C \in GetCandidateByStats(Context(r), req[r].load, req[r].hit, Chunks(r)) :
             req[r].host \in C
        BY <2>2 DEF Candidates, LBChooseHost, Chunks
    <2>4. req[r].hosts # {} /\ DOMAIN req[r].load = req[r].hosts
        BY <2>2, CandidatesThere, AskedFacts
    <2>5. Weights(Context(r))
        BY <2>2, ContextWeights
    <2>6. /\ Context(r).RequestLoadWeight >= 0 /\ Context(r).PrefillLoadWeight >= 0
          /\ Context(r).CacheRadioWeight >= 0
        BY <2>1, <2>5, LeastOfThree DEF Weights
    <2>7. better \in SUBSET (C \ {req[r].host})
        BY <1>1, <2>1, <2>3, <2>4, <2>6, BetterIsCandidate
    <2>8. PICK n \in Nat : n = Cardinality(req[r].hosts) /\ n >= 1
        <3>1. Cardinality(req[r].hosts) \in Nat
            BY <2>2, FS_CardinalityType
        <3>2. Cardinality(req[r].hosts) # 0
            BY <2>2, <2>4, FS_EmptySet
        <3>3. QED
            BY <3>1, <3>2
    <2>9. PICK percent \in Int : percent = Context(r).CandidatePercent
        BY <2>5 DEF Weights
    <2>10. PICK k \in 1 .. n : k = candidateNum(percent, n) /\ (k > 1 => k * 100 <= n * percent)
        BY <2>8, CandidateNum
    <2>11. C \in SUBSET req[r].hosts /\ Cardinality(C) = k
        BY <2>3, <2>4, <2>8, <2>9, <2>10 DEF GetCandidateByStats, TopHosts
    <2>12. IsFiniteSet(C)
        BY <2>2, <2>11, FS_Subset
    <2>13. IsFiniteSet(C \ {req[r].host}) /\ Cardinality(C \ {req[r].host}) = k - 1
        BY <2>3, <2>11, <2>12, FS_RemoveElement
    <2>14. IsFiniteSet(better) /\ Cardinality(better) <= k - 1
        BY <2>7, <2>13, FS_Subset
    <2>15. PICK b \in Nat : b = Cardinality(better)
        BY <2>14, FS_CardinalityType
    <2>16. b = 0 => better = {}
        BY <2>14, <2>15, FS_EmptySet
    <2>17. b # 0 => b * 100 < n * percent
        <3>1. PICK np \in Int : np = n * percent
            OBVIOUS
        <3>2. b # 0 => b * 100 < np
            BY <2>10, <2>14, <2>15, <3>1
        <3>3. QED
            BY <3>1, <3>2
    <2>18. QED
        BY <2>8, <2>9, <2>15, <2>16, <2>17
<1>2. QED
    BY <1>1, Configured, Chosen, PTL
=============================================================================
