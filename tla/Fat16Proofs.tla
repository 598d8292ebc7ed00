---------------------------- MODULE Fat16Proofs ----------------------------
(***************************************************************************)
(* Proofs about Fat16: what the search for a path finds and what reads     *)
(* copy, on every sound image and for every size of name and cluster.      *)
(***************************************************************************)
EXTENDS Fat16, ListOpsProofs

C == ClusterSize

-----------------------------------------------------------------------------
(* Positions, clusters and places in them.                                 *)

LEMMA SizeOfCluster == C \in Nat /\ C >= 1
BY Fat16Assumption DEF C

\* A position is so many clusters and a place in the next one.
LEMMA Division ==
  ASSUME NEW n \in Nat
  PROVE  /\ n \div C \in Nat /\ n % C \in 0 .. C - 1
         /\ n = C * (n \div C) + (n % C)
BY SizeOfCluster

\* There is one such cluster and place.
LEMMA DivisionIs ==
  ASSUME NEW q \in Nat, NEW r \in 0 .. C - 1
  PROVE  (C * q + r) \div C = q /\ (C * q + r) % C = r
<1> DEFINE n == C * q + r
           a == n \div C
           b == n % C
<1>1. n \in Nat /\ C \in Nat /\ C >= 1
  BY SizeOfCluster
<1>2. a \in Nat /\ b \in 0 .. C - 1 /\ C * q + r = C * a + b
  BY <1>1, Division
<1> HIDE DEF a, b
<1>3. ~ (a < q)
  <2> SUFFICES ASSUME a < q PROVE FALSE
    OBVIOUS
  <2>1. C * (a + 1) <= C * q
    BY <1>1, <1>2
  <2> QED BY <1>1, <1>2, <2>1
<1>4. ~ (q < a)
  <2> SUFFICES ASSUME q < a PROVE FALSE
    OBVIOUS
  <2>1. C * (q + 1) <= C * a
    BY <1>1, <1>2
  <2> QED BY <1>1, <1>2, <2>1
<1>5. a = q
  BY <1>2, <1>3, <1>4
<1> QED BY <1>1, <1>2, <1>5 DEF a, b

\* So places go up to the end of a cluster, and then the next cluster begins.
LEMMA DivisionNext ==
  ASSUME NEW n \in Nat
  PROVE  /\ (n % C) + 1 < C => (n + 1) \div C = n \div C /\ (n + 1) % C = (n % C) + 1
         /\ ~ ((n % C) + 1 < C) => (n + 1) \div C = (n \div C) + 1 /\ (n + 1) % C = 0
<1> DEFINE q == n \div C
           r == n % C
<1>1. q \in Nat /\ r \in 0 .. C - 1 /\ n = C * q + r /\ C \in Nat /\ C >= 1
  BY Division, SizeOfCluster
<1> HIDE DEF q, r
<1>2. CASE r + 1 < C
  <2>1. r + 1 \in 0 .. C - 1 /\ n + 1 = C * q + (r + 1)
    BY <1>1, <1>2
  <2>2. (n + 1) \div C = q /\ (n + 1) % C = r + 1
    BY <1>1, <2>1, DivisionIs
  <2> QED BY <1>2, <2>2 DEF q, r
<1>3. CASE ~ (r + 1 < C)
  <2>1. 0 \in 0 .. C - 1 /\ q + 1 \in Nat /\ C * (q + 1) = C * q + C /\ r + 1 = C
    BY <1>1, <1>3
  <2>2. n + 1 = C * (q + 1) + 0
    BY <1>1, <2>1
  <2>3. (n + 1) \div C = q + 1 /\ (n + 1) % C = 0
    BY <2>1, <2>2, DivisionIs
  <2> QED BY <1>3, <2>3 DEF q, r
<1> QED BY <1>2, <1>3

\* The clusters of a file hold its bytes, and none of them is empty.
LEMMA ClustersHold ==
  ASSUME NEW n \in Nat
  PROVE  /\ ClustersFor(n) \in Nat /\ n <= C * ClustersFor(n)
         /\ C * ClustersFor(n) <= n + C - 1
<1>1. n + C - 1 \in Nat /\ C \in Nat /\ C >= 1
  BY SizeOfCluster
<1> DEFINE q == (n + C - 1) \div C
           r == (n + C - 1) % C
<1>2. q \in Nat /\ r \in 0 .. C - 1 /\ n + C - 1 = C * q + r
  BY <1>1, Division
<1>3. ClustersFor(n) = q
  BY DEF ClustersFor, C
<1> HIDE DEF q, r
<1>4. C * q \in Nat
  BY <1>1, <1>2
<1> QED BY <1>1, <1>2, <1>3, <1>4

-----------------------------------------------------------------------------
(* Reading along a chain.                                                  *)

\* The clusters of an entry's file.
IsChainOf(c, im, e) ==
  c \in Chains(ClustersFor(e.file_size)) /\ IsChain(c, im.fat, e.cluster_index)

\* The k-th byte of a file, and its first n.
ByteOf(c, k) == [cluster |-> c[(k - 1) \div C + 1], at |-> (k - 1) % C]
Beginning(c, n) == [k \in 1 .. n |-> ByteOf(c, k)]

\* What that says of the walk and of the size: c is long enough, and no longer.
Leads(c, im, e) ==
  /\ Len(c) \in Nat /\ c \in [1 .. Len(c) -> Cluster]
  /\ e.file_size <= C * Len(c) /\ C * Len(c) <= e.file_size + C - 1
  /\ Len(c) # 0 => c[1] = e.cluster_index
  /\ \A k \in 1 .. Len(c) : c[k] \in Cluster /\ ~ IsEnd(c[k]) /\ ~ (c[k] < 2)
  /\ \A k \in 1 .. Len(c) - 1 : im.fat[c[k]] = c[k + 1]

\* What is needed of a chain: different clusters, each leading to the next.
LEMMA ChainFacts ==
  ASSUME NEW im, NEW e, e.file_size \in Nat, NEW c, IsChainOf(c, im, e)
  PROVE  Leads(c, im, e)
<1> DEFINE n == ClustersFor(e.file_size)
<1>1. n \in Nat /\ c \in [1 .. n -> Cluster]
  BY ClustersHold DEF IsChainOf, Chains
<1> HIDE DEF n
<1>2. c \in Seq(Cluster) /\ Len(c) = n
  BY <1>1
<1>3. c # <<>> <=> Len(c) # 0
  BY <1>2, EmptySeq
<1>4. \A k \in 1 .. Len(c) : c[k] \in Cluster /\ ~ IsEnd(c[k]) /\ ~ (c[k] < 2)
  <2>1. \A i \in Cluster : ~ IsEnd(i) /\ ~ (i < 2)
    BY Fat16Assumption DEF Cluster, IsEnd, LastLink
  <2> QED BY <1>1, <1>2, <2>1
<1>5. \A k \in 1 .. Len(c) - 1 : im.fat[c[k]] = c[k + 1]
  BY <1>2, <1>3 DEF IsChainOf, IsChain
<1>6. Len(c) # 0 => c[1] = e.cluster_index
  BY <1>3 DEF IsChainOf, IsChain
<1> QED BY <1>1, <1>2, <1>4, <1>5, <1>6, ClustersHold DEF n, Leads

\* Walk is the last value of any function that walks.
LEMMA WalkIs ==
  ASSUME NEW first, NEW count \in Nat, NEW at,
         at = [k \in 0 .. count |->
                 IF k = 0 THEN first
                 ELSE IF IsEnd(at[k - 1]) THEN at[k - 1] ELSE get_cluster_value(at[k - 1])]
  PROVE  Walk(first, count) = at[count]
<1> DEFINE index[k \in 0 .. count] ==
             IF k = 0 THEN first
             ELSE IF IsEnd(index[k - 1]) THEN index[k - 1] ELSE get_cluster_value(index[k - 1])
<1>1. index = [k \in 0 .. count |->
                 IF k = 0 THEN first
                 ELSE IF IsEnd(index[k - 1]) THEN index[k - 1] ELSE get_cluster_value(index[k - 1])]
  OBVIOUS
<1>2. Walk(first, count) = index[count]
  BY DEF Walk
<1> HIDE DEF index
<1> DEFINE D == {k \in 0 .. count : index[k] # at[k]}
<1>3. D = {}
  <2> SUFFICES ASSUME D # {} PROVE FALSE
    OBVIOUS
  <2>1. D \in SUBSET Nat
    OBVIOUS
  <2> DEFINE m == Min(D)
  <2>2. m \in D /\ \A j \in D : m <= j
    BY <2>1, MinOfNats
  <2> HIDE DEF m, D
  <2>3. m \in 0 .. count /\ index[m] # at[m] /\ \A j \in 0 .. count : j < m => index[j] = at[j]
    BY <2>2 DEF D
  <2>4. m # 0
    BY <1>1, <2>3
  <2>5. m - 1 \in 0 .. count /\ index[m - 1] = at[m - 1]
    BY <2>3, <2>4
  <2> QED BY <1>1, <2>3, <2>4, <2>5
<1>4. count \in 0 .. count
  OBVIOUS
<1> QED BY <1>2, <1>3, <1>4

\* Along a chain the walk goes from a cluster to one further on.
LEMMA WalkOnChain ==
  ASSUME NEW e, NEW c, Leads(c, image, e),
         NEW m \in 1 .. Len(c), NEW j \in Nat, m + j <= Len(c)
  PROVE  Walk(c[m], j) = c[m + j]
<1> DEFINE at == [k \in 0 .. j |-> c[m + k]]
           walk == [k \in 0 .. j |->
                 IF k = 0 THEN c[m]
                 ELSE IF IsEnd(at[k - 1]) THEN at[k - 1] ELSE get_cluster_value(at[k - 1])]
<1>1. /\ Len(c) \in Nat
      /\ \A k \in 1 .. Len(c) : ~ IsEnd(c[k])
      /\ \A k \in 1 .. Len(c) - 1 : get_cluster_value(c[k]) = c[k + 1]
  BY DEF Leads, get_cluster_value
<1>2. \A k \in 0 .. j : at[k] = walk[k]
  <2> TAKE k \in 0 .. j
  <2>1. CASE k = 0
    BY <2>1
  <2>2. CASE k # 0
    <3>1. k - 1 \in 0 .. j /\ m + (k - 1) \in 1 .. Len(c) - 1 /\ m + (k - 1) \in 1 .. Len(c)
          /\ (m + (k - 1)) + 1 = m + k
      BY <1>1, <2>2
    <3>2. at[k - 1] = c[m + (k - 1)] /\ at[k] = c[m + k]
      BY <3>1
    <3>3. walk[k] = IF IsEnd(at[k - 1]) THEN at[k - 1] ELSE get_cluster_value(at[k - 1])
      BY <2>2
    <3> HIDE DEF at, walk
    <3> QED BY <1>1, <3>1, <3>2, <3>3
  <2> QED BY <2>1, <2>2
<1>3. at = [k \in 0 .. j |-> at[k]] /\ walk = [k \in 0 .. j |-> walk[k]]
  OBVIOUS
<1>4. at[j] = c[m + j]
  OBVIOUS
<1> HIDE DEF at
<1>5. at = walk
  <2> HIDE DEF walk
  <2> QED BY <1>2, <1>3
<1>6. Walk(c[m], j) = at[j]
  BY <1>5, WalkIs
<1> QED BY <1>4, <1>6

\* A number of bytes that needs no more clusters than follow.
LEMMA BytesInClusters ==
  ASSUME NEW n \in Nat, NEW left \in Nat, left <= C * n, NEW k \in 1 .. left
  PROVE  (k - 1) \div C \in Nat /\ (k - 1) \div C < n /\ (k - 1) % C \in 0 .. C - 1
<1> DEFINE q == (k - 1) \div C
           r == (k - 1) % C
<1>1. q \in Nat /\ r \in 0 .. C - 1 /\ k - 1 = C * q + r /\ C \in Nat /\ C >= 1
  BY Division, SizeOfCluster
<1> HIDE DEF q, r
<1>2. ~ (n <= q)
  <2> SUFFICES ASSUME n <= q PROVE FALSE
    OBVIOUS
  <2>1. C * n <= C * q /\ C * n \in Nat /\ C * q \in Nat
    BY <1>1
  <2> QED BY <1>1, <2>1
<1> QED BY <1>1, <1>2 DEF q, r

\* A read of nothing copies nothing.
LEMMA CopiedNothing == ASSUME NEW i PROVE CopiedFrom(i, 0) = <<>>
<1> DEFINE cluster(k) == Walk(i, (k - 1) \div ClusterSize)
           K == {k \in 1 .. 0 : ~ IsEnd(cluster(k))}
<1>1. K = {}
  OBVIOUS
<1>2. Cardinality(K) = 0
  BY <1>1, FS_EmptySet
<1>3. CopiedFrom(i, 0) = [k \in 1 .. Cardinality(K) |->
                            [cluster |-> cluster(k), at |-> (k - 1) % ClusterSize]]
  BY DEF CopiedFrom
<1> HIDE DEF K
<1> QED BY <1>2, <1>3

\* The loop copies all that is left from the clusters that follow.
LEMMA CopiedFromIs ==
  ASSUME NEW e, NEW c, Leads(c, image, e),
         NEW m \in 1 .. Len(c), NEW left \in Nat, left <= C * (Len(c) - m + 1)
  PROVE  CopiedFrom(c[m], left) =
           [k \in 1 .. left |-> [cluster |-> c[m + ((k - 1) \div C)], at |-> (k - 1) % C]]
<1> DEFINE cluster(k) == Walk(c[m], (k - 1) \div ClusterSize)
           K == {k \in 1 .. left : ~ IsEnd(cluster(k))}
<1>1. Len(c) \in Nat /\ \A k \in 1 .. Len(c) : ~ IsEnd(c[k])
  BY DEF Leads
<1>2. \A k \in 1 .. left : cluster(k) = c[m + ((k - 1) \div C)] /\ ~ IsEnd(cluster(k))
  <2> TAKE k \in 1 .. left
  <2> DEFINE q == (k - 1) \div C
  <2>1. q \in Nat /\ q < Len(c) - m + 1
    BY <1>1, BytesInClusters
  <2>2. cluster(k) = Walk(c[m], q)
    BY DEF C
  <2> HIDE DEF q, cluster
  <2>3. m + q <= Len(c) /\ m + q \in 1 .. Len(c)
    BY <1>1, <2>1
  <2>4. cluster(k) = c[m + q]
    BY <2>1, <2>2, <2>3, WalkOnChain
  <2> QED BY <1>1, <2>3, <2>4 DEF q
<1>3. K = 1 .. left
  BY <1>2
<1>4. Cardinality(1 .. left) = left
  <2>1. 1 \in Int /\ left \in Int
    OBVIOUS
  <2>2. Cardinality(1 .. left) = IF 1 > left THEN 0 ELSE left - 1 + 1
    BY <2>1, FS_Interval
  <2> QED BY <2>2
<1>5. CopiedFrom(c[m], left) = [k \in 1 .. Cardinality(K) |->
                            [cluster |-> cluster(k), at |-> (k - 1) % ClusterSize]]
  BY DEF CopiedFrom
<1> HIDE DEF K, cluster
<1> QED BY <1>2, <1>3, <1>4, <1>5 DEF C

\* Whole clusters before a place do not change the place.
LEMMA DivisionPlus ==
  ASSUME NEW q \in Nat, NEW n \in Nat
  PROVE  (C * q + n) \div C = q + (n \div C) /\ (C * q + n) % C = n % C
<1> DEFINE a == n \div C
           b == n % C
<1>1. a \in Nat /\ b \in 0 .. C - 1 /\ n = C * a + b /\ C \in Nat
  BY Division, SizeOfCluster
<1> HIDE DEF a, b
<1>2. q + a \in Nat /\ C * (q + a) = C * q + C * a
  BY <1>1
<1>3. (C * (q + a) + b) \div C = q + a /\ (C * (q + a) + b) % C = b
  BY <1>1, <1>2, DivisionIs
<1>4. C * q + n = C * (q + a) + b
  BY <1>1, <1>2
<1> QED BY <1>3, <1>4 DEF a, b

\* A sequence of n elements, whatever they are.
HasLength(s, n) == s = [k \in 1 .. n |-> s[k]]

\* One sequence after another.
LEMMA Joined ==
  ASSUME NEW a \in Nat, NEW b \in Nat, NEW s, NEW t,
         HasLength(s, a), HasLength(t, b)
  PROVE  s \o t = [k \in 1 .. a + b |-> IF k <= a THEN s[k] ELSE t[k - a]]
<1> DEFINE S == {s[k] : k \in 1 .. a} \cup {t[k] : k \in 1 .. b}
<1>1. \A k \in 1 .. a : s[k] \in S
  OBVIOUS
<1>2. \A k \in 1 .. b : t[k] \in S
  OBVIOUS
<1> HIDE DEF S
<1>3. s \in [1 .. a -> S] /\ t \in [1 .. b -> S]
  BY <1>1, <1>2 DEF HasLength
<1>4. s \in Seq(S) /\ t \in Seq(S) /\ Len(s) = a /\ Len(t) = b
  BY <1>3
<1>5. /\ s \o t \in Seq(S) /\ Len(s \o t) = a + b
      /\ \A k \in 1 .. a + b : (s \o t)[k] = IF k <= a THEN s[k] ELSE t[k - a]
  <2>1. /\ s \o t \in Seq(S) /\ Len(s \o t) = Len(s) + Len(t)
        /\ \A k \in 1 .. Len(s) + Len(t) : (s \o t)[k] = IF k <= Len(s) THEN s[k] ELSE t[k - Len(s)]
    BY <1>4, ConcatProperties
  <2> QED BY <1>4, <2>1
<1>6. s \o t = [k \in 1 .. a + b |-> (s \o t)[k]]
  BY <1>5, LenProperties
<1> QED BY <1>5, <1>6

\* A place in the file lies on the chain, before its end.
LEMMA PlaceOnChain ==
  ASSUME NEW e, NEW c, Leads(c, image, e), NEW q \in Nat, q < Len(c)
  PROVE  /\ q + 1 \in 1 .. Len(c) /\ Walk(e.cluster_index, q) = c[q + 1]
         /\ ~ IsEnd(c[q + 1]) /\ ~ (c[q + 1] < 2)
<1>1. Len(c) \in Nat /\ Len(c) # 0 /\ c[1] = e.cluster_index /\ q + 1 \in 1 .. Len(c) /\ 1 + q = q + 1
  BY DEF Leads
<1>2. 1 \in 1 .. Len(c) /\ 1 + q <= Len(c)
  BY <1>1
<1>3. Walk(c[1], q) = c[1 + q]
  BY <1>2, WalkOnChain
<1> QED BY <1>1, <1>3 DEF Leads

\* The copy from the middle of a cluster, up to its end.
LEMMA FirstPart ==
  ASSUME NEW c, NEW q \in Nat, NEW r \in 0 .. C - 1, NEW part \in Nat, r + part <= C
  PROVE  Copied(c[q + 1], r, part) = [k \in 1 .. part |-> ByteOf(c, C * q + r + k)]
<1>1. \A k \in 1 .. part : ByteOf(c, C * q + r + k) = [cluster |-> c[q + 1], at |-> r + k - 1]
  <2> TAKE k \in 1 .. part
  <2>1. C \in Nat /\ r + k - 1 \in 0 .. C - 1 /\ C * q \in Nat
    BY SizeOfCluster
  <2>2. (C * q + (r + k - 1)) \div C = q /\ (C * q + (r + k - 1)) % C = r + k - 1
    BY <2>1, DivisionIs
  <2>3. (C * q + r + k) - 1 = C * q + (r + k - 1)
    BY <2>1
  <2> QED BY <2>2, <2>3 DEF ByteOf
<1> QED BY <1>1 DEF Copied

\* What is copied from the start of a cluster on.
LEMMA RestIs ==
  ASSUME NEW e, NEW c, Leads(c, image, e), NEW q \in Nat, q < Len(c),
         NEW left \in Nat, C * q + left <= C * Len(c)
  PROVE  CopiedFrom(c[q + 1], left) = [k \in 1 .. left |-> ByteOf(c, C * q + k)]
<1>1. Len(c) \in Nat /\ C \in Nat /\ C * q \in Nat /\ q + 1 \in 1 .. Len(c)
  BY SizeOfCluster DEF Leads
<1>2. Len(c) = q + (Len(c) - q) /\ Len(c) - q \in Nat /\ Len(c) - (q + 1) + 1 = Len(c) - q
  BY <1>1
<1>3. C * Len(c) = C * q + C * (Len(c) - q) /\ C * (Len(c) - q) \in Nat
  BY <1>1, <1>2
<1>4. left <= C * (Len(c) - (q + 1) + 1)
  BY <1>1, <1>2, <1>3
<1>5. CopiedFrom(c[q + 1], left) =
        [k \in 1 .. left |-> [cluster |-> c[(q + 1) + ((k - 1) \div C)], at |-> (k - 1) % C]]
  <2> DEFINE m == q + 1
  <2>1. m \in 1 .. Len(c) /\ left <= C * (Len(c) - m + 1)
    BY <1>1, <1>4
  <2> HIDE DEF m
  <2>2. CopiedFrom(c[m], left) =
          [k \in 1 .. left |-> [cluster |-> c[m + ((k - 1) \div C)], at |-> (k - 1) % C]]
    BY <2>1, CopiedFromIs
  <2> QED BY <2>2 DEF m
<1>6. \A k \in 1 .. left : ByteOf(c, C * q + k)
                = [cluster |-> c[(q + 1) + ((k - 1) \div C)], at |-> (k - 1) % C]
  <2> TAKE k \in 1 .. left
  <2>1. k - 1 \in Nat /\ (C * q + k) - 1 = C * q + (k - 1)
    BY <1>1
  <2>2. (C * q + (k - 1)) \div C = q + ((k - 1) \div C) /\ (C * q + (k - 1)) % C = (k - 1) % C
    BY <2>1, DivisionPlus
  <2>3. (k - 1) \div C \in Nat
    BY <2>1, Division
  <2>4. q + ((k - 1) \div C) + 1 = (q + 1) + ((k - 1) \div C)
    BY <2>3
  <2> QED BY <2>1, <2>2, <2>4 DEF ByteOf
<1> QED BY <1>5, <1>6

\* A read inside the file copies the bytes asked for, and fails at most at the
\* end of a file that fills its last cluster.
Reads(e, c, pos, size) ==
  /\ read_raw_data(e.cluster_index, pos, size) = [k \in 1 .. size |-> ByteOf(c, pos + k)]
  /\ FailedAssert(e.cluster_index, pos, size) # "none" =>
       pos = e.file_size /\ pos > 0 /\ pos % ClusterSize = 0

\* Behind the last cluster there is nothing to read.
LEMMA ReadsAtEnd ==
  ASSUME NEW e, NEW c, Leads(c, image, e), e.file_size \in Nat,
         NEW pos \in Nat, NEW size \in Nat, pos + size <= e.file_size,
         Len(c) <= pos \div C
  PROVE  Reads(e, c, pos, size)
<1> DEFINE q == pos \div C
           r == pos % C
           first == e.cluster_index
<1>1. q \in Nat /\ r \in 0 .. C - 1 /\ pos = C * q + r /\ C \in Nat /\ C >= 1
  BY Division, SizeOfCluster
<1>2. Len(c) \in Nat /\ Len(c) <= q /\ e.file_size <= C * Len(c)
  BY DEF Leads
<1>3. r = pos % ClusterSize /\ q = WalkLength(pos)
  BY DEF C, WalkLength
<1> HIDE DEF q, r
<1>4. C * Len(c) <= C * q /\ C * Len(c) \in Nat /\ C * q \in Nat
  BY <1>1, <1>2
<1>5. size = 0 /\ r = 0 /\ pos = e.file_size
  BY <1>1, <1>2, <1>4
<1>6. read_raw_data(first, pos, size) = <<>>
  <2>1. FirstSize(r, size) = 0 /\ size - 0 = 0
    BY <1>5 DEF FirstSize
  <2>2. Copied(Walk(first, q), r, 0) = <<>>
    BY DEF Copied
  <2>3. CopiedFrom(IndexAfterFirst(Walk(first, q), r), 0) = <<>>
    BY CopiedNothing
  <2>4. read_raw_data(first, pos, size) =
          Copied(Walk(first, q), r, FirstSize(r, size))
            \o CopiedFrom(IndexAfterFirst(Walk(first, q), r), size - FirstSize(r, size))
    BY <1>3 DEF read_raw_data
  <2> QED BY <1>5, <2>1, <2>2, <2>3, <2>4
<1>7. pos = 0 => FailedAssert(first, pos, size) = "none"
  <2>1. pos = 0 => WalkLength(pos) = 0
    <3>1. 0 \in Nat /\ 0 \in 0 .. C - 1 /\ C * 0 + 0 = 0
      BY <1>1
    <3>2. 0 \div C = 0
      BY <3>1, DivisionIs
    <3> QED BY <3>2 DEF WalkLength, C
  <2>2. ToSet(<<>>) = {}
    BY DEF ToSet
  <2> QED BY <1>6, <2>1, <2>2 DEF FailedAssert
<1> QED BY <1>3, <1>5, <1>6, <1>7 DEF Reads

\* From the start of a cluster, or from the middle of one.
LEMMA ReadsBytes ==
  ASSUME NEW e, NEW c, Leads(c, image, e), e.file_size \in Nat,
         NEW pos \in Nat, NEW size \in Nat, pos + size <= e.file_size,
         pos \div C < Len(c)
  PROVE  read_raw_data(e.cluster_index, pos, size) = [k \in 1 .. size |-> ByteOf(c, pos + k)]
<1> DEFINE q == pos \div C
           r == pos % C
           n == Len(c)
           first == e.cluster_index
           part == FirstSize(r, size)
           index == IndexAfterFirst(c[q + 1], r)
<1>1. q \in Nat /\ r \in 0 .. C - 1 /\ pos = C * q + r /\ C \in Nat /\ C >= 1 /\ C * q \in Nat
  <2>1. q \in Nat /\ r \in 0 .. C - 1 /\ pos = C * q + r /\ C \in Nat /\ C >= 1
    BY Division, SizeOfCluster
  <2> HIDE DEF q, r
  <2> QED BY <2>1
<1>2. n \in Nat /\ q < n /\ e.file_size <= C * n /\ C * n \in Nat
  BY <1>1 DEF Leads
<1>3. r = pos % ClusterSize /\ q = WalkLength(pos)
  BY DEF C, WalkLength
<1> HIDE DEF q, r, n
<1>4. Walk(first, q) = c[q + 1]
  BY <1>1, <1>2, PlaceOnChain DEF n
<1>5. read_raw_data(first, pos, size) = Copied(c[q + 1], r, part) \o CopiedFrom(index, size - part)
  BY <1>3, <1>4 DEF read_raw_data
<1>6. part = IF r = 0 THEN 0 ELSE IF r + size <= C THEN size ELSE C - r
  BY DEF FirstSize, C
<1> HIDE DEF part
<1>7. part \in Nat /\ r + part <= C /\ size - part \in Nat /\ part <= size
  BY <1>1, <1>6
<1>8. Copied(c[q + 1], r, part) = [k \in 1 .. part |-> ByteOf(c, pos + k)]
  BY <1>1, <1>7, FirstPart
<1>9. CopiedFrom(index, size - part) = [k \in 1 .. size - part |-> ByteOf(c, pos + part + k)]
  <2>1. CASE r = 0
    <3>1. index = c[q + 1] /\ part = 0 /\ size - part = size /\ pos + part = C * q
      BY <1>1, <1>6, <2>1 DEF IndexAfterFirst
    <3>2. C * q + size <= C * n
      BY <1>1, <1>2, <2>1
    <3>3. CopiedFrom(c[q + 1], size) = [k \in 1 .. size |-> ByteOf(c, C * q + k)]
      BY <1>1, <1>2, <3>2, RestIs DEF n
    <3> QED BY <3>1, <3>3
  <2>2. CASE r # 0 /\ r + size <= C
    <3>1. size - part = 0
      BY <1>6, <2>2
    <3> QED BY <3>1, CopiedNothing
  <2>3. CASE r # 0 /\ ~ (r + size <= C)
    <3>1. C * (q + 1) = C * q + C /\ part = C - r /\ pos + part = C * (q + 1)
      BY <1>1, <1>6, <2>3
    <3>2. pos + size > C * (q + 1) /\ C * (q + 1) < C * n
      BY <1>1, <1>2, <2>3, <3>1
    <3>3. q + 1 < n
      <4> SUFFICES ASSUME ~ (q + 1 < n) PROVE FALSE
        OBVIOUS
      <4>1. n = q + 1
        BY <1>1, <1>2
      <4> QED BY <1>1, <3>2, <4>1
    <3>4. index = c[(q + 1) + 1]
      <4>1. q + 1 \in 1 .. n - 1
        BY <1>1, <1>2, <3>3
      <4>2. index = image.fat[c[q + 1]]
        BY <2>3 DEF IndexAfterFirst, get_cluster_value
      <4> QED BY <4>1, <4>2 DEF Leads, n
    <3>5. C * (q + 1) + (size - part) <= C * n
      BY <1>1, <1>2, <2>3, <3>1
    <3>6. q + 1 \in Nat
      BY <1>1
    <3>7. CopiedFrom(c[(q + 1) + 1], size - part) = [k \in 1 .. size - part |-> ByteOf(c, C * (q + 1) + k)]
      <4> DEFINE p == q + 1
                 left == size - part
      <4>1. p \in Nat /\ p < Len(c) /\ left \in Nat /\ C * p + left <= C * Len(c)
        BY <1>7, <3>3, <3>5, <3>6 DEF n
      <4> HIDE DEF p, left
      <4>2. CopiedFrom(c[p + 1], left) = [k \in 1 .. left |-> ByteOf(c, C * p + k)]
        BY <4>1, RestIs
      <4> QED BY <4>2 DEF p, left
    <3> QED BY <3>1, <3>4, <3>7
  <2> QED BY <2>1, <2>2, <2>3
<1> DEFINE s == [k \in 1 .. part |-> ByteOf(c, pos + k)]
           t == [k \in 1 .. size - part |-> ByteOf(c, pos + part + k)]
<1>10. s \o t = [k \in 1 .. part + (size - part) |-> IF k <= part THEN s[k] ELSE t[k - part]]
  <2>1. HasLength(s, part) /\ HasLength(t, size - part) /\ part \in Nat
    BY <1>7 DEF HasLength
  <2> DEFINE left == size - part
  <2>2. left \in Nat
    BY <1>7
  <2> HIDE DEF s
  <2>3. HasLength(t, left)
    BY <2>1
  <2> HIDE DEF t, left
  <2>4. s \o t = [k \in 1 .. part + left |-> IF k <= part THEN s[k] ELSE t[k - part]]
    BY <2>1, <2>2, <2>3, Joined
  <2> QED BY <2>4 DEF left
<1>11. part + (size - part) = size
  BY <1>7
<1>12. \A k \in 1 .. size : (IF k <= part THEN s[k] ELSE t[k - part]) = ByteOf(c, pos + k)
  <2> TAKE k \in 1 .. size
  <2>1. CASE k <= part
    BY <1>7, <2>1
  <2>2. CASE ~ (k <= part)
    <3>1. k - part \in 1 .. size - part /\ pos + part + (k - part) = pos + k
      BY <1>7, <2>2
    <3> QED BY <2>2, <3>1
  <2> QED BY <2>1, <2>2
<1> HIDE DEF s, t
<1>13. s \o t = [k \in 1 .. size |-> ByteOf(c, pos + k)]
  BY <1>10, <1>11, <1>12
<1> QED BY <1>5, <1>8, <1>9, <1>13 DEF s, t

\* On the chain no assertion fails.
LEMMA ReadsIs ==
  ASSUME NEW e, NEW c, Leads(c, image, e), e.file_size \in Nat,
         NEW pos \in Nat, NEW size \in Nat, pos + size <= e.file_size
  PROVE  Reads(e, c, pos, size)
<1> DEFINE q == pos \div C
           first == e.cluster_index
           bytes == read_raw_data(first, pos, size)
<1>1. CASE Len(c) <= q
  BY <1>1, ReadsAtEnd
<1>2. CASE ~ (Len(c) <= q)
  <2>1. q \in Nat /\ q < Len(c) /\ q = WalkLength(pos) /\ Len(c) \in Nat
    BY <1>2, Division DEF Leads, C, WalkLength
  <2>2. bytes = [k \in 1 .. size |-> ByteOf(c, pos + k)]
    BY <2>1, ReadsBytes
  <2>3. \A k \in 1 .. size : ~ (bytes[k].cluster < 2)
    <3> TAKE k \in 1 .. size
    <3>1. (pos + k) - 1 \in Nat /\ (pos + k) - 1 + 1 <= e.file_size
      OBVIOUS
    <3> DEFINE a == ((pos + k) - 1) \div C
    <3>2. a \in Nat /\ a < Len(c)
      <4>1. pos + k \in 1 .. e.file_size /\ e.file_size <= C * Len(c)
        BY <3>1 DEF Leads
      <4> QED BY <2>1, <4>1, BytesInClusters
    <3>3. bytes[k].cluster = c[a + 1]
      BY <2>2 DEF ByteOf
    <3> HIDE DEF a, bytes
    <3> QED BY <3>2, <3>3, PlaceOnChain
  <2>4. ~ IsEnd(Walk(first, q))
    <3> HIDE DEF q
    <3> QED BY <2>1, PlaceOnChain
  <2>5. \A b \in ToSet(bytes) : ~ (b.cluster < 2)
    <3>1. DOMAIN bytes = 1 .. size
      BY <2>2
    <3> HIDE DEF bytes
    <3> QED BY <2>3, <3>1 DEF ToSet
  <2>6. FailedAssert(first, pos, size) = "none"
    BY <2>1, <2>4, <2>5 DEF FailedAssert
  <2> QED BY <2>2, <2>6 DEF Reads
<1> QED BY <1>1, <1>2

-----------------------------------------------------------------------------
(* Finding a file.                                                         *)

\* The first entry that is a file with the path's name, or none.
Found(i, p) == IsFile(Entry(i)) /\ is_file_name_equal(Entry(i), p)

\* search_file() returns the first entry that is found, or 0.
LEMMA SearchFinds ==
  ASSUME NEW p, Len(image.dir) \in Nat
  PROVE  IF Splits(p) /\ \E i \in 1 .. Len(image.dir) : Found(i, p)
         THEN /\ search_file(p) \in 1 .. Len(image.dir) /\ Found(search_file(p), p)
              /\ \A i \in 1 .. Len(image.dir) : Found(i, p) => search_file(p) <= i
         ELSE search_file(p) = 0
<1> DEFINE I == {i \in 1 .. Len(image.dir) : Found(i, p)}
<1>1. Splits(p) => search_file(p) = IF I # {} THEN Min(I) ELSE 0
  BY DEF search_file, SelectInSeq, Min, Found, Entry
<1>2. I \in SUBSET Nat
  OBVIOUS
<1>3. I # {} => Min(I) \in I /\ \A i \in I : Min(I) <= i
  <2> HIDE DEF I
  <2> QED BY <1>2, MinOfNats
<1> QED BY <1>1, <1>3 DEF search_file

-----------------------------------------------------------------------------
(* Names.                                                                  *)

Text == Seq(Char)

\* What is left of a padded name when some of the padding is cut off.
LEMMA CutsAre ==
  ASSUME NEW m \in Nat, NEW s \in [1 .. m -> Char], NEW u
  PROVE  u \in Cuts(s) <=> u \in Text /\ Len(u) <= m /\ Pad(u, m) = s
<1> DEFINE Blanks(n) == \A k \in n + 1 .. m : s[k] = BLANK
<1>1. s \in Text /\ Len(s) = m
  BY DEF Text
<1>2. u \in Cuts(s) <=> \E n \in 0 .. m : Blanks(n) /\ u = SubSeq(s, 1, n)
  BY <1>1 DEF Cuts
<1>3. \A n \in 0 .. m : /\ SubSeq(s, 1, n) \in Text /\ Len(SubSeq(s, 1, n)) = n
                        /\ \A k \in 1 .. n : SubSeq(s, 1, n)[k] = s[k]
  BY <1>1 DEF Text
<1>4. ASSUME NEW n \in 0 .. m, Blanks(n), u = SubSeq(s, 1, n)
      PROVE  u \in Text /\ Len(u) <= m /\ Pad(u, m) = s
  <2>1. u \in Text /\ Len(u) = n /\ \A k \in 1 .. n : u[k] = s[k]
    BY <1>3, <1>4
  <2>2. \A k \in 1 .. m : (IF k <= n THEN u[k] ELSE BLANK) = s[k]
    BY <1>4, <2>1
  <2>3. s = [k \in 1 .. m |-> s[k]]
    OBVIOUS
  <2> QED BY <2>1, <2>2, <2>3 DEF Pad
<1>5. ASSUME u \in Text, Len(u) <= m, Pad(u, m) = s
      PROVE  \E n \in 0 .. m : Blanks(n) /\ u = SubSeq(s, 1, n)
  <2> DEFINE n == Len(u)
  <2>1. n \in 0 .. m
    BY <1>5 DEF Text
  <2>2. \A k \in 1 .. m : s[k] = IF k <= n THEN u[k] ELSE BLANK
    BY <1>5 DEF Pad
  <2>3. Blanks(n)
    BY <2>1, <2>2
  <2>4. u = SubSeq(s, 1, n)
    <3>1. \A k \in 1 .. n : u[k] = SubSeq(s, 1, n)[k]
      BY <1>3, <2>1, <2>2
    <3>2. SubSeq(s, 1, n) \in Text /\ Len(SubSeq(s, 1, n)) = Len(u)
      BY <1>3, <2>1
    <3> HIDE DEF n
    <3> QED BY <1>5, <3>1, <3>2, SeqEqual DEF n, Text
  <2> QED BY <2>1, <2>3, <2>4
<1> QED BY <1>2, <1>4, <1>5

\* Where the first loop of split_path() stops.
Stops(p, k) ==
  /\ k \in 1 .. MAX_FILENAME + 1
  /\ k = MAX_FILENAME + 1 \/ CharAt(p, k) \in {DOT, NUL}
  /\ \A j \in 1 .. k - 1 : CharAt(p, j) \notin {DOT, NUL}

LEMMA MaxNames == MAX_FILENAME \in Nat /\ MAX_FILE_EXT_NAME \in Nat
BY Fat16Assumption

\* The name is what comes before the place where the loop stops.
LEMMA NameIs ==
  ASSUME NEW p \in Text, NEW k, Stops(p, k)
  PROVE  /\ NameOf(p) = SubSeq(p, 1, k - 1) /\ k - 1 \in 0 .. Len(p)
         /\ Len(NameOf(p)) = k - 1 /\ NameOf(p) \in Text
         /\ \A i \in 1 .. k - 1 : NameOf(p)[i] = p[i]
<1>1. \A j : Stops(p, j) => j = k
  <2> SUFFICES ASSUME NEW j, Stops(p, j) PROVE j = k
    OBVIOUS
  <2>1. ~ (j < k)
    BY MaxNames DEF Stops
  <2>2. ~ (k < j)
    BY MaxNames DEF Stops
  <2> QED BY <2>1, <2>2, MaxNames DEF Stops
<1>2. NameOf(p) = SubSeq(p, 1, k - 1)
  <2>1. k = CHOOSE j \in 1 .. MAX_FILENAME + 1 :
              /\ j = MAX_FILENAME + 1 \/ CharAt(p, j) \in {DOT, NUL}
              /\ \A i \in 1 .. j - 1 : CharAt(p, i) \notin {DOT, NUL}
    BY <1>1 DEF Stops
  <2> QED BY <2>1 DEF NameOf
<1>3. k - 1 \in 0 .. Len(p)
  <2>1. CharAt(p, Len(p) + 1) = NUL /\ Len(p) \in Nat
    BY DEF CharAt, Text
  <2>2. k \in Nat /\ k >= 1
    BY MaxNames DEF Stops
  <2>3. ~ (Len(p) < k - 1)
    <3> SUFFICES ASSUME Len(p) < k - 1 PROVE FALSE
      OBVIOUS
    <3>1. Len(p) + 1 \in 1 .. k - 1
      BY <2>1, <2>2
    <3> QED BY <2>1, <3>1 DEF Stops
  <2> QED BY <2>1, <2>2, <2>3
<1>4. /\ SubSeq(p, 1, k - 1) \in Text /\ Len(SubSeq(p, 1, k - 1)) = k - 1
      /\ \A i \in 1 .. k - 1 : SubSeq(p, 1, k - 1)[i] = p[i]
  <2> DEFINE n == k - 1
  <2>1. n \in 0 .. Len(p)
    BY <1>3
  <2> HIDE DEF n
  <2>2. /\ SubSeq(p, 1, n) \in Text /\ Len(SubSeq(p, 1, n)) = n
        /\ \A i \in 1 .. n : SubSeq(p, 1, n)[i] = p[i]
    BY <2>1 DEF Text
  <2> QED BY <2>2 DEF n
<1> QED BY <1>2, <1>3, <1>4

\* It always stops.
LEMMA NameEnds ==
  ASSUME NEW p \in Text
  PROVE  \E k : Stops(p, k)
<1> DEFINE I == {k \in 1 .. MAX_FILENAME + 1 : k = MAX_FILENAME + 1 \/ CharAt(p, k) \in {DOT, NUL}}
           m == Min(I)
<1>1. I \in SUBSET Nat /\ MAX_FILENAME + 1 \in I
  BY MaxNames
<1>2. m \in I /\ \A k \in I : m <= k
  <2> HIDE DEF I
  <2> QED BY <1>1, MinOfNats
<1> HIDE DEF m
<1>3. \A j \in 1 .. m - 1 : j \notin I
  BY <1>2, MaxNames
<1> QED BY <1>2, <1>3, MaxNames DEF Stops

\* The extension is what follows the dot, if there is one.
LEMMA ExtIs ==
  ASSUME NEW p \in Text, NEW k \in 0 .. Len(p), Len(NameOf(p)) = k
  PROVE  /\ HasDot(p) <=> k < Len(p) /\ p[k + 1] = DOT
         /\ ~ HasDot(p) => ExtOf(p) = <<>>
         /\ HasDot(p) =>
              /\ ExtOf(p) \in Text
              /\ Len(ExtOf(p)) = IF k + 1 + MAX_FILE_EXT_NAME < Len(p)
                                 THEN MAX_FILE_EXT_NAME ELSE Len(p) - (k + 1)
              /\ \A i \in 1 .. Len(ExtOf(p)) : ExtOf(p)[i] = p[(k + 1) + i]
<1> DEFINE X == MAX_FILE_EXT_NAME
           to == IF k + 1 + X < Len(p) THEN k + 1 + X ELSE Len(p)
<1>1. Len(p) \in Nat /\ k \in Nat /\ X \in Nat
  BY MaxNames DEF Text
<1>2. HasDot(p) <=> k < Len(p) /\ p[k + 1] = DOT
  BY <1>1 DEF HasDot, CharAt, DOT, NUL
<1>3. ASSUME HasDot(p)
      PROVE  /\ ExtOf(p) \in Text /\ Len(ExtOf(p)) = to - (k + 1)
             /\ \A i \in 1 .. Len(ExtOf(p)) : ExtOf(p)[i] = p[(k + 1) + i]
  <2>1. (k + 2) + X - 1 = k + 1 + X
    BY <1>1
  <2>2. ExtOf(p) = SubSeq(p, k + 2, to)
    BY <1>3, <2>1 DEF ExtOf
  <2>3. to \in Int /\ k + 2 \in Int /\ k + 1 <= to /\ to <= Len(p) /\ \A i \in k + 2 .. to : p[i] \in Char
    BY <1>1, <1>2, <1>3 DEF Text
  <2> HIDE DEF to
  <2> DEFINE from == k + 2
  <2>4. from \in Int /\ \A i \in from .. to : p[i] \in Char
    BY <2>3
  <2> HIDE DEF from
  <2>5. /\ SubSeq(p, from, to) \in Seq(Char)
        /\ Len(SubSeq(p, from, to)) = IF from <= to THEN to - from + 1 ELSE 0
        /\ \A i \in 1 .. to - from + 1 : SubSeq(p, from, to)[i] = p[from + i - 1]
    BY <2>3, <2>4, SubSeqProperties
  <2>6. (IF from <= to THEN to - from + 1 ELSE 0) = to - (k + 1)
    BY <1>1, <2>3 DEF from
  <2>7. to - from + 1 = to - (k + 1) /\ \A i \in 1 .. to - (k + 1) : from + i - 1 = (k + 1) + i
    BY <1>1, <2>3 DEF from
  <2> QED BY <2>2, <2>5, <2>6, <2>7 DEF from, Text
<1>4. to - (k + 1) = IF k + 1 + X < Len(p) THEN X ELSE Len(p) - (k + 1)
  BY <1>1
<1>5. ~ HasDot(p) => ExtOf(p) = <<>>
  BY DEF ExtOf
<1> HIDE DEF to
<1> QED BY <1>2, <1>3, <1>4, <1>5

\* A name, a dot and an extension.
DotBetween(n, x, p) ==
  /\ p \in Text /\ Len(p) = Len(n) + 1 + Len(x)
  /\ \A i \in 1 .. Len(n) : p[i] = n[i]
  /\ p[Len(n) + 1] = DOT
  /\ \A i \in 1 .. Len(x) : p[(Len(n) + 1) + i] = x[i]

\* The parts of a path are found in it again.
LEMMA DotJoined ==
  ASSUME NEW n \in Text, NEW x \in Text
  PROVE  DotBetween(n, x, n \o <<DOT>> \o x)
<1> DEFINE d == <<DOT>>
           h == n \o d
           w == h \o x
<1>1. d \in Text /\ Len(d) = 1 /\ d[1] = DOT /\ Len(n) \in Nat /\ Len(x) \in Nat
  <2>1. DOT \in Char
    BY Fat16Assumption
  <2>2. Len(n) \in Nat /\ Len(x) \in Nat
    BY DEF Text
  <2> QED BY <2>1, <2>2 DEF Text
<1> HIDE DEF d
<1>2. /\ h \in Text /\ Len(h) = Len(n) + 1
      /\ \A i \in 1 .. Len(n) + 1 : h[i] = IF i <= Len(n) THEN n[i] ELSE d[i - Len(n)]
  <2>1. n \in Seq(Char) /\ d \in Seq(Char)
    BY <1>1 DEF Text
  <2>2. /\ h \in Seq(Char) /\ Len(h) = Len(n) + Len(d)
        /\ \A i \in 1 .. Len(n) + Len(d) : h[i] = IF i <= Len(n) THEN n[i] ELSE d[i - Len(n)]
    BY <2>1, ConcatProperties
  <2> HIDE DEF h
  <2> QED BY <1>1, <2>2 DEF Text
<1> HIDE DEF h
<1>3. /\ w \in Text /\ Len(w) = Len(h) + Len(x)
      /\ \A i \in 1 .. Len(h) + Len(x) : w[i] = IF i <= Len(h) THEN h[i] ELSE x[i - Len(h)]
  <2>1. h \in Seq(Char) /\ x \in Seq(Char)
    BY <1>2 DEF Text
  <2> QED BY <2>1, ConcatProperties DEF Text
<1> HIDE DEF w
<1>4. \A i \in 1 .. Len(n) : w[i] = n[i]
  <2> TAKE i \in 1 .. Len(n)
  <2>1. i \in 1 .. Len(n) + 1 /\ i \in 1 .. Len(h) + Len(x) /\ i <= Len(h) /\ i <= Len(n)
    BY <1>1, <1>2
  <2> QED BY <1>2, <1>3, <2>1
<1>5. w[Len(n) + 1] = DOT
  <2> DEFINE i == Len(n) + 1
  <2>1. i \in 1 .. Len(n) + 1 /\ i \in 1 .. Len(h) + Len(x) /\ i <= Len(h) /\ ~ (i <= Len(n))
        /\ i - Len(n) = 1
    BY <1>1, <1>2
  <2> HIDE DEF i
  <2>2. w[i] = d[1]
    BY <1>2, <1>3, <2>1
  <2> QED BY <1>1, <2>2 DEF i
<1>6. \A i \in 1 .. Len(x) : w[(Len(n) + 1) + i] = x[i]
  <2> TAKE i \in 1 .. Len(x)
  <2> DEFINE j == (Len(n) + 1) + i
  <2>1. j \in 1 .. Len(h) + Len(x) /\ ~ (j <= Len(h)) /\ j - Len(h) = i
    BY <1>1, <1>2
  <2> HIDE DEF j
  <2>2. w[j] = x[i]
    BY <1>3, <2>1
  <2> QED BY <2>2 DEF j
<1>7. Len(w) = Len(n) + 1 + Len(x)
  BY <1>2, <1>3
<1>8. DotBetween(n, x, w)
  BY <1>3, <1>4, <1>5, <1>6, <1>7 DEF DotBetween
<1> QED BY <1>8 DEF w, h, d

\* split_path() takes apart what was put together so,
LEMMA WithDot ==
  ASSUME NEW n \in Text, NEW x \in Text, NEW p, DotBetween(n, x, p),
         Len(n) <= MAX_FILENAME, Len(x) <= MAX_FILE_EXT_NAME,
         \A i \in 1 .. Len(n) : n[i] \notin {NUL, DOT}
  PROVE  NameOf(p) = n /\ HasDot(p) /\ ExtOf(p) = x /\ Len(p) = Len(n) + 1 + Len(x) /\ p \in Text
<1> DEFINE k == Len(n)
<1>1. /\ p \in Text /\ Len(p) = k + 1 + Len(x)
      /\ \A i \in 1 .. k : p[i] = n[i]
      /\ p[k + 1] = DOT
      /\ \A i \in 1 .. Len(x) : p[(k + 1) + i] = x[i]
  BY DEF DotBetween
<1>2. Len(n) \in Nat /\ Len(x) \in Nat /\ MAX_FILENAME \in Nat /\ MAX_FILE_EXT_NAME \in Nat
  BY MaxNames DEF Text
<1>3. Stops(p, k + 1)
  <2>1. k + 1 \in 1 .. MAX_FILENAME + 1 /\ k + 1 <= Len(p)
    BY <1>1, <1>2
  <2>2. CharAt(p, k + 1) = DOT
    BY <1>1, <2>1 DEF CharAt
  <2>3. \A i \in 1 .. (k + 1) - 1 : CharAt(p, i) \notin {DOT, NUL}
    BY <1>1, <1>2 DEF CharAt
  <2> QED BY <2>1, <2>2, <2>3 DEF Stops
<1>4. /\ Len(NameOf(p)) = k /\ NameOf(p) \in Text /\ k \in 0 .. Len(p)
      /\ \A i \in 1 .. k : NameOf(p)[i] = p[i]
  <2>1. (k + 1) - 1 = k
    BY <1>2
  <2> DEFINE j == k + 1
  <2>2. Stops(p, j) /\ j - 1 = k
    BY <1>3, <2>1
  <2> HIDE DEF j
  <2> QED BY <1>1, <2>2, NameIs
<1>5. NameOf(p) = n
  BY <1>1, <1>4, SeqEqual DEF Text
<1>6. HasDot(p)
  BY <1>1, <1>2, <1>4, ExtIs
<1>7. /\ ExtOf(p) \in Text /\ Len(ExtOf(p)) = Len(x)
      /\ \A i \in 1 .. Len(ExtOf(p)) : ExtOf(p)[i] = p[(k + 1) + i]
  <2> HIDE DEF k
  <2>1. /\ ExtOf(p) \in Text
        /\ Len(ExtOf(p)) = IF k + 1 + MAX_FILE_EXT_NAME < Len(p)
                           THEN MAX_FILE_EXT_NAME ELSE Len(p) - (k + 1)
        /\ \A i \in 1 .. Len(ExtOf(p)) : ExtOf(p)[i] = p[(k + 1) + i]
    BY <1>1, <1>4, <1>6, ExtIs
  <2>2. k \in Nat
    BY <1>2 DEF k
  <2> QED BY <1>1, <1>2, <2>1, <2>2
<1>8. ExtOf(p) = x
  BY <1>1, <1>7, SeqEqual DEF Text
<1> QED BY <1>1, <1>5, <1>6, <1>8

\* or has no extension.
LEMMA WithoutDot ==
  ASSUME NEW p \in Text, Len(p) <= MAX_FILENAME, \A i \in 1 .. Len(p) : p[i] \notin {NUL, DOT}
  PROVE  NameOf(p) = p /\ ~ HasDot(p) /\ ExtOf(p) = <<>>
<1> DEFINE k == Len(p)
<1>1. k \in Nat /\ MAX_FILENAME \in Nat
  BY MaxNames DEF Text
<1>2. Stops(p, k + 1)
  <2>1. k + 1 \in 1 .. MAX_FILENAME + 1
    BY <1>1
  <2>2. CharAt(p, k + 1) = NUL
    BY <1>1 DEF CharAt
  <2>3. \A i \in 1 .. (k + 1) - 1 : CharAt(p, i) \notin {DOT, NUL}
    BY <1>1 DEF CharAt
  <2> QED BY <2>1, <2>2, <2>3 DEF Stops
<1>3. /\ Len(NameOf(p)) = k /\ NameOf(p) \in Text
      /\ \A i \in 1 .. k : NameOf(p)[i] = p[i]
  <2> DEFINE j == k + 1
  <2>1. Stops(p, j) /\ j - 1 = k
    BY <1>1, <1>2
  <2> HIDE DEF j
  <2> QED BY <2>1, NameIs
<1>4. NameOf(p) = p
  BY <1>3, SeqEqual DEF Text
<1>5. ~ HasDot(p) /\ ExtOf(p) = <<>>
  BY <1>1, <1>3, ExtIs
<1> QED BY <1>4, <1>5

\* What split_path() takes apart is all of the path.
LEMMA SplitsInto ==
  ASSUME NEW p \in Text, Splits(p)
  PROVE  /\ NameOf(p) \in Text /\ Len(NameOf(p)) <= MAX_FILENAME
         /\ ExtOf(p) \in Text /\ Len(ExtOf(p)) <= MAX_FILE_EXT_NAME
         /\ HasDot(p) => p = NameOf(p) \o <<DOT>> \o ExtOf(p)
         /\ ~ HasDot(p) => p = NameOf(p) /\ ExtOf(p) = <<>>
<1> DEFINE n == NameOf(p)
           x == ExtOf(p)
           k == Len(n)
<1>1. MAX_FILENAME \in Nat /\ MAX_FILE_EXT_NAME \in Nat /\ Len(p) \in Nat
  BY MaxNames DEF Text
<1>2. /\ n \in Text /\ k \in 0 .. Len(p) /\ k <= MAX_FILENAME /\ Len(n) = k
      /\ \A i \in 1 .. k : n[i] = p[i]
  <2>1. PICK j : Stops(p, j)
    BY NameEnds
  <2>2. j \in 1 .. MAX_FILENAME + 1
    BY <2>1 DEF Stops
  <2>3. /\ j - 1 \in 0 .. Len(p) /\ Len(n) = j - 1 /\ n \in Text
        /\ \A i \in 1 .. j - 1 : n[i] = p[i]
    BY <2>1, NameIs
  <2> QED BY <1>1, <2>2, <2>3
<1>3. Len(p) = Len(n) + Len(x) + (IF HasDot(p) THEN 1 ELSE 0)
  BY DEF Splits
<1> HIDE DEF n, k
<1>4. /\ ~ HasDot(p) => x = <<>>
      /\ HasDot(p) =>
           /\ k < Len(p) /\ p[k + 1] = DOT /\ x \in Text
           /\ Len(x) = IF k + 1 + MAX_FILE_EXT_NAME < Len(p)
                       THEN MAX_FILE_EXT_NAME ELSE Len(p) - (k + 1)
           /\ \A i \in 1 .. Len(x) : x[i] = p[(k + 1) + i]
  BY <1>2, ExtIs DEF n
<1> HIDE DEF x
<1>5. CASE ~ HasDot(p)
  <2>1. x = <<>> /\ Len(x) = 0 /\ x \in Text
    BY <1>4, <1>5 DEF Text
  <2>2. Len(p) = k
    BY <1>1, <1>2, <1>3, <1>5, <2>1
  <2>3. p = n
    BY <1>2, <2>2, SeqEqual DEF Text
  <2> QED BY <1>1, <1>2, <1>5, <2>1, <2>3 DEF n, x
<1>6. CASE HasDot(p)
  <2>1. Len(p) = k + 1 + Len(x) /\ Len(x) \in Nat /\ Len(x) <= MAX_FILE_EXT_NAME
    BY <1>1, <1>2, <1>3, <1>4, <1>6 DEF Text
  <2> DEFINE w == n \o <<DOT>> \o x
  <2>2. DotBetween(n, x, w)
    BY <1>2, <1>4, <1>6, DotJoined
  <2> HIDE DEF w
  <2>3. w \in Text /\ Len(w) = Len(p)
    BY <1>2, <2>1, <2>2 DEF DotBetween
  <2>4. \A i \in 1 .. Len(p) : p[i] = w[i]
    <3> TAKE i \in 1 .. Len(p)
    <3>1. CASE i \in 1 .. k
      BY <1>2, <2>2, <3>1 DEF DotBetween
    <3>2. CASE i = k + 1
      BY <1>2, <1>4, <1>6, <2>2, <3>2 DEF DotBetween
    <3>3. CASE i \notin 1 .. k /\ i # k + 1
      <4> DEFINE j == i - (k + 1)
      <4>1. j \in 1 .. Len(x) /\ i = (k + 1) + j
        BY <1>1, <1>2, <2>1, <3>3
      <4> HIDE DEF j
      <4> QED BY <1>2, <1>4, <1>6, <2>2, <4>1 DEF DotBetween
    <3> QED BY <3>1, <3>2, <3>3
  <2>5. p = w
    BY <2>3, <2>4, SeqEqual DEF Text
  <2> QED BY <1>1, <1>2, <1>4, <1>6, <2>1, <2>5 DEF n, x, w
<1> QED BY <1>5, <1>6

\* An entry whose name has the characters a name may have.
LegalEntry(e) ==
  /\ e.name \in [1 .. MAX_FILENAME -> Char] /\ e.ext \in [1 .. MAX_FILE_EXT_NAME -> Char]
  /\ \A i \in 1 .. MAX_FILENAME : e.name[i] \notin {NUL, DOT, SLASH}
  /\ \A i \in 1 .. MAX_FILE_EXT_NAME : e.ext[i] # SLASH

\* No part of such a name stops split_path().
LEMMA NoSlash ==
  ASSUME NEW e, LegalEntry(e), NEW n \in Cuts(e.name), NEW x \in Cuts(e.ext)
  PROVE  /\ n \in Text /\ Len(n) <= MAX_FILENAME /\ Pad(n, MAX_FILENAME) = e.name
         /\ x \in Text /\ Len(x) <= MAX_FILE_EXT_NAME /\ Pad(x, MAX_FILE_EXT_NAME) = e.ext
         /\ \A i \in 1 .. Len(n) : n[i] \notin {NUL, DOT}
         /\ ~ Contains(n \o x, SLASH)
<1>1. /\ n \in Text /\ Len(n) <= MAX_FILENAME /\ Pad(n, MAX_FILENAME) = e.name
      /\ x \in Text /\ Len(x) <= MAX_FILE_EXT_NAME /\ Pad(x, MAX_FILE_EXT_NAME) = e.ext
  BY CutsAre, MaxNames DEF LegalEntry
<1>2. /\ \A i \in 1 .. Len(n) : i \in 1 .. MAX_FILENAME /\ n[i] = e.name[i]
      /\ \A i \in 1 .. Len(x) : i \in 1 .. MAX_FILE_EXT_NAME /\ x[i] = e.ext[i]
  <2>1. Len(n) \in Nat /\ Len(x) \in Nat
    BY <1>1 DEF Text
  <2>2. \A i \in 1 .. Len(n) : i \in 1 .. MAX_FILENAME /\ Pad(n, MAX_FILENAME)[i] = n[i]
    BY <1>1, <2>1, MaxNames DEF Pad
  <2>3. \A i \in 1 .. Len(x) : i \in 1 .. MAX_FILE_EXT_NAME /\ Pad(x, MAX_FILE_EXT_NAME)[i] = x[i]
    BY <1>1, <2>1, MaxNames DEF Pad
  <2> QED BY <1>1, <2>2, <2>3
<1>3. /\ \A i \in 1 .. Len(n) : n[i] \notin {NUL, DOT, SLASH}
      /\ \A i \in 1 .. Len(x) : x[i] # SLASH
  BY <1>2 DEF LegalEntry
<1>4. ~ Contains(n \o x, SLASH)
  <2>1. /\ Len(n \o x) = Len(n) + Len(x) /\ Len(n) \in Nat /\ Len(x) \in Nat
        /\ \A i \in 1 .. Len(n) + Len(x) : (n \o x)[i] = IF i <= Len(n) THEN n[i] ELSE x[i - Len(n)]
    BY <1>1, ConcatProperties DEF Text
  <2> DEFINE w == n \o x
  <2> HIDE DEF w
  <2>2. \A i \in 1 .. Len(w) : w[i] # SLASH
    <3> TAKE i \in 1 .. Len(w)
    <3>1. CASE i <= Len(n)
      BY <1>3, <2>1, <3>1 DEF w
    <3>2. CASE ~ (i <= Len(n))
      <4>1. i - Len(n) \in 1 .. Len(x) /\ w[i] = x[i - Len(n)]
        BY <2>1, <3>2 DEF w
      <4> QED BY <1>3, <4>1
    <3> QED BY <3>1, <3>2
  <2> QED BY <2>2 DEF Contains, w
<1> QED BY <1>1, <1>3, <1>4

\* open_file() accepts the ways of writing an entry's name and no other path.
LEMMA SpellingIs ==
  ASSUME NEW p \in Text, NEW e, LegalEntry(e)
  PROVE  Splits(p) /\ is_file_name_equal(e, p) <=> p \in Spellings(e)
<1>1. ASSUME Splits(p), is_file_name_equal(e, p) PROVE p \in Spellings(e)
  <2> DEFINE n == NameOf(p)
             x == ExtOf(p)
  <2>1. /\ n \in Text /\ Len(n) <= MAX_FILENAME
        /\ x \in Text /\ Len(x) <= MAX_FILE_EXT_NAME
        /\ HasDot(p) => p = n \o <<DOT>> \o x
        /\ ~ HasDot(p) => p = n /\ x = <<>>
    BY <1>1, SplitsInto
  <2>2. Pad(n, MAX_FILENAME) = e.name /\ Pad(x, MAX_FILE_EXT_NAME) = e.ext
    BY <1>1 DEF is_file_name_equal
  <2> HIDE DEF n, x
  <2>3. n \in Cuts(e.name) /\ x \in Cuts(e.ext)
    BY <2>1, <2>2, CutsAre, MaxNames DEF LegalEntry
  <2> QED BY <2>1, <2>3 DEF Spellings
<1>2. ASSUME NEW n \in Cuts(e.name), NEW x \in Cuts(e.ext), p = n \o <<DOT>> \o x
      PROVE  Splits(p) /\ is_file_name_equal(e, p)
  <2>1. /\ n \in Text /\ Len(n) <= MAX_FILENAME /\ Pad(n, MAX_FILENAME) = e.name
        /\ x \in Text /\ Len(x) <= MAX_FILE_EXT_NAME /\ Pad(x, MAX_FILE_EXT_NAME) = e.ext
        /\ \A i \in 1 .. Len(n) : n[i] \notin {NUL, DOT}
        /\ ~ Contains(n \o x, SLASH)
    BY NoSlash
  <2>2. DotBetween(n, x, p)
    BY <1>2, <2>1, DotJoined
  <2>3. NameOf(p) = n /\ HasDot(p) /\ ExtOf(p) = x /\ Len(p) = Len(n) + 1 + Len(x)
    BY <2>1, <2>2, WithDot
  <2>4. Len(n) \in Nat /\ Len(x) \in Nat
    BY <2>1 DEF Text
  <2>5. Splits(p)
    BY <2>1, <2>3, <2>4 DEF Splits
  <2> QED BY <2>1, <2>3, <2>5 DEF is_file_name_equal
<1>3. ASSUME p \in Cuts(e.name), <<>> \in Cuts(e.ext)
      PROVE  Splits(p) /\ is_file_name_equal(e, p)
  <2> DEFINE x == <<>>
  <2>1. x \in Cuts(e.ext) /\ Len(x) = 0
    BY <1>3
  <2> HIDE DEF x
  <2>2. /\ Len(p) <= MAX_FILENAME /\ Pad(p, MAX_FILENAME) = e.name
        /\ Pad(x, MAX_FILE_EXT_NAME) = e.ext
        /\ \A i \in 1 .. Len(p) : p[i] \notin {NUL, DOT}
        /\ ~ Contains(p \o x, SLASH)
    BY <1>3, <2>1, NoSlash
  <2>3. NameOf(p) = p /\ ~ HasDot(p) /\ ExtOf(p) = x
    BY <2>2, WithoutDot DEF x
  <2>4. Len(p) \in Nat
    BY DEF Text
  <2>5. Splits(p)
    BY <2>1, <2>2, <2>3, <2>4 DEF Splits
  <2> QED BY <2>2, <2>3, <2>5 DEF is_file_name_equal
<1>4. p \in Spellings(e) =>
        \/ \E n \in Cuts(e.name), x \in Cuts(e.ext) : p = n \o <<DOT>> \o x
        \/ p \in Cuts(e.name) /\ <<>> \in Cuts(e.ext)
  BY DEF Spellings
<1> QED BY <1>1, <1>2, <1>3, <1>4

-----------------------------------------------------------------------------
(* The invariant.                                                          *)

\* The open file is one of the image, and what was read of it its beginning.
Progress ==
  LET e == Entry(opened)
  IN  /\ opened \in 1 .. Len(image.dir) /\ IsFile(e)
      /\ position \in 0 .. e.file_size
      /\ \E c : IsChainOf(c, image, e) /\ data = Beginning(c, position)
      /\ panic # "none" => position = e.file_size /\ position > 0 /\ position % ClusterSize = 0

\* The number of a directory's first file with the path's name, or NONE.
Picks(dir, p, i) ==
  LET I == {k \in 1 .. Len(dir) : Splits(p) /\ IsFile(dir[k]) /\ is_file_name_equal(dir[k], p)}
  IN  IF I = {} THEN i = NONE ELSE i \in I /\ \A k \in I : i <= k

Fat16Inv ==
  /\ image \in Image
  /\ call.size \in Nat /\ call.result \in {-1, call.size}
  /\ path = NONE => opened = NONE
  /\ path # NONE =>
       path \in Path /\ Picks(image.dir, path, opened)
  /\ opened = NONE => panic = "none" /\ position = 0 /\ data = <<>>
  /\ opened # NONE => Progress

\* What the sound images are like.
LEMMA ImageFacts ==
  ASSUME NEW im \in Image
  PROVE  /\ Len(im.dir) \in Nat /\ DOMAIN im.dir = 1 .. Len(im.dir)
         /\ \A i \in 1 .. Len(im.dir) :
              /\ im.dir[i].file_size \in Nat
              /\ IsFile(im.dir[i]) => LegalEntry(im.dir[i]) /\ \E c : IsChainOf(c, im, im.dir[i])
<1> DEFINE E == [name : [1 .. MAX_FILENAME -> Char], ext : [1 .. MAX_FILE_EXT_NAME -> Char],
                     attributes : Nat, cluster_index : Nat, file_size : Nat]
<1>1. IsImage(im)
  BY Fat16Assumption
<1>2. /\ im.dir \in Seq(E)
      /\ \A k \in DOMAIN im.dir :
            IsFile(im.dir[k]) =>
             /\ \A i \in DOMAIN im.dir[k].name : im.dir[k].name[i] \notin {NUL, DOT, SLASH}
             /\ \A i \in DOMAIN im.dir[k].ext : im.dir[k].ext[i] # SLASH
             /\ \E c : IsChainOf(c, im, im.dir[k])
  BY <1>1 DEF IsImage, IsChainOf
<1> HIDE DEF E
<1>3. Len(im.dir) \in Nat /\ DOMAIN im.dir = 1 .. Len(im.dir) /\ im.dir \in [1 .. Len(im.dir) -> E]
  BY <1>2, LenProperties
<1>4. ASSUME NEW i \in 1 .. Len(im.dir)
      PROVE  /\ im.dir[i].file_size \in Nat
             /\ IsFile(im.dir[i]) => LegalEntry(im.dir[i]) /\ \E c : IsChainOf(c, im, im.dir[i])
  <2> DEFINE e == im.dir[i]
  <2>1. e \in E
    BY <1>3
  <2>2. IsFile(e) => /\ \A k \in DOMAIN e.name : e.name[k] \notin {NUL, DOT, SLASH}
                     /\ \A k \in DOMAIN e.ext : e.ext[k] # SLASH
                     /\ \E c : IsChainOf(c, im, e)
    BY <1>2, <1>3
  <2> HIDE DEF e
  <2>3. e.name \in [1 .. MAX_FILENAME -> Char] /\ e.ext \in [1 .. MAX_FILE_EXT_NAME -> Char]
        /\ e.file_size \in Nat
    BY <2>1 DEF E
  <2> QED BY <2>2, <2>3 DEF LegalEntry, e
<1> QED BY <1>3, <1>4

\* Nothing is open at first.
LEMMA InitInv == Init => Fat16Inv
BY DEF Init, Fat16Inv, NoCall

\* open_file() finds what the path names, with nothing read of it.
LEMMA OpenKeeps ==
  ASSUME Fat16Inv, NEW p \in Path, Open(p)
  PROVE  Fat16Inv'
<1> DEFINE i == search_file(p)
           o == IF i = 0 THEN NONE ELSE i
<1>1. /\ image \in Image /\ image' = image /\ panic = "none" /\ panic' = panic
      /\ path' = p /\ opened' = o /\ position' = 0 /\ data' = <<>> /\ call' = NoCall
  BY DEF Fat16Inv, Open
<1>2. p # NONE /\ \A k \in Nat : k # NONE
  BY Fat16Assumption
<1>3. Len(image.dir) \in Nat
  BY <1>1, ImageFacts
<1>4. Picks(image.dir, p, o) /\ (o # NONE => o \in 1 .. Len(image.dir) /\ IsFile(Entry(o)))
  <2>1. CASE Splits(p) /\ \E k \in 1 .. Len(image.dir) : Found(k, p)
    <3>1. /\ i \in 1 .. Len(image.dir) /\ Found(i, p)
          /\ \A k \in 1 .. Len(image.dir) : Found(k, p) => i <= k
      BY <1>3, <2>1, SearchFinds
    <3> HIDE DEF i
    <3>2. o = i
      BY <3>1
    <3> QED BY <2>1, <3>1, <3>2 DEF Picks, Found, Entry
  <2>2. CASE ~ (Splits(p) /\ \E k \in 1 .. Len(image.dir) : Found(k, p))
    <3>1. i = 0
      BY <1>3, <2>2, SearchFinds
    <3> HIDE DEF i
    <3>2. o = NONE
      BY <3>1
    <3> QED BY <2>2, <3>2 DEF Picks, Found, Entry
  <2> QED BY <2>1, <2>2
<1> HIDE DEF o
<1>5. ASSUME o # NONE PROVE Progress'
  <2> DEFINE e == Entry(o)
  <2>1. /\ o \in 1 .. Len(image.dir) /\ IsFile(e) /\ e.file_size \in Nat
        /\ \E c : IsChainOf(c, image, e)
    BY <1>1, <1>4, <1>5, ImageFacts DEF Entry
  <2>2. \A c : Beginning(c, 0) = <<>>
    BY DEF Beginning
  <2>3. opened' = o /\ Entry(opened)' = e
    BY <1>1 DEF Entry
  <2> HIDE DEF e
  <2> QED BY <1>1, <2>1, <2>2, <2>3 DEF Progress
<1>6. Picks(image.dir, path, opened)'
  BY <1>1, <1>4
<1>7. call'.size \in Nat /\ call'.result \in {-1, call'.size}
  BY <1>1 DEF NoCall
<1> QED BY <1>1, <1>2, <1>5, <1>6, <1>7 DEF Fat16Inv

\* The beginning of a file and the bytes after it.
LEMMA BeginningGrows ==
  ASSUME NEW c, NEW pos \in Nat, NEW size \in Nat
  PROVE  Beginning(c, pos) \o [k \in 1 .. size |-> ByteOf(c, pos + k)] = Beginning(c, pos + size)
<1> DEFINE s == Beginning(c, pos)
           t == [k \in 1 .. size |-> ByteOf(c, pos + k)]
<1>1. s = [k \in 1 .. pos |-> s[k]] /\ \A k \in 1 .. pos : s[k] = ByteOf(c, k)
  BY DEF Beginning
<1>2. t = [k \in 1 .. size |-> t[k]] /\ \A k \in 1 .. size : t[k] = ByteOf(c, pos + k)
  OBVIOUS
<1> HIDE DEF s, t
<1>3. s \o t = [k \in 1 .. pos + size |-> IF k <= pos THEN s[k] ELSE t[k - pos]]
  BY <1>1, <1>2, Joined DEF HasLength
<1>4. \A k \in 1 .. pos + size : (IF k <= pos THEN s[k] ELSE t[k - pos]) = ByteOf(c, k)
  <2> TAKE k \in 1 .. pos + size
  <2>1. CASE k <= pos
    BY <1>1, <2>1
  <2>2. CASE ~ (k <= pos)
    <3>1. k - pos \in 1 .. size /\ pos + (k - pos) = k
      BY <2>2
    <3> QED BY <1>2, <2>2, <3>1
  <2> QED BY <2>1, <2>2
<1>5. s \o t = Beginning(c, pos + size)
  BY <1>3, <1>4 DEF Beginning
<1> QED BY <1>5 DEF s, t

\* read_file() goes on with the beginning of the file where it stood.
LEMMA ReadKeeps ==
  ASSUME Fat16Inv, NEW size \in 0 .. MaxRead, read_file(size)
  PROVE  Fat16Inv'
<1> DEFINE e == Entry(opened)
           first == e.cluster_index
           bytes == read_raw_data(first, position, size)
           failed == FailedAssert(first, position, size)
<1>1. /\ panic = "none" /\ opened # NONE /\ image \in Image /\ Progress
      /\ UNCHANGED <<image, path, opened>> /\ size \in Nat
  BY Fat16Assumption DEF Fat16Inv, read_file
<1>2. /\ opened \in 1 .. Len(image.dir) /\ IsFile(e) /\ position \in 0 .. e.file_size
      /\ e.file_size \in Nat
  BY <1>1, ImageFacts DEF Progress, Entry
<1>3. PICK c : IsChainOf(c, image, e) /\ data = Beginning(c, position)
  BY <1>1 DEF Progress
<1>4. e' = e /\ Picks(image.dir, path, opened)' = Picks(image.dir, path, opened)
  BY <1>1 DEF Entry
<1>5. CASE ~ InFile(size)
  <2>1. call' = [size |-> size, result |-> -1] /\ UNCHANGED <<position, data, panic>>
    BY <1>5 DEF read_file
  <2>2. call'.size \in Nat /\ call'.result \in {-1, call'.size}
    BY <1>1, <2>1
  <2>3. Progress'
    BY <1>1, <1>4, <2>1 DEF Progress
  <2> QED BY <1>1, <1>4, <2>1, <2>2, <2>3 DEF Fat16Inv
<1>6. CASE InFile(size)
  <2>1. position \in Nat /\ position + size <= e.file_size
    BY <1>2, <1>6 DEF InFile
  <2>2. Reads(e, c, position, size)
    BY <1>2, <1>3, <2>1, <1>1, ChainFacts, ReadsIs
  <2>3. bytes = [k \in 1 .. size |-> ByteOf(c, position + k)]
        /\ (failed # "none" => position = e.file_size /\ position > 0 /\ position % ClusterSize = 0)
    BY <2>2 DEF Reads
  <2>4. CASE failed # "none"
    <3>1. panic' = failed /\ UNCHANGED <<position, data, call>>
      BY <1>6, <2>4 DEF read_file
    <3> HIDE DEF failed
    <3>2. Progress'
      BY <1>1, <1>2, <1>3, <1>4, <2>3, <2>4, <3>1 DEF Progress
    <3> QED BY <1>1, <1>4, <3>1, <3>2 DEF Fat16Inv
  <2>5. CASE failed = "none"
    <3>1. data' = data \o bytes /\ position' = position + Len(bytes)
          /\ call' = [size |-> size, result |-> Len(bytes)] /\ UNCHANGED panic
      BY <1>6, <2>5 DEF read_file
    <3>2. Len(bytes) = size
      BY <1>1, <2>3
    <3> HIDE DEF bytes, failed, e
    <3>3. data' = Beginning(c, position')
      BY <1>1, <1>3, <2>1, <2>3, <3>1, <3>2, BeginningGrows
    <3>4. position' \in 0 .. e.file_size
      BY <1>1, <1>2, <2>1, <3>1, <3>2
    <3>5. Progress'
      BY <1>1, <1>2, <1>3, <1>4, <3>1, <3>3, <3>4 DEF Progress, e
    <3>6. call'.size \in Nat /\ call'.result \in {-1, call'.size}
      BY <1>1, <3>1, <3>2
    <3> QED BY <1>1, <1>4, <3>1, <3>5, <3>6 DEF Fat16Inv
  <2> QED BY <2>4, <2>5
<1> QED BY <1>5, <1>6

\* A read inside the file copies as much as it is asked for.
LEMMA ReadsTheSize ==
  ASSUME Fat16Inv, opened # NONE, NEW size \in 0 .. MaxRead, InFile(size)
  PROVE  LET bytes == read_raw_data(Entry(opened).cluster_index, position, size)
         IN  bytes = [k \in 1 .. size |-> bytes[k]] /\ size \in Nat
<1> DEFINE e == Entry(opened)
           bytes == read_raw_data(e.cluster_index, position, size)
<1>1. /\ image \in Image /\ opened \in 1 .. Len(image.dir) /\ position \in 0 .. e.file_size
      /\ size \in Nat
  BY Fat16Assumption DEF Fat16Inv, Progress
<1>2. PICK c : IsChainOf(c, image, e)
  BY DEF Fat16Inv, Progress
<1>3. e.file_size \in Nat /\ position \in Nat /\ position + size <= e.file_size
  <2>1. e.file_size \in Nat
    BY <1>1, ImageFacts DEF Entry
  <2> QED BY <1>1, <2>1 DEF InFile
<1>4. Reads(e, c, position, size)
  BY <1>1, <1>2, <1>3, ChainFacts, ReadsIs
<1>5. bytes = [k \in 1 .. size |-> ByteOf(c, position + k)]
  BY <1>4 DEF Reads
<1> HIDE DEF bytes
<1>6. bytes = [k \in 1 .. size |-> bytes[k]]
  BY <1>5
<1> QED BY <1>1, <1>6 DEF bytes

\* close_file() forgets the file.
LEMMA CloseKeeps ==
  ASSUME Fat16Inv, close_file
  PROVE  Fat16Inv'
BY DEF Fat16Inv, close_file, NoCall

\* Every step keeps the invariant.
LEMMA StepKeeps ==
  ASSUME Fat16Inv, [Next]_fatVars
  PROVE  Fat16Inv'
<1>1. CASE \E p \in Path : Open(p)
  BY <1>1, OpenKeeps
<1>2. CASE \E size \in 0 .. MaxRead : read_file(size)
  BY <1>2, ReadKeeps
<1>3. CASE close_file
  BY <1>3, CloseKeeps
<1>4. CASE Stopped \/ UNCHANGED fatVars
  <2>1. UNCHANGED <<image, path, opened, position, data, call, panic>>
    BY <1>4 DEF Stopped, fatVars
  <2>2. Progress' = Progress
    BY <2>1 DEF Progress, Entry
  <2> QED BY <2>1, <2>2 DEF Fat16Inv
<1> QED BY <1>1, <1>2, <1>3, <1>4 DEF Next

\* Whatever is opened, read and closed, in whatever order and on whatever sound
\* image: the open file is the first of its name and what was read of it its
\* beginning, in the order of its chain.
THEOREM Fat16Invariant == Spec => []Fat16Inv
<1>1. Init => Fat16Inv
  BY InitInv
<1>2. Fat16Inv /\ [Next]_fatVars => Fat16Inv'
  BY StepKeeps
<1> QED BY <1>1, <1>2, PTL DEF Spec

-----------------------------------------------------------------------------
(* What follows from it.                                                   *)

\* open_file() finds a file exactly when one has the name it is given, however
\* blanks and the dot are written, and then the first one: split_path() and
\* is_file_name_equal() together leave no name out and let no other in.
THEOREM FilesAreFoundByName == Spec => []FindsByName
<1>1. Fat16Inv => FindsByName
  <2> SUFFICES ASSUME Fat16Inv, path # NONE PROVE FindsByName
    BY DEF FindsByName
  <2> DEFINE I == {k \in 1 .. Len(image.dir) :
                     Splits(path) /\ IsFile(image.dir[k]) /\ is_file_name_equal(image.dir[k], path)}
             found == {i \in DOMAIN image.dir : IsFile(Entry(i)) /\ path \in Spellings(Entry(i))}
  <2>1. image \in Image /\ path \in Text /\ Picks(image.dir, path, opened)
    BY Fat16Assumption DEF Fat16Inv, Text
  <2>2. DOMAIN image.dir = 1 .. Len(image.dir) /\ Len(image.dir) \in Nat
        /\ \A k \in 1 .. Len(image.dir) : IsFile(image.dir[k]) => LegalEntry(image.dir[k])
    BY <2>1, ImageFacts
  <2>3. \A k \in 1 .. Len(image.dir) :
          IsFile(image.dir[k]) =>
            (Splits(path) /\ is_file_name_equal(image.dir[k], path)
               <=> path \in Spellings(image.dir[k]))
    BY <2>1, <2>2, SpellingIs
  <2>4. I = found
    BY <2>2, <2>3 DEF Entry
  <2>5. IF I = {} THEN opened = NONE ELSE opened \in I /\ \A k \in I : opened <= k
    BY <2>1 DEF Picks
  <2>6. \A k \in 1 .. Len(image.dir) : k # NONE
    BY <2>2, Fat16Assumption
  <2>7. I \subseteq 1 .. Len(image.dir)
    OBVIOUS
  <2> HIDE DEF I
  <2>8. IF opened = NONE THEN I = {} ELSE opened \in I /\ \A k \in I : opened <= k
    BY <2>5, <2>6, <2>7
  <2>9. FindsByName <=> IF opened = NONE THEN found = {}
                        ELSE opened \in found /\ \A k \in found : opened <= k
    BY DEF FindsByName
  <2> HIDE DEF found
  <2> QED BY <2>4, <2>8, <2>9
<1> QED BY <1>1, Fat16Invariant, PTL

\* The loops of read_raw_data() stop the kernel at most where the file fills its
\* last cluster and all of it was read: the walk then asserts that there is one
\* cluster more.
THEOREM ReadsStopOnlyAtFullEnd == Spec => []StopsOnlyAtFullEnd
<1>1. Fat16Inv => StopsOnlyAtFullEnd
  BY DEF Fat16Inv, Progress, StopsOnlyAtFullEnd
<1> QED BY <1>1, Fat16Invariant, PTL

\* read_file() cuts a file into reads without losing, repeating or mixing up a
\* byte: the walk from the first cluster, the copy from the middle of a cluster
\* and the loop over whole clusters fit together at every position.
THEOREM ReadsFollowTheChain == Spec => []ReadsAreSequential
<1>1. Fat16Inv => ReadsAreSequential
  <2> SUFFICES ASSUME Fat16Inv PROVE ReadsAreSequential
    OBVIOUS
  <2>1. CASE opened = NONE
    <3>1. data = <<>> /\ position = 0
      BY <2>1 DEF Fat16Inv
    <3> QED BY <3>1 DEF ReadsAreSequential
  <2>2. CASE opened # NONE
    <3> DEFINE e == Entry(opened)
    <3>1. image \in Image /\ opened \in 1 .. Len(image.dir) /\ position \in 0 .. e.file_size
      BY <2>2 DEF Fat16Inv, Progress
    <3>2. PICK c : IsChainOf(c, image, e) /\ data = Beginning(c, position)
      BY <2>2 DEF Fat16Inv, Progress
    <3>3. e.file_size \in Nat
      BY <3>1, ImageFacts DEF Entry
    <3>4. Leads(c, image, e)
      BY <3>2, <3>3, ChainFacts
    <3>5. position \in Nat /\ Len(data) = position /\ \A k \in 1 .. position : data[k] = ByteOf(c, k)
      BY <3>1, <3>2, <3>3 DEF Beginning
    <3> HIDE DEF e
    <3>6. position # 0 => data[1] = [cluster |-> e.cluster_index, at |-> 0]
      <4> SUFFICES ASSUME position # 0 PROVE data[1] = [cluster |-> e.cluster_index, at |-> 0]
        OBVIOUS
      <4>1. 1 - 1 = 0 /\ 0 \div C = 0 /\ 0 % C = 0
        BY SizeOfCluster
      <4>2. data[1] = [cluster |-> c[1], at |-> 0]
        BY <3>5, <4>1 DEF ByteOf
      <4>3. Len(c) # 0
        BY <3>1, <3>3, <3>4, SizeOfCluster DEF Leads
      <4> QED BY <3>4, <4>2, <4>3 DEF Leads
    <3>7. \A k \in 1 .. position - 1 : data[k + 1] = NextByte(data[k])
      <4> TAKE k \in 1 .. position - 1
      <4> DEFINE m == k - 1
                 q == m \div C
                 r == m % C
      <4>1. /\ m \in Nat /\ (k + 1) - 1 = m + 1 /\ m + 1 < e.file_size
            /\ k \in 1 .. position /\ k + 1 \in 1 .. position
        BY <3>1, <3>3, <3>5
      <4>2. /\ data[k] = [cluster |-> c[q + 1], at |-> r]
            /\ data[k + 1] = [cluster |-> c[(m + 1) \div C + 1], at |-> ((m + 1) % C)]
        BY <3>5, <4>1 DEF ByteOf
      <4>3. q \in Nat /\ q < Len(c)
        <5>1. m + 1 \in 1 .. e.file_size /\ (m + 1) - 1 = m /\ e.file_size <= C * Len(c)
              /\ Len(c) \in Nat
          BY <3>3, <3>4, <4>1 DEF Leads
        <5>2. ((m + 1) - 1) \div C \in Nat /\ ((m + 1) - 1) \div C < Len(c)
          <6> DEFINE j == m + 1
          <6> HIDE DEF j, m, q, r
          <6>1. j \in 1 .. e.file_size
            BY <5>1 DEF j
          <6>2. (j - 1) \div C \in Nat /\ (j - 1) \div C < Len(c)
            BY <3>3, <5>1, <6>1, BytesInClusters
          <6> QED BY <6>2 DEF j
        <5> HIDE DEF m
        <5> QED BY <5>1, <5>2
      <4>4. r \in 0 .. C - 1 /\ C \in Nat /\ C = ClusterSize
        BY <4>1, Division, SizeOfCluster DEF C
      <4>5. /\ r + 1 < C => (m + 1) \div C = q /\ (m + 1) % C = r + 1
            /\ ~ (r + 1 < C) => (m + 1) \div C = q + 1 /\ (m + 1) % C = 0
        <5> HIDE DEF m
        <5> QED BY <4>1, DivisionNext
      <4> HIDE DEF m, q, r
      <4>6. CASE r + 1 < C
        <5>1. data[k + 1] = [cluster |-> c[q + 1], at |-> r + 1]
          BY <4>2, <4>5, <4>6
        <5>2. NextByte(data[k]) = [cluster |-> c[q + 1], at |-> r + 1]
          BY <4>2, <4>4, <4>6 DEF NextByte
        <5> QED BY <5>1, <5>2
      <4>7. CASE ~ (r + 1 < C)
        <5>1. data[k + 1] = [cluster |-> c[(q + 1) + 1], at |-> 0] /\ (m + 1) \div C = q + 1
          BY <4>2, <4>5, <4>7
        <5>2. q + 1 < Len(c)
          <6>1. m + 2 \in 1 .. e.file_size /\ e.file_size <= C * Len(c) /\ Len(c) \in Nat
                /\ (m + 2) - 1 = m + 1
            BY <3>3, <3>4, <4>1 DEF Leads
          <6> DEFINE j == m + 2
          <6>2. j \in 1 .. e.file_size /\ j - 1 = m + 1
            BY <6>1
          <6> HIDE DEF j
          <6>3. (j - 1) \div C < Len(c)
            BY <3>3, <6>1, <6>2, BytesInClusters
          <6> QED BY <5>1, <6>2, <6>3
        <5>3. image.fat[c[q + 1]] = c[(q + 1) + 1]
          <6>1. q + 1 \in 1 .. Len(c) - 1
            BY <3>4, <4>3, <5>2 DEF Leads
          <6> QED BY <3>4, <6>1 DEF Leads
        <5>4. NextByte(data[k]) = [cluster |-> c[(q + 1) + 1], at |-> 0]
          BY <4>2, <4>4, <4>7, <5>3 DEF NextByte
        <5> QED BY <5>1, <5>4
      <4> QED BY <4>6, <4>7
    <3>8. data # <<>> => position # 0
      BY <3>2, <3>5 DEF Beginning
    <3> QED BY <3>5, <3>6, <3>7, <3>8 DEF ReadsAreSequential, e
  <2> QED BY <2>1, <2>2
<1> QED BY <1>1, Fat16Invariant, PTL

\* A call of read_file() moves the position and returns what it was asked for,
\* or returns -1 and moves nothing: the chain is never shorter than the size
\* the directory says.
THEOREM ReadsReturnAllOrNothing == Spec => ReadsAllOrNothing
<1> DEFINE A == /\ call'.result \in {-1, call'.size}
                /\ call'.result = -1 => position' = position
<1>1. Fat16Inv /\ Fat16Inv' /\ [Next]_fatVars => [A]_fatVars
  <2> SUFFICES ASSUME Fat16Inv, Fat16Inv', [Next]_fatVars PROVE A \/ UNCHANGED fatVars
    OBVIOUS
  <2>1. call'.size \in Nat /\ call'.result \in {-1, call'.size}
    BY DEF Fat16Inv
  <2>2. CASE \E p \in Path : Open(p)
    BY <2>1, <2>2 DEF Open, NoCall
  <2>3. CASE \E size \in 0 .. MaxRead : read_file(size)
    <3>1. PICK size \in 0 .. MaxRead : read_file(size)
      BY <2>3
    <3> DEFINE bytes == read_raw_data(Entry(opened).cluster_index, position, size)
    <3>2. UNCHANGED position \/ call'.result # -1
      <4> SUFFICES ASSUME ~ UNCHANGED position PROVE call'.result # -1
        OBVIOUS
      <4> DEFINE first == Entry(opened).cluster_index
      <4>1. InFile(size) /\ opened # NONE /\ call' = [size |-> size, result |-> Len(bytes)]
        BY <3>1 DEF read_file
      <4>2. bytes = [k \in 1 .. size |-> bytes[k]] /\ size \in Nat
        BY <3>1, <4>1, ReadsTheSize
      <4> HIDE DEF bytes
      <4>3. Len(bytes) = size
        BY <4>2
      <4> QED BY <4>1, <4>2, <4>3
    <3> QED BY <2>1, <3>2
  <2>4. CASE close_file
    BY <2>1, <2>4 DEF close_file, NoCall
  <2>5. CASE Stopped
    BY <2>5 DEF Stopped
  <2> QED BY <2>2, <2>3, <2>4, <2>5 DEF Next
<1> QED BY <1>1, Fat16Invariant, PTL DEF Spec, ReadsAllOrNothing
=============================================================================
