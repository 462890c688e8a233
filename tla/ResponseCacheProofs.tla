------------------------- MODULE ResponseCacheProofs -------------------------
(***************************************************************************)
(* Proofs about ResponseCache, for every number of readers and writers,    *)
(* every capacity, every set of urls and pages and every clock.            *)
(***************************************************************************)
EXTENDS ResponseCache, ListFacts, FiniteSetTheorems, TLAPS

(* The inductive invariant, in named parts. *)

\* What an Lru object is, however races scramble its list: map_ has pages of their own
\* urls, and list_ has one node each for some of the urls of map_.
Coherent(l) ==
  /\ Distinct(l.list)
  /\ \A i \in 1..Len(l.list) : Has(l, l.list[i])
  /\ \A u \in Urls : Has(l, u) => l.map[u].page \in Pages[u]

ObjectInv == \A o \in Objects : Coherent(lru[o])

\* What a key has is what somebody stored there.
RedisInv ==
  \A k \in Keys :
    redis[k] = Empty \/ \E u \in Urls : \E p \in Pages[u] : <<k, redis[k]>> \in Stores[u][p]

HasTemp == {"find", "splice", "erase", "release"}
Critical == {"check", "copy", "put", "evict"}

\* A reader has a reference from its critical section to its release, and what it brings
\* back is a page of its url; between the two levels it has the empty string.
ReaderInv ==
  \A r \in Readers :
    /\ temp[r] # NoObject <=> pc[r] \in HasTemp
    /\ pc[r] # "idle" => url[r] \in Urls
    /\ pc[r] = "erase" => page[r] = Empty
    /\ pc[r] = "release" => page[r] \in Pages[url[r]] \cup {Empty}

WriterInv ==
  \A w \in Writers :
    /\ pc[w] # "idle" => url[w] \in Urls /\ page[w] \in Pages[url[w]]
    /\ pc[w] \in Critical => mx = w

Kept == PutsAlone /\ SnapshotReads /\ MemoryIsLatest

CInv == TypeOK /\ ObjectInv /\ RedisInv /\ ReaderInv /\ WriterInv /\ AnswersMatchUrl /\ Kept

-----------------------------------------------------------------------------
(* The list. *)

\* Removing an element that is there takes out one position of it.
LEMMA RemovesOne ==
  ASSUME NEW s \in Seq(Urls), NEW u, NEW k \in 1..Len(s), s[k] = u
  PROVE  \E n \in 1..Len(s) : s[n] = u /\ RemoveFirst(s, u) = RemoveAt(s, n)
<1> DEFINE I == {i \in 1..Len(s) : s[i] = u}
<1>1. k \in I /\ Len(s) \in Nat
  OBVIOUS
<1>2. I \subseteq Nat /\ I # {}
  BY <1>1
<1>3. Min(I) \in I
  BY <1>2, MinIsMember
<1>4. SelectInSeq(s, LAMBDA v : v = u) = Min(I)
  BY <1>2 DEF SelectInSeq
<1>5. RemoveFirst(s, u) = RemoveAt(s, Min(I))
  BY <1>1, <1>4 DEF RemoveFirst
<1> QED BY <1>3, <1>5

LEMMA RemoveAtFacts ==
  ASSUME NEW s \in Seq(Urls), NEW n \in 1..Len(s)
  PROVE  /\ RemoveAt(s, n) \in Seq(Urls)
         /\ Len(RemoveAt(s, n)) = Len(s) - 1
         /\ \A i \in 1..(Len(s) - 1) : RemoveAt(s, n)[i] = IF i < n THEN s[i] ELSE s[i + 1]
<1> DEFINE a == SubSeq(s, 1, n - 1)
           b == SubSeq(s, n + 1, Len(s))
<1>0. Len(s) \in Nat /\ n \in Nat /\ 1 <= n /\ n <= Len(s)
  OBVIOUS
<1>1. (\A i \in 1..(n - 1) : s[i] \in Urls) /\ \A i \in (n + 1)..Len(s) : s[i] \in Urls
  BY <1>0, ElementOfSeq
<1>2. /\ a \in Seq(Urls) /\ Len(a) = n - 1
      /\ \A i \in 1..(n - 1) : a[i] = s[i]
  BY <1>0, <1>1, SubSeqProperties
<1>3. /\ b \in Seq(Urls) /\ Len(b) = Len(s) - n
      /\ \A i \in 1..(Len(s) - n) : b[i] = s[n + i]
  BY <1>0, <1>1, SubSeqProperties
<1> HIDE DEF a, b
<1>4. /\ a \o b \in Seq(Urls)
      /\ Len(a \o b) = Len(a) + Len(b)
      /\ \A i \in 1..(Len(a) + Len(b)) : (a \o b)[i] =
           IF i <= Len(a) THEN a[i] ELSE b[i - Len(a)]
  BY <1>2, <1>3, ConcatProperties
<1>5. Len(a \o b) = Len(s) - 1
  BY <1>0, <1>2, <1>3, <1>4
<1>6. ASSUME NEW i \in 1..(Len(s) - 1)
      PROVE  (a \o b)[i] = IF i < n THEN s[i] ELSE s[i + 1]
  <2>1. CASE i < n
    BY <1>0, <1>2, <1>3, <1>4, <2>1
  <2>2. CASE ~(i < n)
    <3>1. (a \o b)[i] = b[i - Len(a)]
      BY <1>0, <1>2, <1>3, <1>4, <2>2
    <3>2. i - Len(a) \in 1..(Len(s) - n) /\ n + (i - Len(a)) = i + 1
      BY <1>0, <1>2, <2>2
    <3> QED BY <1>3, <2>2, <3>1, <3>2
  <2> QED BY <2>1, <2>2
<1>7. RemoveAt(s, n) = a \o b
  BY DEF RemoveAt, a, b
<1> QED BY <1>4, <1>5, <1>6, <1>7

\* RemoveFirst of a list without repetitions removes the url and nothing else.
LEMMA RemoveFirstFacts ==
  ASSUME NEW s \in Seq(Urls), Distinct(s), NEW u
  PROVE  /\ RemoveFirst(s, u) \in Seq(Urls)
         /\ Distinct(RemoveFirst(s, u))
         /\ \A i \in 1..Len(RemoveFirst(s, u)) :
              /\ RemoveFirst(s, u)[i] # u
              /\ \E j \in 1..Len(s) : s[j] = RemoveFirst(s, u)[i]
<1>0. Len(s) \in Nat
  OBVIOUS
<1>1. CASE \E k \in 1..Len(s) : s[k] = u
  <2>1. PICK n \in 1..Len(s) : s[n] = u /\ RemoveFirst(s, u) = RemoveAt(s, n)
    BY <1>1, RemovesOne
  <2> DEFINE t == RemoveAt(s, n)
  <2>2. /\ t \in Seq(Urls) /\ Len(t) = Len(s) - 1
        /\ \A i \in 1..(Len(s) - 1) : t[i] = IF i < n THEN s[i] ELSE s[i + 1]
    BY RemoveAtFacts
  <2> HIDE DEF t
  <2>3. Distinct(t)
    BY <1>0, <2>2 DEF Distinct
  <2>4. ASSUME NEW i \in 1..Len(t) PROVE t[i] # u /\ \E j \in 1..Len(s) : s[j] = t[i]
    <3>1. PICK j \in 1..Len(s) : j # n /\ s[j] = t[i]
      <4>1. CASE i < n
        BY <1>0, <2>2, <4>1
      <4>2. CASE ~(i < n)
        <5>1. i + 1 \in 1..Len(s) /\ i + 1 # n /\ s[i + 1] = t[i]
          BY <1>0, <2>2, <4>2
        <5> QED BY <5>1
      <4> QED BY <4>1, <4>2
    <3> QED BY <2>1, <3>1 DEF Distinct
  <2> QED BY <2>1, <2>2, <2>3, <2>4 DEF t
<1>2. CASE ~\E k \in 1..Len(s) : s[k] = u
  BY <1>2 DEF RemoveFirst
<1> QED BY <1>1, <1>2

LEMMA ToBackFacts ==
  ASSUME NEW s \in Seq(Urls), Distinct(s), NEW u \in Urls
  PROVE  /\ ToBack(s, u) \in Seq(Urls)
         /\ Distinct(ToBack(s, u))
         /\ \A i \in 1..Len(ToBack(s, u)) :
              ToBack(s, u)[i] = u \/ \E j \in 1..Len(s) : s[j] = ToBack(s, u)[i]
<1> DEFINE t == RemoveFirst(s, u)
<1>1. /\ t \in Seq(Urls) /\ Distinct(t)
      /\ \A i \in 1..Len(t) : t[i] # u /\ \E j \in 1..Len(s) : s[j] = t[i]
  BY RemoveFirstFacts
<1>2. ToBack(s, u) = Append(t, u)
  BY DEF ToBack
<1> HIDE DEF t
<1>3. /\ Append(t, u) \in Seq(Urls) /\ Len(Append(t, u)) = Len(t) + 1 /\ Len(t) \in Nat
      /\ \A i \in 1..Len(t) : Append(t, u)[i] = t[i]
      /\ Append(t, u)[Len(t) + 1] = u
  BY <1>1, AppendProperties
<1>4. \A i \in 1..(Len(t) + 1) : i \in 1..Len(t) \/ i = Len(t) + 1
  BY <1>3
<1>5. Distinct(Append(t, u))
  BY <1>1, <1>3, <1>4 DEF Distinct
<1> QED BY <1>1, <1>2, <1>3, <1>4, <1>5

-----------------------------------------------------------------------------
(* The Lru object. *)

\* Nothing is in m that is not in l, with the same page.
Within(m, l) == \A v \in Urls : Has(m, v) => Has(l, v) /\ m.map[v].page = l.map[v].page

Nodes == [page : AllPages \cup {Empty}, time : 0..MaxClock]

LEMMA LruFields ==
  ASSUME NEW m, NEW q
  PROVE  /\ [map |-> m, list |-> q].map = m /\ [map |-> m, list |-> q].list = q
         /\ [map |-> m, list |-> q] \in Lrus <=> m \in [Urls -> Nodes] /\ q \in Seq(Urls)
  BY DEF Lrus, Nodes

LEMMA LruType ==
  ASSUME NEW l \in Lrus
  PROVE  /\ l.map \in [Urls -> Nodes] /\ l.list \in Seq(Urls)
         /\ l = [map |-> l.map, list |-> l.list]
  BY DEF Lrus, Nodes

LEMMA PageNotEmpty ==
  ASSUME NEW u \in Urls, NEW p \in Pages[u]
  PROVE  p # Empty /\ p \in AllPages /\ p \in Seq(STRING)
  BY CacheAssumption DEF Empty, AllPages

LEMMA NoNodeType == NoNode \in Nodes /\ NoNode.page = Empty
  BY CacheAssumption DEF NoNode, Nodes

\* A node with a page is an entry.
LEMMA NodeHasPage ==
  ASSUME NEW u \in Urls, NEW p \in Pages[u], NEW t
  PROVE  [page |-> p, time |-> t] # NoNode
<1>1. [page |-> p, time |-> t].page = p /\ NoNode.page = Empty
  BY DEF NoNode
<1> QED BY <1>1, PageNotEmpty

LEMMA EmptyLruFacts ==
  EmptyLru \in Lrus /\ Coherent(EmptyLru) /\ \A u \in Urls : ~Has(EmptyLru, u)
<1> DEFINE m == [u \in Urls |-> NoNode]
<1>1. m \in [Urls -> Nodes] /\ <<>> \in Seq(Urls) /\ Len(<<>>) = 0
  BY NoNodeType, EmptySeq
<1>2. EmptyLru = [map |-> m, list |-> <<>>]
  BY DEF EmptyLru
<1>3. EmptyLru \in Lrus /\ EmptyLru.map = m /\ EmptyLru.list = <<>>
  BY <1>1, <1>2, LruFields
<1>4. \A u \in Urls : ~Has(EmptyLru, u)
  BY <1>3 DEF Has
<1>5. Coherent(EmptyLru)
  BY <1>1, <1>3, <1>4 DEF Coherent, Distinct
<1> QED BY <1>3, <1>4, <1>5

LEMMA StoredFacts ==
  ASSUME NEW l \in Lrus, Coherent(l), NEW u \in Urls, NEW p \in Pages[u], clock \in 0..MaxClock
  PROVE  /\ Stored(l, u, p) \in Lrus /\ Coherent(Stored(l, u, p))
         /\ Has(Stored(l, u, p), u) /\ Stored(l, u, p).map[u].page = p
         /\ \A v \in Urls \ {u} : Stored(l, u, p).map[v] = l.map[v]
<1> DEFINE n == [page |-> p, time |-> clock]
           m == [l.map EXCEPT ![u] = n]
           q == ToBack(l.list, u)
<1>1. n \in Nodes /\ n # NoNode /\ n.page = p
  BY PageNotEmpty, NodeHasPage DEF Nodes
<1> HIDE DEF n
<1>2. l.map \in [Urls -> Nodes] /\ l.list \in Seq(Urls)
  BY LruType
<1>3. m \in [Urls -> Nodes] /\ m[u] = n /\ \A v \in Urls \ {u} : m[v] = l.map[v]
  BY <1>1, <1>2
<1>4. /\ q \in Seq(Urls) /\ Distinct(q)
      /\ \A i \in 1..Len(q) : q[i] = u \/ \E j \in 1..Len(l.list) : l.list[j] = q[i]
  BY <1>2, ToBackFacts DEF Coherent
<1>5. Stored(l, u, p) = [map |-> m, list |-> q]
  BY DEF Stored, n
<1> HIDE DEF m, q
<1>6. Stored(l, u, p) \in Lrus /\ Stored(l, u, p).map = m /\ Stored(l, u, p).list = q
  BY <1>3, <1>4, <1>5, LruFields
<1>7. \A i \in 1..Len(q) : q[i] \in Urls /\ m[q[i]] # NoNode
  BY <1>1, <1>2, <1>3, <1>4, ElementOfSeq DEF Coherent, Has
<1>8. \A v \in Urls : m[v] # NoNode => m[v].page \in Pages[v]
  BY <1>1, <1>3 DEF Coherent, Has
<1> QED BY <1>1, <1>3, <1>4, <1>6, <1>7, <1>8 DEF Coherent, Has

LEMMA SplicedFacts ==
  ASSUME NEW l \in Lrus, Coherent(l), NEW u \in Urls, Has(l, u)
  PROVE  Spliced(l, u) \in Lrus /\ Coherent(Spliced(l, u)) /\ Within(Spliced(l, u), l)
<1> DEFINE q == ToBack(l.list, u)
<1>1. l.map \in [Urls -> Nodes] /\ l.list \in Seq(Urls) /\ l = [map |-> l.map, list |-> l.list]
  BY LruType
<1>2. /\ q \in Seq(Urls) /\ Distinct(q)
      /\ \A i \in 1..Len(q) : q[i] = u \/ \E j \in 1..Len(l.list) : l.list[j] = q[i]
  BY <1>1, ToBackFacts DEF Coherent
<1> HIDE DEF q
<1>3. Spliced(l, u) = [map |-> l.map, list |-> q]
  BY <1>1 DEF Spliced, q
<1>4. Spliced(l, u) \in Lrus /\ Spliced(l, u).map = l.map /\ Spliced(l, u).list = q
  BY <1>1, <1>2, <1>3, LruFields
<1>5. \A i \in 1..Len(q) : Has(l, q[i])
  BY <1>2 DEF Coherent
<1> QED BY <1>2, <1>4, <1>5 DEF Coherent, Has, Within

LEMMA ErasedFacts ==
  ASSUME NEW l \in Lrus, Coherent(l), NEW u \in Urls
  PROVE  Erased(l, u) \in Lrus /\ Coherent(Erased(l, u)) /\ Within(Erased(l, u), l)
<1> DEFINE m == [l.map EXCEPT ![u] = NoNode]
           q == RemoveFirst(l.list, u)
<1>1. l.map \in [Urls -> Nodes] /\ l.list \in Seq(Urls)
  BY LruType
<1>2. m \in [Urls -> Nodes] /\ m[u] = NoNode /\ \A v \in Urls \ {u} : m[v] = l.map[v]
  BY <1>1, NoNodeType
<1>3. /\ q \in Seq(Urls) /\ Distinct(q)
      /\ \A i \in 1..Len(q) : q[i] # u /\ \E j \in 1..Len(l.list) : l.list[j] = q[i]
  BY <1>1, RemoveFirstFacts DEF Coherent
<1>4. Erased(l, u) = [map |-> m, list |-> q]
  BY DEF Erased
<1> HIDE DEF m, q
<1>5. Erased(l, u) \in Lrus /\ Erased(l, u).map = m /\ Erased(l, u).list = q
  BY <1>2, <1>3, <1>4, LruFields
<1>6. \A i \in 1..Len(q) : q[i] \in Urls /\ m[q[i]] # NoNode
  BY <1>1, <1>2, <1>3, ElementOfSeq DEF Coherent, Has
<1> QED BY <1>2, <1>3, <1>5, <1>6 DEF Coherent, Has, Within

LEMMA CopyOfFacts ==
  ASSUME NEW l \in Lrus, Coherent(l), clock \in 0..MaxClock
  PROVE  CopyOf(l) \in Lrus /\ Coherent(CopyOf(l)) /\ Within(CopyOf(l), l)
<1> DEFINE N(v) == IF v \in Range(l.list) THEN [l.map[v] EXCEPT !.time = clock] ELSE NoNode
           m == [v \in Urls |-> N(v)]
<1>1. l.map \in [Urls -> Nodes] /\ l.list \in Seq(Urls) /\ DOMAIN l.list = 1..Len(l.list)
  BY LruType, LenProperties
<1>2. ASSUME NEW v \in Urls
      PROVE  /\ N(v) \in Nodes
             /\ v \in Range(l.list) =>
                  Has(l, v) /\ N(v).page = l.map[v].page /\ N(v) # NoNode
             /\ v \notin Range(l.list) => N(v) = NoNode
  <2>1. CASE v \in Range(l.list)
    <3>1. Has(l, v) /\ l.map[v] \in Nodes /\ l.map[v].page \in Pages[v]
      BY <1>1, <2>1 DEF Coherent, Range
    <3>2. N(v) = [page |-> l.map[v].page, time |-> clock]
      BY <2>1, <3>1 DEF Nodes
    <3> QED BY <2>1, <3>1, <3>2, PageNotEmpty, NodeHasPage DEF Nodes
  <2>2. CASE v \notin Range(l.list)
    BY <2>2, NoNodeType
  <2> QED BY <2>1, <2>2
<1>3. m \in [Urls -> Nodes] /\ \A v \in Urls : m[v] = N(v)
  BY <1>2
<1>4. CopyOf(l) = [map |-> m, list |-> l.list]
  BY DEF CopyOf
<1> HIDE DEF m, N
<1>5. CopyOf(l) \in Lrus /\ CopyOf(l).map = m /\ CopyOf(l).list = l.list
  BY <1>1, <1>3, <1>4, LruFields
<1>6. \A i \in 1..Len(l.list) : l.list[i] \in Urls /\ l.list[i] \in Range(l.list)
  BY <1>1, ElementOfSeq DEF Range
<1> QED BY <1>2, <1>3, <1>5, <1>6 DEF Coherent, Has, Within

\* Races lose and shuffle nodes of the list; they do not touch the map.
LEMMA ScrambledFacts ==
  ASSUME NEW l \in Lrus, Coherent(l), NEW x \in Scrambled(l)
  PROVE  x \in Lrus /\ Coherent(x) /\ Within(x, l)
<1>1. /\ l.map \in [Urls -> Nodes] /\ l.list \in Seq(Urls) /\ DOMAIN l.list = 1..Len(l.list)
      /\ l = [map |-> l.map, list |-> l.list] /\ Len(l.list) \in Nat
  BY LruType, LenProperties
<1>2. PICK q \in SetToAllKPermutations(Range(l.list)) : x = [l EXCEPT !.list = q]
  BY DEF Scrambled
<1>3. PICK S \in SUBSET Range(l.list) : q \in SetToSeqs(S)
  BY DEF SetToAllKPermutations
<1>4. Cardinality(S) \in Nat
  <2>1. IsFiniteSet(1..Len(l.list))
    <3>1. 1 \in Int /\ Len(l.list) \in Int
      BY <1>1
    <3> QED BY <3>1, FS_Interval
  <2>2. l.list \in Surjection(1..Len(l.list), Range(l.list))
    <3>1. l.list \in [1..Len(l.list) -> Range(l.list)]
      BY <1>1 DEF Range
    <3>2. \A v \in Range(l.list) : \E i \in 1..Len(l.list) : l.list[i] = v
      BY <1>1 DEF Range
    <3> QED BY <3>1, <3>2 DEF Surjection
  <2>3. IsFiniteSet(Range(l.list))
    BY <2>1, <2>2, FS_Surjection
  <2>4. IsFiniteSet(S)
    BY <2>3, FS_Subset
  <2> QED BY <2>4, FS_CardinalityType
<1>5. S \subseteq Urls /\ \A v \in S : Has(l, v)
  BY <1>1, ElementOfSeq DEF Range, Coherent
<1>6. /\ q \in [1..Cardinality(S) -> S]
      /\ \A i, j \in 1..Cardinality(S) : i # j => q[i] # q[j]
  BY <1>3 DEF SetToSeqs
<1>7. q \in Seq(Urls) /\ Len(q) = Cardinality(S)
  BY <1>4, <1>5, <1>6
<1>8. Distinct(q) /\ \A i \in 1..Len(q) : Has(l, q[i])
  BY <1>5, <1>6, <1>7 DEF Distinct
<1>9. x = [map |-> l.map, list |-> q]
  BY <1>1, <1>2
<1>10. x \in Lrus /\ x.map = l.map /\ x.list = q
  BY <1>1, <1>7, <1>9, LruFields
<1> QED BY <1>8, <1>10 DEF Coherent, Has, Within

LEMMA WithinTransitive ==
  ASSUME NEW a, NEW b, NEW c, Within(a, b), Within(b, c) PROVE Within(a, c)
  BY DEF Within

-----------------------------------------------------------------------------
(* Redis. *)

\* A sequence between two marks.
LEMMA BetweenMarks ==
  ASSUME NEW S, NEW p \in Seq(S), NEW k \in Seq(S), Len(k) = 1
  PROVE  /\ (k \o p) \o k \in Seq(S)
         /\ Len((k \o p) \o k) = Len(p) + 2
         /\ \A i \in 1..Len(p) : ((k \o p) \o k)[i + 1] = p[i]
         /\ ((k \o p) \o k)[1] = k[1] /\ ((k \o p) \o k)[Len(p) + 2] = k[1]
<1>0. Len(p) \in Nat
  OBVIOUS
<1> DEFINE a == k \o p
<1>1. /\ a \in Seq(S) /\ Len(a) = Len(k) + Len(p)
      /\ \A i \in 1..(Len(k) + Len(p)) : a[i] = IF i <= Len(k) THEN k[i] ELSE p[i - Len(k)]
  BY ConcatProperties
<1> HIDE DEF a
<1>2. \A i \in 1..Len(p) : a[i + 1] = p[i]
  <2> TAKE i \in 1..Len(p)
  <2>1. i + 1 \in 1..(Len(k) + Len(p)) /\ ~(i + 1 <= Len(k)) /\ (i + 1) - Len(k) = i
    BY <1>0
  <2> QED BY <1>1, <2>1
<1>3. a \in Seq(S)
  BY <1>1
<1> DEFINE v == a \o k
<1>4. /\ v \in Seq(S) /\ Len(v) = Len(a) + Len(k)
      /\ \A i \in 1..(Len(a) + Len(k)) : v[i] = IF i <= Len(a) THEN a[i] ELSE k[i - Len(a)]
  BY <1>3, ConcatProperties
<1> HIDE DEF v
<1>5. \A i \in 1..Len(p) : v[i + 1] = a[i + 1]
  <2> TAKE i \in 1..Len(p)
  <2>1. i + 1 \in 1..(Len(a) + Len(k)) /\ i + 1 <= Len(a)
    BY <1>0, <1>1
  <2> QED BY <1>4, <2>1
<1>6. v \in Seq(S) /\ Len(v) = Len(p) + 2 /\ \A i \in 1..Len(p) : v[i + 1] = p[i]
  BY <1>0, <1>1, <1>2, <1>4, <1>5
<1>7. v[1] = k[1] /\ v[Len(p) + 2] = k[1]
  <2>1. a[1] = k[1]
    BY <1>0, <1>1
  <2>2. v[1] = a[1] /\ v[Len(p) + 2] = k[1]
    <3>1. 1 \in 1..(Len(a) + Len(k)) /\ 1 <= Len(a)
      BY <1>0, <1>1
    <3>2. /\ Len(p) + 2 \in 1..(Len(a) + Len(k)) /\ ~(Len(p) + 2 <= Len(a))
          /\ (Len(p) + 2) - Len(a) = 1
      BY <1>0, <1>1
    <3> QED BY <1>4, <3>1, <3>2
  <2> QED BY <2>1, <2>2
<1> QED BY <1>6, <1>7 DEF a, v

WithMark(C) == C \cup {QuoteMark}

LEMMA QuoteFacts ==
  ASSUME NEW C, NEW p \in Seq(C)
  PROVE  /\ p \in Seq(WithMark(C)) /\ Len(p) \in Nat
         /\ Quote(p) \in Seq(WithMark(C)) /\ Len(Quote(p)) = Len(p) + 2
         /\ \A i \in 1..Len(p) : Quote(p)[i + 1] = p[i]
         /\ Quote(p)[1] = QuoteMark /\ Quote(p)[Len(p) + 2] = QuoteMark
<1>1. C \subseteq WithMark(C) /\ QuoteMark \in WithMark(C)
  BY DEF WithMark
<1>2. p \in Seq(WithMark(C)) /\ Len(p) \in Nat
  BY <1>1, SeqMonotonic
<1>3. <<QuoteMark>> \in Seq(WithMark(C)) /\ Len(<<QuoteMark>>) = 1 /\ <<QuoteMark>>[1] = QuoteMark
  BY <1>1
<1> QED BY <1>2, <1>3, BetweenMarks DEF Quote

\* What is quoted on the way in is what comes back.
LEMMA UnquoteQuote == ASSUME NEW C, NEW p \in Seq(C) PROVE Unquote(Quote(p)) = p
<1> DEFINE v == Quote(p)
           t == SubSeq(v, 2, Len(v) - 1)
<1>1. p \in Seq(WithMark(C)) /\ Len(p) \in Nat
  BY QuoteFacts
<1>2. /\ v \in Seq(WithMark(C)) /\ Len(v) = Len(p) + 2
      /\ \A i \in 1..Len(p) : v[i + 1] = p[i]
  BY QuoteFacts
<1> HIDE DEF v
<1>3. 2 \in Int /\ Len(v) - 1 \in Int /\ \A i \in 2..(Len(v) - 1) : v[i] \in WithMark(C)
  BY <1>1, <1>2, ElementOfSeq
<1>4. /\ t \in Seq(WithMark(C))
      /\ Len(t) = IF 2 <= Len(v) - 1 THEN (Len(v) - 1) - 2 + 1 ELSE 0
      /\ \A i \in 1..((Len(v) - 1) - 2 + 1) : t[i] = v[2 + i - 1]
  BY <1>3, SubSeqProperties
<1> HIDE DEF t
<1>5. Len(t) = Len(p)
  BY <1>1, <1>2, <1>4
<1>6. \A i \in 1..Len(p) : t[i] = p[i]
  BY <1>1, <1>2, <1>4
<1>7. t = p
  BY <1>1, <1>4, <1>5, <1>6, SeqEqual
<1> QED BY <1>7 DEF Unquote, v, t

\* The quotes add no other character.
LEMMA QuoteRange ==
  ASSUME NEW C, NEW p \in Seq(C), NEW c, c # QuoteMark, c \notin Range(p)
  PROVE  c \notin Range(Quote(p))
<1> DEFINE v == Quote(p)
<1>1. /\ v \in Seq(WithMark(C)) /\ Len(v) = Len(p) + 2 /\ Len(p) \in Nat
      /\ \A i \in 1..Len(p) : v[i + 1] = p[i]
      /\ v[1] = QuoteMark /\ v[Len(p) + 2] = QuoteMark
  BY QuoteFacts
<1> HIDE DEF v
<1>2. DOMAIN v = 1..(Len(p) + 2) /\ DOMAIN p = 1..Len(p)
  BY <1>1, LenProperties
<1>3. ASSUME NEW i \in 1..(Len(p) + 2) PROVE v[i] # c
  <2>1. CASE i = 1 \/ i = Len(p) + 2
    BY <1>1, <2>1
  <2>2. CASE i # 1 /\ i # Len(p) + 2
    <3>1. PICK j \in 1..Len(p) : i = j + 1
      <4>1. i - 1 \in 1..Len(p) /\ i = (i - 1) + 1
        BY <1>1, <2>2
      <4> QED BY <4>1
    <3>2. v[i] = p[j] /\ p[j] \in Range(p)
      BY <1>1, <1>2, <3>1 DEF Range
    <3> QED BY <3>2
  <2> QED BY <2>1, <2>2
<1>4. c \notin Range(v)
  BY <1>2, <1>3 DEF Range
<1> QED BY <1>4 DEF v

\* A page without a NUL comes back from Redis as it was sent.
LEMMA PageReturned ==
  ASSUME NEW u \in Urls, NEW p \in Pages[u], Nul \notin Range(p)
  PROVE  Returned(Quote(p)) = p
<1>1. p \in Seq(STRING)
  BY CacheAssumption
<1>2. Nul # QuoteMark
  BY DEF Nul, QuoteMark
<1>3. Nul \notin Range(Quote(p))
  BY <1>1, <1>2, QuoteRange
<1> QED BY <1>1, <1>3, UnquoteQuote DEF Returned, CStr

\* What is stored is stored under a key and is a value.
LEMMA StoresType ==
  ASSUME NEW u \in Urls, NEW p \in Pages[u], NEW s \in Stores[u][p]
  PROVE  s[1] \in Keys /\ s[2] \in Values /\ s = <<s[1], s[2]>>
<1>1. s \in AllStores
  BY DEF AllStores
<1>2. s \in StoresFor(u, p)
  BY DEF Stores
<1>3. s = <<s[1], s[2]>>
  <2>1. s \in Argument(u, FALSE) \X Argument(CStr(Quote(p)), TRUE)
    BY <1>2 DEF StoresFor
  <2>2. \A A, B : \A x \in A \X B : x = <<x[1], x[2]>>
    OBVIOUS
  <2> QED BY <2>1, <2>2
<1>4. s[1] \in Keys /\ s[2] \in Values
  BY <1>1 DEF Keys, Values
<1> QED BY <1>3, <1>4

LEMMA AskedType == ASSUME NEW u \in Urls, NEW k \in Asked[u] PROVE k \in Keys
  BY DEF Keys

Plain(s) == "%" \notin Range(s) /\ Nul \notin Range(s)

\* Text without "%" and NUL is what redisCommand makes of it.
LEMMA PlainArgument ==
  ASSUME NEW s, Plain(s), NEW isLast, NEW a \in Argument(s, isLast)
  PROVE  a = s
<1>1. a \in Printf(s, isLast)
  BY DEF Argument
<1>2. Printf(s, isLast) = {s}
  BY DEF Printf, Plain
<1> QED BY <1>1, <1>2

-----------------------------------------------------------------------------
(* Initial states, and steps that leave the memory cache alone. *)

LEMMA ThreadFacts ==
  /\ \A r \in Readers, w \in Writers : r # w
  /\ Readers \subseteq Threads /\ Writers \subseteq Threads
  /\ NoObject \notin Objects /\ Nobody \notin Writers
  BY CacheAssumption DEF Threads

LEMMA CacheInit == Init => CInv
<1> SUFFICES ASSUME Init PROVE CInv
  OBVIOUS
<1>1. TypeOK
  BY CacheAssumption, EmptyLruFacts
     DEF Init, TypeOK, Threads, ReaderPcs, WriterPcs
<1>2. ObjectInv
  BY EmptyLruFacts DEF Init, ObjectInv
<1>3. RedisInv
  BY DEF Init, RedisInv
<1>4. ReaderInv /\ AnswersMatchUrl
  BY ThreadFacts DEF Init, ReaderInv, AnswersMatchUrl, HasTemp
<1>5. WriterInv /\ PutsAlone
  BY ThreadFacts DEF Init, WriterInv, PutsAlone, Critical
<1>6. SnapshotReads
  BY DEF Init, SnapshotReads
<1>7. MemoryIsLatest
  BY EmptyLruFacts DEF Init, MemoryIsLatest
<1> QED BY <1>1, <1>2, <1>3, <1>4, <1>5, <1>6, <1>7 DEF CInv, Kept

\* The process dies: nothing else changes.
LEMMA DieStep ==
  ASSUME CInv, NEW cause \in {"nilReply", "shortReply", "varargs", "race", "endErased"}, Die(cause)
  PROVE  CInv'
<1>1. UNCHANGED <<cur, lru, mx, pc, url, page, temp, seen, redis, clock, latest>>
  BY DEF Die, callVars
<1>2. TypeOK'
  BY <1>1 DEF CInv, TypeOK, Die
<1>3. /\ ObjectInv' /\ RedisInv' /\ ReaderInv' /\ WriterInv' /\ AnswersMatchUrl'
  BY <1>1 DEF CInv, ObjectInv, RedisInv, ReaderInv, WriterInv, AnswersMatchUrl, Coherent, Has
<1>4. Kept'
  BY <1>1 DEF CInv, Kept, PutsAlone, SnapshotReads, MemoryIsLatest, Unique, Has
<1> QED BY <1>2, <1>3, <1>4 DEF CInv

LEMMA ReadReturnsStep ==
  ASSUME CInv, NEW r \in Readers, ReadReturns(r)
  PROVE  CInv'
<1>0. /\ UNCHANGED <<cur, lru, mx, temp, seen, redis, clock, fault, latest>>
      /\ pc[r] = "done" /\ pc' = [pc EXCEPT ![r] = "idle"]
      /\ page' = [page EXCEPT ![r] = Empty] /\ url' = [url EXCEPT ![r] = NoUrl]
  BY DEF ReadReturns, Goto
<1>1. TypeOK'
  BY <1>0, ThreadFacts DEF CInv, TypeOK, ReaderPcs, WriterPcs
<1>2. ObjectInv' /\ RedisInv' /\ MemoryIsLatest'
  BY <1>0 DEF CInv, Kept, ObjectInv, RedisInv, MemoryIsLatest, Coherent, Has
<1>3. ReaderInv' /\ AnswersMatchUrl'
  BY <1>0, ThreadFacts DEF CInv, TypeOK, ReaderInv, AnswersMatchUrl, HasTemp
<1>4. WriterInv' /\ PutsAlone'
  BY <1>0, ThreadFacts DEF CInv, Kept, TypeOK, WriterInv, PutsAlone, Unique
<1>5. SnapshotReads'
  BY <1>0, ThreadFacts DEF CInv, Kept, TypeOK, ReaderInv, HasTemp, SnapshotReads, Has
<1> QED BY <1>1, <1>2, <1>3, <1>4, <1>5 DEF CInv, Kept

LEMMA FindStep ==
  ASSUME CInv, NEW r \in Readers, Find(r)
  PROVE  CInv'
<1>0. /\ UNCHANGED <<cur, lru, mx, url, temp, seen, redis, clock, fault, latest>>
      /\ pc[r] = "find" /\ page' = [page EXCEPT ![r] = Empty]
  BY DEF Find
<1>1. PICK label \in {"release", "erase", "splice"} : pc' = [pc EXCEPT ![r] = label]
  BY DEF Find, Goto
<1>2. TypeOK'
  BY <1>0, <1>1, ThreadFacts DEF CInv, TypeOK, ReaderPcs, WriterPcs
<1>3. ObjectInv' /\ RedisInv' /\ MemoryIsLatest' /\ SnapshotReads'
  BY <1>0 DEF CInv, Kept, ObjectInv, RedisInv, MemoryIsLatest, SnapshotReads,
              Coherent, Has
<1>4. ReaderInv' /\ AnswersMatchUrl'
  BY <1>0, <1>1, ThreadFacts DEF CInv, TypeOK, ReaderInv, AnswersMatchUrl, HasTemp
<1>5. WriterInv' /\ PutsAlone'
  BY <1>0, <1>1, ThreadFacts DEF CInv, Kept, TypeOK, WriterInv, PutsAlone, Unique
<1> QED BY <1>2, <1>3, <1>4, <1>5 DEF CInv, Kept

\* An answer of Redis for url[r] is nothing, the error text, or what somebody stored under
\* a key it asked for: its own page, if Redis keeps url[r] apart.
LEMMA ReadRedisStep ==
  ASSUME CInv, NEW r \in Readers, ReadRedis(r)
  PROVE  CInv'
<1>1. CASE \E cause \in {"nilReply", "shortReply", "varargs"} : Die(cause)
  BY <1>1, DieStep
<1>2. CASE ~\E cause \in {"nilReply", "shortReply", "varargs"} : Die(cause)
  <2>0. /\ UNCHANGED <<cur, lru, mx, url, temp, seen, redis, clock, fault, latest>>
        /\ pc[r] = "redis" /\ pc' = [pc EXCEPT ![r] = "done"]
    BY <1>2 DEF ReadRedis, ReadFaults, Goto
  <2>1. PICK a \in {Empty, Unquote(ErrorText)} \cup
                  {Returned(redis[k]) : k \in {x \in Asked[url[r]] : Len(CStr(redis[x])) > 1}} :
               page' = [page EXCEPT ![r] = a]
    BY <1>2 DEF ReadRedis, ReadFaults
  <2>2. url[r] \in Urls
    BY <2>0 DEF CInv, ReaderInv
  <2>3. /\ a \in {Empty, Unquote(ErrorText)} \cup {Returned(v) : v \in Values}
        /\ url[r] \in Untouched => a \in Pages[url[r]] \cup {Empty, Unquote(ErrorText)}
    <3>1. CASE a \in {Empty, Unquote(ErrorText)}
      BY <3>1
    <3>2. CASE a \notin {Empty, Unquote(ErrorText)}
      <4>1. PICK k \in Asked[url[r]] : a = Returned(redis[k]) /\ Len(CStr(redis[k])) > 1
        BY <2>1, <3>2
      <4>2. k \in Keys
        BY <2>2, <4>1, AskedType
      <4>3. redis[k] # Empty
        <5>1. Len(<<>>) = 0 /\ Range(<<>>) = {}
          BY EmptySeq DEF Range
        <5>2. CStr(Empty) = Empty
          BY <5>1 DEF CStr, Empty
        <5> QED BY <4>1, <5>1, <5>2 DEF Empty
      <4>4. PICK u \in Urls : \E p \in Pages[u] : <<k, redis[k]>> \in Stores[u][p]
        BY <4>2, <4>3 DEF CInv, RedisInv
      <4>5. PICK p \in Pages[u] : <<k, redis[k]>> \in Stores[u][p]
        BY <4>4
      <4> DEFINE s == <<k, redis[k]>>
      <4>6. s \in Stores[u][p] /\ s[1] = k /\ s[2] = redis[k]
        BY <4>5
      <4> HIDE DEF s
      <4>7. redis[k] \in Values
        BY <4>6, StoresType
      <4>8. ASSUME url[r] \in Untouched PROVE a \in Pages[url[r]]
        <5>1. u = url[r] /\ redis[k] = Quote(p) /\ Nul \notin Range(p)
          BY <4>1, <4>6, <4>8 DEF Untouched
        <5>2. Returned(redis[k]) = p
          BY <5>1, PageReturned
        <5> QED BY <4>1, <5>1, <5>2
      <4> QED BY <4>1, <4>7, <4>8
    <3> QED BY <3>1, <3>2
  <2>4. page' = [page EXCEPT ![r] = a]
    BY <2>1
  <2>5. TypeOK'
    BY <2>0, <2>3, <2>4, ThreadFacts DEF CInv, TypeOK, ReaderPcs, WriterPcs
  <2>6. ObjectInv' /\ RedisInv' /\ MemoryIsLatest' /\ SnapshotReads'
    BY <2>0 DEF CInv, Kept, ObjectInv, RedisInv, MemoryIsLatest,
                SnapshotReads, Coherent, Has
  <2>7. ReaderInv' /\ AnswersMatchUrl'
    BY <2>0, <2>3, <2>4, ThreadFacts DEF CInv, TypeOK, ReaderInv, AnswersMatchUrl, HasTemp
  <2>8. WriterInv' /\ PutsAlone'
    BY <2>0, <2>4, ThreadFacts DEF CInv, Kept, TypeOK, WriterInv, PutsAlone, Unique
  <2> QED BY <2>5, <2>6, <2>7, <2>8 DEF CInv, Kept
<1> QED BY <1>1, <1>2

\* A reader's critical section: no writer is between its test and the end of put.
LEMMA ReadCacheStep ==
  ASSUME CInv, NEW r \in Readers, NEW u \in Urls, ReadCache(r, u)
  PROVE  CInv'
<1>0. /\ UNCHANGED <<cur, lru, mx, page, redis, clock, fault, latest>>
      /\ pc[r] = "idle" /\ mx = Nobody /\ pc' = [pc EXCEPT ![r] = "find"]
      /\ url' = [url EXCEPT ![r] = u] /\ temp' = [temp EXCEPT ![r] = cur]
      /\ seen' = [seen EXCEPT ![r] = latest[u]]
  BY DEF ReadCache, Goto
<1>1. TypeOK'
  BY <1>0, ThreadFacts DEF CInv, TypeOK, ReaderPcs, WriterPcs
<1>2. ObjectInv' /\ RedisInv' /\ MemoryIsLatest'
  BY <1>0 DEF CInv, Kept, ObjectInv, RedisInv, MemoryIsLatest, Coherent, Has
<1>3. ReaderInv' /\ AnswersMatchUrl'
  BY <1>0, ThreadFacts DEF CInv, TypeOK, ReaderInv, AnswersMatchUrl, HasTemp
<1>4. WriterInv' /\ PutsAlone'
  BY <1>0, ThreadFacts DEF CInv, Kept, TypeOK, WriterInv, PutsAlone
<1>5. SnapshotReads'
  <2> SUFFICES ASSUME NEW q \in Readers, temp'[q] # NoObject, Has(lru[temp'[q]], url'[q])
               PROVE  lru[temp'[q]].map[url'[q]].page = seen'[q]
    BY <1>0 DEF SnapshotReads, Has
  <2>1. CASE q = r
    BY <1>0, <2>1, ThreadFacts DEF CInv, Kept, TypeOK, MemoryIsLatest
  <2>2. CASE q # r
    BY <1>0, <2>2, ThreadFacts DEF CInv, Kept, TypeOK, SnapshotReads
  <2> QED BY <2>1, <2>2
<1> QED BY <1>1, <1>2, <1>3, <1>4, <1>5 DEF CInv, Kept

LEMMA WriteCacheStep ==
  ASSUME CInv, NEW w \in Writers, NEW u \in Urls, NEW p \in Pages[u], WriteCache(w, u, p)
  PROVE  CInv'
<1>0. /\ UNCHANGED <<cur, lru, temp, seen, redis, clock, fault, latest>>
      /\ pc[w] = "idle" /\ mx = Nobody /\ mx' = w /\ pc' = [pc EXCEPT ![w] = "check"]
      /\ url' = [url EXCEPT ![w] = u] /\ page' = [page EXCEPT ![w] = p]
  BY DEF WriteCache, Goto
<1>1. TypeOK'
  BY <1>0, ThreadFacts, PageNotEmpty DEF CInv, TypeOK, ReaderPcs, WriterPcs
<1>2. ObjectInv' /\ RedisInv' /\ MemoryIsLatest'
  BY <1>0 DEF CInv, Kept, ObjectInv, RedisInv, MemoryIsLatest, Coherent, Has
<1>3. ReaderInv' /\ AnswersMatchUrl' /\ SnapshotReads'
  BY <1>0, ThreadFacts DEF CInv, Kept, TypeOK, ReaderInv, AnswersMatchUrl, SnapshotReads, Has
<1>4. WriterInv' /\ PutsAlone'
  BY <1>0, ThreadFacts DEF CInv, Kept, TypeOK, WriterInv, PutsAlone, Critical
<1> QED BY <1>1, <1>2, <1>3, <1>4 DEF CInv, Kept

\* The test of unique() and put are one critical section of mx.
LEMMA CheckUniqueStep ==
  ASSUME CInv, NEW w \in Writers, CheckUnique(w)
  PROVE  CInv'
<1>0. /\ UNCHANGED <<cur, lru, mx, url, page, temp, seen, redis, clock, fault, latest>>
      /\ pc[w] = "check" /\ pc' = [pc EXCEPT ![w] = IF Unique THEN "put" ELSE "copy"]
  BY DEF CheckUnique, Goto
<1>1. TypeOK'
  BY <1>0, ThreadFacts DEF CInv, TypeOK, ReaderPcs, WriterPcs
<1>2. /\ ObjectInv' /\ RedisInv' /\ MemoryIsLatest' /\ SnapshotReads'
  BY <1>0 DEF CInv, Kept, ObjectInv, RedisInv, MemoryIsLatest, SnapshotReads,
              Coherent, Has
<1>3. ReaderInv' /\ AnswersMatchUrl'
  BY <1>0, ThreadFacts DEF CInv, TypeOK, ReaderInv, AnswersMatchUrl
<1>4. WriterInv' /\ PutsAlone'
  BY <1>0, ThreadFacts DEF CInv, Kept, TypeOK, WriterInv, PutsAlone, Critical, Unique
<1> QED BY <1>1, <1>2, <1>3, <1>4 DEF CInv, Kept

\* setnx stores what redisCommand makes of the url and the page, or leaves Redis as it is.
LEMMA AtomicUpdateFacts ==
  ASSUME CInv, NEW u \in Urls, NEW p \in Pages[u], redis' \in AtomicUpdate(u, p)
  PROVE  redis' \in [Keys -> Values \cup {Empty}] /\ RedisInv'
<1>0. redis \in [Keys -> Values \cup {Empty}]
  BY DEF CInv, TypeOK
<1>1. CASE redis' = redis
  BY <1>0, <1>1 DEF CInv, RedisInv
<1>2. CASE redis' # redis
  <2>1. PICK s \in Stores[u][p] : redis' = [redis EXCEPT ![s[1]] = s[2]]
    BY <1>2 DEF AtomicUpdate
  <2>2. s[1] \in Keys /\ s[2] \in Values /\ <<s[1], s[2]>> \in Stores[u][p]
    BY <2>1, StoresType
  <2>3. ASSUME NEW k \in Keys
        PROVE  redis'[k] = Empty \/ \E v \in Urls : \E q \in Pages[v] : <<k, redis'[k]>> \in Stores[v][q]
    <3>1. CASE k = s[1]
      BY <1>0, <2>1, <2>2, <3>1
    <3>2. CASE k # s[1]
      BY <1>0, <2>1, <2>2, <3>2 DEF CInv, RedisInv
    <3> QED BY <3>1, <3>2
  <2> QED BY <1>0, <2>1, <2>2, <2>3 DEF RedisInv
<1> QED BY <1>1, <1>2

LEMMA UpdateRedisStep ==
  ASSUME CInv, NEW w \in Writers, UpdateRedis(w)
  PROVE  CInv'
<1>0. CASE Die("varargs")
  BY <1>0, DieStep
<1>1. CASE ~Die("varargs")
  <2>0. /\ UNCHANGED <<cur, lru, mx, temp, seen, clock, fault, latest>>
        /\ pc[w] = "redis" /\ pc' = [pc EXCEPT ![w] = "idle"]
        /\ page' = [page EXCEPT ![w] = Empty] /\ url' = [url EXCEPT ![w] = NoUrl]
        /\ redis' \in AtomicUpdate(url[w], page[w])
    BY <1>1 DEF UpdateRedis, Goto
  <2>1. url[w] \in Urls /\ page[w] \in Pages[url[w]]
    BY <2>0 DEF CInv, WriterInv
  <2>2. redis' \in [Keys -> Values \cup {Empty}] /\ RedisInv'
    BY <2>0, <2>1, AtomicUpdateFacts
  <2>3. TypeOK'
    BY <2>0, <2>2, ThreadFacts DEF CInv, TypeOK, ReaderPcs, WriterPcs
  <2>4. ObjectInv' /\ MemoryIsLatest'
    BY <2>0 DEF CInv, Kept, ObjectInv, MemoryIsLatest, Coherent, Has
  <2>5. ReaderInv' /\ AnswersMatchUrl' /\ SnapshotReads'
    BY <2>0, ThreadFacts DEF CInv, Kept, TypeOK, ReaderInv, AnswersMatchUrl, SnapshotReads, Has
  <2>6. WriterInv' /\ PutsAlone'
    BY <2>0, ThreadFacts DEF CInv, Kept, TypeOK, WriterInv, PutsAlone, Critical, Unique
  <2> QED BY <2>2, <2>3, <2>4, <2>5, <2>6 DEF CInv, Kept
<1> QED BY <1>0, <1>1

\* Other workers, time-outs of keys and the clock.
LEMMA EnvironmentStep == ASSUME CInv, Environment PROVE CInv'
<1>0. UNCHANGED <<cur, lru, mx, pc, url, page, temp, seen, fault, latest>>
  BY DEF Environment, KeyTimesOut, OtherWorkerUpdates, SetClock, callVars
<1> DEFINE Goal == redis' \in [Keys -> Values \cup {Empty}] /\ RedisInv'
<1>1. Goal
  <2>1. ASSUME NEW k \in Keys, KeyTimesOut(k) PROVE Goal
    BY <2>1 DEF CInv, TypeOK, KeyTimesOut, RedisInv
  <2>2. ASSUME NEW u \in Urls, NEW p \in Pages[u], OtherWorkerUpdates(u, p) PROVE Goal
    BY <2>2, AtomicUpdateFacts DEF OtherWorkerUpdates
  <2>3. ASSUME SetClock PROVE Goal
    BY <2>3 DEF CInv, TypeOK, SetClock, RedisInv
  <2> QED BY <2>1, <2>2, <2>3 DEF Environment
<1>2. clock' \in 0..MaxClock
  BY DEF Environment, KeyTimesOut, OtherWorkerUpdates, SetClock, CInv, TypeOK
<1>3. TypeOK'
  BY <1>0, <1>1, <1>2 DEF CInv, TypeOK
<1>4. ObjectInv' /\ ReaderInv' /\ WriterInv' /\ AnswersMatchUrl'
  BY <1>0 DEF CInv, ObjectInv, ReaderInv, WriterInv, AnswersMatchUrl, Coherent, Has
<1>5. Kept'
  BY <1>0 DEF CInv, Kept, PutsAlone, SnapshotReads, MemoryIsLatest, Unique, Has
<1> QED BY <1>1, <1>3, <1>4, <1>5 DEF CInv

-----------------------------------------------------------------------------
(* Steps that change an Lru object. *)

\* A reader changes the object it has, and only loses entries of it: whoever else has
\* that object still finds nothing but what it may find.
LEMMA LosesEntries ==
  ASSUME CInv, NEW r \in Readers, temp[r] \in Objects,
         NEW m \in Lrus, Coherent(m), Within(m, lru[temp[r]]),
         lru' = [lru EXCEPT ![temp[r]] = m],
         UNCHANGED <<cur, url, temp, seen, latest>>
  PROVE  /\ lru' \in [Objects -> Lrus] /\ ObjectInv'
         /\ SnapshotReads' /\ MemoryIsLatest'
<1>0. lru \in [Objects -> Lrus] /\ cur \in Objects /\ temp \in [Readers -> Objects \cup {NoObject}]
  BY DEF CInv, TypeOK
<1>1. lru' \in [Objects -> Lrus] /\ \A o \in Objects : Within(lru'[o], lru[o])
  BY <1>0 DEF Within
<1>2. \A o \in Objects : Coherent(lru'[o])
  BY <1>0 DEF CInv, ObjectInv
<1>3. ObjectInv'
  BY <1>2 DEF ObjectInv, Coherent, Has
<1>4. SnapshotReads'
  <2> SUFFICES ASSUME NEW q \in Readers, temp[q] # NoObject, Has(lru'[temp[q]], url[q])
               PROVE  lru'[temp[q]].map[url[q]].page = seen[q]
    BY DEF SnapshotReads, Has
  <2>1. temp[q] \in Objects /\ url[q] \in Urls
    BY <1>0 DEF CInv, ReaderInv, HasTemp
  <2>2. Has(lru[temp[q]], url[q]) /\ lru'[temp[q]].map[url[q]].page = lru[temp[q]].map[url[q]].page
    BY <1>1, <2>1 DEF Within
  <2> QED BY <2>2 DEF CInv, Kept, SnapshotReads
<1>5. MemoryIsLatest'
  <2> SUFFICES ASSUME NEW u \in Urls, Has(lru'[cur], u)
               PROVE  lru'[cur].map[u].page = latest[u]
    BY DEF MemoryIsLatest, Has
  <2> QED BY <1>0, <1>1 DEF Within, CInv, Kept, MemoryIsLatest
<1> QED BY <1>1, <1>3, <1>4, <1>5

LEMMA SpliceStep ==
  ASSUME CInv, NEW r \in Readers, Splice(r)
  PROVE  CInv'
<1>1. CASE Die("race")
  BY <1>1, DieStep
<1>2. CASE ~Die("race")
  <2> DEFINE o == temp[r]
             l == lru[temp[r]]
  <2>0. /\ UNCHANGED <<cur, mx, url, temp, seen, redis, clock, fault, latest>>
        /\ pc[r] = "splice" /\ Has(l, url[r]) /\ pc' = [pc EXCEPT ![r] = "release"]
        /\ page' = [page EXCEPT ![r] = l.map[url[r]].page]
    BY <1>2 DEF Splice, Goto
  <2>1. PICK m \in {Spliced(l, url[r])} \cup Scrambled(l) : lru' = [lru EXCEPT ![o] = m]
    BY <1>2 DEF Splice
  <2>2. url[r] \in Urls /\ o \in Objects
    BY <2>0 DEF CInv, TypeOK, ReaderInv, HasTemp
  <2>3. l \in Lrus /\ Coherent(l)
    BY <2>2 DEF CInv, TypeOK, ObjectInv
  <2>4. m \in Lrus /\ Coherent(m) /\ Within(m, l)
    BY <2>0, <2>1, <2>2, <2>3, SplicedFacts, ScrambledFacts
  <2>5. l.map[url[r]].page \in Pages[url[r]] /\ l.map[url[r]].page \in AllPages
    BY <2>0, <2>2, <2>3, PageNotEmpty DEF Coherent
  <2>6. /\ lru' \in [Objects -> Lrus] /\ ObjectInv'
        /\ SnapshotReads' /\ MemoryIsLatest'
    BY <2>0, <2>1, <2>2, <2>4, LosesEntries
  <2> HIDE DEF l, o
  <2>7. TypeOK'
    BY <2>0, <2>5, <2>6, ThreadFacts DEF CInv, TypeOK, ReaderPcs, WriterPcs
  <2>8. RedisInv' /\ ReaderInv' /\ AnswersMatchUrl'
    BY <2>0, <2>5, ThreadFacts DEF CInv, TypeOK, RedisInv, ReaderInv, AnswersMatchUrl, HasTemp
  <2>9. WriterInv' /\ PutsAlone'
    BY <2>0, ThreadFacts DEF CInv, Kept, TypeOK, WriterInv, PutsAlone, Unique
  <2> QED BY <2>6, <2>7, <2>8, <2>9 DEF CInv, Kept
<1> QED BY <1>1, <1>2

LEMMA EraseExpiredStep ==
  ASSUME CInv, NEW r \in Readers, EraseExpired(r)
  PROVE  CInv'
<1>1. CASE Die("race")
  BY <1>1, DieStep
<1>2. CASE ~Die("race")
  <2> DEFINE o == temp[r]
             l == lru[temp[r]]
             e == Erased(l, url[r])
  <2>0. /\ UNCHANGED <<cur, mx, url, page, temp, seen, redis, clock, fault, latest>>
        /\ pc[r] = "erase" /\ pc' = [pc EXCEPT ![r] = "release"]
    BY <1>2 DEF EraseExpired, Goto
  <2>1. PICK m \in {e} \cup Scrambled(e) : lru' = [lru EXCEPT ![o] = m]
    BY <1>2 DEF EraseExpired
  <2>2. url[r] \in Urls /\ o \in Objects
    BY <2>0 DEF CInv, TypeOK, ReaderInv, HasTemp
  <2>3. l \in Lrus /\ Coherent(l)
    BY <2>2 DEF CInv, TypeOK, ObjectInv
  <2>4. e \in Lrus /\ Coherent(e) /\ Within(e, l)
    BY <2>2, <2>3, ErasedFacts
  <2>5. m \in Lrus /\ Coherent(m) /\ Within(m, l)
    BY <2>1, <2>4, ScrambledFacts, WithinTransitive
  <2>6. /\ lru' \in [Objects -> Lrus] /\ ObjectInv'
        /\ SnapshotReads' /\ MemoryIsLatest'
    BY <2>0, <2>1, <2>2, <2>5, LosesEntries
  <2> HIDE DEF l, o, e
  <2>7. TypeOK'
    BY <2>0, <2>6, ThreadFacts DEF CInv, TypeOK, ReaderPcs, WriterPcs
  <2>8. RedisInv' /\ ReaderInv' /\ AnswersMatchUrl'
    BY <2>0, ThreadFacts DEF CInv, TypeOK, RedisInv, ReaderInv, AnswersMatchUrl, HasTemp
  <2>9. WriterInv' /\ PutsAlone'
    BY <2>0, ThreadFacts DEF CInv, Kept, TypeOK, WriterInv, PutsAlone, Unique
  <2> QED BY <2>6, <2>7, <2>8, <2>9 DEF CInv, Kept
<1> QED BY <1>1, <1>2

\* The last reference destroys the object; nobody else has it.
LEMMA ReleaseStep ==
  ASSUME CInv, NEW r \in Readers, Release(r)
  PROVE  CInv'
<1> DEFINE o == temp[r]
<1>0. /\ UNCHANGED <<cur, mx, url, page, redis, clock, fault, latest>>
      /\ pc[r] = "release" /\ pc' = [pc EXCEPT ![r] = IF page[r] = Empty THEN "redis" ELSE "done"]
      /\ temp' = [temp EXCEPT ![r] = NoObject] /\ seen' = [seen EXCEPT ![r] = Empty]
      /\ lru' = IF o = cur \/ \E q \in Readers \ {r} : temp[q] = o
                THEN lru ELSE [lru EXCEPT ![o] = EmptyLru]
  BY DEF Release, Goto
<1>1. o \in Objects /\ url[r] \in Urls /\ page[r] \in Pages[url[r]] \cup {Empty}
  BY <1>0 DEF CInv, TypeOK, ReaderInv, HasTemp
<1>2. /\ lru' \in [Objects -> Lrus] /\ lru'[cur] = lru[cur]
      /\ \A q \in Readers \ {r} : temp[q] \in Objects => lru'[temp[q]] = lru[temp[q]]
      /\ \A x \in Objects : lru'[x] # lru[x] => x = o /\ lru'[x] = EmptyLru
  BY <1>0, <1>1, EmptyLruFacts DEF CInv, TypeOK
<1>3. \A x \in Objects : Coherent(lru'[x])
  BY <1>2, EmptyLruFacts DEF CInv, ObjectInv
<1>4. ObjectInv' /\ RedisInv' /\ MemoryIsLatest'
  BY <1>0, <1>2, <1>3 DEF CInv, Kept, ObjectInv, RedisInv, MemoryIsLatest, Coherent, Has
<1>6. SnapshotReads'
  <2> SUFFICES ASSUME NEW q \in Readers, temp'[q] # NoObject, Has(lru'[temp'[q]], url[q])
               PROVE  lru'[temp'[q]].map[url[q]].page = seen'[q]
    BY <1>0 DEF SnapshotReads, Has
  <2>1. q # r /\ temp'[q] = temp[q] /\ seen'[q] = seen[q] /\ temp[q] \in Objects
    BY <1>0 DEF CInv, TypeOK
  <2>2. lru'[temp'[q]] = lru[temp[q]]
    BY <1>2, <2>1
  <2> QED BY <2>1, <2>2 DEF CInv, Kept, SnapshotReads, Has
<1> HIDE DEF o
<1>7. TypeOK'
  BY <1>0, <1>2, ThreadFacts DEF CInv, TypeOK, ReaderPcs, WriterPcs
<1>8. ReaderInv' /\ AnswersMatchUrl'
  BY <1>0, <1>1, ThreadFacts DEF CInv, TypeOK, ReaderInv, AnswersMatchUrl, HasTemp
<1>9. WriterInv' /\ PutsAlone'
  BY <1>0, ThreadFacts DEF CInv, Kept, TypeOK, WriterInv, PutsAlone, Unique
<1> QED BY <1>4, <1>6, <1>7, <1>8, <1>9 DEF CInv, Kept

\* Another writer is not in its critical section while w is.
LEMMA OneInCritical ==
  ASSUME CInv, NEW w \in Writers, pc[w] \in Critical
  PROVE  mx = w /\ \A v \in Writers \ {w} : pc[v] \notin Critical
  BY DEF CInv, WriterInv

\* The copy goes to an address nobody has, so put will be alone there, and the readers
\* of the old object keep it as it was.
LEMMA CopyStep ==
  ASSUME CInv, NEW w \in Writers, Copy(w)
  PROVE  CInv'
<1>1. CASE Die("race")
  BY <1>1, DieStep
<1>2. CASE ~Die("race")
  <2> DEFINE l == CopyOf(lru[cur])
  <2>0. /\ UNCHANGED <<mx, url, page, temp, seen, redis, clock, fault, latest>>
        /\ pc[w] = "copy" /\ pc' = [pc EXCEPT ![w] = "put"]
    BY <1>2 DEF Copy, Goto
  <2>1. PICK o \in Objects \ ({cur} \cup Range(temp)) :
        \E m \in {l} \cup {CopyOf(s) : s \in Scrambled(l)} :
          cur' = o /\ lru' = [lru EXCEPT ![o] = m, ![cur] = IF Unique THEN EmptyLru ELSE @]
    BY <1>2 DEF Copy
  <2>2. PICK m \in {l} \cup {CopyOf(s) : s \in Scrambled(l)} :
          cur' = o /\ lru' = [lru EXCEPT ![o] = m, ![cur] = IF Unique THEN EmptyLru ELSE @]
    BY <2>1
  <2>3. /\ cur \in Objects /\ clock \in 0..MaxClock /\ lru \in [Objects -> Lrus]
        /\ temp \in [Readers -> Objects \cup {NoObject}]
        /\ lru[cur] \in Lrus /\ Coherent(lru[cur])
    BY DEF CInv, TypeOK, ObjectInv
  <2>4. l \in Lrus /\ Coherent(l) /\ Within(l, lru[cur])
    BY <2>3, CopyOfFacts
  <2>5. m \in Lrus /\ Coherent(m) /\ Within(m, lru[cur])
    <3>1. CASE m = l
      BY <2>4, <3>1
    <3>2. CASE m \in {CopyOf(s) : s \in Scrambled(l)}
      <4>1. PICK s \in Scrambled(l) : m = CopyOf(s)
        BY <3>2
      <4>2. s \in Lrus /\ Coherent(s) /\ Within(s, l)
        BY <2>4, ScrambledFacts
      <4>3. m \in Lrus /\ Coherent(m) /\ Within(m, s)
        BY <2>3, <4>1, <4>2, CopyOfFacts
      <4> QED BY <2>4, <4>2, <4>3, WithinTransitive
    <3> QED BY <2>2, <3>1, <3>2
  <2> HIDE DEF l
  <2>6. o # cur /\ \A q \in Readers : temp[q] # o
    BY <2>1, <2>3 DEF Range
  <2>7. /\ lru' \in [Objects -> Lrus] /\ lru'[o] = m
        /\ lru'[cur] = IF Unique THEN EmptyLru ELSE lru[cur]
        /\ \A x \in Objects \ {o, cur} : lru'[x] = lru[x]
    BY <2>2, <2>3, <2>5, <2>6, EmptyLruFacts
  <2>8. \A x \in Objects : Coherent(lru'[x])
    BY <2>3, <2>5, <2>7, EmptyLruFacts DEF CInv, ObjectInv
  <2>9. ObjectInv' /\ RedisInv'
    BY <2>0, <2>8 DEF CInv, ObjectInv, RedisInv, Coherent, Has
  <2>10. MemoryIsLatest'
    <3> SUFFICES ASSUME NEW u \in Urls, Has(m, u) PROVE m.map[u].page = latest[u]
      BY <2>0, <2>2, <2>7 DEF MemoryIsLatest, Has
    <3> QED BY <2>5 DEF Within, CInv, Kept, MemoryIsLatest
  <2>12. SnapshotReads'
    <3> SUFFICES ASSUME NEW q \in Readers, temp[q] # NoObject, Has(lru'[temp[q]], url[q])
                 PROVE  lru'[temp[q]].map[url[q]].page = seen[q]
      BY <2>0 DEF SnapshotReads, Has
    <3>1. temp[q] \in Objects /\ temp[q] # o
      BY <2>3, <2>6
    <3>2. lru'[temp[q]] = lru[temp[q]]
      BY <2>7, <3>1 DEF Unique
    <3> QED BY <3>2 DEF CInv, Kept, SnapshotReads, Has
  <2>13. TypeOK'
    BY <2>0, <2>2, <2>7, ThreadFacts DEF CInv, TypeOK, ReaderPcs, WriterPcs
  <2>14. ReaderInv' /\ AnswersMatchUrl'
    BY <2>0, ThreadFacts DEF CInv, TypeOK, ReaderInv, AnswersMatchUrl
  <2>15. WriterInv' /\ PutsAlone'
    BY <2>0, <2>2, <2>6, OneInCritical, ThreadFacts
       DEF CInv, TypeOK, WriterInv, PutsAlone, Critical, Unique
  <2> QED BY <2>9, <2>10, <2>12, <2>13, <2>14, <2>15 DEF CInv, Kept
<1> QED BY <1>1, <1>2

\* put changes an object no reader has.
LEMMA PutStep ==
  ASSUME CInv, NEW w \in Writers, Put(w)
  PROVE  CInv'
<1> DEFINE u == url[w]
<1>0. /\ UNCHANGED <<cur, url, page, temp, seen, redis, clock, fault>>
      /\ pc[w] = "put"
  BY DEF Put
<1>1. /\ cur \in Objects /\ clock \in 0..MaxClock /\ lru \in [Objects -> Lrus]
      /\ lru[cur] \in Lrus /\ Coherent(lru[cur])
      /\ temp \in [Readers -> Objects \cup {NoObject}]
  BY DEF CInv, TypeOK, ObjectInv
<1>2. u \in Urls /\ page[w] \in Pages[u] /\ page[w] \in AllPages
  BY <1>0, PageNotEmpty DEF CInv, WriterInv
<1>3. \A q \in Readers : temp[q] # cur
  BY <1>0 DEF CInv, Kept, PutsAlone, Unique
<1>4. mx = w /\ \A v \in Writers \ {w} : pc[v] \notin Critical
  BY <1>0, OneInCritical DEF Critical
<1>5. PICK m \in Lrus :
        /\ lru' = [lru EXCEPT ![cur] = m] /\ Coherent(m)
        /\ \A v \in Urls : Has(m, v) => m.map[v].page = latest'[v]
        /\ latest' \in [Urls -> AllPages \cup {Empty}]
        /\ \/ pc' = [pc EXCEPT ![w] = "evict"] /\ mx' = mx
           \/ pc' = [pc EXCEPT ![w] = "redis"] /\ mx' = Nobody
  <2>1. CASE Overflows(lru[cur], u)
    <3>1. /\ lru' = [lru EXCEPT ![cur] = EmptyLru] /\ latest' = latest
          /\ pc' = [pc EXCEPT ![w] = "evict"] /\ mx' = mx
      BY <2>1 DEF Put, Goto
    <3> QED BY <3>1, EmptyLruFacts DEF CInv, TypeOK
  <2>2. CASE ~Overflows(lru[cur], u)
    <3> DEFINE m == Stored(lru[cur], u, page[w])
    <3>1. /\ lru' = [lru EXCEPT ![cur] = m] /\ latest' = [latest EXCEPT ![u] = page[w]]
          /\ pc' = [pc EXCEPT ![w] = "redis"] /\ mx' = Nobody
      BY <2>2 DEF Put, Goto
    <3>2. /\ m \in Lrus /\ Coherent(m) /\ m.map[u].page = page[w]
          /\ \A v \in Urls \ {u} : m.map[v] = lru[cur].map[v]
      BY <1>1, <1>2, StoredFacts
    <3> HIDE DEF m, u
    <3>3. latest' \in [Urls -> AllPages \cup {Empty}]
      BY <1>2, <3>1 DEF CInv, TypeOK
    <3>4. ASSUME NEW v \in Urls, Has(m, v) PROVE m.map[v].page = latest'[v]
      <4>1. CASE v = u
        BY <3>1, <3>2, <4>1 DEF CInv, TypeOK
      <4>2. CASE v # u
        <5>1. Has(lru[cur], v) /\ m.map[v] = lru[cur].map[v]
          BY <3>2, <3>4, <4>2 DEF Has
        <5>2. latest'[v] = latest[v]
          BY <3>1, <4>2 DEF CInv, TypeOK
        <5> QED BY <5>1, <5>2 DEF CInv, Kept, MemoryIsLatest
      <4> QED BY <4>1, <4>2
    <3> QED BY <3>1, <3>2, <3>3, <3>4
  <2> QED BY <2>1, <2>2
<1> HIDE DEF u
<1>6. /\ lru' \in [Objects -> Lrus] /\ lru'[cur] = m
      /\ \A x \in Objects \ {cur} : lru'[x] = lru[x]
  BY <1>1, <1>5
<1>7. \A x \in Objects : Coherent(lru'[x])
  BY <1>5, <1>6 DEF CInv, ObjectInv
<1>8. ObjectInv' /\ RedisInv'
  BY <1>0, <1>7 DEF CInv, ObjectInv, RedisInv, Coherent, Has
<1>9. MemoryIsLatest'
  BY <1>0, <1>5, <1>6 DEF MemoryIsLatest, Has
<1>11. SnapshotReads'
  <2> SUFFICES ASSUME NEW q \in Readers, temp[q] # NoObject, Has(lru'[temp[q]], url[q])
               PROVE  lru'[temp[q]].map[url[q]].page = seen[q]
    BY <1>0 DEF SnapshotReads, Has
  <2>1. lru'[temp[q]] = lru[temp[q]]
    BY <1>1, <1>3, <1>6
  <2> QED BY <2>1 DEF CInv, Kept, SnapshotReads, Has
<1>12. TypeOK'
  BY <1>0, <1>5, <1>6, ThreadFacts DEF CInv, TypeOK, ReaderPcs, WriterPcs
<1>13. ReaderInv' /\ AnswersMatchUrl'
  BY <1>0, <1>5, ThreadFacts DEF CInv, TypeOK, ReaderInv, AnswersMatchUrl
<1>14. WriterInv'
  BY <1>0, <1>4, <1>5, ThreadFacts DEF CInv, TypeOK, WriterInv, Critical
<1>15. PutsAlone'
  BY <1>0, <1>4, <1>5, ThreadFacts DEF CInv, TypeOK, PutsAlone, Critical
<1> QED BY <1>8, <1>9, <1>11, <1>12, <1>13, <1>14, <1>15 DEF CInv, Kept

LEMMA CacheStep == CInv /\ [Next]_vars => CInv'
<1> SUFFICES ASSUME CInv, [Next]_vars PROVE CInv'
  OBVIOUS
<1>1. ASSUME NEW r \in Readers, Reader(r) PROVE CInv'
  BY <1>1, ReadCacheStep, FindStep, SpliceStep, EraseExpiredStep, ReleaseStep, ReadRedisStep,
     ReadReturnsStep DEF Reader
<1>2. ASSUME NEW w \in Writers, Writer(w) PROVE CInv'
  <2>1. ASSUME EraseEnd(w) PROVE CInv'
    BY <2>1, DieStep DEF EraseEnd
  <2> QED BY <1>2, <2>1, WriteCacheStep, CheckUniqueStep, CopyStep, PutStep, UpdateRedisStep
          DEF Writer
<1>3. ASSUME Environment PROVE CInv'
  BY <1>3, EnvironmentStep
<1>4. ASSUME UNCHANGED vars PROVE CInv'
  <2>1. UNCHANGED <<cur, lru, mx, pc, url, page, temp, seen, redis, clock, fault, latest>>
    BY <1>4 DEF vars, callVars
  <2>2. TypeOK'
    BY <2>1 DEF CInv, TypeOK
  <2>3. ObjectInv' /\ RedisInv' /\ ReaderInv' /\ WriterInv' /\ AnswersMatchUrl'
    BY <2>1 DEF CInv, ObjectInv, RedisInv, ReaderInv, WriterInv, AnswersMatchUrl, Coherent, Has
  <2>4. Kept'
    BY <2>1 DEF CInv, Kept, PutsAlone, SnapshotReads, MemoryIsLatest, Unique,
                Has
  <2> QED BY <2>2, <2>3, <2>4 DEF CInv
<1> QED BY <1>1, <1>2, <1>3, <1>4 DEF Next

-----------------------------------------------------------------------------
(* Theorems *)

\* The inductive invariant holds in every state the cache can reach.
THEOREM CacheInvariant == Spec => []CInv
  BY CacheInit, CacheStep, PTL DEF Spec

\* Every reachable state of the cache is well typed: neither races nor copies leave a list
\* with a url that does not exist, and every page is one that was put.
THEOREM TypeCorrect == Spec => []TypeOK
<1>1. CInv => TypeOK
  BY DEF CInv
<1> QED BY <1>1, CacheInvariant, PTL

\* assert(lru_cache.unique()) of MemoryCache::writeCache holds, and goes on holding until
\* put is done, for any number of readers and writers.
THEOREM PutIsAlone == Spec => []PutsAlone
<1>1. CInv => PutsAlone
  BY DEF CInv, Kept
<1> QED BY <1>1, CacheInvariant, PTL

\* MemoryCache::readCache works on a snapshot: a page it finds after unlocking is the one
\* that was the latest when it had mx, whatever writers have done since.
THEOREM ReadsAreSnapshots == Spec => []SnapshotReads
<1>1. CInv => SnapshotReads
  BY DEF CInv, Kept
<1> QED BY <1>1, CacheInvariant, PTL

\* Copies, races and expiry lose entries of the current Lru, and never bring an old page
\* back.
THEOREM MemoryNeverGoesBack == Spec => []MemoryIsLatest
<1>1. CInv => MemoryIsLatest
  BY DEF CInv, Kept
<1> QED BY <1>1, CacheInvariant, PTL

\* Cache::readCache of a url that Redis keeps apart gives a page of that url, nothing, or
\* the error text of Redis, through both levels and whatever printf makes of other urls.
THEOREM AnswersAreRight == Spec => []AnswersMatchUrl
<1>1. CInv => AnswersMatchUrl
  BY DEF CInv
<1> QED BY <1>1, CacheInvariant, PTL

AllPlain ==
  /\ \A u \in Urls : Plain(u)
  /\ \A u \in Urls : \A p \in Pages[u] : Plain(p)

\* The format strings and c_str() of RedisCache do no harm where no url and no page has a
\* "%" or a NUL: then Redis keeps every url apart.
THEOREM PlainTextIsSafe == ASSUME AllPlain PROVE Untouched = Urls
<1> SUFFICES ASSUME NEW u \in Urls, NEW v \in Urls, NEW p \in Pages[v],
                    NEW s \in Stores[v][p], s[1] \in Asked[u]
             PROVE  v = u /\ s[2] = Quote(p) /\ Nul \notin Range(p)
  BY DEF Untouched
<1>1. Plain(u) /\ Plain(v) /\ Plain(p) /\ p \in Seq(STRING)
  BY CacheAssumption DEF AllPlain
<1>2. "%" # QuoteMark /\ Nul # QuoteMark
  BY DEF QuoteMark, Nul
<1>3. Plain(Quote(p))
  BY <1>1, <1>2, QuoteRange DEF Plain
<1>4. CStr(u) = u /\ CStr(Quote(p)) = Quote(p)
  BY <1>1, <1>3 DEF CStr, Plain
<1>5. s \in StoresFor(v, p)
  BY DEF Stores
<1>6. s[1] \in Argument(v, FALSE) /\ s[2] \in Argument(Quote(p), TRUE)
  BY <1>1, <1>4, <1>5 DEF StoresFor, Plain
<1>7. s[1] \in Argument(u, TRUE)
  BY <1>4 DEF Asked
<1>8. s[1] = v /\ s[2] = Quote(p) /\ s[1] = u
  BY <1>1, <1>3, <1>6, <1>7, PlainArgument
<1> QED BY <1>1, <1>8 DEF Plain
=============================================================================
