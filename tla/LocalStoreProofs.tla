-------------------------- MODULE LocalStoreProofs ---------------------------
(* Trusted peers and verification markers, for any number of peers, callers, *)
(* calls and faults.                                                        *)
EXTENDS LocalStore, FiniteSetTheorems, SequenceTheorems, WellFoundedInduction, TLAPS

-----------------------------------------------------------------------------
(* Sorting.                                                                 *)

\* A non-empty set of naturals has a least element.
LEMMA Least ==
  ASSUME NEW R \in SUBSET Nat, R # {}
  PROVE  \E m \in R : \A x \in R : m <= x
<1>1. PICK m \in R : \A y \in R : ~(<<y, m>> \in OpToRel(<, Nat))
  BY WFMin, NatLessThanWellFounded
<1>2. \A y \in R : ~(y < m)
  BY <1>1 DEF OpToRel
<1> QED
  BY <1>2

Sortable(S) == \E f \in [1..Cardinality(S) -> S] : Ascending(S, f)

\* A set is sorted by putting its least element before the sorted rest.
LEMMA SortRest ==
  ASSUME NEW S \in SUBSET Nat, IsFiniteSet(S), NEW m \in S, \A x \in S : m <= x,
         Sortable(S \ {m})
  PROVE  Sortable(S)
<1> DEFINE T == S \ {m}
           n == Cardinality(T)
<1>1. n \in Nat /\ Cardinality(S) = n + 1
  BY FS_RemoveElement, FS_CardinalityType
<1>2. PICK g \in [1..n -> T] : Ascending(T, g)
  BY DEF Sortable
<1> HIDE DEF n
<1> DEFINE f == [j \in 1..(n + 1) |-> IF j = 1 THEN m ELSE g[j - 1]]
<1>3. \A j \in 1..(n + 1) : j # 1 => j - 1 \in 1..n
  BY <1>1
<1>4. f \in [1..(n + 1) -> S]
  BY <1>1, <1>2, <1>3
<1>5. \A j, k \in 1..(n + 1) : j < k => f[j] < f[k]
  <2> SUFFICES ASSUME NEW j \in 1..(n + 1), NEW k \in 1..(n + 1), j < k PROVE f[j] < f[k]
    OBVIOUS
  <2>1. k # 1 /\ k - 1 \in 1..n /\ f[k] = g[k - 1]
    BY <1>1, <1>3
  <2>2. g[k - 1] \in T /\ g[k - 1] \in Nat /\ m \in Nat
    BY <1>2, <2>1
  <2>3. CASE j = 1
    <3>1. m <= g[k - 1] /\ m # g[k - 1]
      BY <2>2
    <3> QED
      BY <1>1, <2>1, <2>2, <2>3, <3>1
  <2>4. CASE j # 1
    <3>1. j - 1 \in 1..n /\ f[j] = g[j - 1] /\ j - 1 < k - 1
      BY <1>1, <1>3, <2>4
    <3> QED
      BY <1>2, <2>1, <3>1 DEF Ascending
  <2> QED
    BY <2>3, <2>4
<1>6. \A x \in S : \E j \in 1..(n + 1) : f[j] = x
  <2> SUFFICES ASSUME NEW x \in S PROVE \E j \in 1..(n + 1) : f[j] = x
    OBVIOUS
  <2>1. CASE x = m
    <3>1. 1 \in 1..(n + 1) /\ f[1] = m
      BY <1>1
    <3> QED
      BY <2>1, <3>1
  <2>2. CASE x # m
    <3>1. PICK j \in 1..n : g[j] = x
      BY <1>2, <2>2 DEF Ascending
    <3>2. j + 1 \in 1..(n + 1) /\ j + 1 # 1 /\ (j + 1) - 1 = j
      BY <1>1
    <3>3. f[j + 1] = x
      BY <3>1, <3>2
    <3> QED
      BY <3>2, <3>3
  <2> QED
    BY <2>1, <2>2
<1>7. Ascending(S, f)
  BY <1>4, <1>5, <1>6 DEF Ascending
<1> HIDE DEF f
<1> QED
  BY <1>1, <1>4, <1>7 DEF Sortable

\* Every finite set of naturals can be sorted, by the size of a least one that
\* cannot.
LEMMA AllSortable == \A S \in SUBSET Nat : IsFiniteSet(S) => Sortable(S)
<1> DEFINE Bad == {k \in Nat : \E S \in SUBSET Nat : /\ IsFiniteSet(S) /\ ~Sortable(S)
                                                     /\ Cardinality(S) = k}
<1>1. Bad = {}
  <2> SUFFICES ASSUME Bad # {} PROVE FALSE
    OBVIOUS
  <2>1. PICK k \in Bad : \A x \in Bad : k <= x
    BY Least
  <2>2. PICK S \in SUBSET Nat : IsFiniteSet(S) /\ ~Sortable(S) /\ Cardinality(S) = k
    BY <2>1
  <2>3. S # {}
    <3> SUFFICES ASSUME S = {} PROVE Sortable({})
      BY <2>2
    <3>1. Cardinality({}) = 0
      BY FS_EmptySet
    <3>2. <<>> \in [1..0 -> {}] /\ Ascending({}, <<>>)
      BY DEF Ascending
    <3> QED
      BY <3>1, <3>2 DEF Sortable
  <2>4. PICK m \in S : \A x \in S : m <= x
    BY <2>3, Least
  <2>5. IsFiniteSet(S \ {m}) /\ Cardinality(S \ {m}) = k - 1 /\ Cardinality(S \ {m}) \in Nat
    BY <2>2, FS_RemoveElement, FS_CardinalityType
  <2>6. k - 1 \notin Bad
    BY <2>1
  <2>7. Sortable(S \ {m})
    BY <2>5, <2>6
  <2> QED
    BY <2>2, <2>4, <2>7, SortRest
<1> QED
  BY <1>1, FS_CardinalityType

\* What Sorted returns: every number once, in ascending order.
LEMMA SortedOrder ==
  ASSUME NEW S \in SUBSET Nat, IsFiniteSet(S)
  PROVE  /\ Cardinality(S) \in Nat
         /\ Sorted(S) \in [1..Cardinality(S) -> S]
         /\ \A j, k \in 1..Cardinality(S) : j # k => Sorted(S)[j] # Sorted(S)[k]
         /\ \A x \in S : \E j \in 1..Cardinality(S) : Sorted(S)[j] = x
<1>1. Cardinality(S) \in Nat
  BY FS_CardinalityType
<1>2. Sorted(S) \in [1..Cardinality(S) -> S] /\ Ascending(S, Sorted(S))
  BY AllSortable DEF Sortable, Sorted
<1>3. \A j, k \in 1..Cardinality(S) : j < k => Sorted(S)[j] < Sorted(S)[k]
  BY <1>2 DEF Ascending
<1>4. \A x \in S : \E j \in 1..Cardinality(S) : Sorted(S)[j] = x
  BY <1>2 DEF Ascending
<1>5. ASSUME NEW j \in 1..Cardinality(S), NEW k \in 1..Cardinality(S), j # k
      PROVE  Sorted(S)[j] # Sorted(S)[k]
  <2>1. Sorted(S)[j] \in Nat /\ Sorted(S)[k] \in Nat
    BY <1>2
  <2>2. j < k \/ k < j
    BY <1>1, <1>5
  <2> QED
    BY <1>3, <2>1, <2>2
<1> QED
  BY <1>1, <1>2, <1>4, <1>5

-----------------------------------------------------------------------------
(* Lists of entries.                                                        *)

Names == Nicks \cup {"", "verified"}
Entries == [id : Ids, nick : Names]

\* A list in which no peer has two entries.
Unique(l) == \A j, k \in DOMAIN l : l[j].id = l[k].id => j = k
Good(l) == l \in Seq(Entries) /\ Unique(l)

\* A good list is what its length, its entries and their peers say.
LEMMA GoodList ==
  ASSUME NEW l, NEW n \in Nat, l \in [1..n -> Entries],
         \A j, k \in 1..n : l[j].id = l[k].id => j = k
  PROVE  Good(l) /\ DOMAIN l = 1..n
<1>1. l \in Seq(Entries)
  BY SeqDef
<1> QED
  BY <1>1 DEF Good, Unique

\* And these are what a good list has.
LEMMA GoodDomain ==
  ASSUME NEW l, Good(l)
  PROVE  /\ Len(l) \in Nat /\ DOMAIN l = 1..Len(l) /\ l \in [1..Len(l) -> Entries]
         /\ \A k \in DOMAIN l : l[k] \in Entries /\ l[k].id \in Ids /\ l[k].nick \in Names
         /\ DOMAIN l \in SUBSET Nat /\ IsFiniteSet(DOMAIN l)
<1>1. l \in Seq(Entries)
  BY DEF Good
<1>2. Len(l) \in Nat /\ DOMAIN l = 1..Len(l) /\ l \in [1..Len(l) -> Entries]
  BY <1>1, LenProperties
<1>3. \A k \in DOMAIN l : l[k] \in Entries
  BY <1>2
<1>4. \A e \in Entries : e.id \in Ids /\ e.nick \in Names
  BY DEF Entries
<1>5. IsFiniteSet(1..Len(l))
  BY <1>2, FS_Interval
<1> QED
  BY <1>2, <1>3, <1>4, <1>5

\* The nickname of a peer is the one in its entry.
LEMMA NickAt ==
  ASSUME NEW l, Good(l), NEW k \in DOMAIN l
  PROVE  NickIn(l, l[k].id) = l[k].nick
<1>1. l[k].id \in IdsOf(l)
  BY DEF IdsOf
<1>2. (CHOOSE j \in DOMAIN l : l[j].id = l[k].id) = k
  BY DEF Good, Unique
<1> QED
  BY <1>1, <1>2 DEF NickIn

\* A peer without an entry has none.
LEMMA NickNone ==
  ASSUME NEW l, NEW i, i \notin IdsOf(l)
  PROVE  NickIn(l, i) = ""
BY DEF NickIn

\* Two good lists say the same of a peer that has the same entry in both.
LEMMA NickSame ==
  ASSUME NEW l, NEW m, Good(l), Good(m), NEW j \in DOMAIN l, NEW k \in DOMAIN m, l[j] = m[k]
  PROVE  NickIn(l, l[j].id) = NickIn(m, l[j].id)
BY NickAt

\* List m is list l with x for the nickname of peer i.
Changed(m, l, i, x) == \A d \in Ids : NickIn(m, d) = IF d = i THEN x ELSE NickIn(l, d)

\* SavePeer changes the nickname of its peer and of no other.
LEMMA UpsertGood ==
  ASSUME NEW l, Good(l), NEW i \in Ids, NEW x \in Names
  PROVE  Good(Upsert(l, i, x)) /\ Changed(Upsert(l, i, x), l, i, x)
<1> DEFINE u == Upsert(l, i, x)
           e == Entry(i, x)
<1>1. e \in Entries /\ e.id = i /\ e.nick = x
  BY DEF Entry, Entries
<1>2. /\ Len(l) \in Nat /\ DOMAIN l = 1..Len(l) /\ l \in [1..Len(l) -> Entries]
      /\ \A j, k \in 1..Len(l) : l[j].id = l[k].id => j = k
  BY GoodDomain DEF Good, Unique
<1> HIDE DEF e
<1>3. CASE i \in IdsOf(l)
  <2>1. u = [k \in 1..Len(l) |-> IF l[k].id = i THEN e ELSE l[k]]
    BY <1>2, <1>3 DEF Upsert, e
  <2> HIDE DEF u
  <2>2. u \in [1..Len(l) -> Entries] /\ \A k \in 1..Len(l) : u[k].id = l[k].id
    BY <1>1, <1>2, <2>1
  <2>3. Good(u) /\ DOMAIN u = 1..Len(l)
    BY <1>2, <2>2, GoodList
  <2>4. ASSUME NEW d \in Ids PROVE NickIn(u, d) = IF d = i THEN x ELSE NickIn(l, d)
    <3>1. CASE d \in IdsOf(l)
      <4>1. PICK k \in 1..Len(l) : l[k].id = d
        BY <1>2, <3>1 DEF IdsOf
      <4>2. NickIn(u, d) = u[k].nick /\ NickIn(l, d) = l[k].nick
        BY <1>2, <2>2, <2>3, <4>1, NickAt
      <4> QED
        BY <1>1, <2>1, <4>1, <4>2
    <3>2. CASE d \notin IdsOf(l)
      <4>1. d \notin IdsOf(u) /\ d # i
        BY <1>2, <1>3, <2>2, <2>3, <3>2 DEF IdsOf
      <4> QED
        BY <3>2, <4>1, NickNone
    <3> QED
      BY <3>1, <3>2
  <2> QED
    BY <2>3, <2>4 DEF u, Changed
<1>4. CASE i \notin IdsOf(l)
  <2> DEFINE n == Len(l) + 1
  <2>1. u = Append(l, e)
    BY <1>4 DEF Upsert, e
  <2> HIDE DEF u
  <2>2. /\ u \in Seq(Entries) /\ Len(u) = n /\ u[n] = e
        /\ \A k \in 1..Len(l) : u[k] = l[k]
    BY <1>1, <2>1, AppendProperties DEF Good
  <2>3. DOMAIN u = 1..n /\ n \in Nat /\ n \in 1..n /\ \A k \in 1..n : k = n \/ k \in 1..Len(l)
    BY <1>2, <2>2, LenProperties
  <2>4. \A k \in 1..Len(l) : l[k].id # i
    BY <1>2, <1>4 DEF IdsOf
  <2>5. Unique(u)
    <3> SUFFICES ASSUME NEW j \in 1..n, NEW k \in 1..n, u[j].id = u[k].id PROVE j = k
      BY <2>3 DEF Unique
    <3> QED
      BY <1>1, <1>2, <2>2, <2>3, <2>4
  <2>6. Good(u)
    BY <2>2, <2>5 DEF Good
  <2>7. ASSUME NEW d \in Ids PROVE NickIn(u, d) = IF d = i THEN x ELSE NickIn(l, d)
    <3>1. CASE d = i
      BY <1>1, <2>2, <2>3, <2>6, <3>1, NickAt
    <3>2. CASE d # i /\ d \in IdsOf(l)
      <4>1. PICK k \in 1..Len(l) : l[k].id = d
        BY <1>2, <3>2 DEF IdsOf
      <4>2. u[k] = l[k] /\ k \in DOMAIN u /\ k \in DOMAIN l
        BY <1>2, <2>2, <2>3, <4>1
      <4> QED
        BY <2>6, <3>2, <4>1, <4>2, NickSame
    <3>3. CASE d # i /\ d \notin IdsOf(l)
      <4>1. d \notin IdsOf(u)
        BY <1>1, <1>2, <2>2, <2>3, <3>3 DEF IdsOf
      <4> QED
        BY <3>3, <4>1, NickNone
    <3> QED
      BY <3>1, <3>2, <3>3
  <2> QED
    BY <2>6, <2>7 DEF u, Changed
<1> QED
  BY <1>3, <1>4

\* Keeping the positions S keeps the entries there and no others.
LEMMA KeptGood ==
  ASSUME NEW l, Good(l), NEW S \in SUBSET DOMAIN l
  PROVE  /\ Good(Kept(l, S))
         /\ \A k \in S : NickIn(Kept(l, S), l[k].id) = l[k].nick
         /\ \A d : (\A k \in S : l[k].id # d) => NickIn(Kept(l, S), d) = ""
<1> DEFINE n == Cardinality(S)
           f == Sorted(S)
           m == Kept(l, S)
<1>1. /\ DOMAIN l \in SUBSET Nat /\ IsFiniteSet(DOMAIN l) /\ l \in [DOMAIN l -> Entries]
      /\ \A j, k \in DOMAIN l : l[j].id = l[k].id => j = k
  BY GoodDomain DEF Good, Unique
<1>2. S \in SUBSET Nat /\ IsFiniteSet(S)
  BY <1>1, FS_Subset
<1>3. /\ n \in Nat /\ f \in [1..n -> S]
      /\ \A j, k \in 1..n : j # k => f[j] # f[k]
      /\ \A x \in S : \E j \in 1..n : f[j] = x
  BY <1>2, SortedOrder
<1>4. m = [j \in 1..n |-> l[f[j]]]
  BY DEF Kept
<1> HIDE DEF n, f, m
<1>5. m \in [1..n -> Entries]
  BY <1>1, <1>3, <1>4
<1>6. \A j, k \in 1..n : m[j].id = m[k].id => j = k
  BY <1>1, <1>3, <1>4
<1>7. Good(m) /\ DOMAIN m = 1..n
  BY <1>3, <1>5, <1>6, GoodList
<1>8. ASSUME NEW k \in S PROVE NickIn(m, l[k].id) = l[k].nick
  <2>1. PICK j \in 1..n : f[j] = k
    BY <1>3
  <2>2. m[j] = l[k] /\ j \in DOMAIN m
    BY <1>4, <1>7, <2>1
  <2> QED
    BY <1>7, <2>2, NickAt
<1>9. ASSUME NEW d, \A k \in S : l[k].id # d PROVE NickIn(m, d) = ""
  <2>1. \A j \in 1..n : m[j].id # d
    BY <1>3, <1>4, <1>9
  <2>2. d \notin IdsOf(m)
    BY <1>7, <2>1 DEF IdsOf
  <2> QED
    BY <2>2, NickNone
<1> QED
  BY <1>7, <1>8, <1>9 DEF m

\* Removing an entry takes the nickname of its peer and of no other.
LEMMA RemoveGood ==
  ASSUME NEW l, Good(l), NEW i \in Ids, NEW S, S = {k \in DOMAIN l : l[k].id # i}
  PROVE  Good(Kept(l, S)) /\ Changed(Kept(l, S), l, i, "")
<1>1. S \in SUBSET DOMAIN l
  OBVIOUS
<1>2. ASSUME NEW d \in Ids PROVE NickIn(Kept(l, S), d) = IF d = i THEN "" ELSE NickIn(l, d)
  <2>1. CASE d # i /\ d \in IdsOf(l)
    <3>1. PICK k \in DOMAIN l : l[k].id = d
      BY <2>1 DEF IdsOf
    <3>2. k \in S
      BY <2>1, <3>1
    <3>3. NickIn(Kept(l, S), l[k].id) = l[k].nick
      BY <1>1, <3>2, KeptGood
    <3>4. NickIn(l, l[k].id) = l[k].nick
      BY <3>1, NickAt
    <3> QED
      BY <2>1, <3>1, <3>3, <3>4
  <2>2. CASE d = i \/ d \notin IdsOf(l)
    <3>1. \A k \in S : l[k].id # d
      BY <2>2 DEF IdsOf
    <3>2. NickIn(Kept(l, S), d) = ""
      <4>1. \A c : (\A k \in S : l[k].id # c) => NickIn(Kept(l, S), c) = ""
        BY <1>1, KeptGood, Zenon
      <4> QED
        BY <3>1, <4>1, Zenon
    <3> QED
      BY <2>2, <3>2, NickNone
  <2> QED
    BY <2>1, <2>2
<1> QED
  BY <1>1, <1>2, KeptGood DEF Changed

\* Position n is the only entry of its peer.
LEMMA NumberGood ==
  ASSUME NEW l, Good(l), NEW n \in DOMAIN l
  PROVE  Good(WithoutNum(l, n)) /\ Changed(WithoutNum(l, n), l, l[n].id, "")
<1>1. DOMAIN l \ {n} = {k \in DOMAIN l : l[k].id # l[n].id}
  BY DEF Good, Unique
<1>2. l[n].id \in Ids
  BY GoodDomain
<1>3. Good(Kept(l, DOMAIN l \ {n})) /\ Changed(Kept(l, DOMAIN l \ {n}), l, l[n].id, "")
  BY <1>1, <1>2, RemoveGood, Zenon
<1> QED
  BY <1>3 DEF WithoutNum

\* The sorted markers name the peers of S and no others.
LEMMA MarksGood ==
  ASSUME NEW S \in SUBSET Ids
  PROVE  /\ Good(SortedMarks(S)) /\ IdsOf(SortedMarks(S)) = S
         /\ \A k \in DOMAIN SortedMarks(S) : SortedMarks(S)[k].nick = "verified"
         /\ \A d \in Ids : NickIn(SortedMarks(S), d) = IF d \in S THEN "verified" ELSE ""
<1> DEFINE n == Cardinality(S)
           f == Sorted(S)
           m == SortedMarks(S)
<1>1. Ids \in SUBSET Nat /\ IsFiniteSet(Ids)
  <2>1. NumIds \in Nat
    BY BoundsAssumption
  <2> QED
    BY <2>1, FS_Interval DEF Ids
<1>2. S \in SUBSET Nat /\ IsFiniteSet(S)
  BY <1>1, FS_Subset
<1>3. /\ n \in Nat /\ f \in [1..n -> S]
      /\ \A j, k \in 1..n : j # k => f[j] # f[k]
      /\ \A x \in S : \E j \in 1..n : f[j] = x
  BY <1>2, SortedOrder
<1>4. m = [j \in 1..n |-> Entry(f[j], "verified")]
  BY DEF SortedMarks
<1> HIDE DEF n, f, m
<1>5. \A j \in 1..n : m[j] \in Entries /\ m[j].id = f[j] /\ m[j].nick = "verified"
  BY <1>3, <1>4 DEF Entry, Entries, Names
<1>6. m \in [1..n -> Entries] /\ \A j, k \in 1..n : m[j].id = m[k].id => j = k
  <2>1. DOMAIN m = 1..n /\ m = [j \in 1..n |-> m[j]]
    BY <1>4
  <2> QED
    BY <1>3, <1>5, <2>1
<1>7. Good(m) /\ DOMAIN m = 1..n
  BY <1>3, <1>6, GoodList
<1>8. IdsOf(m) = S
  BY <1>3, <1>5, <1>7 DEF IdsOf
<1>9. ASSUME NEW d \in S PROVE NickIn(m, d) = "verified"
  <2>1. PICK j \in 1..n : f[j] = d
    BY <1>3
  <2>2. NickIn(m, m[j].id) = m[j].nick
    BY <1>7, NickAt
  <2> QED
    BY <1>5, <2>1, <2>2
<1>10. \A d \in Ids \ S : NickIn(m, d) = ""
  BY <1>8, NickNone
<1> QED
  BY <1>5, <1>7, <1>8, <1>9, <1>10 DEF m

-----------------------------------------------------------------------------
(* The invariant.                                                           *)

PeerOps == {"save", "remove", "number"}
MarkOps == {"mark", "unmark"}
Calls == [at : {"idle", "pick", "lock", "save", "write"},
          op : PeerOps \cup MarkOps \cup {"none"}, id : Ids \cup {0}, nick : Names,
          list : Seq(Entries)]

\* A marker is nothing but its peer.
Marked(l) == \A k \in DOMAIN l : l[k].nick = "verified"
ListOK(l) == Good(l) /\ (kind = "verified" => Marked(l))

TypeOK ==
  /\ kind \in {"peers", "verified"} /\ file \in {"absent", "torn", "whole"}
  /\ ListOK(list) /\ \A l \in flushed : ListOK(l)
  /\ mu \in Users \cup {"none"} /\ unread \in {mu, "none"} /\ faults \in Nat
  /\ call \in [Users -> Calls] /\ \A u \in Users : ListOK(call[u].list)

\* A call is one of the file the behaviour is about, and names a peer or, before
\* it was looked up, a position.
Asked == \A u \in Users : call[u].at # "idle" =>
           /\ call[u].op \in (IF kind = "peers" THEN PeerOps ELSE MarkOps)
           /\ call[u].id \in Ids
           /\ call[u].at = "pick" => call[u].op = "save"

\* A file that is not whole holds nothing; markers are never torn, and no version
\* of them can come back while there is no file.
OnDisk == /\ file # "whole" => list = <<>>
          /\ kind = "verified" => file # "torn"
          /\ kind = "verified" /\ file = "absent" => flushed = {<<>>}

\* The lock is held from load to the return, and the list that was loaded says
\* what the calls before amount to, unless the read failed and the list is empty.
Holds(u) == call[u].at \in {"save", "write"}
Before(u) == IF unread = u THEN Nothing ELSE ledger
Locked == \A u \in Users : Holds(u) <=> mu = u
Loaded == \A u \in Users : Holds(u) =>
            /\ LedgerOf(call[u].list) = Before(u)
            /\ call[u].op = "number" => call[u].id \in DOMAIN call[u].list

\* A file that parses says what the calls amount to, and one that does not says so
\* again when nobody holds the lock; it is torn only by a fault, or by the call
\* that is writing it.
Says == mu = "none" \/ file # "torn" => LedgerOf(list) = ledger
Torn == file = "torn" => faults > 0 \/ \E u \in Users : call[u].at = "write"

IInv == TypeOK /\ Asked /\ OnDisk /\ Locked /\ Loaded /\ Says /\ Torn

-----------------------------------------------------------------------------
(* The steps.                                                               *)

\* The empty list is one of both files.
LEMMA EmptyOK == ListOK(<<>>) /\ <<>> \in Seq(Entries)
BY DEF ListOK, Good, Unique, Marked

\* The type of a call.
LEMMA CallType ==
  ASSUME NEW at \in {"idle", "pick", "lock", "save", "write"},
         NEW o \in PeerOps \cup MarkOps \cup {"none"}, NEW i \in Ids \cup {0}, NEW x \in Names,
         NEW l \in Seq(Entries)
  PROVE  Call(at, o, i, x, l) \in Calls
BY DEF Call, Calls

\* A call that is made, looks a position up or gives up, before it has the lock.
LEMMA OutsideStep ==
  ASSUME IInv, NEW u \in Users, ~Holds(u), NEW c \in Calls, c.list = <<>>,
         c.at \in {"idle", "pick", "lock"},
         c.at # "idle" => /\ c.op \in (IF kind = "peers" THEN PeerOps ELSE MarkOps)
                          /\ c.id \in Ids /\ (c.at = "pick" => c.op = "save"),
         call' = [call EXCEPT ![u] = c], UNCHANGED <<kind, disk, lock, ledger>>,
         faults' = faults \/ faults' = faults + 1
  PROVE  IInv'
<1> USE DEF IInv, disk, lock
<1>0. faults' \in Nat /\ (faults > 0 => faults' > 0)
  <2>1. faults \in Nat
    BY DEF TypeOK
  <2>2. faults + 1 \in Nat /\ faults + 1 > 0
    BY <2>1
  <2> QED
    BY <2>1, <2>2
<1>1. /\ call' \in [Users -> Calls] /\ call'[u] = c
      /\ \A v \in Users \ {u} : call'[v] = call[v]
  BY DEF TypeOK
<1>2. \A l : ListOK(l) => ListOK(l)'
  BY DEF ListOK
<1>3. TypeOK'
  BY <1>0, <1>1, <1>2, EmptyOK DEF TypeOK
<1>4. Asked'
  BY <1>1 DEF Asked
<1>5. Locked' /\ Loaded'
  BY <1>1 DEF Locked, Loaded, Holds, Before, Nothing, LedgerOf
<1>6. Torn'
  BY <1>0, <1>1 DEF Torn, Holds
<1> QED
  BY <1>3, <1>4, <1>5, <1>6 DEF OnDisk, Says, LedgerOf

\* load under the lock: what is loaded is the list, as the last call left it.
LEMMA LoadStep ==
  ASSUME IInv, NEW u \in Users, Load(u)
  PROVE  IInv'
<1> USE DEF IInv
<1> DEFINE c == Call("save", call[u].op, call[u].id, call[u].nick, list)
<1>1. /\ call[u].at = "lock" /\ mu = "none" /\ ~Refused(u) /\ mu' = u
      /\ UNCHANGED <<kind, file, list, flushed, unread, ledger, faults>>
  BY DEF Load, disk
<1>2. call' = [call EXCEPT ![u] = c]
  BY DEF Load, Advance, OnDisk
<1>3. /\ c \in Calls /\ c.at = "save" /\ c.op = call[u].op /\ c.id = call[u].id /\ c.list = list
  <2>1. list \in Seq(Entries) /\ call[u] \in Calls
    BY DEF TypeOK, ListOK, Good
  <2>2. /\ call[u].op \in PeerOps \cup MarkOps \cup {"none"}
        /\ call[u].id \in Ids \cup {0} /\ call[u].nick \in Names
    BY <2>1 DEF Calls
  <2>3. c \in Calls
    BY <2>1, <2>2, CallType
  <2> QED
    BY <2>3 DEF Call
<1> HIDE DEF c
<1>4. /\ call' \in [Users -> Calls] /\ call'[u] = c
      /\ \A v \in Users \ {u} : call'[v] = call[v]
  BY <1>2, <1>3 DEF TypeOK
<1>5. TypeOK'
  <2>1. \A l : ListOK(l) => ListOK(l)'
    BY <1>1 DEF ListOK
  <2> QED
    BY <1>1, <1>3, <1>4, <2>1 DEF TypeOK
<1>6. Asked'
  BY <1>1, <1>3, <1>4 DEF Asked
<1>7. "none" \notin Users /\ \A v \in Users : ~Holds(v)
  BY <1>1, UsersAssumption DEF Users, Locked
<1>8. Locked'
  BY <1>1, <1>3, <1>4, <1>7 DEF Locked, Holds
<1>9. Loaded'
  <2>1. unread = "none" /\ unread' # u
    BY <1>1, <1>7 DEF TypeOK
  <2>2. LedgerOf(list) = ledger
    BY <1>1 DEF Says
  <2> QED
    BY <1>1, <1>3, <1>4, <1>7, <2>1, <2>2 DEF Loaded, Holds, Before, LedgerOf, Refused
<1>10. OnDisk' /\ Says' /\ Torn'
  <2>1. file = "torn" => faults > 0
    BY <1>7 DEF Torn, Holds
  <2> QED
    BY <1>1, <1>7, <2>1 DEF OnDisk, Says, Torn
<1> QED
  BY <1>5, <1>6, <1>8, <1>9, <1>10

\* Truncating the file, or writing the temporary one: the call keeps its list.
LEMMA WriteStep ==
  ASSUME IInv, NEW u \in Users, Truncate(u) \/ WriteTemp(u)
  PROVE  IInv'
<1> USE DEF IInv
<1> DEFINE c == Call("write", call[u].op, call[u].id, call[u].nick, call[u].list)
<1>1. /\ call[u].at = "save" /\ UNCHANGED <<kind, flushed, mu, unread, ledger, faults>>
      /\ call' = [call EXCEPT ![u] = c]
      /\ \/ kind = "peers" /\ file' = "torn" /\ list' = <<>>
         \/ kind = "verified" /\ UNCHANGED <<file, list>>
  BY DEF Truncate, WriteTemp, Advance, disk, lock
<1>2. /\ c \in Calls /\ c.at = "write" /\ c.op = call[u].op /\ c.id = call[u].id
      /\ c.list = call[u].list
  <2>1. call[u] \in Calls
    BY DEF TypeOK
  <2>2. /\ call[u].op \in PeerOps \cup MarkOps \cup {"none"}
        /\ call[u].id \in Ids \cup {0} /\ call[u].nick \in Names /\ call[u].list \in Seq(Entries)
    BY <2>1 DEF Calls
  <2>3. c \in Calls
    BY <2>2, CallType
  <2> QED
    BY <2>3 DEF Call
<1> HIDE DEF c
<1>3. /\ call' \in [Users -> Calls] /\ call'[u] = c
      /\ \A v \in Users \ {u} : call'[v] = call[v]
  BY <1>1, <1>2 DEF TypeOK
<1>4. TypeOK'
  <2>1. \A l : ListOK(l) => ListOK(l)'
    BY <1>1 DEF ListOK
  <2> QED
    BY <1>1, <1>2, <1>3, <2>1, EmptyOK DEF TypeOK
<1>5. Asked'
  BY <1>1, <1>2, <1>3 DEF Asked
<1>6. mu = u /\ "none" \notin Users
  BY <1>1, UsersAssumption DEF Users, Locked, Holds
<1>7. Locked' /\ Loaded'
  BY <1>1, <1>2, <1>3, <1>6 DEF Locked, Loaded, Holds, Before, Nothing, LedgerOf
<1>8. OnDisk' /\ Says' /\ Torn'
  BY <1>1, <1>2, <1>3, <1>6 DEF OnDisk, Says, Torn
<1> QED
  BY <1>4, <1>5, <1>7, <1>8

\* What a call saves is what it promised.
LEMMA ResultPromised ==
  ASSUME IInv, NEW u \in Users, Holds(u)
  PROVE  ListOK(Result(u)) /\ LedgerOf(Result(u)) = Promise(u)
<1> USE DEF IInv
<1> DEFINE l == call[u].list
           o == call[u].op
           r == Result(u)
<1>1. /\ Good(l) /\ (kind = "verified" => Marked(l)) /\ call[u].id \in Ids
      /\ call[u].nick \in Names /\ kind \in {"peers", "verified"}
  BY DEF TypeOK, Asked, Holds, ListOK, Calls
<1>2. /\ Before(u) = [d \in Ids |-> NickIn(l, d)]
      /\ o = "number" => call[u].id \in DOMAIN l
  BY DEF Loaded, LedgerOf
<1>3. \/ kind = "peers" /\ o \in {"save", "remove", "number"}
      \/ kind = "verified" /\ o \in {"mark", "unmark"}
  BY <1>1 DEF Asked, Holds, PeerOps, MarkOps
<1> SUFFICES ASSUME NEW i \in Ids, NEW x,
                    i = IF o = "number" THEN l[call[u].id].id ELSE call[u].id,
                    x = CASE o = "save" -> call[u].nick [] o = "mark" -> "verified"
                          [] OTHER -> ""
             PROVE  ListOK(r) /\ Changed(r, l, i, x)
  <2> DEFINE i == IF o = "number" THEN l[call[u].id].id ELSE call[u].id
             x == CASE o = "save" -> call[u].nick [] o = "mark" -> "verified" [] OTHER -> ""
  <2>1. i \in Ids
    BY <1>1, <1>2, GoodDomain
  <2>2. Promise(u) = [Before(u) EXCEPT ![i] = x]
    BY Zenon DEF Promise, Before
  <2> HIDE DEF i, x, r
  <2>3. ASSUME Changed(r, l, i, x)
        PROVE  LedgerOf(r) = Promise(u)
    BY <1>2, <2>1, <2>2, <2>3 DEF LedgerOf, Changed
  <2> QED
    BY <2>1, <2>3 DEF i, x, r
<1>4. CASE o = "save"
  <2>1. r = Upsert(l, i, x) /\ x = call[u].nick /\ kind = "peers"
    BY <1>3, <1>4 DEF Result
  <2> HIDE DEF r, l, o
  <2>2. x \in Names
    BY <1>1, <2>1
  <2>3. Good(r) /\ Changed(r, l, i, x)
    BY <1>1, <2>1, <2>2, UpsertGood, Zenon
  <2> QED
    BY <2>1, <2>3, Zenon DEF ListOK
<1>5. CASE o = "remove"
  <2>1. r = Kept(l, {k \in DOMAIN l : l[k].id # i}) /\ x = "" /\ kind = "peers"
    BY <1>3, <1>5 DEF Result, Without
  <2> HIDE DEF r, l, o
  <2>2. Good(r) /\ Changed(r, l, i, x)
    BY <1>1, <2>1, RemoveGood, Zenon
  <2> QED
    BY <2>1, <2>2, Zenon DEF ListOK
<1>6. CASE o = "number"
  <2>1. /\ r = WithoutNum(l, call[u].id) /\ x = "" /\ kind = "peers"
        /\ call[u].id \in DOMAIN l /\ i = l[call[u].id].id
    BY <1>2, <1>3, <1>6 DEF Result
  <2> HIDE DEF r, l, o
  <2>2. Good(r) /\ Changed(r, l, i, x)
    BY <1>1, <2>1, NumberGood, Zenon
  <2> QED
    BY <2>1, <2>2, Zenon DEF ListOK
<1>7. CASE o \in {"mark", "unmark"}
  <2> DEFINE S == IF o = "mark" THEN IdsOf(l) \cup {i} ELSE IdsOf(l) \ {i}
  <2>1. r = SortedMarks(S) /\ x = (IF o = "mark" THEN "verified" ELSE "") /\ kind = "verified"
    BY <1>3, <1>7 DEF Result
  <2> HIDE DEF r, l, o
  <2>2. IdsOf(l) \in SUBSET Ids /\ S \in SUBSET Ids
    <3>1. \A k \in DOMAIN l : l[k].id \in Ids
      BY <1>1, GoodDomain, Zenon
    <3> QED
      BY <3>1 DEF IdsOf
  <2>3. \A d \in Ids : NickIn(l, d) = IF d \in IdsOf(l) THEN "verified" ELSE ""
    <3> SUFFICES ASSUME NEW d \in Ids
                 PROVE  NickIn(l, d) = IF d \in IdsOf(l) THEN "verified" ELSE ""
      OBVIOUS
    <3>1. CASE d \in IdsOf(l)
      <4>1. PICK k \in DOMAIN l : l[k].id = d
        BY <3>1 DEF IdsOf
      <4> QED
        BY <1>1, <2>1, <3>1, <4>1, NickAt DEF Marked
    <3> QED
      BY <3>1, NickNone
  <2> HIDE DEF S
  <2>4. /\ Good(r) /\ Marked(r)
        /\ \A d \in Ids : NickIn(r, d) = IF d \in S THEN "verified" ELSE ""
    BY <2>1, <2>2, MarksGood DEF Marked
  <2>5. \A d \in Ids : NickIn(r, d) = IF d = i THEN x ELSE NickIn(l, d)
    <3> SUFFICES ASSUME NEW d \in Ids PROVE NickIn(r, d) = IF d = i THEN x ELSE NickIn(l, d)
      OBVIOUS
    <3>1. CASE o = "mark"
      <4>1. x = "verified" /\ (d \in S <=> d \in IdsOf(l) \/ d = i)
        BY <2>1, <3>1 DEF S
      <4> QED
        BY <2>3, <2>4, <4>1
    <3>2. CASE o = "unmark"
      <4>1. x = "" /\ (d \in S <=> d \in IdsOf(l) /\ d # i)
        BY <2>1, <3>2 DEF S
      <4> QED
        BY <2>3, <2>4, <4>1
    <3> QED
      BY <1>7, <3>1, <3>2
  <2> QED
    BY <2>4, <2>5 DEF ListOK, Changed
<1> QED
  BY <1>3, <1>4, <1>5, <1>6, <1>7

\* A call that is over.
LEMMA IdleCall == Idle \in Calls /\ Idle.at = "idle" /\ Idle.list = <<>>
<1>1. Idle \in Calls
  BY EmptyOK, CallType DEF Idle, Names
<1> QED
  BY <1>1 DEF Idle, Call

\* A call returns, and with it the lock: the file says what the calls amount to.
LEMMA ReturnStep ==
  ASSUME IInv, NEW u \in Users, Holds(u), mu' = "none", unread' = "none",
         call' = [call EXCEPT ![u] = Idle],
         kind' = kind, file' \in {"absent", "torn", "whole"}, faults' \in Nat,
         Good(list') /\ (kind = "verified" => Marked(list')),
         \A l \in flushed' : Good(l) /\ (kind = "verified" => Marked(l)),
         LedgerOf(list') = ledger', OnDisk', file' = "torn" => faults' > 0
  PROVE  IInv'
<1> USE DEF IInv
<1>1. /\ call' \in [Users -> Calls] /\ call'[u] = Idle
      /\ \A v \in Users \ {u} : call'[v] = call[v]
  BY IdleCall DEF TypeOK
<1>2. "none" \notin Users /\ \A v \in Users : v # u => ~Holds(v)
  BY UsersAssumption DEF Users, Locked
<1>3. TypeOK'
  <2>1. \A l : ListOK(l)' <=> Good(l) /\ (kind = "verified" => Marked(l))
    BY DEF ListOK
  <2>2. \A v \in Users : Good(call'[v].list) /\ (kind = "verified" => Marked(call'[v].list))
    BY <1>1, IdleCall, EmptyOK DEF TypeOK, ListOK
  <2> QED
    BY <1>1, <2>1, <2>2 DEF TypeOK, ListOK
<1>4. Asked'
  BY <1>1, IdleCall DEF Asked
<1>5. Locked' /\ Loaded'
  BY <1>1, <1>2, IdleCall DEF Locked, Loaded, Holds
<1>6. Says' /\ Torn'
  BY DEF Says, Torn, LedgerOf
<1> QED
  BY <1>3, <1>4, <1>5, <1>6

\* The write, or the rename, is done.
LEMMA FinishStep ==
  ASSUME IInv, NEW u \in Users, Finish(u)
  PROVE  IInv'
<1> USE DEF IInv
<1>1. Holds(u)
  BY DEF Finish, Holds
<1>2. ListOK(Result(u)) /\ LedgerOf(Result(u)) = Promise(u)
  BY <1>1, ResultPromised
<1>3. /\ mu' = "none" /\ call' = [call EXCEPT ![u] = Idle] /\ kind' = kind /\ faults' = faults
      /\ file' = "whole" /\ list' = Result(u) /\ ledger' = Promise(u) /\ unread' = "none"
      /\ \A l \in flushed' : l \in flushed \/ l = Result(u)
  BY DEF Finish
<1>4. /\ Good(list') /\ (kind = "verified" => Marked(list'))
      /\ \A l \in flushed' : Good(l) /\ (kind = "verified" => Marked(l))
  BY <1>2, <1>3 DEF ListOK, TypeOK
<1>5. LedgerOf(list') = ledger' /\ OnDisk' /\ faults' \in Nat
  BY <1>2, <1>3 DEF OnDisk, TypeOK
<1> QED
  BY <1>1, <1>3, <1>4, <1>5, ReturnStep

\* What is left is what the file says.
LEMMA LeftOver == IInv => LedgerOf(list) = Left
BY DEF IInv, Says, OnDisk, Left, Nothing

\* A write that fails.
LEMMA ErrorStep ==
  ASSUME IInv, NEW u \in Users, SaveError(u)
  PROVE  IInv'
<1> USE DEF IInv
<1>1. /\ Holds(u) /\ mu' = "none" /\ call' = [call EXCEPT ![u] = Idle] /\ kind' = kind
      /\ file' = file /\ list' = list /\ flushed' = flushed /\ ledger' = Left
      /\ faults' = faults + 1 /\ unread' = "none"
  BY DEF SaveError, Holds, Fault, disk
<1>2. faults' \in Nat /\ faults' > 0
  <2>1. faults \in Nat
    BY DEF TypeOK
  <2>2. faults + 1 \in Nat /\ faults + 1 > 0
    BY <2>1
  <2> QED
    BY <1>1, <2>2
<1>3. /\ Good(list') /\ (kind = "verified" => Marked(list'))
      /\ \A l \in flushed' : Good(l) /\ (kind = "verified" => Marked(l))
      /\ file' \in {"absent", "torn", "whole"}
  BY <1>1 DEF ListOK, TypeOK
<1>4. LedgerOf(list') = ledger' /\ OnDisk'
  BY <1>1, LeftOver DEF OnDisk, LedgerOf
<1> QED
  BY <1>1, <1>2, <1>3, <1>4, ReturnStep

\* A restart: nobody calls, and what the file says is what is left.
LEMMA RestartStep ==
  ASSUME IInv, Restart, kind' = kind, file' \in {"absent", "torn", "whole"}, faults' = faults + 1,
         Good(list') /\ (kind = "verified" => Marked(list')),
         \A l \in flushed' : Good(l) /\ (kind = "verified" => Marked(l)),
         LedgerOf(list') = ledger', OnDisk'
  PROVE  IInv'
<1> USE DEF IInv
<1>1. call' \in [Users -> Calls] /\ (\A v \in Users : call'[v] = Idle)
      /\ mu' = "none" /\ unread' = "none"
  BY IdleCall DEF Restart
<1>2. "none" \notin Users
  BY UsersAssumption DEF Users
<1>3. faults' \in Nat /\ faults' > 0
  <2>1. faults \in Nat
    BY DEF TypeOK
  <2>2. faults + 1 \in Nat /\ faults + 1 > 0
    BY <2>1
  <2> QED
    BY <2>2
<1>4. TypeOK'
  <2>1. \A v \in Users : Good(call'[v].list) /\ (kind = "verified" => Marked(call'[v].list))
    BY <1>1, IdleCall, EmptyOK DEF ListOK
  <2> QED
    BY <1>1, <1>3, <2>1 DEF TypeOK, ListOK
<1>5. Asked' /\ Locked' /\ Loaded'
  BY <1>1, <1>2, IdleCall DEF Asked, Locked, Loaded, Holds
<1>6. Says' /\ Torn'
  BY <1>3 DEF Says, Torn, LedgerOf
<1> QED
  BY <1>4, <1>5, <1>6

\* The process stops.
LEMMA CrashStep ==
  ASSUME IInv, Crash
  PROVE  IInv'
<1> USE DEF IInv
<1>1. /\ Restart /\ kind' = kind /\ file' = file /\ list' = list /\ flushed' = flushed
      /\ ledger' = Left /\ faults' = faults + 1
  BY DEF Crash, Fault, disk
<1>2. /\ Good(list') /\ (kind = "verified" => Marked(list'))
      /\ \A l \in flushed' : Good(l) /\ (kind = "verified" => Marked(l))
      /\ file' \in {"absent", "torn", "whole"}
  BY <1>1 DEF ListOK, TypeOK
<1>3. LedgerOf(list') = ledger' /\ OnDisk'
  BY <1>1, LeftOver DEF OnDisk, LedgerOf
<1> QED
  BY <1>1, <1>2, <1>3, RestartStep

\* The machine stops: the version that comes back is one that was complete.
LEMMA PowerStep ==
  ASSUME IInv, PowerFail
  PROVE  IInv'
<1> USE DEF IInv
<1>1. Restart /\ kind' = kind /\ faults' = faults + 1 /\ flushed' = {list'}
  BY DEF PowerFail, Fault
<1>2. \/ kind = "peers" /\ file' = "torn" /\ list' = <<>> /\ ledger' = Nothing
      \/ kind = "peers" /\ file' = file /\ list' = list /\ ledger' = Left
      \/ /\ kind = "verified" /\ list' \in flushed /\ ledger' = LedgerOf(list')
         /\ file' = IF file = "whole" /\ list' = <<>> THEN "absent" ELSE file
  BY DEF PowerFail
<1>3. Good(list') /\ (kind = "verified" => Marked(list'))
  BY <1>2, EmptyOK DEF ListOK, TypeOK
<1>4. file' \in {"absent", "torn", "whole"} /\ OnDisk'
  BY <1>1, <1>2 DEF OnDisk, TypeOK
<1>5. LedgerOf(list') = ledger'
  BY <1>2, LeftOver DEF Nothing, LedgerOf
<1> QED
  BY <1>1, <1>3, <1>4, <1>5, RestartStep

\* A call is made.
LEMMA StartStep ==
  ASSUME IInv, NEW u \in Users, NEW at \in {"pick", "lock"}, NEW o, NEW i \in Ids, NEW x \in Names,
         o \in (IF kind = "peers" THEN PeerOps ELSE MarkOps), at = "pick" => o = "save",
         Start(u, Call(at, o, i, x, <<>>))
  PROVE  IInv'
<1> DEFINE c == Call(at, o, i, x, <<>>)
<1>1. c \in Calls /\ c.at = at /\ c.op = o /\ c.id = i /\ c.list = <<>>
  <2>1. o \in PeerOps \cup MarkOps \cup {"none"}
    OBVIOUS
  <2>2. c \in Calls
    BY <2>1, EmptyOK, CallType
  <2> QED
    BY <2>2 DEF Call
<1>2. /\ call[u].at = "idle" /\ call' = [call EXCEPT ![u] = c]
      /\ UNCHANGED <<kind, disk, lock, ledger, faults>>
  BY DEF Start
<1> HIDE DEF c
<1>3. ~Holds(u)
  BY <1>2 DEF Holds
<1> QED
  BY <1>1, <1>2, <1>3, OutsideStep

\* renameSavedPeer looks the position up.
LEMMA PickStep ==
  ASSUME IInv, NEW u \in Users, PickNumber(u)
  PROVE  IInv'
<1> USE DEF IInv
<1>1. call[u].at = "pick" /\ UNCHANGED <<kind, disk, lock, ledger, faults>>
  BY DEF PickNumber
<1>2. ~Holds(u)
  BY <1>1 DEF Holds
<1>3. CASE file # "torn" /\ call[u].id \in DOMAIN list
  <2> DEFINE c == Call("lock", "save", list[call[u].id].id, call[u].nick, <<>>)
  <2>1. call' = [call EXCEPT ![u] = c]
    BY <1>3 DEF PickNumber
  <2>2. /\ list[call[u].id].id \in Ids /\ call[u].nick \in Names
        /\ "save" \in (IF kind = "peers" THEN PeerOps ELSE MarkOps)
    <3>1. Good(list) /\ call[u] \in Calls
      BY DEF TypeOK, ListOK
    <3>2. list[call[u].id].id \in Ids
      BY <1>3, <3>1, GoodDomain
    <3>3. call[u].op = "save" /\ call[u].op \in (IF kind = "peers" THEN PeerOps ELSE MarkOps)
      BY <1>1 DEF Asked
    <3> QED
      BY <3>1, <3>2, <3>3 DEF Calls
  <2>3. c \in Calls
    BY <2>2, EmptyOK, CallType DEF PeerOps
  <2>4. c.at = "lock" /\ c.op = "save" /\ c.id \in Ids /\ c.list = <<>>
    BY <2>2 DEF Call
  <2> HIDE DEF c
  <2> QED
    BY <1>1, <1>2, <2>1, <2>2, <2>3, <2>4, OutsideStep
<1>4. CASE ~(file # "torn" /\ call[u].id \in DOMAIN list)
  <2>1. call' = [call EXCEPT ![u] = Idle]
    BY <1>4 DEF PickNumber
  <2> QED
    BY <1>1, <1>2, <2>1, IdleCall, OutsideStep
<1> QED
  BY <1>3, <1>4

\* A call that gives up.
LEMMA RefusedStep ==
  ASSUME IInv, NEW u \in Users, LoadRefused(u)
  PROVE  IInv'
<1>1. ~Holds(u)
  BY DEF LoadRefused, Holds
<1> QED
  BY <1>1, IdleCall, OutsideStep DEF LoadRefused

\* A call that gives up because the file cannot be read.
LEMMA LoadErrorStep ==
  ASSUME IInv, NEW u \in Users, LoadError(u)
  PROVE  IInv'
<1>1. /\ ~Holds(u) /\ mu = "none" /\ call' = [call EXCEPT ![u] = Idle]
      /\ UNCHANGED <<kind, disk, lock, ledger>> /\ faults' = faults + 1
  BY DEF LoadError, Holds, Fault
<1> QED
  BY <1>1, IdleCall, OutsideStep

\* One that goes on although it cannot: its list is empty.
LEMMA IgnoredStep ==
  ASSUME IInv, NEW u \in Users, LoadIgnored(u)
  PROVE  IInv'
<1> USE DEF IInv
<1> DEFINE c == Call("save", call[u].op, call[u].id, call[u].nick, <<>>)
<1>1. /\ call[u].at = "lock" /\ mu = "none" /\ mu' = u /\ unread' = u /\ faults' = faults + 1
      /\ call[u].op \in {"save", "mark", "unmark"} /\ call' = [call EXCEPT ![u] = c]
      /\ UNCHANGED <<kind, file, list, flushed, ledger>>
  BY DEF LoadIgnored, Advance, Fault, disk
<1>2. /\ c \in Calls /\ c.at = "save" /\ c.op = call[u].op /\ c.id = call[u].id /\ c.list = <<>>
  <2>1. call[u] \in Calls
    BY DEF TypeOK
  <2>2. /\ call[u].op \in PeerOps \cup MarkOps \cup {"none"}
        /\ call[u].id \in Ids \cup {0} /\ call[u].nick \in Names
    BY <2>1 DEF Calls
  <2>3. c \in Calls
    BY <2>2, CallType, EmptyOK
  <2> QED
    BY <2>3 DEF Call
<1> HIDE DEF c
<1>3. /\ call' \in [Users -> Calls] /\ call'[u] = c
      /\ \A v \in Users \ {u} : call'[v] = call[v]
  BY <1>1, <1>2 DEF TypeOK
<1>4. faults' \in Nat /\ faults' > 0
  <2>1. faults \in Nat
    BY DEF TypeOK
  <2>2. faults + 1 \in Nat /\ faults + 1 > 0
    BY <2>1
  <2> QED
    BY <1>1, <2>2
<1>5. TypeOK'
  <2>1. \A l : ListOK(l) => ListOK(l)'
    BY <1>1 DEF ListOK
  <2> QED
    BY <1>1, <1>2, <1>3, <1>4, <2>1, EmptyOK DEF TypeOK
<1>6. Asked'
  BY <1>1, <1>2, <1>3 DEF Asked
<1>7. "none" \notin Users /\ \A v \in Users : ~Holds(v)
  BY <1>1, UsersAssumption DEF Users, Locked
<1>8. Locked'
  BY <1>1, <1>2, <1>3, <1>7 DEF Locked, Holds
<1>9. Loaded'
  BY <1>1, <1>2, <1>3, <1>7 DEF Loaded, Holds, Before, Nothing, LedgerOf
<1>10. OnDisk' /\ Says' /\ Torn'
  BY <1>1, <1>4, <1>7 DEF OnDisk, Says, Torn, LedgerOf
<1> QED
  BY <1>5, <1>6, <1>8, <1>9, <1>10

\* Every step keeps the invariant.
LEMMA NextIInv == IInv /\ [Next]_vars => IInv'
<1> SUFFICES ASSUME IInv, [Next]_vars PROVE IInv'
  OBVIOUS
<1>0. /\ "cli" \in Users /\ "" \in Names /\ Nicks \subseteq Names
      /\ {"save", "remove", "number"} = PeerOps /\ {"mark", "unmark"} = MarkOps
  BY DEF Users, Names, PeerOps, MarkOps
<1>1. ASSUME NEW u \in Users, NEW i \in Ids, NEW x \in Nicks, SavePeer(u, i, x) PROVE IInv'
  BY <1>0, <1>1, StartStep DEF SavePeer
<1>2. ASSUME NEW u \in Users, NEW i \in Ids, RemovePeerByID(u, i) PROVE IInv'
  BY <1>0, <1>2, StartStep DEF RemovePeerByID
<1>3. ASSUME NEW u \in Users, NEW i \in Ids, NEW on \in BOOLEAN, SetVerified(u, i, on) PROVE IInv'
  <2>1. (IF on THEN "mark" ELSE "unmark") \in MarkOps /\ kind = "verified"
    BY <1>0, <1>3 DEF SetVerified
  <2> QED
    BY <1>0, <1>3, <2>1, StartStep DEF SetVerified
<1>4. ASSUME NEW n \in Ids, RemovePeerByNum(n) PROVE IInv'
  BY <1>0, <1>4, StartStep DEF RemovePeerByNum
<1>5. ASSUME NEW n \in Ids, NEW x \in Nicks, RenamePeer(n, x) PROVE IInv'
  BY <1>0, <1>5, StartStep DEF RenamePeer
<1>6. ASSUME NEW u \in Users, Work(u) \/ LoadError(u) \/ LoadIgnored(u) \/ SaveError(u) PROVE IInv'
  BY <1>6, PickStep, LoadStep, RefusedStep, WriteStep, FinishStep, ErrorStep,
     LoadErrorStep, IgnoredStep DEF Work
<1>7. CASE UNCHANGED vars
  BY <1>7 DEF vars, disk, lock, Before, Nothing, IInv, TypeOK, ListOK, Asked, OnDisk, Locked, Loaded, Holds, Says,
              Torn, LedgerOf
<1> QED
  BY <1>1, <1>2, <1>3, <1>4, <1>5, <1>6, <1>7, CrashStep, PowerStep DEF Next

\* The invariant holds from the start: there is no file.
LEMMA InitIInv == Init => IInv
<1> SUFFICES ASSUME Init PROVE IInv
  OBVIOUS
<1>1. call \in [Users -> Calls] /\ \A v \in Users : call[v] = Idle
  BY IdleCall DEF Init
<1>2. "none" \notin Users
  BY UsersAssumption DEF Users
<1> QED
  BY <1>1, <1>2, IdleCall, EmptyOK
  DEF Init, Nothing, IInv, TypeOK, Asked, OnDisk, Locked, Loaded, Holds, Says, Torn

\* The inductive invariant of the two files.
THEOREM Invariance == Spec => []IInv
BY InitIInv, NextIInv, PTL DEF Spec

-----------------------------------------------------------------------------
(* The properties.                                                          *)

\* However saves, renames and removals overlap, and whatever fails in between, no
\* peer has two entries in a file or in a list a call works on.
THEOREM OneEntryEach == Spec => []OneEntryPerPeer
<1>1. IInv => OneEntryPerPeer
  <2> SUFFICES ASSUME IInv, NEW l \in Lists PROVE Unique(l)
    BY DEF OneEntryPerPeer, Unique
  <2> QED
    BY DEF IInv, TypeOK, ListOK, Good, Lists
<1> QED
  BY <1>1, Invariance, PTL

\* No call undoes another that overlaps it, and an error or a crash takes no entry
\* from a file that still parses, save what a call that ignored a read error and a
\* power failure do; only a fault leaves a file unreadable.
THEOREM NothingForgotten == Spec => []NoLostEntry
<1>1. IInv => NoLostEntry
  <2> SUFFICES ASSUME IInv
               PROVE  IF file = "torn" THEN faults > 0 \/ mu # "none"
                                       ELSE LedgerOf(list) = ledger
    BY DEF NoLostEntry
  <2>1. mu = "none" => \A u \in Users : ~Holds(u)
    BY UsersAssumption DEF IInv, Locked, Users
  <2>2. file = "torn" => faults > 0 \/ mu # "none"
    BY <2>1 DEF IInv, Torn, Holds
  <2> QED
    BY <2>2 DEF IInv, Says
<1> QED
  BY <1>1, Invariance, PTL
=============================================================================
