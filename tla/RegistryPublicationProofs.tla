----------------------- MODULE RegistryPublicationProofs -----------------------
(***************************************************************************)
(* Theorems about RegistryPublication, for all identity files, servers and *)
(* endpoints and all bounds.                                               *)
(***************************************************************************)
EXTENDS RegistryPublication, FiniteSetTheorems, SequenceTheorems, TLAPS

-----------------------------------------------------------------------------
(* Induction                                                               *)

\* Every non-empty set of numbers has a least element.
LEMMA LeastNumber ==
    ASSUME NEW S \in SUBSET Nat, S # {}
    PROVE  \E n \in S : \A m \in S : n <= m
<1> DEFINE less == OpToRel(<, Nat)
<1>1. IsWellFoundedOn(less, Nat)
  BY NatLessThanWellFounded, Zenon
<1>2. \A n, m \in Nat : m < n => <<m, n>> \in less
  BY DEF OpToRel
<1> HIDE DEF less
<1>3. \E n \in S : \A m \in S : ~(<<m, n>> \in less)
  BY <1>1, WFMin
<1>4. PICK n \in S : \A m \in S : ~(<<m, n>> \in less)
  BY <1>3
<1>5. \A m \in S : n <= m
  <2> TAKE m \in S
  <2>1. ~(m < n)
    BY <1>2, <1>4
  <2> QED
    BY <2>1
<1> QED
  BY <1>5

\* Induction, for the set of the numbers that have a property.
LEMMA NumbersFrom0 ==
    ASSUME NEW S \in SUBSET Nat, 0 \in S, \A n \in S : n + 1 \in S
    PROVE  \A n \in Nat : n \in S
<1> SUFFICES ASSUME Nat \ S # {} PROVE FALSE
  OBVIOUS
<1>1. PICK n \in Nat \ S : \A m \in Nat \ S : n <= m
  BY LeastNumber
<1>2. n # 0
  OBVIOUS
<1>3. n - 1 \in Nat /\ n - 1 + 1 = n /\ ~(n <= n - 1)
  BY <1>2
<1>4. n - 1 \in S
  BY <1>1, <1>3
<1> QED
  BY <1>3, <1>4

-----------------------------------------------------------------------------
(* The operators of plans                                                  *)

\* The function Flatten looks into exists: join[n] is the first n parts.
LEMMA JoinExists ==
    ASSUME NEW X, NEW parts \in Seq(Seq(X))
    PROVE  \E f \in [0..Len(parts) -> Seq(X)] :
              /\ f[0] = <<>>
              /\ \A i \in 1..Len(parts) : f[i] = f[i - 1] \o parts[i]
<1> DEFINE Ok(n) == n <= Len(parts) =>
                \E f \in [0..n -> Seq(X)] :
                   /\ f[0] = <<>>
                   /\ \A i \in 1..n : f[i] = f[i - 1] \o parts[i]
           S == {n \in Nat : Ok(n)}
<1>1. Ok(0)
  <2> DEFINE f == [i \in 0..0 |-> <<>>]
  <2>1. f \in [0..0 -> Seq(X)] /\ f[0] = <<>> /\ \A i \in 1..0 : f[i] = f[i - 1] \o parts[i]
    OBVIOUS
  <2> QED
    BY <2>1
<1>2. ASSUME NEW n \in Nat, Ok(n) PROVE Ok(n + 1)
  <2> SUFFICES ASSUME n + 1 <= Len(parts)
               PROVE  \E f \in [0..(n + 1) -> Seq(X)] :
                         /\ f[0] = <<>>
                         /\ \A i \in 1..(n + 1) : f[i] = f[i - 1] \o parts[i]
    OBVIOUS
  <2>0. n <= Len(parts) /\ n + 1 \in 1..Len(parts)
    OBVIOUS
  <2>1. PICK g \in [0..n -> Seq(X)] :
               g[0] = <<>> /\ \A i \in 1..n : g[i] = g[i - 1] \o parts[i]
    BY <1>2, <2>0
  <2> DEFINE f == [i \in 0..(n + 1) |-> IF i = n + 1 THEN g[n] \o parts[n + 1] ELSE g[i]]
  <2>2. parts[n + 1] \in Seq(X) /\ g[n] \in Seq(X)
    BY <2>0
  <2>3. g[n] \o parts[n + 1] \in Seq(X)
    BY <2>2, ConcatProperties
  <2>4. f \in [0..(n + 1) -> Seq(X)]
    BY <2>3
  <2>5. f[0] = <<>>
    BY <2>1
  <2>6. ASSUME NEW i \in 1..(n + 1) PROVE f[i] = f[i - 1] \o parts[i]
    <3>1. CASE i = n + 1
      <4>1. f[i] = g[n] \o parts[n + 1] /\ f[i - 1] = g[n]
        BY <3>1
      <4> QED
        BY <3>1, <4>1
    <3>2. CASE i # n + 1
      <4>1. i \in 1..n /\ f[i] = g[i] /\ f[i - 1] = g[i - 1]
        BY <3>2
      <4> QED
        BY <2>1, <4>1
    <3> QED
      BY <3>1, <3>2
  <2> HIDE DEF f
  <2> QED
    BY <2>4, <2>5, <2>6
<1> HIDE DEF Ok
<1>3. \A n \in Nat : n \in S
  <2>1. 0 \in S /\ \A n \in S : n + 1 \in S
    BY <1>1, <1>2
  <2>2. S \in SUBSET Nat
    OBVIOUS
  <2> HIDE DEF S
  <2> QED
    BY <2>1, <2>2, NumbersFrom0
<1>4. Len(parts) \in Nat /\ Len(parts) <= Len(parts)
  OBVIOUS
<1> QED
  BY <1>3, <1>4 DEF Ok

\* Flatten is the last of the functions' values, all of them sequences over X.
LEMMA FlattenJoins ==
    ASSUME NEW X, NEW parts \in Seq(Seq(X))
    PROVE  \E f : /\ f[0] = <<>> /\ \A n \in 0..Len(parts) : f[n] \in Seq(X)
                  /\ \A n \in 0..Len(parts) : n + 1 <= Len(parts) => f[n + 1] = f[n] \o parts[n + 1]
                  /\ Flatten(parts) = f[Len(parts)]
<1> DEFINE Joins(f) == f = [n \in 0..Len(parts) |->
                              IF n = 0 THEN <<>> ELSE f[n - 1] \o parts[n]]
           join == CHOOSE f : Joins(f)
           S == {n \in Nat : n <= Len(parts) => join[n] \in Seq(X)}
<1>1. \E f : Joins(f)
  <2>1. PICK f \in [0..Len(parts) -> Seq(X)] :
               f[0] = <<>> /\ \A i \in 1..Len(parts) : f[i] = f[i - 1] \o parts[i]
    BY JoinExists
  <2>2. ASSUME NEW n \in 0..Len(parts)
        PROVE  f[n] = IF n = 0 THEN <<>> ELSE f[n - 1] \o parts[n]
    <3>1. CASE n = 0
      BY <2>1, <3>1
    <3>2. CASE n # 0
      <4>1. n \in 1..Len(parts)
        BY <3>2
      <4> QED
        BY <2>1, <3>2, <4>1
    <3> QED
      BY <3>1, <3>2
  <2> QED
    BY <2>2
<1>2. Joins(join)
  <2> HIDE DEF Joins
  <2> QED
    BY <1>1
<1>3. Flatten(parts) = join[Len(parts)]
  BY DEF Flatten
<1> HIDE DEF join
<1>4. ASSUME NEW n \in 0..Len(parts), n + 1 <= Len(parts) PROVE join[n + 1] = join[n] \o parts[n + 1]
  <2>1. n + 1 \in 0..Len(parts) /\ n + 1 # 0 /\ n + 1 - 1 = n
    BY <1>4
  <2>2. \A m \in 0..Len(parts) :
           join[m] = IF m = 0 THEN <<>> ELSE join[m - 1] \o parts[m]
    BY <1>2
  <2>3. PICK k \in 0..Len(parts) : k = n + 1 /\ k # 0 /\ k - 1 = n
    BY <2>1
  <2>4. join[k] = join[k - 1] \o parts[k]
    BY <2>2, <2>3, Zenon
  <2> QED
    BY <2>3, <2>4, Zenon
<1>5. join[0] = <<>>
  BY <1>2
<1>6. 0 \in S
  <2>1. join[0] \in Seq(X)
    BY <1>5
  <2> QED
    BY <2>1
<1>7. ASSUME NEW n \in S PROVE n + 1 \in S
  <2> SUFFICES ASSUME n + 1 <= Len(parts) PROVE join[n + 1] \in Seq(X)
    OBVIOUS
  <2>1. n \in 0..Len(parts)
    OBVIOUS
  <2>2. join[n] \in Seq(X) /\ parts[n + 1] \in Seq(X)
    OBVIOUS
  <2> QED
    BY <1>4, <2>1, <2>2, ConcatProperties, ZenonT(60)
<1>8. \A n \in Nat : n \in S
  BY <1>6, <1>7, NumbersFrom0
<1>9. \A n \in 0..Len(parts) : join[n] \in Seq(X)
  BY <1>8
<1> QED
  BY <1>3, <1>4, <1>5, <1>9

\* A concatenation of sequences over X is a sequence over X.
LEMMA FlattenType ==
    ASSUME NEW X, NEW parts \in Seq(Seq(X))
    PROVE  Flatten(parts) \in Seq(X)
<1>1. Len(parts) \in 0..Len(parts)
  OBVIOUS
<1> QED
  BY <1>1, FlattenJoins

\* x is one of the elements of a sequence.
Holds(s, x) == \E n \in 1..Len(s) : s[n] = x

\* A concatenation has the elements of both sequences.
LEMMA ConcatHas ==
    ASSUME NEW X, NEW s \in Seq(X), NEW t \in Seq(X), NEW x, Holds(s, x) \/ Holds(t, x)
    PROVE  Holds(s \o t, x)
<1>1. /\ Len(s \o t) = Len(s) + Len(t) /\ Len(s) \in Nat /\ Len(t) \in Nat
      /\ \A n \in 1..(Len(s) + Len(t)) :
            (s \o t)[n] = IF n <= Len(s) THEN s[n] ELSE t[n - Len(s)]
  BY ConcatProperties
<1>2. CASE Holds(s, x)
  <2>1. PICK n \in 1..Len(s) : s[n] = x
    BY <1>2 DEF Holds
  <2>2. n \in 1..(Len(s) + Len(t)) /\ n <= Len(s)
    BY <1>1
  <2>3. (s \o t)[n] = s[n]
    BY <1>1, <2>2
  <2> QED
    BY <1>1, <2>1, <2>2, <2>3 DEF Holds
<1>3. CASE Holds(t, x)
  <2>1. PICK j \in 1..Len(t) : t[j] = x
    BY <1>3 DEF Holds
  <2>2. /\ Len(s) + j \in 1..(Len(s) + Len(t)) /\ ~(Len(s) + j <= Len(s))
        /\ Len(s) + j - Len(s) = j
    BY <1>1
  <2>3. (s \o t)[Len(s) + j] = t[j]
    BY <1>1, <2>2
  <2> QED
    BY <1>1, <2>1, <2>2, <2>3 DEF Holds
<1> QED
  BY <1>2, <1>3

\* Nothing is lost in a concatenation.
LEMMA FlattenHas ==
    ASSUME NEW X, NEW parts \in Seq(Seq(X)), NEW i \in 1..Len(parts),
           NEW x, Holds(parts[i], x)
    PROVE  \E n \in DOMAIN Flatten(parts) : Flatten(parts)[n] = x
<1>1. PICK f : /\ f[0] = <<>> /\ \A n \in 0..Len(parts) : f[n] \in Seq(X)
               /\ \A n \in 0..Len(parts) : n + 1 <= Len(parts) => f[n + 1] = f[n] \o parts[n + 1]
               /\ Flatten(parts) = f[Len(parts)]
  BY FlattenJoins
<1> DEFINE S == {n \in Nat : i + n <= Len(parts) => Holds(f[i + n], x)}
<1>2. Len(parts) \in Nat /\ parts[i] \in Seq(X) /\ i \in Nat \ {0}
  OBVIOUS
<1>3. 0 \in S
  <2>1. i - 1 \in 0..Len(parts) /\ i - 1 + 1 = i /\ i <= Len(parts) /\ i + 0 = i
    OBVIOUS
  <2>2. f[i] = f[i - 1] \o parts[i] /\ f[i - 1] \in Seq(X)
    BY <1>1, <2>1
  <2>3. Holds(f[i], x)
    BY <1>2, <2>2, ConcatHas
  <2> QED
    BY <2>1, <2>3
<1>4. ASSUME NEW n \in S PROVE n + 1 \in S
  <2> SUFFICES ASSUME i + (n + 1) <= Len(parts) PROVE Holds(f[i + (n + 1)], x)
    OBVIOUS
  <2>0. n \in Nat /\ (i + n <= Len(parts) => Holds(f[i + n], x))
    OBVIOUS
  <2>1. /\ i + n \in 0..Len(parts) /\ i + n <= Len(parts) /\ i + (n + 1) = i + n + 1
        /\ i + n + 1 \in 1..Len(parts) /\ i + n + 1 <= Len(parts)
    BY <1>2, <2>0
  <2>2. Holds(f[i + n], x)
    BY <2>0, <2>1
  <2>3. /\ f[i + n + 1] = f[i + n] \o parts[i + n + 1] /\ f[i + n] \in Seq(X)
        /\ parts[i + n + 1] \in Seq(X)
    <3>1. PICK m \in 0..Len(parts) : m = i + n /\ m + 1 <= Len(parts)
      BY <2>1
    <3>2. f[m + 1] = f[m] \o parts[m + 1] /\ f[m] \in Seq(X)
      BY <1>1, <3>1
    <3>3. parts[m + 1] \in Seq(X)
      BY <2>1, <3>1
    <3> QED
      BY <3>1, <3>2, <3>3
  <2>4. Holds(f[i + n + 1], x)
    BY <2>2, <2>3, ConcatHas
  <2> QED
    BY <2>1, <2>4
<1>5. \A n \in Nat : n \in S
  BY <1>3, <1>4, NumbersFrom0
<1>6. Holds(f[Len(parts)], x)
  <2>1. PICK n \in Nat : i + n = Len(parts)
    <3>1. i <= Len(parts)
      OBVIOUS
    <3>2. Len(parts) - i \in Nat /\ i + (Len(parts) - i) = Len(parts)
      BY <1>2, <3>1
    <3> QED
      BY <3>2
  <2>2. n \in S
    BY <1>5
  <2>3. i + n <= Len(parts) => Holds(f[i + n], x)
    BY <2>2
  <2>4. Len(parts) <= Len(parts)
    BY <1>2
  <2> QED
    BY <2>1, <2>3, <2>4
<1>7. Flatten(parts) \in Seq(X)
  BY FlattenType
<1> QED
  BY <1>1, <1>6, <1>7 DEF Holds

\* A finite set of numbers can be written down in increasing order.
LEMMA SortedExists ==
    ASSUME NEW n \in Nat
    PROVE  \A S \in SUBSET Nat : IsFiniteSet(S) /\ Cardinality(S) = n =>
              \E s \in [1..n -> S] : \A i, j \in 1..n : i < j => s[i] < s[j]
<1> DEFINE Ok(m) == \A S \in SUBSET Nat : IsFiniteSet(S) /\ Cardinality(S) = m =>
                        \E s \in [1..m -> S] : \A i, j \in 1..m : i < j => s[i] < s[j]
           N == {m \in Nat : Ok(m)}
<1>1. Ok(0)
  <2> TAKE S \in SUBSET Nat
  <2> DEFINE s == [i \in 1..0 |-> 0]
  <2>1. s \in [1..0 -> S] /\ \A i, j \in 1..0 : i < j => s[i] < s[j]
    OBVIOUS
  <2> QED
    BY <2>1
<1>2. ASSUME NEW m \in Nat, Ok(m) PROVE Ok(m + 1)
  <2> SUFFICES ASSUME NEW S \in SUBSET Nat, IsFiniteSet(S), Cardinality(S) = m + 1
               PROVE  \E s \in [1..(m + 1) -> S] :
                         \A i, j \in 1..(m + 1) : i < j => s[i] < s[j]
    OBVIOUS
  <2>1. S # {}
    BY FS_EmptySet
  <2>2. PICK least \in S : \A x \in S : least <= x
    BY <2>1, LeastNumber
  <2> DEFINE R == S \ {least}
  <2>3. R \in SUBSET Nat /\ IsFiniteSet(R) /\ Cardinality(R) = m
    BY FS_RemoveElement
  <2>4. PICK r \in [1..m -> R] : \A i, j \in 1..m : i < j => r[i] < r[j]
    BY <1>2, <2>3
  <2> DEFINE s == [i \in 1..(m + 1) |-> IF i = 1 THEN least ELSE r[i - 1]]
  <2>5. ASSUME NEW i \in 1..(m + 1), i # 1
        PROVE  i - 1 \in 1..m /\ s[i] = r[i - 1] /\ r[i - 1] \in S /\ least < r[i - 1]
    <3>1. i - 1 \in 1..m
      BY <2>5
    <3>2. r[i - 1] \in S /\ r[i - 1] # least
      BY <3>1
    <3>3. least <= r[i - 1] /\ least \in Nat /\ r[i - 1] \in Nat
      BY <2>2, <3>2
    <3>4. s[i] = r[i - 1]
      BY <2>5
    <3> QED
      BY <3>1, <3>2, <3>3, <3>4
  <2>6. s[1] = least
    OBVIOUS
  <2>7. s \in [1..(m + 1) -> S]
    BY <2>5
  <2>8. ASSUME NEW i \in 1..(m + 1), NEW j \in 1..(m + 1), i < j PROVE s[i] < s[j]
    <3>1. j # 1
      BY <2>8
    <3>2. CASE i = 1
      BY <2>5, <2>6, <3>1, <3>2
    <3>3. CASE i # 1
      <4>1. s[i] = r[i - 1] /\ s[j] = r[j - 1] /\ i - 1 \in 1..m /\ j - 1 \in 1..m
        BY <2>5, <3>1, <3>3
      <4>2. i - 1 < j - 1
        BY <2>8
      <4> QED
        BY <2>4, <4>1, <4>2
    <3> QED
      BY <3>2, <3>3
  <2> HIDE DEF s
  <2> QED
    BY <2>7, <2>8
<1>3. \A m \in Nat : m \in N
  <2> HIDE DEF Ok
  <2>1. 0 \in N /\ \A m \in N : m + 1 \in N
    BY <1>1, <1>2
  <2>2. N \in SUBSET Nat
    OBVIOUS
  <2> HIDE DEF N
  <2> QED
    BY <2>1, <2>2, NumbersFrom0
<1> QED
  BY <1>3

\* Sorted lists the elements of a finite set of numbers in increasing order.
LEMMA SortedType ==
    ASSUME NEW S \in SUBSET Nat, IsFiniteSet(S)
    PROVE  /\ Cardinality(S) \in Nat
           /\ Sorted(S) \in [1..Cardinality(S) -> S]
           /\ \A i, j \in 1..Cardinality(S) : i < j => Sorted(S)[i] < Sorted(S)[j]
<1> DEFINE n == Cardinality(S)
           Up(s) == \A i, j \in 1..n : i < j => s[i] < s[j]
<1>1. n \in Nat
  BY FS_CardinalityType
<1>2. \E s \in [1..n -> S] : Up(s)
  BY <1>1, SortedExists
<1>3. Sorted(S) = CHOOSE s \in [1..n -> S] : Up(s)
  BY Zenon DEF Sorted
<1> HIDE DEF n, Up
<1>4. Sorted(S) \in [1..n -> S] /\ Up(Sorted(S))
  BY <1>2, <1>3, Zenon
<1> QED
  BY <1>1, <1>4 DEF n, Up

\* Listed lists the elements of a finite set.
LEMMA ListedType ==
    ASSUME NEW S, IsFiniteSet(S)
    PROVE  Cardinality(S) \in Nat /\ Listed(S) \in [1..Cardinality(S) -> S]
<1> DEFINE n == Cardinality(S)
<1>1. n \in Nat /\ ExistsBijection(1..n, S)
  BY FS_CardinalityType
<1>2. PICK s \in [1..n -> S] : \A i, j \in 1..n : s[i] = s[j] => i = j
  BY <1>1 DEF ExistsBijection, Bijection, Injection, IsInjective
<1>3. Distinct(s)
  BY <1>2 DEF Distinct
<1>4. Listed(S) = CHOOSE t \in [1..n -> S] : Distinct(t)
  BY Zenon DEF Listed
<1> HIDE DEF n
<1>5. Listed(S) \in [1..n -> S]
  BY <1>2, <1>3, <1>4, Zenon
<1> QED
  BY <1>1, <1>5 DEF n

-----------------------------------------------------------------------------
(* Plans                                                                   *)

Entry == [server : Server, version : Nat \ {0}, endpoints : Seq(Endpoint)]

\* What both kinds of snapshot ask of the entries, and load_identities ensures.
EntriesSound(entries) ==
    /\ entries \in Seq(Entry)
    /\ Len(entries) > 0
    /\ \A i \in DOMAIN entries :
          /\ Len(entries[i].endpoints) \in 1..MaxEndpoints
          /\ Distinct(entries[i].endpoints)
    /\ \A i, j \in DOMAIN entries :
          i < j => /\ entries[i].server < entries[j].server
                   /\ Elements(entries[i].endpoints) \cap Elements(entries[j].endpoints) = {}

\* EntryOf finds the entry of a server that is listed.
LEMMA EntryFound ==
    ASSUME NEW entries, NEW s \in ServersOf(entries)
    PROVE  \E i \in DOMAIN entries : entries[i].server = s /\ EntryOf(entries, s) = entries[i]
<1> DEFINE Has(i) == entries[i].server = s
           at == CHOOSE i \in DOMAIN entries : Has(i)
<1>1. \E i \in DOMAIN entries : Has(i)
  BY DEF ServersOf
<1>2. EntryOf(entries, s) = entries[at]
  BY DEF EntryOf
<1> HIDE DEF Has
<1>3. at \in DOMAIN entries /\ Has(at)
  BY <1>1, Zenon
<1> HIDE DEF at
<1> QED
  BY <1>2, <1>3 DEF Has

\* The identities of a file have their fields.
LEMMA DraftType ==
    ASSUME NEW ids \in Draft
    PROVE  /\ Len(ids) \in Nat /\ DOMAIN ids = 1..Len(ids)
           /\ \A i \in 1..Len(ids) : /\ ids[i].server \in Server
                                     /\ ids[i].version \in Nat
                                     /\ ids[i].endpoints \in Seq(Endpoint)
<1> DEFINE Identity == [server : Server, version : Nat, endpoints : Seq(Endpoint),
                        role : STRING, agent : BOOLEAN, status : STRING]
<1>1. ids \in Seq(Identity)
  BY DraftAssumption
<1>2. \A x \in Identity : /\ x.server \in Server /\ x.version \in Nat
                          /\ x.endpoints \in Seq(Endpoint)
  OBVIOUS
<1> HIDE DEF Identity
<1>3. /\ Len(ids) \in Nat /\ DOMAIN ids = 1..Len(ids)
      /\ \A i \in 1..Len(ids) : ids[i] \in Identity
  BY <1>1
<1> QED
  BY <1>2, <1>3

\* An identity file with n identities names n servers.
LEMMA ServersCounted ==
    ASSUME NEW ids \in Draft, Loadable(ids)
    PROVE  /\ ServersOf(ids) \in SUBSET Server
           /\ ServersOf(ids) \in SUBSET Nat
           /\ IsFiniteSet(ServersOf(ids))
           /\ Cardinality(ServersOf(ids)) = Len(ids)
<1> DEFINE S == ServersOf(ids)
           f == [i \in 1..Len(ids) |-> ids[i].server]
<1>2. Len(ids) \in Nat /\ DOMAIN ids = 1..Len(ids)
  BY DraftType
<1>3. \A i \in 1..Len(ids) : ids[i].server \in Server
  BY DraftType
<1>4. S \in SUBSET Server
  BY <1>2, <1>3 DEF ServersOf
<1>5. \A i, j \in 1..Len(ids) : ids[i].server = ids[j].server => i = j
  BY <1>2 DEF Loadable
<1>6. f \in [1..Len(ids) -> S]
  BY <1>2 DEF ServersOf
<1>7. \A i, j \in 1..Len(ids) : f[i] = f[j] => i = j
  BY <1>5
<1>8. \A s \in S : \E i \in 1..Len(ids) : f[i] = s
  BY <1>2 DEF ServersOf
<1> HIDE DEF f
<1>9. f \in Bijection(1..Len(ids), S)
  BY <1>6, <1>7, <1>8 DEF Bijection, Injection, IsInjective, Surjection
<1>10. ExistsBijection(1..Len(ids), S)
  BY <1>9 DEF ExistsBijection
<1>11. Server \in SUBSET Nat /\ IsFiniteSet(Server)
  BY Parameters
<1> HIDE DEF S
<1>12. IsFiniteSet(S)
  BY <1>4, <1>11, FS_Subset
<1>13. Cardinality(S) = Len(ids)
  BY <1>2, <1>10, FS_CountingElements
<1> QED
  BY <1>4, <1>11, <1>12, <1>13 DEF S

\* load_identities accepts only what gives sound entries, one for each identity.
LEMMA EntriesOfLoadable ==
    ASSUME NEW ids \in Draft, Loadable(ids)
    PROVE  EntriesSound(Entries(ids)) /\ Len(Entries(ids)) = Len(ids)
<1> DEFINE S == ServersOf(ids)
           n == Len(ids)
           Id(i) == EntryOf(ids, Sorted(S)[i])
           es == Entries(ids)
<1>1. n \in Nat /\ n > 0 /\ DOMAIN ids = 1..n
  BY DraftType DEF Loadable, Signable
<1>2. /\ S \in SUBSET Server /\ S \in SUBSET Nat /\ IsFiniteSet(S)
      /\ Cardinality(S) = n
  BY ServersCounted
<1>3. /\ Sorted(S) \in [1..n -> S]
      /\ \A i, j \in 1..n : i < j => Sorted(S)[i] < Sorted(S)[j]
  BY <1>2, SortedType
<1>4. ASSUME NEW i \in 1..n
      PROVE  \E k \in 1..n : Id(i) = ids[k] /\ ids[k].server = Sorted(S)[i]
  <2>1. Sorted(S)[i] \in ServersOf(ids)
    BY <1>3
  <2> HIDE DEF S
  <2>2. \E k \in DOMAIN ids : ids[k].server = Sorted(S)[i]
                              /\ EntryOf(ids, Sorted(S)[i]) = ids[k]
    BY <2>1, EntryFound
  <2> QED
    BY <1>1, <2>2
<1>5. /\ es = [i \in 1..n |-> [server |-> Id(i).server, version |-> Id(i).version,
                               endpoints |-> Id(i).endpoints]]
  BY DEF Entries
<1> HIDE DEF Id, es, S
<1>6. ASSUME NEW i \in 1..n
      PROVE  /\ es[i] \in Entry
             /\ Len(es[i].endpoints) \in 1..MaxEndpoints
             /\ Distinct(es[i].endpoints)
             /\ es[i].server = Sorted(S)[i]
             /\ \E k \in 1..n : ids[k].server = es[i].server
                                /\ ids[k].endpoints = es[i].endpoints
  <2>1. PICK k \in 1..n : Id(i) = ids[k] /\ ids[k].server = Sorted(S)[i]
    BY <1>4
  <2>2. es[i] = [server |-> ids[k].server, version |-> ids[k].version,
                 endpoints |-> ids[k].endpoints]
    BY <1>5, <2>1
  <2>3. ValidStructure(ids[k])
    BY <1>1 DEF Loadable, Signable
  <2>4. ids[k].version > 0 /\ Len(ids[k].endpoints) \in 1..MaxEndpoints
        /\ Distinct(ids[k].endpoints)
    BY <2>3 DEF ValidStructure
  <2>5. ids[k].server \in Server /\ ids[k].version \in Nat \ {0}
        /\ ids[k].endpoints \in Seq(Endpoint)
    BY <2>4, DraftType
  <2>6. es[i] \in Entry
    BY <2>2, <2>5 DEF Entry
  <2>7. es[i].server = ids[k].server /\ es[i].endpoints = ids[k].endpoints
    BY <2>2
  <2> QED
    BY <2>1, <2>4, <2>6, <2>7
<1>7. es \in Seq(Entry) /\ Len(es) = n /\ DOMAIN es = 1..n
  <2>1. es \in [1..n -> Entry]
    BY <1>5, <1>6
  <2> HIDE DEF n
  <2> QED
    BY <1>1, <2>1, SeqDef
<1>8. ASSUME NEW i \in 1..n, NEW j \in 1..n, i < j
      PROVE  /\ es[i].server < es[j].server
             /\ Elements(es[i].endpoints) \cap Elements(es[j].endpoints) = {}
  <2>1. es[i].server < es[j].server
    BY <1>3, <1>6, <1>8
  <2>2. PICK k \in 1..n : ids[k].server = es[i].server /\ ids[k].endpoints = es[i].endpoints
    BY <1>6
  <2>3. PICK l \in 1..n : ids[l].server = es[j].server /\ ids[l].endpoints = es[j].endpoints
    BY <1>6
  <2>4. es[i].server \in Nat /\ es[j].server \in Nat
    BY <1>2, <1>3, <1>6
  <2>5. k # l
    BY <2>1, <2>2, <2>3, <2>4
  <2>6. Elements(ids[k].endpoints) \cap Elements(ids[l].endpoints) = {}
    BY <1>1, <2>5 DEF Loadable
  <2> QED
    BY <2>1, <2>2, <2>3, <2>6
<1> QED
  BY <1>1, <1>6, <1>7, <1>8 DEF EntriesSound, es

UnbindItem == [kind : {"unbind"}, server : Server, endpoint : Endpoint]
RevokeItem == [kind : {"revoke"}, server : Server, endpoint : {None}]
Plan == [entries : Seq(Entry), version : Nat \ {0}, prev : Nat,
         unbinds : Seq(UnbindItem), revocations : Seq(RevokeItem)]

\* The fields of an entry, and of a sequence of entries.
LEMMA EntryType ==
    ASSUME NEW entries \in Seq(Entry)
    PROVE  /\ Len(entries) \in Nat /\ DOMAIN entries = 1..Len(entries)
           /\ \A i \in 1..Len(entries) : /\ entries[i].server \in Server
                                         /\ entries[i].version \in Nat \ {0}
                                         /\ entries[i].endpoints \in Seq(Endpoint)
<1>1. \A x \in Entry : /\ x.server \in Server /\ x.version \in Nat \ {0}
                       /\ x.endpoints \in Seq(Endpoint)
  BY DEF Entry
<1>2. /\ Len(entries) \in Nat /\ DOMAIN entries = 1..Len(entries)
      /\ \A i \in 1..Len(entries) : entries[i] \in Entry
  OBVIOUS
<1> QED
  BY <1>1, <1>2

\* The servers and endpoints of entries are finite sets of known ones.
LEMMA EntriesFinite ==
    ASSUME NEW entries \in Seq(Entry)
    PROVE  /\ ServersOf(entries) \in SUBSET Server
           /\ \A s : EndpointsOf(entries, s) \in SUBSET Endpoint
<1>1. ServersOf(entries) \in SUBSET Server
  BY EntryType DEF ServersOf
<1>2. ASSUME NEW s PROVE EndpointsOf(entries, s) \in SUBSET Endpoint
  <2>1. CASE s \in ServersOf(entries)
    <3>1. PICK i \in DOMAIN entries : EntryOf(entries, s) = entries[i]
      BY <2>1, EntryFound
    <3>2. EndpointsOf(entries, s) = Elements(entries[i].endpoints)
      BY <2>1, <3>1 DEF EndpointsOf
    <3>3. entries[i].endpoints \in Seq(Endpoint)
      BY EntryType
    <3> QED
      BY <3>2, <3>3 DEF Elements
  <2>2. CASE s \notin ServersOf(entries)
    BY <2>2 DEF EndpointsOf
  <2> QED
    BY <2>1, <2>2
<1> QED
  BY <1>1, <1>2

\* Sorted lists a set of servers.
LEMMA ServersSorted ==
    ASSUME NEW S \in SUBSET Server
    PROVE  \E n \in Nat : Sorted(S) \in [1..n -> Server]
<1>1. S \in SUBSET Nat /\ IsFiniteSet(S)
  BY Parameters, FS_Subset
<1>2. Cardinality(S) \in Nat /\ Sorted(S) \in [1..Cardinality(S) -> S]
  BY <1>1, SortedType
<1> QED
  BY <1>2

\* A plan unbinds endpoints from the servers of the plan before it.
LEMMA UnbindsType ==
    ASSUME NEW old \in Seq(Entry), NEW new \in Seq(Entry)
    PROVE  Unbinds(old, new) \in Seq(UnbindItem)
<1> DEFINE before == Sorted(ServersOf(old))
           Lost(i) == Listed(EndpointsOf(old, before[i]) \ EndpointsOf(new, before[i]))
           Part(i) == [j \in DOMAIN Lost(i) |->
                         [kind |-> "unbind", server |-> before[i], endpoint |-> Lost(i)[j]]]
           parts == [i \in DOMAIN before |-> Part(i)]
<1>1. PICK n \in Nat : before \in [1..n -> Server]
  BY EntriesFinite, ServersSorted
<1>2. ASSUME NEW i \in 1..n PROVE Part(i) \in Seq(UnbindItem)
  <2> DEFINE S == EndpointsOf(old, before[i]) \ EndpointsOf(new, before[i])
  <2>1. S \in SUBSET Endpoint
    BY EntriesFinite
  <2>2. IsFiniteSet(S)
    BY <2>1, Parameters, FS_Subset
  <2>3. Cardinality(S) \in Nat /\ Listed(S) \in [1..Cardinality(S) -> S]
    BY <2>2, ListedType
  <2> DEFINE m == Cardinality(S)
  <2>4. m \in Nat /\ Lost(i) \in [1..m -> Endpoint]
    BY <2>1, <2>3
  <2>5. before[i] \in Server
    BY <1>1
  <2> HIDE DEF S, m, Lost, before
  <2>6. Part(i) \in [1..m -> UnbindItem]
    BY <2>4, <2>5 DEF UnbindItem
  <2> HIDE DEF Part
  <2> QED
    BY <2>4, <2>6, SeqDef
<1>3. Unbinds(old, new) = Flatten(parts)
  BY DEF Unbinds
<1>4. parts \in [1..n -> Seq(UnbindItem)]
  <2> HIDE DEF before, Part
  <2> QED
    BY <1>1, <1>2
<1> HIDE DEF parts
<1>5. parts \in Seq(Seq(UnbindItem))
  BY <1>4, SeqDef
<1> QED
  BY <1>3, <1>5, FlattenType

\* A plan revokes servers of the plan before it.
LEMMA RevocationsType ==
    ASSUME NEW old \in Seq(Entry), NEW new \in Seq(Entry)
    PROVE  Revocations(old, new) \in Seq(RevokeItem)
<1> DEFINE gone == Sorted(ServersOf(old) \ ServersOf(new))
           items == [i \in DOMAIN gone |->
                       [kind |-> "revoke", server |-> gone[i], endpoint |-> None]]
<1>1. PICK n \in Nat : gone \in [1..n -> Server]
  BY EntriesFinite, ServersSorted
<1>2. Revocations(old, new) = items
  BY DEF Revocations
<1> HIDE DEF gone
<1>3. items \in [1..n -> RevokeItem]
  BY <1>1 DEF RevokeItem
<1> HIDE DEF items
<1> QED
  BY <1>2, <1>3, SeqDef

-----------------------------------------------------------------------------
(* The inductive invariant                                                 *)

Status == {"UNKNOWN", "ACTIVE", "REVOKED"}
RootRecord == [status : Status, version : Nat]
Anchor == [status : Status, version : Nat, endpoints : Seq(Endpoint), root : Nat]

\* The transactions that are ever sent.
RootTx == [kind : {"root"}, root : 1..MaxPlans, version : Nat \ {0}]
AnchorTx == [kind : {"publish", "update"}, server : Server, root : 1..MaxPlans,
             version : Nat \ {0}, endpoints : Seq(Endpoint)]
RevokeRootTx == [kind : {"revoke-root"}, root : 1..MaxPlans]
BindTx == [kind : {"bind", "unbind"}, server : Server, endpoint : Endpoint]
KnownTx == RootTx \cup AnchorTx \cup RevokeItem \cup RevokeRootTx \cup BindTx

\* The items a phase of plan k goes through.
RootItem == [kind : {"root", "root-active"}, server : {None}, endpoint : {None}]
ServerItem(k) == [kind : {"resolver", "anchored"},
                  server : ServersOf(plans[k].entries), endpoint : {None}]
BindItem == [kind : {"bind"}, server : Server, endpoint : Endpoint]
WorkItem(k) == RootItem \cup ServerItem(k) \cup BindItem \cup UnbindItem \cup RevokeItem

\* A plan stays what it was when it was approved, and its entries are sound.
PlansInv ==
    /\ plans \in Seq(Plan) /\ Len(plans) <= MaxPlans
    /\ \A k \in 1..Len(plans) :
          /\ EntriesSound(plans[k].entries)
          /\ \E d \in Draft : Len(plans[k].entries) = Len(d)

\* A revoked resolver has a version: it cannot be published as a new one.
RegInv ==
    /\ reg \in [root : [1..MaxPlans -> RootRecord], anchor : [Server -> Anchor],
                bound : [Endpoint -> Server \cup {None}]]
    /\ \A s \in Server : reg.anchor[s].status = "REVOKED" => reg.anchor[s].version # 0

PoolInv == pool \in [Role -> Seq(KnownTx)]

\* A command that runs works on an approved plan; what it is about to send is
\* one of the known transactions.
CmdInv ==
    /\ cmd \in [pc : {"idle", "failed", "conflict", "read", "send", "wait", "record"},
                plan : Nat, phase : Phase \cup {"none"}, at : Nat,
                tx : KnownTx \cup {Skip}, ahead : Nat]
    /\ ~Ready => cmd.plan \in 1..Len(plans) /\ cmd.phase \in Phase /\ cmd.at > 0
    /\ cmd.pc = "send" => cmd.tx \in KnownTx

PublicationInv == PlansInv /\ RegInv /\ PoolInv /\ CmdInv

-----------------------------------------------------------------------------
(* Phases                                                                  *)

\* The Merkle root of a plan is that of the first plan with these entries.
LEMMA RootOfType ==
    ASSUME NEW k \in Nat \ {0}
    PROVE  RootOf(k) \in 1..k
<1> DEFINE Same(j) == plans[j].entries = plans[k].entries
           First(j) == Same(j) /\ \A i \in 1..(j - 1) : ~Same(i)
           S == {j \in 1..k : Same(j)}
<1>1. S \in SUBSET Nat /\ S # {}
  OBVIOUS
<1>2. PICK j \in S : \A i \in S : j <= i
  BY <1>1, LeastNumber
<1>3. j \in 1..k /\ First(j)
  <2>1. j \in 1..k /\ Same(j)
    OBVIOUS
  <2>2. ASSUME NEW i \in 1..(j - 1) PROVE ~Same(i)
    <3>1. i \in 1..k /\ ~(j <= i)
      BY <2>1
    <3> QED
      BY <1>2, <3>1
  <2> HIDE DEF Same
  <2> QED
    BY <2>1, <2>2
<1>4. RootOf(k) = CHOOSE i \in 1..k : First(i)
  BY Zenon DEF RootOf
<1> HIDE DEF First
<1> QED
  BY <1>3, <1>4, Zenon

\* The fields of a plan.
LEMMA PlanType ==
    ASSUME PlansInv, NEW k \in 1..Len(plans)
    PROVE  /\ plans[k].entries \in Seq(Entry) /\ plans[k].version \in Nat \ {0}
           /\ plans[k].unbinds \in Seq(UnbindItem)
           /\ plans[k].revocations \in Seq(RevokeItem)
           /\ k \in Nat \ {0} /\ k <= MaxPlans
<1>1. \A p \in Plan : /\ p.entries \in Seq(Entry) /\ p.version \in Nat \ {0}
                      /\ p.unbinds \in Seq(UnbindItem) /\ p.revocations \in Seq(RevokeItem)
  BY DEF Plan
<1>2. plans[k] \in Plan
  BY DEF PlansInv
<1>3. MaxPlans \in Nat /\ Len(plans) \in Nat /\ Len(plans) <= MaxPlans
  BY Parameters DEF PlansInv
<1> QED
  BY <1>1, <1>2, <1>3

\* A phase goes through items of the known kinds, about servers of its plan.
LEMMA WorkType ==
    ASSUME PlansInv, NEW k \in 1..Len(plans), NEW phase \in Phase
    PROVE  Work(k, phase) \in Seq(WorkItem(k))
<1> DEFINE entries == plans[k].entries
           It(kind, s) == [kind |-> kind, server |-> s, endpoint |-> None]
<1>1. /\ entries \in Seq(Entry)
      /\ plans[k].unbinds \in Seq(UnbindItem) /\ plans[k].revocations \in Seq(RevokeItem)
  BY PlanType
<1>2. /\ Len(entries) \in Nat /\ DOMAIN entries = 1..Len(entries)
      /\ \A i \in 1..Len(entries) : /\ entries[i].server \in Server
                                    /\ entries[i].server \in ServersOf(entries)
                                    /\ entries[i].endpoints \in Seq(Endpoint)
  BY <1>1, EntryType DEF ServersOf
<1>3. phase \in {"publish-root", "publish-resolvers", "unbind-endpoints",
                 "bind-endpoints", "revoke-removed"}
  BY DEF Phase, Order
<1>4. It("root", None) \in WorkItem(k) /\ It("root-active", None) \in WorkItem(k)
  BY DEF WorkItem, RootItem
<1>5. \A i \in 1..Len(entries) : /\ It("resolver", entries[i].server) \in WorkItem(k)
                                 /\ It("anchored", entries[i].server) \in WorkItem(k)
  BY <1>2 DEF WorkItem, ServerItem
<1>6. CASE phase = "publish-root"
  <2>1. Work(k, phase) = <<It("root", None)>>
    BY <1>6 DEF Work
  <2> HIDE DEF It
  <2> QED
    BY <1>4, <2>1
<1>7. CASE phase = "publish-resolvers"
  <2> DEFINE rest == [i \in DOMAIN entries |-> It("resolver", entries[i].server)]
  <2>1. Work(k, phase) = <<It("root-active", None)>> \o rest
    BY <1>7 DEF Work
  <2> HIDE DEF It
  <2>2. rest \in [1..Len(entries) -> WorkItem(k)]
    BY <1>2, <1>5
  <2> HIDE DEF rest
  <2>3. rest \in Seq(WorkItem(k))
    BY <1>2, <2>2, SeqDef
  <2>4. <<It("root-active", None)>> \in Seq(WorkItem(k))
    BY <1>4
  <2> QED
    BY <2>1, <2>3, <2>4, ConcatProperties
<1>8. CASE phase = "unbind-endpoints"
  <2>1. Work(k, phase) = plans[k].unbinds
    BY <1>8 DEF Work
  <2>2. UnbindItem \subseteq WorkItem(k)
    BY DEF WorkItem
  <2> QED
    BY <1>1, <2>1, <2>2, SeqMonotonic
<1>9. CASE phase = "bind-endpoints"
  <2> DEFINE Bind(i, j) == [kind |-> "bind", server |-> entries[i].server,
                            endpoint |-> entries[i].endpoints[j]]
             Rest(i) == [j \in DOMAIN entries[i].endpoints |-> Bind(i, j)]
             parts == [i \in DOMAIN entries |->
                         <<It("anchored", entries[i].server)>> \o Rest(i)]
  <2>1. Work(k, phase) = Flatten(parts)
    BY <1>9 DEF Work
  <2>2. ASSUME NEW i \in 1..Len(entries)
        PROVE  <<It("anchored", entries[i].server)>> \o Rest(i) \in Seq(WorkItem(k))
    <3>1. PICK n \in Nat : entries[i].endpoints \in [1..n -> Endpoint]
      BY <1>2, SeqDef
    <3>2. \A j \in 1..n : Bind(i, j) \in BindItem
      BY <1>2, <3>1 DEF BindItem
    <3>3. \A j \in 1..n : Bind(i, j) \in WorkItem(k)
      BY <3>2 DEF WorkItem
    <3> HIDE DEF Bind, It
    <3>4. Rest(i) \in [1..n -> WorkItem(k)]
      BY <3>1, <3>3
    <3> HIDE DEF Rest
    <3>5. Rest(i) \in Seq(WorkItem(k))
      BY <3>4, SeqDef
    <3>6. <<It("anchored", entries[i].server)>> \in Seq(WorkItem(k))
      BY <1>5
    <3> QED
      BY <3>5, <3>6, ConcatProperties
  <2>3. parts \in [1..Len(entries) -> Seq(WorkItem(k))]
    <3> HIDE DEF It, Rest
    <3> QED
      BY <1>2, <2>2
  <2> HIDE DEF parts
  <2>4. parts \in Seq(Seq(WorkItem(k)))
    <3> DEFINE W == Seq(WorkItem(k))
               n == Len(entries)
    <3>1. n \in Nat /\ parts \in [1..n -> W]
      BY <1>2, <2>3
    <3> HIDE DEF W, n
    <3>2. parts \in Seq(W)
      BY <3>1, SeqDef
    <3> QED
      BY <3>2 DEF W
  <2> QED
    BY <2>1, <2>4, FlattenType
<1>10. CASE phase = "revoke-removed"
  <2>1. Work(k, phase) = plans[k].revocations
    BY <1>10 DEF Work
  <2>2. RevokeItem \subseteq WorkItem(k)
    BY DEF WorkItem
  <2> QED
    BY <1>1, <2>1, <2>2, SeqMonotonic
<1> QED
  BY <1>3, <1>6, <1>7, <1>8, <1>9, <1>10

\* What a phase decides for an item: nothing, a conflict, or a known transaction.
LEMMA DecideType ==
    ASSUME PlansInv, NEW k \in 1..Len(plans), NEW item \in WorkItem(k)
    PROVE  Decide(k, item) \in KnownTx \cup {Skip, Conflict}
<1> DEFINE Result == KnownTx \cup {Skip, Conflict}
<1>1. RootOf(k) \in 1..MaxPlans /\ plans[k].version \in Nat \ {0}
      /\ plans[k].entries \in Seq(Entry)
  <2>1. k \in Nat \ {0} /\ k <= MaxPlans /\ MaxPlans \in Nat
    BY PlanType, Parameters
  <2>2. RootOf(k) \in 1..k
    BY <2>1, RootOfType
  <2> QED
    BY <2>1, <2>2, PlanType
<1>2. CASE item \in RootItem
  <2>1. item.kind \in {"root", "root-active"}
    BY <1>2 DEF RootItem
  <2>2. Tx(k, "root", item) \in KnownTx
    <3>1. Tx(k, "root", item) = [kind |-> "root", root |-> RootOf(k), version |-> plans[k].version]
      BY DEF Tx
    <3> QED
      BY <1>1, <3>1 DEF KnownTx, RootTx
  <2>3. DecideRoot(k, item) \in Result
    BY <2>2 DEF DecideRoot
  <2>4. CASE item.kind = "root"
    BY <2>3, <2>4 DEF Decide
  <2>5. CASE item.kind = "root-active"
    BY <2>5 DEF Decide
  <2> QED
    BY <2>1, <2>4, <2>5
<1>3. CASE item \in ServerItem(k)
  <2>1. item.kind \in {"resolver", "anchored"} /\ item.server \in ServersOf(plans[k].entries)
    BY <1>3 DEF ServerItem
  <2> DEFINE entries == plans[k].entries
             e == EntryOf(entries, item.server)
  <2>2. PICK i \in DOMAIN entries : entries[i].server = item.server /\ e = entries[i]
    BY <2>1, EntryFound
  <2>3. item.server \in Server /\ e.version \in Nat \ {0} /\ e.endpoints \in Seq(Endpoint)
    BY <1>1, <2>2, EntryType
  <2>4. ASSUME NEW kind \in {"publish", "update"} PROVE Tx(k, kind, item) \in KnownTx
    <3>1. Tx(k, kind, item) = [kind |-> kind, server |-> item.server, root |-> RootOf(k),
                               version |-> e.version, endpoints |-> e.endpoints]
      BY DEF Tx
    <3> HIDE DEF e
    <3>2. Tx(k, kind, item) \in AnchorTx
      BY <1>1, <2>3, <3>1 DEF AnchorTx
    <3> QED
      BY <3>2 DEF KnownTx
  <2>5. DecideResolver(k, item) \in Result
    BY <2>4 DEF DecideResolver
  <2>6. DecideAnchored(k, item) \in Result
    BY DEF DecideAnchored
  <2>7. CASE item.kind = "resolver"
    BY <2>5, <2>7 DEF Decide
  <2>8. CASE item.kind = "anchored"
    BY <2>6, <2>8 DEF Decide
  <2> QED
    BY <2>1, <2>7, <2>8
<1>4. CASE item \in BindItem \cup UnbindItem
  <2>1. item.kind \in {"bind", "unbind"} /\ item.server \in Server /\ item.endpoint \in Endpoint
    BY <1>4 DEF BindItem, UnbindItem
  <2>2. ASSUME NEW kind \in {"bind", "unbind"} PROVE Tx(k, kind, item) \in KnownTx
    <3>1. Tx(k, kind, item) = [kind |-> kind, server |-> item.server, endpoint |-> item.endpoint]
      BY DEF Tx
    <3>2. Tx(k, kind, item) \in BindTx
      BY <2>1, <3>1 DEF BindTx
    <3> QED
      BY <3>2 DEF KnownTx
  <2>3. DecideBind(k, item) \in Result
    BY <2>2 DEF DecideBind
  <2>4. DecideUnbind(k, item) \in Result
    BY <2>2 DEF DecideUnbind
  <2>5. CASE item.kind = "bind"
    BY <2>3, <2>5 DEF Decide
  <2>6. CASE item.kind = "unbind"
    BY <2>4, <2>6 DEF Decide
  <2> QED
    BY <2>1, <2>5, <2>6
<1>5. CASE item \in RevokeItem
  <2>1. item.kind = "revoke" /\ item.server \in Server /\ item.endpoint = None
    BY <1>5 DEF RevokeItem
  <2>2. Tx(k, "revoke", item) = [kind |-> "revoke", server |-> item.server, endpoint |-> None]
    BY <2>1 DEF Tx
  <2>3. Tx(k, "revoke", item) \in KnownTx
    BY <2>1, <2>2 DEF KnownTx, RevokeItem
  <2>4. DecideRevoke(k, item) \in Result
    BY <2>3 DEF DecideRevoke
  <2> QED
    BY <2>1, <2>4 DEF Decide
<1> QED
  BY <1>2, <1>3, <1>4, <1>5 DEF WorkItem

-----------------------------------------------------------------------------
(* The contract                                                            *)

\* What a known transaction is.
LEMMA KnownKinds ==
    ASSUME NEW tx \in KnownTx
    PROVE  \/ tx.kind = "root" /\ tx.root \in 1..MaxPlans /\ tx.version \in Nat \ {0}
           \/ /\ tx.kind \in {"publish", "update"} /\ tx.server \in Server
              /\ tx.root \in 1..MaxPlans /\ tx.version \in Nat \ {0}
              /\ tx.endpoints \in Seq(Endpoint)
           \/ tx.kind = "revoke" /\ tx.server \in Server
           \/ tx.kind = "revoke-root" /\ tx.root \in 1..MaxPlans
           \/ /\ tx.kind \in {"bind", "unbind"} /\ tx.server \in Server
              /\ tx.endpoint \in Endpoint
<1>1. CASE tx \in RootTx
  BY <1>1 DEF RootTx
<1>2. CASE tx \in AnchorTx
  BY <1>2 DEF AnchorTx
<1>3. CASE tx \in RevokeItem
  BY <1>3 DEF RevokeItem
<1>4. CASE tx \in RevokeRootTx
  BY <1>4 DEF RevokeRootTx
<1>5. CASE tx \in BindTx
  BY <1>5 DEF BindTx
<1> QED
  BY <1>1, <1>2, <1>3, <1>4, <1>5 DEF KnownTx

\* A transaction that the contract accepts leaves it with records and bindings
\* of the same kind, revoked resolvers still have a version, and what was
\* revoked stays revoked.
LEMMA AppliedKeeps ==
    ASSUME RegInv, NEW tx \in KnownTx, Accepts(tx),
           NEW after, after = Applied(tx)
    PROVE  /\ after \in [root : [1..MaxPlans -> RootRecord], anchor : [Server -> Anchor],
                         bound : [Endpoint -> Server \cup {None}]]
           /\ \A s \in Server : after.anchor[s].status = "REVOKED" => after.anchor[s].version # 0
           /\ \A s \in Server : reg.anchor[s].status = "REVOKED"
                                  => after.anchor[s].status = "REVOKED"
           /\ \A r \in 1..MaxPlans : reg.root[r].status = "REVOKED"
                                       => after.root[r].status = "REVOKED"
<1> DEFINE Reg == [root : [1..MaxPlans -> RootRecord], anchor : [Server -> Anchor],
                   bound : [Endpoint -> Server \cup {None}]]
           Kept == /\ after \in Reg
                   /\ \A s \in Server :
                         after.anchor[s].status = "REVOKED" => after.anchor[s].version # 0
                   /\ \A s \in Server : reg.anchor[s].status = "REVOKED"
                                          => after.anchor[s].status = "REVOKED"
                   /\ \A r \in 1..MaxPlans : reg.root[r].status = "REVOKED"
                                               => after.root[r].status = "REVOKED"
<1>1. /\ reg \in Reg
      /\ \A s \in Server : reg.anchor[s].status = "REVOKED" => reg.anchor[s].version # 0
  BY DEF RegInv
<1>2. CASE tx.kind = "root" /\ tx.root \in 1..MaxPlans /\ tx.version \in Nat \ {0}
  <2> DEFINE record == [status |-> "ACTIVE", version |-> tx.version]
  <2>1. after = [reg EXCEPT !.root[tx.root] = record] /\ reg.root[tx.root].status # "REVOKED"
    BY <1>2 DEF Applied, Accepts
  <2>2. record \in RootRecord
    BY <1>2 DEF RootRecord, Status
  <2> HIDE DEF record
  <2>3. after.root = [reg.root EXCEPT ![tx.root] = record] /\ after.anchor = reg.anchor
    BY <1>1, <2>1
  <2>4. after \in Reg
    <3> DEFINE Roots == 1..MaxPlans
    <3>1. reg \in [root : [Roots -> RootRecord], anchor : [Server -> Anchor],
                   bound : [Endpoint -> Server \cup {None}]] /\ tx.root \in Roots
      BY <1>1, <1>2
    <3> HIDE DEF Roots
    <3>2. after \in [root : [Roots -> RootRecord], anchor : [Server -> Anchor],
                     bound : [Endpoint -> Server \cup {None}]]
      BY <2>1, <2>2, <3>1
    <3> QED
      BY <3>2 DEF Roots
  <2>5. \A r \in 1..MaxPlans : reg.root[r].status = "REVOKED" => after.root[r] = reg.root[r]
    BY <1>1, <1>2, <2>1, <2>3
  <2> QED
    BY <1>1, <2>3, <2>4, <2>5
<1>3. CASE /\ tx.kind \in {"publish", "update"} /\ tx.server \in Server
           /\ tx.root \in 1..MaxPlans /\ tx.version \in Nat \ {0}
           /\ tx.endpoints \in Seq(Endpoint)
  <2> DEFINE record == [status |-> "ACTIVE", version |-> tx.version,
                        endpoints |-> tx.endpoints, root |-> tx.root]
  <2>1. after = [reg EXCEPT !.anchor[tx.server] = record]
    BY <1>3 DEF Applied
  <2>2. reg.anchor[tx.server].status # "REVOKED"
    <3>1. CASE tx.kind = "publish"
      BY <1>1, <1>3, <3>1 DEF Accepts
    <3>2. CASE tx.kind = "update"
      BY <3>2 DEF Accepts, AcceptsUpdate
    <3> QED
      BY <1>3, <3>1, <3>2
  <2>3. record \in Anchor /\ record.status # "REVOKED"
    BY <1>3 DEF Anchor, Status
  <2> HIDE DEF record
  <2> QED
    BY <1>1, <1>3, <2>1, <2>2, <2>3
<1>4. CASE tx.kind = "revoke" /\ tx.server \in Server
  <2>1. after = [reg EXCEPT !.anchor[tx.server].status = "REVOKED"]
        /\ reg.anchor[tx.server].version # 0
    BY <1>4 DEF Applied, Accepts
  <2> DEFINE record == [reg.anchor[tx.server] EXCEPT !.status = "REVOKED"]
  <2>2. reg.anchor \in [Server -> Anchor] /\ reg.anchor[tx.server] \in Anchor
    BY <1>1, <1>4
  <2>3. record \in Anchor /\ record.status = "REVOKED" /\ record.version # 0
    BY <2>1, <2>2 DEF Anchor, Status
  <2>4. after = [reg EXCEPT !.anchor[tx.server] = record]
    BY <2>1
  <2> HIDE DEF record
  <2>5. after.anchor = [reg.anchor EXCEPT ![tx.server] = record] /\ after.root = reg.root
    BY <1>1, <2>4
  <2>6. after \in Reg
    BY <1>1, <1>4, <2>3, <2>4
  <2>7. \A s \in Server : after.anchor[s] = IF s = tx.server THEN record ELSE reg.anchor[s]
    BY <2>2, <2>5
  <2> QED
    BY <1>1, <2>3, <2>5, <2>6, <2>7
<1>5. CASE tx.kind = "revoke-root" /\ tx.root \in 1..MaxPlans
  <2>1. after = [reg EXCEPT !.root[tx.root].status = "REVOKED"]
    BY <1>5 DEF Applied
  <2> DEFINE record == [reg.root[tx.root] EXCEPT !.status = "REVOKED"]
  <2>2. reg.root \in [1..MaxPlans -> RootRecord] /\ reg.root[tx.root] \in RootRecord
    BY <1>1, <1>5
  <2>3. record \in RootRecord /\ record.status = "REVOKED"
    BY <2>2 DEF RootRecord, Status
  <2>4. after = [reg EXCEPT !.root[tx.root] = record]
    BY <2>1
  <2> HIDE DEF record
  <2>5. after.root = [reg.root EXCEPT ![tx.root] = record] /\ after.anchor = reg.anchor
    BY <1>1, <2>4
  <2>6. after \in Reg
    BY <1>1, <1>5, <2>3, <2>4
  <2>7. \A r \in 1..MaxPlans : after.root[r] = IF r = tx.root THEN record ELSE reg.root[r]
    BY <2>2, <2>5
  <2> QED
    BY <1>1, <2>3, <2>5, <2>6, <2>7
<1>6. CASE /\ tx.kind \in {"bind", "unbind"} /\ tx.server \in Server
           /\ tx.endpoint \in Endpoint
  <2>1. \/ after = [reg EXCEPT !.bound[tx.endpoint] = tx.server]
        \/ after = [reg EXCEPT !.bound[tx.endpoint] = None]
    BY <1>6 DEF Applied
  <2> QED
    BY <1>1, <1>6, <2>1
<1> QED
  BY <1>2, <1>3, <1>4, <1>5, <1>6, KnownKinds

-----------------------------------------------------------------------------
(* Every step keeps the invariant                                          *)

\* A stopped command.
LEMMA StoppedKeeps ==
    ASSUME CmdInv, NEW why \in {"failed", "conflict"}, cmd' = Stopped(why)
    PROVE  CmdInv'
<1>1. cmd' = [pc |-> why, plan |-> 0, phase |-> cmd.phase, at |-> 0, tx |-> Skip, ahead |-> 0]
  BY DEF Stopped, NoCommand
<1>2. cmd.phase \in Phase \cup {"none"}
  BY DEF CmdInv
<1>3. Ready'
  BY <1>1 DEF Ready
<1> QED
  BY <1>1, <1>2, <1>3 DEF CmdInv

\* A new plan is sound: its entries come from a file that load_identities
\* accepted, its removals from an approved plan.
LEMMA PrepareKeeps ==
    ASSUME PublicationInv, NEW draft \in Draft, NEW version \in 1..MaxPlans,
           NEW prev \in 0..Newest, Prepare(draft, version, prev)
    PROVE  PublicationInv'
<1> DEFINE old == IF prev = 0 THEN <<>> ELSE plans[prev].entries
           new == Entries(draft)
           p == BuildPlan(draft, version, prev)
<1>1. PlansInv /\ RegInv /\ PoolInv /\ CmdInv
  BY DEF PublicationInv
<1>2. /\ Loadable(draft) /\ Len(plans) < MaxPlans /\ Ready /\ plans' = Append(plans, p)
      /\ UNCHANGED <<reg, pool, cmd>>
  BY DEF Prepare, Newest
<1>3. plans \in Seq(Plan) /\ Len(plans) \in Nat /\ MaxPlans \in Nat
  BY <1>1, Parameters DEF PlansInv
<1>4. EntriesSound(new) /\ Len(new) = Len(draft) /\ new \in Seq(Entry)
  BY <1>2, EntriesOfLoadable DEF EntriesSound
<1>5. old \in Seq(Entry)
  <2>1. CASE prev = 0
    BY <2>1
  <2>2. CASE prev # 0
    <3>1. prev \in 1..Len(plans)
      BY <1>3, <2>2 DEF Newest
    <3> QED
      BY <1>1, <2>2, <3>1, PlanType
  <2> QED
    BY <2>1, <2>2
<1>6. p = [entries |-> new, version |-> version, prev |-> prev,
           unbinds |-> Unbinds(old, new), revocations |-> Revocations(old, new)]
  BY DEF BuildPlan
<1>7. Unbinds(old, new) \in Seq(UnbindItem) /\ Revocations(old, new) \in Seq(RevokeItem)
  <2> HIDE DEF old, new
  <2> QED
    BY <1>4, <1>5, UnbindsType, RevocationsType
<1>8. version \in Nat \ {0} /\ prev \in Nat
  BY <1>3 DEF Newest
<1> HIDE DEF old, new, p
<1>9. p \in Plan /\ p.entries = new
  BY <1>4, <1>6, <1>7, <1>8 DEF Plan
<1>10. /\ plans' \in Seq(Plan) /\ Len(plans') = Len(plans) + 1
       /\ plans'[Len(plans) + 1] = p
       /\ \A k \in 1..Len(plans) : plans'[k] = plans[k]
  BY <1>2, <1>3, <1>9, AppendProperties
<1>11. PlansInv'
  <2>1. ASSUME NEW k \in 1..Len(plans')
        PROVE  /\ EntriesSound(plans'[k].entries)
               /\ \E d \in Draft : Len(plans'[k].entries) = Len(d)
    <3>1. CASE k = Len(plans) + 1
      BY <1>4, <1>9, <1>10, <3>1
    <3>2. CASE k # Len(plans) + 1
      <4>1. k \in 1..Len(plans) /\ plans'[k] = plans[k]
        BY <1>3, <1>10, <3>2
      <4> QED
        BY <1>1, <4>1 DEF PlansInv
    <3> QED
      BY <3>1, <3>2
  <2>2. plans' \in Seq(Plan) /\ Len(plans') <= MaxPlans
    BY <1>2, <1>3, <1>10
  <2> QED
    BY <2>1, <2>2 DEF PlansInv
<1>12. RegInv' /\ PoolInv'
  BY <1>1, <1>2 DEF RegInv, PoolInv
<1>13. CmdInv'
  BY <1>1, <1>2 DEF CmdInv, Ready
<1> QED
  BY <1>11, <1>12, <1>13 DEF PublicationInv

\* A phase starts on the newest plan.
LEMMA StartKeeps ==
    ASSUME PublicationInv, NEW phase \in Phase, Start(phase)
    PROVE  PublicationInv'
<1>1. PlansInv /\ RegInv /\ PoolInv /\ CmdInv
  BY DEF PublicationInv
<1>2. Len(plans) > 0 /\ UNCHANGED <<reg, pool, plans>>
  BY DEF Start, Newest
<1>3. cmd' = [pc |-> "read", plan |-> Len(plans), phase |-> phase, at |-> 1,
              tx |-> Skip, ahead |-> 0]
  BY DEF Start, NoCommand, Newest
<1>4. Len(plans) \in Nat
  BY <1>1 DEF PlansInv
<1>5. CmdInv'
  BY <1>2, <1>3, <1>4 DEF CmdInv, Ready
<1>6. PlansInv' /\ RegInv' /\ PoolInv'
  BY <1>1, <1>2 DEF PlansInv, RegInv, PoolInv
<1> QED
  BY <1>5, <1>6 DEF PublicationInv

\* What a phase reads decides a known transaction.
LEMMA ReadKeeps ==
    ASSUME PublicationInv, Read
    PROVE  PublicationInv'
<1> DEFINE tx == Decide(cmd.plan, Todo[cmd.at])
<1>1. PlansInv /\ RegInv /\ PoolInv /\ CmdInv
  BY DEF PublicationInv
<1>2. cmd.pc = "read" /\ cmd.at <= Len(Todo) /\ UNCHANGED <<reg, pool, plans>>
  BY DEF Read
<1>3. cmd.plan \in 1..Len(plans) /\ cmd.phase \in Phase /\ cmd.at \in Nat /\ cmd.at > 0
  BY <1>1, <1>2 DEF CmdInv, Ready
<1>4. Todo \in Seq(WorkItem(cmd.plan))
  BY <1>1, <1>3, WorkType DEF Todo
<1>5. Todo[cmd.at] \in WorkItem(cmd.plan)
  BY <1>2, <1>3, <1>4
<1>6. tx \in KnownTx \cup {Skip, Conflict}
  BY <1>1, <1>3, <1>5, DecideType
<1>7. cmd' = CASE tx = Skip -> [cmd EXCEPT !.at = @ + 1]
               [] tx = Conflict -> Stopped("conflict")
               [] OTHER -> [cmd EXCEPT !.pc = "send", !.tx = tx]
  BY DEF Read
<1> HIDE DEF tx
<1>8. CmdInv'
  <2>1. CASE tx = Skip
    <3>1. cmd' = [cmd EXCEPT !.at = @ + 1]
      BY <1>7, <2>1 DEF Skip, Conflict
    <3> QED
      BY <1>1, <1>2, <1>3, <3>1 DEF CmdInv, Ready
  <2>2. CASE tx = Conflict
    <3>1. cmd' = Stopped("conflict")
      BY <1>7, <2>2 DEF Skip, Conflict
    <3> QED
      BY <1>1, <3>1, StoppedKeeps
  <2>3. CASE tx \in KnownTx /\ tx # Skip /\ tx # Conflict
    <3>1. cmd' = [cmd EXCEPT !.pc = "send", !.tx = tx]
      BY <1>7, <2>3
    <3> QED
      BY <1>1, <1>2, <1>3, <2>3, <3>1 DEF CmdInv, Ready
  <2> QED
    BY <1>6, <2>1, <2>2, <2>3
<1>9. PlansInv' /\ RegInv' /\ PoolInv'
  BY <1>1, <1>2 DEF PlansInv, RegInv, PoolInv
<1> QED
  BY <1>8, <1>9 DEF PublicationInv

\* A pool with one more known transaction.
LEMMA PoolGrows ==
    ASSUME PoolInv, NEW role \in Role, NEW tx \in KnownTx,
           pool' = [pool EXCEPT ![role] = Append(@, tx)]
    PROVE  PoolInv'
<1>1. pool \in [Role -> Seq(KnownTx)]
  BY DEF PoolInv
<1>2. Append(pool[role], tx) \in Seq(KnownTx)
  BY <1>1, AppendProperties
<1> QED
  BY <1>1, <1>2 DEF PoolInv

\* A command joins the pool of one of the accounts.
LEMMA AccountType ==
    ASSUME NEW phase
    PROVE  Account(phase) \in Role
BY DEF Account, RoleOf, Role

\* A decided transaction joins its account's pool.
LEMMA SendKeeps ==
    ASSUME PublicationInv, Send
    PROVE  PublicationInv'
<1> DEFINE role == Account(cmd.phase)
<1>1. PlansInv /\ RegInv /\ PoolInv /\ CmdInv
  BY DEF PublicationInv
<1>2. cmd.pc = "send" /\ UNCHANGED <<reg, plans>>
  BY DEF Send
<1>3. cmd.tx \in KnownTx
  BY <1>1, <1>2 DEF CmdInv
<1>4. PlansInv' /\ RegInv'
  BY <1>1, <1>2 DEF PlansInv, RegInv
<1>5. role \in Role
  BY AccountType
<1>6. CASE cmd' = Stopped("failed") /\ UNCHANGED pool
  <2>1. CmdInv'
    BY <1>1, <1>6, StoppedKeeps
  <2> QED
    BY <1>1, <1>4, <1>6, <2>1 DEF PublicationInv, PoolInv
<1>7. CASE /\ pool' = [pool EXCEPT ![role] = Append(@, cmd.tx)]
           /\ cmd' = [cmd EXCEPT !.pc = "wait", !.ahead = Len(pool[role])]
  <2>1. PoolInv'
    BY <1>1, <1>3, <1>5, <1>7, PoolGrows
  <2>2. Len(pool[role]) \in Nat
    BY <1>1, <1>5 DEF PoolInv
  <2> HIDE DEF role
  <2>3. CmdInv'
    BY <1>1, <1>2, <1>7, <2>2 DEF CmdInv, Ready
  <2> QED
    BY <1>4, <2>1, <2>3 DEF PublicationInv
<1> QED
  BY <1>6, <1>7 DEF Send

\* A transaction that was revoked by hand joins the Revoker's pool.
LEMMA RevokeKeeps ==
    ASSUME PublicationInv,
           \/ \E s \in Server : RevokeResolver(s)
           \/ \E k \in 1..MaxPlans : RevokeRoot(k)
    PROVE  PublicationInv'
<1>1. PlansInv /\ RegInv /\ PoolInv /\ CmdInv
  BY DEF PublicationInv
<1>2. UNCHANGED <<reg, plans, cmd>>
  BY DEF RevokeResolver, RevokeRoot
<1>3. "revoker" \in Role
  BY DEF Role
<1>4. PICK tx \in KnownTx : pool' = [pool EXCEPT !["revoker"] = Append(@, tx)]
  <2>1. CASE \E s \in Server : RevokeResolver(s)
    <3>1. PICK s \in Server : RevokeResolver(s)
      BY <2>1
    <3> DEFINE tx == [kind |-> "revoke", server |-> s, endpoint |-> None]
    <3>2. tx \in KnownTx
      BY DEF KnownTx, RevokeItem
    <3>3. pool' = [pool EXCEPT !["revoker"] = Append(@, tx)]
      BY <3>1 DEF RevokeResolver
    <3> HIDE DEF tx
    <3> QED
      BY <3>2, <3>3
  <2>2. CASE \E k \in 1..MaxPlans : RevokeRoot(k)
    <3>1. PICK k \in 1..MaxPlans : RevokeRoot(k)
      BY <2>2
    <3> DEFINE tx == [kind |-> "revoke-root", root |-> k]
    <3>2. tx \in KnownTx
      BY DEF KnownTx, RevokeRootTx
    <3>3. pool' = [pool EXCEPT !["revoker"] = Append(@, tx)]
      BY <3>1 DEF RevokeRoot
    <3> HIDE DEF tx
    <3> QED
      BY <3>2, <3>3
  <2> QED
    BY <2>1, <2>2
<1>5. PoolInv'
  BY <1>1, <1>3, <1>4, PoolGrows
<1> QED
  BY <1>1, <1>2, <1>5 DEF PublicationInv, PlansInv, RegInv, CmdInv, Ready

\* The command waits for a transaction of the account.
Waiting(role) == cmd.pc = "wait" /\ Account(cmd.phase) = role

\* The oldest transaction of an account, and what mining it does.
LEMMA MineSteps ==
    ASSUME PublicationInv, NEW role \in Role, Mine(role)
    PROVE  \E tx \in KnownTx :
              /\ tx = pool[role][1]
              /\ pool[role] \in Seq(KnownTx) /\ pool[role] # <<>>
              /\ pool' = [pool EXCEPT ![role] = Without(@, 1)]
              /\ reg' = IF Accepts(tx) THEN Applied(tx) ELSE reg
              /\ \/ /\ Waiting(role) /\ cmd.ahead = 0 /\ Accepts(tx)
                    /\ cmd' = [cmd EXCEPT !.pc = "record", !.ahead = 0]
                 \/ Waiting(role) /\ ~Accepts(tx) /\ cmd' = Stopped("failed")
                 \/ Waiting(role) /\ cmd.ahead > 0 /\ cmd' = [cmd EXCEPT !.ahead = @ - 1]
                 \/ ~Waiting(role) /\ cmd' = cmd
<1> DEFINE tx == pool[role][1]
           mine == Waiting(role)
<1>1. pool \in [Role -> Seq(KnownTx)] /\ cmd.ahead \in Nat
  BY DEF PublicationInv, PoolInv, CmdInv
<1>2. pool[role] # <<>>
  BY DEF Mine, Minable
<1>3. /\ pool' = [pool EXCEPT ![role] = Without(@, 1)]
      /\ reg' = IF Accepts(tx) THEN Applied(tx) ELSE reg
      /\ cmd' = CASE mine /\ cmd.ahead = 1 - 1 ->
                        IF Accepts(tx) THEN [cmd EXCEPT !.pc = "record", !.ahead = 0]
                        ELSE Stopped("failed")
                  [] mine /\ cmd.ahead > 1 - 1 -> [cmd EXCEPT !.ahead = @ - 1]
                  [] OTHER -> cmd
  BY <1>2, Zenon DEF Mine, Minable, Waiting
<1>4. tx \in KnownTx
  BY <1>1, <1>2
<1> HIDE DEF tx
<1>5. \/ /\ Waiting(role) /\ cmd.ahead = 0 /\ Accepts(tx)
         /\ cmd' = [cmd EXCEPT !.pc = "record", !.ahead = 0]
      \/ Waiting(role) /\ ~Accepts(tx) /\ cmd' = Stopped("failed")
      \/ Waiting(role) /\ cmd.ahead > 0 /\ cmd' = [cmd EXCEPT !.ahead = @ - 1]
      \/ ~Waiting(role) /\ cmd' = cmd
  <2>1. CASE mine /\ cmd.ahead = 0
    BY <1>3, <2>1
  <2>2. CASE mine /\ cmd.ahead > 0
    BY <1>1, <1>3, <2>2
  <2>3. CASE ~mine
    BY <1>3, <2>3
  <2> QED
    BY <1>1, <2>1, <2>2, <2>3
<1>6. pool[role] \in Seq(KnownTx)
  BY <1>1
<1>7. tx = pool[role][1]
  BY DEF tx
<1> HIDE DEF mine
<1> QED
  BY <1>2, <1>3, <1>4, <1>5, <1>6, <1>7

\* A pool without its oldest transaction.
LEMMA WithoutOldest ==
    ASSUME NEW X, NEW s \in Seq(X), s # <<>>
    PROVE  /\ Without(s, 1) \in Seq(X) /\ Len(Without(s, 1)) = Len(s) - 1
           /\ \A i \in 1..(Len(s) - 1) : Without(s, 1)[i] = s[i + 1]
<1> DEFINE none == SubSeq(s, 1, 0)
           rest == SubSeq(s, 2, Len(s))
<1>0. Len(s) \in Nat \ {0}
  OBVIOUS
<1>1. none \in Seq(X) /\ Len(none) = 0
  BY <1>0, SubSeqProperties
<1>2. rest \in Seq(X) /\ Len(rest) = Len(s) - 1 /\ \A i \in 1..(Len(s) - 1) : rest[i] = s[i + 1]
  <2>1. \A i \in 2..Len(s) : s[i] \in X
    OBVIOUS
  <2> HIDE DEF rest
  <2>2. /\ rest \in Seq(X) /\ Len(rest) = IF 2 <= Len(s) THEN Len(s) - 2 + 1 ELSE 0
        /\ \A i \in 1..(Len(s) - 2 + 1) : rest[i] = s[2 + i - 1]
    BY <1>0, <2>1, SubSeqProperties DEF rest
  <2>3. Len(s) - 2 + 1 = Len(s) - 1 /\ \A i \in 1..(Len(s) - 1) : 2 + i - 1 = i + 1
    <3> DEFINE n == Len(s)
    <3>1. n \in Nat
      BY <1>0
    <3> HIDE DEF n
    <3>2. n - 2 + 1 = n - 1 /\ \A i \in 1..(n - 1) : 2 + i - 1 = i + 1
      BY <3>1
    <3> QED
      BY <3>2 DEF n
  <2>4. Len(rest) = Len(s) - 1
    <3> DEFINE n == Len(s)
    <3>1. n \in Nat \ {0}
      BY <1>0
    <3> HIDE DEF n
    <3>2. CASE 2 <= n
      <4>1. Len(rest) = n - 2 + 1
        BY <2>2, <3>2, Zenon DEF n
      <4> QED
        BY <3>1, <4>1 DEF n
    <3>3. CASE ~(2 <= n)
      <4>1. Len(rest) = 0
        BY <2>2, <3>3, Zenon DEF n
      <4>2. n - 1 = 0
        BY <3>1, <3>3
      <4> QED
        BY <4>1, <4>2 DEF n
    <3> QED
      BY <3>2, <3>3
  <2>5. ASSUME NEW i \in 1..(Len(s) - 1) PROVE rest[i] = s[i + 1]
    <3>1. i \in 1..(Len(s) - 2 + 1) /\ 2 + i - 1 = i + 1
      BY <2>3
    <3>2. rest[i] = s[2 + i - 1]
      BY <2>2, <3>1
    <3> QED
      BY <3>1, <3>2
  <2> QED
    BY <2>2, <2>4, <2>5
<1>3. Without(s, 1) = SubSeq(s, 1, 1 - 1) \o SubSeq(s, 1 + 1, Len(s))
  BY DEF Without
<1>4. 1 - 1 = 0 /\ 1 + 1 = 2
  OBVIOUS
<1>5. Without(s, 1) = none \o rest
  BY <1>3, <1>4, Zenon
<1> HIDE DEF none, rest
<1>6. /\ none \o rest \in Seq(X) /\ Len(none \o rest) = Len(none) + Len(rest)
      /\ \A i \in 1..(Len(none) + Len(rest)) :
            (none \o rest)[i] = IF i <= Len(none) THEN none[i] ELSE rest[i - Len(none)]
  BY <1>1, <1>2, ConcatProperties
<1>7. \A i \in 1..(Len(s) - 1) : (none \o rest)[i] = rest[i]
  BY <1>0, <1>1, <1>2, <1>6
<1> QED
  BY <1>0, <1>1, <1>2, <1>5, <1>6, <1>7

\* A mined transaction changes the contract or fails.
LEMMA MineKeeps ==
    ASSUME PublicationInv, NEW role \in Role, Mine(role)
    PROVE  PublicationInv'
<1>1. PlansInv /\ RegInv /\ PoolInv /\ CmdInv
  BY DEF PublicationInv
<1>2. PICK tx \in KnownTx :
              /\ tx = pool[role][1]
              /\ pool[role] \in Seq(KnownTx) /\ pool[role] # <<>>
              /\ pool' = [pool EXCEPT ![role] = Without(@, 1)]
              /\ reg' = IF Accepts(tx) THEN Applied(tx) ELSE reg
              /\ \/ /\ Waiting(role) /\ cmd.ahead = 0 /\ Accepts(tx)
                    /\ cmd' = [cmd EXCEPT !.pc = "record", !.ahead = 0]
                 \/ Waiting(role) /\ ~Accepts(tx) /\ cmd' = Stopped("failed")
                 \/ Waiting(role) /\ cmd.ahead > 0 /\ cmd' = [cmd EXCEPT !.ahead = @ - 1]
                 \/ ~Waiting(role) /\ cmd' = cmd
  BY MineSteps
<1>3. plans' = plans
  BY DEF Mine
<1>4. PoolInv'
  <2>1. Without(pool[role], 1) \in Seq(KnownTx)
    BY <1>2, WithoutOldest
  <2> QED
    BY <1>1, <1>2, <2>1 DEF PoolInv
<1>5. RegInv'
  <2>1. CASE Accepts(tx)
    <3>1. reg' = Applied(tx)
      BY <1>2, <2>1
    <3> QED
      BY <1>1, <2>1, <3>1, AppliedKeeps DEF RegInv
  <2>2. CASE ~Accepts(tx)
    BY <1>1, <1>2, <2>2 DEF RegInv
  <2> QED
    BY <2>1, <2>2
<1>6. CmdInv'
  <2>1. CASE cmd' = cmd
    BY <1>1, <1>3, <2>1 DEF CmdInv, Ready
  <2>2. CASE cmd.pc = "wait" /\ cmd' = [cmd EXCEPT !.pc = "record", !.ahead = 0]
    BY <1>1, <1>3, <2>2 DEF CmdInv, Ready
  <2>3. CASE cmd' = Stopped("failed")
    BY <1>1, <2>3, StoppedKeeps
  <2>4. CASE cmd.pc = "wait" /\ cmd.ahead > 0 /\ cmd' = [cmd EXCEPT !.ahead = @ - 1]
    <3>1. cmd.ahead \in Nat /\ cmd.ahead - 1 \in Nat
      BY <1>1, <2>4 DEF CmdInv
    <3> QED
      BY <1>1, <1>3, <2>4, <3>1 DEF CmdInv, Ready
  <2> QED
    BY <1>2, <2>1, <2>2, <2>3, <2>4 DEF Waiting
<1>7. PlansInv'
  BY <1>1, <1>3 DEF PlansInv
<1> QED
  BY <1>4, <1>5, <1>6, <1>7 DEF PublicationInv

\* Receipts and the end of a command.
LEMMA EndKeeps ==
    ASSUME PublicationInv, Archive \/ Record \/ Finish \/ Stops
    PROVE  PublicationInv'
<1>1. PlansInv /\ RegInv /\ PoolInv /\ CmdInv
  BY DEF PublicationInv
<1>2. UNCHANGED <<reg, pool, plans>>
  BY DEF Archive, Record, Finish, Stops
<1>3. PlansInv' /\ RegInv' /\ PoolInv'
  BY <1>1, <1>2 DEF PlansInv, RegInv, PoolInv
<1>4. CmdInv'
  <2>1. CASE Archive
    BY <1>1, <1>2, <2>1 DEF Archive, CmdInv, Ready
  <2>2. CASE Record
    <3>1. cmd.pc = "record" /\ cmd' = [cmd EXCEPT !.pc = "read", !.at = @ + 1, !.tx = Skip]
      BY <2>2 DEF Record
    <3>2. cmd.plan \in 1..Len(plans) /\ cmd.phase \in Phase /\ cmd.at \in Nat /\ cmd.at > 0
      BY <1>1, <3>1 DEF CmdInv, Ready
    <3>3. /\ cmd'.pc = "read" /\ cmd'.plan = cmd.plan /\ cmd'.phase = cmd.phase
          /\ cmd'.at = cmd.at + 1
      BY <1>1, <3>1 DEF CmdInv
    <3>4. cmd' \in [pc : {"idle", "failed", "conflict", "read", "send", "wait", "record"},
                    plan : Nat, phase : Phase \cup {"none"}, at : Nat,
                    tx : KnownTx \cup {Skip}, ahead : Nat]
      <4> DEFINE Txs == KnownTx \cup {Skip}
                 Pcs == {"idle", "failed", "conflict", "read", "send", "wait", "record"}
      <4>1. cmd \in [pc : Pcs, plan : Nat, phase : Phase \cup {"none"}, at : Nat,
                     tx : Txs, ahead : Nat]
        BY <1>1 DEF CmdInv
      <4>2. Skip \in Txs /\ "read" \in Pcs /\ cmd.at + 1 \in Nat
        BY <3>2
      <4> HIDE DEF Txs, Pcs
      <4>3. cmd' \in [pc : Pcs, plan : Nat, phase : Phase \cup {"none"}, at : Nat,
                      tx : Txs, ahead : Nat]
        BY <3>1, <4>1, <4>2
      <4> QED
        BY <4>3 DEF Txs, Pcs
    <3>5. Len(plans') = Len(plans) /\ cmd.at + 1 > 0
      BY <1>2, <3>2
    <3> QED
      BY <3>2, <3>3, <3>4, <3>5 DEF CmdInv
  <2>3. CASE Finish
    BY <2>3 DEF Finish, NoCommand, CmdInv, Ready
  <2>4. CASE Stops
    BY <1>1, <2>4, StoppedKeeps DEF Stops
  <2> QED
    BY <2>1, <2>2, <2>3, <2>4
<1> QED
  BY <1>3, <1>4 DEF PublicationInv

\* At the start nothing is published, planned or sent.
LEMMA InitInv ==
    ASSUME Init
    PROVE  PublicationInv
<1>1. MaxPlans \in Nat
  BY Parameters
<1>2. PlansInv
  BY <1>1 DEF Init, PlansInv
<1>3. RegInv
  <2>1. NoRoot \in RootRecord /\ NoAnchor \in Anchor /\ NoAnchor.status # "REVOKED"
    BY DEF NoRoot, NoAnchor, RootRecord, Anchor, Status
  <2> QED
    BY <2>1 DEF Init, RegInv
<1>4. PoolInv
  BY DEF Init, PoolInv
<1>5. CmdInv
  BY DEF Init, NoCommand, CmdInv, Ready
<1> QED
  BY <1>2, <1>3, <1>4, <1>5 DEF PublicationInv

\* Every step keeps the invariant.
LEMMA NextKeeps ==
    ASSUME PublicationInv, [Next]_vars
    PROVE  PublicationInv'
<1>1. CASE \E draft \in Draft, version \in 1..MaxPlans, prev \in 0..Newest :
              Prepare(draft, version, prev)
  BY <1>1, PrepareKeeps
<1>2. CASE StartNext
  <2>1. PICK i \in 1..5 : Start(Order[i])
    BY <1>2 DEF StartNext
  <2>2. Order[i] \in Phase
    BY DEF Phase
  <2> QED
    BY <2>1, <2>2, StartKeeps
<1>3. CASE \E phase \in Phase : StartOther(phase)
  BY <1>3, StartKeeps DEF StartOther
<1>4. CASE Read
  BY <1>4, ReadKeeps
<1>5. CASE Send
  BY <1>5, SendKeeps
<1>6. CASE Archive \/ Record \/ Finish \/ Stops
  BY <1>6, EndKeeps
<1>7. CASE \E role \in Role : Mine(role)
  BY <1>7, MineKeeps
<1>8. CASE \/ \E s \in Server : RevokeResolver(s)
           \/ \E k \in 1..MaxPlans : RevokeRoot(k)
  BY <1>8, RevokeKeeps
<1>9. CASE UNCHANGED vars
  BY <1>9 DEF vars, PublicationInv, PlansInv, RegInv, PoolInv, CmdInv, Ready
<1> QED
  BY <1>1, <1>2, <1>3, <1>4, <1>5, <1>6, <1>7, <1>8, <1>9 DEF Next

\* Only a mined transaction writes to the contract.
LEMMA OnlyMineWrites ==
    ASSUME [Next]_vars, ~\E role \in Role : Mine(role)
    PROVE  reg' = reg
<1>1. ASSUME NEW draft, NEW version, NEW prev, Prepare(draft, version, prev) PROVE reg' = reg
  BY <1>1 DEF Prepare
<1>2. ASSUME NEW phase, Start(phase) PROVE reg' = reg
  BY <1>2 DEF Start
<1>3. ASSUME StartNext PROVE reg' = reg
  BY <1>2, <1>3 DEF StartNext
<1>4. ASSUME NEW phase, StartOther(phase) PROVE reg' = reg
  BY <1>2, <1>4 DEF StartOther
<1>5. ASSUME Archive \/ Read \/ Send PROVE reg' = reg
  BY <1>5 DEF Archive, Read, Send
<1>6. ASSUME Record \/ Finish \/ Stops PROVE reg' = reg
  BY <1>6 DEF Record, Finish, Stops
<1>7. ASSUME NEW x, RevokeResolver(x) \/ RevokeRoot(x) PROVE reg' = reg
  BY <1>7 DEF RevokeResolver, RevokeRoot
<1>8. ASSUME UNCHANGED vars PROVE reg' = reg
  BY <1>8 DEF vars
<1> QED
  BY <1>1, <1>3, <1>4, <1>5, <1>6, <1>7, <1>8 DEF Next

-----------------------------------------------------------------------------
(* Theorems                                                                *)

\* Plans, contract, pools and commands always satisfy the inductive invariant:
\* every plan's entries are sorted, valid and without a common endpoint, every
\* transaction in a pool is of a known kind with positive versions, and a
\* revoked resolver has a version.
THEOREM PublicationInvariant == Spec => []PublicationInv
<1>1. Init => PublicationInv
  BY InitInv
<1>2. PublicationInv /\ [Next]_vars => PublicationInv'
  BY NextKeeps
<1> QED
  BY <1>1, <1>2, PTL DEF Spec

\* What was revoked, by a plan or by hand, is never active again: not by a
\* later plan, and not by a transaction that was decided or sent before the
\* revocation and is mined after it (the contract's guards, Accepts).
THEOREM RevokedAlwaysForGood == Spec => RevokedForGood
<1> DEFINE Kept == /\ \A s \in Server : reg.anchor[s].status = "REVOKED"
                                          => reg'.anchor[s].status = "REVOKED"
                   /\ \A k \in 1..MaxPlans : reg.root[k].status = "REVOKED"
                                          => reg'.root[k].status = "REVOKED"
<1>1. ASSUME PublicationInv, [Next]_vars PROVE Kept \/ reg' = reg
  <2>1. CASE \E role \in Role : Mine(role)
    <3>1. PICK role \in Role : Mine(role)
      BY <2>1
    <3>2. PICK tx \in KnownTx : reg' = IF Accepts(tx) THEN Applied(tx) ELSE reg
      BY <1>1, <3>1, MineSteps
    <3>3. CASE Accepts(tx)
      <4>1. RegInv /\ reg' = Applied(tx)
        BY <1>1, <3>2, <3>3 DEF PublicationInv
      <4> QED
        BY <3>3, <4>1, AppliedKeeps
    <3>4. CASE ~Accepts(tx)
      BY <3>2, <3>4
    <3> QED
      BY <3>3, <3>4
  <2>2. CASE ~\E role \in Role : Mine(role)
    BY <1>1, <2>2, OnlyMineWrites
  <2> QED
    BY <2>1, <2>2
<1>2. PublicationInv /\ [Next]_vars => [Kept]_reg
  BY <1>1
<1> QED
  BY <1>2, PublicationInvariant, PTL DEF Spec, RevokedForGood

\* The two kinds of snapshot agree on every approved plan, whatever its version,
\* block and signer, where no identity file has more identities than an external
\* snapshot may have entries: load_identities has already refused what only the
\* external format looks for, two owners of one endpoint.
THEOREM SnapshotsAlwaysAgree ==
    ASSUME \A d \in Draft : Len(d) <= MaxEntries
    PROVE  Spec => []SnapshotsAgree
<1>1. ASSUME PublicationInv PROVE SnapshotsAgree
  <2> SUFFICES ASSUME NEW k \in 1..Newest, NEW version \in 0..1, NEW block \in 0..1,
                      NEW signer \in Issuers \cup {0}
               PROVE  {x.entries : x \in PrepareNorn(plans[k], version, block, signer)}
                        = {x.entries : x \in PrepareExternal(plans[k], version, block, signer)}
    BY DEF SnapshotsAgree
  <2> DEFINE entries == plans[k].entries
             norn == NornSnapshot(plans[k], version, block)
             ext == ExternalSnapshot(plans[k], version, block, signer)
  <2>1. EntriesSound(entries) /\ \E d \in Draft : Len(entries) = Len(d)
    BY <1>1 DEF PublicationInv, PlansInv, Newest
  <2>2. entries \in Seq(Entry) /\ Len(entries) \in 1..MaxEntries
    <3>1. entries \in Seq(Entry) /\ Len(entries) \in Nat /\ Len(entries) > 0
      BY <2>1 DEF EntriesSound
    <3>2. Len(entries) <= MaxEntries /\ MaxEntries \in Nat
      BY <2>1, Parameters
    <3> QED
      BY <3>1, <3>2
  <2>3. entries # <<>>
    BY <2>2
  <2>4. NornShape(norn) <=> version > 0 /\ block > 0
    <3>1. \A i, j \in DOMAIN entries : i < j => entries[i].server < entries[j].server
      BY <2>1 DEF EntriesSound
    <3> HIDE DEF entries
    <3>2. norn = [kind |-> "norn", entries |-> entries, version |-> version,
                  checkpoint |-> block, status |-> "ACTIVE", published |-> 1, until |-> 2]
      BY DEF NornSnapshot, entries
    <3> HIDE DEF norn
    <3> QED
      BY <2>3, <3>1, <3>2 DEF NornShape
  <2>5. ExternalShape(ext) <=> version > 0 /\ block > 0
    <3>1. \A i \in DOMAIN entries : /\ entries[i].version > 0
                                    /\ Len(entries[i].endpoints) \in 1..MaxEndpoints
                                    /\ Distinct(entries[i].endpoints)
      BY <2>1, <2>2, EntryType DEF EntriesSound
    <3>2. \A i, j \in DOMAIN entries :
             i < j => /\ entries[i].server < entries[j].server
                      /\ Elements(entries[i].endpoints) \cap Elements(entries[j].endpoints) = {}
      BY <2>1 DEF EntriesSound
    <3> HIDE DEF entries
    <3>3. ext = [kind |-> "external", entries |-> entries, generation |-> version,
                 target |-> [adapter |-> "external", signer |-> signer],
                 checkpoint |-> [number |-> block, finality |-> "external-signed-checkpoint"],
                 issuer |-> signer, status |-> "ACTIVE", published |-> 1, until |-> 2]
      BY DEF ExternalSnapshot, entries
    <3> HIDE DEF ext
    <3> QED
      BY <2>2, <3>1, <3>2, <3>3 DEF ExternalShape
  <2>6. norn.entries = entries /\ ext.entries = entries
    BY DEF NornSnapshot, ExternalSnapshot
  <2>7. /\ PrepareNorn(plans[k], version, block, signer)
             = IF NornShape(norn) /\ SignatureValid(signer) THEN {norn} ELSE {}
        /\ PrepareExternal(plans[k], version, block, signer)
             = IF ExternalShape(ext) /\ SignatureValid(signer) THEN {ext} ELSE {}
    BY DEF PrepareNorn, PrepareExternal, Prepared
  <2> HIDE DEF entries, norn, ext
  <2> QED
    BY <2>4, <2>5, <2>6, <2>7
<1>2. PublicationInv => SnapshotsAgree
  BY <1>1
<1> QED
  BY <1>2, PublicationInvariant, PTL

-----------------------------------------------------------------------------
(* What the operators of plans contain                                     *)

\* A list of different elements of a set, as long as the set is large, has all
\* of them.
LEMMA ListHasAll ==
    ASSUME NEW S, IsFiniteSet(S), NEW f \in [1..Cardinality(S) -> S],
           \A i, j \in 1..Cardinality(S) : f[i] = f[j] => i = j
    PROVE  \A x \in S : \E i \in 1..Cardinality(S) : f[i] = x
<1> DEFINE n == Cardinality(S)
<1>1. n \in Nat
  BY FS_CardinalityType
<1>2. f \in Injection(1..n, S)
  BY DEF Injection, IsInjective
<1>3. Cardinality(1..n) = n
  <2> HIDE DEF n
  <2>1. Cardinality(1..n) = IF 1 > n THEN 0 ELSE n - 1 + 1
    BY <1>1, FS_Interval
  <2> QED
    BY <1>1, <2>1
<1> HIDE DEF n
<1>4. f \in Surjection(1..n, S)
  BY <1>2, <1>3, FS_Injection DEF n
<1> QED
  BY <1>4 DEF Surjection, n

\* Sorted lists every element.
LEMMA SortedHasAll ==
    ASSUME NEW S \in SUBSET Nat, IsFiniteSet(S)
    PROVE  /\ DOMAIN Sorted(S) = 1..Cardinality(S)
           /\ \A x \in S : \E i \in DOMAIN Sorted(S) : Sorted(S)[i] = x
           /\ \A i \in DOMAIN Sorted(S) : Sorted(S)[i] \in S
<1> DEFINE n == Cardinality(S)
           f == Sorted(S)
<1>1. n \in Nat /\ f \in [1..n -> S] /\ \A i, j \in 1..n : i < j => f[i] < f[j]
  BY SortedType
<1> HIDE DEF f, n
<1>2. ASSUME NEW i \in 1..n, NEW j \in 1..n, f[i] = f[j] PROVE i = j
  <2>0. f[i] \in Nat /\ f[j] \in Nat
    BY <1>1
  <2>1. ~(f[i] < f[j]) /\ ~(f[j] < f[i])
    BY <1>2, <2>0
  <2>2. ~(i < j) /\ ~(j < i)
    BY <1>1, <2>1
  <2> QED
    BY <1>1, <2>2
<1>3. \A x \in S : \E i \in 1..n : f[i] = x
  BY <1>1, <1>2, ListHasAll DEF n
<1> QED
  BY <1>1, <1>3 DEF f, n

\* Listed lists every element.
LEMMA ListedHasAll ==
    ASSUME NEW S, IsFiniteSet(S)
    PROVE  /\ DOMAIN Listed(S) = 1..Cardinality(S)
           /\ \A x \in S : \E i \in DOMAIN Listed(S) : Listed(S)[i] = x
           /\ \A i \in DOMAIN Listed(S) : Listed(S)[i] \in S
<1> DEFINE n == Cardinality(S)
           f == Listed(S)
<1>1. n \in Nat /\ ExistsBijection(1..n, S)
  BY FS_CardinalityType
<1>2. PICK s \in [1..n -> S] : \A i, j \in 1..n : s[i] = s[j] => i = j
  BY <1>1 DEF ExistsBijection, Bijection, Injection, IsInjective
<1>3. Distinct(s)
  BY <1>2 DEF Distinct
<1>4. f = CHOOSE t \in [1..n -> S] : Distinct(t)
  BY Zenon DEF Listed
<1> HIDE DEF n, f
<1>5. f \in [1..n -> S] /\ Distinct(f)
  BY <1>2, <1>3, <1>4, Zenon
<1>6. \A i, j \in 1..n : f[i] = f[j] => i = j
  BY <1>5 DEF Distinct
<1>7. \A x \in S : \E i \in 1..n : f[i] = x
  BY <1>5, <1>6, ListHasAll DEF n
<1> QED
  BY <1>5, <1>7 DEF n, f

\* A server, and an endpoint, has one entry.
LEMMA EntryUnique ==
    ASSUME NEW entries, EntriesSound(entries),
           NEW i \in DOMAIN entries, NEW j \in DOMAIN entries,
           \/ entries[i].server = entries[j].server
           \/ Elements(entries[i].endpoints) \cap Elements(entries[j].endpoints) # {}
    PROVE  i = j
<1>1. i \in Nat /\ j \in Nat /\ entries[i].server \in Nat /\ entries[j].server \in Nat
  <2>1. entries \in Seq(Entry)
    BY DEF EntriesSound
  <2>2. /\ DOMAIN entries = 1..Len(entries) /\ Len(entries) \in Nat
        /\ \A k \in 1..Len(entries) : entries[k].server \in Server
    BY <2>1, EntryType
  <2>3. i \in 1..Len(entries) /\ j \in 1..Len(entries)
    BY <2>2
  <2>4. entries[i].server \in Server /\ entries[j].server \in Server
    BY <2>2, <2>3
  <2>5. i \in Nat /\ j \in Nat
    BY <2>2, <2>3
  <2>6. \A x \in Server : x \in Nat
    BY Parameters
  <2> QED
    BY <2>4, <2>5, <2>6
<1>2. ~(i < j)
  <2> SUFFICES ASSUME i < j PROVE FALSE
    OBVIOUS
  <2>1. /\ entries[i].server < entries[j].server
        /\ Elements(entries[i].endpoints) \cap Elements(entries[j].endpoints) = {}
    BY DEF EntriesSound
  <2> QED
    BY <1>1, <2>1
<1>3. ~(j < i)
  <2> SUFFICES ASSUME j < i PROVE FALSE
    OBVIOUS
  <2>1. /\ entries[j].server < entries[i].server
        /\ Elements(entries[j].endpoints) \cap Elements(entries[i].endpoints) = {}
    BY DEF EntriesSound
  <2> QED
    BY <1>1, <2>1
<1> QED
  BY <1>1, <1>2, <1>3

\* One entry for a server: its endpoints are those of EndpointsOf.
LEMMA EndpointsOwned ==
    ASSUME NEW entries, EntriesSound(entries), NEW s, NEW e
    PROVE  e \in EndpointsOf(entries, s) <=>
              \E i \in DOMAIN entries : /\ entries[i].server = s
                                        /\ e \in Elements(entries[i].endpoints)
<1>1. ASSUME NEW i \in DOMAIN entries, NEW j \in DOMAIN entries,
             entries[i].server = entries[j].server
      PROVE  i = j
  BY <1>1, EntryUnique
<1>2. CASE s \in ServersOf(entries)
  <2>1. PICK i \in DOMAIN entries : entries[i].server = s /\ EntryOf(entries, s) = entries[i]
    BY <1>2, EntryFound
  <2>2. EndpointsOf(entries, s) = Elements(entries[i].endpoints)
    BY <1>2, <2>1 DEF EndpointsOf
  <2>3. \A j \in DOMAIN entries : entries[j].server = s => j = i
    BY <1>1, <2>1
  <2> QED
    BY <2>1, <2>2, <2>3
<1>3. CASE s \notin ServersOf(entries)
  BY <1>3 DEF EndpointsOf, ServersOf
<1> QED
  BY <1>2, <1>3

\* The servers of entries are numbers, finitely many.
LEMMA ServersFinite ==
    ASSUME NEW S \in SUBSET Server
    PROVE  S \in SUBSET Nat /\ IsFiniteSet(S)
BY Parameters, FS_Subset

\* A plan takes from the old servers what they have no more, and nothing else.
LEMMA UnbindsExact ==
    ASSUME NEW old \in Seq(Entry), NEW new \in Seq(Entry)
    PROVE  /\ \A n \in DOMAIN Unbinds(old, new) :
                 /\ Unbinds(old, new)[n].endpoint \notin EndpointsOf(new, Unbinds(old, new)[n].server)
           /\ \A s \in ServersOf(old) : \A e \in EndpointsOf(old, s) \ EndpointsOf(new, s) :
                 \E n \in DOMAIN Unbinds(old, new) :
                    /\ Unbinds(old, new)[n].server = s /\ Unbinds(old, new)[n].endpoint = e
<1> DEFINE before == Sorted(ServersOf(old))
           Gone(i) == EndpointsOf(old, before[i]) \ EndpointsOf(new, before[i])
           Lost(i) == Listed(Gone(i))
           Part(i) == [j \in DOMAIN Lost(i) |->
                         [kind |-> "unbind", server |-> before[i], endpoint |-> Lost(i)[j]]]
           parts == [i \in DOMAIN before |-> Part(i)]
           X == {x \in UnbindItem : x.endpoint \notin EndpointsOf(new, x.server)}
<1>1. ServersOf(old) \in SUBSET Server
  BY EntriesFinite
<1>2. ServersOf(old) \in SUBSET Nat /\ IsFiniteSet(ServersOf(old))
  BY <1>1, ServersFinite
<1> DEFINE n == Cardinality(ServersOf(old))
<1>3. /\ n \in Nat /\ DOMAIN before = 1..n
      /\ \A x \in ServersOf(old) : \E i \in 1..n : before[i] = x
      /\ \A i \in 1..n : before[i] \in Server
  BY <1>1, <1>2, SortedHasAll, FS_CardinalityType
<1> HIDE DEF n, before
<1>4. ASSUME NEW i \in 1..n
      PROVE  /\ DOMAIN Lost(i) = 1..Cardinality(Gone(i)) /\ Cardinality(Gone(i)) \in Nat
             /\ \A e \in Gone(i) : \E j \in DOMAIN Lost(i) : Lost(i)[j] = e
             /\ \A j \in DOMAIN Lost(i) : Lost(i)[j] \in Gone(i) /\ Lost(i)[j] \in Endpoint
  <2> DEFINE S == Gone(i)
  <2>1. S \in SUBSET Endpoint
    BY EntriesFinite
  <2>2. IsFiniteSet(S)
    BY <2>1, Parameters, FS_Subset
  <2> HIDE DEF S
  <2>3. /\ DOMAIN Listed(S) = 1..Cardinality(S) /\ Cardinality(S) \in Nat
        /\ \A e \in S : \E j \in DOMAIN Listed(S) : Listed(S)[j] = e
        /\ \A j \in DOMAIN Listed(S) : Listed(S)[j] \in S
    BY <2>2, ListedHasAll, FS_CardinalityType
  <2> QED
    BY <2>1, <2>3 DEF S
<1>5. ASSUME NEW i \in 1..n
      PROVE  /\ Part(i) \in Seq(X) /\ DOMAIN Part(i) = 1..Len(Part(i))
             /\ \A e \in Gone(i) : \E j \in 1..Len(Part(i)) :
                   Part(i)[j].server = before[i] /\ Part(i)[j].endpoint = e
  <2> DEFINE m == Cardinality(Gone(i))
  <2>1. /\ DOMAIN Lost(i) = 1..m /\ m \in Nat
        /\ \A e \in Gone(i) : \E j \in 1..m : Lost(i)[j] = e
        /\ \A j \in 1..m : /\ Lost(i)[j] \in Endpoint
                           /\ Lost(i)[j] \notin EndpointsOf(new, before[i])
    BY <1>4
  <2>2. before[i] \in Server
    BY <1>3
  <2> HIDE DEF Lost, m
  <2>3. \A j \in 1..m : Part(i)[j] = [kind |-> "unbind", server |-> before[i],
                                      endpoint |-> Lost(i)[j]]
    BY <2>1
  <2>4. Part(i) \in [1..m -> X]
    <3>1. ASSUME NEW j \in 1..m PROVE Part(i)[j] \in X
      <4> DEFINE x == Part(i)[j]
      <4>1. x = [kind |-> "unbind", server |-> before[i], endpoint |-> Lost(i)[j]]
        BY <2>3
      <4>2. x \in UnbindItem
        BY <2>1, <2>2, <4>1 DEF UnbindItem
      <4>3. x.endpoint \notin EndpointsOf(new, x.server)
        BY <2>1, <4>1
      <4> QED
        BY <4>2, <4>3
    <3>2. DOMAIN Part(i) = 1..m
      BY <2>1
    <3> HIDE DEF X
    <3>3. Part(i) = [j \in 1..m |-> Part(i)[j]]
      BY <2>1
    <3> HIDE DEF Part
    <3> QED
      BY <3>1, <3>3
  <2>5. Part(i) \in Seq(X) /\ Len(Part(i)) = m /\ DOMAIN Part(i) = 1..m
    <3> HIDE DEF Part, X
    <3> QED
      BY <2>1, <2>4, SeqDef
  <2>6. \A e \in Gone(i) : \E j \in 1..m : Part(i)[j].server = before[i] /\ Part(i)[j].endpoint = e
    <3> TAKE e \in Gone(i)
    <3>1. PICK j \in 1..m : Lost(i)[j] = e
      BY <2>1
    <3> DEFINE x == Part(i)[j]
    <3>a. x = [kind |-> "unbind", server |-> before[i], endpoint |-> Lost(i)[j]]
      BY <2>3
    <3> HIDE DEF x
    <3>b. x.server = before[i] /\ x.endpoint = e
      BY <3>1, <3>a
    <3>2. Part(i)[j].server = before[i] /\ Part(i)[j].endpoint = e
      BY <3>b DEF x
    <3> QED
      BY <3>2
  <2> HIDE DEF Part, Gone
  <2> QED
    BY <2>5, <2>6
<1>6. Unbinds(old, new) = Flatten(parts)
  BY DEF Unbinds, before
<1>7. /\ parts \in [1..n -> Seq(X)]
      /\ \A i \in 1..n : parts[i] = Part(i)
  <2> HIDE DEF Part, X
  <2> QED
    BY <1>3, <1>5
<1> HIDE DEF parts
<1>8. parts \in Seq(Seq(X)) /\ Len(parts) = n
  <2> DEFINE Y == Seq(X)
  <2>1. parts \in [1..n -> Y]
    BY <1>7
  <2> HIDE DEF Y
  <2>2. parts \in Seq(Y) /\ Len(parts) = n
    BY <1>3, <2>1, SeqDef
  <2> QED
    BY <2>2 DEF Y
<1> HIDE DEF X, Part, Gone
<1>9. Flatten(parts) \in Seq(X)
  BY <1>8, FlattenType
<1>10. \A k \in DOMAIN Flatten(parts) : Flatten(parts)[k] \in X
  BY <1>9
<1>11. ASSUME NEW s \in ServersOf(old), NEW e \in EndpointsOf(old, s) \ EndpointsOf(new, s)
       PROVE  \E k \in DOMAIN Flatten(parts) : /\ Flatten(parts)[k].server = s
                                               /\ Flatten(parts)[k].endpoint = e
  <2>1. PICK i \in 1..n : before[i] = s
    BY <1>3
  <2>2. e \in Gone(i)
    BY <2>1 DEF Gone
  <2>3. PICK j \in 1..Len(Part(i)) : Part(i)[j].server = s /\ Part(i)[j].endpoint = e
    BY <1>5, <2>1, <2>2
  <2>4. i \in 1..Len(parts) /\ j \in 1..Len(parts[i]) /\ parts[i] = Part(i)
    BY <1>7, <1>8
  <2> DEFINE x == parts[i][j]
  <2>5. Holds(parts[i], x)
    BY <2>4 DEF Holds
  <2> HIDE DEF x
  <2>6. PICK k \in DOMAIN Flatten(parts) : Flatten(parts)[k] = x
    BY <1>8, <2>4, <2>5, FlattenHas
  <2> QED
    BY <2>3, <2>4, <2>6 DEF x
<1> QED
  BY <1>6, <1>10, <1>11 DEF X

\* A plan revokes the servers that left, and no other.
LEMMA RevocationsExact ==
    ASSUME NEW old \in Seq(Entry), NEW new \in Seq(Entry)
    PROVE  /\ \A n \in DOMAIN Revocations(old, new) :
                 Revocations(old, new)[n].server \notin ServersOf(new)
           /\ \A s \in ServersOf(old) \ ServersOf(new) :
                 \E n \in DOMAIN Revocations(old, new) : Revocations(old, new)[n].server = s
<1> DEFINE S == ServersOf(old) \ ServersOf(new)
           gone == Sorted(S)
           items == [i \in DOMAIN gone |->
                       [kind |-> "revoke", server |-> gone[i], endpoint |-> None]]
<1>1. S \in SUBSET Server
  BY EntriesFinite
<1>2. S \in SUBSET Nat /\ IsFiniteSet(S)
  BY <1>1, ServersFinite
<1>3. Revocations(old, new) = items
  BY DEF Revocations
<1>4. \A x \in S : x \in ServersOf(old) /\ x \notin ServersOf(new)
  OBVIOUS
<1>5. \A x \in ServersOf(old) \ ServersOf(new) : x \in S
  OBVIOUS
<1> HIDE DEF S
<1>6. /\ \A x \in S : \E i \in DOMAIN gone : gone[i] = x
      /\ \A i \in DOMAIN gone : gone[i] \in S
  BY <1>2, SortedHasAll
<1> HIDE DEF gone
<1>7. DOMAIN items = DOMAIN gone /\ \A i \in DOMAIN gone : items[i].server = gone[i]
  OBVIOUS
<1> HIDE DEF items
<1> QED
  BY <1>3, <1>4, <1>5, <1>6, <1>7

-----------------------------------------------------------------------------
(* What the Registry owes to a plan that is carried out in its turn         *)

\* The plan binds endpoint e to server s, takes it from s, revokes s.
Owns(plan, e, s) == \E i \in DOMAIN plan.entries :
                       plan.entries[i].server = s /\ e \in Elements(plan.entries[i].endpoints)
Drops(plan, e, s) == \E i \in DOMAIN plan.unbinds :
                       plan.unbinds[i].server = s /\ plan.unbinds[i].endpoint = e
Removes(plan, s) == \E i \in DOMAIN plan.revocations : plan.revocations[i].server = s

\* A transaction, or an anchor, says what the plan's entry for its server says.
OfEntry(plan, root, s, x) ==
    \E i \in DOMAIN plan.entries :
        /\ plan.entries[i].server = s
        /\ x.version = plan.entries[i].version
        /\ x.endpoints = plan.entries[i].endpoints
        /\ x.root = root

\* The item of a phase is done, in the contract's state.
ItemDone(plan, root, contract, servers, item) ==
    /\ item.kind = "root" => contract.root[root].version = plan.version
    /\ item.kind = "resolver" =>
          /\ OfEntry(plan, root, item.server, contract.anchor[item.server])
          /\ \/ contract.anchor[item.server].status = "ACTIVE"
             \/ item.server \in servers
    /\ item.kind = "bind" => contract.bound[item.endpoint] = item.server
    /\ item.kind = "unbind" => contract.bound[item.endpoint] # item.server
    /\ item.kind = "revoke" => contract.anchor[item.server].status = "REVOKED"

\* The transaction is the one for the item.
TxFor(plan, root, item, tx) ==
    \/ /\ item.kind = "root" /\ tx \in RootTx
       /\ tx.root = root /\ tx.version = plan.version
    \/ /\ item.kind = "resolver" /\ tx \in AnchorTx
       /\ tx.server = item.server /\ OfEntry(plan, root, item.server, tx)
    \/ /\ item.kind \in {"bind", "unbind"} /\ tx \in BindTx
       /\ tx.kind = item.kind /\ tx.server = item.server /\ tx.endpoint = item.endpoint
    \/ /\ item.kind = "revoke" /\ tx \in RevokeItem /\ tx.server = item.server

\* The removals of a plan have nothing in common with its entries, and name
\* all that the plan before it had and it has not.
RemovalsSound(plan) ==
    /\ \A e \in Endpoint, s \in Server : ~(Drops(plan, e, s) /\ Owns(plan, e, s))
    /\ \A s \in Server : ~(Removes(plan, s) /\ s \in ServersOf(plan.entries))
RemovalsFull(old, plan) ==
    /\ \A e \in Endpoint, s \in Server : Owns(old, e, s) => Owns(plan, e, s) \/ Drops(plan, e, s)
    /\ \A s \in ServersOf(old.entries) : s \in ServersOf(plan.entries) \/ Removes(plan, s)
RemovalsInv(k) ==
    /\ RemovalsSound(plans[k])
    /\ plans[k].prev \in 0..(k - 1)
    /\ plans[k].prev # 0 => RemovalsFull(plans[plans[k].prev], plans[k])

\* The items of a phase are of its kinds, and come from the plan.
Fits(plan, phase, item) ==
    \/ phase = "publish-root" /\ item.kind = "root"
    \/ phase = "publish-resolvers" /\ item.kind \in {"root-active", "resolver"}
    \/ /\ phase = "unbind-endpoints" /\ item.kind = "unbind"
       /\ item.endpoint \in Endpoint /\ item.server \in Server
       /\ Drops(plan, item.endpoint, item.server)
    \/ phase = "bind-endpoints" /\ item.kind = "anchored"
    \/ /\ phase = "bind-endpoints" /\ item.kind = "bind"
       /\ item.endpoint \in Endpoint /\ item.server \in Server
       /\ Owns(plan, item.endpoint, item.server)
    \/ /\ phase = "revoke-removed" /\ item.kind = "revoke"
       /\ item.server \in Server /\ Removes(plan, item.server)

\* What an item of one of the plan's phases is about.
OfPlan(plan, item) ==
    /\ item.kind = "resolver" => item.server \in Server /\ item.server \in ServersOf(plan.entries)
    /\ item.kind \in {"bind", "unbind"} => item.endpoint \in Endpoint /\ item.server \in Server
    /\ item.kind = "bind" => Owns(plan, item.endpoint, item.server)
    /\ item.kind = "unbind" => Drops(plan, item.endpoint, item.server)
    /\ item.kind = "revoke" => item.server \in Server

\* Every account sends the transactions of its role.
KindsInv ==
    /\ pool["root"] \in Seq(RootTx) /\ pool["resolver"] \in Seq(AnchorTx)
    /\ pool["endpoint"] \in Seq(BindTx)
    /\ pool["revoker"] \in Seq(RevokeItem \cup RevokeRootTx)

\* What was published has a status, and a root is revoked by hand only.
KnownInv ==
    /\ \A r \in 1..MaxPlans :
          /\ reg.root[r].version # 0 => reg.root[r].status # "UNKNOWN"
          /\ reg.root[r].status = "REVOKED" => r \in hand.roots
    /\ \A i \in 1..Len(pool["revoker"]) :
          pool["revoker"][i].kind = "revoke-root" => pool["revoker"][i].root \in hand.roots
    /\ hand \in [servers : SUBSET Server, roots : SUBSET (1..MaxPlans)]

\* A root or a resolver that waits in a pool is the newest plan's, or spent.
RootQueue(q, roots, plan, root) ==
    \A i \in 1..Len(q) : \/ q[i].root = root /\ q[i].version = plan.version
                         \/ q[i].version <= roots[q[i].root].version
ResolverQueue(q, anchors, plan, root) ==
    \A i \in 1..Len(q) : \/ OfEntry(plan, root, q[i].server, q[i])
                         \/ q[i].version <= anchors[q[i].server].version

\* A revocation that waits is the newest plan's, or was made by hand, or
\* changes nothing.
RevokerQueue(q, anchors, plan, revoked) ==
    \A i \in 1..Len(q) :
        q[i].kind = "revoke" => \/ q[i].server \in revoked.servers
                                \/ Removes(plan, q[i].server)
                                \/ anchors[q[i].server].status = "REVOKED"

\* A binding that waits is the newest plan's or changes nothing; a removal
\* that waits takes away what the newest plan takes away, or nothing.  Where
\* both wait for one endpoint, they are the newest plan's.
EndpointQueue(q, bound, plan) ==
    /\ \A i \in 1..Len(q) :
          /\ q[i].kind = "bind" =>
                /\ bound[q[i].endpoint] \in {None, q[i].server}
                /\ \/ Owns(plan, q[i].endpoint, q[i].server)
                   \/ bound[q[i].endpoint] = q[i].server
          /\ q[i].kind = "unbind" =>
                \/ bound[q[i].endpoint] = None
                \/ Drops(plan, q[i].endpoint, bound[q[i].endpoint])
    /\ \A i, j \in 1..Len(q) :
          i < j /\ q[i].endpoint = q[j].endpoint =>
             /\ q[i].kind = "bind" /\ q[j].kind = "unbind" =>
                   Drops(plan, q[i].endpoint, q[i].server)
             /\ q[i].kind = "unbind" /\ q[j].kind = "bind" =>
                   Owns(plan, q[j].endpoint, q[j].server)

Queues(queues, contract, plan, root, revoked) ==
    /\ RootQueue(queues["root"], contract.root, plan, root)
    /\ ResolverQueue(queues["resolver"], contract.anchor, plan, root)
    /\ RevokerQueue(queues["revoker"], contract.anchor, plan, revoked)
    /\ EndpointQueue(queues["endpoint"], contract.bound, plan)
QueuesInv == Queues(pool, reg, plans[Newest], RootOf(Newest), hand)

\* An item of the newest plan is done.
IsDone(item) == ItemDone(plans[Newest], RootOf(Newest), reg, hand.servers, item)

DoneInv == \A phase \in done : \A j \in DOMAIN Work(Newest, phase) :
              IsDone(Work(Newest, phase)[j])

\* A removal was decided for the server that has the endpoint, and no other
\* server can get it before the removal is sent.
UnbindSendable(tx, q, bound) ==
    tx.kind = "unbind" =>
        /\ bound[tx.endpoint] \in {None, tx.server}
        /\ \A i \in 1..Len(q) :
              q[i].kind = "bind" /\ q[i].endpoint = tx.endpoint => q[i].server = tx.server

\* A command has done the items before the one it is at; what it sends is for
\* that one, and what it waits for is in the pool.
WorkInv ==
    ~Ready =>
        /\ cmd.plan = Newest
        /\ \A j \in DOMAIN Todo : j < cmd.at => IsDone(Todo[j])
        /\ cmd.pc # "read" => cmd.at \in DOMAIN Todo
        /\ cmd.pc \in {"send", "wait"} =>
              TxFor(plans[Newest], RootOf(Newest), Todo[cmd.at], cmd.tx)
        /\ cmd.pc = "send" => UnbindSendable(cmd.tx, pool["endpoint"], reg.bound)
        /\ cmd.pc = "wait" => /\ cmd.ahead + 1 \in DOMAIN pool[Account(cmd.phase)]
                              /\ pool[Account(cmd.phase)][cmd.ahead + 1] = cmd.tx
        /\ cmd.pc = "record" => IsDone(Todo[cmd.at])

\* Where every plan names the one before it, what is bound and active comes
\* from the newest plan or from the one before.
LeftInv ==
    /\ \A e \in Endpoint : reg.bound[e] # None =>
          \/ Owns(plans[Newest], e, reg.bound[e])
          \/ Newest > 1 /\ Owns(plans[Newest - 1], e, reg.bound[e])
    /\ \A s \in Server : reg.anchor[s].status = "ACTIVE" =>
          \/ s \in ServersOf(plans[Newest].entries)
          \/ Newest > 1 /\ s \in ServersOf(plans[Newest - 1].entries)

\* Before the first plan nothing is published and nothing is under way.
NothingYet ==
    /\ \A role \in Role : pool[role] = <<>>
    /\ \A r \in 1..MaxPlans : reg.root[r].version = 0
    /\ \A s \in Server : reg.anchor[s].version = 0 /\ reg.anchor[s].status = "UNKNOWN"
    /\ \A e \in Endpoint : reg.bound[e] = None

TurnInv ==
    /\ \A k \in 1..Newest : RemovalsInv(k)
    /\ done \in SUBSET Phase /\ carried \in SUBSET (0..(Newest - 1))
    /\ Newest = 0 => NothingYet /\ Ready /\ done = {}
    /\ InTurn => KindsInv /\ KnownInv
    /\ Newest > 0 /\ InTurn => QueuesInv /\ DoneInv /\ WorkInv
    /\ Newest > 0 /\ Chained => LeftInv

-----------------------------------------------------------------------------
(* What a plan holds                                                       *)

\* The removals of a plan that is built are sound, and full.
LEMMA RemovalsBuilt ==
    ASSUME PlansInv, NEW draft \in Draft, Loadable(draft), NEW version,
           NEW prev \in 0..Newest, NEW plan, plan = BuildPlan(draft, version, prev)
    PROVE  /\ RemovalsSound(plan) /\ plan.prev = prev
           /\ prev # 0 => RemovalsFull(plans[prev], plan)
<1> DEFINE old == IF prev = 0 THEN <<>> ELSE plans[prev].entries
           new == Entries(draft)
<1>1. plan = [entries |-> new, version |-> version, prev |-> prev,
              unbinds |-> Unbinds(old, new), revocations |-> Revocations(old, new)]
  BY DEF BuildPlan
<1>2. EntriesSound(new) /\ new \in Seq(Entry)
  BY EntriesOfLoadable DEF EntriesSound
<1>3. prev # 0 => prev \in 1..Len(plans) /\ old = plans[prev].entries
  <2>1. Len(plans) \in Nat
    BY DEF PlansInv
  <2> QED
    BY <2>1 DEF Newest
<1>4. old \in Seq(Entry)
  <2>1. CASE prev = 0
    BY <2>1
  <2>2. CASE prev # 0
    BY <1>3, <2>2, PlanType
  <2> QED
    BY <2>1, <2>2
<1>5. prev # 0 => EntriesSound(old)
  BY <1>3 DEF PlansInv
<1> HIDE DEF old, new
<1>6. /\ plan.entries = new /\ plan.prev = prev
      /\ plan.unbinds = Unbinds(old, new) /\ plan.revocations = Revocations(old, new)
  BY <1>1
<1>7. \A e \in Endpoint, s \in Server : ~(Drops(plan, e, s) /\ Owns(plan, e, s))
  <2> SUFFICES ASSUME NEW e \in Endpoint, NEW s \in Server, Drops(plan, e, s), Owns(plan, e, s)
               PROVE  FALSE
    OBVIOUS
  <2>1. PICK n \in DOMAIN Unbinds(old, new) : /\ Unbinds(old, new)[n].server = s
                                              /\ Unbinds(old, new)[n].endpoint = e
    BY <1>6 DEF Drops
  <2>2. e \notin EndpointsOf(new, s)
    BY <1>2, <1>4, <2>1, UnbindsExact
  <2>3. e \in EndpointsOf(new, s)
    BY <1>2, <1>6, EndpointsOwned DEF Owns
  <2> QED
    BY <2>2, <2>3
<1>8. \A s \in Server : ~(Removes(plan, s) /\ s \in ServersOf(plan.entries))
  BY <1>2, <1>4, <1>6, RevocationsExact DEF Removes
<1>9. ASSUME prev # 0 PROVE RemovalsFull(plans[prev], plan)
  <2> DEFINE before == plans[prev]
  <2>1. before.entries = old /\ EntriesSound(old)
    BY <1>3, <1>5, <1>9
  <2> HIDE DEF before
  <2>2. ASSUME NEW e \in Endpoint, NEW s \in Server, Owns(before, e, s), ~Owns(plan, e, s)
        PROVE  Drops(plan, e, s)
    <3>1. e \in EndpointsOf(old, s)
      BY <2>1, <2>2, EndpointsOwned DEF Owns
    <3>2. e \notin EndpointsOf(new, s)
      BY <1>2, <1>6, <2>2, EndpointsOwned DEF Owns
    <3>3. s \in ServersOf(old)
      BY <2>1, <2>2 DEF Owns, ServersOf
    <3>4. \E n \in DOMAIN Unbinds(old, new) : /\ Unbinds(old, new)[n].server = s
                                              /\ Unbinds(old, new)[n].endpoint = e
      BY <1>2, <1>4, <3>1, <3>2, <3>3, UnbindsExact
    <3> QED
      BY <1>6, <3>4 DEF Drops
  <2>3. ASSUME NEW s \in ServersOf(old), s \notin ServersOf(new) PROVE Removes(plan, s)
    <3>1. \E n \in DOMAIN Revocations(old, new) : Revocations(old, new)[n].server = s
      BY <1>2, <1>4, <2>3, RevocationsExact
    <3> QED
      BY <1>6, <3>1 DEF Removes
  <2>4. RemovalsFull(before, plan)
    BY <1>6, <2>1, <2>2, <2>3 DEF RemovalsFull
  <2> QED
    BY <2>4 DEF before
<1> QED
  BY <1>6, <1>7, <1>8, <1>9 DEF RemovalsSound

\* What the phases of a plan go through, and that they leave nothing out.
LEMMA WorkFits ==
    ASSUME PlansInv, NEW k \in 1..Len(plans), NEW phase \in Phase
    PROVE  \A j \in DOMAIN Work(k, phase) : Fits(plans[k], phase, Work(k, phase)[j])
<1> DEFINE entries == plans[k].entries
           It(kind, s) == [kind |-> kind, server |-> s, endpoint |-> None]
<1>1. /\ entries \in Seq(Entry)
      /\ plans[k].unbinds \in Seq(UnbindItem) /\ plans[k].revocations \in Seq(RevokeItem)
  BY PlanType
<1>2. /\ Len(entries) \in Nat /\ DOMAIN entries = 1..Len(entries)
      /\ \A i \in 1..Len(entries) : /\ entries[i].server \in Server
                                    /\ entries[i].endpoints \in Seq(Endpoint)
  BY <1>1, EntryType
<1>3. phase \in {"publish-root", "publish-resolvers", "unbind-endpoints",
                 "bind-endpoints", "revoke-removed"}
  BY DEF Phase, Order
<1>4. CASE phase = "publish-root"
  <2>1. Work(k, phase) = <<It("root", None)>>
    BY <1>4 DEF Work
  <2>2. It("root", None).kind = "root"
    OBVIOUS
  <2> HIDE DEF It
  <2>3. \A j \in DOMAIN Work(k, phase) : Work(k, phase)[j] = It("root", None)
    BY <2>1
  <2> QED
    BY <1>4, <2>2, <2>3 DEF Fits
<1>5. CASE phase = "publish-resolvers"
  <2> DEFINE X == {x \in WorkItem(k) : x.kind \in {"root-active", "resolver"}}
             rest == [i \in DOMAIN entries |-> It("resolver", entries[i].server)]
  <2>1. Work(k, phase) = <<It("root-active", None)>> \o rest
    BY <1>5 DEF Work
  <2>2. \A i \in 1..Len(entries) : It("resolver", entries[i].server) \in X
    BY <1>2 DEF WorkItem, ServerItem, ServersOf
  <2>3. It("root-active", None) \in X
    BY DEF WorkItem, RootItem
  <2> HIDE DEF It, X
  <2>4. rest \in [1..Len(entries) -> X]
    BY <1>2, <2>2
  <2> HIDE DEF rest
  <2>5. rest \in Seq(X)
    BY <1>2, <2>4, SeqDef
  <2>6. <<It("root-active", None)>> \in Seq(X)
    BY <2>3
  <2>7. Work(k, phase) \in Seq(X)
    BY <2>1, <2>5, <2>6, ConcatProperties
  <2>8. \A j \in DOMAIN Work(k, phase) : Work(k, phase)[j] \in X
    BY <2>7
  <2> QED
    BY <1>5, <2>8 DEF Fits, X
<1>6. CASE phase = "unbind-endpoints"
  <2>1. Work(k, phase) = plans[k].unbinds
    BY <1>6 DEF Work
  <2>2. ASSUME NEW j \in DOMAIN plans[k].unbinds PROVE Fits(plans[k], phase, plans[k].unbinds[j])
    <3>1. plans[k].unbinds[j] \in UnbindItem
      BY <1>1
    <3> DEFINE x == plans[k].unbinds[j]
    <3>2. x.kind = "unbind" /\ x.endpoint \in Endpoint /\ x.server \in Server
      BY <3>1 DEF UnbindItem
    <3>3. Drops(plans[k], x.endpoint, x.server)
      BY DEF Drops
    <3> QED
      BY <1>6, <3>2, <3>3 DEF Fits
  <2> QED
    BY <2>1, <2>2
<1>7. CASE phase = "bind-endpoints"
  <2> DEFINE X == {x \in WorkItem(k) : \/ x.kind = "anchored"
                                       \/ /\ x.kind = "bind"
                                          /\ x.endpoint \in Endpoint /\ x.server \in Server
                                          /\ Owns(plans[k], x.endpoint, x.server)}
             Bind(i, j) == [kind |-> "bind", server |-> entries[i].server,
                            endpoint |-> entries[i].endpoints[j]]
             Rest(i) == [j \in DOMAIN entries[i].endpoints |-> Bind(i, j)]
             parts == [i \in DOMAIN entries |->
                         <<It("anchored", entries[i].server)>> \o Rest(i)]
  <2>1. Work(k, phase) = Flatten(parts)
    BY <1>7 DEF Work
  <2>2. ASSUME NEW i \in 1..Len(entries)
        PROVE  <<It("anchored", entries[i].server)>> \o Rest(i) \in Seq(X)
    <3>1. PICK n \in Nat : entries[i].endpoints \in [1..n -> Endpoint]
      BY <1>2, SeqDef
    <3>2. ASSUME NEW j \in 1..n PROVE Bind(i, j) \in X
      <4> DEFINE x == Bind(i, j)
      <4>1. /\ x \in BindItem /\ x.kind = "bind" /\ x.endpoint \in Endpoint /\ x.server \in Server
            /\ x.server = entries[i].server /\ x.endpoint = entries[i].endpoints[j]
        BY <1>2, <3>1 DEF BindItem
      <4> HIDE DEF x
      <4>2. x.endpoint \in Elements(entries[i].endpoints)
        BY <3>1, <4>1 DEF Elements
      <4>3. Owns(plans[k], x.endpoint, x.server)
        BY <1>2, <4>1, <4>2 DEF Owns
      <4>4. x \in WorkItem(k)
        BY <4>1 DEF WorkItem
      <4>5. x \in X
        BY <4>1, <4>3, <4>4
      <4> QED
        BY <4>5 DEF x
    <3>3. It("anchored", entries[i].server) \in X
      BY <1>2 DEF WorkItem, ServerItem, ServersOf
    <3> HIDE DEF Bind, It, X
    <3>4. Rest(i) \in [1..n -> X]
      BY <3>1, <3>2
    <3> HIDE DEF Rest
    <3>5. Rest(i) \in Seq(X)
      BY <3>4, SeqDef
    <3>6. <<It("anchored", entries[i].server)>> \in Seq(X)
      BY <3>3
    <3> QED
      BY <3>5, <3>6, ConcatProperties
  <2>3. parts \in [1..Len(entries) -> Seq(X)]
    <3> HIDE DEF It, Rest, X
    <3> QED
      BY <1>2, <2>2
  <2> HIDE DEF parts
  <2>4. parts \in Seq(Seq(X))
    <3> DEFINE W == Seq(X)
               n == Len(entries)
    <3>1. n \in Nat /\ parts \in [1..n -> W]
      BY <1>2, <2>3
    <3> HIDE DEF W, n
    <3>2. parts \in Seq(W)
      BY <3>1, SeqDef
    <3> QED
      BY <3>2 DEF W
  <2> HIDE DEF X
  <2>5. Flatten(parts) \in Seq(X)
    BY <2>4, FlattenType
  <2>6. \A j \in DOMAIN Flatten(parts) : Flatten(parts)[j] \in X
    BY <2>5
  <2> QED
    BY <1>7, <2>1, <2>6 DEF X, Fits
<1>8. CASE phase = "revoke-removed"
  <2>1. Work(k, phase) = plans[k].revocations
    BY <1>8 DEF Work
  <2>2. ASSUME NEW j \in DOMAIN plans[k].revocations
        PROVE  Fits(plans[k], phase, plans[k].revocations[j])
    <3>1. plans[k].revocations[j] \in RevokeItem
      BY <1>1
    <3> DEFINE x == plans[k].revocations[j]
    <3>2. x.kind = "revoke" /\ x.server \in Server
      BY <3>1 DEF RevokeItem
    <3>3. Removes(plans[k], x.server)
      BY DEF Removes
    <3> QED
      BY <1>8, <3>2, <3>3 DEF Fits
  <2> QED
    BY <2>1, <2>2
<1> QED
  BY <1>3, <1>4, <1>5, <1>6, <1>7, <1>8

\* The phases leave nothing of the plan out.
LEMMA WorkHasAll ==
    ASSUME PlansInv, NEW k \in 1..Len(plans)
    PROVE  /\ \E j \in DOMAIN Work(k, "publish-root") : Work(k, "publish-root")[j].kind = "root"
           /\ \A i \in DOMAIN plans[k].entries : \E j \in DOMAIN Work(k, "publish-resolvers") :
                 /\ Work(k, "publish-resolvers")[j].kind = "resolver"
                 /\ Work(k, "publish-resolvers")[j].server = plans[k].entries[i].server
           /\ \A e \in Endpoint, s \in Server : Owns(plans[k], e, s) =>
                 \E j \in DOMAIN Work(k, "bind-endpoints") :
                    /\ Work(k, "bind-endpoints")[j].kind = "bind"
                    /\ Work(k, "bind-endpoints")[j].server = s
                    /\ Work(k, "bind-endpoints")[j].endpoint = e
<1> DEFINE entries == plans[k].entries
           It(kind, s) == [kind |-> kind, server |-> s, endpoint |-> None]
<1>1. entries \in Seq(Entry)
  BY PlanType
<1>2. /\ Len(entries) \in Nat /\ DOMAIN entries = 1..Len(entries)
      /\ \A i \in 1..Len(entries) : /\ entries[i].server \in Server
                                    /\ entries[i].server \in ServersOf(entries)
                                    /\ entries[i].endpoints \in Seq(Endpoint)
  BY <1>1, EntryType DEF ServersOf
<1>3. \E j \in DOMAIN Work(k, "publish-root") : Work(k, "publish-root")[j].kind = "root"
  <2>1. Work(k, "publish-root") = <<It("root", None)>>
    BY DEF Work
  <2>2. It("root", None).kind = "root"
    OBVIOUS
  <2> HIDE DEF It
  <2>3. 1 \in DOMAIN <<It("root", None)>> /\ <<It("root", None)>>[1] = It("root", None)
    OBVIOUS
  <2> QED
    BY <2>1, <2>2, <2>3
<1>4. ASSUME NEW i \in DOMAIN entries
      PROVE  \E j \in DOMAIN Work(k, "publish-resolvers") :
                /\ Work(k, "publish-resolvers")[j].kind = "resolver"
                /\ Work(k, "publish-resolvers")[j].server = entries[i].server
  <2> DEFINE X == WorkItem(k)
             rest == [n \in DOMAIN entries |-> It("resolver", entries[n].server)]
             first == <<It("root-active", None)>>
             item == It("resolver", entries[i].server)
  <2>1. Work(k, "publish-resolvers") = first \o rest
    BY DEF Work
  <2>2. /\ \A n \in 1..Len(entries) : It("resolver", entries[n].server) \in X
        /\ It("root-active", None) \in X
    BY <1>2 DEF WorkItem, ServerItem, RootItem
  <2>3. item.kind = "resolver" /\ item.server = entries[i].server
    OBVIOUS
  <2> HIDE DEF It, X
  <2>4. rest \in [1..Len(entries) -> X] /\ rest[i] = item
    BY <1>2, <2>2
  <2>5. first \in Seq(X) /\ Len(first) = 1
    BY <2>2
  <2> HIDE DEF rest, first, item
  <2>6. rest \in Seq(X) /\ Len(rest) = Len(entries)
    BY <1>2, <2>4, SeqDef, SMTT(30)
  <2>7. Holds(rest, item)
    BY <1>2, <2>4, <2>6 DEF Holds
  <2>8. Holds(first \o rest, item) /\ first \o rest \in Seq(X)
    BY <2>5, <2>6, <2>7, ConcatHas, ConcatProperties
  <2>9. \E n \in DOMAIN (first \o rest) : (first \o rest)[n] = item
    BY <2>8 DEF Holds
  <2> QED
    BY <2>1, <2>3, <2>9
<1>5. ASSUME NEW e \in Endpoint, NEW s \in Server, Owns(plans[k], e, s)
      PROVE  \E j \in DOMAIN Work(k, "bind-endpoints") :
                /\ Work(k, "bind-endpoints")[j].kind = "bind"
                /\ Work(k, "bind-endpoints")[j].server = s
                /\ Work(k, "bind-endpoints")[j].endpoint = e
  <2> DEFINE X == WorkItem(k)
             Bind(i, j) == [kind |-> "bind", server |-> entries[i].server,
                            endpoint |-> entries[i].endpoints[j]]
             Rest(i) == [j \in DOMAIN entries[i].endpoints |-> Bind(i, j)]
             First(i) == <<It("anchored", entries[i].server)>>
             parts == [i \in DOMAIN entries |-> First(i) \o Rest(i)]
  <2>1. Work(k, "bind-endpoints") = Flatten(parts)
    BY DEF Work
  <2>2. ASSUME NEW i \in 1..Len(entries)
        PROVE  /\ First(i) \o Rest(i) \in Seq(X)
               /\ \A j \in DOMAIN entries[i].endpoints : Holds(First(i) \o Rest(i), Bind(i, j))
    <3>1. PICK n \in Nat : entries[i].endpoints \in [1..n -> Endpoint]
      BY <1>2, SeqDef
    <3>2. \A j \in 1..n : Bind(i, j) \in BindItem
      BY <1>2, <3>1 DEF BindItem
    <3>3. \A j \in 1..n : Bind(i, j) \in X
      BY <3>2 DEF WorkItem
    <3>4. It("anchored", entries[i].server) \in X
      BY <1>2 DEF WorkItem, ServerItem
    <3> HIDE DEF Bind, It, X
    <3>5. Rest(i) \in [1..n -> X] /\ \A j \in 1..n : Rest(i)[j] = Bind(i, j)
      BY <3>1, <3>3
    <3>6. First(i) \in Seq(X) /\ Len(First(i)) = 1
      BY <3>4
    <3> HIDE DEF Rest, First
    <3>7. Rest(i) \in Seq(X) /\ Len(Rest(i)) = n
      BY <3>5, SeqDef
    <3>8. First(i) \o Rest(i) \in Seq(X)
      BY <3>6, <3>7, ConcatProperties
    <3>9. ASSUME NEW j \in DOMAIN entries[i].endpoints
          PROVE  Holds(First(i) \o Rest(i), Bind(i, j))
      <4>1. j \in 1..Len(Rest(i)) /\ Rest(i)[j] = Bind(i, j)
        BY <3>1, <3>5, <3>7
      <4>2. Holds(Rest(i), Bind(i, j))
        BY <4>1 DEF Holds
      <4> QED
        BY <3>6, <3>7, <4>2, ConcatHas
    <3> QED
      BY <3>8, <3>9
  <2>3. parts \in [1..Len(entries) -> Seq(X)] /\ \A i \in 1..Len(entries) : parts[i] = First(i) \o Rest(i)
    <3> HIDE DEF First, Rest, X
    <3> QED
      BY <1>2, <2>2
  <2> HIDE DEF parts
  <2>4. parts \in Seq(Seq(X)) /\ Len(parts) = Len(entries)
    <3> DEFINE W == Seq(X)
               n == Len(entries)
    <3>1. n \in Nat /\ parts \in [1..n -> W]
      BY <1>2, <2>3
    <3> HIDE DEF W, n
    <3>2. parts \in Seq(W) /\ Len(parts) = n
      BY <3>1, SeqDef
    <3> QED
      BY <3>2 DEF W, n
  <2>5. PICK i \in 1..Len(entries) : entries[i].server = s /\ e \in Elements(entries[i].endpoints)
    BY <1>2, <1>5 DEF Owns
  <2>6. PICK j \in DOMAIN entries[i].endpoints : entries[i].endpoints[j] = e
    BY <2>5 DEF Elements
  <2>7. Bind(i, j).kind = "bind" /\ Bind(i, j).server = s /\ Bind(i, j).endpoint = e
    BY <2>5, <2>6
  <2> HIDE DEF X, First, Rest, Bind
  <2>8. Holds(parts[i], Bind(i, j))
    BY <2>2, <2>3
  <2>9. \E m \in DOMAIN Flatten(parts) : Flatten(parts)[m] = Bind(i, j)
    BY <2>4, <2>8, FlattenHas
  <2> QED
    BY <2>1, <2>7, <2>9
<1> QED
  BY <1>3, <1>4, <1>5

-----------------------------------------------------------------------------
(* What a mined transaction changes                                        *)

\* A root is written.
LEMMA RootApplied ==
    ASSUME RegInv, NEW tx \in RootTx, NEW after, after = Applied(tx)
    PROVE  /\ after.anchor = reg.anchor /\ after.bound = reg.bound
           /\ \A r \in 1..MaxPlans : r # tx.root => after.root[r] = reg.root[r]
           /\ after.root[tx.root] = [status |-> "ACTIVE", version |-> tx.version]
<1> DEFINE Roots == 1..MaxPlans
           record == [status |-> "ACTIVE", version |-> tx.version]
<1>1. tx.kind = "root" /\ tx.root \in Roots
  BY DEF RootTx
<1>2. after = [reg EXCEPT !.root[tx.root] = record]
  BY <1>1 DEF Applied
<1>3. reg \in [root : [Roots -> RootRecord], anchor : [Server -> Anchor],
               bound : [Endpoint -> Server \cup {None}]]
  BY DEF RegInv
<1> HIDE DEF Roots, record
<1>4. /\ after.anchor = reg.anchor /\ after.bound = reg.bound
      /\ after.root = [reg.root EXCEPT ![tx.root] = record]
  BY <1>2, <1>3
<1>5. reg.root \in [Roots -> RootRecord]
  BY <1>3
<1>6. after.root[tx.root] = record /\ \A r \in Roots : r # tx.root => after.root[r] = reg.root[r]
  BY <1>1, <1>4, <1>5
<1> QED
  BY <1>4, <1>6 DEF Roots, record

\* A resolver is written.
LEMMA AnchorApplied ==
    ASSUME RegInv, NEW tx \in AnchorTx, NEW after, after = Applied(tx)
    PROVE  /\ after.root = reg.root /\ after.bound = reg.bound
           /\ \A s \in Server : s # tx.server => after.anchor[s] = reg.anchor[s]
           /\ after.anchor[tx.server] = [status |-> "ACTIVE", version |-> tx.version,
                                         endpoints |-> tx.endpoints, root |-> tx.root]
<1> DEFINE record == [status |-> "ACTIVE", version |-> tx.version,
                      endpoints |-> tx.endpoints, root |-> tx.root]
<1>1. tx.kind \in {"publish", "update"} /\ tx.server \in Server
  BY DEF AnchorTx
<1>2. after = [reg EXCEPT !.anchor[tx.server] = record]
  BY <1>1 DEF Applied
<1>3. reg \in [root : [1..MaxPlans -> RootRecord], anchor : [Server -> Anchor],
               bound : [Endpoint -> Server \cup {None}]]
  BY DEF RegInv
<1> HIDE DEF record
<1>4. /\ after.root = reg.root /\ after.bound = reg.bound
      /\ after.anchor = [reg.anchor EXCEPT ![tx.server] = record]
  BY <1>2, <1>3
<1>5. reg.anchor \in [Server -> Anchor]
  BY <1>3
<1>6. /\ after.anchor[tx.server] = record
      /\ \A s \in Server : s # tx.server => after.anchor[s] = reg.anchor[s]
  BY <1>1, <1>4, <1>5
<1> QED
  BY <1>4, <1>6 DEF record

\* A resolver is revoked: its record stays, with another status.
LEMMA RevokeApplied ==
    ASSUME RegInv, NEW tx \in RevokeItem, NEW after, after = Applied(tx)
    PROVE  /\ after.root = reg.root /\ after.bound = reg.bound
           /\ \A s \in Server :
                 /\ s # tx.server => after.anchor[s] = reg.anchor[s]
                 /\ after.anchor[s].version = reg.anchor[s].version
                 /\ after.anchor[s].endpoints = reg.anchor[s].endpoints
                 /\ after.anchor[s].root = reg.anchor[s].root
           /\ after.anchor[tx.server].status = "REVOKED"
<1>1. tx.kind = "revoke" /\ tx.server \in Server
  BY DEF RevokeItem
<1>2. after = [reg EXCEPT !.anchor[tx.server].status = "REVOKED"]
  BY <1>1 DEF Applied
<1>3. reg \in [root : [1..MaxPlans -> RootRecord], anchor : [Server -> Anchor],
               bound : [Endpoint -> Server \cup {None}]]
  BY DEF RegInv
<1>4. reg.anchor \in [Server -> Anchor] /\ reg.anchor[tx.server] \in Anchor
  BY <1>1, <1>3
<1> DEFINE record == [reg.anchor[tx.server] EXCEPT !.status = "REVOKED"]
<1>5. /\ record.status = "REVOKED" /\ record.version = reg.anchor[tx.server].version
      /\ record.endpoints = reg.anchor[tx.server].endpoints
      /\ record.root = reg.anchor[tx.server].root
  BY <1>4 DEF Anchor
<1>6. after = [reg EXCEPT !.anchor[tx.server] = record]
  BY <1>2
<1> HIDE DEF record
<1>7. /\ after.root = reg.root /\ after.bound = reg.bound
      /\ after.anchor = [reg.anchor EXCEPT ![tx.server] = record]
  BY <1>3, <1>6
<1>8. /\ after.anchor[tx.server] = record
      /\ \A s \in Server : s # tx.server => after.anchor[s] = reg.anchor[s]
  BY <1>1, <1>4, <1>7
<1> QED
  BY <1>5, <1>7, <1>8

\* A root is revoked.
LEMMA RevokeRootApplied ==
    ASSUME RegInv, NEW tx \in RevokeRootTx, NEW after, after = Applied(tx)
    PROVE  /\ after.anchor = reg.anchor /\ after.bound = reg.bound
           /\ \A r \in 1..MaxPlans :
                 /\ r # tx.root => after.root[r] = reg.root[r]
                 /\ after.root[r].version = reg.root[r].version
           /\ after.root[tx.root].status = "REVOKED"
<1> DEFINE Roots == 1..MaxPlans
<1>1. tx.kind = "revoke-root" /\ tx.root \in Roots
  BY DEF RevokeRootTx
<1>2. after = [reg EXCEPT !.root[tx.root].status = "REVOKED"]
  BY <1>1 DEF Applied
<1>3. reg \in [root : [Roots -> RootRecord], anchor : [Server -> Anchor],
               bound : [Endpoint -> Server \cup {None}]]
  BY DEF RegInv
<1> HIDE DEF Roots
<1>4. reg.root \in [Roots -> RootRecord] /\ reg.root[tx.root] \in RootRecord
  BY <1>1, <1>3
<1> DEFINE record == [reg.root[tx.root] EXCEPT !.status = "REVOKED"]
<1>5. record.status = "REVOKED" /\ record.version = reg.root[tx.root].version
  BY <1>4 DEF RootRecord
<1>6. after = [reg EXCEPT !.root[tx.root] = record]
  BY <1>2
<1> HIDE DEF record
<1>7. /\ after.anchor = reg.anchor /\ after.bound = reg.bound
      /\ after.root = [reg.root EXCEPT ![tx.root] = record]
  BY <1>3, <1>6
<1>8. /\ after.root[tx.root] = record
      /\ \A r \in Roots : r # tx.root => after.root[r] = reg.root[r]
  BY <1>1, <1>4, <1>7
<1> QED
  BY <1>5, <1>7, <1>8 DEF Roots

\* A binding is made or removed.
LEMMA BindApplied ==
    ASSUME RegInv, NEW tx \in BindTx, NEW after, after = Applied(tx)
    PROVE  /\ after.root = reg.root /\ after.anchor = reg.anchor
           /\ \A e \in Endpoint : e # tx.endpoint => after.bound[e] = reg.bound[e]
           /\ tx.kind = "bind" => after.bound[tx.endpoint] = tx.server
           /\ tx.kind = "unbind" => after.bound[tx.endpoint] = None
<1> DEFINE owner == IF tx.kind = "bind" THEN tx.server ELSE None
<1>1. tx.kind \in {"bind", "unbind"} /\ tx.endpoint \in Endpoint
  BY DEF BindTx
<1>2. after = [reg EXCEPT !.bound[tx.endpoint] = owner]
  BY <1>1 DEF Applied
<1>3. reg \in [root : [1..MaxPlans -> RootRecord], anchor : [Server -> Anchor],
               bound : [Endpoint -> Server \cup {None}]]
  BY DEF RegInv
<1> HIDE DEF owner
<1>4. /\ after.root = reg.root /\ after.anchor = reg.anchor
      /\ after.bound = [reg.bound EXCEPT ![tx.endpoint] = owner]
  BY <1>2, <1>3
<1>5. reg.bound \in [Endpoint -> Server \cup {None}]
  BY <1>3
<1>6. after.bound[tx.endpoint] = owner /\ \A e \in Endpoint : e # tx.endpoint => after.bound[e] = reg.bound[e]
  BY <1>1, <1>4, <1>5
<1> QED
  BY <1>1, <1>4, <1>6 DEF owner

-----------------------------------------------------------------------------
(* The pools of a plan in its turn                                         *)

\* t is the queue q without its oldest transaction.
Shifted(q, t) == Len(t) = Len(q) - 1 /\ \A i \in 1..(Len(q) - 1) : t[i] = q[i + 1]

\* What is said of every waiting transaction holds when the oldest has left.
LEMMA ShiftKeeps ==
    ASSUME NEW q, NEW t, Len(q) \in Nat \ {0}, Shifted(q, t), NEW plan, NEW root, NEW revoked,
           NEW roots, NEW anchors, NEW bound
    PROVE  /\ RootQueue(q, roots, plan, root) => RootQueue(t, roots, plan, root)
           /\ ResolverQueue(q, anchors, plan, root) => ResolverQueue(t, anchors, plan, root)
           /\ RevokerQueue(q, anchors, plan, revoked) => RevokerQueue(t, anchors, plan, revoked)
           /\ EndpointQueue(q, bound, plan) => EndpointQueue(t, bound, plan)
<1>1. \A i \in 1..Len(t) : i + 1 \in 1..Len(q) /\ t[i] = q[i + 1]
  BY DEF Shifted
<1>2. \A i, j \in 1..Len(t) : i < j => i + 1 < j + 1
  BY DEF Shifted
<1>3. RootQueue(q, roots, plan, root) => RootQueue(t, roots, plan, root)
  BY <1>1 DEF RootQueue
<1>4. ResolverQueue(q, anchors, plan, root) => ResolverQueue(t, anchors, plan, root)
  BY <1>1 DEF ResolverQueue
<1>5. RevokerQueue(q, anchors, plan, revoked) => RevokerQueue(t, anchors, plan, revoked)
  BY <1>1 DEF RevokerQueue
<1>6. ASSUME EndpointQueue(q, bound, plan) PROVE EndpointQueue(t, bound, plan)
  <2>1. ASSUME NEW i \in 1..Len(t)
        PROVE  /\ t[i].kind = "bind" =>
                     /\ bound[t[i].endpoint] \in {None, t[i].server}
                     /\ \/ Owns(plan, t[i].endpoint, t[i].server)
                        \/ bound[t[i].endpoint] = t[i].server
               /\ t[i].kind = "unbind" =>
                     \/ bound[t[i].endpoint] = None
                     \/ Drops(plan, t[i].endpoint, bound[t[i].endpoint])
    <3>1. PICK m \in 1..Len(q) : t[i] = q[m]
      BY <1>1
    <3> QED
      BY <1>6, <3>1 DEF EndpointQueue
  <2>2. ASSUME NEW i \in 1..Len(t), NEW j \in 1..Len(t), i < j, t[i].endpoint = t[j].endpoint
        PROVE  /\ t[i].kind = "bind" /\ t[j].kind = "unbind" =>
                     Drops(plan, t[i].endpoint, t[i].server)
               /\ t[i].kind = "unbind" /\ t[j].kind = "bind" =>
                     Owns(plan, t[j].endpoint, t[j].server)
    <3>1. PICK m \in 1..Len(q) : t[i] = q[m] /\ m = i + 1
      BY <1>1
    <3>2. PICK n \in 1..Len(q) : t[j] = q[n] /\ n = j + 1
      BY <1>1
    <3>3. m < n /\ q[m].endpoint = q[n].endpoint
      BY <2>2, <3>1, <3>2
    <3> QED
      BY <1>6, <3>1, <3>2, <3>3 DEF EndpointQueue
  <2> QED
    BY <2>1, <2>2 DEF EndpointQueue
<1> QED
  BY <1>3, <1>4, <1>5, <1>6

\* A root or a resolver that is spent stays spent when versions only grow.
LEMMA RootQueueGrows ==
    ASSUME NEW q \in Seq(RootTx), NEW plan, NEW root, NEW before, NEW after,
           \A r \in 1..MaxPlans : /\ before[r].version \in Nat /\ after[r].version \in Nat
                                  /\ before[r].version <= after[r].version,
           RootQueue(q, before, plan, root)
    PROVE  RootQueue(q, after, plan, root)
<1> SUFFICES ASSUME NEW i \in 1..Len(q),
                    ~(q[i].root = root /\ q[i].version = plan.version)
             PROVE  q[i].version <= after[q[i].root].version
  BY DEF RootQueue
<1>1. q[i] \in RootTx
  OBVIOUS
<1>2. q[i].root \in 1..MaxPlans /\ q[i].version \in Nat
  BY <1>1 DEF RootTx
<1>3. q[i].version <= before[q[i].root].version
  BY DEF RootQueue
<1> QED
  BY <1>2, <1>3

\* Likewise for resolvers.
LEMMA ResolverQueueGrows ==
    ASSUME NEW q \in Seq(AnchorTx), NEW plan, NEW root, NEW before, NEW after,
           \A s \in Server : /\ before[s].version \in Nat /\ after[s].version \in Nat
                             /\ before[s].version <= after[s].version,
           ResolverQueue(q, before, plan, root)
    PROVE  ResolverQueue(q, after, plan, root)
<1> SUFFICES ASSUME NEW i \in 1..Len(q), ~OfEntry(plan, root, q[i].server, q[i])
             PROVE  q[i].version <= after[q[i].server].version
  BY DEF ResolverQueue
<1>1. q[i] \in AnchorTx
  OBVIOUS
<1>2. q[i].server \in Server /\ q[i].version \in Nat
  BY <1>1 DEF AnchorTx
<1>3. q[i].version <= before[q[i].server].version
  BY DEF ResolverQueue
<1> QED
  BY <1>2, <1>3

\* A revocation that changes nothing never does.
LEMMA RevokerQueueStays ==
    ASSUME NEW q \in Seq(RevokeItem \cup RevokeRootTx), NEW plan, NEW revoked,
           NEW before, NEW after,
           \A s \in Server : before[s].status = "REVOKED" => after[s].status = "REVOKED",
           RevokerQueue(q, before, plan, revoked)
    PROVE  RevokerQueue(q, after, plan, revoked)
<1>1. ASSUME NEW i \in 1..Len(q), q[i].kind = "revoke" PROVE q[i].server \in Server
  <2>1. q[i] \in RevokeItem \cup RevokeRootTx
    OBVIOUS
  <2>2. q[i] \notin RevokeRootTx
    BY <1>1 DEF RevokeRootTx
  <2> QED
    BY <2>1, <2>2 DEF RevokeItem
<1> QED
  BY <1>1 DEF RevokerQueue

\* An endpoint has one owner in a plan.
LEMMA OneOwner ==
    ASSUME NEW plan, EntriesSound(plan.entries), NEW e, NEW s, NEW z,
           Owns(plan, e, s), Owns(plan, e, z)
    PROVE  s = z
<1>1. PICK i \in DOMAIN plan.entries :
             plan.entries[i].server = s /\ e \in Elements(plan.entries[i].endpoints)
  BY DEF Owns
<1>2. PICK j \in DOMAIN plan.entries :
             plan.entries[j].server = z /\ e \in Elements(plan.entries[j].endpoints)
  BY DEF Owns
<1>3. Elements(plan.entries[i].endpoints) \cap Elements(plan.entries[j].endpoints) # {}
  BY <1>1, <1>2
<1>4. i = j
  BY <1>3, EntryUnique
<1> QED
  BY <1>1, <1>2, <1>4

\* What a binding or a removal does to the bindings.
Rebound(tx, bound, after) ==
    /\ \A e \in Endpoint : e # tx.endpoint => after[e] = bound[e]
    /\ tx.kind = "bind" => after[tx.endpoint] = tx.server
    /\ tx.kind = "unbind" => after[tx.endpoint] = None

\* A binding or a removal is mined: what waits behind it still does no harm.
LEMMA EndpointMined ==
    ASSUME NEW plan, EntriesSound(plan.entries),
           NEW q \in Seq(BindTx), q # <<>>, NEW t, Shifted(q, t), NEW bound, NEW after,
           EndpointQueue(q, bound, plan),
           Rebound(q[1], bound, after)
    PROVE  EndpointQueue(t, after, plan)
<1> DEFINE tx == q[1]
           e == tx.endpoint
<1>1. Len(q) \in Nat \ {0} /\ 1 \in 1..Len(q)
  OBVIOUS
<1>2. \A i \in 1..Len(t) : i + 1 \in 1..Len(q) /\ t[i] = q[i + 1] /\ 1 < i + 1
  BY <1>1 DEF Shifted
<1>3. \A i, j \in 1..Len(t) : i < j => i + 1 < j + 1
  BY <1>1 DEF Shifted
<1>4. \A i \in 1..Len(q) : q[i] \in BindTx
  OBVIOUS
<1>5. \A x \in BindTx : x.kind \in {"bind", "unbind"} /\ x.endpoint \in Endpoint /\ x.server \in Server
  BY DEF BindTx
<1>6. tx \in BindTx
  BY <1>1, <1>4
<1> HIDE DEF tx
<1>7. tx.kind \in {"bind", "unbind"} /\ e \in Endpoint
  BY <1>5, <1>6
<1>8. /\ \A f \in Endpoint : f # e => after[f] = bound[f]
      /\ tx.kind = "bind" => after[e] = tx.server
      /\ tx.kind = "unbind" => after[e] = None
  BY DEF tx, Rebound
<1>9. tx.kind = "bind" => /\ bound[e] \in {None, tx.server}
                          /\ Owns(plan, e, tx.server) \/ bound[e] = tx.server
  BY <1>1 DEF EndpointQueue, tx
<1>10. None \notin Server
  BY Parameters
<1>11. ASSUME NEW i \in 1..Len(t), t[i].kind = "bind"
       PROVE  /\ after[t[i].endpoint] \in {None, t[i].server}
              /\ \/ Owns(plan, t[i].endpoint, t[i].server)
                 \/ after[t[i].endpoint] = t[i].server
  <2> DEFINE x == t[i]
  <2>1. x = q[i + 1] /\ i + 1 \in 1..Len(q) /\ x \in BindTx
    BY <1>2, <1>4
  <2>2. /\ bound[x.endpoint] \in {None, x.server}
        /\ Owns(plan, x.endpoint, x.server) \/ bound[x.endpoint] = x.server
    BY <1>11, <2>1 DEF EndpointQueue
  <2>3. x.endpoint \in Endpoint /\ x.server \in Server
    BY <1>5, <2>1
  <2>4. CASE x.endpoint # e
    BY <1>8, <2>2, <2>3, <2>4
  <2>5. CASE x.endpoint = e /\ tx.kind = "bind"
    <3>1. x.server = tx.server
      <4>1. CASE bound[e] = x.server
        <5>1. bound[e] = tx.server
          BY <1>9, <1>10, <2>3, <2>5, <4>1
        <5> QED
          BY <4>1, <5>1
      <4>2. CASE bound[e] = tx.server
        <5>1. tx.server \in Server
          BY <1>5, <1>6
        <5> QED
          BY <1>10, <2>2, <2>5, <4>2, <5>1
      <4>3. CASE Owns(plan, e, x.server) /\ Owns(plan, e, tx.server)
        BY <4>3, OneOwner
      <4> QED
        BY <1>9, <2>2, <2>5, <4>1, <4>2, <4>3
    <3> QED
      BY <1>8, <2>5, <3>1
  <2>6. CASE x.endpoint = e /\ tx.kind = "unbind"
    <3>1. Owns(plan, x.endpoint, x.server)
      BY <1>1, <1>2, <1>11, <2>1, <2>6 DEF EndpointQueue, tx
    <3> QED
      BY <1>8, <2>6, <3>1
  <2> QED
    BY <1>7, <2>4, <2>5, <2>6
<1>12. ASSUME NEW i \in 1..Len(t), t[i].kind = "unbind"
       PROVE  \/ after[t[i].endpoint] = None
              \/ Drops(plan, t[i].endpoint, after[t[i].endpoint])
  <2> DEFINE x == t[i]
  <2>1. x = q[i + 1] /\ i + 1 \in 1..Len(q) /\ x \in BindTx
    BY <1>2, <1>4
  <2>2. bound[x.endpoint] = None \/ Drops(plan, x.endpoint, bound[x.endpoint])
    BY <1>12, <2>1 DEF EndpointQueue
  <2>3. x.endpoint \in Endpoint
    BY <1>5, <2>1
  <2>4. CASE x.endpoint # e
    BY <1>8, <2>2, <2>3, <2>4
  <2>5. CASE x.endpoint = e /\ tx.kind = "bind"
    <3>1. Drops(plan, e, tx.server)
      BY <1>1, <1>2, <1>12, <2>1, <2>5 DEF EndpointQueue, tx
    <3> QED
      BY <1>8, <2>5, <3>1
  <2>6. CASE x.endpoint = e /\ tx.kind = "unbind"
    BY <1>8, <2>6
  <2> QED
    BY <1>7, <2>4, <2>5, <2>6
<1>13. ASSUME NEW i \in 1..Len(t), NEW j \in 1..Len(t), i < j, t[i].endpoint = t[j].endpoint
       PROVE  /\ t[i].kind = "bind" /\ t[j].kind = "unbind" => Drops(plan, t[i].endpoint, t[i].server)
              /\ t[i].kind = "unbind" /\ t[j].kind = "bind" => Owns(plan, t[j].endpoint, t[j].server)
  <2>1. PICK m \in 1..Len(q) : t[i] = q[m] /\ m = i + 1
    BY <1>2
  <2>2. PICK n \in 1..Len(q) : t[j] = q[n] /\ n = j + 1
    BY <1>2
  <2>3. m < n /\ q[m].endpoint = q[n].endpoint
    BY <1>13, <2>1, <2>2
  <2> QED
    BY <2>1, <2>2, <2>3 DEF EndpointQueue
<1> QED
  BY <1>11, <1>12, <1>13 DEF EndpointQueue

\* A binding of the plan that is there stays, and a binding that the plan took
\* away does not come back.
LEMMA BindingsStay ==
    ASSUME NEW plan, RemovalsSound(plan), NEW q \in Seq(BindTx), q # <<>>, NEW bound, NEW after,
           EndpointQueue(q, bound, plan),
           Rebound(q[1], bound, after),
           NEW e \in Endpoint, NEW s \in Server
    PROVE  /\ Owns(plan, e, s) /\ bound[e] = s => after[e] = s
           /\ Drops(plan, e, s) /\ bound[e] # s => after[e] # s
<1> DEFINE tx == q[1]
<1>1. 1 \in 1..Len(q) /\ tx \in BindTx
  OBVIOUS
<1>2. tx.kind \in {"bind", "unbind"} /\ tx.endpoint \in Endpoint /\ tx.server \in Server
  BY <1>1 DEF BindTx
<1>3. None \notin Server
  BY Parameters
<1>4. /\ tx.kind = "bind" => /\ bound[tx.endpoint] \in {None, tx.server}
                             /\ \/ Owns(plan, tx.endpoint, tx.server)
                                \/ bound[tx.endpoint] = tx.server
      /\ tx.kind = "unbind" => \/ bound[tx.endpoint] = None
                               \/ Drops(plan, tx.endpoint, bound[tx.endpoint])
  BY <1>1 DEF EndpointQueue
<1> HIDE DEF tx
<1>5. /\ e # tx.endpoint => after[e] = bound[e]
      /\ tx.kind = "bind" => after[tx.endpoint] = tx.server
      /\ tx.kind = "unbind" => after[tx.endpoint] = None
  BY DEF tx, Rebound
<1>6. ~(Drops(plan, e, s) /\ Owns(plan, e, s))
  BY DEF RemovalsSound
<1>7. CASE e # tx.endpoint
  BY <1>5, <1>7
<1>8. CASE e = tx.endpoint /\ tx.kind = "bind"
  BY <1>2, <1>3, <1>4, <1>5, <1>6, <1>8
<1>9. CASE e = tx.endpoint /\ tx.kind = "unbind"
  BY <1>3, <1>4, <1>5, <1>6, <1>9
<1> QED
  BY <1>2, <1>7, <1>8, <1>9

-----------------------------------------------------------------------------
(* A transaction of a plan in its turn is mined                            *)

\* The items of a phase are about what is in the plan.
LEMMA ItemsOfPlan ==
    ASSUME PlansInv, NEW k \in 1..Len(plans), NEW phase \in Phase,
           NEW j \in DOMAIN Work(k, phase)
    PROVE  OfPlan(plans[k], Work(k, phase)[j])
<1> DEFINE item == Work(k, phase)[j]
<1>1. Fits(plans[k], phase, item)
  BY WorkFits
<1>2. item \in WorkItem(k)
  <2>1. Work(k, phase) \in Seq(WorkItem(k))
    BY WorkType
  <2> QED
    BY <2>1
<1> HIDE DEF item
<1>3. item.kind = "resolver" => item.server \in ServersOf(plans[k].entries)
  BY <1>2 DEF WorkItem, RootItem, ServerItem, BindItem, UnbindItem, RevokeItem
<1>4. \A s \in ServersOf(plans[k].entries) : s \in Server
  <2>1. plans[k].entries \in Seq(Entry)
    BY PlanType
  <2> QED
    BY <2>1, EntryType DEF ServersOf
<1>5. OfPlan(plans[k], item)
  BY <1>1, <1>3, <1>4 DEF Fits, OfPlan
<1> QED
  BY <1>5 DEF item

\* A transaction for an item, once accepted, does it.
LEMMA OwnDone ==
    ASSUME RegInv, NEW plan, NEW root, NEW servers, NEW item, OfPlan(plan, item), NEW tx,
           TxFor(plan, root, item, tx), NEW after, after = Applied(tx)
    PROVE  ItemDone(plan, root, after, servers, item)
<1>1. CASE item.kind = "root" /\ tx \in RootTx
  <2>1. tx.root = root /\ tx.version = plan.version
    BY <1>1 DEF TxFor
  <2>2. after.root[tx.root] = [status |-> "ACTIVE", version |-> tx.version]
    BY <1>1, RootApplied
  <2> QED
    BY <1>1, <2>1, <2>2 DEF ItemDone
<1>2. CASE item.kind = "resolver" /\ tx \in AnchorTx
  <2>1. tx.server = item.server /\ OfEntry(plan, root, item.server, tx)
    BY <1>2 DEF TxFor
  <2>2. after.anchor[tx.server] = [status |-> "ACTIVE", version |-> tx.version,
                                   endpoints |-> tx.endpoints, root |-> tx.root]
    BY <1>2, AnchorApplied
  <2>3. /\ after.anchor[item.server].status = "ACTIVE"
        /\ after.anchor[item.server].version = tx.version
        /\ after.anchor[item.server].endpoints = tx.endpoints
        /\ after.anchor[item.server].root = tx.root
    BY <2>1, <2>2
  <2>4. OfEntry(plan, root, item.server, after.anchor[item.server])
    BY <2>1, <2>3 DEF OfEntry
  <2> QED
    BY <1>2, <2>3, <2>4 DEF ItemDone
<1>3. CASE item.kind \in {"bind", "unbind"} /\ tx \in BindTx
  <2>1. tx.kind = item.kind /\ tx.server = item.server /\ tx.endpoint = item.endpoint
    BY <1>3 DEF TxFor
  <2>2. /\ tx.kind = "bind" => after.bound[tx.endpoint] = tx.server
        /\ tx.kind = "unbind" => after.bound[tx.endpoint] = None
    BY <1>3, BindApplied
  <2>3. item.server # None
    BY <1>3, Parameters DEF OfPlan
  <2> QED
    BY <1>3, <2>1, <2>2, <2>3 DEF ItemDone
<1>4. CASE item.kind = "revoke" /\ tx \in RevokeItem
  <2>1. tx.server = item.server
    BY <1>4 DEF TxFor
  <2>2. after.anchor[tx.server].status = "REVOKED"
    BY <1>4, RevokeApplied
  <2> QED
    BY <1>4, <2>1, <2>2 DEF ItemDone
<1> QED
  BY <1>1, <1>2, <1>3, <1>4 DEF TxFor

\* A root is mined: it is the plan's, and what waits behind it is spent or the
\* plan's as before.
LEMMA RootMined ==
    ASSUME RegInv, NEW plan, NEW root, NEW q \in Seq(RootTx), q # <<>>, NEW t \in Seq(RootTx),
           Shifted(q, t), RootQueue(q, reg.root, plan, root),
           Accepts(q[1]), NEW after, after = Applied(q[1])
    PROVE  /\ after.anchor = reg.anchor /\ after.bound = reg.bound
           /\ RootQueue(t, after.root, plan, root)
           /\ after.root[root].version = plan.version
<1> DEFINE tx == q[1]
<1>1. Len(q) \in Nat \ {0} /\ 1 \in 1..Len(q) /\ tx \in RootTx
  OBVIOUS
<1>2. tx.kind = "root" /\ tx.root \in 1..MaxPlans /\ tx.version \in Nat \ {0}
  BY <1>1 DEF RootTx
<1>3. /\ after.anchor = reg.anchor /\ after.bound = reg.bound
      /\ \A r \in 1..MaxPlans : r # tx.root => after.root[r] = reg.root[r]
      /\ after.root[tx.root] = [status |-> "ACTIVE", version |-> tx.version]
  BY <1>1, RootApplied
<1>4. \A r \in 1..MaxPlans : reg.root[r].version \in Nat
  BY DEF RegInv, RootRecord
<1>5. tx.version > reg.root[tx.root].version
  BY <1>2 DEF Accepts
<1>6. tx.root = root /\ tx.version = plan.version
  BY <1>1, <1>2, <1>4, <1>5 DEF RootQueue
<1> HIDE DEF tx
<1>7. after.root[tx.root].version = tx.version
  BY <1>3
<1>8. \A r \in 1..MaxPlans : /\ reg.root[r].version \in Nat /\ after.root[r].version \in Nat
                             /\ reg.root[r].version <= after.root[r].version
  BY <1>2, <1>3, <1>4, <1>5, <1>7, SMTT(30)
<1>9. RootQueue(t, reg.root, plan, root)
  BY <1>1, ShiftKeeps
<1> QED
  BY <1>3, <1>6, <1>7, <1>8, <1>9, RootQueueGrows

\* A resolver is mined: it is an entry of the plan, and nobody that was revoked.
LEMMA ResolverMined ==
    ASSUME RegInv, NEW plan, NEW root, NEW q \in Seq(AnchorTx), q # <<>>, NEW t \in Seq(AnchorTx),
           Shifted(q, t), ResolverQueue(q, reg.anchor, plan, root),
           Accepts(q[1]), NEW after, after = Applied(q[1])
    PROVE  /\ after.root = reg.root /\ after.bound = reg.bound
           /\ ResolverQueue(t, after.anchor, plan, root)
           /\ \A s \in Server : reg.anchor[s].status = "REVOKED" => after.anchor[s].status = "REVOKED"
           /\ \A s \in Server :
                 \/ after.anchor[s] = reg.anchor[s]
                 \/ /\ OfEntry(plan, root, s, after.anchor[s])
                    /\ after.anchor[s].status = "ACTIVE"
<1> DEFINE tx == q[1]
<1>1. Len(q) \in Nat \ {0} /\ 1 \in 1..Len(q) /\ tx \in AnchorTx
  OBVIOUS
<1>2. tx.kind \in {"publish", "update"} /\ tx.server \in Server /\ tx.version \in Nat \ {0}
  BY <1>1 DEF AnchorTx
<1>3. /\ after.root = reg.root /\ after.bound = reg.bound
      /\ \A s \in Server : s # tx.server => after.anchor[s] = reg.anchor[s]
      /\ after.anchor[tx.server] = [status |-> "ACTIVE", version |-> tx.version,
                                    endpoints |-> tx.endpoints, root |-> tx.root]
  BY <1>1, AnchorApplied
<1>4. /\ \A s \in Server : reg.anchor[s].version \in Nat
      /\ \A s \in Server : reg.anchor[s].status = "REVOKED" => reg.anchor[s].version # 0
  BY DEF RegInv, Anchor
<1>5. tx.version > reg.anchor[tx.server].version /\ reg.anchor[tx.server].status # "REVOKED"
  <2>1. CASE tx.kind = "publish"
    BY <1>2, <1>4, <2>1 DEF Accepts
  <2>2. CASE tx.kind = "update"
    BY <2>2 DEF Accepts, AcceptsUpdate
  <2> QED
    BY <1>2, <2>1, <2>2
<1>6. OfEntry(plan, root, tx.server, tx)
  BY <1>1, <1>2, <1>4, <1>5 DEF ResolverQueue
<1> HIDE DEF tx
<1>7. /\ after.anchor[tx.server].version = tx.version
      /\ after.anchor[tx.server].endpoints = tx.endpoints
      /\ after.anchor[tx.server].root = tx.root
      /\ after.anchor[tx.server].status = "ACTIVE"
  BY <1>3
<1>8. OfEntry(plan, root, tx.server, after.anchor[tx.server])
  BY <1>6, <1>7 DEF OfEntry
<1>9. \A s \in Server : /\ reg.anchor[s].version \in Nat /\ after.anchor[s].version \in Nat
                        /\ reg.anchor[s].version <= after.anchor[s].version
  BY <1>2, <1>3, <1>4, <1>5, <1>7
<1>10. ResolverQueue(t, after.anchor, plan, root)
  <2>1. ResolverQueue(t, reg.anchor, plan, root)
    BY <1>1, ShiftKeeps
  <2> QED
    BY <1>9, <2>1, ResolverQueueGrows
<1>11. \A s \in Server : reg.anchor[s].status = "REVOKED" => after.anchor[s].status = "REVOKED"
  BY <1>3, <1>5
<1>12. \A s \in Server : \/ after.anchor[s] = reg.anchor[s]
                         \/ /\ OfEntry(plan, root, s, after.anchor[s])
                            /\ after.anchor[s].status = "ACTIVE"
  BY <1>3, <1>7, <1>8
<1> QED
  BY <1>3, <1>10, <1>11, <1>12

\* A revocation is mined: it takes no entry of the plan out, unless one was
\* revoked by hand.
LEMMA RevokerMined ==
    ASSUME RegInv, NEW plan, RemovalsSound(plan), NEW revoked,
           NEW q \in Seq(RevokeItem \cup RevokeRootTx), q # <<>>,
           NEW t \in Seq(RevokeItem \cup RevokeRootTx),
           Shifted(q, t), RevokerQueue(q, reg.anchor, plan, revoked),
           NEW after, after = Applied(q[1])
    PROVE  /\ after.bound = reg.bound
           /\ \A r \in 1..MaxPlans : after.root[r].version = reg.root[r].version
           /\ RevokerQueue(t, after.anchor, plan, revoked)
           /\ \A s \in Server :
                 /\ after.anchor[s].version = reg.anchor[s].version
                 /\ after.anchor[s].endpoints = reg.anchor[s].endpoints
                 /\ after.anchor[s].root = reg.anchor[s].root
                 /\ after.anchor[s].status \in {reg.anchor[s].status, "REVOKED"}
                 /\ s \in ServersOf(plan.entries) =>
                       after.anchor[s].status = reg.anchor[s].status \/ s \in revoked.servers
<1> DEFINE tx == q[1]
<1>1. Len(q) \in Nat \ {0} /\ 1 \in 1..Len(q) /\ tx \in RevokeItem \cup RevokeRootTx
  OBVIOUS
<1>2. RevokerQueue(t, reg.anchor, plan, revoked)
  BY <1>1, ShiftKeeps
<1>3. tx.kind = "revoke" => \/ tx.server \in revoked.servers \/ Removes(plan, tx.server)
                            \/ reg.anchor[tx.server].status = "REVOKED"
  BY <1>1 DEF RevokerQueue
<1>4. after = Applied(tx)
  OBVIOUS
<1> HIDE DEF tx
<1>5. CASE tx \in RevokeItem
  <2>1. tx.kind = "revoke" /\ tx.server \in Server
    BY <1>5 DEF RevokeItem
  <2>2. /\ after.root = reg.root /\ after.bound = reg.bound
        /\ \A s \in Server :
              /\ s # tx.server => after.anchor[s] = reg.anchor[s]
              /\ after.anchor[s].version = reg.anchor[s].version
              /\ after.anchor[s].endpoints = reg.anchor[s].endpoints
              /\ after.anchor[s].root = reg.anchor[s].root
        /\ after.anchor[tx.server].status = "REVOKED"
    BY <1>4, <1>5, RevokeApplied
  <2>3. \A s \in Server : after.anchor[s].status \in {reg.anchor[s].status, "REVOKED"}
    BY <2>2
  <2>4. RevokerQueue(t, after.anchor, plan, revoked)
    <3>1. \A s \in Server : reg.anchor[s].status = "REVOKED" => after.anchor[s].status = "REVOKED"
      BY <2>3
    <3> QED
      BY <1>2, <3>1, RevokerQueueStays
  <2>5. ASSUME NEW s \in Server, s \in ServersOf(plan.entries)
        PROVE  after.anchor[s].status = reg.anchor[s].status \/ s \in revoked.servers
    <3>1. ~Removes(plan, s)
      BY <2>5 DEF RemovalsSound
    <3> QED
      BY <1>3, <2>1, <2>2, <3>1
  <2> QED
    BY <2>2, <2>3, <2>4, <2>5
<1>6. CASE tx \in RevokeRootTx
  <2>1. /\ after.anchor = reg.anchor /\ after.bound = reg.bound
        /\ \A r \in 1..MaxPlans : after.root[r].version = reg.root[r].version
    BY <1>4, <1>6, RevokeRootApplied
  <2> QED
    BY <1>2, <2>1
<1> QED
  BY <1>1, <1>5, <1>6

\* A transaction of the newest plan, or an older one, is mined and accepted:
\* the pools stay harmless, what was done stays done, and nothing is bound or
\* active that is not the plan's or was there.
LEMMA AcceptedKeeps ==
    ASSUME PoolInv, RegInv, KindsInv, NEW plan, EntriesSound(plan.entries), RemovalsSound(plan),
           NEW root \in 1..MaxPlans, NEW revoked, NEW role \in Role, pool[role] # <<>>,
           Queues(pool, reg, plan, root, revoked), Accepts(pool[role][1]),
           NEW after, after = Applied(pool[role][1]),
           NEW queues, queues = [pool EXCEPT ![role] = Without(@, 1)]
    PROVE  /\ Queues(queues, after, plan, root, revoked)
           /\ \A item : OfPlan(plan, item) /\ ItemDone(plan, root, reg, revoked.servers, item)
                          => ItemDone(plan, root, after, revoked.servers, item)
           /\ \A e \in Endpoint : \/ after.bound[e] \in {None, reg.bound[e]}
                                  \/ Owns(plan, e, after.bound[e])
           /\ \A s \in Server : after.anchor[s].status = "ACTIVE" =>
                 reg.anchor[s].status = "ACTIVE" \/ s \in ServersOf(plan.entries)
<1> DEFINE q == pool[role]
           t == Without(q, 1)
<1>1. /\ RootQueue(pool["root"], reg.root, plan, root)
      /\ ResolverQueue(pool["resolver"], reg.anchor, plan, root)
      /\ RevokerQueue(pool["revoker"], reg.anchor, plan, revoked)
      /\ EndpointQueue(pool["endpoint"], reg.bound, plan)
  BY DEF Queues
<1>2. /\ pool["root"] \in Seq(RootTx) /\ pool["resolver"] \in Seq(AnchorTx)
      /\ pool["endpoint"] \in Seq(BindTx)
      /\ pool["revoker"] \in Seq(RevokeItem \cup RevokeRootTx)
  BY DEF KindsInv
<1>3. queues[role] = t /\ \A other \in Role : other # role => queues[other] = pool[other]
  BY DEF PoolInv
<1>4. {"root", "resolver", "endpoint", "revoker"} = Role
  BY DEF Role
<1>5. ASSUME NEW X, q \in Seq(X) PROVE t \in Seq(X) /\ Shifted(q, t)
  BY <1>5, WithoutOldest DEF Shifted
<1> HIDE DEF t
<1>6. CASE role = "root"
  <2>1. q \in Seq(RootTx) /\ RootQueue(q, reg.root, plan, root)
    BY <1>1, <1>2, <1>6
  <2>2. t \in Seq(RootTx) /\ Shifted(q, t)
    BY <1>5, <2>1
  <2> HIDE DEF q
  <2>3. /\ after.anchor = reg.anchor /\ after.bound = reg.bound
        /\ RootQueue(t, after.root, plan, root) /\ after.root[root].version = plan.version
    BY <2>1, <2>2, RootMined DEF q
  <2>4. Queues(queues, after, plan, root, revoked)
    BY <1>1, <1>3, <1>4, <1>6, <2>3 DEF Queues
  <2>5. ASSUME NEW item, OfPlan(plan, item), ItemDone(plan, root, reg, revoked.servers, item)
        PROVE  ItemDone(plan, root, after, revoked.servers, item)
    BY <2>3, <2>5 DEF ItemDone
  <2> QED
    BY <2>3, <2>4, <2>5
<1>7. CASE role = "resolver"
  <2>1. q \in Seq(AnchorTx) /\ ResolverQueue(q, reg.anchor, plan, root)
    BY <1>1, <1>2, <1>7
  <2>2. t \in Seq(AnchorTx) /\ Shifted(q, t)
    BY <1>5, <2>1
  <2> HIDE DEF q
  <2>3. /\ after.root = reg.root /\ after.bound = reg.bound
        /\ ResolverQueue(t, after.anchor, plan, root)
        /\ \A s \in Server : reg.anchor[s].status = "REVOKED" => after.anchor[s].status = "REVOKED"
        /\ \A s \in Server : \/ after.anchor[s] = reg.anchor[s]
                             \/ /\ OfEntry(plan, root, s, after.anchor[s])
                                /\ after.anchor[s].status = "ACTIVE"
    BY <2>1, <2>2, ResolverMined DEF q
  <2>4. RevokerQueue(pool["revoker"], after.anchor, plan, revoked)
    BY <1>1, <1>2, <2>3, RevokerQueueStays
  <2>5. Queues(queues, after, plan, root, revoked)
    BY <1>1, <1>3, <1>4, <1>7, <2>3, <2>4 DEF Queues
  <2>6. ASSUME NEW item, OfPlan(plan, item), ItemDone(plan, root, reg, revoked.servers, item)
        PROVE  ItemDone(plan, root, after, revoked.servers, item)
    <3>1. item.kind \in {"resolver", "revoke"} => item.server \in Server
      BY <2>6 DEF OfPlan
    <3> QED
      BY <2>3, <2>6, <3>1 DEF ItemDone
  <2>7. ASSUME NEW s \in Server, after.anchor[s].status = "ACTIVE"
        PROVE  reg.anchor[s].status = "ACTIVE" \/ s \in ServersOf(plan.entries)
    BY <2>3, <2>7 DEF OfEntry, ServersOf
  <2> QED
    BY <2>3, <2>5, <2>6, <2>7
<1>8. CASE role = "endpoint"
  <2>1. q \in Seq(BindTx) /\ EndpointQueue(q, reg.bound, plan)
    BY <1>1, <1>2, <1>8
  <2>2. t \in Seq(BindTx) /\ Shifted(q, t)
    BY <1>5, <2>1
  <2>3. q # <<>> /\ after = Applied(q[1])
    OBVIOUS
  <2> HIDE DEF q
  <2>4. q[1] \in BindTx /\ 1 \in 1..Len(q)
    BY <2>1, <2>3
  <2>5. /\ after.root = reg.root /\ after.anchor = reg.anchor
        /\ \A e \in Endpoint : e # q[1].endpoint => after.bound[e] = reg.bound[e]
        /\ q[1].kind = "bind" => after.bound[q[1].endpoint] = q[1].server
        /\ q[1].kind = "unbind" => after.bound[q[1].endpoint] = None
    BY <2>3, <2>4, BindApplied
  <2>6. EndpointQueue(t, after.bound, plan)
    <3>1. Rebound(q[1], reg.bound, after.bound)
      BY <2>5 DEF Rebound
    <3> QED
      BY <2>1, <2>2, <2>3, <3>1, EndpointMined
  <2>7. Queues(queues, after, plan, root, revoked)
    BY <1>1, <1>3, <1>4, <1>8, <2>5, <2>6 DEF Queues
  <2>8. ASSUME NEW e \in Endpoint, NEW s \in Server
        PROVE  /\ Owns(plan, e, s) /\ reg.bound[e] = s => after.bound[e] = s
               /\ Drops(plan, e, s) /\ reg.bound[e] # s => after.bound[e] # s
    <3>1. Rebound(q[1], reg.bound, after.bound)
      BY <2>5 DEF Rebound
    <3> QED
      BY <2>1, <2>3, <3>1, BindingsStay
  <2>9. ASSUME NEW item, OfPlan(plan, item), ItemDone(plan, root, reg, revoked.servers, item)
        PROVE  ItemDone(plan, root, after, revoked.servers, item)
    <3>1. item.kind = "bind" => after.bound[item.endpoint] = item.server
      BY <2>8, <2>9 DEF ItemDone, OfPlan
    <3>2. item.kind = "unbind" => after.bound[item.endpoint] # item.server
      BY <2>8, <2>9 DEF ItemDone, OfPlan
    <3> QED
      BY <2>5, <2>9, <3>1, <3>2 DEF ItemDone
  <2>10. ASSUME NEW e \in Endpoint
         PROVE  after.bound[e] \in {None, reg.bound[e]} \/ Owns(plan, e, after.bound[e])
    <3>1. q[1].kind \in {"bind", "unbind"}
      BY <2>4 DEF BindTx
    <3>2. q[1].kind = "bind" => \/ Owns(plan, q[1].endpoint, q[1].server)
                                \/ reg.bound[q[1].endpoint] = q[1].server
      BY <2>1, <2>4 DEF EndpointQueue
    <3> QED
      BY <2>5, <3>1, <3>2
  <2> QED
    BY <2>5, <2>7, <2>9, <2>10
<1>9. CASE role = "revoker"
  <2>1. q \in Seq(RevokeItem \cup RevokeRootTx) /\ RevokerQueue(q, reg.anchor, plan, revoked)
    BY <1>1, <1>2, <1>9
  <2>2. t \in Seq(RevokeItem \cup RevokeRootTx) /\ Shifted(q, t)
    BY <1>5, <2>1
  <2> HIDE DEF q
  <2>3. /\ after.bound = reg.bound
        /\ \A r \in 1..MaxPlans : after.root[r].version = reg.root[r].version
        /\ RevokerQueue(t, after.anchor, plan, revoked)
        /\ \A s \in Server :
              /\ after.anchor[s].version = reg.anchor[s].version
              /\ after.anchor[s].endpoints = reg.anchor[s].endpoints
              /\ after.anchor[s].root = reg.anchor[s].root
              /\ after.anchor[s].status \in {reg.anchor[s].status, "REVOKED"}
              /\ s \in ServersOf(plan.entries) =>
                    after.anchor[s].status = reg.anchor[s].status \/ s \in revoked.servers
    BY <2>1, <2>2, RevokerMined DEF q
  <2>4. RootQueue(pool["root"], after.root, plan, root)
    <3>1. \A r \in 1..MaxPlans : /\ reg.root[r].version \in Nat /\ after.root[r].version \in Nat
                                 /\ reg.root[r].version <= after.root[r].version
      <4>1. \A r \in 1..MaxPlans : reg.root[r].version \in Nat
        BY DEF RegInv, RootRecord
      <4> QED
        BY <2>3, <4>1
    <3> QED
      BY <1>1, <1>2, <3>1, RootQueueGrows
  <2>5. ResolverQueue(pool["resolver"], after.anchor, plan, root)
    <3>1. \A s \in Server : /\ reg.anchor[s].version \in Nat /\ after.anchor[s].version \in Nat
                            /\ reg.anchor[s].version <= after.anchor[s].version
      <4>1. \A s \in Server : reg.anchor[s].version \in Nat
        BY DEF RegInv, Anchor
      <4> QED
        BY <2>3, <4>1, SMTT(30)
    <3> QED
      BY <1>1, <1>2, <3>1, ResolverQueueGrows
  <2>6. Queues(queues, after, plan, root, revoked)
    BY <1>1, <1>3, <1>4, <1>9, <2>3, <2>4, <2>5 DEF Queues
  <2>7. ASSUME NEW item, OfPlan(plan, item), ItemDone(plan, root, reg, revoked.servers, item)
        PROVE  ItemDone(plan, root, after, revoked.servers, item)
    <3>1. ASSUME item.kind = "resolver"
          PROVE  /\ OfEntry(plan, root, item.server, after.anchor[item.server])
                 /\ \/ after.anchor[item.server].status = "ACTIVE"
                    \/ item.server \in revoked.servers
      <4>1. item.server \in Server /\ item.server \in ServersOf(plan.entries)
        BY <2>7, <3>1 DEF OfPlan
      <4>2. /\ OfEntry(plan, root, item.server, reg.anchor[item.server])
            /\ reg.anchor[item.server].status = "ACTIVE" \/ item.server \in revoked.servers
        BY <2>7, <3>1 DEF ItemDone
      <4>3. OfEntry(plan, root, item.server, after.anchor[item.server])
        BY <2>3, <4>1, <4>2 DEF OfEntry
      <4> QED
        BY <2>3, <4>1, <4>2, <4>3
    <3>2. item.kind = "revoke" => after.anchor[item.server].status = "REVOKED"
      BY <2>3, <2>7 DEF ItemDone, OfPlan
    <3> QED
      BY <2>3, <2>7, <3>1, <3>2 DEF ItemDone
  <2> QED
    BY <2>3, <2>6, <2>7
<1> QED
  BY <1>4, <1>6, <1>7, <1>8, <1>9

-----------------------------------------------------------------------------
(* What a command decides                                                  *)

\* An item that is skipped is done; otherwise the transaction is the item's,
\* and an endpoint is taken from the server that has it.
LEMMA DecideFits ==
    ASSUME PublicationInv, NEW k \in 1..Len(plans), NEW item \in WorkItem(k),
           OfPlan(plans[k], item), NEW servers, NEW tx, tx = Decide(k, item)
    PROVE  \/ tx = Skip /\ ItemDone(plans[k], RootOf(k), reg, servers, item)
           \/ tx = Conflict
           \/ /\ TxFor(plans[k], RootOf(k), item, tx)
              /\ tx.kind = "unbind" => reg.bound[tx.endpoint] = tx.server
<1> DEFINE plan == plans[k]
           root == RootOf(k)
<1>1. root \in 1..MaxPlans /\ plan.version \in Nat \ {0} /\ plan.entries \in Seq(Entry)
  <2>1. PlansInv /\ k \in Nat \ {0} /\ k <= MaxPlans /\ MaxPlans \in Nat
    BY PlanType, Parameters DEF PublicationInv
  <2>2. root \in 1..k
    BY <2>1, RootOfType
  <2> QED
    BY <2>1, <2>2, PlanType
<1>2. RegInv
  BY DEF PublicationInv
<1> HIDE DEF root
<1>3. CASE item \in RootItem
  <2>1. item.kind \in {"root", "root-active"}
    BY <1>3 DEF RootItem
  <2>2. CASE item.kind = "root-active"
    <3>1. tx \in {Skip, Conflict}
      BY <2>2 DEF Decide
    <3> QED
      BY <2>2, <3>1 DEF ItemDone
  <2>3. CASE item.kind = "root"
    <3>1. tx = DecideRoot(k, item)
      BY <2>3 DEF Decide
    <3>2. CASE tx = Tx(k, "root", item)
      <4>1. tx = [kind |-> "root", root |-> root, version |-> plan.version]
        BY <3>2 DEF Tx, root
      <4>2. tx \in RootTx /\ tx.root = root /\ tx.version = plan.version /\ tx.kind = "root"
        BY <1>1, <4>1 DEF RootTx
      <4> QED
        BY <2>3, <4>2 DEF TxFor, root
    <3>3. CASE tx = Skip /\ tx # Tx(k, "root", item)
      <4>1. reg.root[root].version = plan.version
        BY <3>1, <3>3 DEF DecideRoot, Skip, Conflict, root
      <4> QED
        BY <2>3, <3>3, <4>1 DEF ItemDone, root
    <3> QED
      BY <3>1, <3>2, <3>3 DEF DecideRoot
  <2> QED
    BY <2>1, <2>2, <2>3
<1>4. CASE item \in ServerItem(k)
  <2>1. item.kind \in {"resolver", "anchored"} /\ item.server \in ServersOf(plan.entries)
    BY <1>4 DEF ServerItem
  <2> DEFINE entries == plan.entries
             e == EntryOf(entries, item.server)
  <2>2. PICK i \in DOMAIN entries : entries[i].server = item.server /\ e = entries[i]
    BY <2>1, EntryFound
  <2>3. item.server \in Server /\ e.version \in Nat \ {0} /\ e.endpoints \in Seq(Endpoint)
    BY <1>1, <2>2, EntryType
  <2>4. CASE item.kind = "anchored"
    <3>1. tx \in {Skip, Conflict}
      BY <2>4 DEF Decide, DecideAnchored
    <3> QED
      BY <2>4, <3>1 DEF ItemDone
  <2>5. CASE item.kind = "resolver"
    <3>1. tx = DecideResolver(k, item)
      BY <2>5 DEF Decide
    <3>2. ASSUME NEW kind \in {"publish", "update"}, tx = Tx(k, kind, item)
          PROVE  TxFor(plan, root, item, tx) /\ tx.kind # "unbind"
      <4>1. tx = [kind |-> kind, server |-> item.server, root |-> root,
                  version |-> e.version, endpoints |-> e.endpoints]
        BY <3>2 DEF Tx, root
      <4> HIDE DEF e
      <4>2. /\ tx \in AnchorTx /\ tx.server = item.server /\ tx.kind # "unbind"
            /\ tx.version = e.version /\ tx.endpoints = e.endpoints /\ tx.root = root
        BY <1>1, <2>3, <4>1 DEF AnchorTx
      <4>3. OfEntry(plan, root, item.server, tx)
        BY <2>2, <4>2 DEF OfEntry
      <4> QED
        BY <2>5, <4>2, <4>3 DEF TxFor
    <3>3. CASE /\ tx = Skip
               /\ reg.anchor[item.server] = [status |-> "ACTIVE", version |-> e.version,
                                             endpoints |-> e.endpoints, root |-> root]
      <4> DEFINE a == reg.anchor[item.server]
      <4>1. /\ a.status = "ACTIVE" /\ a.version = e.version /\ a.endpoints = e.endpoints
            /\ a.root = root
        BY <3>3
      <4> HIDE DEF a, e
      <4>2. OfEntry(plan, root, item.server, a)
        BY <2>2, <4>1 DEF OfEntry
      <4>3. ItemDone(plan, root, reg, servers, item)
        BY <2>5, <4>1, <4>2 DEF ItemDone, a
      <4> QED
        BY <3>3, <4>3 DEF root
    <3>4. \/ tx = Tx(k, "publish", item) \/ tx = Tx(k, "update", item) \/ tx = Conflict
          \/ /\ tx = Skip
             /\ reg.anchor[item.server] = [status |-> "ACTIVE", version |-> e.version,
                                           endpoints |-> e.endpoints, root |-> root]
      BY <3>1 DEF DecideResolver, root
    <3> QED
      BY <3>2, <3>3, <3>4 DEF root
  <2> QED
    BY <2>1, <2>4, <2>5
<1>5. CASE item \in BindItem \cup UnbindItem
  <2>1. item.kind \in {"bind", "unbind"} /\ item.server \in Server /\ item.endpoint \in Endpoint
    BY <1>5 DEF BindItem, UnbindItem
  <2>2. item.server # None
    BY <2>1, Parameters
  <2>3. ASSUME tx = Tx(k, item.kind, item)
        PROVE  /\ TxFor(plan, root, item, tx) /\ tx.kind = item.kind
               /\ tx.server = item.server /\ tx.endpoint = item.endpoint
    <3>1. tx = [kind |-> item.kind, server |-> item.server, endpoint |-> item.endpoint]
      BY <2>1, <2>3 DEF Tx
    <3>2. /\ tx \in BindTx /\ tx.kind = item.kind /\ tx.server = item.server
          /\ tx.endpoint = item.endpoint
      BY <2>1, <3>1 DEF BindTx
    <3> QED
      BY <2>1, <3>2 DEF TxFor
  <2>4. CASE item.kind = "bind"
    <3>1. \/ tx = Conflict \/ tx = Tx(k, item.kind, item)
          \/ tx = Skip /\ reg.bound[item.endpoint] = item.server
      BY <2>4 DEF Decide, DecideBind
    <3>2. CASE tx = Skip /\ reg.bound[item.endpoint] = item.server
      BY <2>4, <3>2 DEF ItemDone
    <3> QED
      BY <2>3, <2>4, <3>1, <3>2 DEF root
  <2>5. CASE item.kind = "unbind"
    <3>1. \/ tx = Conflict
          \/ tx = Tx(k, item.kind, item) /\ reg.bound[item.endpoint] = item.server
          \/ tx = Skip /\ reg.bound[item.endpoint] = None
      BY <2>5 DEF Decide, DecideUnbind
    <3>2. CASE tx = Skip /\ reg.bound[item.endpoint] = None
      BY <2>2, <2>5, <3>2 DEF ItemDone
    <3> QED
      BY <2>3, <2>5, <3>1, <3>2 DEF root
  <2> QED
    BY <2>1, <2>4, <2>5
<1>6. CASE item \in RevokeItem
  <2>1. item.kind = "revoke" /\ item.server \in Server /\ item.endpoint = None
    BY <1>6 DEF RevokeItem
  <2>2. \/ tx = Conflict \/ tx = Tx(k, "revoke", item)
        \/ tx = Skip /\ reg.anchor[item.server].status = "REVOKED"
    BY <2>1 DEF Decide, DecideRevoke
  <2>3. CASE tx = Tx(k, "revoke", item)
    <3>1. tx = [kind |-> "revoke", server |-> item.server, endpoint |-> None]
      BY <2>1, <2>3 DEF Tx
    <3>2. tx \in RevokeItem /\ tx.server = item.server /\ tx.kind = "revoke"
      BY <2>1, <3>1 DEF RevokeItem
    <3> QED
      BY <2>1, <3>2 DEF TxFor
  <2>4. CASE tx = Skip /\ reg.anchor[item.server].status = "REVOKED"
    BY <2>1, <2>4 DEF ItemDone
  <2> QED
    BY <2>2, <2>3, <2>4
<1> QED
  BY <1>3, <1>4, <1>5, <1>6 DEF WorkItem

-----------------------------------------------------------------------------
(* Commands keep the order                                                 *)

\* What depends on the plans only.
LEMMA PlansStay ==
    ASSUME plans' = plans, carried' = carried
    PROVE  /\ Newest' = Newest /\ RootOf(Newest)' = RootOf(Newest)
           /\ InTurn' = InTurn /\ Chained' = Chained
           /\ (\A k \in 1..Newest : RemovalsInv(k)) => (\A k \in 1..Newest : RemovalsInv(k))'
           /\ \A k, phase : Work(k, phase)' = Work(k, phase)
<1>1. Newest' = Newest /\ RootOf(Newest)' = RootOf(Newest)
  BY DEF Newest, RootOf
<1>2. InTurn' = InTurn
  BY <1>1 DEF InTurn
<1>3. Chained' = Chained
  BY <1>1, <1>2 DEF Chained
<1>4. (\A k \in 1..Newest : RemovalsInv(k)) => (\A k \in 1..Newest : RemovalsInv(k))'
  BY <1>1 DEF RemovalsInv
<1>5. \A k, phase : Work(k, phase)' = Work(k, phase)
  BY DEF Work
<1> QED
  BY <1>1, <1>2, <1>3, <1>4, <1>5

\* A step of the command alone.
LEMMA CommandTurn ==
    ASSUME TurnInv, UNCHANGED <<reg, pool, plans, done, carried, hand>>,
           Newest = 0 => Ready', Newest > 0 /\ InTurn => WorkInv'
    PROVE  TurnInv'
<1>1. /\ Newest' = Newest /\ RootOf(Newest)' = RootOf(Newest)
      /\ InTurn' = InTurn /\ Chained' = Chained
      /\ (\A k \in 1..Newest : RemovalsInv(k)) => (\A k \in 1..Newest : RemovalsInv(k))'
      /\ \A k, phase : Work(k, phase)' = Work(k, phase)
  BY PlansStay
<1>2. (\A k \in 1..Newest : RemovalsInv(k))'
  BY <1>1 DEF TurnInv
<1>3. (InTurn => KindsInv /\ KnownInv)'
  BY <1>1 DEF TurnInv, KindsInv, KnownInv
<1>4. (done \in SUBSET Phase /\ carried \in SUBSET (0..(Newest - 1)))'
  BY <1>1 DEF TurnInv
<1>5. (Newest = 0 => NothingYet /\ Ready /\ done = {})'
  BY <1>1 DEF TurnInv, NothingYet
<1>6. (Newest > 0 /\ InTurn => QueuesInv /\ DoneInv /\ WorkInv)'
  <2>1. SUFFICES ASSUME Newest > 0, InTurn PROVE (QueuesInv /\ DoneInv /\ WorkInv)'
    BY <1>1
  <2>2. QueuesInv /\ DoneInv /\ WorkInv'
    BY <2>1 DEF TurnInv
  <2>3. QueuesInv'
    BY <1>1, <2>2 DEF QueuesInv
  <2>4. DoneInv'
    BY <1>1, <2>2 DEF DoneInv, IsDone
  <2> QED
    BY <2>2, <2>3, <2>4
<1>7. (Newest > 0 /\ Chained => LeftInv)'
  BY <1>1 DEF TurnInv, LeftInv
<1> QED
  BY <1>2, <1>3, <1>4, <1>5, <1>6, <1>7 DEF TurnInv

\* What a running command works on, where the plan is in its turn.
LEMMA TodoType ==
    ASSUME PublicationInv, ~Ready
    PROVE  /\ cmd.plan \in 1..Len(plans) /\ cmd.phase \in Phase /\ cmd.at \in Nat \ {0}
           /\ Todo \in Seq(WorkItem(cmd.plan)) /\ Len(Todo) \in Nat /\ DOMAIN Todo = 1..Len(Todo)
           /\ \A j \in DOMAIN Todo : /\ Todo[j] \in WorkItem(cmd.plan)
                                     /\ OfPlan(plans[cmd.plan], Todo[j])
                                     /\ Fits(plans[cmd.plan], cmd.phase, Todo[j])
<1>1. PlansInv /\ CmdInv
  BY DEF PublicationInv
<1>2. cmd.plan \in 1..Len(plans) /\ cmd.phase \in Phase /\ cmd.at \in Nat \ {0}
  BY <1>1 DEF CmdInv
<1>3. Todo \in Seq(WorkItem(cmd.plan))
  BY <1>1, <1>2, WorkType DEF Todo
<1>4. Len(Todo) \in Nat /\ DOMAIN Todo = 1..Len(Todo) /\ \A j \in DOMAIN Todo : Todo[j] \in WorkItem(cmd.plan)
  BY <1>3
<1>5. \A j \in DOMAIN Todo : OfPlan(plans[cmd.plan], Todo[j])
  BY <1>1, <1>2, ItemsOfPlan DEF Todo
<1>6. \A j \in DOMAIN Todo : Fits(plans[cmd.plan], cmd.phase, Todo[j])
  BY <1>1, <1>2, WorkFits DEF Todo
<1> QED
  BY <1>2, <1>3, <1>4, <1>5, <1>6

\* A command ends, or receipts are moved: nothing of it is left to keep.
LEMMA IdleTurn ==
    ASSUME TurnInv, UNCHANGED <<reg, pool, plans, done, carried, hand>>, Ready'
    PROVE  TurnInv'
<1>1. WorkInv'
  BY DEF WorkInv
<1> QED
  BY <1>1, CommandTurn

\* A stopped command is ready for the next one.
LEMMA StoppedReady ==
    ASSUME NEW why \in {"failed", "conflict"}, cmd' = Stopped(why)
    PROVE  Ready'
BY DEF Stopped, NoCommand, Ready

\* A phase starts with nothing behind it.
LEMMA StartTurn ==
    ASSUME PublicationInv, TurnInv, NEW phase \in Phase, Start(phase)
    PROVE  TurnInv'
<1>1. Newest > 0 /\ UNCHANGED <<reg, pool, plans, done, carried, hand>>
  BY DEF Start
<1>2. cmd' = [pc |-> "read", plan |-> Newest, phase |-> phase, at |-> 1, tx |-> Skip, ahead |-> 0]
  BY DEF Start, NoCommand
<1>3. Newest' = Newest /\ \A k : Work(k, phase)' = Work(k, phase)
  BY <1>1, PlansStay
<1>4. Newest \in 1..Len(plans)
  BY <1>1 DEF Newest, PublicationInv, PlansInv
<1>5. Todo' = Work(Newest, phase)
  <2>1. Todo' = Work(Newest, phase)'
    BY <1>2, <1>3 DEF Todo
  <2> QED
    BY <1>3, <2>1
<1>6. DOMAIN Todo' \subseteq Nat \ {0}
  <2>1. Work(Newest, phase) \in Seq(WorkItem(Newest))
    BY <1>4, WorkType DEF PublicationInv
  <2>2. DOMAIN Work(Newest, phase) = 1..Len(Work(Newest, phase)) /\ Len(Work(Newest, phase)) \in Nat
    BY <2>1
  <2> QED
    BY <1>5, <2>2
<1>7. cmd'.pc = "read" /\ cmd'.plan = Newest' /\ cmd'.at = 1
  BY <1>2, <1>3
<1>8. \A j \in DOMAIN Todo' : ~(j < 1)
  BY <1>6
<1>9. WorkInv'
  BY <1>7, <1>8 DEF WorkInv
<1>10. Newest = 0 => Ready'
  BY <1>1, <1>4
<1> QED
  BY <1>1, <1>9, <1>10, CommandTurn

\* A command that keeps its plan and its phase has the same items, done as
\* before.
LEMMA SameItems ==
    ASSUME UNCHANGED <<reg, plans, carried, hand>>,
           cmd'.plan = cmd.plan, cmd'.phase = cmd.phase
    PROVE  /\ Newest' = Newest /\ RootOf(Newest)' = RootOf(Newest) /\ Todo' = Todo
           /\ \A j : IsDone(Todo[j])' = IsDone(Todo[j])
<1>1. Newest' = Newest /\ RootOf(Newest)' = RootOf(Newest)
  BY PlansStay
<1>2. Todo' = Todo
  BY DEF Todo, Work
<1> QED
  BY <1>1, <1>2 DEF IsDone

\* What is read says that the item is done, or what is to be sent for it.
LEMMA ReadTurn ==
    ASSUME PublicationInv, TurnInv, Read
    PROVE  TurnInv'
<1> DEFINE tx == Decide(cmd.plan, Todo[cmd.at])
<1>1. /\ cmd.pc = "read" /\ cmd.at <= Len(Todo) /\ UNCHANGED <<reg, pool, plans, done, carried, hand>>
      /\ cmd' = CASE tx = Skip -> [cmd EXCEPT !.at = @ + 1]
                  [] tx = Conflict -> Stopped("conflict")
                  [] OTHER -> [cmd EXCEPT !.pc = "send", !.tx = tx]
  BY DEF Read
<1>2. ~Ready
  BY <1>1 DEF Ready
<1>3. /\ cmd.plan \in 1..Len(plans) /\ cmd.phase \in Phase /\ cmd.at \in Nat \ {0}
      /\ Todo \in Seq(WorkItem(cmd.plan)) /\ Len(Todo) \in Nat /\ DOMAIN Todo = 1..Len(Todo)
      /\ \A j \in DOMAIN Todo : /\ Todo[j] \in WorkItem(cmd.plan)
                                /\ OfPlan(plans[cmd.plan], Todo[j])
  BY <1>2, TodoType
<1>4. cmd.at \in DOMAIN Todo
  BY <1>1, <1>3
<1>5. \/ tx = Skip /\ ItemDone(plans[cmd.plan], RootOf(cmd.plan), reg, hand.servers, Todo[cmd.at])
      \/ tx = Conflict
      \/ /\ TxFor(plans[cmd.plan], RootOf(cmd.plan), Todo[cmd.at], tx)
         /\ tx.kind = "unbind" => reg.bound[tx.endpoint] = tx.server
  BY <1>3, <1>4, DecideFits, ZenonT(60)
<1>6. cmd \in [pc : {"idle", "failed", "conflict", "read", "send", "wait", "record"},
               plan : Nat, phase : Phase \cup {"none"}, at : Nat,
               tx : KnownTx \cup {Skip}, ahead : Nat]
  BY DEF PublicationInv, CmdInv
<1>7. Newest # 0
  BY <1>2 DEF TurnInv
<1> HIDE DEF tx
<1>8. CASE tx = Conflict
  <2>1. cmd' = Stopped("conflict")
    BY <1>1, <1>8 DEF Skip, Conflict
  <2> QED
    BY <1>1, <2>1, StoppedReady, IdleTurn
<1>9. CASE tx # Conflict
  <2>1. SUFFICES ASSUME Newest > 0, InTurn PROVE WorkInv'
    BY <1>1, <1>7, CommandTurn
  <2>2. QueuesInv /\ WorkInv
    BY <2>1 DEF TurnInv
  <2>3. cmd.plan = Newest /\ \A j \in DOMAIN Todo : j < cmd.at => IsDone(Todo[j])
    BY <1>2, <2>2 DEF WorkInv
  <2>4. CASE tx = Skip
    <3>1. cmd' = [cmd EXCEPT !.at = @ + 1]
      BY <1>1, <2>4 DEF Skip, Conflict
    <3>2. cmd'.at = cmd.at + 1 /\ cmd'.plan = cmd.plan /\ cmd'.phase = cmd.phase /\ cmd'.pc = "read"
      BY <1>1, <1>6, <3>1
    <3>3. /\ Newest' = Newest /\ Todo' = Todo
          /\ \A j : IsDone(Todo[j])' = IsDone(Todo[j])
      BY <1>1, <3>2, SameItems
    <3>4. IsDone(Todo[cmd.at])
      <4>1. ~TxFor(plans[cmd.plan], RootOf(cmd.plan), Todo[cmd.at], tx)
        <5>1. tx.kind = "skip"
          BY <2>4 DEF Skip
        <5> QED
          BY <5>1 DEF TxFor, RootTx, AnchorTx, BindTx, RevokeItem
      <4>2. ItemDone(plans[cmd.plan], RootOf(cmd.plan), reg, hand.servers, Todo[cmd.at])
        BY <1>5, <1>9, <4>1
      <4> QED
        BY <2>3, <4>2 DEF IsDone
    <3>5. \A j \in DOMAIN Todo : j < cmd.at + 1 => IsDone(Todo[j])
      BY <1>3, <2>3, <3>4
    <3>6. (\A j \in DOMAIN Todo : j < cmd.at => IsDone(Todo[j]))'
      BY <3>2, <3>3, <3>5
    <3> QED
      BY <2>3, <3>2, <3>3, <3>6 DEF WorkInv
  <2>5. CASE tx # Skip
    <3>1. cmd' = [cmd EXCEPT !.pc = "send", !.tx = tx]
      BY <1>1, <1>9, <2>5
    <3>2. /\ cmd'.at = cmd.at /\ cmd'.plan = cmd.plan /\ cmd'.phase = cmd.phase
          /\ cmd'.pc = "send" /\ cmd'.tx = tx
      BY <1>6, <3>1
    <3>3. /\ Newest' = Newest /\ RootOf(Newest)' = RootOf(Newest) /\ Todo' = Todo
          /\ \A j : IsDone(Todo[j])' = IsDone(Todo[j])
      BY <1>1, <3>2, SameItems
    <3>4. TxFor(plans[Newest], RootOf(Newest), Todo[cmd.at], tx)
      BY <1>5, <1>9, <2>3, <2>5
    <3>5. UnbindSendable(tx, pool["endpoint"], reg.bound)
      <4>1. SUFFICES ASSUME tx.kind = "unbind"
                     PROVE  /\ reg.bound[tx.endpoint] \in {None, tx.server}
                            /\ \A i \in 1..Len(pool["endpoint"]) :
                                  /\ pool["endpoint"][i].kind = "bind"
                                  /\ pool["endpoint"][i].endpoint = tx.endpoint
                                  => pool["endpoint"][i].server = tx.server
        BY DEF UnbindSendable
      <4>2. reg.bound[tx.endpoint] = tx.server
        BY <1>5, <1>9, <2>5, <4>1
      <4>3. tx.server # None
        <5>1. tx \in BindTx
          BY <3>4, <4>1 DEF TxFor, RootTx, AnchorTx, RevokeItem
        <5> QED
          BY <5>1, Parameters DEF BindTx
      <4>4. EndpointQueue(pool["endpoint"], reg.bound, plans[Newest])
        BY <2>2 DEF QueuesInv, Queues
      <4> QED
        BY <4>2, <4>3, <4>4 DEF EndpointQueue
    <3>6. (\A j \in DOMAIN Todo : j < cmd.at => IsDone(Todo[j]))'
      BY <2>3, <3>2, <3>3
    <3>7. TxFor(plans[Newest], RootOf(Newest), Todo[cmd.at], cmd.tx)'
      BY <1>1, <3>2, <3>3, <3>4
    <3>8. UnbindSendable(cmd.tx, pool["endpoint"], reg.bound)'
      BY <1>1, <3>2, <3>5
    <3> QED
      BY <1>4, <2>3, <3>2, <3>3, <3>6, <3>7, <3>8 DEF WorkInv
  <2> QED
    BY <2>4, <2>5
<1> QED
  BY <1>8, <1>9

\* A receipt is written for an item that is done.
LEMMA RecordTurn ==
    ASSUME PublicationInv, TurnInv, Record
    PROVE  TurnInv'
<1>1. /\ cmd.pc = "record" /\ UNCHANGED <<reg, pool, plans, done, carried, hand>>
      /\ cmd' = [cmd EXCEPT !.pc = "read", !.at = @ + 1, !.tx = Skip]
  BY DEF Record
<1>2. ~Ready
  BY <1>1 DEF Ready
<1>3. cmd.at \in Nat \ {0} /\ Len(Todo) \in Nat /\ DOMAIN Todo = 1..Len(Todo)
  BY <1>2, TodoType
<1>4. cmd \in [pc : {"idle", "failed", "conflict", "read", "send", "wait", "record"},
               plan : Nat, phase : Phase \cup {"none"}, at : Nat,
               tx : KnownTx \cup {Skip}, ahead : Nat]
  BY DEF PublicationInv, CmdInv
<1>5. cmd'.at = cmd.at + 1 /\ cmd'.plan = cmd.plan /\ cmd'.phase = cmd.phase /\ cmd'.pc = "read"
  BY <1>1, <1>4
<1>6. /\ Newest' = Newest /\ Todo' = Todo
      /\ \A j : IsDone(Todo[j])' = IsDone(Todo[j])
  BY <1>1, <1>5, SameItems
<1>7. Newest # 0
  BY <1>2 DEF TurnInv
<1>8. SUFFICES ASSUME Newest > 0, InTurn PROVE WorkInv'
  BY <1>1, <1>7, CommandTurn
<1>9. /\ cmd.plan = Newest /\ \A j \in DOMAIN Todo : j < cmd.at => IsDone(Todo[j])
      /\ IsDone(Todo[cmd.at])
  BY <1>1, <1>2, <1>8 DEF TurnInv, WorkInv
<1>10. \A j \in DOMAIN Todo : j < cmd.at + 1 => IsDone(Todo[j])
  BY <1>3, <1>9
<1>11. (\A j \in DOMAIN Todo : j < cmd.at => IsDone(Todo[j]))'
  BY <1>5, <1>6, <1>10
<1> QED
  BY <1>5, <1>6, <1>9, <1>11 DEF WorkInv

\* A phase has ended when all its items are done.
LEMMA FinishTurn ==
    ASSUME PublicationInv, TurnInv, Finish
    PROVE  TurnInv'
<1>1. /\ cmd.pc = "read" /\ cmd.at > Len(Todo) /\ done' = done \cup {cmd.phase}
      /\ cmd' = NoCommand /\ UNCHANGED <<reg, pool, plans, carried, hand>>
  BY DEF Finish
<1>2. ~Ready
  BY <1>1 DEF Ready
<1>3. cmd.phase \in Phase /\ cmd.at \in Nat \ {0} /\ Len(Todo) \in Nat /\ DOMAIN Todo = 1..Len(Todo)
  BY <1>2, TodoType
<1>4. /\ Newest' = Newest /\ RootOf(Newest)' = RootOf(Newest)
      /\ InTurn' = InTurn /\ Chained' = Chained
      /\ (\A k \in 1..Newest : RemovalsInv(k)) => (\A k \in 1..Newest : RemovalsInv(k))'
      /\ \A k, phase : Work(k, phase)' = Work(k, phase)
  BY <1>1, PlansStay
<1>5. (\A k \in 1..Newest : RemovalsInv(k))'
  BY <1>4 DEF TurnInv
<1>6. (InTurn => KindsInv /\ KnownInv)'
  BY <1>1, <1>4 DEF TurnInv, KindsInv, KnownInv
<1>7. (done \in SUBSET Phase /\ carried \in SUBSET (0..(Newest - 1)))'
  BY <1>1, <1>3, <1>4 DEF TurnInv
<1>8. Newest # 0
  BY <1>2 DEF TurnInv
<1>9. (Newest > 0 /\ InTurn => QueuesInv /\ DoneInv /\ WorkInv)'
  <2>1. SUFFICES ASSUME Newest > 0, InTurn PROVE (QueuesInv /\ DoneInv /\ WorkInv)'
    BY <1>4
  <2>2. QueuesInv /\ DoneInv /\ WorkInv
    BY <2>1 DEF TurnInv
  <2>3. QueuesInv'
    BY <1>1, <1>4, <2>2 DEF QueuesInv
  <2>4. cmd.plan = Newest /\ \A j \in DOMAIN Todo : IsDone(Todo[j])
    BY <1>1, <1>2, <1>3, <2>2 DEF WorkInv
  <2>5. \A phase \in done' : \A j \in DOMAIN Work(Newest, phase) : IsDone(Work(Newest, phase)[j])
    BY <1>1, <2>2, <2>4 DEF DoneInv, Todo
  <2>6. DoneInv'
    BY <1>1, <1>4, <2>5 DEF DoneInv, IsDone
  <2>7. WorkInv'
    BY <1>1 DEF WorkInv, NoCommand, Ready
  <2> QED
    BY <2>3, <2>6, <2>7
<1>10. (Newest > 0 /\ Chained => LeftInv)'
  BY <1>1, <1>4 DEF TurnInv, LeftInv
<1> QED
  BY <1>4, <1>5, <1>6, <1>7, <1>8, <1>9, <1>10 DEF TurnInv

-----------------------------------------------------------------------------
(* A transaction joins a pool                                              *)

\* u is the queue q with tx behind it.
Grown(q, u, tx) ==
    /\ Len(u) = Len(q) + 1 /\ u[Len(q) + 1] = tx
    /\ \A i \in 1..Len(q) : u[i] = q[i]

\* The transaction joins the pool of an account.
Sent(role, tx) == pool' = [pool EXCEPT ![role] = Append(@, tx)]

\* The pool of an account after a transaction was sent.
LEMMA PoolGrown ==
    ASSUME PoolInv, NEW role \in Role, NEW tx, NEW X, pool[role] \in Seq(X), tx \in X,
           Sent(role, tx)
    PROVE  /\ pool'[role] \in Seq(X) /\ Grown(pool[role], pool'[role], tx)
           /\ Len(pool[role]) \in Nat
           /\ \A other \in Role : other # role => pool'[other] = pool[other]
<1>1. pool'[role] = Append(pool[role], tx)
      /\ \A other \in Role : other # role => pool'[other] = pool[other]
  BY DEF PoolInv, Sent
<1> DEFINE q == pool[role]
<1>2. q \in Seq(X)
  OBVIOUS
<1> HIDE DEF q
<1>3. /\ Append(q, tx) \in Seq(X) /\ Len(Append(q, tx)) = Len(q) + 1
      /\ \A i \in 1..Len(q) : Append(q, tx)[i] = q[i]
      /\ Append(q, tx)[Len(q) + 1] = tx /\ Len(q) \in Nat
  BY <1>2, AppendProperties
<1> QED
  BY <1>1, <1>3 DEF q, Grown

\* What is said of every waiting transaction holds with one more, when it holds
\* of that one.
LEMMA GrownKeeps ==
    ASSUME NEW q, NEW u, NEW tx, Len(q) \in Nat, Grown(q, u, tx), NEW plan, NEW root, NEW revoked,
           NEW roots, NEW anchors, NEW bound
    PROVE  /\ RootQueue(q, roots, plan, root) /\ tx.root = root /\ tx.version = plan.version
                => RootQueue(u, roots, plan, root)
           /\ ResolverQueue(q, anchors, plan, root) /\ OfEntry(plan, root, tx.server, tx)
                => ResolverQueue(u, anchors, plan, root)
           /\ /\ RevokerQueue(q, anchors, plan, revoked)
              /\ (tx.kind = "revoke" => tx.server \in revoked.servers \/ Removes(plan, tx.server))
              => RevokerQueue(u, anchors, plan, revoked)
<1>1. \A i \in 1..Len(u) : \/ i \in 1..Len(q) /\ u[i] = q[i]
                           \/ i = Len(q) + 1 /\ u[i] = tx
  BY DEF Grown
<1>2. ASSUME RootQueue(q, roots, plan, root), tx.root = root, tx.version = plan.version
      PROVE  RootQueue(u, roots, plan, root)
  BY <1>1, <1>2 DEF RootQueue
<1>3. ASSUME ResolverQueue(q, anchors, plan, root), OfEntry(plan, root, tx.server, tx)
      PROVE  ResolverQueue(u, anchors, plan, root)
  BY <1>1, <1>3 DEF ResolverQueue
<1>4. ASSUME RevokerQueue(q, anchors, plan, revoked),
             tx.kind = "revoke" => tx.server \in revoked.servers \/ Removes(plan, tx.server)
      PROVE  RevokerQueue(u, anchors, plan, revoked)
  BY <1>1, <1>4 DEF RevokerQueue
<1> QED
  BY <1>2, <1>3, <1>4

\* A binding of the plan for an endpoint that is free, or a removal of the plan
\* for an endpoint that no waiting binding gives to another server.
LEMMA EndpointGrown ==
    ASSUME NEW q, NEW u, NEW tx, Len(q) \in Nat, Grown(q, u, tx), NEW plan, NEW bound,
           EndpointQueue(q, bound, plan), tx.kind \in {"bind", "unbind"},
           tx.kind = "bind" => /\ bound[tx.endpoint] \in {None, tx.server}
                               /\ Owns(plan, tx.endpoint, tx.server),
           tx.kind = "unbind" => bound[tx.endpoint] = tx.server
                                 /\ Drops(plan, tx.endpoint, tx.server),
           UnbindSendable(tx, q, bound)
    PROVE  EndpointQueue(u, bound, plan)
<1>1. \A i \in 1..Len(u) : \/ i \in 1..Len(q) /\ u[i] = q[i]
                           \/ i = Len(q) + 1 /\ u[i] = tx
  BY DEF Grown
<1>2. ASSUME NEW i \in 1..Len(u)
      PROVE  /\ u[i].kind = "bind" =>
                   /\ bound[u[i].endpoint] \in {None, u[i].server}
                   /\ \/ Owns(plan, u[i].endpoint, u[i].server)
                      \/ bound[u[i].endpoint] = u[i].server
             /\ u[i].kind = "unbind" =>
                   \/ bound[u[i].endpoint] = None
                   \/ Drops(plan, u[i].endpoint, bound[u[i].endpoint])
  <2>1. CASE u[i] = tx
    BY <2>1
  <2>2. CASE i \in 1..Len(q) /\ u[i] = q[i]
    BY <2>2 DEF EndpointQueue
  <2> QED
    BY <1>1, <2>1, <2>2
<1>3. ASSUME NEW i \in 1..Len(u), NEW j \in 1..Len(u), i < j, u[i].endpoint = u[j].endpoint
      PROVE  /\ u[i].kind = "bind" /\ u[j].kind = "unbind" =>
                   Drops(plan, u[i].endpoint, u[i].server)
             /\ u[i].kind = "unbind" /\ u[j].kind = "bind" =>
                   Owns(plan, u[j].endpoint, u[j].server)
  <2>1. i \in 1..Len(q) /\ u[i] = q[i]
    BY <1>1, <1>3 DEF Grown
  <2>2. CASE j \in 1..Len(q) /\ u[j] = q[j]
    BY <1>3, <2>1, <2>2 DEF EndpointQueue
  <2>3. CASE u[j] = tx
    <3>1. u[i].kind = "bind" /\ tx.kind = "unbind" => u[i].server = tx.server
      BY <1>3, <2>1, <2>3 DEF UnbindSendable
    <3> QED
      BY <1>3, <2>3, <3>1
  <2> QED
    BY <1>1, <2>2, <2>3
<1> QED
  BY <1>2, <1>3 DEF EndpointQueue

\* An item stays done when more was revoked by hand.
LEMMA DoneByHand ==
    ASSUME NEW plan, NEW root, NEW contract, NEW S, NEW T, S \subseteq T, NEW item,
           ItemDone(plan, root, contract, S, item)
    PROVE  ItemDone(plan, root, contract, T, item)
BY DEF ItemDone

\* A step that sends one transaction.
LEMMA GrownTurn ==
    ASSUME PoolInv, TurnInv, Newest # 0, NEW role \in Role, NEW tx,
           Sent(role, tx), Grown(pool[role], pool'[role], tx), Len(pool[role]) \in Nat,
           UNCHANGED <<reg, plans, done, carried>>,
           InTurn => /\ KindsInv' /\ WorkInv'
                     /\ hand' \in [servers : SUBSET Server, roots : SUBSET (1..MaxPlans)]
                     /\ hand.servers \subseteq hand'.servers /\ hand.roots \subseteq hand'.roots
                     /\ tx.kind = "revoke-root" => tx.root \in hand'.roots
                     /\ Queues(pool', reg, plans[Newest], RootOf(Newest), hand')
    PROVE  TurnInv'
<1>1. /\ Newest' = Newest /\ RootOf(Newest)' = RootOf(Newest)
      /\ InTurn' = InTurn /\ Chained' = Chained
      /\ (\A k \in 1..Newest : RemovalsInv(k)) => (\A k \in 1..Newest : RemovalsInv(k))'
      /\ \A k, phase : Work(k, phase)' = Work(k, phase)
  BY PlansStay
<1>2. (\A k \in 1..Newest : RemovalsInv(k))'
  BY <1>1 DEF TurnInv
<1>3. ASSUME InTurn PROVE KnownInv'
  <2>1. /\ KnownInv /\ hand' \in [servers : SUBSET Server, roots : SUBSET (1..MaxPlans)]
        /\ hand.servers \subseteq hand'.servers /\ hand.roots \subseteq hand'.roots
        /\ tx.kind = "revoke-root" => tx.root \in hand'.roots
    BY <1>3 DEF TurnInv
  <2>2. ASSUME NEW i \in 1..Len(pool'["revoker"]), pool'["revoker"][i].kind = "revoke-root"
        PROVE  pool'["revoker"][i].root \in hand'.roots
    <3>1. CASE role = "revoker"
      <4>1. \/ i \in 1..Len(pool["revoker"]) /\ pool'["revoker"][i] = pool["revoker"][i]
            \/ pool'["revoker"][i] = tx
        BY <3>1 DEF Grown
      <4> QED
        BY <2>1, <2>2, <4>1 DEF KnownInv
    <3>2. CASE role # "revoker"
      <4>1. pool'["revoker"] = pool["revoker"]
        BY <3>2 DEF PoolInv, Role, Sent
      <4> QED
        BY <2>1, <2>2, <4>1 DEF KnownInv
    <3> QED
      BY <3>1, <3>2
  <2>3. \A r \in 1..MaxPlans :
          /\ reg'.root[r].version # 0 => reg'.root[r].status # "UNKNOWN"
          /\ reg'.root[r].status = "REVOKED" => r \in hand'.roots
    BY <2>1 DEF KnownInv
  <2> QED
    BY <2>1, <2>2, <2>3 DEF KnownInv
<1>4. (done \in SUBSET Phase /\ carried \in SUBSET (0..(Newest - 1)))'
  BY <1>1 DEF TurnInv
<1>5. (Newest > 0 /\ InTurn => QueuesInv /\ DoneInv /\ WorkInv)'
  <2>1. SUFFICES ASSUME Newest > 0, InTurn PROVE (QueuesInv /\ DoneInv /\ WorkInv)'
    BY <1>1
  <2>2. QueuesInv'
    BY <1>1, <2>1 DEF QueuesInv
  <2>3. DoneInv
    BY <2>1 DEF TurnInv
  <2>4. ASSUME NEW phase \in done, NEW j \in DOMAIN Work(Newest, phase)
        PROVE  ItemDone(plans[Newest], RootOf(Newest), reg, hand'.servers, Work(Newest, phase)[j])
    BY <2>1, <2>3, DoneByHand DEF DoneInv, IsDone
  <2>5. DoneInv'
    BY <1>1, <2>4 DEF DoneInv, IsDone
  <2> QED
    BY <2>1, <2>2, <2>5
<1>6. (Newest > 0 /\ Chained => LeftInv)'
  BY <1>1 DEF TurnInv, LeftInv
<1> QED
  BY <1>1, <1>2, <1>3, <1>4, <1>5, <1>6 DEF TurnInv

\* A command sends the transaction it decided, if the contract would accept it
\* at that moment.
LEMMA SendTurn ==
    ASSUME PublicationInv, TurnInv, Send
    PROVE  TurnInv'
<1> DEFINE role == Account(cmd.phase)
           tx == cmd.tx
<1>1. cmd.pc = "send" /\ UNCHANGED <<reg, plans, done, carried, hand>>
  BY DEF Send
<1>2. ~Ready
  BY <1>1 DEF Ready
<1>3. Newest # 0
  BY <1>2 DEF TurnInv
<1>4. CASE cmd' = Stopped("failed") /\ UNCHANGED pool
  BY <1>1, <1>4, StoppedReady, IdleTurn
<1>5. CASE /\ Accepts(tx)
           /\ Sent(role, tx)
           /\ cmd' = [cmd EXCEPT !.pc = "wait", !.ahead = Len(pool[role])]
  <2>1. PoolInv /\ PlansInv /\ pool \in [Role -> Seq(KnownTx)] /\ tx \in KnownTx /\ role \in Role
    BY <1>1, AccountType DEF PublicationInv, PoolInv, CmdInv
  <2>2. cmd \in [pc : {"idle", "failed", "conflict", "read", "send", "wait", "record"},
                 plan : Nat, phase : Phase \cup {"none"}, at : Nat,
                 tx : KnownTx \cup {Skip}, ahead : Nat]
    BY DEF PublicationInv, CmdInv
  <2>3. /\ cmd'.pc = "wait" /\ cmd'.ahead = Len(pool[role]) /\ cmd'.at = cmd.at /\ cmd'.tx = tx
        /\ cmd'.plan = cmd.plan /\ cmd'.phase = cmd.phase
    <3> HIDE DEF role
    <3> QED
      BY <1>5, <2>2
  <2>4. /\ Grown(pool[role], pool'[role], tx) /\ Len(pool[role]) \in Nat
        /\ \A other \in Role : other # role => pool'[other] = pool[other]
    <3>1. pool[role] \in Seq(KnownTx)
      BY <2>1
    <3> HIDE DEF role, tx
    <3> QED
      BY <1>5, <2>1, <3>1, PoolGrown
  <2>5. ASSUME InTurn
        PROVE  /\ KindsInv' /\ tx.kind # "revoke-root"
               /\ Queues(pool', reg, plans[Newest], RootOf(Newest), hand)
    <3> DEFINE plan == plans[Newest]
               root == RootOf(Newest)
               item == Todo[cmd.at]
               q == pool[role]
               u == pool'[role]
    <3>1. KindsInv /\ QueuesInv /\ WorkInv
      BY <1>3, <2>5 DEF TurnInv, Newest, PublicationInv, PlansInv
    <3>2. /\ cmd.plan = Newest /\ cmd.at \in DOMAIN Todo /\ TxFor(plan, root, item, tx)
          /\ UnbindSendable(tx, pool["endpoint"], reg.bound)
      BY <1>1, <1>2, <3>1 DEF WorkInv
    <3>3. Fits(plan, cmd.phase, item)
      BY <1>2, <3>2, TodoType
    <3>4. /\ RootQueue(pool["root"], reg.root, plan, root)
          /\ ResolverQueue(pool["resolver"], reg.anchor, plan, root)
          /\ RevokerQueue(pool["revoker"], reg.anchor, plan, hand)
          /\ EndpointQueue(pool["endpoint"], reg.bound, plan)
      BY <3>1 DEF QueuesInv, Queues
    <3>5. /\ pool["root"] \in Seq(RootTx) /\ pool["resolver"] \in Seq(AnchorTx)
          /\ pool["endpoint"] \in Seq(BindTx)
          /\ pool["revoker"] \in Seq(RevokeItem \cup RevokeRootTx)
      BY <3>1 DEF KindsInv
    <3>6. {"root", "resolver", "endpoint", "revoker"} = Role
      BY DEF Role
    <3>7. ASSUME NEW X, q \in Seq(X), tx \in X PROVE u \in Seq(X)
      <4> HIDE DEF role, tx
      <4> QED
        BY <1>5, <2>1, <3>7, PoolGrown
    <3>8. cmd.phase \in {"publish-root", "publish-resolvers", "unbind-endpoints",
                         "bind-endpoints", "revoke-removed"}
      BY <1>2, TodoType DEF Phase, Order
    <3>9. Grown(q, u, tx) /\ Len(q) \in Nat
      BY <2>4
    <3> HIDE DEF tx, item, u, plan, root
    <3>10. CASE cmd.phase = "publish-root"
      <4>1. role = "root"
        BY <3>10 DEF Account, RoleOf
      <4>2. tx \in RootTx /\ tx.root = root /\ tx.version = plan.version
        BY <3>2, <3>3, <3>10 DEF Fits, TxFor
      <4>3. u \in Seq(RootTx)
        BY <3>5, <3>7, <4>1, <4>2
      <4>4. RootQueue(u, reg.root, plan, root)
        BY <3>4, <3>9, <4>1, <4>2, GrownKeeps
      <4>5. /\ pool'["root"] = u /\ pool'["resolver"] = pool["resolver"]
            /\ pool'["endpoint"] = pool["endpoint"] /\ pool'["revoker"] = pool["revoker"]
        BY <2>4, <3>6, <4>1 DEF u
      <4> QED
        BY <3>4, <3>5, <4>2, <4>3, <4>4, <4>5 DEF KindsInv, Queues, RootTx, plan, root
    <3>11. CASE cmd.phase = "publish-resolvers"
      <4>1. role = "resolver"
        BY <3>11 DEF Account, RoleOf
      <4>2. tx \in AnchorTx /\ OfEntry(plan, root, tx.server, tx)
        BY <3>2, <3>3, <3>11 DEF Fits, TxFor
      <4>3. u \in Seq(AnchorTx)
        BY <3>5, <3>7, <4>1, <4>2
      <4>4. ResolverQueue(u, reg.anchor, plan, root)
        BY <3>4, <3>9, <4>1, <4>2, GrownKeeps
      <4>5. /\ pool'["resolver"] = u /\ pool'["root"] = pool["root"]
            /\ pool'["endpoint"] = pool["endpoint"] /\ pool'["revoker"] = pool["revoker"]
        BY <2>4, <3>6, <4>1 DEF u
      <4>6. tx.kind # "revoke-root"
        BY <4>2 DEF AnchorTx
      <4> QED
        BY <3>4, <3>5, <4>3, <4>4, <4>5, <4>6 DEF KindsInv, Queues, plan, root
    <3>12. CASE cmd.phase \in {"unbind-endpoints", "bind-endpoints"}
      <4>1. role = "endpoint"
        BY <3>12 DEF Account, RoleOf
      <4>2. /\ tx \in BindTx
            /\ tx.kind = "bind" => Owns(plan, tx.endpoint, tx.server)
            /\ tx.kind = "unbind" => Drops(plan, tx.endpoint, tx.server)
        BY <3>2, <3>3, <3>12 DEF Fits, TxFor
      <4>3. u \in Seq(BindTx)
        BY <3>5, <3>7, <4>1, <4>2
      <4>4. tx.kind \in {"bind", "unbind"}
        BY <4>2 DEF BindTx
      <4>5. /\ tx.kind = "bind" => reg.bound[tx.endpoint] \in {None, tx.server}
            /\ tx.kind = "unbind" => reg.bound[tx.endpoint] # None
        BY <1>5, <4>4 DEF Accepts, tx
      <4>6. tx.kind = "unbind" => reg.bound[tx.endpoint] = tx.server
        BY <3>2, <4>5 DEF UnbindSendable
      <4>7. EndpointQueue(q, reg.bound, plan) /\ UnbindSendable(tx, q, reg.bound)
        BY <3>2, <3>4, <4>1
      <4>8. EndpointQueue(u, reg.bound, plan)
        <5> HIDE DEF q
        <5> QED
          BY <3>9, <4>2, <4>4, <4>5, <4>6, <4>7, EndpointGrown
      <4>9. /\ pool'["endpoint"] = u /\ pool'["root"] = pool["root"]
            /\ pool'["resolver"] = pool["resolver"] /\ pool'["revoker"] = pool["revoker"]
        BY <2>4, <3>6, <4>1 DEF u
      <4> QED
        BY <3>4, <3>5, <4>3, <4>4, <4>8, <4>9 DEF KindsInv, Queues, plan, root
    <3>13. CASE cmd.phase = "revoke-removed"
      <4>1. role = "revoker"
        BY <3>13 DEF Account, RoleOf
      <4>2. tx \in RevokeItem /\ Removes(plan, tx.server)
        BY <3>2, <3>3, <3>13 DEF Fits, TxFor
      <4>3. u \in Seq(RevokeItem \cup RevokeRootTx)
        BY <3>5, <3>7, <4>1, <4>2
      <4>4. RevokerQueue(u, reg.anchor, plan, hand)
        BY <3>4, <3>9, <4>1, <4>2, GrownKeeps
      <4>5. /\ pool'["revoker"] = u /\ pool'["root"] = pool["root"]
            /\ pool'["endpoint"] = pool["endpoint"] /\ pool'["resolver"] = pool["resolver"]
        BY <2>4, <3>6, <4>1 DEF u
      <4>6. tx.kind # "revoke-root"
        BY <4>2 DEF RevokeItem
      <4> QED
        BY <3>4, <3>5, <4>3, <4>4, <4>5, <4>6 DEF KindsInv, Queues, plan, root
    <3> QED
      BY <3>8, <3>10, <3>11, <3>12, <3>13
  <2>6. ASSUME InTurn PROVE WorkInv'
    <3>1. WorkInv
      BY <1>3, <2>6 DEF TurnInv, Newest, PublicationInv, PlansInv
    <3>2. /\ cmd.plan = Newest /\ cmd.at \in DOMAIN Todo
          /\ \A j \in DOMAIN Todo : j < cmd.at => IsDone(Todo[j])
          /\ TxFor(plans[Newest], RootOf(Newest), Todo[cmd.at], tx)
      BY <1>1, <1>2, <3>1 DEF WorkInv
    <3>3. /\ Newest' = Newest /\ RootOf(Newest)' = RootOf(Newest) /\ Todo' = Todo
          /\ \A j : IsDone(Todo[j])' = IsDone(Todo[j])
      BY <1>1, <2>3, SameItems
    <3>4. (\A j \in DOMAIN Todo : j < cmd.at => IsDone(Todo[j]))'
      BY <2>3, <3>2, <3>3
    <3>5. TxFor(plans[Newest], RootOf(Newest), Todo[cmd.at], cmd.tx)'
      BY <1>1, <2>3, <3>2, <3>3
    <3>6. Account(cmd.phase)' = role
      BY <2>3 DEF Account, RoleOf
    <3>7. cmd'.ahead + 1 \in DOMAIN pool'[role] /\ pool'[role][cmd'.ahead + 1] = tx
      <4>1. DOMAIN pool'[role] = 1..Len(pool'[role])
        <5>1. pool'[role] \in Seq(KnownTx)
          <6>1. pool[role] \in Seq(KnownTx)
            BY <2>1
          <6> HIDE DEF role, tx
          <6> QED
            BY <1>5, <2>1, <6>1, PoolGrown
        <5> QED
          BY <5>1
      <4> QED
        BY <2>3, <2>4, <4>1 DEF Grown
    <3> QED
      BY <2>3, <3>2, <3>3, <3>4, <3>5, <3>6, <3>7 DEF WorkInv
  <2>7. ASSUME InTurn
        PROVE  hand \in [servers : SUBSET Server, roots : SUBSET (1..MaxPlans)]
    BY <2>7 DEF TurnInv, KnownInv
  <2> HIDE DEF role, tx
  <2> QED
    BY <1>1, <1>3, <1>5, <2>1, <2>4, <2>5, <2>6, <2>7, GrownTurn
<1> QED
  BY <1>4, <1>5 DEF Send, Sent

\* A revocation by hand joins the Revoker's pool: the plan's items are done
\* all the same, and a command that waits waits for the same transaction.
LEMMA HandTurn ==
    ASSUME PublicationInv, TurnInv, Newest # 0, NEW tx \in RevokeItem \cup RevokeRootTx,
           Sent("revoker", tx),
           UNCHANGED <<reg, plans, cmd, done, carried>>,
           InTurn => /\ hand' \in [servers : SUBSET Server, roots : SUBSET (1..MaxPlans)]
                     /\ hand.servers \subseteq hand'.servers /\ hand.roots \subseteq hand'.roots
                     /\ tx.kind = "revoke" => tx.server \in hand'.servers
                     /\ tx.kind = "revoke-root" => tx.root \in hand'.roots
    PROVE  TurnInv'
<1> DEFINE q == pool["revoker"]
           u == pool'["revoker"]
           R == RevokeItem \cup RevokeRootTx
<1>1. PoolInv /\ "revoker" \in Role /\ q \in Seq(KnownTx) /\ tx \in KnownTx
  BY DEF PublicationInv, PoolInv, Role, KnownTx
<1>2. /\ Grown(q, u, tx) /\ Len(q) \in Nat /\ u \in Seq(KnownTx)
      /\ \A other \in Role : other # "revoker" => pool'[other] = pool[other]
  <2> DEFINE role == "revoker"
  <2>1. /\ role \in Role /\ Sent(role, tx)
        /\ pool[role] \in Seq(KnownTx) /\ tx \in KnownTx /\ PoolInv
    BY <1>1
  <2> HIDE DEF role, q, u, R
  <2>2. /\ Grown(pool[role], pool'[role], tx) /\ Len(pool[role]) \in Nat
        /\ pool'[role] \in Seq(KnownTx)
        /\ \A other \in Role : other # role => pool'[other] = pool[other]
    BY <2>1, PoolGrown
  <2> QED
    BY <2>2 DEF role, q, u
<1>3. /\ pool'["root"] = pool["root"] /\ pool'["endpoint"] = pool["endpoint"]
      /\ pool'["resolver"] = pool["resolver"]
  BY <1>2 DEF Role
<1>4. ASSUME InTurn
      PROVE  /\ KindsInv' /\ WorkInv'
             /\ Queues(pool', reg, plans[Newest], RootOf(Newest), hand')
  <2>1. KindsInv /\ QueuesInv /\ WorkInv /\ hand.servers \subseteq hand'.servers
    BY <1>4 DEF TurnInv, Newest, PublicationInv, PlansInv
  <2>2. KindsInv'
    <3>1. q \in Seq(R) /\ tx \in R
      BY <2>1 DEF KindsInv
    <3>2. u \in Seq(R)
      <4> DEFINE role == "revoker"
      <4>1. /\ role \in Role /\ Sent(role, tx)
            /\ pool[role] \in Seq(R) /\ tx \in R /\ PoolInv
        BY <1>1, <3>1
      <4> HIDE DEF role, q, u, R
      <4>2. pool'[role] \in Seq(R)
        BY <4>1, PoolGrown
      <4> QED
        BY <4>2 DEF role, u
    <3> QED
      BY <1>3, <2>1, <3>2 DEF KindsInv
  <2>3. Queues(pool', reg, plans[Newest], RootOf(Newest), hand')
    <3>1. RevokerQueue(q, reg.anchor, plans[Newest], hand')
      BY <2>1 DEF QueuesInv, Queues, RevokerQueue
    <3>2. RevokerQueue(u, reg.anchor, plans[Newest], hand')
      BY <1>2, <1>4, <3>1, GrownKeeps
    <3> QED
      BY <1>3, <2>1, <3>2 DEF QueuesInv, Queues
  <2>4. WorkInv'
    <3>1. SUFFICES ASSUME ~Ready PROVE WorkInv'
      BY DEF Ready, WorkInv
    <3>2. Newest' = Newest /\ RootOf(Newest)' = RootOf(Newest) /\ Todo' = Todo
      <4>1. Newest' = Newest /\ RootOf(Newest)' = RootOf(Newest)
        BY PlansStay
      <4> QED
        BY <4>1 DEF Todo, Work
    <3>3. \A j : IsDone(Todo[j]) => IsDone(Todo[j])'
      <4>1. ASSUME NEW j, IsDone(Todo[j]) PROVE IsDone(Todo[j])'
        <5>1. ItemDone(plans[Newest], RootOf(Newest), reg, hand'.servers, Todo[j])
          BY <2>1, <4>1, DoneByHand DEF IsDone
        <5> QED
          BY <3>2, <5>1 DEF IsDone
      <4> QED
        BY <4>1
    <3>4. cmd.pc = "wait" => /\ cmd.ahead + 1 \in DOMAIN pool'[Account(cmd.phase)]
                             /\ pool'[Account(cmd.phase)][cmd.ahead + 1] = cmd.tx
      <4> DEFINE role == Account(cmd.phase)
      <4>1. SUFFICES ASSUME cmd.pc = "wait"
                     PROVE  cmd.ahead + 1 \in DOMAIN pool'[role] /\ pool'[role][cmd.ahead + 1] = cmd.tx
        OBVIOUS
      <4>2. cmd.ahead + 1 \in DOMAIN pool[role] /\ pool[role][cmd.ahead + 1] = cmd.tx
        BY <2>1, <3>1, <4>1 DEF WorkInv
      <4>3. role \in Role
        BY AccountType
      <4> HIDE DEF role
      <4>4. CASE role = "revoker"
        <5>1. DOMAIN q = 1..Len(q) /\ DOMAIN u = 1..Len(u)
          BY <1>1, <1>2
        <5>2. cmd.ahead + 1 \in 1..Len(q) /\ q[cmd.ahead + 1] = cmd.tx
          BY <4>2, <4>4, <5>1
        <5> HIDE DEF q, u
        <5>3. cmd.ahead + 1 \in 1..Len(u) /\ u[cmd.ahead + 1] = cmd.tx
          BY <1>2, <5>2 DEF Grown
        <5> QED
          BY <4>4, <5>1, <5>3 DEF u
      <4>5. CASE role # "revoker"
        BY <1>2, <4>2, <4>3, <4>5
      <4> QED
        BY <4>4, <4>5
    <3>5. UnbindSendable(cmd.tx, pool["endpoint"], reg.bound)
            => UnbindSendable(cmd.tx, pool["endpoint"], reg.bound)'
      BY <1>3
    <3>6. /\ cmd.plan = Newest
          /\ \A j \in DOMAIN Todo : j < cmd.at => IsDone(Todo[j])
          /\ cmd.pc # "read" => cmd.at \in DOMAIN Todo
          /\ cmd.pc \in {"send", "wait"} =>
                TxFor(plans[Newest], RootOf(Newest), Todo[cmd.at], cmd.tx)
          /\ cmd.pc = "send" => UnbindSendable(cmd.tx, pool["endpoint"], reg.bound)
          /\ cmd.pc = "record" => IsDone(Todo[cmd.at])
      BY <2>1, <3>1 DEF WorkInv
    <3>7. (\A j \in DOMAIN Todo : j < cmd.at => IsDone(Todo[j]))'
      BY <3>2, <3>3, <3>6
    <3>8. (cmd.pc = "record" => IsDone(Todo[cmd.at]))'
      BY <3>2, <3>3, <3>6
    <3>9. (cmd.pc = "wait" => /\ cmd.ahead + 1 \in DOMAIN pool[Account(cmd.phase)]
                              /\ pool[Account(cmd.phase)][cmd.ahead + 1] = cmd.tx)'
      BY <3>4 DEF Account, RoleOf
    <3>10. /\ (cmd.plan = Newest)' /\ (cmd.pc # "read" => cmd.at \in DOMAIN Todo)'
           /\ (cmd.pc \in {"send", "wait"} =>
                  TxFor(plans[Newest], RootOf(Newest), Todo[cmd.at], cmd.tx))'
           /\ (cmd.pc = "send" => UnbindSendable(cmd.tx, pool["endpoint"], reg.bound))'
      BY <3>2, <3>5, <3>6
    <3> QED
      BY <3>7, <3>8, <3>9, <3>10 DEF WorkInv
  <2> QED
    BY <2>2, <2>3, <2>4
<1> QED
  <2> DEFINE role == "revoker"
  <2>1. /\ role \in Role /\ Sent(role, tx)
        /\ Grown(pool[role], pool'[role], tx) /\ Len(pool[role]) \in Nat
    BY <1>1, <1>2
  <2> HIDE DEF role
  <2> QED
    BY <1>1, <1>4, <2>1, GrownTurn

\* What is revoked by hand was published, so there is a plan.
LEMMA RevokeTurn ==
    ASSUME PublicationInv, TurnInv,
           \/ \E s \in Server : RevokeResolver(s)
           \/ \E k \in 1..MaxPlans : RevokeRoot(k)
    PROVE  TurnInv'
<1>1. InTurn => hand \in [servers : SUBSET Server, roots : SUBSET (1..MaxPlans)]
  BY DEF TurnInv, KnownInv
<1>2. CASE \E s \in Server : RevokeResolver(s)
  <2>1. PICK s \in Server : RevokeResolver(s)
    BY <1>2
  <2> DEFINE tx == [kind |-> "revoke", server |-> s, endpoint |-> None]
  <2>2. /\ Accepts(tx) /\ Sent("revoker", tx) /\ hand' = [hand EXCEPT !.servers = @ \cup {s}]
        /\ UNCHANGED <<reg, plans, cmd, done, carried>>
    BY <2>1 DEF RevokeResolver, Sent
  <2>3. tx \in RevokeItem /\ tx.kind = "revoke" /\ tx.server = s
    BY DEF RevokeItem
  <2> HIDE DEF tx
  <2>4. Newest # 0
    BY <2>2, <2>3 DEF Accepts, TurnInv, NothingYet
  <2>5. ASSUME InTurn
        PROVE  /\ hand' \in [servers : SUBSET Server, roots : SUBSET (1..MaxPlans)]
               /\ hand'.servers = hand.servers \cup {s} /\ hand'.roots = hand.roots
    <3> DEFINE Roots == SUBSET (1..MaxPlans)
    <3>1. hand \in [servers : SUBSET Server, roots : Roots]
      BY <1>1, <2>5
    <3> HIDE DEF Roots
    <3>2. /\ hand' \in [servers : SUBSET Server, roots : Roots]
          /\ hand'.servers = hand.servers \cup {s} /\ hand'.roots = hand.roots
      BY <2>2, <3>1
    <3> QED
      BY <3>2 DEF Roots
  <2> QED
    BY <2>2, <2>3, <2>4, <2>5, HandTurn
<1>3. CASE \E k \in 1..MaxPlans : RevokeRoot(k)
  <2>1. PICK k \in 1..MaxPlans : RevokeRoot(k)
    BY <1>3
  <2> DEFINE tx == [kind |-> "revoke-root", root |-> k]
  <2>2. /\ Accepts(tx) /\ Sent("revoker", tx) /\ hand' = [hand EXCEPT !.roots = @ \cup {k}]
        /\ UNCHANGED <<reg, plans, cmd, done, carried>>
    BY <2>1 DEF RevokeRoot, Sent
  <2>3. tx \in RevokeRootTx /\ tx.kind = "revoke-root" /\ tx.root = k
    BY DEF RevokeRootTx
  <2> HIDE DEF tx
  <2>4. Newest # 0
    BY <2>2, <2>3 DEF Accepts, TurnInv, NothingYet
  <2>5. ASSUME InTurn
        PROVE  /\ hand' \in [servers : SUBSET Server, roots : SUBSET (1..MaxPlans)]
               /\ hand'.roots = hand.roots \cup {k} /\ hand'.servers = hand.servers
    <3> DEFINE Roots == SUBSET (1..MaxPlans)
    <3>1. hand \in [servers : SUBSET Server, roots : Roots]
      BY <1>1, <2>5
    <3>2. hand.roots \cup {k} \in Roots
      BY <3>1
    <3> HIDE DEF Roots
    <3>3. /\ hand' \in [servers : SUBSET Server, roots : Roots]
          /\ hand'.roots = hand.roots \cup {k} /\ hand'.servers = hand.servers
      BY <2>2, <3>1, <3>2
    <3> QED
      BY <3>3 DEF Roots
  <2> QED
    BY <2>2, <2>3, <2>4, <2>5, HandTurn
<1> QED
  BY <1>2, <1>3

-----------------------------------------------------------------------------
(* A transaction is mined                                                  *)

\* A root has a status once it is published, is revoked only by hand, and
\* bindings are changed by the endpoint account.
LEMMA KnownMined ==
    ASSUME PublicationInv, KindsInv, KnownInv, NEW role \in Role, pool[role] # <<>>,
           NEW tx, tx = pool[role][1], NEW after, after = Applied(tx)
    PROVE  /\ \A r \in 1..MaxPlans :
                 /\ after.root[r].version # 0 => after.root[r].status # "UNKNOWN"
                 /\ after.root[r].status = "REVOKED" => r \in hand.roots
           /\ role # "endpoint" => after.bound = reg.bound
<1>0. RegInv
  BY DEF PublicationInv
<1>1. \A r \in 1..MaxPlans : /\ reg.root[r].version # 0 => reg.root[r].status # "UNKNOWN"
                             /\ reg.root[r].status = "REVOKED" => r \in hand.roots
  BY DEF KnownInv
<1>2. /\ role = "root" => tx \in RootTx
      /\ role = "resolver" => tx \in AnchorTx
      /\ role = "endpoint" => tx \in BindTx
      /\ role = "revoker" => /\ tx \in RevokeItem \cup RevokeRootTx
                             /\ tx.kind = "revoke-root" => tx.root \in hand.roots
  <2>1. ASSUME NEW X, pool[role] \in Seq(X) PROVE tx \in X /\ 1 \in 1..Len(pool[role])
    BY <2>1
  <2>2. /\ pool["root"] \in Seq(RootTx) /\ pool["resolver"] \in Seq(AnchorTx)
        /\ pool["endpoint"] \in Seq(BindTx)
        /\ pool["revoker"] \in Seq(RevokeItem \cup RevokeRootTx)
    BY DEF KindsInv
  <2>3. role = "root" => tx \in RootTx
    BY <2>1, <2>2
  <2>4. role = "resolver" => tx \in AnchorTx
    BY <2>1, <2>2
  <2>5. role = "endpoint" => tx \in BindTx
    BY <2>1, <2>2
  <2>6. role = "revoker" => tx \in RevokeItem \cup RevokeRootTx /\ 1 \in 1..Len(pool["revoker"])
    <3> DEFINE X == RevokeItem \cup RevokeRootTx
    <3>1. role = "revoker" => pool[role] \in Seq(X)
      BY <2>2
    <3> HIDE DEF X
    <3>2. role = "revoker" => tx \in X /\ 1 \in 1..Len(pool[role])
      BY <2>1, <3>1
    <3> QED
      BY <3>2 DEF X
  <2> QED
    BY <2>3, <2>4, <2>5, <2>6 DEF KnownInv
<1>3. after = Applied(tx)
  OBVIOUS
<1>4. CASE tx \in RootTx
  <2>1. tx.root \in 1..MaxPlans
    BY <1>4 DEF RootTx
  <2>2. /\ after.bound = reg.bound
        /\ \A r \in 1..MaxPlans : r # tx.root => after.root[r] = reg.root[r]
        /\ after.root[tx.root] = [status |-> "ACTIVE", version |-> tx.version]
    BY <1>0, <1>3, <1>4, RootApplied
  <2>3. after.root[tx.root].status = "ACTIVE"
    BY <2>2
  <2> QED
    BY <1>1, <2>2, <2>3
<1>5. CASE tx \in AnchorTx
  <2>1. /\ after.root = reg.root /\ after.bound = reg.bound
        /\ \A s \in Server : s # tx.server => after.anchor[s] = reg.anchor[s]
        /\ after.anchor[tx.server] = [status |-> "ACTIVE", version |-> tx.version,
                                      endpoints |-> tx.endpoints, root |-> tx.root]
    BY <1>0, <1>3, <1>5, AnchorApplied
  <2> QED
    BY <1>1, <2>1
<1>6. CASE role = "endpoint" /\ tx \in BindTx
  <2>1. after.root = reg.root
    BY <1>0, <1>3, <1>6, BindApplied
  <2> QED
    BY <1>1, <1>6, <2>1
<1>7. CASE tx \in RevokeItem
  <2>1. after.root = reg.root /\ after.bound = reg.bound
    BY <1>0, <1>3, <1>7, RevokeApplied
  <2> QED
    BY <1>1, <2>1
<1>8. CASE role = "revoker" /\ tx \in RevokeRootTx
  <2>1. tx.root \in 1..MaxPlans /\ tx.root \in hand.roots
    BY <1>2, <1>8 DEF RevokeRootTx
  <2>2. /\ after.bound = reg.bound
        /\ \A r \in 1..MaxPlans : /\ r # tx.root => after.root[r] = reg.root[r]
                                  /\ after.root[r].version = reg.root[r].version
        /\ after.root[tx.root].status = "REVOKED"
    BY <1>0, <1>3, <1>8, RevokeRootApplied
  <2> QED
    BY <1>1, <2>1, <2>2
<1> QED
  BY <1>2, <1>4, <1>5, <1>6, <1>7, <1>8 DEF Role

\* The oldest transaction of an account is mined, accepted or not: pools, done
\* items and what may be bound and active.
LEMMA MinedKeeps ==
    ASSUME PublicationInv, KindsInv, KnownInv, NEW plan, EntriesSound(plan.entries),
           RemovalsSound(plan), NEW root \in 1..MaxPlans, NEW role \in Role, pool[role] # <<>>,
           Queues(pool, reg, plan, root, hand),
           NEW queues, queues = [pool EXCEPT ![role] = Without(@, 1)],
           NEW after, after = IF Accepts(pool[role][1]) THEN Applied(pool[role][1]) ELSE reg
    PROVE  /\ Queues(queues, after, plan, root, hand)
           /\ \A item : OfPlan(plan, item) /\ ItemDone(plan, root, reg, hand.servers, item)
                          => ItemDone(plan, root, after, hand.servers, item)
           /\ \A e \in Endpoint : \/ after.bound[e] \in {None, reg.bound[e]}
                                  \/ Owns(plan, e, after.bound[e])
           /\ \A s \in Server : after.anchor[s].status = "ACTIVE" =>
                 reg.anchor[s].status = "ACTIVE" \/ s \in ServersOf(plan.entries)
<1>1. PoolInv /\ RegInv
  BY DEF PublicationInv
<1>2. CASE Accepts(pool[role][1])
  <2>1. after = Applied(pool[role][1])
    BY <1>2
  <2> QED
    BY <1>1, <1>2, <2>1, AcceptedKeeps
<1>3. CASE ~Accepts(pool[role][1])
  <2>1. after = reg
    BY <1>3
  <2> DEFINE q == pool[role]
             t == Without(q, 1)
  <2>2. Len(q) \in Nat \ {0} /\ Shifted(q, t)
    <3>1. q \in Seq(KnownTx)
      BY <1>1 DEF PoolInv
    <3>2. Len(q) \in Nat \ {0}
      BY <3>1
    <3> HIDE DEF q
    <3> QED
      BY <3>1, <3>2, WithoutOldest DEF q, Shifted
  <2>3. queues[role] = t /\ \A other \in Role : other # role => queues[other] = pool[other]
    BY <1>1 DEF PoolInv
  <2>4. {"root", "resolver", "endpoint", "revoker"} = Role
    BY DEF Role
  <2> HIDE DEF t
  <2>5. /\ RootQueue(q, reg.root, plan, root) => RootQueue(t, reg.root, plan, root)
        /\ ResolverQueue(q, reg.anchor, plan, root) => ResolverQueue(t, reg.anchor, plan, root)
        /\ RevokerQueue(q, reg.anchor, plan, hand) => RevokerQueue(t, reg.anchor, plan, hand)
        /\ EndpointQueue(q, reg.bound, plan) => EndpointQueue(t, reg.bound, plan)
    <3> HIDE DEF q
    <3> QED
      BY <2>2, ShiftKeeps
  <2>6. /\ RootQueue(pool["root"], reg.root, plan, root)
        /\ ResolverQueue(pool["resolver"], reg.anchor, plan, root)
        /\ RevokerQueue(pool["revoker"], reg.anchor, plan, hand)
        /\ EndpointQueue(pool["endpoint"], reg.bound, plan)
    BY DEF Queues
  <2>7. /\ RootQueue(queues["root"], reg.root, plan, root)
        /\ ResolverQueue(queues["resolver"], reg.anchor, plan, root)
        /\ RevokerQueue(queues["revoker"], reg.anchor, plan, hand)
        /\ EndpointQueue(queues["endpoint"], reg.bound, plan)
    BY <2>3, <2>4, <2>5, <2>6
  <2> QED
    BY <2>1, <2>7 DEF Queues
<1> QED
  BY <1>2, <1>3

\* A removal that is about to be sent can still be sent.
LEMMA SendableMined ==
    ASSUME PublicationInv, KindsInv, KnownInv, NEW role \in Role, pool[role] # <<>>,
           NEW queues, queues = [pool EXCEPT ![role] = Without(@, 1)],
           NEW after, after = IF Accepts(pool[role][1]) THEN Applied(pool[role][1]) ELSE reg,
           NEW tx, tx.kind = "unbind" => tx.endpoint \in Endpoint,
           UnbindSendable(tx, pool["endpoint"], reg.bound)
    PROVE  UnbindSendable(tx, queues["endpoint"], after.bound)
<1> DEFINE q == pool["endpoint"]
           t == queues["endpoint"]
           x == q[1]
<1>1. SUFFICES ASSUME tx.kind = "unbind"
               PROVE  /\ after.bound[tx.endpoint] \in {None, tx.server}
                      /\ \A i \in 1..Len(t) :
                            t[i].kind = "bind" /\ t[i].endpoint = tx.endpoint => t[i].server = tx.server
  BY DEF UnbindSendable
<1>2. /\ reg.bound[tx.endpoint] \in {None, tx.server} /\ tx.endpoint \in Endpoint
      /\ \A i \in 1..Len(q) :
            q[i].kind = "bind" /\ q[i].endpoint = tx.endpoint => q[i].server = tx.server
  BY <1>1 DEF UnbindSendable
<1>3. CASE role # "endpoint"
  <2>1. t = q
    BY <1>3 DEF PublicationInv, PoolInv, Role
  <2>2. after.bound = reg.bound
    <3>1. CASE Accepts(pool[role][1])
      <4>1. after = Applied(pool[role][1])
        BY <3>1
      <4> QED
        BY <1>3, <4>1, KnownMined
    <3>2. CASE ~Accepts(pool[role][1])
      BY <3>2
    <3> QED
      BY <3>1, <3>2
  <2> QED
    BY <1>2, <2>1, <2>2
<1>4. CASE role = "endpoint"
  <2>1. q \in Seq(BindTx) /\ q # <<>> /\ t = Without(q, 1)
    BY <1>4 DEF KindsInv, PublicationInv, PoolInv
  <2>2. after = IF Accepts(x) THEN Applied(x) ELSE reg
    BY <1>4
  <2> HIDE DEF q, t, x
  <2>3. Len(q) \in Nat \ {0} /\ 1 \in 1..Len(q) /\ x \in BindTx
    BY <2>1 DEF x
  <2>4. \A i \in 1..Len(t) : i + 1 \in 1..Len(q) /\ t[i] = q[i + 1]
    <3>1. Len(t) = Len(q) - 1 /\ \A i \in 1..(Len(q) - 1) : t[i] = q[i + 1]
      BY <2>1, WithoutOldest
    <3> QED
      BY <2>3, <3>1
  <2>5. x.kind \in {"bind", "unbind"} /\ x.endpoint \in Endpoint
    BY <2>3 DEF BindTx
  <2>6. x.kind = "bind" /\ x.endpoint = tx.endpoint => x.server = tx.server
    BY <1>2, <2>3 DEF x
  <2>7. after.bound[tx.endpoint] \in {None, tx.server}
    <3>1. CASE Accepts(x)
      <4>1. RegInv /\ after = Applied(x)
        BY <2>2, <3>1 DEF PublicationInv
      <4>2. /\ after.root = reg.root /\ after.anchor = reg.anchor
            /\ \A e \in Endpoint : e # x.endpoint => after.bound[e] = reg.bound[e]
            /\ x.kind = "bind" => after.bound[x.endpoint] = x.server
            /\ x.kind = "unbind" => after.bound[x.endpoint] = None
        BY <2>3, <4>1, BindApplied
      <4> QED
        BY <1>2, <2>5, <2>6, <4>2
    <3>2. CASE ~Accepts(x)
      BY <1>2, <2>2, <3>2
    <3> QED
      BY <3>1, <3>2
  <2>8. ASSUME NEW i \in 1..Len(t), t[i].kind = "bind", t[i].endpoint = tx.endpoint
        PROVE  t[i].server = tx.server
    <3>1. PICK m \in 1..Len(q) : t[i] = q[m]
      BY <2>4
    <3> QED
      BY <1>2, <2>8, <3>1
  <2> QED
    BY <2>7, <2>8
<1> QED
  BY <1>3, <1>4

\* Whatever is mined, and for whichever account, the order is kept.
LEMMA MineTurn ==
    ASSUME PublicationInv, TurnInv, NEW role \in Role, Mine(role)
    PROVE  TurnInv'
<1>1. PICK tx \in KnownTx :
              /\ tx = pool[role][1]
              /\ pool[role] \in Seq(KnownTx) /\ pool[role] # <<>>
              /\ pool' = [pool EXCEPT ![role] = Without(@, 1)]
              /\ reg' = IF Accepts(tx) THEN Applied(tx) ELSE reg
              /\ \/ /\ Waiting(role) /\ cmd.ahead = 0 /\ Accepts(tx)
                    /\ cmd' = [cmd EXCEPT !.pc = "record", !.ahead = 0]
                 \/ Waiting(role) /\ ~Accepts(tx) /\ cmd' = Stopped("failed")
                 \/ Waiting(role) /\ cmd.ahead > 0 /\ cmd' = [cmd EXCEPT !.ahead = @ - 1]
                 \/ ~Waiting(role) /\ cmd' = cmd
  BY MineSteps
<1>2. UNCHANGED <<plans, done, carried, hand>>
  BY DEF Mine
<1>3. Newest # 0 /\ Newest \in 1..Len(plans)
  <2>1. Newest # 0
    BY <1>1 DEF TurnInv, NothingYet
  <2> QED
    BY <2>1 DEF Newest, PublicationInv, PlansInv
<1>4. /\ Newest' = Newest /\ RootOf(Newest)' = RootOf(Newest)
      /\ InTurn' = InTurn /\ Chained' = Chained
      /\ (\A k \in 1..Newest : RemovalsInv(k)) => (\A k \in 1..Newest : RemovalsInv(k))'
      /\ \A k, phase : Work(k, phase)' = Work(k, phase)
  BY <1>2, PlansStay
<1>5. (\A k \in 1..Newest : RemovalsInv(k))'
  BY <1>4 DEF TurnInv
<1>6. (done \in SUBSET Phase /\ carried \in SUBSET (0..(Newest - 1)))'
  BY <1>2, <1>4 DEF TurnInv
<1> DEFINE plan == plans[Newest]
           root == RootOf(Newest)
<1>7. PlansInv /\ EntriesSound(plan.entries) /\ RemovalsSound(plan) /\ root \in 1..MaxPlans
  <2>1. PlansInv /\ EntriesSound(plan.entries)
    BY <1>3 DEF PublicationInv, PlansInv
  <2>2. RemovalsSound(plan)
    BY <1>3 DEF TurnInv, RemovalsInv
  <2>3. Newest \in Nat \ {0} /\ Newest <= MaxPlans /\ MaxPlans \in Nat
    BY <1>3, <2>1, PlanType, Parameters
  <2>4. root \in 1..Newest
    BY <2>3, RootOfType
  <2> QED
    BY <2>1, <2>2, <2>3, <2>4
<1>8. ASSUME InTurn
      PROVE  /\ KindsInv /\ KnownInv /\ QueuesInv /\ DoneInv /\ WorkInv
             /\ Queues(pool', reg', plan, root, hand)
             /\ \A item : OfPlan(plan, item) /\ ItemDone(plan, root, reg, hand.servers, item)
                            => ItemDone(plan, root, reg', hand.servers, item)
             /\ \A e \in Endpoint : \/ reg'.bound[e] \in {None, reg.bound[e]}
                                    \/ Owns(plan, e, reg'.bound[e])
             /\ \A s \in Server : reg'.anchor[s].status = "ACTIVE" =>
                   reg.anchor[s].status = "ACTIVE" \/ s \in ServersOf(plan.entries)
  <2>1. KindsInv /\ KnownInv /\ QueuesInv /\ DoneInv /\ WorkInv
    BY <1>3, <1>8 DEF TurnInv
  <2>2. Queues(pool, reg, plan, root, hand)
    BY <2>1 DEF QueuesInv
  <2>3. reg' = IF Accepts(pool[role][1]) THEN Applied(pool[role][1]) ELSE reg
    BY <1>1
  <2> HIDE DEF plan, root
  <2> QED
    BY <1>1, <1>7, <2>1, <2>2, <2>3, MinedKeeps
<1>9. ASSUME InTurn PROVE KindsInv' /\ KnownInv'
  <2> DEFINE q == pool[role]
  <2>1. ASSUME NEW X, q \in Seq(X)
        PROVE  pool'[role] \in Seq(X) /\ Shifted(q, pool'[role])
    <3>1. pool'[role] = Without(q, 1) /\ q # <<>>
      BY <1>1 DEF PublicationInv, PoolInv
    <3> HIDE DEF q
    <3> QED
      BY <2>1, <3>1, WithoutOldest DEF Shifted
  <2>2. \A other \in Role : other # role => pool'[other] = pool[other]
    BY <1>1 DEF PublicationInv, PoolInv
  <2>3. KindsInv /\ KnownInv
    BY <1>8, <1>9
  <2>4. KindsInv'
    <3> DEFINE R == RevokeItem \cup RevokeRootTx
    <3>1. /\ pool["root"] \in Seq(RootTx) /\ pool["resolver"] \in Seq(AnchorTx)
          /\ pool["endpoint"] \in Seq(BindTx) /\ pool["revoker"] \in Seq(R)
      BY <2>3 DEF KindsInv
    <3> HIDE DEF R
    <3>2. /\ pool'["root"] \in Seq(RootTx) /\ pool'["resolver"] \in Seq(AnchorTx)
          /\ pool'["endpoint"] \in Seq(BindTx) /\ pool'["revoker"] \in Seq(R)
      BY <2>1, <2>2, <3>1 DEF Role
    <3> QED
      BY <3>2 DEF KindsInv, R
  <2>5. ASSUME NEW i \in 1..Len(pool'["revoker"]), pool'["revoker"][i].kind = "revoke-root"
        PROVE  pool'["revoker"][i].root \in hand.roots
    <3>1. PICK m \in 1..Len(pool["revoker"]) : pool'["revoker"][i] = pool["revoker"][m]
      <4>1. CASE role = "revoker"
        <5>1. Shifted(q, pool'[role]) /\ Len(q) \in Nat
          BY <1>1, <2>1
        <5>2. Len(pool'["revoker"]) = Len(pool["revoker"]) - 1 /\ Len(pool["revoker"]) \in Nat
              /\ \A j \in 1..(Len(pool["revoker"]) - 1) : pool'["revoker"][j] = pool["revoker"][j + 1]
          BY <4>1, <5>1 DEF Shifted
        <5>3. i + 1 \in 1..Len(pool["revoker"])
          BY <5>2
        <5> QED
          BY <5>2, <5>3
      <4>2. CASE role # "revoker"
        BY <2>2, <4>2 DEF Role
      <4> QED
        BY <4>1, <4>2
    <3> QED
      BY <2>3, <2>5, <3>1 DEF KnownInv
  <2>6. \A r \in 1..MaxPlans :
          /\ reg'.root[r].version # 0 => reg'.root[r].status # "UNKNOWN"
          /\ reg'.root[r].status = "REVOKED" => r \in hand.roots
    <3>1. CASE Accepts(tx)
      <4>1. reg' = Applied(tx)
        BY <1>1, <3>1
      <4> QED
        BY <1>1, <2>3, <4>1, KnownMined
    <3>2. CASE ~Accepts(tx)
      <4>1. reg' = reg
        BY <1>1, <3>2
      <4> QED
        BY <2>3, <4>1 DEF KnownInv
    <3> QED
      BY <3>1, <3>2
  <2>7. hand \in [servers : SUBSET Server, roots : SUBSET (1..MaxPlans)]
    BY <2>3 DEF KnownInv
  <2> QED
    BY <1>2, <2>4, <2>5, <2>6, <2>7 DEF KnownInv
<1>10. ASSUME InTurn PROVE QueuesInv' /\ DoneInv'
  <2>1. QueuesInv'
    BY <1>2, <1>4, <1>8, <1>10 DEF QueuesInv
  <2>2. ASSUME NEW phase \in done, NEW j \in DOMAIN Work(Newest, phase)
        PROVE  ItemDone(plan, root, reg', hand.servers, Work(Newest, phase)[j])
    <3>1. phase \in Phase
      BY DEF TurnInv
    <3>2. OfPlan(plan, Work(Newest, phase)[j])
      BY <1>3, <1>7, <3>1, ItemsOfPlan
    <3>3. ItemDone(plan, root, reg, hand.servers, Work(Newest, phase)[j])
      BY <1>8, <1>10 DEF DoneInv, IsDone
    <3> HIDE DEF plan, root
    <3> QED
      BY <1>8, <1>10, <3>2, <3>3
  <2>3. DoneInv'
    BY <1>2, <1>4, <2>2 DEF DoneInv, IsDone
  <2> QED
    BY <2>1, <2>3
<1>11. ASSUME InTurn PROVE WorkInv'
  <2>1. SUFFICES ASSUME ~Ready' PROVE WorkInv'
    BY DEF WorkInv
  <2>2. cmd' # Stopped("failed")
    BY <2>1, StoppedReady
  <2>3. cmd \in [pc : {"idle", "failed", "conflict", "read", "send", "wait", "record"},
                 plan : Nat, phase : Phase \cup {"none"}, at : Nat,
                 tx : KnownTx \cup {Skip}, ahead : Nat]
    BY DEF PublicationInv, CmdInv
  <2>4. /\ cmd'.plan = cmd.plan /\ cmd'.phase = cmd.phase /\ cmd'.at = cmd.at /\ cmd'.tx = cmd.tx
        /\ \/ /\ Waiting(role) /\ cmd.ahead = 0 /\ Accepts(tx) /\ cmd'.pc = "record"
           \/ /\ Waiting(role) /\ cmd.ahead > 0 /\ cmd'.pc = "wait"
              /\ cmd'.ahead = cmd.ahead - 1
           \/ ~Waiting(role) /\ cmd'.pc = cmd.pc /\ cmd'.ahead = cmd.ahead
    BY <1>1, <2>2, <2>3 DEF Waiting
  <2>5. ~Ready
    BY <2>1, <2>4 DEF Ready, Waiting
  <2>6. /\ cmd.plan = Newest
        /\ \A j \in DOMAIN Todo : j < cmd.at => IsDone(Todo[j])
        /\ cmd.pc # "read" => cmd.at \in DOMAIN Todo
        /\ cmd.pc \in {"send", "wait"} => TxFor(plan, root, Todo[cmd.at], cmd.tx)
        /\ cmd.pc = "send" => UnbindSendable(cmd.tx, pool["endpoint"], reg.bound)
        /\ cmd.pc = "wait" => /\ cmd.ahead + 1 \in DOMAIN pool[Account(cmd.phase)]
                              /\ pool[Account(cmd.phase)][cmd.ahead + 1] = cmd.tx
        /\ cmd.pc = "record" => IsDone(Todo[cmd.at])
    BY <1>8, <1>11, <2>5 DEF WorkInv
  <2>7. \A j \in DOMAIN Todo : OfPlan(plan, Todo[j])
    BY <2>5, <2>6, TodoType
  <2>8. Todo' = Todo /\ \A j : IsDone(Todo[j])' = ItemDone(plan, root, reg', hand.servers, Todo[j])
    <3>1. Todo' = Todo
      BY <1>2, <2>4 DEF Todo, Work
    <3> QED
      BY <1>2, <1>4, <3>1 DEF IsDone
  <2>9. \A j \in DOMAIN Todo : IsDone(Todo[j]) => IsDone(Todo[j])'
    <3>1. ASSUME NEW j \in DOMAIN Todo, IsDone(Todo[j])
          PROVE  ItemDone(plan, root, reg', hand.servers, Todo[j])
      <4>1. ItemDone(plan, root, reg, hand.servers, Todo[j]) /\ OfPlan(plan, Todo[j])
        BY <2>7, <3>1 DEF IsDone
      <4> HIDE DEF plan, root
      <4> QED
        BY <1>8, <1>11, <4>1
    <3> QED
      BY <2>8, <3>1
  <2>10. (\A j \in DOMAIN Todo : j < cmd.at => IsDone(Todo[j]))'
    BY <2>4, <2>6, <2>8, <2>9
  <2>11. cmd'.pc = "record" => IsDone(Todo[cmd.at])'
    <3>1. CASE Waiting(role)
      <4>1. SUFFICES ASSUME cmd'.pc = "record" PROVE IsDone(Todo[cmd.at])'
        OBVIOUS
      <4>2. cmd.ahead = 0 /\ Accepts(tx) /\ cmd.pc = "wait" /\ Account(cmd.phase) = role
        BY <2>4, <3>1, <4>1 DEF Waiting
      <4>3. cmd.tx = tx /\ TxFor(plan, root, Todo[cmd.at], cmd.tx)
        BY <1>1, <2>6, <4>2
      <4>4. RegInv /\ OfPlan(plan, Todo[cmd.at]) /\ reg' = Applied(tx)
        BY <1>1, <2>6, <2>7, <4>2 DEF PublicationInv
      <4>5. ItemDone(plan, root, reg', hand.servers, Todo[cmd.at])
        <5> HIDE DEF plan, root
        <5> QED
          BY <4>3, <4>4, OwnDone
      <4> QED
        BY <2>4, <2>8, <4>5
    <3>2. CASE ~Waiting(role)
      <4>1. cmd'.pc = "record" => cmd.at \in DOMAIN Todo /\ IsDone(Todo[cmd.at])
        BY <2>4, <2>6, <3>2
      <4> QED
        BY <2>4, <2>8, <2>9, <4>1
    <3> QED
      BY <3>1, <3>2
  <2>12. cmd'.pc = "wait" => /\ cmd'.ahead + 1 \in DOMAIN pool'[Account(cmd.phase)]
                             /\ pool'[Account(cmd.phase)][cmd'.ahead + 1] = cmd.tx
    <3> DEFINE acc == Account(cmd.phase)
    <3>1. SUFFICES ASSUME cmd'.pc = "wait"
                   PROVE  cmd'.ahead + 1 \in DOMAIN pool'[acc] /\ pool'[acc][cmd'.ahead + 1] = cmd.tx
      OBVIOUS
    <3>2. /\ cmd.pc = "wait" /\ cmd.ahead + 1 \in DOMAIN pool[acc]
          /\ pool[acc][cmd.ahead + 1] = cmd.tx /\ acc \in Role /\ cmd.ahead \in Nat
      BY <2>3, <2>4, <2>6, <3>1, AccountType DEF Waiting
    <3> HIDE DEF acc
    <3>3. CASE acc = role
      <4> DEFINE q == pool[role]
                 t == pool'[role]
      <4>1. cmd.ahead > 0 /\ cmd'.ahead = cmd.ahead - 1
        BY <2>4, <3>1, <3>2, <3>3 DEF Waiting, acc
      <4>2. q \in Seq(KnownTx) /\ q # <<>> /\ t = Without(q, 1)
        BY <1>1 DEF PublicationInv, PoolInv
      <4>3. cmd.ahead + 1 \in DOMAIN q /\ q[cmd.ahead + 1] = cmd.tx
        BY <3>2, <3>3
      <4> HIDE DEF q, t
      <4>4. /\ t \in Seq(KnownTx) /\ Len(t) = Len(q) - 1
            /\ \A i \in 1..(Len(q) - 1) : t[i] = q[i + 1]
        BY <4>2, WithoutOldest
      <4>5. DOMAIN t = 1..Len(t) /\ DOMAIN q = 1..Len(q) /\ Len(q) \in Nat
        BY <4>2, <4>4
      <4>6. cmd'.ahead + 1 = cmd.ahead /\ cmd.ahead \in 1..(Len(q) - 1)
        BY <3>2, <4>1, <4>3, <4>5
      <4>7. cmd'.ahead + 1 \in DOMAIN t /\ t[cmd'.ahead + 1] = cmd.tx
        BY <4>3, <4>4, <4>5, <4>6
      <4> QED
        BY <3>3, <4>7 DEF t
    <3>4. CASE acc # role
      <4>1. pool'[acc] = pool[acc]
        BY <1>1, <3>2, <3>4 DEF PublicationInv, PoolInv
      <4>2. cmd'.ahead = cmd.ahead
        BY <2>4, <3>4 DEF Waiting, acc
      <4> QED
        BY <3>2, <4>1, <4>2
    <3> QED
      BY <3>3, <3>4
  <2>13. cmd'.pc = "send" => UnbindSendable(cmd.tx, pool'["endpoint"], reg'.bound)
    <3>1. SUFFICES ASSUME cmd'.pc = "send"
                   PROVE  UnbindSendable(cmd.tx, pool'["endpoint"], reg'.bound)
      OBVIOUS
    <3>2. /\ UnbindSendable(cmd.tx, pool["endpoint"], reg.bound)
          /\ TxFor(plan, root, Todo[cmd.at], cmd.tx)
      BY <2>4, <2>6, <3>1
    <3>3. cmd.tx.kind = "unbind" => cmd.tx.endpoint \in Endpoint
      BY <3>2 DEF TxFor, RootTx, AnchorTx, BindTx, RevokeItem
    <3>4. KindsInv /\ KnownInv
      BY <1>8, <1>11
    <3>5. reg' = IF Accepts(pool[role][1]) THEN Applied(pool[role][1]) ELSE reg
      BY <1>1
    <3> QED
      BY <1>1, <3>2, <3>3, <3>4, <3>5, SendableMined
  <2>14. /\ (cmd.plan = Newest)' /\ (cmd.pc # "read" => cmd.at \in DOMAIN Todo)'
         /\ (cmd.pc \in {"send", "wait"} =>
                TxFor(plans[Newest], RootOf(Newest), Todo[cmd.at], cmd.tx))'
    <3>1. cmd'.pc # "read" => cmd.pc # "read"
      BY <2>4 DEF Waiting
    <3>2. cmd'.pc \in {"send", "wait"} => cmd.pc \in {"send", "wait"}
      BY <2>4 DEF Waiting
    <3>3. (cmd.plan = Newest)' /\ (cmd.pc # "read" => cmd.at \in DOMAIN Todo)'
      BY <1>4, <2>4, <2>6, <2>8, <3>1
    <3>4. cmd'.pc \in {"send", "wait"} =>
             TxFor(plans[Newest], RootOf(Newest), Todo[cmd.at], cmd.tx)'
      BY <1>2, <1>4, <2>4, <2>6, <2>8, <3>2
    <3> QED
      BY <3>3, <3>4
  <2>15. Account(cmd.phase)' = Account(cmd.phase)
    BY <2>4 DEF Account, RoleOf
  <2>16. (cmd.pc = "wait" => /\ cmd.ahead + 1 \in DOMAIN pool[Account(cmd.phase)]
                             /\ pool[Account(cmd.phase)][cmd.ahead + 1] = cmd.tx)'
    BY <2>4, <2>12, <2>15
  <2>17. (cmd.pc = "send" => UnbindSendable(cmd.tx, pool["endpoint"], reg.bound))'
    BY <2>4, <2>13
  <2> QED
    BY <2>10, <2>11, <2>14, <2>16, <2>17 DEF WorkInv
<1>12. ASSUME Chained PROVE LeftInv'
  <2>1. InTurn /\ LeftInv
    BY <1>3, <1>12 DEF Chained, TurnInv
  <2>2. ASSUME NEW e \in Endpoint, reg'.bound[e] # None
        PROVE  \/ Owns(plan, e, reg'.bound[e])
               \/ Newest > 1 /\ Owns(plans[Newest - 1], e, reg'.bound[e])
    <3>1. reg'.bound[e] = reg.bound[e] \/ Owns(plan, e, reg'.bound[e])
      BY <1>8, <2>1, <2>2
    <3> QED
      BY <2>1, <2>2, <3>1 DEF LeftInv
  <2>3. ASSUME NEW s \in Server, reg'.anchor[s].status = "ACTIVE"
        PROVE  \/ s \in ServersOf(plan.entries)
               \/ Newest > 1 /\ s \in ServersOf(plans[Newest - 1].entries)
    <3>1. reg.anchor[s].status = "ACTIVE" \/ s \in ServersOf(plan.entries)
      BY <1>8, <2>1, <2>3
    <3> QED
      BY <2>1, <3>1 DEF LeftInv
  <2> QED
    BY <1>2, <1>4, <2>2, <2>3 DEF LeftInv
<1> QED
  BY <1>3, <1>4, <1>5, <1>6, <1>9, <1>10, <1>11, <1>12 DEF TurnInv

-----------------------------------------------------------------------------
(* A plan is carried out, and the next one prepared                        *)

\* When the five phases of a plan in its turn have ended, all of the plan is in
\* the Registry.
LEMMA Settled ==
    ASSUME PublicationInv, TurnInv, Newest # 0, InTurn, done = Phase,
           NEW plan, plan = plans[Newest], NEW root, root = RootOf(Newest)
    PROVE  /\ reg.root[root].version = plan.version
           /\ \A i \in DOMAIN plan.entries :
                 LET s == plan.entries[i].server
                 IN  /\ OfEntry(plan, root, s, reg.anchor[s])
                     /\ reg.anchor[s].status = "ACTIVE" \/ s \in hand.servers
           /\ \A e \in Endpoint, s \in Server :
                 /\ Owns(plan, e, s) => reg.bound[e] = s
                 /\ Drops(plan, e, s) => reg.bound[e] # s
           /\ \A s \in Server : Removes(plan, s) => reg.anchor[s].status = "REVOKED"
<1>1. PlansInv /\ Newest \in 1..Len(plans)
  BY DEF PublicationInv, PlansInv, Newest
<1>2. ASSUME NEW phase \in Phase, NEW j \in DOMAIN Work(Newest, phase)
      PROVE  ItemDone(plan, root, reg, hand.servers, Work(Newest, phase)[j])
  <2>1. DoneInv
    BY <1>1 DEF TurnInv
  <2> QED
    BY <2>1 DEF DoneInv, IsDone
<1>3. /\ "publish-root" \in Phase /\ "publish-resolvers" \in Phase /\ "unbind-endpoints" \in Phase
      /\ "bind-endpoints" \in Phase /\ "revoke-removed" \in Phase
  BY DEF Phase, Order
<1>4. reg.root[root].version = plan.version
  <2>1. PICK j \in DOMAIN Work(Newest, "publish-root") : Work(Newest, "publish-root")[j].kind = "root"
    BY <1>1, WorkHasAll
  <2> QED
    BY <1>2, <1>3, <2>1 DEF ItemDone
<1>5. ASSUME NEW i \in DOMAIN plan.entries
      PROVE  LET s == plan.entries[i].server
             IN  /\ OfEntry(plan, root, s, reg.anchor[s])
                 /\ reg.anchor[s].status = "ACTIVE" \/ s \in hand.servers
  <2>1. PICK j \in DOMAIN Work(Newest, "publish-resolvers") :
                 /\ Work(Newest, "publish-resolvers")[j].kind = "resolver"
                 /\ Work(Newest, "publish-resolvers")[j].server = plan.entries[i].server
    BY <1>1, WorkHasAll
  <2> QED
    BY <1>2, <1>3, <2>1 DEF ItemDone
<1>6. ASSUME NEW e \in Endpoint, NEW s \in Server, Owns(plan, e, s) PROVE reg.bound[e] = s
  <2>1. PICK j \in DOMAIN Work(Newest, "bind-endpoints") :
                    /\ Work(Newest, "bind-endpoints")[j].kind = "bind"
                    /\ Work(Newest, "bind-endpoints")[j].server = s
                    /\ Work(Newest, "bind-endpoints")[j].endpoint = e
    BY <1>1, <1>6, WorkHasAll
  <2> QED
    BY <1>2, <1>3, <2>1 DEF ItemDone
<1>7. ASSUME NEW e \in Endpoint, NEW s \in Server, Drops(plan, e, s) PROVE reg.bound[e] # s
  <2>1. Work(Newest, "unbind-endpoints") = plan.unbinds
    BY DEF Work
  <2>2. PICK j \in DOMAIN plan.unbinds : plan.unbinds[j].server = s /\ plan.unbinds[j].endpoint = e
    BY <1>7 DEF Drops
  <2>3. plan.unbinds[j].kind = "unbind"
    <3>1. plan.unbinds \in Seq(UnbindItem)
      BY <1>1, PlanType
    <3>2. plan.unbinds[j] \in UnbindItem
      BY <3>1
    <3> QED
      BY <3>2 DEF UnbindItem
  <2>4. ItemDone(plan, root, reg, hand.servers, plan.unbinds[j])
    BY <1>2, <1>3, <2>1
  <2> QED
    BY <2>2, <2>3, <2>4 DEF ItemDone
<1>8. ASSUME NEW s \in Server, Removes(plan, s) PROVE reg.anchor[s].status = "REVOKED"
  <2>1. Work(Newest, "revoke-removed") = plan.revocations
    BY DEF Work
  <2>2. PICK j \in DOMAIN plan.revocations : plan.revocations[j].server = s
    BY <1>8 DEF Removes
  <2>3. plan.revocations[j].kind = "revoke"
    <3>1. plan.revocations \in Seq(RevokeItem)
      BY <1>1, PlanType
    <3>2. plan.revocations[j] \in RevokeItem
      BY <3>1
    <3> QED
      BY <3>2 DEF RevokeItem
  <2>4. ItemDone(plan, root, reg, hand.servers, plan.revocations[j])
    BY <1>2, <1>3, <2>1
  <2> QED
    BY <2>2, <2>3, <2>4 DEF ItemDone
<1> QED
  BY <1>4, <1>5, <1>6, <1>7, <1>8

\* What waits when a plan has been carried out changes nothing under the next.
LEMMA QueuesSpent ==
    ASSUME PublicationInv, TurnInv, Newest # 0, InTurn, done = Phase, NEW plan, NEW root
    PROVE  Queues(pool, reg, plan, root, hand)
<1> DEFINE old == plans[Newest]
           was == RootOf(Newest)
<1>1. PlansInv /\ RegInv /\ Newest \in 1..Len(plans) /\ EntriesSound(old.entries)
  BY DEF PublicationInv, PlansInv, Newest
<1>2. KindsInv /\ QueuesInv
  BY <1>1 DEF TurnInv
<1>3. /\ reg.root[was].version = old.version
      /\ \A i \in DOMAIN old.entries :
            OfEntry(old, was, old.entries[i].server, reg.anchor[old.entries[i].server])
      /\ \A e \in Endpoint, s \in Server : /\ Owns(old, e, s) => reg.bound[e] = s
                                           /\ Drops(old, e, s) => reg.bound[e] # s
      /\ \A s \in Server : Removes(old, s) => reg.anchor[s].status = "REVOKED"
  BY Settled
<1>4. /\ RootQueue(pool["root"], reg.root, old, was)
      /\ ResolverQueue(pool["resolver"], reg.anchor, old, was)
      /\ RevokerQueue(pool["revoker"], reg.anchor, old, hand)
      /\ EndpointQueue(pool["endpoint"], reg.bound, old)
  BY <1>2 DEF QueuesInv, Queues
<1>5. old.version \in Nat /\ old.entries \in Seq(Entry)
  BY <1>1, PlanType
<1> HIDE DEF old, was
<1>6. RootQueue(pool["root"], reg.root, plan, root)
  <2> DEFINE q == pool["root"]
  <2>1. ASSUME NEW i \in 1..Len(q) PROVE q[i].version <= reg.root[q[i].root].version
    <3>1. q[i].version \in Nat
      <4>1. q \in Seq(RootTx)
        BY <1>2 DEF KindsInv
      <4>2. q[i] \in RootTx
        BY <4>1
      <4> QED
        BY <4>2 DEF RootTx
    <3>2. \/ q[i].root = was /\ q[i].version = old.version
          \/ q[i].version <= reg.root[q[i].root].version
      BY <1>4 DEF RootQueue
    <3> QED
      BY <1>3, <1>5, <3>1, <3>2
  <2> QED
    BY <2>1 DEF RootQueue
<1>7. ResolverQueue(pool["resolver"], reg.anchor, plan, root)
  <2> DEFINE q == pool["resolver"]
  <2>1. ASSUME NEW i \in 1..Len(q) PROVE q[i].version <= reg.anchor[q[i].server].version
    <3>1. OfEntry(old, was, q[i].server, q[i]) \/ q[i].version <= reg.anchor[q[i].server].version
      BY <1>4 DEF ResolverQueue
    <3>2. CASE OfEntry(old, was, q[i].server, q[i])
      <4> DEFINE s == q[i].server
      <4>1. PICK n \in DOMAIN old.entries :
                  old.entries[n].server = s /\ q[i].version = old.entries[n].version
        BY <3>2 DEF OfEntry
      <4>2. OfEntry(old, was, s, reg.anchor[s])
        BY <1>3, <4>1
      <4>3. PICK m \in DOMAIN old.entries :
                  old.entries[m].server = s /\ reg.anchor[s].version = old.entries[m].version
        BY <4>2 DEF OfEntry
      <4>4. m = n
        BY <1>1, <4>1, <4>3, EntryUnique DEF old
      <4>5. old.entries[n].version \in Nat
        BY <1>5, EntryType
      <4> QED
        BY <4>1, <4>3, <4>4, <4>5
    <3> QED
      BY <3>1, <3>2
  <2> QED
    BY <2>1 DEF ResolverQueue
<1>8. RevokerQueue(pool["revoker"], reg.anchor, plan, hand)
  <2> DEFINE q == pool["revoker"]
  <2>1. ASSUME NEW i \in 1..Len(q), q[i].kind = "revoke"
        PROVE  q[i].server \in hand.servers \/ reg.anchor[q[i].server].status = "REVOKED"
    <3>1. q[i].server \in Server
      <4> DEFINE R == RevokeItem \cup RevokeRootTx
      <4>1. q \in Seq(R)
        BY <1>2 DEF KindsInv
      <4> HIDE DEF R
      <4>2. q[i] \in R
        BY <4>1
      <4>3. q[i] \notin RevokeRootTx
        BY <2>1 DEF RevokeRootTx
      <4> QED
        BY <4>2, <4>3 DEF R, RevokeItem
    <3> QED
      BY <1>3, <1>4, <2>1, <3>1 DEF RevokerQueue
  <2> QED
    BY <2>1 DEF RevokerQueue
<1>9. EndpointQueue(pool["endpoint"], reg.bound, plan)
  <2> DEFINE q == pool["endpoint"]
  <2>1. ASSUME NEW i \in 1..Len(q)
        PROVE  /\ q[i].endpoint \in Endpoint /\ q[i].server \in Server
               /\ q[i].kind = "bind" => reg.bound[q[i].endpoint] = q[i].server
               /\ q[i].kind = "unbind" => reg.bound[q[i].endpoint] = None
    <3>1. q[i].endpoint \in Endpoint /\ q[i].server \in Server
      <4>1. q \in Seq(BindTx)
        BY <1>2 DEF KindsInv
      <4>2. q[i] \in BindTx
        BY <4>1
      <4> QED
        BY <4>2 DEF BindTx
    <3>2. /\ q[i].kind = "bind" => \/ Owns(old, q[i].endpoint, q[i].server)
                                   \/ reg.bound[q[i].endpoint] = q[i].server
          /\ q[i].kind = "unbind" => \/ reg.bound[q[i].endpoint] = None
                                     \/ Drops(old, q[i].endpoint, reg.bound[q[i].endpoint])
      BY <1>4 DEF EndpointQueue
    <3>3. reg.bound[q[i].endpoint] \in Server \cup {None}
      BY <1>1, <3>1 DEF RegInv
    <3> QED
      BY <1>3, <3>1, <3>2, <3>3
  <2>2. ASSUME NEW i \in 1..Len(q), NEW j \in 1..Len(q), q[i].endpoint = q[j].endpoint,
               q[i].kind = "bind", q[j].kind = "unbind"
        PROVE  FALSE
    BY <2>1, <2>2, Parameters
  <2>3. ASSUME NEW i \in 1..Len(q), NEW j \in 1..Len(q), i < j, q[i].endpoint = q[j].endpoint
        PROVE  /\ ~(q[i].kind = "bind" /\ q[j].kind = "unbind")
               /\ ~(q[i].kind = "unbind" /\ q[j].kind = "bind")
    <3>1. q[j].endpoint = q[i].endpoint
      BY <2>3
    <3> QED
      BY <2>2, <2>3, <3>1
  <2>4. ASSUME NEW i \in 1..Len(q)
        PROVE  /\ q[i].kind = "bind" =>
                     /\ reg.bound[q[i].endpoint] \in {None, q[i].server}
                     /\ \/ Owns(plan, q[i].endpoint, q[i].server)
                        \/ reg.bound[q[i].endpoint] = q[i].server
               /\ q[i].kind = "unbind" =>
                     \/ reg.bound[q[i].endpoint] = None
                     \/ Drops(plan, q[i].endpoint, reg.bound[q[i].endpoint])
    BY <2>1
  <2> HIDE DEF q
  <2>5. EndpointQueue(q, reg.bound, plan)
    BY <2>3, <2>4 DEF EndpointQueue
  <2> QED
    BY <2>5 DEF q
<1> QED
  BY <1>6, <1>7, <1>8, <1>9 DEF Queues

\* What was bound or active under the plan before a carried out one is the
\* carried out one's.
LEMMA NothingLeft ==
    ASSUME PublicationInv, TurnInv, Newest # 0, Chained, done = Phase,
           NEW plan, plan = plans[Newest]
    PROVE  /\ \A e \in Endpoint : reg.bound[e] # None => Owns(plan, e, reg.bound[e])
           /\ \A s \in Server : reg.anchor[s].status = "ACTIVE" => s \in ServersOf(plan.entries)
<1>1. InTurn /\ Newest \in 1..Len(plans) /\ Newest \in Nat /\ plans[Newest].prev = Newest - 1
  BY DEF Chained, PublicationInv, PlansInv, Newest
<1>2. LeftInv /\ RemovalsInv(Newest)
  BY <1>1 DEF TurnInv
<1>3. Newest > 1 => RemovalsFull(plans[Newest - 1], plan)
  BY <1>1, <1>2 DEF RemovalsInv
<1>4. /\ \A e \in Endpoint, s \in Server : Drops(plan, e, s) => reg.bound[e] # s
      /\ \A s \in Server : Removes(plan, s) => reg.anchor[s].status = "REVOKED"
  BY <1>1, Settled
<1>5. ASSUME NEW e \in Endpoint, reg.bound[e] # None PROVE Owns(plan, e, reg.bound[e])
  <2>1. reg.bound[e] \in Server
    BY <1>5 DEF PublicationInv, RegInv
  <2>2. \/ Owns(plan, e, reg.bound[e])
        \/ Newest > 1 /\ Owns(plans[Newest - 1], e, reg.bound[e])
    BY <1>2, <1>5 DEF LeftInv
  <2> QED
    BY <1>3, <1>4, <2>1, <2>2 DEF RemovalsFull
<1>6. ASSUME NEW s \in Server, reg.anchor[s].status = "ACTIVE" PROVE s \in ServersOf(plan.entries)
  <2>1. \/ s \in ServersOf(plan.entries)
        \/ Newest > 1 /\ s \in ServersOf(plans[Newest - 1].entries)
    BY <1>2, <1>6 DEF LeftInv
  <2>2. ~Removes(plan, s)
    BY <1>4, <1>6
  <2> QED
    BY <1>3, <2>1, <2>2 DEF RemovalsFull
<1> QED
  BY <1>5, <1>6

\* The next plan is prepared.
LEMMA PrepareTurn ==
    ASSUME PublicationInv, TurnInv, NEW draft \in Draft, NEW version \in 1..MaxPlans,
           NEW prev \in 0..Newest, Prepare(draft, version, prev)
    PROVE  TurnInv'
<1> DEFINE p == BuildPlan(draft, version, prev)
           N == Newest
<1>1. /\ Loadable(draft) /\ Ready /\ plans' = Append(plans, p) /\ done' = {}
      /\ carried' = IF done = Phase THEN carried \cup {N} ELSE carried
      /\ UNCHANGED <<reg, pool, cmd, hand>>
  BY DEF Prepare
<1>2. PlansInv /\ plans \in Seq(Plan) /\ N \in Nat /\ N = Len(plans)
  BY DEF PublicationInv, PlansInv, Newest
<1>3. RemovalsSound(p) /\ p.prev = prev /\ (prev # 0 => RemovalsFull(plans[prev], p))
  BY <1>1, <1>2, RemovalsBuilt
<1>4. /\ Newest' = N + 1 /\ plans'[N + 1] = p /\ \A k \in 1..N : plans'[k] = plans[k]
  <2>1. p \in Plan
    <3>1. PlansInv'
      BY PrepareKeeps DEF PublicationInv
    <3>2. plans' \in Seq(Plan) /\ Len(plans') = Len(plans) + 1 /\ plans'[Len(plans) + 1] = p
      <4> HIDE DEF p
      <4> QED
        BY <1>1, <1>2, <3>1 DEF PlansInv
    <3> QED
      BY <1>2, <3>2
  <2> HIDE DEF p
  <2> QED
    BY <1>1, <1>2, <2>1, AppendProperties DEF Newest
<1> HIDE DEF p
<1>5. carried \in SUBSET (0..(N - 1)) /\ done \in SUBSET Phase /\ (N = 0 => done = {} /\ NothingYet)
  BY DEF TurnInv
<1>6. (\A k \in 1..Newest : RemovalsInv(k))'
  <2>1. ASSUME NEW k \in 1..(N + 1) PROVE RemovalsInv(k)'
    <3>1. CASE k = N + 1
      <4>1. plans'[k] = p /\ prev \in 0..(k - 1)
        BY <1>2, <1>4, <3>1
      <4>2. prev # 0 => plans'[prev] = plans[prev]
        BY <1>2, <1>4
      <4> QED
        BY <1>3, <4>1, <4>2 DEF RemovalsInv
    <3>2. CASE k # N + 1
      <4>1. k \in 1..N /\ plans'[k] = plans[k]
        BY <1>2, <1>4, <3>2
      <4>2. RemovalsInv(k)
        BY <4>1 DEF TurnInv
      <4>3. plans[k].prev \in 0..(k - 1)
        BY <4>2 DEF RemovalsInv
      <4>4. plans[k].prev # 0 => plans'[plans[k].prev] = plans[plans[k].prev]
        <5>1. plans[k].prev # 0 => plans[k].prev \in 1..N
          BY <1>2, <4>1, <4>3
        <5> QED
          BY <1>4, <5>1
      <4> QED
        BY <4>1, <4>2, <4>4 DEF RemovalsInv
    <3> QED
      BY <3>1, <3>2
  <2> QED
    BY <1>4, <2>1
<1>7. (done \in SUBSET Phase /\ carried \in SUBSET (0..(Newest - 1)))'
  <2>1. carried' \in SUBSET (0..N)
    <3> HIDE DEF N
    <3>1. (0..(N - 1)) \subseteq 0..N /\ N \in 0..N
      BY <1>2
    <3>2. carried' \subseteq carried \cup {N}
      BY <1>1
    <3> QED
      BY <1>5, <3>1, <3>2
  <2> QED
    BY <1>1, <1>2, <1>4, <2>1
<1>8. ASSUME InTurn' PROVE InTurn /\ (N # 0 => done = Phase)
  <2>1. \A k \in 1..N : k \in carried'
    BY <1>2, <1>4, <1>8 DEF InTurn
  <2>2. N \notin carried
    BY <1>2, <1>5
  <2>3. N # 0 => done = Phase
    BY <1>1, <1>2, <2>1, <2>2
  <2>4. \A k \in 1..(N - 1) : k \in carried
    BY <1>1, <1>2, <2>1
  <2> QED
    BY <2>3, <2>4 DEF InTurn
<1>9. ASSUME InTurn' PROVE KindsInv' /\ KnownInv'
  <2>1. KindsInv /\ KnownInv
    BY <1>8, <1>9 DEF TurnInv
  <2> QED
    BY <1>1, <2>1 DEF KindsInv, KnownInv
<1>10. ASSUME InTurn' PROVE QueuesInv'
  <2>1. ASSUME NEW plan, NEW root PROVE Queues(pool, reg, plan, root, hand)
    <3>1. CASE N = 0
      <4>1. \A role \in Role : pool[role] = <<>>
        BY <1>5, <3>1 DEF NothingYet
      <4>2. \A role \in {"root", "resolver", "revoker", "endpoint"} : Len(pool[role]) = 0
        BY <4>1 DEF Role
      <4> QED
        BY <4>2 DEF Queues, RootQueue, ResolverQueue, RevokerQueue, EndpointQueue
    <3>2. CASE N # 0
      BY <1>8, <1>10, <3>2, QueuesSpent
    <3> QED
      BY <3>1, <3>2
  <2>2. \A plan, root : Queues(pool', reg', plan, root, hand')
    BY <1>1, <2>1
  <2> QED
    BY <2>2 DEF QueuesInv
<1>11. DoneInv' /\ WorkInv'
  BY <1>1 DEF DoneInv, WorkInv, Ready
<1>12. ASSUME Chained' PROVE LeftInv'
  <2>1. InTurn' /\ \A k \in 1..(N + 1) : plans'[k].prev = k - 1
    BY <1>4, <1>12 DEF Chained
  <2>2. CASE N = 0
    <3>1. /\ \A e \in Endpoint : reg.bound[e] = None
          /\ \A s \in Server : reg.anchor[s].status = "UNKNOWN"
      BY <1>5, <2>2 DEF NothingYet
    <3> QED
      BY <1>1, <3>1 DEF LeftInv
  <2>3. CASE N # 0
    <3>1. InTurn /\ done = Phase
      BY <1>8, <2>1, <2>3
    <3>2. \A k \in 1..N : plans[k].prev = k - 1
      BY <1>2, <1>4, <2>1
    <3>3. Chained
      BY <3>1, <3>2 DEF Chained
    <3>4. /\ \A e \in Endpoint : reg.bound[e] # None => Owns(plans[N], e, reg.bound[e])
          /\ \A s \in Server : reg.anchor[s].status = "ACTIVE" => s \in ServersOf(plans[N].entries)
      BY <2>3, <3>1, <3>3, NothingLeft
    <3>5. Newest' > 1 /\ plans'[Newest' - 1] = plans[N]
      BY <1>2, <1>4, <2>3
    <3> HIDE DEF N
    <3> QED
      BY <1>1, <3>4, <3>5 DEF LeftInv
  <2> QED
    BY <2>2, <2>3
<1>13. Newest' # 0
  BY <1>2, <1>4
<1> QED
  BY <1>6, <1>7, <1>9, <1>10, <1>11, <1>12, <1>13 DEF TurnInv

\* At the start there is nothing to keep in order.
LEMMA InitTurn ==
    ASSUME Init
    PROVE  TurnInv
<1>1. Newest = 0
  BY DEF Init, Newest
<1>2. \A k \in 1..Newest : RemovalsInv(k)
  BY <1>1
<1>3. done = {} /\ carried = {} /\ Ready
  BY DEF Init, NoCommand, Ready
<1>4. NothingYet
  BY DEF Init, NothingYet, NoRoot, NoAnchor
<1>5. KindsInv
  BY DEF Init, KindsInv, Role
<1>6. KnownInv
  <2>1. \A r \in 1..MaxPlans : reg.root[r] = NoRoot
    BY DEF Init
  <2>2. \A r \in 1..MaxPlans : reg.root[r].version = 0 /\ reg.root[r].status = "UNKNOWN"
    BY <2>1 DEF NoRoot
  <2>3. Len(pool["revoker"]) = 0
    BY DEF Init, Role
  <2>4. hand \in [servers : SUBSET Server, roots : SUBSET (1..MaxPlans)]
    BY DEF Init
  <2> QED
    BY <2>2, <2>3, <2>4 DEF KnownInv
<1> QED
  BY <1>1, <1>2, <1>3, <1>4, <1>5, <1>6 DEF TurnInv

\* Every step keeps the order.
LEMMA NextTurn ==
    ASSUME PublicationInv, TurnInv, [Next]_vars
    PROVE  TurnInv'
<1>1. CASE \E draft \in Draft, version \in 1..MaxPlans, prev \in 0..Newest :
              Prepare(draft, version, prev)
  BY <1>1, PrepareTurn
<1>2. CASE StartNext
  <2>1. PICK i \in 1..5 : Start(Order[i])
    BY <1>2 DEF StartNext
  <2>2. Order[i] \in Phase
    BY DEF Phase
  <2> QED
    BY <2>1, <2>2, StartTurn
<1>3. CASE \E phase \in Phase : StartOther(phase)
  BY <1>3, StartTurn DEF StartOther
<1>4. CASE Read
  BY <1>4, ReadTurn
<1>5. CASE Send
  BY <1>5, SendTurn
<1>6. CASE Record
  BY <1>6, RecordTurn
<1>7. CASE Finish
  BY <1>7, FinishTurn
<1>8. CASE Archive
  <2>1. Ready' /\ UNCHANGED <<reg, pool, plans, done, carried, hand>>
    BY <1>8 DEF Archive, Ready
  <2> QED
    BY <2>1, IdleTurn
<1>9. CASE Stops
  <2>1. cmd' = Stopped("failed") /\ UNCHANGED <<reg, pool, plans, done, carried, hand>>
    BY <1>9 DEF Stops
  <2> QED
    BY <2>1, StoppedReady, IdleTurn
<1>10. CASE \E role \in Role : Mine(role)
  BY <1>10, MineTurn
<1>11. CASE \/ \E s \in Server : RevokeResolver(s)
            \/ \E k \in 1..MaxPlans : RevokeRoot(k)
  BY <1>11, RevokeTurn
<1>12. CASE UNCHANGED vars
  <2>1. UNCHANGED <<reg, pool, plans, cmd, done, carried, hand>>
    BY <1>12 DEF vars
  <2>2. Newest = 0 => Ready'
    BY <2>1 DEF TurnInv, Ready
  <2>3. ASSUME Newest > 0, InTurn PROVE WorkInv'
    <3>1. WorkInv
      BY <2>3 DEF TurnInv
    <3>2. /\ Newest' = Newest /\ RootOf(Newest)' = RootOf(Newest) /\ Todo' = Todo
          /\ \A j : IsDone(Todo[j])' = IsDone(Todo[j])
      BY <2>1, SameItems
    <3>3. Account(cmd.phase)' = Account(cmd.phase) /\ Ready' = Ready
      BY <2>1 DEF Account, RoleOf, Ready
    <3> QED
      BY <2>1, <3>1, <3>2, <3>3 DEF WorkInv
  <2> QED
    BY <2>1, <2>2, <2>3, CommandTurn
<1> QED
  BY <1>1, <1>2, <1>3, <1>4, <1>5, <1>6, <1>7, <1>8, <1>9, <1>10, <1>11, <1>12 DEF Next

\* Where every plan was carried out before the next one was prepared, the
\* pools hold nothing that could undo the newest plan, every item of a phase
\* that ended stays done, and a running command has done the items before the
\* one it is at: the inductive invariant of the publication.
THEOREM TurnInvariant == Spec => [](PublicationInv /\ TurnInv)
<1>1. Init => PublicationInv /\ TurnInv
  BY InitInv, InitTurn
<1>2. PublicationInv /\ TurnInv /\ [Next]_vars => (PublicationInv /\ TurnInv)'
  BY NextKeeps, NextTurn
<1> QED
  BY <1>1, <1>2, PTL DEF Spec

\* When the five phases of a plan in its turn have ended, after whatever
\* timeouts, repetitions and early phases, the Registry says what the plan
\* says, and no transaction left in a pool undoes it.
THEOREM CompletedAlwaysMatches == Spec => []CompletedMatches
<1>1. ASSUME PublicationInv, TurnInv PROVE CompletedMatches
  <2> DEFINE plan == plans[Newest]
             root == RootOf(Newest)
  <2>1. SUFFICES ASSUME Newest > 0, done = Phase, InTurn
        PROVE  /\ reg.root[root].version = plan.version
               /\ reg.root[root].status = "ACTIVE" \/ root \in hand.roots
               /\ \A i \in DOMAIN plan.entries :
                     LET entry == plan.entries[i]
                         anchor == reg.anchor[entry.server]
                     IN  /\ anchor.version = entry.version /\ anchor.endpoints = entry.endpoints
                         /\ anchor.root = root
                         /\ anchor.status = "ACTIVE" \/ entry.server \in hand.servers
                         /\ \A e \in Elements(entry.endpoints) : reg.bound[e] = entry.server
               /\ \A i \in DOMAIN plan.unbinds :
                     reg.bound[plan.unbinds[i].endpoint] # plan.unbinds[i].server
               /\ \A i \in DOMAIN plan.revocations :
                     reg.anchor[plan.revocations[i].server].status = "REVOKED"
    BY DEF CompletedMatches, Completed
  <2>2. PlansInv /\ RegInv /\ Newest \in 1..Len(plans) /\ EntriesSound(plan.entries) /\ Newest # 0
    BY <1>1, <2>1 DEF PublicationInv, PlansInv, Newest
  <2>3. /\ plan.version \in Nat \ {0} /\ plan.entries \in Seq(Entry)
        /\ plan.unbinds \in Seq(UnbindItem) /\ plan.revocations \in Seq(RevokeItem)
        /\ root \in 1..MaxPlans
    <3>1. Newest \in Nat \ {0} /\ Newest <= MaxPlans /\ MaxPlans \in Nat
      BY <2>2, PlanType, Parameters
    <3>2. root \in 1..Newest
      BY <3>1, RootOfType
    <3> QED
      BY <2>2, <3>1, <3>2, PlanType
  <2>4. /\ reg.root[root].version = plan.version
        /\ \A i \in DOMAIN plan.entries :
              LET s == plan.entries[i].server
              IN  /\ OfEntry(plan, root, s, reg.anchor[s])
                  /\ reg.anchor[s].status = "ACTIVE" \/ s \in hand.servers
        /\ \A e \in Endpoint, s \in Server : /\ Owns(plan, e, s) => reg.bound[e] = s
                                             /\ Drops(plan, e, s) => reg.bound[e] # s
        /\ \A s \in Server : Removes(plan, s) => reg.anchor[s].status = "REVOKED"
    BY <1>1, <2>1, <2>2, Settled
  <2> HIDE DEF plan, root
  <2>5. reg.root[root].status = "ACTIVE" \/ root \in hand.roots
    <3>1. KnownInv
      BY <1>1, <2>1 DEF TurnInv
    <3>2. reg.root[root].status \in Status
      BY <2>2, <2>3 DEF RegInv, RootRecord
    <3> QED
      BY <2>3, <2>4, <3>1, <3>2 DEF KnownInv, Status
  <2>6. ASSUME NEW i \in DOMAIN plan.entries
        PROVE  LET entry == plan.entries[i]
                   anchor == reg.anchor[entry.server]
               IN  /\ anchor.version = entry.version /\ anchor.endpoints = entry.endpoints
                   /\ anchor.root = root
                   /\ anchor.status = "ACTIVE" \/ entry.server \in hand.servers
                   /\ \A e \in Elements(entry.endpoints) : reg.bound[e] = entry.server
    <3> DEFINE s == plan.entries[i].server
    <3>1. OfEntry(plan, root, s, reg.anchor[s]) /\ (reg.anchor[s].status = "ACTIVE" \/ s \in hand.servers)
      BY <2>4
    <3>2. PICK n \in DOMAIN plan.entries :
                /\ plan.entries[n].server = s /\ reg.anchor[s].version = plan.entries[n].version
                /\ reg.anchor[s].endpoints = plan.entries[n].endpoints /\ reg.anchor[s].root = root
      BY <3>1 DEF OfEntry
    <3>3. n = i
      BY <2>2, <3>2, EntryUnique DEF plan
    <3>4. s \in Server /\ plan.entries[i].endpoints \in Seq(Endpoint)
      BY <2>3, EntryType
    <3>5. ASSUME NEW e \in Elements(plan.entries[i].endpoints) PROVE reg.bound[e] = s
      <4>1. e \in Endpoint
        BY <3>4 DEF Elements
      <4>2. Owns(plan, e, s)
        BY DEF Owns
      <4> QED
        BY <2>4, <3>4, <4>1, <4>2
    <3> QED
      BY <3>1, <3>2, <3>3, <3>5
  <2>7. ASSUME NEW i \in DOMAIN plan.unbinds
        PROVE  reg.bound[plan.unbinds[i].endpoint] # plan.unbinds[i].server
    <3>1. plan.unbinds[i] \in UnbindItem
      BY <2>3
    <3>2. plan.unbinds[i].endpoint \in Endpoint /\ plan.unbinds[i].server \in Server
      BY <3>1 DEF UnbindItem
    <3>3. Drops(plan, plan.unbinds[i].endpoint, plan.unbinds[i].server)
      BY DEF Drops
    <3> QED
      BY <2>4, <3>2, <3>3
  <2>8. ASSUME NEW i \in DOMAIN plan.revocations
        PROVE  reg.anchor[plan.revocations[i].server].status = "REVOKED"
    <3>1. plan.revocations[i] \in RevokeItem
      BY <2>3
    <3>2. plan.revocations[i].server \in Server
      BY <3>1 DEF RevokeItem
    <3>3. Removes(plan, plan.revocations[i].server)
      BY DEF Removes
    <3> QED
      BY <2>4, <3>2, <3>3
  <2> QED
    BY <2>4, <2>5, <2>6, <2>7, <2>8
<1>2. PublicationInv /\ TurnInv => CompletedMatches
  BY <1>1
<1> QED
  BY <1>2, TurnInvariant, PTL

\* Removals computed from the previous plan are enough where every plan names
\* the one before it and that one was carried out: no endpoint stays bound to,
\* and no resolver stays active from, what the newest plan does not have.
THEOREM NothingEverLeftBound == Spec => []NothingLeftBound
<1>1. ASSUME PublicationInv, TurnInv PROVE NothingLeftBound
  <2> DEFINE plan == plans[Newest]
  <2>1. SUFFICES ASSUME Newest > 0, done = Phase, Chained
        PROVE  /\ \A e \in Endpoint : reg.bound[e] # None =>
                     e \in EndpointsOf(plan.entries, reg.bound[e])
               /\ \A s \in Server : reg.anchor[s].status = "ACTIVE" => s \in ServersOf(plan.entries)
    BY DEF NothingLeftBound, Completed
  <2>2. EntriesSound(plan.entries) /\ Newest # 0
    BY <1>1, <2>1 DEF PublicationInv, PlansInv, Newest
  <2>3. /\ \A e \in Endpoint : reg.bound[e] # None => Owns(plan, e, reg.bound[e])
        /\ \A s \in Server : reg.anchor[s].status = "ACTIVE" => s \in ServersOf(plan.entries)
    BY <1>1, <2>1, <2>2, NothingLeft
  <2>4. ASSUME NEW e \in Endpoint, reg.bound[e] # None
        PROVE  e \in EndpointsOf(plan.entries, reg.bound[e])
    <3>1. Owns(plan, e, reg.bound[e])
      BY <2>3, <2>4
    <3> HIDE DEF plan
    <3> QED
      BY <2>2, <3>1, EndpointsOwned DEF Owns
  <2> QED
    BY <2>3, <2>4
<1>2. PublicationInv /\ TurnInv => NothingLeftBound
  BY <1>1
<1> QED
  BY <1>2, TurnInvariant, PTL

=============================================================================
