--------------------------- MODULE LdapReadsFacts ---------------------------
(***************************************************************************)
(* What a search of the directory returns, and what becomes of that when   *)
(* the directory grows, for the proofs about the programs that read it.    *)
(***************************************************************************)
EXTENDS LdapReads, FiniteSetTheorems, TLAPS

LEMMA CardinalityOfInterval ==
  ASSUME NEW n \in Nat
  PROVE  IsFiniteSet(1..n) /\ Cardinality(1..n) = n
<1>1. /\ IsFiniteSet(1..n)
      /\ Cardinality(1..n) = IF 1 > n THEN 0 ELSE n - 1 + 1
  BY FS_Interval
<1> QED BY <1>1

\* The places of a search are among the directory's, and rise in rank.
LEMMA PlacesAreFinite ==
  ASSUME NEW S, NEW d \in Seq(S), NEW ids
  PROVE  /\ Places(d, ids) \subseteq 1..Len(d)
         /\ IsFiniteSet(Places(d, ids))
         /\ Cardinality(Places(d, ids)) \in 0..Len(d)
<1>1. Places(d, ids) \subseteq 1..Len(d) /\ Len(d) \in Nat
  BY DEF Places
<1>2. IsFiniteSet(1..Len(d)) /\ Cardinality(1..Len(d)) = Len(d)
  BY <1>1, CardinalityOfInterval
<1> QED BY <1>1, <1>2, FS_Subset, FS_CardinalityType

LEMMA RankRises ==
  ASSUME NEW S, NEW d \in Seq(S), NEW ids,
         NEW i \in Places(d, ids), NEW j \in Places(d, ids)
  PROVE  /\ Rank(d, ids, i) \in 1..Cardinality(Places(d, ids))
         /\ i < j => Rank(d, ids, i) < Rank(d, ids, j)
<1> DEFINE Upto(k) == {l \in Places(d, ids) : l <= k}
<1>1. IsFiniteSet(Places(d, ids)) /\ Places(d, ids) \subseteq 1..Len(d)
  BY PlacesAreFinite
<1>2. Len(d) \in Nat /\ i \in Nat /\ j \in Nat
  BY <1>1
<1>3. ASSUME NEW k
      PROVE  /\ IsFiniteSet(Upto(k)) /\ Cardinality(Upto(k)) \in Nat
             /\ Cardinality(Upto(k)) <= Cardinality(Places(d, ids))
  BY <1>1, FS_Subset, FS_CardinalityType
<1>4. Cardinality(Upto(i)) # 0
  <2>1. i \in Upto(i)
    BY <1>2
  <2> QED BY <1>3, <2>1, FS_EmptySet
<1>5. ASSUME i < j PROVE Cardinality(Upto(i)) < Cardinality(Upto(j))
  <2>1. Upto(i) \in SUBSET Upto(j) /\ j \in Upto(j) /\ j \notin Upto(i)
    BY <1>1, <1>2, <1>5
  <2>2. /\ Cardinality(Upto(i)) <= Cardinality(Upto(j))
        /\ Cardinality(Upto(i)) # Cardinality(Upto(j))
    BY <1>3, <2>1, FS_Subset
  <2>3. Cardinality(Upto(i)) \in Nat /\ Cardinality(Upto(j)) \in Nat
    BY <1>3
  <2> QED
    <3> HIDE DEF Upto
    <3> QED BY <2>2, <2>3
<1>6. Cardinality(Places(d, ids)) \in Nat
  BY <1>1, FS_CardinalityType
<1>7. /\ Cardinality(Upto(i)) \in 1..Cardinality(Places(d, ids))
      /\ i < j => Cardinality(Upto(i)) < Cardinality(Upto(j))
  <2> HIDE DEF Upto
  <2> QED BY <1>3, <1>4, <1>5, <1>6
<1> QED BY <1>7 DEF Rank

\* The ranks are counted without a gap: Entries has one entry for each.
LEMMA EveryRankIsTaken ==
  ASSUME NEW S, NEW d \in Seq(S), NEW ids,
         NEW r \in 1..Cardinality(Places(d, ids))
  PROVE  \E i \in Places(d, ids) : Rank(d, ids, i) = r
<1> DEFINE P == Places(d, ids)
           n == Cardinality(P)
           f == [i \in P |-> Rank(d, ids, i)]
<1>1. IsFiniteSet(P) /\ P \subseteq 1..Len(d) /\ n \in Nat
  BY PlacesAreFinite
<1>2. f \in [P -> 1..n]
  BY RankRises
<1>3. ASSUME NEW i \in P, NEW j \in P, f[i] = f[j] PROVE i = j
  <2>1. i \in Int /\ j \in Int
    BY <1>1
  <2>2. /\ Rank(d, ids, i) \in Int /\ Rank(d, ids, j) \in Int
        /\ ~(i < j) /\ ~(j < i)
    BY <1>1, <1>3, RankRises
  <2> QED BY <2>1, <2>2
<1>4. f \in Injection(P, 1..n)
  BY <1>2, <1>3 DEF Injection, IsInjective
<1>5. IsFiniteSet(1..n) /\ Cardinality(1..n) = n
  BY <1>1, CardinalityOfInterval
<1>6. f \in Surjection(P, 1..n)
  BY <1>4, <1>5, FS_Injection
<1> QED BY <1>6 DEF Surjection

\* An entry is found at its rank.
LEMMA EntryAtRank ==
  ASSUME NEW S, NEW d \in Seq(S), NEW ids
  PROVE  /\ Len(Entries(d, ids)) = Cardinality(Places(d, ids))
         /\ Entries(d, ids) \in Seq(S)
         /\ \A i \in Places(d, ids) :
              Entries(d, ids)[Rank(d, ids, i)] = d[i]
         /\ \A r \in 1..Len(Entries(d, ids)) :
              \E i \in Places(d, ids) :
                Rank(d, ids, i) = r /\ Entries(d, ids)[r] = d[i]
<1> DEFINE P == Places(d, ids)
           n == Cardinality(P)
           At(r) == CHOOSE i \in P : Rank(d, ids, i) = r
<1>1. P \subseteq 1..Len(d) /\ n \in Nat
  BY PlacesAreFinite
<1>2. ASSUME NEW r \in 1..n PROVE At(r) \in P /\ Rank(d, ids, At(r)) = r
  BY EveryRankIsTaken
<1>3. ASSUME NEW r \in 1..n
      PROVE  Entries(d, ids)[r] = d[At(r)] /\ d[At(r)] \in S
  <2>1. d[At(r)] \in S
    BY <1>1, <1>2
  <2>2. Entries(d, ids)[r] = d[At(r)]
    BY DEF Entries
  <2> QED BY <2>1, <2>2
<1>4. Entries(d, ids) \in [1..n -> S]
  BY <1>3 DEF Entries
<1>5. Entries(d, ids) \in Seq(S) /\ Len(Entries(d, ids)) = n
  BY <1>1, <1>4
<1>6. ASSUME NEW i \in P PROVE Entries(d, ids)[Rank(d, ids, i)] = d[i]
  <2> DEFINE r == Rank(d, ids, i)
  <2>1. r \in 1..n
    BY RankRises
  <2>2. At(r) \in P /\ Rank(d, ids, At(r)) = r
    BY <1>2, <2>1
  <2>3. i \in Int /\ At(r) \in Int
    BY <1>1, <2>2
  <2>4. ~(i < At(r)) /\ ~(At(r) < i)
    <3> HIDE DEF At
    <3> QED BY <1>1, <2>1, <2>2, RankRises
  <2>5. At(r) = i
    <3> HIDE DEF At
    <3> QED BY <2>3, <2>4
  <2> QED BY <1>3, <2>1, <2>5
<1> QED BY <1>1, <1>2, <1>3, <1>5, <1>6

\* A notice that is stored is found last, if it is searched for.
LEMMA EntriesOfAppend ==
  ASSUME NEW S, NEW d \in Seq(S), NEW ids, NEW n \in S
  PROVE  Entries(Append(d, n), ids) =
           IF n \in ids THEN Append(Entries(d, ids), n) ELSE Entries(d, ids)
<1> DEFINE D == Append(d, n)
           m == Len(d) + 1
           P == Places(d, ids)
<1>1. /\ D \in Seq(S) /\ Len(D) = m /\ m \in Nat
      /\ D[m] = n /\ \A i \in 1..Len(d) : D[i] = d[i]
  OBVIOUS
<1>2. /\ P \subseteq 1..Len(d) /\ IsFiniteSet(P) /\ Cardinality(P) \in Nat
  BY PlacesAreFinite, FS_CardinalityType
<1>3. /\ m \notin P
      /\ Places(D, ids) = IF n \in ids THEN P \cup {m} ELSE P
  BY <1>1, <1>2 DEF Places
<1>4. ASSUME NEW i \in P
      PROVE  i \in Places(D, ids) /\ D[i] = d[i] /\ Rank(D, ids, i) = Rank(d, ids, i)
  <2>1. {k \in Places(D, ids) : k <= i} = {k \in P : k <= i}
    BY <1>1, <1>2, <1>3
  <2> QED BY <1>1, <1>2, <1>3, <2>1 DEF Rank
<1>5. \A r \in 1..Len(Entries(d, ids)) :
        \E i \in P : Rank(d, ids, i) = r /\ Entries(d, ids)[r] = d[i]
  BY EntryAtRank
<1>6. \A i \in Places(D, ids) : Entries(D, ids)[Rank(D, ids, i)] = D[i]
  <2> HIDE DEF D
  <2> QED BY <1>1, EntryAtRank
<1>7. ASSUME NEW r \in 1..Len(Entries(d, ids))
      PROVE  Entries(D, ids)[r] = Entries(d, ids)[r]
  <2>1. PICK i \in P : Rank(d, ids, i) = r /\ Entries(d, ids)[r] = d[i]
    BY <1>5
  <2>2. Entries(D, ids)[Rank(D, ids, i)] = D[i]
    BY <1>4, <1>6
  <2> QED BY <1>4, <2>1, <2>2
<1>8. /\ Entries(d, ids) \in Seq(S) /\ Len(Entries(d, ids)) = Cardinality(P)
      /\ Entries(D, ids) \in Seq(S)
      /\ Len(Entries(D, ids)) = Cardinality(Places(D, ids))
  <2> HIDE DEF D
  <2> QED BY <1>1, EntryAtRank
<1>9. CASE n \in ids
  <2>1. Cardinality(Places(D, ids)) = Cardinality(P) + 1
    BY <1>2, <1>3, <1>9, FS_AddElement
  <2>2. Rank(D, ids, m) = Cardinality(P) + 1
    <3>1. {k \in Places(D, ids) : k <= m} = Places(D, ids)
      BY <1>1, <1>2, <1>3
    <3> QED BY <2>1, <3>1 DEF Rank
  <2>3. m \in Places(D, ids)
    BY <1>3, <1>9
  <2>4. Entries(D, ids)[Cardinality(P) + 1] = n
    BY <1>1, <1>6, <2>2, <2>3
  <2>5. ASSUME NEW E, NEW F, E \in Seq(S), F \in Seq(S), Len(F) = Len(E) + 1,
               \A r \in 1..Len(E) : F[r] = E[r], F[Len(E) + 1] = n
        PROVE  F = Append(E, n)
    BY <2>5
  <2> QED BY <1>2, <1>7, <1>8, <1>9, <2>1, <2>4, <2>5
<1>10. CASE n \notin ids
  <2>1. Len(Entries(D, ids)) = Len(Entries(d, ids))
    BY <1>3, <1>8, <1>10
  <2>2. ASSUME NEW E, NEW F, E \in Seq(S), F \in Seq(S), Len(F) = Len(E),
               \A r \in 1..Len(E) : F[r] = E[r]
        PROVE  F = E
    BY <2>2
  <2> QED BY <1>7, <1>8, <1>10, <2>1, <2>2
<1> QED BY <1>9, <1>10

\* What is found is what matches, each entry as often as it is stored.
LEMMA EntriesMatch ==
  ASSUME NEW S, NEW d \in Seq(S), NEW ids
  PROVE  /\ Range(Entries(d, ids)) = Range(d) \cap ids
         /\ IsInjective(d) => IsInjective(Entries(d, ids))
<1> DEFINE E == Entries(d, ids)
<1>1. /\ DOMAIN E = 1..Len(E) /\ DOMAIN d = 1..Len(d)
      /\ Len(E) = Cardinality(Places(d, ids))
      /\ \A r \in 1..Len(E) :
           \E i \in Places(d, ids) : Rank(d, ids, i) = r /\ E[r] = d[i]
      /\ \A i \in Places(d, ids) :
           Rank(d, ids, i) \in 1..Len(E) /\ E[Rank(d, ids, i)] = d[i]
  <2>1. E \in Seq(S) /\ Len(E) = Cardinality(Places(d, ids))
    BY EntryAtRank
  <2>2. \A r \in 1..Len(E) :
          \E i \in Places(d, ids) : Rank(d, ids, i) = r /\ E[r] = d[i]
    BY EntryAtRank
  <2>3. \A i \in Places(d, ids) : E[Rank(d, ids, i)] = d[i]
    BY EntryAtRank
  <2>4. \A i \in Places(d, ids) : Rank(d, ids, i) \in 1..Len(E)
    BY <2>1, RankRises
  <2> HIDE DEF E
  <2> QED BY <2>1, <2>2, <2>3, <2>4
<1>2. \A i \in Places(d, ids) : i \in DOMAIN d /\ d[i] \in ids
  BY DEF Places
<1>3. ASSUME NEW n \in Range(E) PROVE n \in Range(d) \cap ids
  BY <1>1, <1>2, <1>3 DEF Range
<1>4. ASSUME NEW n \in Range(d) \cap ids PROVE n \in Range(E)
  <2>1. PICK i \in Places(d, ids) : d[i] = n
    BY <1>4 DEF Range, Places
  <2> QED BY <1>1, <2>1 DEF Range
<1>5. ASSUME IsInjective(d) PROVE IsInjective(E)
  <2> SUFFICES ASSUME NEW r \in 1..Len(E), NEW s \in 1..Len(E), E[r] = E[s]
               PROVE  r = s
    BY <1>1 DEF IsInjective
  <2>1. PICK i \in Places(d, ids) : Rank(d, ids, i) = r /\ E[r] = d[i]
    BY <1>1
  <2>2. PICK j \in Places(d, ids) : Rank(d, ids, j) = s /\ E[s] = d[j]
    BY <1>1
  <2> QED BY <1>2, <1>5, <2>1, <2>2 DEF IsInjective
<1> QED BY <1>3, <1>4, <1>5

-----------------------------------------------------------------------------
\* A directory is a sequence without repetition; that it is no longer than the
\* ids allow follows.
LEMMA DirectoryIsSequence ==
  ASSUME NEW d
  PROVE  d \in Directories <=> d \in Seq(Ids) /\ IsInjective(d)
<1>1. IsFiniteSet(Ids) /\ Cardinality(Ids) \in Nat
  BY IdsAssumption, FS_CardinalityType
<1>2. ASSUME d \in Directories PROVE d \in Seq(Ids) /\ IsInjective(d)
  <2>1. PICK m \in 0..Cardinality(Ids) : d \in [1..m -> Ids]
    BY <1>2 DEF Directories, BoundedSeq, SeqOf
  <2>2. m \in Nat
    BY <1>1
  <2> QED BY <1>2, <2>1, <2>2 DEF Directories
<1>3. ASSUME d \in Seq(Ids), IsInjective(d) PROVE d \in Directories
  <2> DEFINE m == Len(d)
  <2>1. m \in Nat /\ d \in [1..m -> Ids]
    BY <1>3
  <2>2. d \in Injection(1..m, Ids)
    BY <1>3, <2>1 DEF Injection
  <2>3. Cardinality(1..m) <= Cardinality(Ids)
    BY <1>1, <2>2, FS_Injection
  <2>4. m <= Cardinality(Ids)
    BY <2>1, <2>3, CardinalityOfInterval
  <2>5. m \in 0..Cardinality(Ids)
    BY <1>1, <2>1, <2>4
  <2> QED BY <1>3, <2>1, <2>5 DEF Directories, BoundedSeq, SeqOf
<1> QED BY <1>2, <1>3

LEMMA EmptyIsDirectory == <<>> \in Directories
<1>1. <<>> \in Seq(Ids) /\ IsInjective(<<>>)
  BY DEF IsInjective
<1> QED BY <1>1, DirectoryIsSequence

LEMMA StoredIsDirectory ==
  ASSUME NEW d \in Directories, NEW n \in Ids \ Range(d)
  PROVE  Append(d, n) \in Directories /\ Len(Append(d, n)) = Len(d) + 1
<1>1. d \in Seq(Ids) /\ IsInjective(d) /\ Append(d, n) \in Seq(Ids)
  BY DirectoryIsSequence
<1>2. IsInjective(Append(d, n))
  BY <1>1 DEF IsInjective, Range
<1>3. Append(d, n) \in Directories
  BY <1>1, <1>2, DirectoryIsSequence
<1> QED BY <1>1, <1>3

LEMMA EntriesAreDirectory ==
  ASSUME NEW d \in Directories, NEW ids
  PROVE  Entries(d, ids) \in Directories
<1>1. d \in Seq(Ids) /\ IsInjective(d)
  BY DirectoryIsSequence
<1>2. Entries(d, ids) \in Seq(Ids)
  BY <1>1, EntryAtRank
<1>3. IsInjective(Entries(d, ids))
  BY <1>1, EntriesMatch
<1> QED BY <1>2, <1>3, DirectoryIsSequence

\* A stack holds the first DIM of what is pushed.
LEMMA PushedIsDirectory ==
  ASSUME NEW d \in Directories
  PROVE  /\ Pushed(d) \in Directories
         /\ Len(Pushed(d)) = IF Len(d) < DIM THEN Len(d) ELSE DIM
         /\ Len(Pushed(d)) <= Len(d)
         /\ \A i \in 1..Len(Pushed(d)) : Pushed(d)[i] = d[i]
         /\ Pushed(d) = <<>> <=> d = <<>>
<1> DEFINE m == IF Len(d) < DIM THEN Len(d) ELSE DIM
<1>1. d \in Seq(Ids) /\ IsInjective(d)
  BY DirectoryIsSequence
<1>2. m \in 0..Len(d) /\ Len(d) \in Nat /\ (m = 0 <=> Len(d) = 0)
  BY <1>1, DIMAssumption
<1>3. /\ Pushed(d) \in Seq(Ids) /\ Len(Pushed(d)) = m
      /\ \A i \in 1..m : Pushed(d)[i] = d[i]
  <2> HIDE DEF m
  <2>1. Pushed(d) = SubSeq(d, 1, m)
    BY DEF Pushed, m
  <2> QED BY <1>1, <1>2, <2>1
<1>4. IsInjective(Pushed(d))
  <2> HIDE DEF m
  <2> QED BY <1>1, <1>2, <1>3 DEF IsInjective
<1>5. Pushed(d) = <<>> <=> d = <<>>
  <2> HIDE DEF m
  <2> QED BY <1>1, <1>2, <1>3
<1> QED BY <1>2, <1>3, <1>4, <1>5, DirectoryIsSequence

LEMMA PoppedIsDirectory ==
  ASSUME NEW d \in Directories
  PROVE  /\ PopAll(d) \in Directories
         /\ Len(PopAll(d)) = Len(d)
         /\ \A i \in 1..Len(d) : PopAll(d)[i] = d[Len(d) + 1 - i]
<1>1. d \in Seq(Ids) /\ IsInjective(d) /\ Len(d) \in Nat
  BY DirectoryIsSequence
<1>2. /\ PopAll(d) \in Seq(Ids) /\ Len(PopAll(d)) = Len(d)
      /\ \A i \in 1..Len(d) : PopAll(d)[i] = d[Len(d) + 1 - i]
  BY <1>1 DEF PopAll, Reverse
<1>3. IsInjective(PopAll(d))
  <2> SUFFICES ASSUME NEW i \in 1..Len(d), NEW j \in 1..Len(d),
                      PopAll(d)[i] = PopAll(d)[j]
               PROVE  i = j
    <3>1. DOMAIN PopAll(d) = 1..Len(d)
      BY <1>2
    <3> QED BY <3>1 DEF IsInjective
  <2>1. d[Len(d) + 1 - i] = d[Len(d) + 1 - j]
    BY <1>2
  <2>2. Len(d) + 1 - i \in 1..Len(d) /\ Len(d) + 1 - j \in 1..Len(d)
    BY <1>1
  <2>3. Len(d) + 1 - i = Len(d) + 1 - j
    BY <1>1, <2>1, <2>2 DEF IsInjective
  <2> QED BY <1>1, <2>3
<1> QED BY <1>2, <1>3, DirectoryIsSequence

LEMMA LastIsFound ==
  ASSUME NEW d \in Directories, d # <<>>
  PROVE  Last(d) \in Ids /\ Last(d) \in Range(d)
<1>1. d \in Seq(Ids) /\ Len(d) \in 1..Len(d)
  BY DirectoryIsSequence
<1> QED BY <1>1 DEF Last, Range

LEMMA NoticeOfSearch ==
  ASSUME NEW d \in Directories, NEW id
  PROVE  /\ GetNoticeById(d, id) \in Ids \cup {NoNotice}
         /\ GetNoticeById(d, id) # NoNotice =>
              /\ GetNoticeById(d, id) \in Range(d)
              /\ id \in {GetNoticeById(d, id), Star}
<1> DEFINE ids == {n \in Ids : id \in {n, Star}}
<1>1. WithId(d, id) \in Directories
  BY EntriesAreDirectory DEF WithId
<1>2. Range(WithId(d, id)) = Range(d) \cap ids
  BY EntriesMatch, DirectoryIsSequence DEF WithId
<1> QED BY <1>1, <1>2, LastIsFound DEF GetNoticeById

LEMMA DirectoryIsBounded ==
  ASSUME NEW d \in Directories
  PROVE  Len(d) \in 0..Cardinality(Ids)
<1>1. IsFiniteSet(Ids) /\ Cardinality(Ids) \in Nat
  BY IdsAssumption, FS_CardinalityType
<1>2. PICK m \in 0..Cardinality(Ids) : d \in [1..m -> Ids]
  BY DEF Directories, BoundedSeq, SeqOf
<1>3. m \in Nat /\ d \in Seq(Ids)
  BY <1>1, <1>2
<1>4. Len(d) = m
  BY <1>2, <1>3
<1> QED BY <1>4

LEMMA NoticeAlone ==
  ASSUME NEW n \in Ids
  PROVE  <<n>> \in Directories
<1>1. <<n>> \in Seq(Ids) /\ IsInjective(<<n>>)
  BY DEF IsInjective
<1> QED BY <1>1, DirectoryIsSequence

\* The oldest notices of a directory are a directory, which later ones leave
\* alone.
LEMMA OldestAreDirectory ==
  ASSUME NEW d \in Directories, NEW m \in 0..Len(d)
  PROVE  /\ SubSeq(d, 1, m) \in Directories
         /\ Len(SubSeq(d, 1, m)) = m
         /\ \A i \in 1..m : SubSeq(d, 1, m)[i] = d[i]
         /\ Range(SubSeq(d, 1, m)) = {d[i] : i \in 1..m}
<1> DEFINE s == SubSeq(d, 1, m)
<1>1. d \in Seq(Ids) /\ IsInjective(d) /\ Len(d) \in Nat /\ m \in Nat
  BY DirectoryIsSequence
<1>2. s \in Seq(Ids) /\ Len(s) = m /\ \A i \in 1..m : s[i] = d[i]
  BY <1>1
<1>3. DOMAIN s = 1..m
  BY <1>2
<1> HIDE DEF s
<1>4. IsInjective(s)
  BY <1>1, <1>2, <1>3 DEF IsInjective
<1>5. s \in Directories
  BY <1>2, <1>4, DirectoryIsSequence
<1>6. Range(s) = {d[i] : i \in 1..m}
  BY <1>2, <1>3 DEF Range
<1> QED BY <1>2, <1>5, <1>6 DEF s

LEMMA OldestStay ==
  ASSUME NEW d \in Directories, NEW n \in Ids \ Range(d), NEW m \in 0..Len(d)
  PROVE  SubSeq(Append(d, n), 1, m) = SubSeq(d, 1, m)
<1>1. d \in Seq(Ids) /\ Len(d) \in Nat /\ m \in Nat
  BY DirectoryIsSequence
<1> DEFINE D == Append(d, n)
<1>2. Append(d, n) \in Directories /\ Len(D) = Len(d) + 1
  BY StoredIsDirectory
<1>3. \A i \in 1..Len(d) : D[i] = d[i]
  BY <1>1
<1> HIDE DEF D
<1>4. SubSeq(D, 1, m) = [i \in 1..m |-> d[i]]
  <2>1. m \in 0..Len(D)
    BY <1>1, <1>2
  <2>2. D \in Directories
    BY <1>2 DEF D
  <2>3. /\ SubSeq(D, 1, m) \in Seq(Ids) /\ Len(SubSeq(D, 1, m)) = m
        /\ \A i \in 1..m : SubSeq(D, 1, m)[i] = D[i]
    BY <2>1, <2>2, OldestAreDirectory, DirectoryIsSequence
  <2>4. SubSeq(D, 1, m) = [i \in 1..m |-> SubSeq(D, 1, m)[i]]
    BY <1>1, <2>3
  <2> QED BY <1>1, <1>3, <2>3, <2>4
<1>5. SubSeq(d, 1, m) = [i \in 1..m |-> d[i]]
  <2>3. /\ SubSeq(d, 1, m) \in Seq(Ids) /\ Len(SubSeq(d, 1, m)) = m
        /\ \A i \in 1..m : SubSeq(d, 1, m)[i] = d[i]
    BY OldestAreDirectory, DirectoryIsSequence
  <2>4. SubSeq(d, 1, m) = [i \in 1..m |-> SubSeq(d, 1, m)[i]]
    BY <1>1, <2>3
  <2> QED BY <1>1, <2>3, <2>4
<1> QED BY <1>4, <1>5 DEF D

LEMMA AllAreOldest ==
  ASSUME NEW d \in Directories
  PROVE  SubSeq(d, 1, Len(d)) = d
<1>1. d \in Seq(Ids) /\ Len(d) \in Nat
  BY DirectoryIsSequence
<1> QED BY <1>1

\* A search for one id finds nothing else, one for "*" everything and last the
\* newest.
LEMMA LastById ==
  ASSUME NEW d \in Directories, NEW id, WithId(d, id) # <<>>
  PROVE  /\ Last(WithId(d, id)) \in Ids
         /\ \/ Last(WithId(d, id)) = id
            \/ id = Star /\ d # <<>> /\ Last(WithId(d, id)) = d[Len(d)]
<1> DEFINE ids == {n \in Ids : id \in {n, Star}}
           E == Entries(d, ids)
<1>1. d \in Seq(Ids) /\ IsInjective(d) /\ Len(d) \in Nat
  BY DirectoryIsSequence
<1>2. /\ E \in Directories /\ E # <<>> /\ E = WithId(d, id)
      /\ Range(E) = Range(d) \cap ids
  BY <1>1, EntriesAreDirectory, EntriesMatch DEF WithId
<1>3. Last(E) \in Ids /\ Last(E) \in ids
  BY <1>2, LastIsFound
<1>4. CASE id # Star
  BY <1>2, <1>3, <1>4
<1>5. CASE id = Star
  <2> DEFINE P == Places(d, ids)
             k == Len(E)
             l == Len(d)
  <2> HIDE DEF ids
  <2>0. /\ Len(Entries(d, ids)) = Cardinality(Places(d, ids))
        /\ Entries(d, ids) \in Seq(Ids)
        /\ \A r \in 1..Len(Entries(d, ids)) :
             \E i \in Places(d, ids) :
               Rank(d, ids, i) = r /\ Entries(d, ids)[r] = d[i]
    BY <1>1, EntryAtRank
  <2>1. /\ k = Cardinality(P) /\ E \in Seq(Ids)
        /\ \A r \in 1..k : \E i \in P : Rank(d, ids, i) = r /\ E[r] = d[i]
    BY <2>0
  <2>2. k \in Nat \ {0}
    BY <1>2, <2>1
  <2>3. PICK i \in P : Rank(d, ids, i) = k /\ E[k] = d[i]
    <3>1. k \in 1..k
      BY <2>2
    <3> HIDE DEF k, E, P
    <3> QED BY <2>1, <3>1
  <2>4. i \in 1..l
    BY <1>1, PlacesAreFinite
  <2>5. l \in P
    BY <1>1, <1>5, <2>4 DEF Places, ids
  <2>6. /\ Rank(d, ids, l) \in 1..k
        /\ i < l => Rank(d, ids, i) < Rank(d, ids, l)
    BY <1>1, <2>1, <2>3, <2>5, RankRises
  <2>7. i = l
    BY <1>1, <2>2, <2>3, <2>4, <2>6
  <2>8. Last(E) = E[k]
    BY DEF Last
  <2>9. d # <<>>
    BY <1>1, <2>4
  <2> QED BY <1>2, <1>3, <1>5, <2>3, <2>7, <2>8, <2>9
<1> QED BY <1>4, <1>5

\* A search keeps the directory's order.
LEMMA EntriesInOrder ==
  ASSUME NEW d \in Directories, NEW ids,
         NEW r \in 1..Len(Entries(d, ids)), NEW s \in 1..Len(Entries(d, ids)),
         NEW i \in 1..Len(d), NEW j \in 1..Len(d),
         Entries(d, ids)[r] = d[i], Entries(d, ids)[s] = d[j]
  PROVE  r < s <=> i < j
<1> DEFINE E == Entries(d, ids)
           P == Places(d, ids)
<1>1. d \in Seq(Ids) /\ IsInjective(d) /\ P \subseteq 1..Len(d)
  BY DirectoryIsSequence, PlacesAreFinite
<1>2. \A q \in 1..Len(E) : \E p \in P : Rank(d, ids, p) = q /\ E[q] = d[p]
  BY <1>1, EntryAtRank
<1>3. i \in P /\ Rank(d, ids, i) = r
  <2>1. PICK p \in P : Rank(d, ids, p) = r /\ E[r] = d[p]
    BY <1>2
  <2>2. p = i
    <3>1. p \in 1..Len(d) /\ d[p] = d[i]
      BY <1>1, <2>1
    <3> QED BY <1>1, <3>1 DEF IsInjective
  <2> QED BY <2>1, <2>2
<1>4. j \in P /\ Rank(d, ids, j) = s
  <2>1. PICK p \in P : Rank(d, ids, p) = s /\ E[s] = d[p]
    BY <1>2
  <2>2. p = j
    <3>1. p \in 1..Len(d) /\ d[p] = d[j]
      BY <1>1, <2>1
    <3> QED BY <1>1, <3>1 DEF IsInjective
  <2> QED BY <2>1, <2>2
<1>5. /\ i < j => r < s
      /\ j < i => s < r
      /\ r \in Int /\ s \in Int /\ i \in Int /\ j \in Int
  BY <1>1, <1>3, <1>4, RankRises
<1>6. i = j => r = s
  BY <1>3, <1>4
<1> HIDE DEF E, P
<1> QED BY <1>5, <1>6

\* The entry at r of a narrower search is that at k of a wider one, and the one
\* before it the last before k that the narrower one wants.
SameEntry(wide, narrow, some, k, r) ==
  /\ r <= k /\ narrow[r] = wide[k]
  /\ r = 1 => \A l \in 1..(k - 1) : wide[l] \notin some
  /\ r > 1 => \E l \in 1..(k - 1) :
                /\ wide[l] = narrow[r - 1] /\ wide[l] \in some
                /\ \A m \in 1..(k - 1) : wide[m] \in some => m <= l

LEMMA NarrowerSearch ==
  ASSUME NEW d \in Directories, NEW ids, NEW some \in SUBSET ids,
         NEW k \in 1..Len(Entries(d, ids)), Entries(d, ids)[k] \in some
  PROVE  \E r \in 1..Len(Entries(d, some)) :
           SameEntry(Entries(d, ids), Entries(d, some), some, k, r)
<1> DEFINE E == Entries(d, ids)
           H == Entries(d, some)
<1>1. d \in Seq(Ids) /\ IsInjective(d) /\ Len(d) \in Nat
  BY DirectoryIsSequence
<1>2. /\ E \in Seq(Ids) /\ H \in Seq(Ids)
      /\ \A q \in 1..Len(E) : \E i \in 1..Len(d) : d[i] = E[q]
      /\ \A q \in 1..Len(H) : H[q] \in some /\ \E i \in 1..Len(d) : d[i] = H[q]
      /\ \A i \in 1..Len(d) :
           d[i] \in ids => \E q \in 1..Len(E) : E[q] = d[i]
      /\ \A i \in 1..Len(d) :
           d[i] \in some => \E q \in 1..Len(H) : H[q] = d[i]
  <2>1. E \in Seq(Ids) /\ H \in Seq(Ids)
    BY <1>1, EntryAtRank
  <2>2. /\ Range(E) = Range(d) \cap ids /\ Range(H) = Range(d) \cap some
    BY <1>1, EntriesMatch
  <2>3. DOMAIN E = 1..Len(E) /\ DOMAIN H = 1..Len(H) /\ DOMAIN d = 1..Len(d)
    BY <1>1, <2>1
  <2> HIDE DEF E, H
  <2> QED BY <2>1, <2>2, <2>3 DEF Range
<1>3. PICK i \in Places(d, ids) : Rank(d, ids, i) = k /\ E[k] = d[i]
  BY <1>1, EntryAtRank
<1>4. i \in 1..Len(d) /\ i \in Places(d, some)
  BY <1>1, <1>3 DEF Places
<1> DEFINE r == Rank(d, some, i)
<1>5. r \in 1..Len(H) /\ H[r] = d[i]
  BY <1>1, <1>4, RankRises, EntryAtRank
<1>6. r <= k
  <2> DEFINE U == {p \in Places(d, ids) : p <= i}
             V == {p \in Places(d, some) : p <= i}
  <2>1. IsFiniteSet(Places(d, ids)) /\ U \subseteq Places(d, ids)
    BY <1>1, PlacesAreFinite
  <2>2. IsFiniteSet(U)
    BY <2>1, FS_Subset
  <2>3. V \subseteq U
    BY DEF Places
  <2>4. Cardinality(V) <= Cardinality(U)
    BY <2>2, <2>3, FS_Subset
  <2> QED BY <1>3, <2>4 DEF Rank
\* Before this entry in one is before it in the other.
<1>7. ASSUME NEW l \in 1..Len(E), NEW q \in 1..Len(H), E[l] = H[q]
      PROVE  l < k <=> q < r
  <2>1. PICK j \in 1..Len(d) : d[j] = E[l]
    BY <1>2
  <2>2. l < k <=> j < i
    BY <1>3, <1>4, <2>1, EntriesInOrder
  <2>3. q < r <=> j < i
    <3> HIDE DEF r
    <3> QED BY <1>4, <1>5, <1>7, <2>1, EntriesInOrder
  <2> QED BY <2>2, <2>3
<1> HIDE DEF r
<1>8. k \in Int /\ r \in Int /\ Len(E) \in Nat /\ Len(H) \in Nat
  BY <1>2, <1>5
<1>9. ASSUME NEW l \in 1..(k - 1), E[l] \in some
      PROVE  \E q \in 1..Len(H) : H[q] = E[l] /\ q < r
  <2>1. l \in 1..Len(E) /\ l < k
    BY <1>8
  <2>2. PICK q \in 1..Len(H) : H[q] = E[l]
    <3> HIDE DEF E, H
    <3>1. PICK a \in 1..Len(d) : d[a] = E[l]
      BY <1>2, <2>1
    <3> QED BY <1>2, <1>9, <3>1
  <2> QED BY <1>7, <2>1, <2>2
<1>10. ASSUME r = 1 PROVE \A l \in 1..(k - 1) : E[l] \notin some
  <2> HIDE DEF E, H
  <2> QED BY <1>8, <1>9, <1>10
<1>11. ASSUME r > 1
       PROVE  \E l \in 1..(k - 1) :
                /\ E[l] = H[r - 1] /\ E[l] \in some
                /\ \A m \in 1..(k - 1) : E[m] \in some => m <= l
  <2>1. r - 1 \in 1..Len(H) /\ r - 1 < r
    BY <1>5, <1>8, <1>11
  <2>2. PICK l \in 1..Len(E) : E[l] = H[r - 1]
    <3> HIDE DEF E, H
    <3>1. PICK a \in 1..Len(d) : d[a] = H[r - 1] /\ H[r - 1] \in some
      BY <1>2, <2>1
    <3> QED BY <1>2, <3>1
  <2>3. l < k
    BY <1>7, <2>1, <2>2
  <2>4. E[l] \in some
    <3> HIDE DEF E, H
    <3> QED BY <1>2, <2>1, <2>2
  <2>5. ASSUME NEW m \in 1..(k - 1), E[m] \in some PROVE m <= l
    <3>1. PICK q \in 1..Len(H) : H[q] = E[m] /\ q < r
      BY <1>9, <2>5
    <3>2. m \in 1..Len(E)
      BY <1>8
    <3>3. PICK a \in 1..Len(d) : d[a] = E[m]
      BY <1>2, <3>2
    <3>4. PICK b \in 1..Len(d) : d[b] = E[l]
      BY <1>2
    <3>5. l < m <=> b < a
      BY <3>2, <3>3, <3>4, EntriesInOrder
    <3>6. r - 1 < q <=> b < a
      BY <2>1, <2>2, <3>1, <3>3, <3>4, EntriesInOrder
    <3> HIDE DEF E, H
    <3> QED BY <1>8, <3>1, <3>2, <3>5, <3>6
  <2>6. l \in 1..(k - 1)
    BY <1>8, <2>3
  <2> QED BY <2>2, <2>4, <2>5, <2>6
<1>12. SameEntry(E, H, some, k, r)
  <2> HIDE DEF E, H
  <2> QED BY <1>3, <1>5, <1>6, <1>10, <1>11 DEF SameEntry
<1> QED BY <1>5, <1>12

=============================================================================
