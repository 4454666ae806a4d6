---------------------------- MODULE AssetsProofs ----------------------------
(***************************************************************************)
(* Theorems about Assets, for arrays and scans of any length, any names,   *)
(* domains, addresses and marks, and any ends of nmap.                     *)
(*                                                                         *)
(* Every array of Assets is put together from elements of others, taken at *)
(* a set of their indices (At).  The first lemmas say that this keeps      *)
(* exactly those elements, in their order; MergeLayout then says where     *)
(* each row of an array that Merge returns comes from, and the theorems    *)
(* follow from it by reasoning about sets of indices.                      *)
(***************************************************************************)
EXTENDS Assets, FiniteSetTheorems, FunctionTheorems, SequenceTheorems, TLAPS

-----------------------------------------------------------------------------
(* Indices and their ranks.                                                *)

\* Sets of indices are finite.
LEMMA IndexSets ==
  ASSUME NEW n \in Nat, NEW I \in SUBSET (1 .. n)
  PROVE  /\ IsFiniteSet(I)
         /\ Cardinality(I) \in Nat
         /\ Cardinality(I) <= n
  <1>1. IsFiniteSet(1 .. n) /\ Cardinality(1 .. n) = n
    BY FS_Interval, 1 \in Int, n \in Int
  <1>2. IsFiniteSet(I) /\ Cardinality(I) <= n
    BY <1>1, FS_Subset
  <1> QED
    BY <1>2, FS_CardinalityType

\* A set and one it is in bijection with have as many elements.
LEMMA SameSize ==
  ASSUME NEW S, NEW T, IsFiniteSet(S), NEW f \in [S -> T],
         \A a, b \in S : f[a] = f[b] => a = b,
         \A t \in T : \E a \in S : f[a] = t
  PROVE  IsFiniteSet(T) /\ Cardinality(T) = Cardinality(S)
  <1>1. f \in Bijection(S, T)
    BY Fun_IsBij
  <1>2. ExistsBijection(S, T)
    BY <1>1 DEF ExistsBijection
  <1> QED
    BY <1>2, FS_Bijection

\* A set has no more elements than one it can be mapped into one to one.
LEMMA NoMoreThan ==
  ASSUME NEW S, NEW T, IsFiniteSet(T), NEW f \in [S -> T],
         \A a, b \in S : f[a] = f[b] => a = b
  PROVE  IsFiniteSet(S) /\ Cardinality(S) <= Cardinality(T)
  <1>1. f \in Injection(S, T)
    BY Fun_IsInj
  <1> QED
    BY <1>1, FS_Injection

\* Ranks count from one and follow the order of the indices.
LEMMA Ranks ==
  ASSUME NEW n \in Nat, NEW I \in SUBSET (1 .. n)
  PROVE  /\ \A i \in I : Rank(I, i) \in 1 .. Cardinality(I)
         /\ \A i, j \in I : i < j => Rank(I, i) < Rank(I, j)
         /\ \A i, j \in I : Rank(I, i) = Rank(I, j) => i = j
  <1> DEFINE Upto(i) == {j \in I : j <= i}
  <1>0. \A i \in I : i \in Int
    OBVIOUS
  <1>1. ASSUME NEW i \in I
        PROVE  /\ IsFiniteSet(Upto(i))
               /\ Cardinality(Upto(i)) \in 1 .. Cardinality(I)
    <2> i \in Int
      BY <1>0
    <2> i <= i
      OBVIOUS
    <2>1. Upto(i) \in SUBSET (1 .. n) /\ Upto(i) \in SUBSET I /\ i \in Upto(i)
      OBVIOUS
    <2>2. IsFiniteSet(Upto(i)) /\ Cardinality(Upto(i)) \in Nat
      BY <2>1, IndexSets
    <2>3. IsFiniteSet(I) /\ Cardinality(I) \in Nat
      BY IndexSets
    <2>4. Cardinality(Upto(i)) <= Cardinality(I)
      BY <2>1, <2>3, FS_Subset
    <2>5. Cardinality(Upto(i)) # 0
      BY <2>1, <2>2, FS_EmptySet
    <2> QED
      BY <2>2, <2>3, <2>4, <2>5
  <1>2. ASSUME NEW i \in I, NEW j \in I, i < j
        PROVE  Cardinality(Upto(i)) < Cardinality(Upto(j))
    <2> i \in Int /\ j \in Int
      BY <1>0
    <2> j <= j /\ ~ (j <= i) /\ \A k \in Int : k <= i => k <= j
      BY <1>2
    <2>1. Upto(i) \in SUBSET Upto(j) /\ j \in Upto(j) /\ j \notin Upto(i)
      BY <1>0
    <2>2. IsFiniteSet(Upto(j))
      BY <1>1
    <2>3. /\ Cardinality(Upto(i)) <= Cardinality(Upto(j))
          /\ Cardinality(Upto(j)) = Cardinality(Upto(i)) => Upto(j) = Upto(i)
      BY <2>1, <2>2, FS_Subset
    <2>4. Cardinality(Upto(i)) \in Int /\ Cardinality(Upto(j)) \in Int
      <3>1. Cardinality(Upto(i)) \in 1 .. Cardinality(I)
        BY <1>1
      <3>2. Cardinality(Upto(j)) \in 1 .. Cardinality(I)
        BY <1>1
      <3> QED
        BY <3>1, <3>2
    <2>5. Upto(j) # Upto(i)
      BY <2>1
    <2> HIDE DEF Upto
    <2> QED
      BY <2>3, <2>4, <2>5
  <1>3. \A i \in I : Rank(I, i) = Cardinality(Upto(i))
    BY DEF Rank
  <1> HIDE DEF Upto
  <1>4. \A i \in I : Rank(I, i) \in 1 .. Cardinality(I)
    BY <1>1, <1>3
  <1>5. \A i, j \in I : i < j => Rank(I, i) < Rank(I, j)
    BY <1>2, <1>3
  <1>6. \A i, j \in I : Rank(I, i) = Rank(I, j) => i = j
    <2> SUFFICES ASSUME NEW i \in I, NEW j \in I, Rank(I, i) = Rank(I, j), i # j
                 PROVE  FALSE
      OBVIOUS
    <2>1. i < j \/ j < i
      BY <1>0
    <2>2. Rank(I, i) \in Int /\ Rank(I, j) \in Int
      BY <1>4
    <2> QED
      BY <1>5, <2>1, <2>2
  <1> QED
    BY <1>4, <1>5, <1>6

\* Nth undoes Rank.
LEMMA NthUndoesRank ==
  ASSUME NEW n \in Nat, NEW I \in SUBSET (1 .. n)
  PROVE  /\ \A k \in 1 .. Cardinality(I) : Nth(I, k) \in I /\ Rank(I, Nth(I, k)) = k
         /\ \A i \in I : Nth(I, Rank(I, i)) = i
  <1>1. IsFiniteSet(I) /\ Cardinality(I) \in Nat
    BY IndexSets
  <1>2. /\ IsFiniteSet(1 .. Cardinality(I))
        /\ Cardinality(1 .. Cardinality(I)) = Cardinality(I)
    BY <1>1, FS_Interval, 1 \in Int, Cardinality(I) \in Int
  <1> DEFINE rank == [i \in I |-> Rank(I, i)]
  <1>3. rank \in Injection(I, 1 .. Cardinality(I))
    <2>1. rank \in [I -> 1 .. Cardinality(I)]
      BY Ranks
    <2>2. \A a, b \in I : rank[a] = rank[b] => a = b
      BY Ranks
    <2> HIDE DEF rank
    <2> QED
      BY <2>1, <2>2, Fun_IsInj
  <1>4. rank \in Surjection(I, 1 .. Cardinality(I))
    <2> HIDE DEF rank
    <2> QED
      BY <1>1, <1>2, <1>3, FS_Injection
  <1>5. \A k \in 1 .. Cardinality(I) : \E i \in I : Rank(I, i) = k
    <2>1. \A k \in 1 .. Cardinality(I) : \E i \in I : rank[i] = k
      BY <1>4 DEF Surjection
    <2> QED
      BY <2>1
  <1>6. \A k \in 1 .. Cardinality(I) : Nth(I, k) \in I /\ Rank(I, Nth(I, k)) = k
    BY <1>5 DEF Nth
  <1>7. \A i \in I : Nth(I, Rank(I, i)) = i
    BY <1>6, Ranks
  <1> QED
    BY <1>6, <1>7

\* At keeps exactly the elements at the indices it is given, each at the
\* rank of its index.
LEMMA AtProperties ==
  ASSUME NEW S, NEW seq \in Seq(S), NEW I \in SUBSET DOMAIN seq
  PROVE  /\ At(seq, I) \in Seq(S)
         /\ Len(At(seq, I)) = Cardinality(I)
         /\ DOMAIN At(seq, I) = 1 .. Cardinality(I)
         /\ Cardinality(I) \in Nat
         /\ \A k \in 1 .. Cardinality(I) :
               Nth(I, k) \in I /\ At(seq, I)[k] = seq[Nth(I, k)]
         /\ \A i \in I :
               Rank(I, i) \in 1 .. Cardinality(I) /\ At(seq, I)[Rank(I, i)] = seq[i]
  <1>1. Len(seq) \in Nat /\ DOMAIN seq = 1 .. Len(seq)
    BY LenProperties
  <1>2. I \in SUBSET (1 .. Len(seq))
    BY <1>1
  <1>3. Cardinality(I) \in Nat
    BY <1>1, <1>2, IndexSets
  <1>4. \A k \in 1 .. Cardinality(I) : Nth(I, k) \in I
    BY <1>1, <1>2, NthUndoesRank
  <1>5. \A k \in 1 .. Cardinality(I) : seq[Nth(I, k)] \in S
    BY <1>1, <1>2, <1>4, ElementOfSeq
  <1>6. \A i \in I : Rank(I, i) \in 1 .. Cardinality(I) /\ Nth(I, Rank(I, i)) = i
    <2>1. \A i \in I : Rank(I, i) \in 1 .. Cardinality(I)
      BY <1>1, <1>2, Ranks
    <2>2. \A i \in I : Nth(I, Rank(I, i)) = i
      BY <1>1, <1>2, NthUndoesRank
    <2> QED
      BY <2>1, <2>2
  <1>7. At(seq, I) \in Seq(S)
    BY <1>3, <1>5 DEF At
  <1>8. /\ Len(At(seq, I)) = Cardinality(I)
        /\ DOMAIN At(seq, I) = 1 .. Cardinality(I)
    BY <1>3, <1>7 DEF At
  <1> QED
    BY <1>3, <1>4, <1>6, <1>7, <1>8 DEF At

\* Among the indices it is given, FirstOf has exactly one of each key.
LEMMA FirstOfProperties ==
  ASSUME NEW rows, NEW n \in Nat, NEW I \in SUBSET (1 .. n)
  PROVE  /\ FirstOf(rows, I) \in SUBSET I
         /\ \A i \in I : \E j \in FirstOf(rows, I) :
               hostKey(rows[j].sub) = hostKey(rows[i].sub)
         /\ \A i, j \in FirstOf(rows, I) :
               hostKey(rows[j].sub) = hostKey(rows[i].sub) => i = j
  <1>0. \A i \in I : i \in Int
    OBVIOUS
  <1>1. FirstOf(rows, I) \in SUBSET I
    BY DEF FirstOf
  <1>2. ASSUME NEW i \in I
        PROVE  \E j \in FirstOf(rows, I) : hostKey(rows[j].sub) = hostKey(rows[i].sub)
    <2> DEFINE Same == {j \in I : hostKey(rows[j].sub) = hostKey(rows[i].sub)}
               m == Nth(Same, 1)
    <2>1. Same \in SUBSET (1 .. n) /\ i \in Same
      OBVIOUS
    <2>2. IsFiniteSet(Same) /\ Cardinality(Same) \in Nat /\ Cardinality(Same) # 0
      BY <2>1, IndexSets, FS_EmptySet
    <2>3. m \in Same /\ Rank(Same, m) = 1
      <3>1. 1 \in 1 .. Cardinality(Same)
        BY <2>2
      <3> HIDE DEF Same
      <3> QED
        BY <2>1, <3>1, NthUndoesRank
    <2>4. ASSUME NEW j \in Same, j < m PROVE FALSE
      <3>1. Rank(Same, j) < Rank(Same, m)
        <4> HIDE DEF Same, m
        <4> QED
          BY <2>1, <2>3, <2>4, Ranks
      <3>2. Rank(Same, j) \in 1 .. Cardinality(Same)
        <4> HIDE DEF Same, m
        <4> QED
          BY <2>1, Ranks
      <3> QED
        BY <2>2, <2>3, <3>1, <3>2
    <2>5. m \in FirstOf(rows, I)
      BY <2>3, <2>4 DEF FirstOf
    <2> QED
      BY <2>3, <2>5
  <1>3. ASSUME NEW i \in FirstOf(rows, I), NEW j \in FirstOf(rows, I),
               hostKey(rows[j].sub) = hostKey(rows[i].sub)
        PROVE  i = j
    <2>1. ~ (i < j) /\ ~ (j < i)
      BY <1>3 DEF FirstOf
    <2>2. i \in Int /\ j \in Int
      <3>1. i \in I /\ j \in I
        BY <1>1
      <3> QED
        BY <1>0, <3>1
    <2> QED
      BY <2>1, <2>2
  <1> QED
    BY <1>1, <1>2, <1>3

\* An enumeration of a finite set names each element at one position.
LEMMA Enumerations ==
  ASSUME NEW S, IsFiniteSet(S), NEW seq \in SetToSeqs(S)
  PROVE  /\ seq \in Seq(S)
         /\ Len(seq) = Cardinality(S)
         /\ Cardinality(S) \in Nat
         /\ DOMAIN seq = 1 .. Cardinality(S)
         /\ \A p, q \in 1 .. Cardinality(S) : seq[p] = seq[q] => p = q
         /\ \A x \in S : \E p \in 1 .. Cardinality(S) : seq[p] = x
  <1>1. Cardinality(S) \in Nat
    BY FS_CardinalityType
  <1>2. /\ seq \in [1 .. Cardinality(S) -> S]
        /\ \A p, q \in 1 .. Cardinality(S) : seq[p] = seq[q] => p = q
    BY DEF SetToSeqs
  <1>3. seq \in Seq(S) /\ Len(seq) = Cardinality(S)
    BY <1>1, <1>2
  <1>4. /\ IsFiniteSet(1 .. Cardinality(S))
        /\ Cardinality(1 .. Cardinality(S)) = Cardinality(S)
    BY <1>1, FS_Interval, 1 \in Int, Cardinality(S) \in Int
  <1>5. seq \in Injection(1 .. Cardinality(S), S)
    BY <1>2, Fun_IsInj
  <1>6. seq \in Surjection(1 .. Cardinality(S), S)
    BY <1>4, <1>5, FS_Injection
  <1>7. \A x \in S : \E p \in 1 .. Cardinality(S) : seq[p] = x
    BY <1>6 DEF Surjection
  <1> QED
    BY <1>1, <1>2, <1>3, <1>7

-----------------------------------------------------------------------------
(* Names.                                                                  *)

\* Which root domain a name counts to depends on its labels alone, and a
\* name without any counts to none.
LEMMA DomainsByLabels ==
  ASSUME NEW name \in Spelling, NEW domain \in Spelling,
         belongsToDomain(name, domain)
  PROVE  /\ name.labels # <<>>
         /\ \A other \in Spelling :
               other.labels = name.labels => belongsToDomain(other, domain)
  <1>1. \A other \in Spelling :
           other.labels = name.labels => belongsToDomain(other, domain)
    BY DEF belongsToDomain
  <1>2. ASSUME name.labels = <<>> PROVE FALSE
    <2> DEFINE root == normHost(domain.labels)
    <2>1. root # <<>> /\ IsSuffix(root, normHost(<<>>))
      BY <1>2 DEF belongsToDomain
    <2>2. normHost(<<>>) = <<>>
      BY DEF normHost
    <2>3. root \in Seq(STRING)
      <3>1. domain.labels \in Seq(STRING)
        BY DEF Spelling
      <3>2. ASSUME Len(domain.labels) > 1 PROVE Tail(domain.labels) \in Seq(STRING)
        <4>1. domain.labels # <<>>
          BY <3>1, <3>2, EmptySeq
        <4> QED
          BY <3>1, <4>1, HeadTailProperties
      <3> QED
        BY <3>1, <3>2 DEF normHost
    <2>4. Len(root) \in Nat /\ Len(root) > 0
      BY <2>1, <2>3, EmptySeq, LenProperties
    <2>5. Len(Reverse(root)) = Len(root)
      BY <2>4 DEF Reverse
    <2>6. Len(Reverse(<<>>)) = 0
      BY DEF Reverse
    <2> QED
      BY <2>1, <2>2, <2>4, <2>5, <2>6 DEF IsSuffix, IsPrefix
  <1> QED
    BY <1>1, <1>2

\* What a scan can report is a sequence of findings.
LEMMA FindingsAreSequences == Findings \subseteq Seq(Finding)
  <1> SUFFICES ASSUME NEW fresh \in Findings PROVE fresh \in Seq(Finding)
    OBVIOUS
  <1>1. PICK m \in 0 .. MaxFresh : fresh \in [1 .. m -> Finding]
    BY DEF Findings, SeqOf
  <1> QED
    BY <1>1, BoundsAssumption

\* The parts of a row and of a finding.
LEMMA RowTypes ==
  ASSUME NEW rows, NEW i \in DOMAIN rows,
         rows \in Seq(Row) \/ rows \in Seq(Finding)
  PROVE  /\ rows[i].sub \in Spelling
         /\ rows[i].sub.labels \in Seq(STRING)
         /\ hostKey(rows[i].sub) = rows[i].sub.labels
         /\ rows[i].ip \in Ips
  <1>1. rows[i] \in Row \/ rows[i] \in Finding
    BY LenProperties, ElementOfSeq
  <1>2. rows[i].sub \in Spelling /\ rows[i].ip \in Ips
    BY <1>1, NamesAssumption DEF Row, Finding
  <1> QED
    BY <1>2 DEF Spelling, hostKey

-----------------------------------------------------------------------------
(* Where the rows of a merged array come from.                             *)

\* Merge's prev and its seen, as the indices they are filled from.
Prev(existing, domain) == FirstOf(existing, Inside(existing, domain))
News(fresh) == FirstOf(fresh, Named(fresh))

\* Rows of prev that are taken out again, and all the others.
FoundAgain(existing, fresh, domain) ==
    {i \in Prev(existing, domain) :
        \E k \in Named(fresh) : hostKey(fresh[k].sub) = hostKey(existing[i].sub)}
Stays(existing, fresh, domain) ==
    DOMAIN existing \ FoundAgain(existing, fresh, domain)

\* Every row of the merged array is a row that stays, unchanged, or the entry
\* of a finding, and each of these is in one place: old and new say where.
\* The rows Merge keeps come first, in their order.
Layout(existing, fresh, domain, rows, old, new) ==
    /\ old \in [Stays(existing, fresh, domain) -> DOMAIN rows]
    /\ new \in [News(fresh) -> DOMAIN rows]
    /\ \A i, j \in Stays(existing, fresh, domain) : old[i] = old[j] => i = j
    /\ \A k, l \in News(fresh) : new[k] = new[l] => k = l
    /\ \A i \in Stays(existing, fresh, domain), k \in News(fresh) : old[i] # new[k]
    /\ \A p \in DOMAIN rows :
          \/ \E i \in Stays(existing, fresh, domain) : p = old[i]
          \/ \E k \in News(fresh) : p = new[k]
    /\ \A i \in Stays(existing, fresh, domain) : rows[old[i]] = existing[i]
    /\ \A k \in News(fresh) : rows[new[k]] = Entry(existing, fresh[k], domain)
    /\ LET kept == DOMAIN existing \ Prev(existing, domain)
       IN  /\ \A i \in kept : old[i] = Rank(kept, i)
           /\ \A p \in DOMAIN rows :
                 p <= Cardinality(kept) => \E i \in kept : p = old[i]

\* The index sets are what their names say.
LEMMA IndexTypes ==
  ASSUME NEW existing \in Seq(Row), NEW fresh \in Seq(Finding), NEW domain
  PROVE  /\ Len(existing) \in Nat /\ DOMAIN existing = 1 .. Len(existing)
         /\ Len(fresh) \in Nat /\ DOMAIN fresh = 1 .. Len(fresh)
         /\ Named(existing) \in SUBSET DOMAIN existing
         /\ Inside(existing, domain) \in SUBSET Named(existing)
         /\ Prev(existing, domain) \in SUBSET Inside(existing, domain)
         /\ Named(fresh) \in SUBSET DOMAIN fresh
         /\ News(fresh) \in SUBSET Named(fresh)
  <1>1. /\ Len(existing) \in Nat /\ DOMAIN existing = 1 .. Len(existing)
        /\ Len(fresh) \in Nat /\ DOMAIN fresh = 1 .. Len(fresh)
    BY LenProperties
  <1> QED
    BY <1>1 DEF Named, Inside, Prev, News, FirstOf

\* The entry of a finding is a row, with the key of the finding's name and
\* the mark of the row that was found again.
LEMMA EntryProperties ==
  ASSUME NEW existing \in Seq(Row), NEW finding \in Finding, NEW domain
  PROVE  /\ Entry(existing, finding, domain) \in Row
         /\ Entry(existing, finding, domain).sub.labels = finding.sub.labels
         /\ Entry(existing, finding, domain).sub.form = "plain"
         /\ Entry(existing, finding, domain).ip = finding.ip
         /\ \A i \in Prev(existing, domain) :
               existing[i].sub.labels = finding.sub.labels =>
                   Entry(existing, finding, domain).mark = existing[i].mark
         /\ (\A i \in Prev(existing, domain) :
                existing[i].sub.labels # finding.sub.labels) =>
                   Entry(existing, finding, domain).mark = NoMark
  <1> DEFINE key == hostKey(finding.sub)
             same == {i \in Prev(existing, domain) : hostKey(existing[i].sub) = key}
  <1>1. /\ finding.sub \in Spelling
        /\ finding.ip \in Ips
        /\ key = finding.sub.labels
        /\ key \in Seq(STRING)
    BY NamesAssumption DEF Finding, Spelling, hostKey
  <1>2. Prev(existing, domain) \subseteq DOMAIN existing
    <2>1. PICK n \in Nat : DOMAIN existing = 1 .. n
      BY LenProperties
    <2> QED
      BY DEF Prev, FirstOf, Inside, Named
  <1>3. \A i \in Prev(existing, domain) :
           /\ hostKey(existing[i].sub) = existing[i].sub.labels
           /\ existing[i].mark \in Marks \cup {NoMark}
    <2> SUFFICES ASSUME NEW i \in Prev(existing, domain)
                 PROVE  /\ hostKey(existing[i].sub) = existing[i].sub.labels
                        /\ existing[i].mark \in Marks \cup {NoMark}
      OBVIOUS
    <2>1. i \in DOMAIN existing
      BY <1>2
    <2>2. existing[i] \in Row
      BY <2>1, LenProperties, ElementOfSeq
    <2> QED
      BY <2>1, <2>2, RowTypes DEF Row
  <1>4. \A i, j \in same : i = j
    <2>1. PICK n \in Nat : DOMAIN existing = 1 .. n
      BY LenProperties
    <2>2. Inside(existing, domain) \in SUBSET (1 .. n)
      BY <2>1 DEF Inside, Named
    <2> QED
      BY <2>2, FirstOfProperties DEF Prev
  <1>5. MarkFor(existing, domain, key) =
            IF same = {} THEN NoMark ELSE existing[CHOOSE i \in same : TRUE].mark
    BY DEF MarkFor, Prev
  <1>6. \A i \in same : MarkFor(existing, domain, key) = existing[i].mark
    <2> SUFFICES ASSUME NEW i \in same
                 PROVE  MarkFor(existing, domain, key) = existing[i].mark
      OBVIOUS
    <2>1. (CHOOSE j \in same : TRUE) = i
      BY <1>4
    <2> HIDE DEF same
    <2> QED
      BY <1>5, <2>1
  <1>7. MarkFor(existing, domain, key) \in Marks \cup {NoMark}
    BY <1>3, <1>5, <1>6
  <1>8. Entry(existing, finding, domain) =
            [sub |-> [labels |-> key, form |-> "plain"], ip |-> finding.ip,
             mark |-> MarkFor(existing, domain, key)]
    BY DEF Entry
  <1>9. Entry(existing, finding, domain) \in Row
    <2> HIDE DEF key
    <2> QED
      BY <1>1, <1>7, <1>8 DEF Row, Spelling, Forms
  <1>10. /\ Entry(existing, finding, domain).sub.labels = finding.sub.labels
         /\ Entry(existing, finding, domain).sub.form = "plain"
         /\ Entry(existing, finding, domain).ip = finding.ip
         /\ Entry(existing, finding, domain).mark = MarkFor(existing, domain, key)
    <2> HIDE DEF key
    <2> QED
      BY <1>1, <1>8
  <1>11. ASSUME NEW i \in Prev(existing, domain),
                existing[i].sub.labels = finding.sub.labels
         PROVE  Entry(existing, finding, domain).mark = existing[i].mark
    <2>1. i \in same
      BY <1>1, <1>3, <1>11
    <2> QED
      BY <1>6, <1>10, <2>1
  <1>12. ASSUME \A i \in Prev(existing, domain) :
                    existing[i].sub.labels # finding.sub.labels
         PROVE  Entry(existing, finding, domain).mark = NoMark
    <2>1. same = {}
      BY <1>1, <1>3, <1>12
    <2> QED
      BY <1>5, <1>10, <2>1
  <1> QED
    BY <1>9, <1>10, <1>11, <1>12

\* A sequence of one element.
LEMMA OneElement ==
  ASSUME NEW S, NEW x \in S
  PROVE  /\ <<x>> \in Seq(S)
         /\ Len(<<x>>) = 1
         /\ DOMAIN <<x>> = {1}
         /\ <<x>>[1] = x
  <1>1. /\ <<x>> \in Seq(S)
        /\ Len(<<x>>) = 1
        /\ <<x>>[1] = x
    OBVIOUS
  <1>2. DOMAIN <<x>> = 1 .. 1
    BY <1>1, LenProperties
  <1>3. 1 .. 1 = {1}
    OBVIOUS
  <1> QED
    BY <1>1, <1>2, <1>3

\* The elements of three sequences, one after the other.
LEMMA ThreeParts ==
  ASSUME NEW S, NEW a \in Seq(S), NEW b \in Seq(S), NEW c \in Seq(S),
         NEW na, na = Len(a), NEW nb, nb = Len(b), NEW nc, nc = Len(c)
  PROVE  /\ (a \o b) \o c \in Seq(S)
         /\ DOMAIN ((a \o b) \o c) = 1 .. na + nb + nc
         /\ \A p \in 1 .. na : ((a \o b) \o c)[p] = a[p]
         /\ \A p \in 1 .. nb : ((a \o b) \o c)[na + p] = b[p]
         /\ \A p \in 1 .. nc : ((a \o b) \o c)[na + nb + p] = c[p]
  <1> na \in Nat /\ nb \in Nat /\ nc \in Nat
    BY LenProperties
  <1>1. /\ a \o b \in Seq(S)
        /\ Len(a \o b) = na + nb
        /\ \A p \in 1 .. na + nb : (a \o b)[p] = IF p <= na THEN a[p] ELSE b[p - na]
    BY ConcatProperties
  <1> DEFINE ab == a \o b
             all == ab \o c
  <1> HIDE DEF ab, all
  <1>2. /\ all \in Seq(S)
        /\ Len(all) = na + nb + nc
        /\ \A p \in 1 .. na + nb + nc :
              all[p] = IF p <= na + nb THEN ab[p] ELSE c[p - (na + nb)]
    BY <1>1, ConcatProperties DEF ab, all
  <1>3. DOMAIN all = 1 .. na + nb + nc
    BY <1>2, LenProperties
  <1>4. \A p \in 1 .. na : all[p] = a[p]
    BY <1>1, <1>2 DEF ab
  <1>5. \A p \in 1 .. nb : all[na + p] = b[p]
    BY <1>1, <1>2 DEF ab
  <1>6. \A p \in 1 .. nc : all[na + nb + p] = c[p]
    <2> SUFFICES ASSUME NEW p \in 1 .. nc PROVE all[na + nb + p] = c[p]
      OBVIOUS
    <2> DEFINE q == na + nb + p
    <2>1. /\ q \in 1 .. na + nb + nc
          /\ ~ (q <= na + nb)
          /\ q - (na + nb) = p
      OBVIOUS
    <2> HIDE DEF q
    <2>2. all[q] = c[q - (na + nb)]
      BY <1>2, <2>1
    <2> QED
      BY <2>1, <2>2 DEF q
  <1> QED
    BY <1>2, <1>3, <1>4, <1>5, <1>6 DEF ab, all

\* Every array Merge can return is laid out in that way.
LEMMA MergeLayout ==
  ASSUME NEW existing \in Seq(Row), NEW fresh \in Seq(Finding), NEW domain,
         NEW rows \in Merge(existing, fresh, domain)
  PROVE  /\ rows \in Seq(Row)
         /\ \E old, new : Layout(existing, fresh, domain, rows, old, new)
  <1> DEFINE prev == Prev(existing, domain)
             kept == DOMAIN existing \ prev
             news == News(fresh)
             stays == Stays(existing, fresh, domain)
             left == stays \ kept
             Lost == Retained(existing, fresh, domain)
             first == Kept(existing, domain)
             told == Told(existing, fresh, domain)
             nk == Cardinality(kept)
             nf == Cardinality(news)
             nr == Cardinality(Lost)
  <1>1. PICK rest \in SetToSeqs(Lost) : rows = (first \o told) \o rest
    BY DEF Merge
  <1>2. /\ Len(existing) \in Nat /\ DOMAIN existing = 1 .. Len(existing)
        /\ Len(fresh) \in Nat /\ DOMAIN fresh = 1 .. Len(fresh)
        /\ prev \in SUBSET DOMAIN existing
        /\ news \in SUBSET DOMAIN fresh
        /\ news \in SUBSET Named(fresh)
    BY IndexTypes
  <1>3. /\ first \in Seq(Row) /\ Len(first) = nk /\ nk \in Nat
        /\ \A i \in kept : Rank(kept, i) \in 1 .. nk /\ first[Rank(kept, i)] = existing[i]
        /\ \A p \in 1 .. nk : \E i \in kept : p = Rank(kept, i)
        /\ \A i, j \in kept : Rank(kept, i) = Rank(kept, j) => i = j
    <2>1. first = At(existing, kept)
      BY DEF Kept, Prev
    <2>2. kept \in SUBSET DOMAIN existing /\ kept \in SUBSET (1 .. Len(existing))
      BY <1>2
    <2> HIDE DEF kept, first
    <2>3. /\ first \in Seq(Row) /\ Len(first) = nk /\ nk \in Nat
          /\ \A i \in kept : Rank(kept, i) \in 1 .. nk /\ first[Rank(kept, i)] = existing[i]
      BY <2>1, <2>2, AtProperties
    <2>4. \A p \in 1 .. nk : Nth(kept, p) \in kept /\ Rank(kept, Nth(kept, p)) = p
      BY <1>2, <2>2, NthUndoesRank
    <2>5. \A i, j \in kept : Rank(kept, i) = Rank(kept, j) => i = j
      BY <1>2, <2>2, Ranks
    <2> QED
      BY <2>3, <2>4, <2>5
  <1>4. /\ told \in Seq(Row) /\ Len(told) = nf /\ nf \in Nat
        /\ \A k \in news : /\ Rank(news, k) \in 1 .. nf
                           /\ told[Rank(news, k)] = Entry(existing, fresh[k], domain)
        /\ \A p \in 1 .. nf : \E k \in news : p = Rank(news, k)
        /\ \A k, l \in news : Rank(news, k) = Rank(news, l) => k = l
    <2> DEFINE found == At(fresh, news)
    <2> HIDE DEF news, found
    <2>1. told = [k \in DOMAIN found |-> Entry(existing, found[k], domain)]
      BY DEF Told, News, news, found
    <2>2. news \in SUBSET DOMAIN fresh /\ news \in SUBSET (1 .. Len(fresh))
      BY <1>2
    <2>3. /\ found \in Seq(Finding) /\ DOMAIN found = 1 .. nf /\ nf \in Nat
          /\ \A k \in news : Rank(news, k) \in 1 .. nf /\ found[Rank(news, k)] = fresh[k]
      BY <2>2, AtProperties DEF found
    <2>4. \A p \in 1 .. nf : found[p] \in Finding
      BY <2>3, LenProperties, ElementOfSeq
    <2>5. \A p \in 1 .. nf : Entry(existing, found[p], domain) \in Row
      BY <2>4, EntryProperties
    <2>6. told \in Seq(Row) /\ Len(told) = nf
      <3>1. told = [p \in 1 .. nf |-> Entry(existing, found[p], domain)]
        BY <2>1, <2>3
      <3> HIDE DEF told, nf
      <3>2. told \in [1 .. nf -> Row]
        BY <2>5, <3>1
      <3> QED
        BY <2>3, <3>2
    <2>7. \A k \in news : told[Rank(news, k)] = Entry(existing, fresh[k], domain)
      BY <2>1, <2>3
    <2>8. \A p \in 1 .. nf : Nth(news, p) \in news /\ Rank(news, Nth(news, p)) = p
      BY <1>2, <2>2, NthUndoesRank
    <2>9. \A k, l \in news : Rank(news, k) = Rank(news, l) => k = l
      BY <1>2, <2>2, Ranks
    <2> QED
      BY <2>3, <2>6, <2>7, <2>8, <2>9
  <1>5. /\ kept \subseteq stays
        /\ left \subseteq prev
        /\ stays = kept \cup left
        /\ Lost = {existing[i] : i \in left}
    <2>1. FoundAgain(existing, fresh, domain) \subseteq prev
      BY DEF FoundAgain
    <2>2. left = {j \in prev : hostKey(existing[j].sub) \notin
                                {hostKey(fresh[k].sub) : k \in Named(fresh)}}
      BY <1>2, <2>1 DEF Stays, FoundAgain
    <2>3. Lost = {existing[i] : i \in left}
      BY <2>2 DEF Retained, Prev
    <2> QED
      BY <1>2, <2>1, <2>3 DEF Stays
  <1>6. \A i, j \in prev : existing[i] = existing[j] => i = j
    <2>1. Inside(existing, domain) \in SUBSET (1 .. Len(existing))
      BY <1>2, IndexTypes
    <2> QED
      BY <1>2, <2>1, FirstOfProperties DEF Prev
  <1>7. IsFiniteSet(Lost)
    <2>1. IsFiniteSet(left)
      <3>1. left \in SUBSET (1 .. Len(existing))
        BY <1>2, <1>5
      <3> QED
        BY <1>2, <3>1, IndexSets
    <2> DEFINE row == [i \in left |-> existing[i]]
    <2> HIDE DEF left
    <2>2. row \in [left -> Lost]
      BY <1>5
    <2>3. \A i, j \in left : row[i] = row[j] => i = j
      BY <1>5, <1>6
    <2>4. \A x \in Lost : \E i \in left : row[i] = x
      BY <1>5
    <2> HIDE DEF row, Lost
    <2> QED
      BY <2>1, <2>2, <2>3, <2>4, SameSize
  <1>8. /\ rest \in Seq(Row) /\ Len(rest) = nr /\ nr \in Nat
        /\ \A p, q \in 1 .. nr : rest[p] = rest[q] => p = q
        /\ \A p \in 1 .. nr : \E i \in left : rest[p] = existing[i]
        /\ \A i \in left : \E p \in 1 .. nr : rest[p] = existing[i]
    <2>1. /\ rest \in Seq(Lost) /\ Len(rest) = nr /\ nr \in Nat
          /\ \A p, q \in 1 .. nr : rest[p] = rest[q] => p = q
          /\ \A x \in Lost : \E p \in 1 .. nr : rest[p] = x
      <3> HIDE DEF Lost
      <3> QED
        BY <1>1, <1>7, Enumerations
    <2>2. Lost \subseteq Row
      BY <1>2, <1>5, ElementOfSeq
    <2>3. rest \in Seq(Row)
      <3> HIDE DEF Lost
      <3> QED
        BY <2>1, <2>2, SeqMonotonic
    <2>4. \A p \in 1 .. nr : rest[p] \in Lost
      <3> HIDE DEF Lost
      <3> QED
        BY <2>1, ElementOfSeq
    <2> HIDE DEF left, Lost
    <2> QED
      BY <1>5, <2>1, <2>3, <2>4
  <1> HIDE DEF prev, kept, news, stays, left, Lost, first, told, nk, nf, nr
  <1>9. /\ rows \in Seq(Row)
        /\ DOMAIN rows = 1 .. nk + nf + nr
        /\ \A p \in 1 .. nk : rows[p] = first[p]
        /\ \A p \in 1 .. nf : rows[nk + p] = told[p]
        /\ \A p \in 1 .. nr : rows[nk + nf + p] = rest[p]
    <2>1. first \in Seq(Row) /\ told \in Seq(Row) /\ rest \in Seq(Row)
      BY <1>3, <1>4, <1>8
    <2>2. nk \in Nat /\ nf \in Nat /\ nr \in Nat
      BY <1>3, <1>4, <1>8
    <2>3. nk = Len(first) /\ nf = Len(told) /\ nr = Len(rest)
      BY <1>3, <1>4, <1>8
    <2> DEFINE all == (first \o told) \o rest
    <2>4. /\ all \in Seq(Row)
          /\ DOMAIN all = 1 .. nk + nf + nr
          /\ \A p \in 1 .. nk : all[p] = first[p]
          /\ \A p \in 1 .. nf : all[nk + p] = told[p]
          /\ \A p \in 1 .. nr : all[nk + nf + p] = rest[p]
      BY <2>1, <2>2, <2>3, ThreeParts
    <2>5. rows = all
      BY <1>1
    <2> HIDE DEF all
    <2> QED
      BY <2>4, <2>5
  <1> DEFINE spot(i) == CHOOSE p \in 1 .. nr : rest[p] = existing[i]
             old == [i \in stays |->
                       IF i \in kept THEN Rank(kept, i) ELSE nk + nf + spot(i)]
             new == [k \in news |-> nk + Rank(news, k)]
  <1>10. \A i \in left : spot(i) \in 1 .. nr /\ rest[spot(i)] = existing[i]
    BY <1>8
  <1> HIDE DEF spot
  <1>11. /\ \A i \in kept : old[i] = Rank(kept, i) /\ old[i] \in 1 .. nk
         /\ \A i \in left : old[i] = nk + nf + spot(i) /\ spot(i) \in 1 .. nr
         /\ \A k \in news : new[k] = nk + Rank(news, k) /\ Rank(news, k) \in 1 .. nf
    BY <1>3, <1>4, <1>5, <1>10 DEF left
  <1>12. \A i \in stays : i \in kept \/ i \in left
    BY <1>5
  <1>13. old \in [stays -> DOMAIN rows] /\ new \in [news -> DOMAIN rows]
    <2>0. nk \in Nat /\ nf \in Nat /\ nr \in Nat
      BY <1>3, <1>4, <1>8
    <2>1. /\ \A p \in 1 .. nk : p \in DOMAIN rows
          /\ \A p \in 1 .. nf : nk + p \in DOMAIN rows
          /\ \A p \in 1 .. nr : nk + nf + p \in DOMAIN rows
      BY <1>9, <2>0
    <2>2. \A i \in stays : old[i] \in DOMAIN rows
      <3> HIDE DEF old
      <3> QED
        BY <1>11, <1>12, <2>1
    <2>3. \A k \in news : new[k] \in DOMAIN rows
      <3> HIDE DEF new
      <3> QED
        BY <1>11, <2>1
    <2> QED
      BY <2>2, <2>3
  <1> HIDE DEF old, new
  <1>14. \A i, j \in stays : old[i] = old[j] => i = j
    <2>1. ASSUME NEW i \in kept, NEW j \in kept, old[i] = old[j] PROVE i = j
      BY <1>3, <1>11, <2>1
    <2>2. ASSUME NEW i \in left, NEW j \in left, old[i] = old[j] PROVE i = j
      <3>1. spot(i) = spot(j)
        BY <1>3, <1>4, <1>11, <2>2
      <3> QED
        BY <1>5, <1>6, <1>10, <3>1
    <2>3. ASSUME NEW i \in kept, NEW j \in left PROVE old[i] # old[j]
      BY <1>3, <1>4, <1>11
    <2> QED
      BY <1>12, <2>1, <2>2, <2>3
  <1>15. \A k, l \in news : new[k] = new[l] => k = l
    <2> SUFFICES ASSUME NEW k \in news, NEW l \in news, new[k] = new[l] PROVE k = l
      OBVIOUS
    <2>1. Rank(news, k) = Rank(news, l)
      BY <1>3, <1>11
    <2> QED
      BY <1>4, <2>1
  <1>16. \A i \in stays, k \in news : old[i] # new[k]
    <2> SUFFICES ASSUME NEW i \in stays, NEW k \in news, old[i] = new[k] PROVE FALSE
      OBVIOUS
    <2>1. /\ nk \in Nat /\ nf \in Nat /\ nr \in Nat
          /\ new[k] > nk /\ new[k] <= nk + nf
      BY <1>3, <1>4, <1>8, <1>11
    <2>2. CASE i \in kept
      BY <1>11, <2>1, <2>2
    <2>3. CASE i \in left
      BY <1>11, <2>1, <2>3
    <2> QED
      BY <1>12, <2>2, <2>3
  <1>17. \A i \in stays : rows[old[i]] = existing[i]
    BY <1>3, <1>9, <1>10, <1>11, <1>12
  <1>18. \A k \in news : rows[new[k]] = Entry(existing, fresh[k], domain)
    BY <1>4, <1>9, <1>11
  <1>19. \A p \in 1 .. nk : \E i \in kept : p = old[i]
    BY <1>3, <1>11
  <1>20. \A p \in DOMAIN rows : \/ \E i \in stays : p = old[i]
                              \/ \E k \in news : p = new[k]
    <2> SUFFICES ASSUME NEW p \in 1 .. nk + nf + nr
                 PROVE  \/ \E i \in stays : p = old[i]
                        \/ \E k \in news : p = new[k]
      BY <1>9
    <2>0. nk \in Nat /\ nf \in Nat /\ nr \in Nat /\ p \in Int
      BY <1>3, <1>4, <1>8
    <2>1. CASE p <= nk
      BY <1>5, <1>19, <2>0, <2>1
    <2>2. CASE nk < p /\ p <= nk + nf
      <3>1. p - nk \in 1 .. nf
        BY <2>0, <2>2
      <3>2. PICK k \in news : p - nk = Rank(news, k)
        BY <1>4, <3>1
      <3> QED
        BY <1>11, <2>0, <3>2
    <2>3. CASE nk + nf < p
      <3>1. p - nk - nf \in 1 .. nr
        BY <2>0, <2>3
      <3>2. PICK i \in left : rest[p - nk - nf] = existing[i]
        BY <1>8, <3>1
      <3>3. spot(i) = p - nk - nf
        BY <1>8, <1>10, <3>1, <3>2
      <3>4. p = old[i]
        BY <1>11, <2>0, <3>3
      <3> QED
        BY <1>5, <3>4
    <2> QED
      BY <2>0, <2>1, <2>2, <2>3
  <1>21. Layout(existing, fresh, domain, rows, old, new)
    <2>1. \A p \in DOMAIN rows : p <= nk => \E i \in kept : p = old[i]
      <3>1. nk \in Nat /\ nf \in Nat /\ nr \in Nat
        BY <1>3, <1>4, <1>8
      <3>2. \A p \in DOMAIN rows : p <= nk => p \in 1 .. nk
        BY <1>9, <3>1
      <3> QED
        BY <1>19, <3>2
    <2> QED
      BY <1>11, <1>13, <1>14, <1>15, <1>16, <1>17, <1>18, <1>20, <2>1
         DEF Layout, stays, news, kept, prev, nk
  <1> QED
    BY <1>9, <1>21

-----------------------------------------------------------------------------
(* What becomes of a row.                                                  *)

\* The rows taken out of prev and the findings they are found by: there is
\* one finding in News for each, and it is of the domain.
LEMMA FoundAgainProperties ==
  ASSUME NEW existing \in Seq(Row), NEW fresh \in Seq(Finding),
         NEW domain \in Spelling
  PROVE  /\ \A k, l \in News(fresh) : fresh[k].sub.labels = fresh[l].sub.labels => k = l
         /\ \A k \in Named(fresh) : \E l \in News(fresh) :
               fresh[l].sub.labels = fresh[k].sub.labels
         /\ \A i, j \in Prev(existing, domain) :
               existing[i].sub.labels = existing[j].sub.labels => i = j
         /\ \A i \in Inside(existing, domain) : \E j \in Prev(existing, domain) :
               existing[j].sub.labels = existing[i].sub.labels
         /\ \A i \in DOMAIN existing :
               i \in FoundAgain(existing, fresh, domain) <=>
                   /\ i \in Prev(existing, domain)
                   /\ \E k \in News(fresh) : fresh[k].sub.labels = existing[i].sub.labels
  <1>1. /\ Len(existing) \in Nat /\ DOMAIN existing = 1 .. Len(existing)
        /\ Len(fresh) \in Nat /\ DOMAIN fresh = 1 .. Len(fresh)
        /\ Named(existing) \in SUBSET DOMAIN existing
        /\ Inside(existing, domain) \in SUBSET Named(existing)
        /\ Prev(existing, domain) \in SUBSET Inside(existing, domain)
        /\ Named(fresh) \in SUBSET DOMAIN fresh
        /\ News(fresh) \in SUBSET Named(fresh)
    BY IndexTypes
  <1>2. /\ \A k \in DOMAIN fresh : hostKey(fresh[k].sub) = fresh[k].sub.labels
        /\ \A i \in DOMAIN existing : hostKey(existing[i].sub) = existing[i].sub.labels
    BY RowTypes
  <1>3. /\ \A k \in Named(fresh) : \E l \in News(fresh) :
              fresh[l].sub.labels = fresh[k].sub.labels
        /\ \A k, l \in News(fresh) : fresh[k].sub.labels = fresh[l].sub.labels => k = l
    <2>1. Named(fresh) \in SUBSET (1 .. Len(fresh))
      BY <1>1
    <2>2. /\ \A k \in Named(fresh) : \E l \in News(fresh) :
                hostKey(fresh[l].sub) = hostKey(fresh[k].sub)
          /\ \A k, l \in News(fresh) : hostKey(fresh[l].sub) = hostKey(fresh[k].sub) => k = l
      BY <1>1, <2>1, FirstOfProperties DEF News
    <2> QED
      BY <1>1, <1>2, <2>2
  <1>4. /\ \A i \in Inside(existing, domain) : \E j \in Prev(existing, domain) :
              existing[j].sub.labels = existing[i].sub.labels
        /\ \A i, j \in Prev(existing, domain) :
              existing[i].sub.labels = existing[j].sub.labels => i = j
    <2>1. Inside(existing, domain) \in SUBSET (1 .. Len(existing))
      BY <1>1
    <2>2. /\ \A i \in Inside(existing, domain) : \E j \in Prev(existing, domain) :
                hostKey(existing[j].sub) = hostKey(existing[i].sub)
          /\ \A i, j \in Prev(existing, domain) :
                hostKey(existing[j].sub) = hostKey(existing[i].sub) => i = j
      BY <1>1, <2>1, FirstOfProperties DEF Prev
    <2> QED
      BY <1>1, <1>2, <2>2
  <1>5. ASSUME NEW i \in DOMAIN existing
        PROVE  i \in FoundAgain(existing, fresh, domain) <=>
                   /\ i \in Prev(existing, domain)
                   /\ \E k \in News(fresh) : fresh[k].sub.labels = existing[i].sub.labels
    BY <1>1, <1>2, <1>3 DEF FoundAgain
  <1> QED
    BY <1>3, <1>4, <1>5

\* Where a row is after the merge: where it stays, or where the finding is
\* that it was found by.
Follow(existing, fresh, domain, old, new) ==
    [i \in DOMAIN existing |->
        IF i \in Stays(existing, fresh, domain) THEN old[i]
        ELSE new[CHOOSE k \in News(fresh) :
                     fresh[k].sub.labels = existing[i].sub.labels]]

\* A row and its place after the merge: two rows never end in one place, the
\* host and the mark are the same, and rows that are not some stored row's
\* place are entries of findings that were not stored.
LEMMA FollowProperties ==
  ASSUME NEW existing \in Seq(Row), NEW fresh \in Seq(Finding),
         NEW domain \in Spelling, NEW rows \in Seq(Row), NEW old, NEW new,
         Layout(existing, fresh, domain, rows, old, new)
  PROVE  LET to == Follow(existing, fresh, domain, old, new)
         IN  /\ to \in [DOMAIN existing -> DOMAIN rows]
             /\ \A i, j \in DOMAIN existing : to[i] = to[j] => i = j
             /\ \A i \in Stays(existing, fresh, domain) : to[i] = old[i]
             /\ \A i \in FoundAgain(existing, fresh, domain), k \in News(fresh) :
                   fresh[k].sub.labels = existing[i].sub.labels => to[i] = new[k]
             /\ \A i \in DOMAIN existing :
                   /\ rows[to[i]].sub.labels = existing[i].sub.labels
                   /\ rows[to[i]].mark = existing[i].mark
                   /\ i \in Named(existing) <=> to[i] \in Named(rows)
             /\ \A p \in DOMAIN rows : (\A i \in DOMAIN existing : to[i] # p) =>
                   rows[p].mark = NoMark
  <1> DEFINE stays == Stays(existing, fresh, domain)
             again == FoundAgain(existing, fresh, domain)
             news == News(fresh)
             by(i) == CHOOSE k \in news : fresh[k].sub.labels = existing[i].sub.labels
             to == Follow(existing, fresh, domain, old, new)
  <1>1. /\ again \subseteq DOMAIN existing
        /\ again \subseteq Inside(existing, domain)
        /\ stays = DOMAIN existing \ again
        /\ news \subseteq DOMAIN fresh
    BY IndexTypes DEF FoundAgain, Stays
  <1>2. \A i \in again : by(i) \in news /\ fresh[by(i)].sub.labels = existing[i].sub.labels
    BY <1>1, FoundAgainProperties
  <1>3. \A i \in again, k \in news :
           fresh[k].sub.labels = existing[i].sub.labels => by(i) = k
    BY <1>2, FoundAgainProperties
  <1>4. to = [i \in DOMAIN existing |-> IF i \in stays THEN old[i] ELSE new[by(i)]]
    BY DEF Follow
  <1> HIDE DEF by, to
  <1>5. /\ \A i \in stays : to[i] = old[i]
        /\ \A i \in again : to[i] = new[by(i)]
        /\ \A i \in DOMAIN existing : i \in stays \/ i \in again
    BY <1>1, <1>4
  <1>6. to \in [DOMAIN existing -> DOMAIN rows]
    BY <1>1, <1>2, <1>4 DEF Layout
  <1>7. \A i, j \in DOMAIN existing : to[i] = to[j] => i = j
    <2> SUFFICES ASSUME NEW i \in DOMAIN existing, NEW j \in DOMAIN existing,
                        to[i] = to[j]
                 PROVE  i = j
      OBVIOUS
    <2>1. CASE i \in stays /\ j \in stays
      BY <1>5, <2>1 DEF Layout
    <2>2. CASE i \in again /\ j \in again
      <3>1. by(i) = by(j)
        BY <1>2, <1>5, <2>2 DEF Layout
      <3>2. existing[i].sub.labels = existing[j].sub.labels
        BY <1>2, <2>2, <3>1
      <3> QED
        BY <2>2, <3>2, FoundAgainProperties
    <2>3. CASE i \in stays /\ j \in again
      BY <1>2, <1>5, <2>3 DEF Layout
    <2>4. CASE i \in again /\ j \in stays
      BY <1>2, <1>5, <2>4 DEF Layout
    <2> QED
      BY <1>5, <2>1, <2>2, <2>3, <2>4
  <1>8. ASSUME NEW k \in news
        PROVE  /\ fresh[k] \in Finding
               /\ rows[new[k]] = Entry(existing, fresh[k], domain)
               /\ rows[new[k]].sub.labels = fresh[k].sub.labels
    <2>1. fresh[k] \in Finding
      BY <1>1, LenProperties, ElementOfSeq
    <2>2. rows[new[k]] = Entry(existing, fresh[k], domain)
      BY DEF Layout
    <2> QED
      BY <2>1, <2>2, EntryProperties
  <1>9. ASSUME NEW i \in DOMAIN existing
        PROVE  /\ rows[to[i]].sub.labels = existing[i].sub.labels
               /\ rows[to[i]].mark = existing[i].mark
               /\ i \in Named(existing) <=> to[i] \in Named(rows)
    <2>1. CASE i \in stays
      <3>1. rows[to[i]] = existing[i] /\ to[i] \in DOMAIN rows
        BY <1>5, <1>6, <2>1 DEF Layout
      <3> QED
        BY <3>1 DEF Named
    <2>2. CASE i \in again
      <3>1. /\ to[i] = new[by(i)] /\ by(i) \in news
            /\ fresh[by(i)].sub.labels = existing[i].sub.labels
        BY <1>2, <1>5, <2>2
      <3>2. rows[to[i]].sub.labels = existing[i].sub.labels
        BY <1>8, <3>1
      <3>3. rows[to[i]].mark = existing[i].mark
        <4>1. i \in Prev(existing, domain)
          BY <2>2 DEF FoundAgain
        <4> QED
          BY <1>8, <3>1, <4>1, EntryProperties
      <3>4. i \in Named(existing) /\ belongsToDomain(existing[i].sub, domain)
        BY <1>1, <2>2 DEF Inside
      <3>5. existing[i].sub.labels # <<>>
        BY <3>4, RowTypes, DomainsByLabels
      <3>6. to[i] \in Named(rows)
        BY <1>6, <3>2, <3>5 DEF Named, Nameless
      <3> QED
        BY <3>2, <3>3, <3>4, <3>6
    <2> QED
      BY <1>5, <2>1, <2>2
  <1>10. ASSUME NEW p \in DOMAIN rows, \A i \in DOMAIN existing : to[i] # p
         PROVE  rows[p].mark = NoMark
    <2>0. \A i \in stays : old[i] # p
      BY <1>1, <1>5, <1>10
    <2>1. PICK k \in news : p = new[k]
      BY <2>0 DEF Layout
    <2>2. ASSUME NEW i \in Prev(existing, domain),
                 existing[i].sub.labels = fresh[k].sub.labels
          PROVE  FALSE
      <3>1. i \in DOMAIN existing
        BY IndexTypes
      <3>2. i \in again
        BY <2>2, <3>1, FoundAgainProperties
      <3>3. to[i] = p
        BY <1>3, <1>5, <2>1, <2>2, <3>2
      <3> QED
        BY <1>10, <3>1, <3>3
    <2> QED
      BY <1>8, <2>1, <2>2, EntryProperties
  <1>11. \A i \in again, k \in news :
            fresh[k].sub.labels = existing[i].sub.labels => to[i] = new[k]
    BY <1>3, <1>5
  <1> QED
    BY <1>5, <1>6, <1>7, <1>9, <1>10, <1>11 DEF to

-----------------------------------------------------------------------------
(* What nmap is run on, and what is kept of it.                            *)

\* The rows BuildTargets takes a target from.
Scanned(domain, rows) ==
    FirstOf(rows, {i \in Inside(rows, domain) :
        /\ IsValidHostname(rows[i].sub)
        /\ hostKey(rows[i].sub) # hostKey(domain)})

\* The targets are the domain and then the names of those rows.
LEMMA TargetsLayout ==
  ASSUME NEW rows \in Seq(Row), NEW domain \in Spelling, IsValidHostname(domain)
  PROVE  LET targets == BuildTargets(domain, rows)
             scanned == Scanned(domain, rows)
         IN  /\ scanned \in SUBSET Inside(rows, domain)
             /\ scanned \in SUBSET (1 .. Len(rows))
             /\ targets \in Seq(Spelling)
             /\ Cardinality(scanned) \in Nat
             /\ Len(targets) = Cardinality(scanned) + 1
             /\ DOMAIN targets = 1 .. Cardinality(scanned) + 1
             /\ targets[1] = domain
             /\ \A k \in DOMAIN targets : k # 1 =>
                   /\ k - 1 \in 1 .. Cardinality(scanned)
                   /\ Nth(scanned, k - 1) \in scanned
                   /\ targets[k] = rows[Nth(scanned, k - 1)].sub
  <1> DEFINE scanned == Scanned(domain, rows)
             n == Cardinality(scanned)
             others == At(rows, scanned)
             names == [k \in DOMAIN others |-> others[k].sub]
             targets == BuildTargets(domain, rows)
  <1>1. Len(rows) \in Nat /\ DOMAIN rows = 1 .. Len(rows)
    BY LenProperties
  <1>2. /\ scanned \in SUBSET Inside(rows, domain)
        /\ scanned \in SUBSET (1 .. Len(rows))
        /\ scanned \in SUBSET DOMAIN rows
    BY <1>1 DEF Scanned, FirstOf, Inside, Named
  <1>3. targets = <<domain>> \o names
    BY DEF BuildTargets, Scanned
  <1> HIDE DEF scanned, others, targets
  <1>4. /\ others \in Seq(Row)
        /\ DOMAIN others = 1 .. n
        /\ n \in Nat
        /\ \A k \in 1 .. n : Nth(scanned, k) \in scanned /\ others[k] = rows[Nth(scanned, k)]
    BY <1>2, AtProperties DEF others
  <1>5. \A k \in 1 .. n : others[k].sub \in Spelling
    BY <1>4, RowTypes
  <1>6. /\ names \in Seq(Spelling)
        /\ Len(names) = n
        /\ \A k \in 1 .. n : names[k] = rows[Nth(scanned, k)].sub
    <2>1. names = [k \in 1 .. n |-> others[k].sub]
      BY <1>4
    <2> HIDE DEF names, n
    <2>2. names \in [1 .. n -> Spelling]
      BY <1>5, <2>1
    <2> QED
      BY <1>4, <2>1, <2>2
  <1> HIDE DEF names, n
  <1>7. /\ <<domain>> \in Seq(Spelling)
        /\ Len(<<domain>>) = 1
        /\ <<domain>>[1] = domain
    OBVIOUS
  <1> DEFINE one == <<domain>>
  <1> HIDE DEF one
  <1>8. /\ targets \in Seq(Spelling)
        /\ Len(targets) = 1 + n
        /\ \A k \in 1 .. 1 + n : targets[k] = IF k <= 1 THEN one[k] ELSE names[k - 1]
    <2>1. one \in Seq(Spelling) /\ Len(one) = 1 /\ targets = one \o names
      BY <1>3, <1>7 DEF one
    <2>2. names \in Seq(Spelling) /\ Len(names) = n
      BY <1>6
    <2>3. /\ one \o names \in Seq(Spelling)
          /\ Len(one \o names) = Len(one) + Len(names)
          /\ \A k \in 1 .. Len(one) + Len(names) : (one \o names)[k] =
                IF k <= Len(one) THEN one[k] ELSE names[k - Len(one)]
      BY <2>1, <2>2, ConcatProperties
    <2> QED
      BY <2>1, <2>2, <2>3
  <1>9. Len(targets) = n + 1 /\ DOMAIN targets = 1 .. n + 1
    BY <1>4, <1>8, LenProperties
  <1>10. targets[1] = domain
    BY <1>4, <1>7, <1>8 DEF one
  <1>11. ASSUME NEW k \in DOMAIN targets, k # 1
         PROVE  /\ k - 1 \in 1 .. n
                /\ Nth(scanned, k - 1) \in scanned
                /\ targets[k] = rows[Nth(scanned, k - 1)].sub
    <2>1. k - 1 \in 1 .. n /\ k \in 1 .. 1 + n /\ ~ (k <= 1)
      BY <1>4, <1>9, <1>11
    <2>2. targets[k] = names[k - 1]
      BY <1>8, <2>1
    <2> QED
      BY <1>4, <1>6, <2>1, <2>2
  <1> QED
    BY <1>2, <1>4, <1>8, <1>9, <1>10, <1>11 DEF scanned, n, targets

\* A port scan's groups are groups that were there or hosts it was run on.
LEMMA GroupsLayout ==
  ASSUME NEW existing \in Seq(Spelling), NEW targets \in Seq(Spelling),
         NEW domain, NEW runs
  PROVE  LET merged == MergeGroups(existing, OpenHosts(targets, runs), domain)
         IN  /\ merged \in Seq(Spelling)
             /\ \A p \in DOMAIN merged : \/ \E i \in DOMAIN existing : merged[p] = existing[i]
                                         \/ \E k \in DOMAIN targets : merged[p] = targets[k]
  <1> DEFINE I == {i \in DOMAIN existing : \/ existing[i] = Nameless
                                           \/ ~ belongsToDomain(existing[i], domain)}
             T == {k \in DOMAIN targets : RunNmap(runs[k]) = "open"}
             kept == At(existing, I)
             open == At(targets, T)
  <1>1. I \in SUBSET DOMAIN existing /\ T \in SUBSET DOMAIN targets
    OBVIOUS
  <1>2. MergeGroups(existing, OpenHosts(targets, runs), domain) = kept \o open
    BY DEF MergeGroups, OpenHosts
  <1> HIDE DEF I, T
  <1>3. /\ kept \in Seq(Spelling) /\ Len(kept) \in Nat
        /\ \A p \in 1 .. Len(kept) : \E i \in DOMAIN existing : kept[p] = existing[i]
    BY <1>1, AtProperties
  <1>4. /\ open \in Seq(Spelling) /\ Len(open) \in Nat
        /\ \A p \in 1 .. Len(open) : \E k \in DOMAIN targets : open[p] = targets[k]
    BY <1>1, AtProperties
  <1> DEFINE merged == kept \o open
  <1> HIDE DEF kept, open
  <1>5. /\ merged \in Seq(Spelling)
        /\ Len(merged) = Len(kept) + Len(open)
        /\ DOMAIN merged = 1 .. Len(merged)
        /\ \A p \in 1 .. Len(kept) + Len(open) : merged[p] =
              IF p <= Len(kept) THEN kept[p] ELSE open[p - Len(kept)]
    BY <1>3, <1>4, ConcatProperties, LenProperties
  <1> HIDE DEF merged
  <1>6. ASSUME NEW p \in DOMAIN merged
        PROVE  \/ \E i \in DOMAIN existing : merged[p] = existing[i]
               \/ \E k \in DOMAIN targets : merged[p] = targets[k]
    <2>1. CASE p <= Len(kept)
      <3>1. p \in 1 .. Len(kept) /\ merged[p] = kept[p]
        BY <1>3, <1>4, <1>5, <2>1
      <3> QED
        BY <1>3, <3>1
    <2>2. CASE ~ (p <= Len(kept))
      <3>1. p - Len(kept) \in 1 .. Len(open) /\ merged[p] = open[p - Len(kept)]
        BY <1>3, <1>4, <1>5, <2>2
      <3> QED
        BY <1>4, <3>1
    <2> QED
      BY <2>1, <2>2
  <1> QED
    BY <1>2, <1>5, <1>6 DEF merged

-----------------------------------------------------------------------------
(* The invariant.                                                          *)

\* A document that nothing has written, or that holds one row and one group
\* without a name.
LEMMA InitAssets ==
  ASSUME Init
  PROVE  AssetsInv
  <1>1. Nameless \in Spelling
    BY DEF Nameless, Spelling, Forms
  <1>2. [sub |-> Nameless, ip |-> "", mark |-> NoMark] \in Row
    BY <1>1 DEF Row, Ips
  <1>3. CASE subs = <<>> /\ groups = <<>>
    BY <1>3, BoundsAssumption DEF AssetsInv, TypeOK, MarksAreUnique, HostsAreKnown, Named
  <1>4. CASE /\ subs = <<[sub |-> Nameless, ip |-> "", mark |-> NoMark]>>
             /\ groups = <<Nameless>>
    <2> DEFINE row == [sub |-> Nameless, ip |-> "", mark |-> NoMark]
    <2>1. row.sub = Nameless
      OBVIOUS
    <2> HIDE DEF row
    <2>2. /\ subs \in Seq(Row) /\ Len(subs) = 1
          /\ DOMAIN subs = {1} /\ subs[1] = row
      BY <1>2, <1>4, OneElement DEF row
    <2>3. groups \in Seq(Spelling) /\ DOMAIN groups = {1} /\ groups[1] = Nameless
      BY <1>1, <1>4, OneElement
    <2>4. TypeOK
      BY <2>2, <2>3, BoundsAssumption DEF TypeOK
    <2> QED
      BY <2>1, <2>2, <2>3, <2>4 DEF AssetsInv, MarksAreUnique, HostsAreKnown, Named
  <1> QED
    BY <1>3, <1>4 DEF Init

\* A subdomain scan.
LEMMA ScanNamesInv ==
  ASSUME AssetsInv, NEW domain \in Valid, NEW fresh \in Findings,
         ScanNames(domain, fresh)
  PROVE  AssetsInv'
  <1>1. /\ subs \in Seq(Row) /\ fresh \in Seq(Finding) /\ domain \in Spelling
        /\ subs' \in Merge(subs, fresh, domain)
        /\ Len(subs') <= MaxRows
        /\ groups' = groups
    BY FindingsAreSequences, NamesAssumption DEF AssetsInv, TypeOK, ScanNames, Valid
  <1>2. subs' \in Seq(Row)
    BY <1>1, MergeLayout
  <1>3. PICK old, new : Layout(subs, fresh, domain, subs', old, new)
    BY <1>1, MergeLayout
  <1> DEFINE to == Follow(subs, fresh, domain, old, new)
  <1>4. /\ \A i \in DOMAIN subs : subs'[to[i]].mark = subs[i].mark
        /\ \A p \in DOMAIN subs' : (\A i \in DOMAIN subs : to[i] # p) => subs'[p].mark = NoMark
    BY <1>1, <1>2, <1>3, FollowProperties
  <1>5. TypeOK'
    BY <1>1, <1>2 DEF AssetsInv, TypeOK
  <1>6. MarksAreUnique'
    <2> SUFFICES ASSUME NEW p \in DOMAIN subs', NEW q \in DOMAIN subs',
                        subs'[p].mark = subs'[q].mark, subs'[p].mark # NoMark
                 PROVE  p = q
      BY DEF MarksAreUnique
    <2> HIDE DEF to
    <2>1. PICK i \in DOMAIN subs : to[i] = p
      BY <1>4
    <2>2. PICK j \in DOMAIN subs : to[j] = q
      BY <1>4
    <2>3. i = j
      BY <1>4, <2>1, <2>2 DEF AssetsInv, MarksAreUnique
    <2> QED
      BY <2>1, <2>2, <2>3
  <1>7. ASSUME NEW p \in Named(subs')
        PROVE  subs'[p].sub.labels \in KnownLabels
    <2>1. p \in DOMAIN subs' /\ subs'[p].sub # Nameless
      BY DEF Named
    <2>2. CASE \E i \in Stays(subs, fresh, domain) : p = old[i]
      <3>1. PICK i \in Stays(subs, fresh, domain) : p = old[i]
        BY <2>2
      <3>2. i \in DOMAIN subs /\ subs'[p] = subs[i]
        BY <1>3, <3>1 DEF Layout, Stays
      <3>3. i \in Named(subs)
        BY <2>1, <3>2 DEF Named
      <3> QED
        BY <3>2, <3>3 DEF AssetsInv, HostsAreKnown
    <2>3. CASE \E k \in News(fresh) : p = new[k]
      <3>1. PICK k \in News(fresh) : p = new[k]
        BY <2>3
      <3>2. k \in DOMAIN fresh /\ subs'[p] = Entry(subs, fresh[k], domain)
        BY <1>1, <1>3, <3>1, IndexTypes DEF Layout
      <3>3. fresh[k] \in Finding
        BY <1>1, <3>2, LenProperties, ElementOfSeq
      <3>4. subs'[p].sub.labels = fresh[k].sub.labels /\ fresh[k].sub \in Reported
        BY <1>1, <3>2, <3>3, EntryProperties DEF Finding
      <3> QED
        BY <3>4 DEF KnownLabels
    <2> QED
      BY <1>3, <2>1, <2>2, <2>3 DEF Layout
  <1>8. HostsAreKnown'
    BY <1>1, <1>7 DEF AssetsInv, HostsAreKnown, KnownLabels
  <1> QED
    BY <1>5, <1>6, <1>8 DEF AssetsInv

\* A port scan.
LEMMA ScanPortsInv ==
  ASSUME AssetsInv, NEW domain \in Valid, NEW runs, ScanPorts(domain, runs)
  PROVE  AssetsInv'
  <1> DEFINE targets == BuildTargets(domain, subs)
             scanned == Scanned(domain, subs)
  <1>1. /\ subs \in Seq(Row) /\ groups \in Seq(Spelling)
        /\ domain \in Spelling /\ domain \in Domains /\ IsValidHostname(domain)
        /\ groups' = MergeGroups(groups, OpenHosts(targets, runs), domain)
        /\ subs' = subs
    BY NamesAssumption DEF AssetsInv, TypeOK, ScanPorts, Valid
  <1>2. /\ targets \in Seq(Spelling)
        /\ scanned \in SUBSET Inside(subs, domain)
        /\ targets[1] = domain
        /\ \A k \in DOMAIN targets : k # 1 =>
              /\ Nth(scanned, k - 1) \in scanned
              /\ targets[k] = subs[Nth(scanned, k - 1)].sub
    BY <1>1, TargetsLayout
  <1>3. ASSUME NEW k \in DOMAIN targets
        PROVE  targets[k].labels \in KnownLabels
    <2>1. CASE k = 1
      BY <1>1, <1>2, <2>1 DEF KnownLabels
    <2>2. CASE k # 1
      <3>1. Nth(scanned, k - 1) \in Named(subs)
        BY <1>2, <2>2 DEF Inside
      <3> QED
        BY <1>2, <2>2, <3>1 DEF AssetsInv, HostsAreKnown
    <2> QED
      BY <2>1, <2>2
  <1> HIDE DEF targets, scanned
  <1>4. /\ groups' \in Seq(Spelling)
        /\ \A p \in DOMAIN groups' : \/ \E i \in DOMAIN groups : groups'[p] = groups[i]
                                    \/ \E k \in DOMAIN targets : groups'[p] = targets[k]
    BY <1>1, <1>2, GroupsLayout
  <1>5. \A p \in DOMAIN groups' :
           groups'[p] # Nameless => groups'[p].labels \in KnownLabels
    BY <1>3, <1>4 DEF AssetsInv, HostsAreKnown
  <1>6. TypeOK'
    BY <1>1, <1>4 DEF AssetsInv, TypeOK
  <1>7. MarksAreUnique'
    BY <1>1 DEF AssetsInv, MarksAreUnique
  <1>8. HostsAreKnown'
    BY <1>1, <1>5 DEF AssetsInv, HostsAreKnown, KnownLabels, Named
  <1> QED
    BY <1>6, <1>7, <1>8 DEF AssetsInv

\* The platform adds a row.
LEMMA PlatformAddsInv ==
  ASSUME AssetsInv, NEW name \in Names, NEW mark \in Marks, PlatformAdds(name, mark)
  PROVE  AssetsInv'
  <1> DEFINE row == [sub |-> name, ip |-> "", mark |-> mark]
             n == Len(subs)
  <1>1. row \in Row /\ row.sub = name /\ row.mark = mark
    BY NamesAssumption DEF Row, Ips
  <1>2. /\ subs \in Seq(Row) /\ n \in Nat /\ DOMAIN subs = 1 .. n
        /\ n < MaxRows
        /\ subs' = Append(subs, row)
        /\ groups' = groups
        /\ \A i \in DOMAIN subs : subs[i].mark # mark
    BY LenProperties DEF AssetsInv, TypeOK, PlatformAdds
  <1> HIDE DEF row, n
  <1>3. /\ subs' \in Seq(Row)
        /\ Len(subs') = n + 1
        /\ \A i \in 1 .. n : subs'[i] = subs[i]
        /\ subs'[n + 1] = row
    BY <1>1, <1>2, AppendProperties DEF n
  <1>4. /\ DOMAIN subs' = 1 .. n + 1
        /\ \A i \in DOMAIN subs' : i \in DOMAIN subs \/ i = n + 1
        /\ \A i \in DOMAIN subs : subs'[i] = subs[i]
    BY <1>2, <1>3, LenProperties
  <1>5. TypeOK'
    BY <1>2, <1>3, BoundsAssumption DEF AssetsInv, TypeOK
  <1>6. MarksAreUnique'
    BY <1>1, <1>2, <1>3, <1>4 DEF AssetsInv, MarksAreUnique
  <1>7. HostsAreKnown'
    <2>1. ASSUME NEW i \in Named(subs') PROVE subs'[i].sub.labels \in KnownLabels
      <3>1. CASE i \in DOMAIN subs
        BY <1>4, <3>1 DEF AssetsInv, HostsAreKnown, Named
      <3>2. CASE i = n + 1
        BY <1>1, <1>3, <3>2 DEF KnownLabels
      <3> QED
        BY <1>4, <3>1, <3>2 DEF Named
    <2> QED
      BY <1>2, <2>1 DEF AssetsInv, HostsAreKnown, KnownLabels
  <1> QED
    BY <1>5, <1>6, <1>7 DEF AssetsInv

\* The platform edits a row.
LEMMA PlatformEditsInv ==
  ASSUME AssetsInv, NEW i \in DOMAIN subs, NEW mark \in Marks, PlatformEdits(i, mark)
  PROVE  AssetsInv'
  <1> DEFINE row == [subs[i] EXCEPT !.mark = mark]
  <1>1. /\ subs \in Seq(Row) /\ Len(subs) \in Nat /\ DOMAIN subs = 1 .. Len(subs)
        /\ subs[i] \in Row /\ i \in 1 .. Len(subs)
        /\ \A j \in DOMAIN subs : subs[j].mark # mark
        /\ groups' = groups
    BY LenProperties, ElementOfSeq DEF AssetsInv, TypeOK, PlatformEdits
  <1>2. row \in Row /\ row.sub = subs[i].sub /\ row.mark = mark
    BY <1>1 DEF Row
  <1>3. subs' = [subs EXCEPT ![i] = row]
    BY DEF PlatformEdits
  <1> HIDE DEF row
  <1>4. /\ subs' \in Seq(Row)
        /\ Len(subs') = Len(subs)
        /\ DOMAIN subs' = DOMAIN subs
        /\ \A j \in DOMAIN subs : subs'[j] = IF j = i THEN row ELSE subs[j]
    BY <1>1, <1>2, <1>3, ExceptSeq
  <1>5. TypeOK'
    BY <1>1, <1>4 DEF AssetsInv, TypeOK
  <1>6. MarksAreUnique'
    BY <1>1, <1>2, <1>4 DEF AssetsInv, MarksAreUnique
  <1>7. HostsAreKnown'
    BY <1>1, <1>2, <1>4 DEF AssetsInv, HostsAreKnown, KnownLabels, Named
  <1> QED
    BY <1>5, <1>6, <1>7 DEF AssetsInv

\* Every step keeps the invariant.
LEMMA NextInv ==
  ASSUME AssetsInv, [Next]_vars
  PROVE  AssetsInv'
  <1>1. CASE ScanStep
    <2>1. PICK domain \in Valid :
             \/ \E fresh \in Findings : ScanNames(domain, fresh)
             \/ \E runs \in [DOMAIN BuildTargets(domain, subs) -> NmapRuns] :
                    ScanPorts(domain, runs)
      BY <1>1 DEF ScanStep
    <2> QED
      BY <2>1, ScanNamesInv, ScanPortsInv
  <1>2. CASE PlatformStep
    BY <1>2, PlatformAddsInv, PlatformEditsInv DEF PlatformStep
  <1>3. CASE UNCHANGED vars
    BY <1>3 DEF vars, AssetsInv, TypeOK, MarksAreUnique, HostsAreKnown, KnownLabels, Named
  <1> QED
    BY <1>1, <1>2, <1>3 DEF Next

\* A stored array holds rows, and no more of them than it may, no mark is on
\* two of them and no host is one nobody stored, reported or asked for:
\* neither merge writes a row twice or under another name (both Merge,
\* BuildTargets).
THEOREM InvariantHolds == Spec => []AssetsInv
  <1>1. Init => AssetsInv
    BY InitAssets
  <1>2. AssetsInv /\ [Next]_vars => AssetsInv'
    BY NextInv
  <1> QED
    BY <1>1, <1>2, PTL DEF Spec

\* Type correctness alone.
THEOREM TypeCorrect == Spec => []TypeOK
  <1>1. AssetsInv => TypeOK
    BY DEF AssetsInv
  <1> QED
    BY <1>1, InvariantHolds, PTL

-----------------------------------------------------------------------------
(* Port scans.                                                             *)

\* What nmap is run on, for one domain.
LEMMA TargetsOfDomain ==
  ASSUME NEW rows \in Seq(Row), NEW domain \in Spelling, IsValidHostname(domain)
  PROVE  LET targets == BuildTargets(domain, rows)
             scanned == {targets[k].labels : k \in DOMAIN targets}
         IN  /\ Head(targets) = domain
             /\ Cardinality(scanned) = Len(targets)
             /\ scanned = {domain.labels} \cup
                    {rows[i].sub.labels : i \in {j \in Inside(rows, domain) :
                        IsValidHostname(rows[j].sub)}}
             /\ \A k, l \in DOMAIN targets :
                   targets[k].labels = targets[l].labels => k = l
  <1> DEFINE targets == BuildTargets(domain, rows)
             names == {targets[k].labels : k \in DOMAIN targets}
             hosts == {j \in Inside(rows, domain) : IsValidHostname(rows[j].sub)}
             J == {i \in Inside(rows, domain) :
                      /\ IsValidHostname(rows[i].sub)
                      /\ hostKey(rows[i].sub) # hostKey(domain)}
             S == Scanned(domain, rows)
             n == Cardinality(S)
  <1>1. Len(rows) \in Nat /\ DOMAIN rows = 1 .. Len(rows)
    BY LenProperties
  <1>2. /\ J \in SUBSET (1 .. Len(rows))
        /\ \A i \in 1 .. Len(rows) : hostKey(rows[i].sub) = rows[i].sub.labels
        /\ hostKey(domain) = domain.labels
    BY <1>1, RowTypes DEF Inside, Named, hostKey
  <1>3. /\ S \in SUBSET J
        /\ \A i \in J : \E j \in S : rows[j].sub.labels = rows[i].sub.labels
        /\ \A i, j \in S : rows[i].sub.labels = rows[j].sub.labels => i = j
    <2>1. /\ S \in SUBSET J
          /\ \A i \in J : \E j \in S : hostKey(rows[j].sub) = hostKey(rows[i].sub)
          /\ \A i, j \in S : hostKey(rows[j].sub) = hostKey(rows[i].sub) => i = j
      BY <1>1, <1>2, FirstOfProperties DEF Scanned
    <2> QED
      BY <1>2, <2>1
  <1>4. /\ targets \in Seq(Spelling)
        /\ n \in Nat
        /\ Len(targets) = n + 1
        /\ DOMAIN targets = 1 .. n + 1
        /\ targets[1] = domain
        /\ \A k \in DOMAIN targets : k # 1 =>
              /\ k - 1 \in 1 .. n
              /\ Nth(S, k - 1) \in S
              /\ targets[k] = rows[Nth(S, k - 1)].sub
    BY TargetsLayout
  <1>5. /\ \A k \in 1 .. n : Rank(S, Nth(S, k)) = k
        /\ \A i \in S : Rank(S, i) \in 1 .. n /\ Nth(S, Rank(S, i)) = i
    <2>1. S \in SUBSET (1 .. Len(rows))
      BY <1>2, <1>3
    <2>2. \A i \in S : Rank(S, i) \in 1 .. n
      BY <1>1, <2>1, Ranks
    <2> QED
      BY <1>1, <2>1, <2>2, NthUndoesRank
  <1>6. hosts \subseteq DOMAIN rows
    BY DEF Inside, Named
  <1> HIDE DEF targets, S, n
  <1>7. Head(targets) = domain
    BY <1>4, HeadTailProperties, EmptySeq
  <1>8. \A k, l \in DOMAIN targets : targets[k].labels = targets[l].labels => k = l
    <2>1. ASSUME NEW k \in DOMAIN targets, k # 1 PROVE targets[k].labels # domain.labels
      <3>1. /\ Nth(S, k - 1) \in J
            /\ targets[k] = rows[Nth(S, k - 1)].sub
        BY <1>3, <1>4, <2>1
      <3> QED
        BY <1>2, <3>1
    <2>2. ASSUME NEW k \in DOMAIN targets, NEW l \in DOMAIN targets, k # 1, l # 1,
                 targets[k].labels = targets[l].labels
          PROVE  k = l
      <3>1. Nth(S, k - 1) = Nth(S, l - 1)
        BY <1>3, <1>4, <2>2
      <3>2. k - 1 = l - 1
        BY <1>4, <1>5, <2>2, <3>1
      <3> QED
        BY <1>4, <3>2
    <2> QED
      BY <1>4, <2>1, <2>2
  <1>9. Cardinality(names) = Len(targets)
    <2> DEFINE f == [k \in DOMAIN targets |-> targets[k].labels]
    <2>1. f \in [DOMAIN targets -> names] /\ \A k \in DOMAIN targets : f[k] = targets[k].labels
      OBVIOUS
    <2>2. \A x \in names : \E k \in DOMAIN targets : f[k] = x
      OBVIOUS
    <2>3. IsFiniteSet(DOMAIN targets) /\ Cardinality(DOMAIN targets) = n + 1
      BY <1>4, FS_Interval, 1 \in Int, n + 1 \in Int
    <2> HIDE DEF f, names
    <2>4. \A k, l \in DOMAIN targets : f[k] = f[l] => k = l
      BY <1>8, <2>1
    <2>5. Cardinality(names) = Cardinality(DOMAIN targets)
      BY <2>1, <2>2, <2>3, <2>4, SameSize
    <2> QED
      BY <1>4, <2>3, <2>5
  <1>10. ASSUME NEW k \in DOMAIN targets
         PROVE  targets[k].labels \in {domain.labels} \cup {rows[i].sub.labels : i \in hosts}
    <2>1. CASE k = 1
      BY <1>4, <2>1
    <2>2. CASE k # 1
      <3>1. Nth(S, k - 1) \in hosts /\ targets[k] = rows[Nth(S, k - 1)].sub
        BY <1>3, <1>4, <2>2
      <3> QED
        BY <3>1
    <2> QED
      BY <2>1, <2>2
  <1>11. 1 \in DOMAIN targets /\ domain.labels \in names
    BY <1>4
  <1>12. ASSUME NEW i \in hosts PROVE rows[i].sub.labels \in names
    <2>1. CASE rows[i].sub.labels = domain.labels
      BY <1>11, <2>1
    <2>2. CASE rows[i].sub.labels # domain.labels
      <3>1. i \in J
        BY <1>1, <1>2, <1>6, <2>2
      <3>2. PICK j \in S : rows[j].sub.labels = rows[i].sub.labels
        BY <1>3, <3>1
      <3> DEFINE k == Rank(S, j) + 1
      <3>3. k \in DOMAIN targets /\ k # 1 /\ k - 1 = Rank(S, j)
        BY <1>4, <1>5, <3>2
      <3>4. targets[k] = rows[j].sub
        <4> HIDE DEF k
        <4> QED
          BY <1>4, <1>5, <3>2, <3>3
      <3> QED
        BY <3>2, <3>3, <3>4
    <2> QED
      BY <2>1, <2>2
  <1>13. names = {domain.labels} \cup {rows[i].sub.labels : i \in hosts}
    BY <1>10, <1>11, <1>12
  <1> QED
    BY <1>7, <1>8, <1>9, <1>13 DEF targets

\* nmap is run on the domain first and then once on every stored host of it
\* that a scanner can be given, and on nothing else (BuildTargets).
THEOREM TargetsAreCovered == Spec => []TargetsCover
  <1>1. TypeOK => TargetsCover
    <2> SUFFICES ASSUME TypeOK, NEW domain \in Domains
                 PROVE  LET targets == BuildTargets(domain, subs)
                            scanned == {targets[k].labels : k \in DOMAIN targets}
                        IN  IF IsValidHostname(domain)
                            THEN /\ Head(targets) = domain
                                 /\ Cardinality(scanned) = Len(targets)
                                 /\ scanned = {domain.labels} \cup
                                        {subs[i].sub.labels : i \in
                                            {j \in Inside(subs, domain) :
                                                IsValidHostname(subs[j].sub)}}
                            ELSE targets = <<>>
      BY DEF TargetsCover
    <2>1. subs \in Seq(Row) /\ domain \in Spelling
      BY NamesAssumption DEF TypeOK
    <2>2. CASE IsValidHostname(domain)
      BY <2>1, <2>2, TargetsOfDomain
    <2>3. CASE ~ IsValidHostname(domain)
      BY <2>3 DEF BuildTargets
    <2> QED
      BY <2>2, <2>3
  <1> QED
    BY <1>1, TypeCorrect, PTL

\* What is left of two labels or more is a name.
LEMMA TailIsNotEmpty ==
  ASSUME NEW S, NEW seq \in Seq(S), Len(seq) > 1
  PROVE  Tail(seq) \in Seq(S) /\ Tail(seq) # <<>>
  <1>1. seq # <<>> /\ Len(seq) \in Nat
    BY LenProperties, EmptySeq
  <1>2. Tail(seq) \in Seq(S) /\ Len(Tail(seq)) = Len(seq) - 1
    BY <1>1, HeadTailProperties
  <1>3. ASSUME Tail(seq) = <<>> PROVE FALSE
    <2>1. Len(seq) - 1 = 0
      BY <1>2, <1>3, EmptySeq
    <2>2. \A n \in Nat : n > 1 => n - 1 # 0
      OBVIOUS
    <2> QED
      BY <1>1, <2>1, <2>2
  <1> QED
    BY <1>2, <1>3

\* Every target counts to the domain, and has a name.
LEMMA TargetsBelong ==
  ASSUME NEW rows \in Seq(Row), NEW domain \in Spelling, IsValidHostname(domain),
         NEW k \in DOMAIN BuildTargets(domain, rows)
  PROVE  belongsToDomain(BuildTargets(domain, rows)[k], domain)
  <1> DEFINE targets == BuildTargets(domain, rows)
             S == Scanned(domain, rows)
  <1>1. /\ S \in SUBSET Inside(rows, domain)
        /\ targets[1] = domain
        /\ k # 1 => /\ Nth(S, k - 1) \in S
                    /\ targets[k] = rows[Nth(S, k - 1)].sub
    BY TargetsLayout
  <1>2. belongsToDomain(domain, domain)
    <2>1. domain.labels \in Seq(STRING) /\ domain.labels # <<>>
      BY DEF Spelling, IsValidHostname
    <2>2. normHost(domain.labels) \in Seq(STRING) /\ normHost(domain.labels) # <<>>
      <3>1. CASE Len(domain.labels) > 1
        BY <2>1, <3>1, TailIsNotEmpty DEF normHost
      <3>2. CASE ~ (Len(domain.labels) > 1)
        BY <2>1, <3>2 DEF normHost
      <3> QED
        BY <3>1, <3>2
    <2>3. IsSuffix(normHost(domain.labels), normHost(domain.labels))
      <3> DEFINE root == normHost(domain.labels)
                 back == Reverse(root)
      <3>1. Len(root) \in Nat
        BY <2>2, LenProperties
      <3>2. back = [i \in 1 .. Len(root) |-> root[(Len(root) - i) + 1]]
        BY DEF Reverse
      <3>3. \A i \in 1 .. Len(root) : root[(Len(root) - i) + 1] \in STRING
        BY <2>2, <3>1, ElementOfSeq
      <3> HIDE DEF root, back
      <3>4. back \in Seq(STRING)
        BY <3>1, <3>2, <3>3
      <3>5. Len(back) <= Len(back)
        BY <3>4, LenProperties
      <3> QED
        BY <3>5 DEF IsSuffix, IsPrefix, back, root
    <2> QED
      BY <2>2, <2>3 DEF belongsToDomain
  <1>3. CASE k = 1
    BY <1>1, <1>2, <1>3
  <1>4. CASE k # 1
    BY <1>1, <1>4 DEF Inside
  <1> QED
    BY <1>3, <1>4

\* A port scan keeps one group per host: what it adds counts to the domain,
\* and what it keeps does not.
LEMMA ScanPortsOnce ==
  ASSUME AssetsInv, OneGroupPerHost, NEW domain \in Valid, NEW runs,
         ScanPorts(domain, runs)
  PROVE  OneGroupPerHost'
  <1> DEFINE targets == BuildTargets(domain, subs)
             I == {i \in DOMAIN groups : \/ groups[i] = Nameless
                                         \/ ~ belongsToDomain(groups[i], domain)}
             T == {k \in DOMAIN targets : RunNmap(runs[k]) = "open"}
             kept == At(groups, I)
             open == At(targets, T)
             m == Len(kept)
  <1>1. /\ subs \in Seq(Row) /\ groups \in Seq(Spelling)
        /\ domain \in Spelling /\ IsValidHostname(domain)
        /\ groups' = kept \o open
    BY NamesAssumption DEF AssetsInv, TypeOK, ScanPorts, Valid, MergeGroups, OpenHosts
  <1>2. /\ targets \in Seq(Spelling)
        /\ \A k, l \in DOMAIN targets : targets[k].labels = targets[l].labels => k = l
        /\ \A k \in DOMAIN targets : belongsToDomain(targets[k], domain)
    BY <1>1, TargetsLayout, TargetsOfDomain, TargetsBelong
  <1>3. I \in SUBSET DOMAIN groups /\ T \in SUBSET DOMAIN targets
    OBVIOUS
  <1> HIDE DEF targets, T
  <1>4. /\ kept \in Seq(Spelling) /\ m \in Nat
        /\ \A p \in 1 .. m : Nth(I, p) \in I /\ kept[p] = groups[Nth(I, p)]
        /\ \A p, q \in 1 .. m : Nth(I, p) = Nth(I, q) => p = q
    <2> HIDE DEF I
    <2>1. Len(groups) \in Nat /\ I \in SUBSET (1 .. Len(groups))
      BY <1>1, <1>3, LenProperties
    <2>2. \A p \in 1 .. Cardinality(I) : Rank(I, Nth(I, p)) = p
      BY <2>1, NthUndoesRank
    <2>3. m = Cardinality(I)
      BY <1>1, <1>3, AtProperties
    <2> QED
      BY <1>1, <1>3, <2>2, <2>3, AtProperties
  <1>5. /\ open \in Seq(Spelling) /\ Len(open) \in Nat
        /\ \A p \in 1 .. Len(open) : Nth(T, p) \in T /\ open[p] = targets[Nth(T, p)]
        /\ \A p, q \in 1 .. Len(open) : Nth(T, p) = Nth(T, q) => p = q
    <2>1. Len(targets) \in Nat /\ T \in SUBSET (1 .. Len(targets))
      BY <1>2, <1>3, LenProperties
    <2>2. \A p \in 1 .. Cardinality(T) : Rank(T, Nth(T, p)) = p
      BY <2>1, NthUndoesRank
    <2>3. Len(open) = Cardinality(T)
      BY <1>2, <1>3, AtProperties
    <2> QED
      BY <1>2, <1>3, <2>2, <2>3, AtProperties
  <1>6. \A p, q \in 1 .. m :
           kept[p] # Nameless /\ kept[p].labels = kept[q].labels => p = q
    BY <1>3, <1>4 DEF OneGroupPerHost
  <1>7. \A p, q \in 1 .. Len(open) : open[p].labels = open[q].labels => p = q
    BY <1>2, <1>3, <1>5
  <1>8. \A p \in 1 .. m, q \in 1 .. Len(open) : kept[p].labels # open[q].labels
    <2> SUFFICES ASSUME NEW p \in 1 .. m, NEW q \in 1 .. Len(open),
                        kept[p].labels = open[q].labels
                 PROVE  FALSE
      OBVIOUS
    <2>1. /\ open[q] \in Spelling /\ belongsToDomain(open[q], domain)
          /\ kept[p] \in Spelling
      BY <1>2, <1>3, <1>4, <1>5, ElementOfSeq
    <2>2. belongsToDomain(kept[p], domain) /\ kept[p].labels # <<>>
      BY <1>1, <2>1, DomainsByLabels
    <2> QED
      BY <1>4, <2>2 DEF Nameless
  <1> HIDE DEF I, kept, open, m
  <1>9. /\ DOMAIN groups' = 1 .. m + Len(open)
        /\ \A p \in DOMAIN groups' : groups'[p] = IF p <= m THEN kept[p] ELSE open[p - m]
    BY <1>1, <1>4, <1>5, ConcatProperties, LenProperties DEF m
  <1>10. ASSUME NEW p \in DOMAIN groups', NEW q \in DOMAIN groups',
                groups'[p] # Nameless, groups'[p].labels = groups'[q].labels
         PROVE  p = q
    <2>1. CASE p <= m /\ q <= m
      <3>1. p \in 1 .. m /\ q \in 1 .. m
        BY <1>4, <1>5, <1>9, <2>1
      <3> QED
        BY <1>6, <1>9, <1>10, <2>1, <3>1
    <2>2. CASE ~ (p <= m) /\ ~ (q <= m)
      <3>1. p - m \in 1 .. Len(open) /\ q - m \in 1 .. Len(open)
        BY <1>4, <1>5, <1>9, <2>2
      <3>2. p - m = q - m
        BY <1>7, <1>9, <1>10, <2>2, <3>1
      <3> QED
        BY <1>4, <1>5, <1>9, <3>2
    <2>3. CASE p <= m /\ ~ (q <= m)
      <3>1. p \in 1 .. m /\ q - m \in 1 .. Len(open)
        BY <1>4, <1>5, <1>9, <2>3
      <3> QED
        BY <1>8, <1>9, <1>10, <2>3, <3>1
    <2>4. CASE ~ (p <= m) /\ q <= m
      <3>1. q \in 1 .. m /\ p - m \in 1 .. Len(open)
        BY <1>4, <1>5, <1>9, <2>4
      <3> QED
        BY <1>8, <1>9, <1>10, <2>4, <3>1
    <2> QED
      BY <2>1, <2>2, <2>3, <2>4
  <1> QED
    BY <1>10 DEF OneGroupPerHost

\* No host ever has two port groups, whatever domains are scanned in whatever
\* order (portscan.Merge, BuildTargets).
THEOREM GroupsAreUnique == Spec => []OneGroupPerHost
  <1>1. Init => OneGroupPerHost
    <2>1. ASSUME Init, NEW i \in DOMAIN groups PROVE groups[i] = Nameless
      <3>1. CASE groups = <<>>
        <4>1. DOMAIN groups = {}
          BY <3>1
        <4> QED
          BY <2>1, <4>1
      <3>2. CASE groups = <<Nameless>>
        <4>1. DOMAIN groups = {1} /\ groups[1] = Nameless
          BY <3>2
        <4> QED
          BY <2>1, <4>1
      <3> QED
        BY <2>1, <3>1, <3>2 DEF Init
    <2> QED
      BY <2>1 DEF OneGroupPerHost
  <1>2. AssetsInv /\ OneGroupPerHost /\ [Next]_vars => OneGroupPerHost'
    <2> SUFFICES ASSUME AssetsInv, OneGroupPerHost, [Next]_vars
                 PROVE  OneGroupPerHost'
      OBVIOUS
    <2>1. CASE ScanStep
      <3>1. PICK domain \in Valid :
               \/ \E fresh \in Findings : ScanNames(domain, fresh)
               \/ \E runs \in [DOMAIN BuildTargets(domain, subs) -> NmapRuns] :
                      ScanPorts(domain, runs)
        BY <2>1 DEF ScanStep
      <3>2. CASE groups' = groups
        BY <3>2 DEF OneGroupPerHost
      <3> QED
        BY <3>1, <3>2, ScanPortsOnce DEF ScanNames
    <2>2. CASE PlatformStep \/ UNCHANGED vars
      BY <2>2 DEF PlatformStep, PlatformAdds, PlatformEdits, vars, OneGroupPerHost
    <2> QED
      BY <2>1, <2>2 DEF Next
  <1> QED
    BY <1>1, <1>2, InvariantHolds, PTL DEF Spec

-----------------------------------------------------------------------------
(* No row is lost.                                                         *)

\* Every row of one array has a row of its own in another, of the same host,
\* and what the platform put on it is there and nowhere else.
Carries(before, after, to) ==
    /\ to \in [DOMAIN before -> DOMAIN after]
    /\ \A i, j \in DOMAIN before : to[i] = to[j] => i = j
    /\ \A i \in DOMAIN before :
          /\ after[to[i]].sub.labels = before[i].sub.labels
          /\ i \in Named(before) <=> to[i] \in Named(after)
          /\ before[i].mark # NoMark =>
                \A p \in DOMAIN after : after[p].mark = before[i].mark <=> p = to[i]

\* What the counts of NoRowIsLost are, and how they grow.
LEMMA CarriedRows ==
  ASSUME NEW before \in Seq(Row), NEW after \in Seq(Row), NEW to,
         Carries(before, after, to)
  PROVE  /\ Cardinality(DOMAIN before \ Named(before))
                <= Cardinality(DOMAIN after \ Named(after))
         /\ \A key : Cardinality(Spelled(before, key)) <= Cardinality(Spelled(after, key))
         /\ \A i \in DOMAIN before : before[i].mark # NoMark =>
                \E j \in DOMAIN after :
                    /\ after[j].sub.labels = before[i].sub.labels
                    /\ {k \in DOMAIN after : after[k].mark = before[i].mark} = {j}
  <1>1. Len(after) \in Nat /\ DOMAIN after = 1 .. Len(after)
    BY LenProperties
  <1>2. ASSUME NEW S \in SUBSET DOMAIN before, NEW T \in SUBSET DOMAIN after,
               \A i \in S : to[i] \in T
        PROVE  Cardinality(S) <= Cardinality(T)
    <2> DEFINE f == [i \in S |-> to[i]]
    <2>1. f \in [S -> T] /\ \A i, j \in S : f[i] = f[j] => i = j
      BY <1>2 DEF Carries
    <2>2. IsFiniteSet(T)
      BY <1>1, IndexSets
    <2> HIDE DEF f
    <2> QED
      BY <2>1, <2>2, NoMoreThan
  <1>3. Cardinality(DOMAIN before \ Named(before)) <= Cardinality(DOMAIN after \ Named(after))
    <2> DEFINE S == DOMAIN before \ Named(before)
               T == DOMAIN after \ Named(after)
    <2>1. S \in SUBSET DOMAIN before /\ T \in SUBSET DOMAIN after /\ \A i \in S : to[i] \in T
      BY DEF Carries
    <2> HIDE DEF S, T
    <2>2. Cardinality(S) <= Cardinality(T)
      BY <1>2, <2>1
    <2> QED
      BY <2>2 DEF S, T
  <1>4. ASSUME NEW key
        PROVE  Cardinality(Spelled(before, key)) <= Cardinality(Spelled(after, key))
    <2> DEFINE S == Spelled(before, key)
               T == Spelled(after, key)
    <2>1. S \in SUBSET DOMAIN before /\ T \in SUBSET DOMAIN after /\ \A i \in S : to[i] \in T
      BY DEF Carries, Spelled, Named
    <2> HIDE DEF S, T
    <2>2. Cardinality(S) <= Cardinality(T)
      BY <1>2, <2>1
    <2> QED
      BY <2>2 DEF S, T
  <1>5. ASSUME NEW i \in DOMAIN before, before[i].mark # NoMark
        PROVE  \E j \in DOMAIN after :
                   /\ after[j].sub.labels = before[i].sub.labels
                   /\ {k \in DOMAIN after : after[k].mark = before[i].mark} = {j}
    <2>1. /\ to[i] \in DOMAIN after
          /\ after[to[i]].sub.labels = before[i].sub.labels
          /\ \A k \in DOMAIN after : after[k].mark = before[i].mark <=> k = to[i]
      BY <1>5 DEF Carries
    <2>2. {k \in DOMAIN after : after[k].mark = before[i].mark} = {to[i]}
      BY <2>1
    <2> QED
      BY <2>1, <2>2
  <1> QED
    BY <1>3, <1>4, <1>5

\* Each kind of step has such a map of the rows.
LEMMA ScanNamesCarries ==
  ASSUME AssetsInv, NEW domain \in Valid, NEW fresh \in Findings,
         ScanNames(domain, fresh)
  PROVE  \E to : Carries(subs, subs', to)
  <1>1. /\ subs \in Seq(Row) /\ fresh \in Seq(Finding) /\ domain \in Spelling
        /\ subs' \in Merge(subs, fresh, domain)
    BY FindingsAreSequences, NamesAssumption DEF AssetsInv, TypeOK, ScanNames, Valid
  <1>2. subs' \in Seq(Row)
    BY <1>1, MergeLayout
  <1>3. PICK old, new : Layout(subs, fresh, domain, subs', old, new)
    BY <1>1, MergeLayout
  <1> DEFINE to == Follow(subs, fresh, domain, old, new)
  <1>4. /\ to \in [DOMAIN subs -> DOMAIN subs']
        /\ \A i, j \in DOMAIN subs : to[i] = to[j] => i = j
        /\ \A i \in DOMAIN subs :
              /\ subs'[to[i]].sub.labels = subs[i].sub.labels
              /\ subs'[to[i]].mark = subs[i].mark
              /\ i \in Named(subs) <=> to[i] \in Named(subs')
        /\ \A p \in DOMAIN subs' : (\A i \in DOMAIN subs : to[i] # p) => subs'[p].mark = NoMark
    BY <1>1, <1>2, <1>3, FollowProperties
  <1> HIDE DEF to
  <1>5. ASSUME NEW i \in DOMAIN subs, subs[i].mark # NoMark, NEW p \in DOMAIN subs'
        PROVE  subs'[p].mark = subs[i].mark <=> p = to[i]
    <2> SUFFICES ASSUME subs'[p].mark = subs[i].mark PROVE p = to[i]
      BY <1>4
    <2>1. PICK j \in DOMAIN subs : to[j] = p
      BY <1>4, <1>5
    <2>2. j = i
      BY <1>4, <1>5, <2>1 DEF AssetsInv, MarksAreUnique
    <2> QED
      BY <2>1, <2>2
  <1> QED
    BY <1>4, <1>5 DEF Carries

LEMMA PlatformAddsCarries ==
  ASSUME AssetsInv, NEW name \in Names, NEW mark \in Marks, PlatformAdds(name, mark)
  PROVE  \E to : Carries(subs, subs', to)
  <1> DEFINE row == [sub |-> name, ip |-> "", mark |-> mark]
             n == Len(subs)
             to == [i \in DOMAIN subs |-> i]
  <1>1. row \in Row /\ row.mark = mark
    BY NamesAssumption DEF Row, Ips
  <1>2. /\ subs \in Seq(Row) /\ n \in Nat /\ DOMAIN subs = 1 .. n
        /\ subs' = Append(subs, row)
        /\ \A i \in DOMAIN subs : subs[i].mark # mark
    BY LenProperties DEF AssetsInv, TypeOK, PlatformAdds
  <1> HIDE DEF row, n
  <1>3. /\ subs' \in Seq(Row)
        /\ Len(subs') = n + 1
        /\ \A i \in 1 .. n : subs'[i] = subs[i]
        /\ subs'[n + 1] = row
    BY <1>1, <1>2, AppendProperties DEF n
  <1>4. /\ DOMAIN subs' = 1 .. n + 1
        /\ \A p \in DOMAIN subs' : p \in DOMAIN subs \/ p = n + 1
        /\ \A i \in DOMAIN subs : i \in DOMAIN subs' /\ subs'[i] = subs[i]
    BY <1>2, <1>3, LenProperties
  <1>5. to \in [DOMAIN subs -> DOMAIN subs'] /\ \A i \in DOMAIN subs : to[i] = i
    BY <1>4
  <1> HIDE DEF to
  <1>6. ASSUME NEW i \in DOMAIN subs, subs[i].mark # NoMark, NEW p \in DOMAIN subs'
        PROVE  subs'[p].mark = subs[i].mark <=> p = i
    <2>1. CASE p \in DOMAIN subs
      BY <1>4, <1>6, <2>1 DEF AssetsInv, MarksAreUnique
    <2>2. CASE p = n + 1
      BY <1>1, <1>2, <1>3, <1>4, <2>2
    <2> QED
      BY <1>4, <2>1, <2>2
  <1>7. \A i \in DOMAIN subs : i \in Named(subs) <=> i \in Named(subs')
    BY <1>4 DEF Named
  <1> QED
    BY <1>4, <1>5, <1>6, <1>7 DEF Carries

LEMMA PlatformEditsCarries ==
  ASSUME AssetsInv, NEW i \in DOMAIN subs, NEW mark \in Marks, PlatformEdits(i, mark)
  PROVE  \E to : Carries(subs, subs', to)
  <1> DEFINE row == [subs[i] EXCEPT !.mark = mark]
             to == [j \in DOMAIN subs |-> j]
  <1>1. /\ subs \in Seq(Row) /\ Len(subs) \in Nat /\ DOMAIN subs = 1 .. Len(subs)
        /\ subs[i] \in Row /\ i \in 1 .. Len(subs)
        /\ subs[i].mark = NoMark
        /\ \A j \in DOMAIN subs : subs[j].mark # mark
    BY LenProperties, ElementOfSeq DEF AssetsInv, TypeOK, PlatformEdits
  <1>2. row \in Row /\ row.sub = subs[i].sub /\ row.mark = mark
    BY <1>1 DEF Row
  <1>3. subs' = [subs EXCEPT ![i] = row]
    BY DEF PlatformEdits
  <1> HIDE DEF row
  <1>4. /\ DOMAIN subs' = DOMAIN subs
        /\ \A j \in DOMAIN subs : subs'[j] = IF j = i THEN row ELSE subs[j]
    BY <1>1, <1>2, <1>3, ExceptSeq
  <1>5. to \in [DOMAIN subs -> DOMAIN subs'] /\ \A j \in DOMAIN subs : to[j] = j
    BY <1>4
  <1> HIDE DEF to
  <1>6. \A j \in DOMAIN subs : /\ subs'[j].sub = subs[j].sub
                               /\ j \in Named(subs) <=> j \in Named(subs')
    BY <1>2, <1>4 DEF Named
  <1>7. ASSUME NEW j \in DOMAIN subs, subs[j].mark # NoMark, NEW p \in DOMAIN subs'
        PROVE  subs'[p].mark = subs[j].mark <=> p = j
    BY <1>1, <1>2, <1>4, <1>7 DEF AssetsInv, MarksAreUnique
  <1> QED
    BY <1>5, <1>6, <1>7 DEF Carries

LEMMA SameRowsCarry ==
  ASSUME AssetsInv, subs' = subs
  PROVE  \E to : Carries(subs, subs', to)
  <1> DEFINE to == [i \in DOMAIN subs |-> i]
  <1>1. Carries(subs, subs, to)
    BY DEF AssetsInv, MarksAreUnique, Carries
  <1> QED
    BY <1>1

\* No step loses a row: not one without a name, not a duplicate, and never
\* what the platform put on one (both Merge; Save writes what they return).
THEOREM RowsAreNotLost == Spec => NoRowIsLost
  <1> DEFINE Step ==
        /\ Cardinality(DOMAIN subs \ Named(subs))
               <= Cardinality(DOMAIN subs' \ Named(subs'))
        /\ \A key \in Hosts(subs) :
               Cardinality(Spelled(subs, key)) <= Cardinality(Spelled(subs', key))
        /\ \A i \in DOMAIN subs : subs[i].mark # NoMark =>
               \E j \in DOMAIN subs' :
                   /\ subs'[j].sub.labels = subs[i].sub.labels
                   /\ {k \in DOMAIN subs' : subs'[k].mark = subs[i].mark} = {j}
  <1>1. ASSUME AssetsInv, [Next]_vars PROVE Step
    <2>1. AssetsInv'
      BY <1>1, NextInv
    <2>2. \E to : Carries(subs, subs', to)
      <3>1. CASE ScanStep
        <4>1. PICK domain \in Valid :
                 \/ \E fresh \in Findings : ScanNames(domain, fresh)
                 \/ \E runs \in [DOMAIN BuildTargets(domain, subs) -> NmapRuns] :
                        ScanPorts(domain, runs)
          BY <3>1 DEF ScanStep
        <4>2. ASSUME NEW fresh \in Findings, ScanNames(domain, fresh)
              PROVE  \E to : Carries(subs, subs', to)
          BY <1>1, <4>2, ScanNamesCarries
        <4>3. ASSUME NEW runs, ScanPorts(domain, runs)
              PROVE  \E to : Carries(subs, subs', to)
          BY <1>1, <4>3, SameRowsCarry DEF ScanPorts
        <4> QED
          BY <4>1, <4>2, <4>3
      <3>2. CASE PlatformStep
        BY <1>1, <3>2, PlatformAddsCarries, PlatformEditsCarries DEF PlatformStep
      <3>3. CASE UNCHANGED vars
        BY <1>1, <3>3, SameRowsCarry DEF vars
      <3> QED
        BY <1>1, <3>1, <3>2, <3>3 DEF Next
    <2>3. PICK to : Carries(subs, subs', to)
      BY <2>2
    <2>4. subs \in Seq(Row) /\ subs' \in Seq(Row)
      BY <1>1, <2>1 DEF AssetsInv, TypeOK
    <2> QED
      BY <2>3, <2>4, CarriedRows
  <1>2. AssetsInv /\ [Next]_vars => Step
    BY <1>1
  <1> QED
    BY <1>2, InvariantHolds, PTL DEF Spec, NoRowIsLost

-----------------------------------------------------------------------------
(* Merge is an upsert.                                                     *)

\* The rows of one host after a merge: those that stay, and the entry of the
\* finding of that host.
LEMMA SpelledRows ==
  ASSUME NEW existing \in Seq(Row), NEW fresh \in Seq(Finding),
         NEW domain \in Spelling, NEW rows \in Seq(Row), NEW old, NEW new,
         Layout(existing, fresh, domain, rows, old, new)
  PROVE  /\ \A i \in Stays(existing, fresh, domain) :
               /\ i \in DOMAIN existing
               /\ old[i] \in DOMAIN rows
               /\ rows[old[i]] = existing[i]
               /\ \A key : i \in Spelled(existing, key) <=> old[i] \in Spelled(rows, key)
         /\ \A k \in News(fresh) :
               /\ fresh[k] \in Finding
               /\ k \in Named(fresh)
               /\ new[k] \in DOMAIN rows
               /\ rows[new[k]].sub.labels = fresh[k].sub.labels
               /\ rows[new[k]].sub.form = "plain"
               /\ rows[new[k]].ip = fresh[k].ip
               /\ fresh[k].sub.labels # <<>> =>
                     new[k] \in Spelled(rows, fresh[k].sub.labels)
         /\ \A i \in FoundAgain(existing, fresh, domain) : i \in DOMAIN existing
         /\ \A i \in DOMAIN existing : \/ i \in Stays(existing, fresh, domain)
                                       \/ i \in FoundAgain(existing, fresh, domain)
  <1>1. ASSUME NEW i \in Stays(existing, fresh, domain)
        PROVE  /\ i \in DOMAIN existing
               /\ old[i] \in DOMAIN rows
               /\ rows[old[i]] = existing[i]
               /\ \A key : i \in Spelled(existing, key) <=> old[i] \in Spelled(rows, key)
    <2>1. i \in DOMAIN existing /\ old[i] \in DOMAIN rows /\ rows[old[i]] = existing[i]
      BY DEF Layout, Stays
    <2> QED
      BY <2>1 DEF Spelled, Named
  <1>2. ASSUME NEW k \in News(fresh)
        PROVE  /\ fresh[k] \in Finding
               /\ k \in Named(fresh)
               /\ new[k] \in DOMAIN rows
               /\ rows[new[k]].sub.labels = fresh[k].sub.labels
               /\ rows[new[k]].sub.form = "plain"
               /\ rows[new[k]].ip = fresh[k].ip
               /\ fresh[k].sub.labels # <<>> =>
                     new[k] \in Spelled(rows, fresh[k].sub.labels)
    <2>1. k \in Named(fresh) /\ fresh[k] \in Finding
      <3>1. k \in Named(fresh) /\ k \in DOMAIN fresh
        BY IndexTypes
      <3> QED
        BY <3>1, LenProperties, ElementOfSeq
    <2>2. new[k] \in DOMAIN rows /\ rows[new[k]] = Entry(existing, fresh[k], domain)
      BY DEF Layout
    <2>3. /\ rows[new[k]].sub.labels = fresh[k].sub.labels
          /\ rows[new[k]].sub.form = "plain"
          /\ rows[new[k]].ip = fresh[k].ip
      BY <2>1, <2>2, EntryProperties
    <2>4. rows[new[k]].sub = Nameless => fresh[k].sub.labels = <<>>
      BY <2>3 DEF Nameless
    <2> QED
      BY <2>1, <2>2, <2>3, <2>4 DEF Spelled, Named
  <1>3. /\ \A i \in FoundAgain(existing, fresh, domain) : i \in DOMAIN existing
        /\ \A i \in DOMAIN existing : \/ i \in Stays(existing, fresh, domain)
                                      \/ i \in FoundAgain(existing, fresh, domain)
    BY IndexTypes DEF FoundAgain, Stays
  <1> QED
    BY <1>1, <1>2, <1>3

\* A name of the domain is a name, and stored rows of it are inside.
LEMMA NamesOfDomain ==
  ASSUME NEW name \in Spelling, NEW domain \in Spelling, belongsToDomain(name, domain)
  PROVE  /\ name # Nameless
         /\ name.labels # <<>>
         /\ \A rows \in Seq(Row) \cup Seq(Finding) :
               Spelled(rows, name.labels) \subseteq Inside(rows, domain)
  <1>1. /\ name.labels # <<>>
        /\ \A other \in Spelling :
              other.labels = name.labels => belongsToDomain(other, domain)
    BY DomainsByLabels
  <1>2. ASSUME NEW rows \in Seq(Row) \cup Seq(Finding),
               NEW i \in Spelled(rows, name.labels)
        PROVE  i \in Inside(rows, domain)
    <2>1. i \in Named(rows) /\ i \in DOMAIN rows /\ rows[i].sub.labels = name.labels
      BY DEF Spelled, Named
    <2>2. rows[i].sub \in Spelling
      BY <2>1, RowTypes
    <2> QED
      BY <1>1, <2>1, <2>2 DEF Inside
  <1> QED
    BY <1>1, <1>2 DEF Nameless

\* A host found in the domain.
LEMMA UpsertsFound ==
  ASSUME NEW existing \in Seq(Row), NEW fresh \in Seq(Finding),
         NEW domain \in Spelling, NEW rows \in Merge(existing, fresh, domain),
         NEW f \in DOMAIN fresh, belongsToDomain(fresh[f].sub, domain)
  PROVE  LET key == fresh[f].sub.labels
             before == Cardinality(Spelled(existing, key))
         IN  /\ Cardinality(Spelled(rows, key)) = IF before = 0 THEN 1 ELSE before
             /\ (\A j \in 1 .. f - 1 : fresh[j].sub.labels # key) =>
                    \E i \in Spelled(rows, key) : rows[i].ip = fresh[f].ip
  <1> DEFINE key == fresh[f].sub.labels
             before == Spelled(existing, key)
             after == Spelled(rows, key)
             stays == Stays(existing, fresh, domain)
             again == FoundAgain(existing, fresh, domain)
  <1>1. rows \in Seq(Row)
    BY MergeLayout
  <1>2. PICK old, new : Layout(existing, fresh, domain, rows, old, new)
    BY MergeLayout
  <1> DEFINE to == Follow(existing, fresh, domain, old, new)
  <1>3. /\ to \in [DOMAIN existing -> DOMAIN rows]
        /\ \A i, j \in DOMAIN existing : to[i] = to[j] => i = j
        /\ \A i \in stays : to[i] = old[i]
        /\ \A i \in again, k \in News(fresh) :
              fresh[k].sub.labels = existing[i].sub.labels => to[i] = new[k]
        /\ \A i \in DOMAIN existing :
              /\ rows[to[i]].sub.labels = existing[i].sub.labels
              /\ i \in Named(existing) <=> to[i] \in Named(rows)
    BY <1>1, <1>2, FollowProperties
  <1>4. /\ \A i \in stays : i \in DOMAIN existing /\ (i \in before <=> old[i] \in after)
        /\ \A k \in News(fresh) :
              /\ rows[new[k]].sub.labels = fresh[k].sub.labels
              /\ rows[new[k]].ip = fresh[k].ip
              /\ fresh[k].sub.labels # <<>> =>
                    new[k] \in Spelled(rows, fresh[k].sub.labels)
        /\ \A i \in again : i \in DOMAIN existing
        /\ \A i \in DOMAIN existing : i \in stays \/ i \in again
    BY <1>1, <1>2, SpelledRows
  <1>5. /\ fresh[f].sub \in Spelling /\ key # <<>> /\ f \in Named(fresh)
        /\ before \subseteq Inside(existing, domain)
    <2>1. fresh[f].sub \in Spelling
      BY RowTypes
    <2>2. fresh[f].sub # Nameless /\ key # <<>> /\ before \subseteq Inside(existing, domain)
      BY <2>1, NamesOfDomain
    <2> QED
      BY <2>1, <2>2 DEF Named
  <1>6. PICK l \in News(fresh) : fresh[l].sub.labels = key
    BY <1>5, FoundAgainProperties
  <1>7. new[l] \in after
    BY <1>4, <1>5, <1>6
  <1>8. \A p \in after : p = new[l] \/ \E i \in stays : p = old[i] /\ i \in before
    <2> SUFFICES ASSUME NEW p \in after, p # new[l]
                 PROVE  \E i \in stays : p = old[i] /\ i \in before
      OBVIOUS
    <2>1. p \in DOMAIN rows /\ rows[p].sub.labels = key
      BY DEF Spelled, Named
    <2>2. ASSUME NEW k \in News(fresh), p = new[k] PROVE FALSE
      <3>1. fresh[k].sub.labels = key
        BY <1>4, <2>1, <2>2
      <3>2. k = l
        BY <1>6, <3>1, FoundAgainProperties
      <3> QED
        BY <2>2, <3>2
    <2>3. PICK i \in stays : p = old[i]
      BY <1>2, <2>1, <2>2 DEF Layout
    <2> QED
      BY <1>4, <2>3
  <1>9. IsFiniteSet(before)
    <2>1. Len(existing) \in Nat /\ before \in SUBSET (1 .. Len(existing))
      BY LenProperties DEF Spelled, Named
    <2> QED
      BY <2>1, IndexSets
  <1>10. Cardinality(after) =
             IF Cardinality(before) = 0 THEN 1 ELSE Cardinality(before)
    <2>1. CASE before = {}
      <3>1. after = {new[l]}
        BY <1>7, <1>8, <2>1
      <3>2. Cardinality(before) = 0
        BY <2>1, FS_EmptySet
      <3>3. Cardinality(after) = 1
        BY <3>1, FS_Singleton
      <3> QED
        BY <3>2, <3>3
    <2>2. CASE before # {}
      <3>1. PICK j \in Prev(existing, domain) : existing[j].sub.labels = key
        <4>1. PICK i \in before : TRUE
          BY <2>2
        <4>2. i \in Inside(existing, domain) /\ existing[i].sub.labels = key
          BY <1>5, <4>1 DEF Spelled
        <4> QED
          BY <4>2, FoundAgainProperties
      <3>2. j \in before /\ j \in DOMAIN existing
        BY <3>1, IndexTypes DEF Spelled
      <3>3. j \in again
        BY <1>6, <3>1, <3>2, FoundAgainProperties
      <3>4. to[j] = new[l]
        BY <1>3, <1>6, <3>1, <3>3
      <3>5. before \subseteq DOMAIN existing
        BY DEF Spelled, Named
      <3>6. \A i \in before : to[i] \in after
        BY <1>3, <3>5 DEF Spelled
      <3>7. \A p \in after : \E i \in before : to[i] = p
        BY <1>3, <1>8, <3>2, <3>4
      <3> DEFINE g == [i \in before |-> to[i]]
      <3> HIDE DEF before, after, to
      <3>8. g \in [before -> after] /\ \A i \in before : g[i] = to[i]
        BY <3>6
      <3> HIDE DEF g
      <3>9. Cardinality(after) = Cardinality(before)
        <4>1. \A a, b \in before : g[a] = g[b] => a = b
          BY <1>3, <3>5, <3>8
        <4>2. \A p \in after : \E i \in before : g[i] = p
          BY <3>7, <3>8
        <4> QED
          BY <1>9, <3>8, <4>1, <4>2, SameSize
      <3>10. Cardinality(before) # 0
        BY <1>9, <2>2, FS_EmptySet
      <3> QED
        BY <3>9, <3>10
    <2> QED
      BY <2>1, <2>2
  <1>11. ASSUME \A j \in 1 .. f - 1 : fresh[j].sub.labels # key
         PROVE  \E i \in after : rows[i].ip = fresh[f].ip
    <2>1. /\ Len(fresh) \in Nat /\ DOMAIN fresh = 1 .. Len(fresh)
          /\ Named(fresh) \subseteq DOMAIN fresh
          /\ \A j \in DOMAIN fresh : hostKey(fresh[j].sub) = fresh[j].sub.labels
      BY IndexTypes, RowTypes
    <2>2. \A j \in Named(fresh) : j < f => hostKey(fresh[j].sub) # hostKey(fresh[f].sub)
      BY <1>11, <2>1
    <2>3. f \in News(fresh)
      BY <1>5, <2>2 DEF News, FirstOf
    <2> QED
      BY <1>4, <1>5, <2>3
  <1> HIDE DEF before, after
  <1> QED
    BY <1>10, <1>11 DEF before, after

\* A host that was not found.
LEMMA UpsertsMissed ==
  ASSUME NEW existing \in Seq(Row), NEW fresh \in Seq(Finding),
         NEW domain \in Spelling, NEW rows \in Merge(existing, fresh, domain),
         NEW key, key \notin Hosts(fresh)
  PROVE  /\ \A i \in Spelled(existing, key) : \E p \in Spelled(rows, key) : rows[p] = existing[i]
         /\ \A p \in Spelled(rows, key) : \E i \in Spelled(existing, key) : rows[p] = existing[i]
  <1>1. rows \in Seq(Row)
    BY MergeLayout
  <1>2. PICK old, new : Layout(existing, fresh, domain, rows, old, new)
    BY MergeLayout
  <1>3. /\ \A i \in Stays(existing, fresh, domain) :
              /\ rows[old[i]] = existing[i]
              /\ i \in Spelled(existing, key) <=> old[i] \in Spelled(rows, key)
        /\ \A k \in News(fresh) :
              k \in Named(fresh) /\ rows[new[k]].sub.labels = fresh[k].sub.labels
        /\ \A i \in DOMAIN existing : \/ i \in Stays(existing, fresh, domain)
                                      \/ i \in FoundAgain(existing, fresh, domain)
    BY <1>1, <1>2, SpelledRows
  <1>4. \A k \in News(fresh) : fresh[k].sub.labels # key
    BY <1>3 DEF Hosts
  <1>5. ASSUME NEW i \in Spelled(existing, key)
        PROVE  \E p \in Spelled(rows, key) : rows[p] = existing[i]
    <2>1. i \in DOMAIN existing /\ existing[i].sub.labels = key
      BY DEF Spelled, Named
    <2>2. i \notin FoundAgain(existing, fresh, domain)
      BY <1>4, <2>1, FoundAgainProperties
    <2> QED
      BY <1>3, <2>1, <2>2
  <1>6. ASSUME NEW p \in Spelled(rows, key)
        PROVE  \E i \in Spelled(existing, key) : rows[p] = existing[i]
    <2>1. p \in DOMAIN rows /\ rows[p].sub.labels = key
      BY DEF Spelled, Named
    <2>2. \A k \in News(fresh) : p # new[k]
      BY <1>3, <1>4, <2>1
    <2>3. PICK i \in Stays(existing, fresh, domain) : p = old[i]
      BY <1>2, <2>1, <2>2 DEF Layout
    <2> QED
      BY <1>3, <2>3
  <1> QED
    BY <1>5, <1>6

\* Merge is an upsert by host: one found in the domain has a row with the
\* fresh address and no more rows than before, one not found keeps its rows
\* as they were (subdomain.Merge).
THEOREM MergesUpsert == Spec => []MergeUpserts
  <1>1. TypeOK => MergeUpserts
    <2> SUFFICES ASSUME TypeOK, NEW domain \in Valid, NEW fresh \in Findings,
                        NEW rows \in Merge(subs, fresh, domain)
                 PROVE  /\ \A k \in DOMAIN fresh :
                             LET key == fresh[k].sub.labels
                                 before == Cardinality(Spelled(subs, key))
                             IN  belongsToDomain(fresh[k].sub, domain) =>
                                   /\ Cardinality(Spelled(rows, key)) =
                                          IF before = 0 THEN 1 ELSE before
                                   /\ (\A j \in 1 .. k - 1 : fresh[j].sub.labels # key) =>
                                          \E i \in Spelled(rows, key) :
                                              rows[i].ip = fresh[k].ip
                        /\ \A key \in Hosts(subs) \ Hosts(fresh) :
                             {rows[i] : i \in Spelled(rows, key)} =
                                 {subs[i] : i \in Spelled(subs, key)}
      BY DEF MergeUpserts
    <2>1. subs \in Seq(Row) /\ fresh \in Seq(Finding) /\ domain \in Spelling
      BY FindingsAreSequences, NamesAssumption DEF TypeOK, Valid
    <2>2. \A k \in DOMAIN fresh :
             LET key == fresh[k].sub.labels
                 before == Cardinality(Spelled(subs, key))
             IN  belongsToDomain(fresh[k].sub, domain) =>
                   /\ Cardinality(Spelled(rows, key)) = IF before = 0 THEN 1 ELSE before
                   /\ (\A j \in 1 .. k - 1 : fresh[j].sub.labels # key) =>
                          \E i \in Spelled(rows, key) : rows[i].ip = fresh[k].ip
      BY <2>1, UpsertsFound
    <2>3. \A key \in Hosts(subs) \ Hosts(fresh) :
             {rows[i] : i \in Spelled(rows, key)} = {subs[i] : i \in Spelled(subs, key)}
      <3> TAKE key \in Hosts(subs) \ Hosts(fresh)
      <3>1. /\ \A i \in Spelled(subs, key) : \E p \in Spelled(rows, key) : rows[p] = subs[i]
            /\ \A p \in Spelled(rows, key) : \E i \in Spelled(subs, key) : rows[p] = subs[i]
        BY <2>1, UpsertsMissed
      <3> QED
        BY <3>1
    <2> QED
      BY <2>2, <2>3
  <1> QED
    BY <1>1, TypeCorrect, PTL

-----------------------------------------------------------------------------
(* A scan saved again.                                                     *)

\* Where no host has two rows, a name leads to one row.
LEMMA OnceIsUnique ==
  ASSUME NEW rows \in Seq(Row), Once(rows),
         NEW i \in Named(rows), NEW j \in Named(rows),
         rows[i].sub.labels = rows[j].sub.labels
  PROVE  i = j
  <1> DEFINE key == rows[i].sub.labels
             S == Spelled(rows, key)
  <1>1. i \in S /\ j \in S /\ key \in Hosts(rows)
    BY DEF Spelled, Hosts
  <1>2. Len(rows) \in Nat /\ S \in SUBSET (1 .. Len(rows))
    BY LenProperties DEF Spelled, Named
  <1>3. IsFiniteSet(S) /\ Cardinality(S) = 1
    BY <1>1, <1>2, IndexSets DEF Once
  <1> HIDE DEF S
  <1>4. PICK x : S = {x}
    BY <1>3, FS_Singleton
  <1> QED
    BY <1>1, <1>4

\* As many indices as elements.
LEMMA DomainSize ==
  ASSUME NEW S, NEW seq \in Seq(S)
  PROVE  IsFiniteSet(DOMAIN seq) /\ Cardinality(DOMAIN seq) = Len(seq)
  <1> DEFINE n == Len(seq)
  <1>1. n \in Nat /\ DOMAIN seq = 1 .. n
    BY LenProperties
  <1> HIDE DEF n
  <1>2. IsFiniteSet(1 .. n) /\ Cardinality(1 .. n) = n
    BY <1>1, FS_Interval, 1 \in Int, n \in Int
  <1> QED
    BY <1>1, <1>2 DEF n

\* Rows are equal when their parts are.
LEMMA SameRow ==
  ASSUME NEW x \in Row, NEW y \in Row,
         x.sub.labels = y.sub.labels, x.sub.form = y.sub.form,
         x.ip = y.ip, x.mark = y.mark
  PROVE  x = y
  <1>1. x.sub \in Spelling /\ y.sub \in Spelling
    BY DEF Row
  <1>2. x.sub = y.sub
    BY <1>1 DEF Spelling
  <1> QED
    BY <1>2 DEF Row

\* A merge of names of the domain into rows none of which share a host makes
\* rows of which the same is true, and each finding's row is the one that
\* merging it again takes out.
LEMMA MergedOnce ==
  ASSUME NEW existing \in Seq(Row), NEW fresh \in Seq(Finding),
         NEW domain \in Spelling, NEW rows \in Seq(Row), NEW old, NEW new,
         Layout(existing, fresh, domain, rows, old, new),
         Once(existing),
         \A k \in DOMAIN fresh : belongsToDomain(fresh[k].sub, domain)
  PROVE  /\ \A p, q \in Named(rows) : rows[p].sub.labels = rows[q].sub.labels => p = q
         /\ \A k \in News(fresh) : /\ new[k] \in FoundAgain(rows, fresh, domain)
                                   /\ new[k] \in Prev(rows, domain)
         /\ \A p \in FoundAgain(rows, fresh, domain) :
               \E k \in News(fresh) : p = new[k]
  <1>1. /\ \A i \in Stays(existing, fresh, domain) :
              /\ i \in DOMAIN existing
              /\ i \notin FoundAgain(existing, fresh, domain)
              /\ rows[old[i]] = existing[i]
        /\ \A k \in News(fresh) :
              /\ k \in DOMAIN fresh
              /\ new[k] \in DOMAIN rows
              /\ rows[new[k]].sub.labels = fresh[k].sub.labels
              /\ fresh[k].sub.labels # <<>> => new[k] \in Spelled(rows, fresh[k].sub.labels)
    BY SpelledRows DEF Stays, Named
  <1>2. ASSUME NEW k \in News(fresh)
        PROVE  /\ new[k] \in Named(rows)
               /\ new[k] \in Inside(rows, domain)
               /\ Spelled(existing, fresh[k].sub.labels) \subseteq Inside(existing, domain)
    <2>1. fresh[k].sub \in Spelling /\ belongsToDomain(fresh[k].sub, domain)
      BY <1>1, RowTypes
    <2>2. /\ fresh[k].sub.labels # <<>>
          /\ Spelled(existing, fresh[k].sub.labels) \subseteq Inside(existing, domain)
          /\ Spelled(rows, fresh[k].sub.labels) \subseteq Inside(rows, domain)
      BY <2>1, NamesOfDomain
    <2>3. new[k] \in Spelled(rows, fresh[k].sub.labels)
      BY <1>1, <2>2
    <2> QED
      BY <2>2, <2>3 DEF Spelled
  <1>3. ASSUME NEW i \in Stays(existing, fresh, domain), NEW k \in News(fresh),
               i \in Named(existing), existing[i].sub.labels = fresh[k].sub.labels
        PROVE  FALSE
    <2>1. i \in Inside(existing, domain)
      BY <1>2, <1>3 DEF Spelled
    <2>2. PICK j \in Prev(existing, domain) : existing[j].sub.labels = existing[i].sub.labels
      BY <2>1, FoundAgainProperties
    <2>3. j \in Named(existing)
      BY IndexTypes
    <2>4. j = i
      BY <1>3, <2>2, <2>3, OnceIsUnique
    <2>5. i \in FoundAgain(existing, fresh, domain)
      BY <1>1, <1>3, <2>2, <2>4, FoundAgainProperties
    <2> QED
      BY <1>1, <2>5
  <1>4. ASSUME NEW p \in Named(rows), NEW q \in Named(rows),
               rows[p].sub.labels = rows[q].sub.labels
        PROVE  p = q
    <2>0. p \in DOMAIN rows /\ q \in DOMAIN rows
      BY DEF Named
    <2>1. ASSUME NEW i \in Stays(existing, fresh, domain), NEW r \in Named(rows), r = old[i]
          PROVE  i \in Named(existing) /\ existing[i] = rows[r]
      BY <1>1, <2>1 DEF Named
    <2>2. CASE \E i \in Stays(existing, fresh, domain) : p = old[i]
      <3>1. PICK i \in Stays(existing, fresh, domain) : p = old[i]
        BY <2>2
      <3>2. CASE \E j \in Stays(existing, fresh, domain) : q = old[j]
        <4>1. PICK j \in Stays(existing, fresh, domain) : q = old[j]
          BY <3>2
        <4>2. i = j
          BY <1>4, <2>1, <3>1, <4>1, OnceIsUnique
        <4> QED
          BY <3>1, <4>1, <4>2
      <3>3. CASE \E k \in News(fresh) : q = new[k]
        BY <1>1, <1>3, <1>4, <2>1, <3>1, <3>3
      <3> QED
        BY <2>0, <3>2, <3>3 DEF Layout
    <2>3. CASE \E k \in News(fresh) : p = new[k]
      <3>1. PICK k \in News(fresh) : p = new[k]
        BY <2>3
      <3>2. CASE \E j \in Stays(existing, fresh, domain) : q = old[j]
        BY <1>1, <1>3, <1>4, <2>1, <3>1, <3>2
      <3>3. CASE \E l \in News(fresh) : q = new[l]
        <4>1. PICK l \in News(fresh) : q = new[l]
          BY <3>3
        <4>2. k = l
          BY <1>1, <1>4, <3>1, <4>1, FoundAgainProperties
        <4> QED
          BY <3>1, <4>1, <4>2
      <3> QED
        BY <2>0, <3>2, <3>3 DEF Layout
    <2> QED
      BY <2>0, <2>2, <2>3 DEF Layout
  <1>5. ASSUME NEW k \in News(fresh)
        PROVE  /\ new[k] \in FoundAgain(rows, fresh, domain)
               /\ new[k] \in Prev(rows, domain)
    <2>1. PICK p \in Prev(rows, domain) : rows[p].sub.labels = rows[new[k]].sub.labels
      BY <1>2, FoundAgainProperties
    <2>2. p \in Named(rows)
      BY IndexTypes
    <2>3. p = new[k]
      BY <1>2, <1>4, <2>1, <2>2
    <2> QED
      BY <1>1, <2>1, <2>3, FoundAgainProperties
  <1>6. ASSUME NEW p \in FoundAgain(rows, fresh, domain)
        PROVE  \E k \in News(fresh) : p = new[k]
    <2>1. p \in Prev(rows, domain) /\ p \in Named(rows) /\ p \in DOMAIN rows
      BY IndexTypes DEF FoundAgain
    <2>2. PICK k \in News(fresh) : fresh[k].sub.labels = rows[p].sub.labels
      BY <2>1, FoundAgainProperties
    <2>3. p = new[k]
      BY <1>1, <1>2, <1>4, <2>1, <2>2
    <2> QED
      BY <2>3
  <1> QED
    BY <1>4, <1>5, <1>6

\* Merging the same findings into what merging them made gives the same rows,
\* as many of them.
LEMMA MergedAgain ==
  ASSUME NEW existing \in Seq(Row), NEW fresh \in Seq(Finding),
         NEW domain \in Spelling, Once(existing),
         \A k \in DOMAIN fresh : belongsToDomain(fresh[k].sub, domain),
         NEW rows \in Merge(existing, fresh, domain),
         NEW again \in Merge(rows, fresh, domain)
  PROVE  Len(again) = Len(rows) /\ ToSet(again) = ToSet(rows)
  <1>1. rows \in Seq(Row)
    BY MergeLayout
  <1>2. again \in Seq(Row)
    BY <1>1, MergeLayout
  <1>3. PICK old, new : Layout(existing, fresh, domain, rows, old, new)
    BY MergeLayout
  <1>4. PICK old2, new2 : Layout(rows, fresh, domain, again, old2, new2)
    BY <1>1, MergeLayout
  <1> DEFINE to == Follow(rows, fresh, domain, old2, new2)
  <1>5. /\ to \in [DOMAIN rows -> DOMAIN again]
        /\ \A p, q \in DOMAIN rows : to[p] = to[q] => p = q
        /\ \A p \in Stays(rows, fresh, domain) : to[p] = old2[p]
        /\ \A p \in FoundAgain(rows, fresh, domain), k \in News(fresh) :
              fresh[k].sub.labels = rows[p].sub.labels => to[p] = new2[k]
    BY <1>1, <1>2, <1>4, FollowProperties
  <1>6. /\ \A p \in Stays(rows, fresh, domain) : again[old2[p]] = rows[p]
        /\ \A p \in DOMAIN rows : \/ p \in Stays(rows, fresh, domain)
                                  \/ p \in FoundAgain(rows, fresh, domain)
        /\ \A k \in News(fresh) : again[new2[k]] = Entry(rows, fresh[k], domain)
        /\ \A q \in DOMAIN again : \/ \E p \in Stays(rows, fresh, domain) : q = old2[p]
                                   \/ \E k \in News(fresh) : q = new2[k]
        /\ \A p \in Stays(rows, fresh, domain) : p \in DOMAIN rows
    BY <1>4 DEF Layout, Stays
  <1>7. \A k \in News(fresh) :
           /\ fresh[k] \in Finding
           /\ new[k] \in DOMAIN rows
           /\ rows[new[k]].sub.labels = fresh[k].sub.labels
           /\ rows[new[k]].sub.form = "plain"
           /\ rows[new[k]].ip = fresh[k].ip
    BY <1>1, <1>3, SpelledRows
  <1>8. /\ \A k \in News(fresh) : /\ new[k] \in FoundAgain(rows, fresh, domain)
                                  /\ new[k] \in Prev(rows, domain)
        /\ \A p \in FoundAgain(rows, fresh, domain) : \E k \in News(fresh) : p = new[k]
    BY <1>1, <1>3, MergedOnce
  <1> HIDE DEF to
  <1>9. \A k \in News(fresh) : to[new[k]] = new2[k]
    BY <1>5, <1>7, <1>8
  <1>10. ASSUME NEW k \in News(fresh)
         PROVE  again[new2[k]] = rows[new[k]]
    <2> DEFINE entry == Entry(rows, fresh[k], domain)
    <2>1. /\ entry \in Row
          /\ entry.sub.labels = fresh[k].sub.labels
          /\ entry.sub.form = "plain"
          /\ entry.ip = fresh[k].ip
          /\ entry.mark = rows[new[k]].mark
      <3>1. /\ fresh[k] \in Finding
            /\ new[k] \in Prev(rows, domain)
            /\ rows[new[k]].sub.labels = fresh[k].sub.labels
        BY <1>7, <1>8
      <3>2. /\ entry \in Row
            /\ entry.sub.labels = fresh[k].sub.labels
            /\ entry.sub.form = "plain"
            /\ entry.ip = fresh[k].ip
            /\ \A i \in Prev(rows, domain) :
                  rows[i].sub.labels = fresh[k].sub.labels => entry.mark = rows[i].mark
        BY <1>1, <3>1, EntryProperties
      <3> HIDE DEF entry
      <3> QED
        BY <3>1, <3>2
    <2>2. rows[new[k]] \in Row
      BY <1>1, <1>7, LenProperties, ElementOfSeq
    <2>3. again[new2[k]] = entry
      BY <1>6
    <2> HIDE DEF entry
    <2>4. entry = rows[new[k]]
      BY <1>7, <2>1, <2>2, SameRow
    <2> QED
      BY <2>3, <2>4
  <1>11. \A p \in DOMAIN rows : again[to[p]] = rows[p]
    <2> SUFFICES ASSUME NEW p \in DOMAIN rows PROVE again[to[p]] = rows[p]
      OBVIOUS
    <2>1. CASE p \in Stays(rows, fresh, domain)
      BY <1>5, <1>6, <2>1
    <2>2. CASE p \in FoundAgain(rows, fresh, domain)
      BY <1>8, <1>9, <1>10, <2>2
    <2> QED
      BY <1>6, <2>1, <2>2
  <1>12. \A q \in DOMAIN again : \E p \in DOMAIN rows : to[p] = q
    <2> SUFFICES ASSUME NEW q \in DOMAIN again PROVE \E p \in DOMAIN rows : to[p] = q
      OBVIOUS
    <2>1. CASE \E p \in Stays(rows, fresh, domain) : q = old2[p]
      BY <1>5, <1>6, <2>1
    <2>2. CASE \E k \in News(fresh) : q = new2[k]
      BY <1>7, <1>9, <2>2
    <2> QED
      BY <1>6, <2>1, <2>2
  <1>13. Len(again) = Len(rows)
    <2>1. IsFiniteSet(DOMAIN rows) /\ Cardinality(DOMAIN rows) = Len(rows)
      BY <1>1, DomainSize
    <2>2. Cardinality(DOMAIN again) = Len(again)
      BY <1>2, DomainSize
    <2>3. Cardinality(DOMAIN again) = Cardinality(DOMAIN rows)
      BY <1>5, <1>12, <2>1, SameSize
    <2> QED
      BY <2>1, <2>2, <2>3
  <1>14. ToSet(again) = ToSet(rows)
    BY <1>5, <1>11, <1>12 DEF ToSet
  <1> QED
    BY <1>13, <1>14

\* The same findings saved a second time change nothing, if no host has two
\* rows and every finding belongs to the scanned domain (subdomain.Merge, and
\* a scan repeated under a new id).
THEOREM RescansSettle == Spec => []RescanSettles
  <1>1. TypeOK => RescanSettles
    <2> SUFFICES ASSUME TypeOK, NEW domain \in Valid, NEW fresh \in Findings,
                        Once(subs),
                        \A k \in DOMAIN fresh : belongsToDomain(fresh[k].sub, domain),
                        NEW rows \in Merge(subs, fresh, domain),
                        NEW again \in Merge(rows, fresh, domain)
                 PROVE  Len(again) = Len(rows) /\ ToSet(again) = ToSet(rows)
      BY DEF RescanSettles
    <2>1. subs \in Seq(Row) /\ fresh \in Seq(Finding) /\ domain \in Spelling
      BY FindingsAreSequences, NamesAssumption DEF TypeOK, Valid
    <2> QED
      BY <2>1, MergedAgain
  <1> QED
    BY <1>1, TypeCorrect, PTL

-----------------------------------------------------------------------------
(* Rows of other root domains.                                             *)

\* A sequence that another one has at its start.
LEMMA PrefixByElements ==
  ASSUME NEW S, NEW s \in Seq(S), NEW t \in Seq(S), Len(s) <= Len(t),
         \A k \in 1 .. Len(s) : s[k] = t[k]
  PROVE  IsPrefix(s, t)
  <1> DEFINE n == Len(s)
             u == SubSeq(s, 1, n)
             v == SubSeq(t, 1, n)
  <1>1. n \in Nat /\ Len(t) \in Nat /\ n <= Len(t)
    BY LenProperties
  <1>2. /\ \A k \in 1 .. n : k \in 1 .. Len(t)
        /\ \A k \in 1 .. n : 1 + k - 1 = k
        /\ n - 1 + 1 = n
    BY <1>1
  <1>3. u = [k \in 1 .. n |-> s[k]]
    BY <1>1, <1>2
  <1>4. v = [k \in 1 .. n |-> t[k]]
    BY <1>1, <1>2
  <1>5. u = v
    BY <1>3, <1>4
  <1> QED
    BY <1>1, <1>5 DEF IsPrefix

\* The indices outside a domain.
Others(rows, domain) == DOMAIN rows \ Inside(rows, domain)

\* A row outside is as far up among those outside after a merge as it was
\* before.
LEMMA OutsideRanks ==
  ASSUME NEW existing \in Seq(Row), NEW fresh \in Seq(Finding),
         NEW domain \in Spelling, NEW rows \in Seq(Row), NEW old, NEW new,
         Layout(existing, fresh, domain, rows, old, new),
         NEW i \in Others(existing, domain)
  PROVE  /\ old[i] \in Others(rows, domain)
         /\ rows[old[i]] = existing[i]
         /\ \A j \in Others(existing, domain) : old[i] = old[j] => i = j
         /\ Rank(Others(rows, domain), old[i]) = Rank(Others(existing, domain), i)
  <1> DEFINE I == Others(existing, domain)
             J == Others(rows, domain)
  <1> DEFINE kept == DOMAIN existing \ Prev(existing, domain)
             nk == Cardinality(kept)
             A == {j \in I : j <= i}
             B == {q \in J : q <= old[i]}
             f == [j \in A |-> old[j]]
  <1>1. /\ Len(existing) \in Nat /\ DOMAIN existing = 1 .. Len(existing)
        /\ Len(rows) \in Nat /\ DOMAIN rows = 1 .. Len(rows)
        /\ kept \in SUBSET (1 .. Len(existing))
        /\ I \in SUBSET kept
    BY IndexTypes, LenProperties DEF Others
  <1>2. /\ \A j \in kept : old[j] \in DOMAIN rows /\ rows[old[j]] = existing[j]
        /\ \A j \in kept : old[j] = Rank(kept, j)
        /\ \A j, k \in kept : old[j] = old[k] => j = k
        /\ \A q \in DOMAIN rows : q <= nk => \E j \in kept : q = old[j]
    <2>1. kept \subseteq Stays(existing, fresh, domain)
      BY DEF Stays, FoundAgain
    <2> QED
      BY <2>1 DEF Layout
  <1>3. /\ \A j \in kept : Rank(kept, j) \in 1 .. nk
        /\ \A j, k \in kept : j < k => Rank(kept, j) < Rank(kept, k)
        /\ nk \in Nat
    BY <1>1, Ranks, IndexSets
  <1>4. \A j \in kept : j \in I <=> old[j] \in J
    BY <1>1, <1>2 DEF Others, Inside, Named
  <1> HIDE DEF kept, nk
  <1>5. \A j, k \in kept : j < k => old[j] < old[k]
    BY <1>2, <1>3
  <1>6. \A j \in kept : j \in Int /\ old[j] \in Int
    BY <1>1, <1>2
  <1>7. \A j \in kept : old[j] <= old[i] <=> j <= i
    <2> SUFFICES ASSUME NEW j \in kept PROVE old[j] <= old[i] <=> j <= i
      OBVIOUS
    <2>1. i \in kept /\ i \in Int /\ j \in Int /\ old[i] \in Int /\ old[j] \in Int
      BY <1>1, <1>6
    <2>2. (j < i => old[j] < old[i]) /\ (i < j => old[i] < old[j])
      BY <1>5, <2>1
    <2>3. i = j => old[j] <= old[i]
      BY <2>1
    <2> QED
      BY <2>1, <2>2, <2>3
  <1>8. \A j \in A : old[j] \in B
    BY <1>1, <1>4, <1>7
  <1>9. \A q \in B : \E j \in A : old[j] = q
    <2> SUFFICES ASSUME NEW q \in J, q <= old[i] PROVE \E j \in A : old[j] = q
      OBVIOUS
    <2>1. q \in DOMAIN rows /\ q \in Int
      BY <1>1 DEF Others
    <2>2. old[i] <= nk /\ old[i] \in Int
      <3>1. i \in kept
        BY <1>1
      <3>2. old[i] \in 1 .. nk
        BY <1>2, <1>3, <3>1
      <3> QED
        BY <1>3, <3>2
    <2>3. q <= nk
      BY <1>3, <2>1, <2>2
    <2>4. PICK j \in kept : q = old[j]
      BY <1>2, <2>1, <2>3
    <2> QED
      BY <1>4, <1>7, <2>4
  <1>10. Cardinality(B) = Cardinality(A)
    <2>1. A \in SUBSET kept /\ A \in SUBSET (1 .. Len(existing))
      BY <1>1
    <2> HIDE DEF A, B
    <2>2. f \in [A -> B] /\ \A j \in A : f[j] = old[j]
      BY <1>8
    <2> HIDE DEF f
    <2>3. IsFiniteSet(A)
      BY <1>1, <2>1, IndexSets
    <2>4. \A j, k \in A : f[j] = f[k] => j = k
      BY <1>2, <2>1, <2>2
    <2>5. \A q \in B : \E j \in A : f[j] = q
      BY <1>9, <2>2
    <2> QED
      BY <2>2, <2>3, <2>4, <2>5, SameSize
  <1>11. i \in kept /\ old[i] \in J
    BY <1>1, <1>4
  <1> QED
    BY <1>1, <1>2, <1>10, <1>11 DEF Rank

\* Merge and the rows of other domains.
LEMMA OutsideIsPrefix ==
  ASSUME NEW existing \in Seq(Row), NEW fresh \in Seq(Finding),
         NEW domain \in Spelling, NEW rows \in Merge(existing, fresh, domain)
  PROVE  IsPrefix(Outside(existing, domain), Outside(rows, domain))
  <1> DEFINE I == Others(existing, domain)
             J == Others(rows, domain)
             before == At(existing, I)
             after == At(rows, J)
  <1>1. rows \in Seq(Row)
    BY MergeLayout
  <1>2. PICK old, new : Layout(existing, fresh, domain, rows, old, new)
    BY MergeLayout
  <1>3. /\ I \in SUBSET DOMAIN existing
        /\ J \in SUBSET DOMAIN rows
        /\ Outside(existing, domain) = before
        /\ Outside(rows, domain) = after
    BY DEF Outside, Others
  <1>4. \A i \in I : /\ old[i] \in J
                     /\ rows[old[i]] = existing[i]
                     /\ \A j \in I : old[i] = old[j] => i = j
                     /\ Rank(J, old[i]) = Rank(I, i)
    BY <1>1, <1>2, OutsideRanks
  <1> HIDE DEF I, J
  <1>5. /\ before \in Seq(Row)
        /\ Len(before) = Cardinality(I)
        /\ Cardinality(I) \in Nat
        /\ \A k \in 1 .. Cardinality(I) :
              Nth(I, k) \in I /\ before[k] = existing[Nth(I, k)]
    BY <1>3, AtProperties
  <1>6. /\ after \in Seq(Row)
        /\ Len(after) = Cardinality(J)
        /\ Cardinality(J) \in Nat
        /\ \A q \in J : after[Rank(J, q)] = rows[q]
    BY <1>1, <1>3, AtProperties
  <1>7. Cardinality(I) <= Cardinality(J)
    <2> DEFINE f == [i \in I |-> old[i]]
    <2>1. f \in [I -> J] /\ \A i, j \in I : f[i] = f[j] => i = j
      BY <1>4
    <2>2. IsFiniteSet(J)
      <3>1. Len(rows) \in Nat /\ J \in SUBSET (1 .. Len(rows))
        BY <1>1, <1>3, LenProperties
      <3> QED
        BY <3>1, IndexSets
    <2> HIDE DEF f
    <2> QED
      BY <2>1, <2>2, NoMoreThan
  <1>8. ASSUME NEW k \in 1 .. Cardinality(I)
        PROVE  before[k] = after[k]
    <2>1. Rank(I, Nth(I, k)) = k
      <3>1. Len(existing) \in Nat /\ I \in SUBSET (1 .. Len(existing))
        BY <1>3, LenProperties
      <3> QED
        BY <3>1, NthUndoesRank
    <2>2. Nth(I, k) \in I /\ before[k] = existing[Nth(I, k)]
      BY <1>5
    <2> QED
      BY <1>4, <1>6, <2>1, <2>2
  <1> HIDE DEF before, after
  <1>9. IsPrefix(before, after)
    BY <1>5, <1>6, <1>7, <1>8, PrefixByElements
  <1> QED
    BY <1>3, <1>9

\* Merge leaves the rows of other root domains as they are and in their
\* order, in front of any it adds there (subdomain.Merge).
THEOREM OtherDomainsAreKept == Spec => []OtherDomainsStay
  <1>1. TypeOK => OtherDomainsStay
    <2> SUFFICES ASSUME TypeOK, NEW domain \in Valid, NEW fresh \in Findings,
                        NEW rows \in Merge(subs, fresh, domain)
                 PROVE  IsPrefix(Outside(subs, domain), Outside(rows, domain))
      BY DEF OtherDomainsStay
    <2>1. subs \in Seq(Row) /\ fresh \in Seq(Finding) /\ domain \in Spelling
      BY FindingsAreSequences, NamesAssumption DEF TypeOK, Valid
    <2> QED
      BY <2>1, OutsideIsPrefix
  <1> QED
    BY <1>1, TypeCorrect, PTL

-----------------------------------------------------------------------------
(* The merges as they are on sets.                                         *)

\* The hosts of a domain, as SetMerge is given them, and a row as an entry.
HostsOf(domain) ==
    {n.labels : n \in {m \in Names \cup Reported \cup Domains :
                          belongsToDomain(m, domain)}}
EntryOf(row) ==
    [host |-> row.sub.labels, by |-> row.ip, admin |-> row.mark # NoMark]

\* A known host is one of the domain's if and only if a name of it belongs to
\* the domain.
LEMMA HostsByName ==
  ASSUME NEW name \in Spelling, NEW domain \in Spelling
  PROVE  /\ name.labels \in HostsOf(domain) => belongsToDomain(name, domain)
         /\ name = Nameless => name.labels \notin HostsOf(domain)
         /\ name.labels \in KnownLabels /\ belongsToDomain(name, domain) =>
               name.labels \in HostsOf(domain)
  <1>1. ASSUME name.labels \in HostsOf(domain)
        PROVE  belongsToDomain(name, domain) /\ name.labels # <<>>
    <2>1. PICK n \in Names \cup Reported \cup Domains :
             belongsToDomain(n, domain) /\ n.labels = name.labels
      BY <1>1 DEF HostsOf
    <2>2. n \in Spelling
      BY NamesAssumption
    <2> QED
      BY <2>1, <2>2, DomainsByLabels
  <1>2. name = Nameless => name.labels = <<>>
    BY DEF Nameless
  <1>3. ASSUME name.labels \in KnownLabels, belongsToDomain(name, domain)
        PROVE  name.labels \in HostsOf(domain)
    <2>1. PICK n \in Names \cup Reported \cup Domains : n.labels = name.labels
      BY <1>3 DEF KnownLabels
    <2>2. n \in Spelling
      BY NamesAssumption
    <2>3. belongsToDomain(n, domain)
      BY <1>3, <2>1, <2>2, DomainsByLabels
    <2> QED
      BY <2>1, <2>3 DEF HostsOf
  <1> QED
    BY <1>1, <1>2, <1>3

\* A subdomain scan.
LEMMA SubdomainsAsSets ==
  ASSUME NEW existing \in Seq(Row), NEW fresh \in Seq(Finding),
         NEW domain \in Domains, NEW rows \in Merge(existing, fresh, domain),
         NEW address, \A k \in DOMAIN fresh : fresh[k].ip = address,
         Once(existing),
         \A i \in Named(existing) : existing[i].sub.labels \in KnownLabels
  PROVE  Entries(rows) =
             AsSets!MergeSubdomains(Entries(existing), Hosts(fresh), domain, address)
  <1> DEFINE H == Hosts(fresh)
             D == HostsOf(domain)
             E == Entries(existing)
             Keeps(h) == \E e \in E : e.host \in D /\ e.host = h /\ e.admin
             Left == {e \in E : e.host \notin D \/ e.host \notin H}
             Found == {[host |-> h, by |-> address, admin |-> Keeps(h)] : h \in H}
  <1>0. domain \in Spelling
    BY NamesAssumption
  <1>1. rows \in Seq(Row)
    BY <1>0, MergeLayout
  <1>2. PICK old, new : Layout(existing, fresh, domain, rows, old, new)
    BY <1>0, MergeLayout
  <1>3. AsSets!MergeSubdomains(E, H, domain, address) = Left \cup Found
    BY DEF AsSets!MergeSubdomains, HostsOf
  <1>4. /\ \A e : e \in E <=> \E i \in DOMAIN existing : e = EntryOf(existing[i])
        /\ \A e : e \in Entries(rows) <=> \E p \in DOMAIN rows : e = EntryOf(rows[p])
        /\ \A row : /\ EntryOf(row).host = row.sub.labels
                    /\ EntryOf(row).admin <=> row.mark # NoMark
    BY DEF Entries, EntryOf
  <1>5. \A i \in DOMAIN existing : i \in Prev(existing, domain) <=> existing[i].sub.labels \in D
    <2> SUFFICES ASSUME NEW i \in DOMAIN existing
                 PROVE  i \in Prev(existing, domain) <=> existing[i].sub.labels \in D
      OBVIOUS
    <2>1. existing[i].sub \in Spelling
      BY RowTypes
    <2>2. ASSUME i \in Prev(existing, domain) PROVE existing[i].sub.labels \in D
      <3>1. i \in Named(existing) /\ belongsToDomain(existing[i].sub, domain)
        BY <1>0, <2>2, IndexTypes DEF Inside
      <3> QED
        BY <1>0, <2>1, <3>1, HostsByName
    <2>3. ASSUME existing[i].sub.labels \in D PROVE i \in Prev(existing, domain)
      <3>1. belongsToDomain(existing[i].sub, domain) /\ existing[i].sub # Nameless
        BY <1>0, <2>1, <2>3, HostsByName
      <3>2. i \in Inside(existing, domain) /\ i \in Named(existing)
        BY <3>1 DEF Inside, Named
      <3>3. PICK j \in Prev(existing, domain) :
               existing[j].sub.labels = existing[i].sub.labels
        BY <1>0, <3>2, FoundAgainProperties
      <3>4. j \in Named(existing)
        BY IndexTypes
      <3>5. j = i
        BY <3>2, <3>3, <3>4, OnceIsUnique
      <3> QED
        BY <3>3, <3>5
    <2> QED
      BY <2>2, <2>3
  <1>6. \A i \in DOMAIN existing : i \in Stays(existing, fresh, domain) <=>
            existing[i].sub.labels \notin D \/ existing[i].sub.labels \notin H
    <2> SUFFICES ASSUME NEW i \in DOMAIN existing
                 PROVE  i \in FoundAgain(existing, fresh, domain) <=>
                            existing[i].sub.labels \in D /\ existing[i].sub.labels \in H
      BY DEF Stays
    <2>1. existing[i].sub.labels \in H <=>
              \E k \in News(fresh) : fresh[k].sub.labels = existing[i].sub.labels
      <3>1. News(fresh) \subseteq Named(fresh)
        BY IndexTypes
      <3>2. \A k \in Named(fresh) : \E l \in News(fresh) :
               fresh[l].sub.labels = fresh[k].sub.labels
        BY <1>0, FoundAgainProperties
      <3> QED
        BY <3>1, <3>2 DEF Hosts
    <2> QED
      BY <1>0, <1>5, <2>1, FoundAgainProperties
  <1>7. ASSUME NEW k \in News(fresh)
        PROVE  EntryOf(rows[new[k]]) =
                   [host |-> fresh[k].sub.labels, by |-> address,
                    admin |-> Keeps(fresh[k].sub.labels)]
    <2> DEFINE key == fresh[k].sub.labels
               entry == Entry(existing, fresh[k], domain)
    <2>1. fresh[k] \in Finding /\ k \in DOMAIN fresh
      <3>1. k \in DOMAIN fresh
        BY IndexTypes
      <3> QED
        BY <3>1, LenProperties, ElementOfSeq
    <2>2. /\ entry.sub.labels = key
          /\ entry.ip = address
          /\ \A i \in Prev(existing, domain) :
                existing[i].sub.labels = key => entry.mark = existing[i].mark
          /\ (\A i \in Prev(existing, domain) : existing[i].sub.labels # key) =>
                entry.mark = NoMark
      BY <2>1, EntryProperties
    <2>3. rows[new[k]] = entry
      BY <1>2 DEF Layout
    <2>4. \A i \in Prev(existing, domain) : i \in DOMAIN existing
      BY IndexTypes
    <2> HIDE DEF entry, D, E
    <2>5. ASSUME Keeps(key) PROVE entry.mark # NoMark
      <3>1. PICK e \in E : e.host \in D /\ e.host = key /\ e.admin
        BY <2>5
      <3>2. PICK i \in DOMAIN existing : e = EntryOf(existing[i])
        BY <1>4, <3>1
      <3>3. /\ existing[i].sub.labels \in D
            /\ existing[i].sub.labels = key
            /\ existing[i].mark # NoMark
        BY <1>4, <3>1, <3>2
      <3> QED
        BY <1>5, <2>2, <3>3
    <2>6. ASSUME entry.mark # NoMark PROVE Keeps(key)
      <3>1. PICK i \in Prev(existing, domain) : existing[i].sub.labels = key
        BY <2>2, <2>6
      <3>2. i \in DOMAIN existing /\ existing[i].mark # NoMark
        BY <2>2, <2>4, <2>6, <3>1
      <3> DEFINE e == EntryOf(existing[i])
      <3>3. e \in E /\ e.host = key /\ e.admin /\ e.host \in D
        BY <1>4, <1>5, <3>1, <3>2
      <3> QED
        BY <3>3
    <2>7. (entry.mark # NoMark) = Keeps(key)
      BY <2>5, <2>6
    <2> HIDE DEF Keeps
    <2> QED
      BY <2>2, <2>3, <2>7 DEF EntryOf
  <1> HIDE DEF D, E, H, Keeps
  <1>8. ASSUME NEW x \in Entries(rows) PROVE x \in Left \cup Found
    <2>1. PICK p \in DOMAIN rows : x = EntryOf(rows[p])
      BY <1>4
    <2>2. CASE \E i \in Stays(existing, fresh, domain) : p = old[i]
      <3>1. PICK i \in Stays(existing, fresh, domain) : p = old[i]
        BY <2>2
      <3>2. i \in DOMAIN existing /\ x = EntryOf(existing[i])
        BY <1>2, <2>1, <3>1 DEF Layout, Stays
      <3> QED
        BY <1>4, <1>6, <3>2
    <2>3. CASE \E k \in News(fresh) : p = new[k]
      <3>1. PICK k \in News(fresh) : p = new[k]
        BY <2>3
      <3>2. fresh[k].sub.labels \in H
        BY IndexTypes DEF H, Hosts
      <3> QED
        BY <1>7, <2>1, <3>1, <3>2
    <2> QED
      BY <1>2, <2>2, <2>3 DEF Layout
  <1>9. ASSUME NEW x \in Left PROVE x \in Entries(rows)
    <2>1. PICK i \in DOMAIN existing : x = EntryOf(existing[i])
      BY <1>4
    <2>2. i \in Stays(existing, fresh, domain)
      BY <1>4, <1>6, <2>1
    <2>3. old[i] \in DOMAIN rows /\ rows[old[i]] = existing[i]
      BY <1>2, <2>2 DEF Layout
    <2> QED
      BY <1>4, <2>1, <2>3
  <1>10. ASSUME NEW x \in Found PROVE x \in Entries(rows)
    <2>1. PICK h \in H : x = [host |-> h, by |-> address, admin |-> Keeps(h)]
      OBVIOUS
    <2>2. PICK k \in News(fresh) : fresh[k].sub.labels = h
      <3>1. PICK l \in Named(fresh) : fresh[l].sub.labels = h
        BY DEF H, Hosts
      <3> QED
        BY <1>0, <3>1, FoundAgainProperties
    <2>3. new[k] \in DOMAIN rows /\ x = EntryOf(rows[new[k]])
      BY <1>2, <1>7, <2>1, <2>2 DEF Layout
    <2> QED
      BY <1>4, <2>3
  <1>11. Entries(rows) = Left \cup Found
    <2> HIDE DEF Left, Found
    <2> QED
      BY <1>8, <1>9, <1>10
  <1> QED
    BY <1>3, <1>11 DEF E, H

\* A port scan.
LEMMA PortsAsSets ==
  ASSUME NEW existing \in Seq(Spelling), NEW found \in Seq(Spelling),
         NEW domain \in Domains,
         \A i \in DOMAIN existing :
             existing[i] # Nameless => existing[i].labels \in KnownLabels
  PROVE  LET merged == MergeGroups(existing, found, domain)
             kept == Len(merged) - Len(found)
         IN  Groups(SubSeq(merged, 1, kept), "before") \cup Groups(found, "now") =
                 AsSets!MergePorts(Groups(existing, "before"),
                     {found[k].labels : k \in DOMAIN found}, domain, "now")
  <1> DEFINE I == {i \in DOMAIN existing : \/ existing[i] = Nameless
                                           \/ ~ belongsToDomain(existing[i], domain)}
             first == At(existing, I)
             merged == first \o found
             n == Cardinality(I)
             D == HostsOf(domain)
             Group(name) == [host |-> name.labels, by |-> "before", admin |-> FALSE]
             Left == {e \in Groups(existing, "before") : e.host \notin D}
             New == {[host |-> h, by |-> "now", admin |-> FALSE] :
                        h \in {found[k].labels : k \in DOMAIN found}}
  <1>1. MergeGroups(existing, found, domain) = merged
    BY DEF MergeGroups
  <1>2. AsSets!MergePorts(Groups(existing, "before"),
            {found[k].labels : k \in DOMAIN found}, domain, "now") = Left \cup New
    BY DEF AsSets!MergePorts, HostsOf
  <1>3. Groups(found, "now") = New
    BY DEF Groups
  <1>4. I \in SUBSET DOMAIN existing
    OBVIOUS
  <1>5. \A i \in DOMAIN existing : i \in I <=> existing[i].labels \notin D
    <2> SUFFICES ASSUME NEW i \in DOMAIN existing
                 PROVE  i \in I <=> existing[i].labels \notin D
      OBVIOUS
    <2>1. existing[i] \in Spelling /\ domain \in Spelling
      BY LenProperties, ElementOfSeq, NamesAssumption
    <2> QED
      BY <2>1, HostsByName
  <1> HIDE DEF I
  <1>6. /\ first \in Seq(Spelling)
        /\ Len(first) = n
        /\ n \in Nat
        /\ \A k \in 1 .. n : Nth(I, k) \in I /\ first[k] = existing[Nth(I, k)]
        /\ \A i \in I : Rank(I, i) \in 1 .. n /\ first[Rank(I, i)] = existing[i]
    BY <1>4, AtProperties
  <1> HIDE DEF first, n
  <1>7. /\ Len(found) \in Nat
        /\ merged \in Seq(Spelling)
        /\ Len(merged) = n + Len(found)
        /\ \A k \in 1 .. n : merged[k] = first[k]
    <2>1. Len(found) \in Nat
      BY LenProperties
    <2>2. /\ merged \in Seq(Spelling)
          /\ Len(merged) = Len(first) + Len(found)
          /\ \A k \in 1 .. Len(first) + Len(found) : merged[k] =
                IF k <= Len(first) THEN first[k] ELSE found[k - Len(first)]
      BY <1>6, ConcatProperties
    <2> HIDE DEF merged
    <2> QED
      BY <1>6, <2>1, <2>2
  <1> DEFINE kept == Len(merged) - Len(found)
             part == SubSeq(merged, 1, kept)
  <1> HIDE DEF merged
  <1>8. kept = n
    BY <1>6, <1>7
  <1>9. DOMAIN part = 1 .. n /\ \A k \in 1 .. n : part[k] = first[k]
    <2>1. \A k \in 1 .. n : 1 + k - 1 = k
      BY <1>6
    <2>2. SubSeq(merged, 1, n) = [k \in 1 .. n |-> merged[k]]
      BY <1>6, <2>1
    <2>3. part = [k \in 1 .. n |-> merged[k]]
      BY <1>8, <2>2
    <2> HIDE DEF part
    <2> QED
      BY <1>7, <2>3
  <1> HIDE DEF part, kept
  <1>10. Groups(part, "before") = {Group(part[k]) : k \in 1 .. n}
    BY <1>9 DEF Groups
  <1>11. Groups(existing, "before") = {Group(existing[i]) : i \in DOMAIN existing}
    BY DEF Groups
  <1>12. \A name : Group(name).host = name.labels
    OBVIOUS
  <1> HIDE DEF Group, D
  <1>13. Groups(part, "before") = Left
    <2>1. ASSUME NEW x \in Groups(part, "before") PROVE x \in Left
      <3>1. PICK k \in 1 .. n : x = Group(part[k])
        BY <1>10
      <3>2. Nth(I, k) \in I /\ x = Group(existing[Nth(I, k)])
        BY <1>6, <1>9, <3>1
      <3> QED
        BY <1>4, <1>5, <1>11, <1>12, <3>2
    <2>2. ASSUME NEW x \in Left PROVE x \in Groups(part, "before")
      <3>1. PICK i \in DOMAIN existing : x = Group(existing[i]) /\ x.host \notin D
        BY <1>11
      <3>2. i \in I
        BY <1>5, <1>12, <3>1
      <3>3. Rank(I, i) \in 1 .. n /\ x = Group(part[Rank(I, i)])
        BY <1>6, <1>9, <3>1, <3>2
      <3> QED
        BY <1>10, <3>3
    <2> QED
      BY <2>1, <2>2
  <1> HIDE DEF Left, New
  <1> QED
    BY <1>1, <1>2, <1>3, <1>13 DEF part, kept

\* On an array where no host has two rows both merges are those of SetMerge
\* (subdomain.Merge, portscan.Merge), the model the sink uses.
THEOREM MergesRefineSetMerge == Spec => []RefinesSetMerge
  <1>1. AssetsInv => RefinesSetMerge
    <2> SUFFICES ASSUME AssetsInv, NEW domain \in Valid
                 PROVE  /\ \A fresh \in Findings, address \in Addresses :
                             (/\ Once(subs)
                              /\ \A k \in DOMAIN fresh : fresh[k].ip = address) =>
                               \A rows \in Merge(subs, fresh, domain) :
                                 Entries(rows) = AsSets!MergeSubdomains(
                                     Entries(subs), Hosts(fresh), domain, address)
                        /\ LET found == BuildTargets(domain, subs)
                               merged == MergeGroups(groups, found, domain)
                               kept == Len(merged) - Len(found)
                           IN  Groups(SubSeq(merged, 1, kept), "before")
                                   \cup Groups(found, "now") =
                                   AsSets!MergePorts(Groups(groups, "before"),
                                       {found[k].labels : k \in DOMAIN found}, domain, "now")
      BY DEF RefinesSetMerge
    <2>1. /\ subs \in Seq(Row) /\ groups \in Seq(Spelling)
          /\ domain \in Domains /\ domain \in Spelling /\ IsValidHostname(domain)
          /\ \A i \in Named(subs) : subs[i].sub.labels \in KnownLabels
          /\ \A i \in DOMAIN groups :
                groups[i] # Nameless => groups[i].labels \in KnownLabels
      BY NamesAssumption DEF AssetsInv, TypeOK, HostsAreKnown, Valid
    <2>2. ASSUME NEW fresh \in Findings, NEW address \in Addresses,
                 Once(subs), \A k \in DOMAIN fresh : fresh[k].ip = address,
                 NEW rows \in Merge(subs, fresh, domain)
          PROVE  Entries(rows) = AsSets!MergeSubdomains(
                     Entries(subs), Hosts(fresh), domain, address)
      BY <2>1, <2>2, FindingsAreSequences, SubdomainsAsSets
    <2> DEFINE found == BuildTargets(domain, subs)
    <2>3. found \in Seq(Spelling)
      BY <2>1, TargetsLayout
    <2> HIDE DEF found
    <2>4. LET merged == MergeGroups(groups, found, domain)
              kept == Len(merged) - Len(found)
          IN  Groups(SubSeq(merged, 1, kept), "before") \cup Groups(found, "now") =
                  AsSets!MergePorts(Groups(groups, "before"),
                      {found[k].labels : k \in DOMAIN found}, domain, "now")
      BY <2>1, <2>3, PortsAsSets
    <2> QED
      BY <2>2, <2>4 DEF found
  <1> QED
    BY <1>1, InvariantHolds, PTL

=============================================================================
