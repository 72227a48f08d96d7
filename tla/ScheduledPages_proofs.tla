------------------------- MODULE ScheduledPages_proofs -------------------------
(***************************************************************************)
(* Proofs about ScheduledPages, for any collection, page size and number   *)
(* of walks: what All yields matches, comes once and in order, and a walk  *)
(* that ends by itself passes over no more than left while it ran.         *)
(***************************************************************************)
EXTENDS ScheduledPages, Induction, FiniteSetTheorems, SequenceTheorems

-------------------------------------------------------------------------------
\* The order of the listing.

\* Every email has its own position.
LEMMA Positions ==
    ASSUME NEW e \in Email
    PROVE  Position(e) \in 1..Len(Collection) /\ Collection[Position(e)] = e
<1>1. \E i \in 1..Len(Collection) : Collection[i] = e
  BY DEF Email
<1> QED
  BY <1>1 DEF Position

LEMMA Len0 == Len(Collection) \in Nat
  BY PagesAssumption

LEMMA OwnPosition ==
    ASSUME NEW e \in Email, NEW f \in Email, e # f
    PROVE  Position(e) < Position(f) \/ Position(f) < Position(e)
  BY Positions, Len0

\* There are no more emails than positions.
LEMMA FiniteEmails ==
    ASSUME NEW S \in SUBSET Email
    PROVE  IsFiniteSet(S) /\ Cardinality(S) \in Nat /\ Cardinality(S) <= Len(Collection)
<1> DEFINE I == 1..Len(Collection)
           f == [i \in I |-> Collection[i]]
<1>1. IsFiniteSet(I) /\ Cardinality(I) = Len(Collection)
  BY Len0, FS_Interval
<1>2. f \in Surjection(I, Email)
  BY DEF Surjection, Email
<1>3. IsFiniteSet(Email) /\ Cardinality(Email) <= Len(Collection)
  BY <1>1, <1>2, FS_Surjection
<1>4. IsFiniteSet(S) /\ Cardinality(S) <= Cardinality(Email)
  BY <1>3, FS_Subset
<1> QED
  BY <1>3, <1>4, Len0, FS_CardinalityType

\* What is ahead of an email is less than there is, and grows with the position and with the set.
LEMMA AheadIn ==
    ASSUME NEW S \in SUBSET Email, NEW e
    PROVE  Ahead(S, e) \in SUBSET Email /\ IsFiniteSet(Ahead(S, e)) /\ Cardinality(Ahead(S, e)) \in Nat
  BY FiniteEmails DEF Ahead

LEMMA AheadLess ==
    ASSUME NEW S \in SUBSET Email, NEW e \in S
    PROVE  Cardinality(Ahead(S, e)) < Cardinality(S)
<1>1. Ahead(S, e) \cup {e} \in SUBSET S /\ e \notin Ahead(S, e)
  BY Positions, Len0 DEF Ahead
<1>2. Cardinality(Ahead(S, e) \cup {e}) = Cardinality(Ahead(S, e)) + 1
  BY <1>1, AheadIn, FS_AddElement
<1>3. Cardinality(Ahead(S, e) \cup {e}) <= Cardinality(S)
  BY <1>1, FiniteEmails, FS_Subset
<1> QED
  BY <1>2, <1>3, AheadIn, FiniteEmails

LEMMA AheadGrows ==
    ASSUME NEW S \in SUBSET Email, NEW T \in SUBSET S, NEW e
    PROVE  Cardinality(Ahead(T, e)) <= Cardinality(Ahead(S, e))
<1>1. Ahead(T, e) \in SUBSET Ahead(S, e)
  BY DEF Ahead
<1> QED
  BY <1>1, AheadIn, FS_Subset

LEMMA AheadOrder ==
    ASSUME NEW S \in SUBSET Email, NEW e \in S, NEW f \in S, Position(e) < Position(f)
    PROVE  Cardinality(Ahead(S, e)) < Cardinality(Ahead(S, f))
<1>1. Ahead(S, e) \cup {e} \in SUBSET Ahead(S, f) /\ e \notin Ahead(S, e)
  BY Positions, Len0 DEF Ahead
<1>2. Cardinality(Ahead(S, e) \cup {e}) = Cardinality(Ahead(S, e)) + 1
  BY <1>1, AheadIn, FS_AddElement
<1>3. Cardinality(Ahead(S, e) \cup {e}) <= Cardinality(Ahead(S, f))
  BY <1>1, AheadIn, FS_Subset
<1> QED
  BY <1>2, <1>3, AheadIn

LEMMA RankOrder ==
    ASSUME NEW S \in SUBSET Email, NEW e \in S, NEW f \in S
    PROVE  /\ Cardinality(Ahead(S, e)) = Cardinality(Ahead(S, f)) => e = f
           /\ Cardinality(Ahead(S, e)) < Cardinality(Ahead(S, f)) => Position(e) < Position(f)
  BY AheadOrder, AheadIn, OwnPosition


\* For every number below the size of a set of emails, one of them has that many ahead of it.
LEMMA FirstOf ==
    ASSUME NEW S \in SUBSET Email, S # {}
    PROVE  \E e \in S : \A f \in S : f = e \/ Position(e) < Position(f)
<1> DEFINE P == {Position(e) : e \in S}
<1>1. P \in SUBSET Nat /\ P # {}
  BY Positions, Len0
<1>2. PICK n \in P : \A m \in P : n <= m
  BY <1>1, Least
<1>3. PICK e \in S : Position(e) = n
  BY <1>2
<1>4. ASSUME NEW f \in S, f # e PROVE Position(e) < Position(f)
  <2>1. Position(e) <= Position(f) /\ Position(e) \in Nat /\ Position(f) \in Nat
    BY <1>1, <1>2, <1>3
  <2>2. Position(e) < Position(f) \/ Position(f) < Position(e)
    BY <1>4, OwnPosition
  <2> QED
    BY <2>1, <2>2
<1> QED
  BY <1>4

LEMMA RankAttained ==
    ASSUME NEW S \in SUBSET Email, NEW k \in Nat, k < Cardinality(S)
    PROVE  \E e \in S : Cardinality(Ahead(S, e)) = k
<1> DEFINE K == {n \in Nat : n < Cardinality(S) => \E e \in S : Cardinality(Ahead(S, e)) = n}
<1>1. Cardinality(S) \in Nat /\ IsFiniteSet(S)
  BY FiniteEmails
<1>2. 0 \in K
  <2> SUFFICES ASSUME 0 < Cardinality(S) PROVE \E e \in S : Cardinality(Ahead(S, e)) = 0
    OBVIOUS
  <2>1. S # {}
    BY FS_EmptySet
  <2>2. PICK e \in S : \A f \in S : f = e \/ Position(e) < Position(f)
    BY <2>1, FirstOf
  <2>3. Ahead(S, e) = {}
    BY <2>2, Positions, Len0 DEF Ahead
  <2> QED
    BY <2>3, FS_EmptySet
<1>3. ASSUME NEW n \in K, n + 1 < Cardinality(S)
      PROVE  \E e \in S : Cardinality(Ahead(S, e)) = n + 1
  <2>1. PICK e \in S : Cardinality(Ahead(S, e)) = n
    BY <1>1, <1>3
  <2> DEFINE A == Ahead(S, e) \cup {e}
             T == S \ A
  <2>2. A \in SUBSET S /\ e \notin Ahead(S, e)
    BY Positions, Len0 DEF Ahead
  <2>3. Cardinality(A) = n + 1
    BY <2>1, <2>2, AheadIn, FS_AddElement
  <2>4. T # {}
    <3>1. T = {} => A = S
      BY <2>2
    <3>2. Cardinality(A) # Cardinality(S)
      BY <1>1, <1>3, <2>3
    <3> QED
      BY <3>1, <3>2
  <2>5. PICK f \in T : \A g \in T : g = f \/ Position(f) < Position(g)
    <3>1. T \in SUBSET Email
      OBVIOUS
    <3> QED
      BY <2>4, <3>1, FirstOf
  <2>6. f \in S /\ Position(e) < Position(f)
    BY OwnPosition DEF Ahead
  <2>7. Ahead(S, f) = A
    <3>1. ASSUME NEW g \in A PROVE g \in Ahead(S, f)
      BY <2>2, <2>6, Positions, Len0 DEF Ahead
    <3>2. ASSUME NEW g \in Ahead(S, f) PROVE g \in A
      BY <2>5, <2>6, Positions, Len0 DEF Ahead
    <3> QED
      BY <3>1, <3>2
  <2> QED
    BY <2>3, <2>6, <2>7
<1>4. Nat \subseteq K
  <2>1. \A n \in Nat : n \in K => n + 1 \in K
    BY <1>3
  <2> HIDE DEF K
  <2> QED
    BY <1>2, <2>1, Induct
<1> QED
  BY <1>4

-------------------------------------------------------------------------------
\* What the listing and its pages are.
Rising(s) == \A i, j \in 1..Len(s) : i < j => Position(s[i]) < Position(s[j])

LEMMA InOrderIs ==
    ASSUME NEW S \in SUBSET Email
    PROVE  /\ InOrder(S) \in Seq(S) /\ Len(InOrder(S)) = Cardinality(S)
           /\ \A i \in 1..Cardinality(S) :
                  InOrder(S)[i] \in S /\ Cardinality(Ahead(S, InOrder(S)[i])) = i - 1
           /\ Rising(InOrder(S))
<1> DEFINE l == InOrder(S)
<1>1. Cardinality(S) \in Nat
  BY FiniteEmails
<1>2. ASSUME NEW i \in 1..Cardinality(S)
      PROVE  l[i] \in S /\ Cardinality(Ahead(S, l[i])) = i - 1
  <2>1. \E e \in S : Cardinality(Ahead(S, e)) = i - 1
    BY <1>1, RankAttained
  <2> QED
    BY <2>1 DEF InOrder
<1>3. l \in Seq(S) /\ Len(l) = Cardinality(S)
  <2>1. l \in [1..Cardinality(S) -> S]
    BY <1>2 DEF InOrder
  <2> HIDE DEF l
  <2> QED
    BY <1>1, <2>1
<1>4. Rising(l)
  <2> SUFFICES ASSUME NEW i \in 1..Len(l), NEW j \in 1..Len(l), i < j
               PROVE  Position(l[i]) < Position(l[j])
    BY DEF Rising
  <2> HIDE DEF l
  <2> QED
    BY <1>1, <1>2, <1>3, RankOrder
<1> QED
  BY <1>2, <1>3, <1>4


\* A rising sequence has every email once.
LEMMA RisingOnce ==
    ASSUME NEW s \in Seq(Email), Rising(s)
    PROVE  /\ IsInjective(s) /\ ToSet(s) \in SUBSET Email
           /\ IsFiniteSet(ToSet(s)) /\ Cardinality(ToSet(s)) = Len(s) /\ Len(s) \in Nat
<1>1. \A i \in 1..Len(s) : s[i] \in Email
  OBVIOUS
<1>2. DOMAIN s = 1..Len(s) /\ Len(s) \in Nat
  OBVIOUS
<1>3. IsInjective(s)
  <2> SUFFICES ASSUME NEW i \in 1..Len(s), NEW j \in 1..Len(s), s[i] = s[j], i < j PROVE FALSE
    BY <1>2 DEF IsInjective
  <2>1. Position(s[i]) < Position(s[j]) /\ Position(s[i]) \in Nat
    BY <1>1, Positions, Len0 DEF Rising
  <2> QED
    BY <2>1
<1>4. s \in Bijection(1..Len(s), ToSet(s))
  <2>1. s \in [1..Len(s) -> ToSet(s)]
    BY <1>2 DEF ToSet
  <2>2. \A e \in ToSet(s) : \E i \in 1..Len(s) : s[i] = e
    BY <1>2 DEF ToSet
  <2> QED
    BY <1>3, <2>1, <2>2 DEF Bijection, Injection, Surjection
<1>5. IsFiniteSet(ToSet(s)) /\ Cardinality(ToSet(s)) = Len(s)
  <2>1. IsFiniteSet(1..Len(s)) /\ Cardinality(1..Len(s)) = Len(s)
    BY <1>2, FS_Interval
  <2>2. ExistsBijection(1..Len(s), ToSet(s))
    BY <1>4 DEF ExistsBijection
  <2> QED
    BY <2>1, <2>2, FS_Bijection
<1>6. ToSet(s) \in SUBSET Email
  BY <1>1, <1>2 DEF ToSet
<1> QED
  BY <1>2, <1>3, <1>5, <1>6

\* A rising sequence that has as many emails as there are is the listing.
LEMMA RisingIsInOrder ==
    ASSUME NEW S \in SUBSET Email, NEW s \in Seq(S), Rising(s), Len(s) >= Cardinality(S)
    PROVE  s = InOrder(S)
<1>1. s \in Seq(Email) /\ Len(s) \in Nat /\ ToSet(s) \in SUBSET S /\ DOMAIN s = 1..Len(s)
  BY DEF ToSet
<1>2. IsFiniteSet(S) /\ Cardinality(S) \in Nat
  BY FiniteEmails
<1>3. Cardinality(ToSet(s)) = Len(s)
  BY <1>1, RisingOnce
<1>4. ToSet(s) = S /\ Len(s) = Cardinality(S)
  BY <1>1, <1>2, <1>3, FS_Subset
<1>5. ASSUME NEW i \in 1..Len(s)
      PROVE  s[i] \in S /\ Cardinality(Ahead(S, s[i])) = i - 1
  <2> DEFINE t == SubSeq(s, 1, i - 1)
  <2>1. t \in Seq(Email) /\ Len(t) = i - 1 /\ \A j \in 1..(i - 1) : t[j] = s[j]
    <3>1. \A j \in 1..(i - 1) : s[j] \in Email
      BY <1>1
    <3> QED
      BY <1>1, <3>1
  <2>2. Rising(t)
    <3> HIDE DEF t
    <3> QED
      BY <1>1, <2>1 DEF Rising
  <2>3. Ahead(S, s[i]) = ToSet(t)
    <3> HIDE DEF t
    <3>1. ASSUME NEW f \in Ahead(S, s[i]) PROVE f \in ToSet(t)
      <4>1. PICK j \in 1..Len(s) : s[j] = f
        BY <1>1, <1>4 DEF Ahead, ToSet
      <4>2. Position(s[j]) < Position(s[i])
        BY <4>1 DEF Ahead
      <4>3. \A k \in 1..Len(s) : Position(s[k]) \in Nat
        BY <1>1, Positions, Len0
      <4>4. j < i
        BY <1>1, <4>2, <4>3 DEF Rising
      <4>5. DOMAIN t = 1..(i - 1)
        BY <2>1
      <4> QED
        BY <1>1, <2>1, <4>1, <4>4, <4>5 DEF ToSet
    <3>2. ASSUME NEW f \in ToSet(t) PROVE f \in Ahead(S, s[i])
      <4>1. PICK j \in 1..(i - 1) : t[j] = f
        BY <2>1 DEF ToSet
      <4> QED
        BY <1>1, <2>1, <4>1 DEF Ahead, Rising
    <3> QED
      BY <3>1, <3>2
  <2>4. Cardinality(ToSet(t)) = i - 1
    <3> HIDE DEF t
    <3> QED
      BY <2>1, <2>2, RisingOnce
  <2> QED
    BY <2>3, <2>4
<1>6. ASSUME NEW i \in 1..Len(s) PROVE InOrder(S)[i] = s[i]
  BY <1>4, <1>5, InOrderIs, RankOrder
<1> DEFINE l == InOrder(S)
<1>7. l \in Seq(S) /\ Len(l) = Len(s)
  BY <1>4, InOrderIs
<1> HIDE DEF l
<1> QED
  BY <1>6, <1>7 DEF l

\* What lies between two places of a sequence.
LEMMA Slice ==
    ASSUME NEW S, NEW l \in Seq(S), NEW from \in Nat, NEW to \in Nat, to <= Len(l)
    PROVE  LET page == SubSeq(l, from + 1, to) IN
           /\ page \in Seq(S) /\ Len(page) \in Nat
           /\ Len(page) = IF from < to THEN to - from ELSE 0
           /\ \A i \in 1..Len(page) : /\ page[i] = l[from + i]
                                      /\ from + i \in 1..Len(l) /\ from + i <= to
<1> DEFINE page == SubSeq(l, from + 1, to)
<1>1. \A i \in (from + 1)..to : l[i] \in S
  OBVIOUS
<1>2. /\ page \in Seq(S) /\ Len(page) = IF from + 1 <= to THEN to - (from + 1) + 1 ELSE 0
      /\ \A i \in 1..(to - (from + 1) + 1) : page[i] = l[from + 1 + i - 1]
  BY <1>1, SubSeqProperties
<1> HIDE DEF page
<1>3. Len(page) = IF from < to THEN to - from ELSE 0
  BY <1>2
<1>4. ASSUME NEW i \in 1..Len(page)
      PROVE  page[i] = l[from + i] /\ from + i \in 1..Len(l) /\ from + i <= to
  <2>1. from < to /\ i \in 1..(to - (from + 1) + 1) /\ from + 1 + i - 1 = from + i
    BY <1>3
  <2> QED
    BY <1>2, <2>1
<1> QED
  BY <1>2, <1>3, <1>4 DEF page

\* A page of the listing: rising, and of emails with the right number of others ahead of them.
IsPage(page, S, from, upTo) ==
    /\ page \in Seq(S) /\ Rising(page) /\ Len(page) \in Nat
    /\ \A i \in 1..Len(page) : /\ from <= Cardinality(Ahead(S, page[i]))
                               /\ Cardinality(Ahead(S, page[i])) < upTo
    /\ upTo < Cardinality(S) => Len(page) = PageSize
    /\ upTo >= Cardinality(S) => from + Len(page) >= Cardinality(S)

LEMMA PageOf ==
    ASSUME NEW S \in SUBSET Email, NEW from \in Nat, NEW upTo \in Nat, from + PageSize = upTo,
           NEW page,
           page = SubSeq(InOrder(S), from + 1,
                         IF upTo < Len(InOrder(S)) THEN upTo ELSE Len(InOrder(S)))
    PROVE  IsPage(page, S, from, upTo)
<1> DEFINE l == InOrder(S)
           to == IF upTo < Len(l) THEN upTo ELSE Len(l)
<1>1. /\ l \in Seq(S) /\ Len(l) = Cardinality(S) /\ Len(l) \in Nat /\ Rising(l)
      /\ \A i \in 1..Len(l) : l[i] \in S /\ Cardinality(Ahead(S, l[i])) = i - 1
  BY InOrderIs, FiniteEmails
<1>2. page = SubSeq(l, from + 1, to)
  OBVIOUS
<1> HIDE DEF l
<1>3. to \in Nat /\ to <= Len(l) /\ to <= upTo /\ PageSize \in Nat \ {0}
  BY <1>1, PagesAssumption
<1>4. /\ page \in Seq(S) /\ Len(page) \in Nat /\ Len(page) = IF from < to THEN to - from ELSE 0
      /\ \A i \in 1..Len(page) : /\ page[i] = l[from + i]
                                 /\ from + i \in 1..Len(l) /\ from + i <= to
  <2> HIDE DEF to
  <2> DEFINE part == SubSeq(l, from + 1, to)
  <2>1. /\ part \in Seq(S) /\ Len(part) \in Nat /\ Len(part) = IF from < to THEN to - from ELSE 0
        /\ \A i \in 1..Len(part) : /\ part[i] = l[from + i]
                                   /\ from + i \in 1..Len(l) /\ from + i <= to
    BY <1>1, <1>3, Slice
  <2>2. page = part
    BY <1>2
  <2> HIDE DEF part
  <2> QED
    BY <2>1, <2>2
<1>5. Rising(page)
  <2> SUFFICES ASSUME NEW i \in 1..Len(page), NEW j \in 1..Len(page), i < j
               PROVE  Position(page[i]) < Position(page[j])
    BY DEF Rising
  <2>1. page[i] = l[from + i] /\ page[j] = l[from + j]
    BY <1>4
  <2>2. from + i < from + j
    BY <1>4
  <2>3. from + i \in 1..Len(l) /\ from + j \in 1..Len(l)
    BY <1>4
  <2> HIDE DEF to
  <2> QED
    BY <1>1, <2>1, <2>2, <2>3 DEF Rising
<1>6. ASSUME NEW i \in 1..Len(page)
      PROVE  from <= Cardinality(Ahead(S, page[i])) /\ Cardinality(Ahead(S, page[i])) < upTo
  <2>1. page[i] = l[from + i] /\ from + i \in 1..Len(l) /\ from + i <= to
    BY <1>4
  <2>2. Cardinality(Ahead(S, page[i])) = from + i - 1
    BY <1>1, <2>1
  <2> HIDE DEF to
  <2> QED
    BY <1>3, <2>1, <2>2
<1>7. upTo < Cardinality(S) => Len(page) = PageSize
  BY <1>1, <1>3, <1>4
<1>8. upTo >= Cardinality(S) => from + Len(page) >= Cardinality(S)
  BY <1>1, <1>3, <1>4
<1> QED
  BY <1>4, <1>5, <1>6, <1>7, <1>8 DEF IsPage


-------------------------------------------------------------------------------
\* The invariant.

\* The walk's place: a link leads from a page to the following one, of the same listing.
Places ==
    /\ matching \in SUBSET atStart /\ atStart \in SUBSET Email
    /\ pc \in {"fetch", "yield", "done", "stopped", "failed"}
    /\ spec.page \in 1..(Len(Collection) + 1)
    /\ body \in {"none", "page", "emptyObject"}
    /\ items \in Seq(Email) /\ yielded \in Seq(Email) /\ ranges \in 1..MaxRanges
    /\ pc = "yield" /\ link # NoLink =>
           /\ link = Request(spec.filtered, spec.page + 1, link.own)
           /\ spec.page + 1 <= Len(Collection) + 1

\* Every link asks for what matches, and what the walk has and had matched when it started.
Filtered ==
    /\ spec.filtered = TRUE
    /\ \A i \in 1..Len(yielded) : yielded[i] \in atStart
    /\ pc = "yield" => \A i \in 1..Len(items) : items[i] \in atStart

\* What was yielded comes before what is in hand, and both before whatever has enough emails ahead
\* of it to be on a later page.  An email that leaves only brings the others nearer.
Before(s, e) == \A i \in 1..Len(s) : Position(s[i]) < Position(e)
AllBefore(M, s, n) == \A e \in M : n <= Cardinality(Ahead(M, e)) => Before(s, e)
Ordered ==
    /\ Rising(yielded)
    /\ pc = "yield" => Rising(items) /\ \A i \in 1..Len(items) : Before(yielded, items[i])
    /\ pc = "fetch" => AllBefore(matching, yielded, (spec.page - 1) * PageSize)
    /\ pc = "yield" => /\ AllBefore(matching, yielded, spec.page * PageSize)
                       /\ AllBefore(matching, items, spec.page * PageSize)

\* Every page but the last one was full, and at the end there were no more emails than came, unless
\* the end was an empty object.
Counted ==
    /\ pc = "fetch" => Len(yielded) = (spec.page - 1) * PageSize
    /\ pc = "yield" /\ link # NoLink => Len(yielded) + Len(items) = spec.page * PageSize
    /\ pc = "yield" /\ link = NoLink /\ body # "emptyObject" =>
           Len(yielded) + Len(items) >= Cardinality(matching)
    /\ pc = "done" /\ body # "emptyObject" => Len(yielded) >= Cardinality(matching)

IInv == Places /\ Filtered /\ Ordered /\ Counted

\* The page numbers as places in the listing.
LEMMA PlacesOf ==
    ASSUME NEW p \in Nat \ {0}
    PROVE  /\ (p - 1) * PageSize \in Nat /\ p * PageSize \in Nat /\ p <= p * PageSize
           /\ (p - 1) * PageSize + PageSize = p * PageSize
           /\ ((p + 1) - 1) * PageSize = p * PageSize
<1>1. PageSize \in Nat \ {0}
  BY PagesAssumption
<1> QED
  BY <1>1

\* What a page fetched by a walk brings.
LEMMA Fetched ==
    ASSUME Places, FetchPage, NEW S, S = IF spec.filtered THEN matching ELSE Email
    PROVE  LET from == (spec.page - 1) * PageSize
               upTo == spec.page * PageSize
           IN  /\ S \in SUBSET Email
               /\ items' \in Seq(S) /\ Rising(items') /\ Len(items') \in Nat
               /\ \A i \in 1..Len(items') : /\ from <= Cardinality(Ahead(S, items'[i]))
                                            /\ Cardinality(Ahead(S, items'[i])) < upTo
               /\ link' # NoLink => /\ link' = Request(spec.filtered, spec.page + 1, link'.own)
                                    /\ upTo < Cardinality(S) /\ Len(items') = PageSize
                                    /\ spec.page + 1 <= Len(Collection) + 1
               /\ link' = NoLink => from + Len(items') >= Cardinality(S)
<1> DEFINE from == (spec.page - 1) * PageSize
           upTo == spec.page * PageSize
<1>1. S \in SUBSET Email /\ Listing(spec) = InOrder(S)
  BY DEF Places, Listing
<1>2. /\ from \in Nat /\ upTo \in Nat /\ spec.page <= upTo /\ from + PageSize = upTo
      /\ spec.page \in Nat \ {0}
  <2>1. spec.page \in Nat \ {0}
    BY Len0 DEF Places
  <2> QED
    BY <2>1, PlacesOf
<1>3. items' = SubSeq(InOrder(S), from + 1,
                      IF upTo < Len(InOrder(S)) THEN upTo ELSE Len(InOrder(S)))
  BY <1>1 DEF FetchPage, PageItems
<1>4. Len(InOrder(S)) = Cardinality(S) /\ Cardinality(S) \in Nat /\ Cardinality(S) <= Len(Collection)
  BY <1>1, InOrderIs, FiniteEmails
<1>5. HasNext(spec) <=> upTo < Cardinality(S)
  BY <1>1, <1>4 DEF HasNext
<1> HIDE DEF from, upTo
<1>6. /\ items' \in Seq(S) /\ Rising(items') /\ Len(items') \in Nat
      /\ \A i \in 1..Len(items') : /\ from <= Cardinality(Ahead(S, items'[i]))
                                   /\ Cardinality(Ahead(S, items'[i])) < upTo
      /\ upTo < Cardinality(S) => Len(items') = PageSize
      /\ upTo >= Cardinality(S) => from + Len(items') >= Cardinality(S)
  <2>1. IsPage(items', S, from, upTo)
    BY <1>1, <1>2, <1>3, PageOf
  <2> QED
    BY <2>1 DEF IsPage
<1>7. link' # NoLink => /\ link' = Request(spec.filtered, spec.page + 1, link'.own)
                        /\ upTo < Cardinality(S)
  BY <1>5 DEF FetchPage, Request
<1>8. link' = NoLink => ~(upTo < Cardinality(S))
  <2>1. \A own \in BOOLEAN : Request(spec.filtered, spec.page + 1, own) # NoLink
    BY <1>2 DEF Request, NoLink
  <2> QED
    BY <1>5, <2>1 DEF FetchPage
<1>9. upTo < Cardinality(S) => spec.page + 1 <= Len(Collection) + 1
  BY <1>2, <1>4, Len0
<1> QED
  BY <1>1, <1>2, <1>4, <1>6, <1>7, <1>8, <1>9 DEF from, upTo

-------------------------------------------------------------------------------
\* The walk keeps its place, by links as well as by hand.
LEMMA PlacesKept == Places /\ [Next]_vars => Places'
<1> SUFFICES ASSUME Places, [Next]_vars PROVE Places'
  OBVIOUS
<1>1. CASE FetchPage
  <2> DEFINE S == IF spec.filtered THEN matching ELSE Email
  <2>1. /\ S \in SUBSET Email /\ items' \in Seq(S)
        /\ link' # NoLink => /\ link' = Request(spec.filtered, spec.page + 1, link'.own)
                             /\ spec.page + 1 <= Len(Collection) + 1
    BY <1>1, Fetched
  <2> HIDE DEF S
  <2>2. items' \in Seq(Email)
    BY <2>1
  <2> QED
    BY <1>1, <2>1, <2>2 DEF FetchPage, Places
<1>2. CASE FetchFails
  BY <1>2 DEF FetchFails, Places
<1>3. CASE YieldItem
  <2>1. Head(items) \in Email /\ Tail(items) \in Seq(Email)
    BY <1>3 DEF YieldItem, Places
  <2>2. yielded' \in Seq(Email) /\ items' \in Seq(Email)
    BY <1>3, <2>1 DEF YieldItem, Places
  <2> QED
    BY <1>3, <2>2 DEF YieldItem, Consumer, Places
<1>4. CASE NextPage
  <2>1. CASE link = NoLink
    BY <1>4, <2>1 DEF NextPage, Places
  <2>2. CASE link # NoLink
    <3>1. spec'.page = spec.page + 1 /\ spec.page + 1 <= Len(Collection) + 1 /\ pc' = "fetch"
      BY <1>4, <2>2 DEF NextPage, NextSpec, Places, Request
    <3>2. spec'.page \in 1..(Len(Collection) + 1)
      BY <3>1, Len0 DEF Places
    <3> QED
      BY <1>4, <3>1, <3>2 DEF NextPage, Places
  <2> QED
    BY <2>1, <2>2
<1>5. CASE RangeAgain
  <2>1. ranges' \in 1..MaxRanges /\ spec'.page \in 1..(Len(Collection) + 1) /\ pc' = "fetch"
    BY <1>5, PagesAssumption, Len0 DEF RangeAgain, Places, FirstSpec, Request
  <2> QED
    BY <1>5, <2>1 DEF RangeAgain, Places
<1>6. ASSUME NEW e \in Email, Leave(e) PROVE Places'
  BY <1>6 DEF Leave, walker, Places
<1>7. CASE UNCHANGED vars
  BY <1>7 DEF vars, walker, Places
<1>8. CASE FetchBlankPage
  BY <1>8 DEF FetchBlankPage, Places
<1> QED
  BY <1>1, <1>2, <1>3, <1>4, <1>5, <1>6, <1>7, <1>8 DEF Next

LEMMA PlacesFirst == Init => Places
<1> SUFFICES ASSUME Init PROVE Places
  OBVIOUS
<1>1. ranges \in 1..MaxRanges /\ spec.page \in 1..(Len(Collection) + 1)
  BY PagesAssumption, Len0 DEF Init, FirstSpec, Request
<1> QED
  BY <1>1 DEF Init, Places

\* Every variable keeps its type, whoever walks.
THEOREM TypeCorrectness == Spec => []TypeOK
<1>1. Places => TypeOK
  BY DEF Places, TypeOK, ToSet
<1> QED
  BY <1>1, PlacesFirst, PlacesKept, PTL DEF Spec


-------------------------------------------------------------------------------
\* What All does with a collection that only shrinks.

\* A page comes after what was yielded and before what is on later ones.
LEMMA FetchKeeps ==
    ASSUME IInv, FetchPage
    PROVE  Filtered' /\ Ordered' /\ Counted'
<1> DEFINE from == (spec.page - 1) * PageSize
           upTo == spec.page * PageSize
<1>1. /\ matching \in SUBSET Email /\ matching \in SUBSET atStart /\ Len(yielded) \in Nat
      /\ from \in Nat /\ upTo \in Nat /\ from + PageSize = upTo /\ PageSize \in Nat
  <2>1. spec.page \in Nat \ {0}
    BY Len0 DEF IInv, Places
  <2>2. PageSize \in Nat
    BY PagesAssumption
  <2>3. from \in Nat /\ upTo \in Nat /\ from + PageSize = upTo
    BY <2>1, PlacesOf
  <2>4. matching \in SUBSET Email /\ matching \in SUBSET atStart /\ Len(yielded) \in Nat
    BY DEF IInv, Places
  <2> QED
    BY <2>2, <2>3, <2>4
<1>2. /\ items' \in Seq(matching) /\ Rising(items') /\ Len(items') \in Nat
      /\ \A i \in 1..Len(items') : /\ from <= Cardinality(Ahead(matching, items'[i]))
                                   /\ Cardinality(Ahead(matching, items'[i])) < upTo
      /\ link' # NoLink => upTo < Cardinality(matching) /\ Len(items') = PageSize
      /\ link' = NoLink => from + Len(items') >= Cardinality(matching)
  <2>1. matching = IF spec.filtered THEN matching ELSE Email
    BY DEF IInv, Filtered
  <2> QED
    BY <2>1, Fetched DEF IInv
<1>3. /\ pc = "fetch" /\ pc' = "yield" /\ UNCHANGED <<matching, atStart, spec, yielded>>
  BY DEF FetchPage
<1>4. AllBefore(matching, yielded, from) /\ Rising(yielded) /\ Len(yielded) = from
  BY <1>3 DEF IInv, Ordered, Counted
<1>5. \A i \in 1..Len(items') : items'[i] \in matching
  BY <1>2
<1> HIDE DEF from, upTo
<1>6. Filtered'
  BY <1>1, <1>3, <1>5 DEF IInv, Filtered
<1>7. \A i \in 1..Len(items') : Before(yielded, items'[i])
  BY <1>2, <1>4, <1>5 DEF AllBefore
<1>8. AllBefore(matching, yielded, upTo)
  <2> SUFFICES ASSUME NEW e \in matching, upTo <= Cardinality(Ahead(matching, e))
               PROVE  Before(yielded, e)
    BY DEF AllBefore
  <2>1. from <= Cardinality(Ahead(matching, e))
    <3>1. Cardinality(Ahead(matching, e)) \in Nat
      BY <1>1, AheadIn
    <3> QED
      BY <1>1, <3>1
  <2> QED
    BY <1>4, <2>1 DEF AllBefore
<1>9. AllBefore(matching, items', upTo)
  <2> SUFFICES ASSUME NEW e \in matching, upTo <= Cardinality(Ahead(matching, e)),
                      NEW i \in 1..Len(items')
               PROVE  Position(items'[i]) < Position(e)
    BY DEF AllBefore, Before
  <2>1. Cardinality(Ahead(matching, items'[i])) < Cardinality(Ahead(matching, e))
    <3>1. Cardinality(Ahead(matching, items'[i])) \in Nat /\ Cardinality(Ahead(matching, e)) \in Nat
      BY <1>1, AheadIn
    <3> QED
      BY <1>1, <1>2, <3>1
  <2> QED
    BY <1>1, <1>5, <2>1, RankOrder
<1>10. Ordered'
  <2>1. Rising(yielded)' /\ Rising(items)' /\ \A i \in 1..Len(items') : Before(yielded, items[i])'
    BY <1>2, <1>3, <1>4, <1>7 DEF Rising, Before
  <2>2. AllBefore(matching, yielded, spec.page * PageSize)' /\ AllBefore(matching, items, spec.page * PageSize)'
    BY <1>3, <1>8, <1>9 DEF AllBefore, Before, Ahead, upTo
  <2> QED
    BY <1>3, <2>1, <2>2 DEF Ordered
<1>11. Counted'
  <2>1. link' # NoLink => Len(yielded) + Len(items') = upTo
    BY <1>1, <1>2, <1>4
  <2>2. link' = NoLink => Len(yielded) + Len(items') >= Cardinality(matching)
    BY <1>2, <1>4
  <2> QED
    BY <1>3, <2>1, <2>2 DEF Counted, upTo
<1> QED
  BY <1>6, <1>10, <1>11

\* An empty object brings nothing to a walk.
LEMMA BlankKeeps ==
    ASSUME IInv, FetchBlankPage
    PROVE  Filtered' /\ Ordered' /\ Counted'
<1>1. /\ pc = "fetch" /\ pc' = "yield" /\ items' = <<>> /\ link' = NoLink /\ body' = "emptyObject"
      /\ Len(items') = 0 /\ UNCHANGED <<matching, atStart, spec, yielded>>
  BY DEF FetchBlankPage
<1>2. AllBefore(matching, yielded, (spec.page - 1) * PageSize) /\ Rising(yielded)
  BY <1>1 DEF IInv, Ordered
<1>3. AllBefore(matching, yielded, spec.page * PageSize)
  <2>1. /\ (spec.page - 1) * PageSize \in Nat /\ spec.page * PageSize \in Nat
        /\ (spec.page - 1) * PageSize <= spec.page * PageSize
    <3>1. spec.page \in Nat \ {0} /\ PageSize \in Nat
      BY Len0, PagesAssumption DEF IInv, Places
    <3> QED
      BY <3>1, PlacesOf
  <2> SUFFICES ASSUME NEW e \in matching, spec.page * PageSize <= Cardinality(Ahead(matching, e))
               PROVE  Before(yielded, e)
    BY DEF AllBefore
  <2>2. Cardinality(Ahead(matching, e)) \in Nat
    BY AheadIn DEF IInv, Places
  <2> QED
    BY <1>2, <2>1, <2>2 DEF AllBefore
<1>4. Filtered'
  BY <1>1 DEF IInv, Filtered
<1>5. Ordered'
  BY <1>1, <1>2, <1>3 DEF Ordered, Rising, AllBefore, Before, Ahead
<1>6. Counted'
  BY <1>1 DEF Counted
<1> QED
  BY <1>4, <1>5, <1>6

\* The item that is yielded goes from the head of what is in hand behind what was yielded.
LEMMA YieldKeeps ==
    ASSUME IInv, YieldItem
    PROVE  Filtered' /\ Ordered' /\ Counted'
<1>1. /\ items \in Seq(Email) /\ yielded \in Seq(Email) /\ items # <<>>
      /\ yielded' = Append(yielded, Head(items)) /\ items' = Tail(items)
      /\ pc = "yield" /\ pc' \in {"yield", "stopped"}
      /\ UNCHANGED <<matching, atStart, spec, body, link>>
  BY DEF IInv, Places, YieldItem, Consumer
<1> DEFINE n == Len(yielded)
           k == Len(items)
<1>2. /\ n \in Nat /\ k \in Nat /\ k >= 1
      /\ Len(yielded') = n + 1 /\ Len(items') = k - 1
      /\ \A i \in 1..n : yielded'[i] = yielded[i]
      /\ yielded'[n + 1] = items[1]
      /\ \A i \in 1..(k - 1) : items'[i] = items[i + 1]
  BY <1>1
<1> HIDE DEF n, k
<1>3. /\ \A i \in 1..n : yielded[i] \in atStart
      /\ \A i \in 1..k : items[i] \in atStart
      /\ spec.filtered = TRUE
  BY <1>1 DEF IInv, Filtered, n, k
<1>4. Filtered'
  <2>1. \A i \in 1..(n + 1) : yielded'[i] \in atStart
    BY <1>2, <1>3
  <2>2. \A i \in 1..(k - 1) : items'[i] \in atStart
    BY <1>2, <1>3
  <2> QED
    BY <1>1, <1>2, <1>3, <2>1, <2>2 DEF Filtered
<1>5. /\ \A i, j \in 1..n : i < j => Position(yielded[i]) < Position(yielded[j])
      /\ \A i, j \in 1..k : i < j => Position(items[i]) < Position(items[j])
      /\ \A i \in 1..n, j \in 1..k : Position(yielded[i]) < Position(items[j])
  BY <1>1 DEF IInv, Ordered, Rising, Before, n, k
<1>6. Rising(yielded')
  <2> SUFFICES ASSUME NEW i \in 1..(n + 1), NEW j \in 1..(n + 1), i < j
               PROVE  Position(yielded'[i]) < Position(yielded'[j])
    BY <1>2 DEF Rising
  <2>1. CASE j = n + 1
    BY <1>2, <1>5, <2>1
  <2>2. CASE j \in 1..n
    BY <1>2, <1>5, <2>2
  <2> QED
    BY <1>2, <2>1, <2>2
<1>7. Rising(items')
  <2> SUFFICES ASSUME NEW i \in 1..(k - 1), NEW j \in 1..(k - 1), i < j
               PROVE  Position(items'[i]) < Position(items'[j])
    BY <1>2 DEF Rising
  <2>1. i + 1 \in 1..k /\ j + 1 \in 1..k /\ i + 1 < j + 1
    BY <1>2
  <2> QED
    BY <1>2, <1>5, <2>1
<1>8. ASSUME NEW j \in 1..(k - 1) PROVE Before(yielded', items'[j])
  <2>1. j + 1 \in 1..k /\ 1 \in 1..k /\ 1 < j + 1
    BY <1>2
  <2> SUFFICES ASSUME NEW i \in 1..(n + 1) PROVE Position(yielded'[i]) < Position(items'[j])
    BY <1>2 DEF Before
  <2>2. CASE i = n + 1
    BY <1>2, <1>5, <2>1, <2>2
  <2>3. CASE i \in 1..n
    BY <1>2, <1>5, <2>1, <2>3
  <2> QED
    BY <1>2, <2>2, <2>3
<1>9. ASSUME NEW e \in matching, spec.page * PageSize <= Cardinality(Ahead(matching, e))
      PROVE  Before(yielded', e) /\ Before(items', e)
  <2>1. /\ \A i \in 1..n : Position(yielded[i]) < Position(e)
        /\ \A i \in 1..k : Position(items[i]) < Position(e)
    BY <1>1, <1>9 DEF IInv, Ordered, AllBefore, Before, n, k
  <2>2. Before(yielded', e)
    <3> SUFFICES ASSUME NEW i \in 1..(n + 1) PROVE Position(yielded'[i]) < Position(e)
      BY <1>2 DEF Before
    <3>1. CASE i = n + 1
      BY <1>2, <2>1, <3>1
    <3>2. CASE i \in 1..n
      BY <1>2, <2>1, <3>2
    <3> QED
      BY <1>2, <3>1, <3>2
  <2>3. Before(items', e)
    BY <1>2, <2>1 DEF Before
  <2> QED
    BY <2>2, <2>3
<1>10. Ordered'
  <2>1. Rising(yielded)' /\ Rising(items)'
    BY <1>6, <1>7 DEF Rising
  <2>2. \A j \in 1..Len(items') : Before(yielded, items[j])'
    BY <1>2, <1>8 DEF Before
  <2>3. AllBefore(matching, yielded, spec.page * PageSize)' /\ AllBefore(matching, items, spec.page * PageSize)'
    BY <1>1, <1>9 DEF AllBefore, Before, Ahead
  <2> QED
    BY <1>1, <2>1, <2>2, <2>3 DEF Ordered
<1>11. Counted'
  <2>1. Len(yielded') + Len(items') = n + k
    BY <1>2
  <2> QED
    BY <1>1, <2>1 DEF IInv, Counted, n, k
<1> QED
  BY <1>4, <1>10, <1>11


\* The next page is the one behind everything that was yielded; without one, nothing is behind it.
LEMMA NextPageKeeps ==
    ASSUME ~ByHand, IInv, NextPage
    PROVE  Filtered' /\ Ordered' /\ Counted'
<1>1. /\ pc = "yield" /\ items = <<>> /\ Len(items) = 0 /\ Len(yielded) \in Nat
      /\ UNCHANGED <<matching, atStart, body, items, link, yielded>>
  BY DEF NextPage, IInv, Places
<1>2. Rising(yielded') /\ \A i \in 1..Len(yielded') : yielded'[i] \in atStart'
  BY <1>1 DEF IInv, Ordered, Filtered, Rising
<1>3. CASE link = NoLink
  <2>1. pc' = "done" /\ UNCHANGED spec
    BY <1>3 DEF NextPage
  <2>2. body # "emptyObject" => Len(yielded) >= Cardinality(matching)
    BY <1>1, <1>3 DEF IInv, Counted
  <2>3. Filtered'
    BY <1>1, <1>2, <2>1 DEF IInv, Filtered
  <2> QED
    BY <1>1, <1>2, <2>1, <2>2, <2>3 DEF Ordered, Counted, Rising
<1>4. CASE link # NoLink
  <2>1. pc' = "fetch" /\ spec'.page = spec.page + 1 /\ spec'.filtered = spec.filtered
    BY <1>1, <1>4 DEF NextPage, NextSpec, IInv, Places, Request
  <2>2. (spec'.page - 1) * PageSize = spec.page * PageSize
    <3>1. spec.page \in Nat \ {0}
      BY Len0 DEF IInv, Places
    <3> QED
      BY <2>1, <3>1, PlacesOf
  <2>3. Len(yielded) = spec.page * PageSize /\ AllBefore(matching, yielded, spec.page * PageSize)
    BY <1>1, <1>4 DEF IInv, Counted, Ordered
  <2>4. Filtered'
    BY <1>2, <2>1 DEF IInv, Filtered
  <2>5. AllBefore(matching, yielded, (spec.page - 1) * PageSize)'
    BY <1>1, <2>2, <2>3 DEF AllBefore, Before, Ahead
  <2>6. Rising(yielded)'
    BY <1>2 DEF Rising
  <2> QED
    BY <1>1, <2>1, <2>2, <2>3, <2>4, <2>5, <2>6 DEF Ordered, Counted
<1> QED
  BY <1>3, <1>4

\* An email that leaves brings the others nearer and makes none of them overtake another.
LEMMA LeaveKeeps ==
    ASSUME IInv, NEW e \in Email, Leave(e)
    PROVE  Filtered' /\ Ordered' /\ Counted'
<1>1. /\ matching' \in SUBSET matching /\ matching \in SUBSET Email
      /\ UNCHANGED <<atStart, pc, spec, body, items, link, yielded>>
  BY DEF Leave, walker, IInv, Places
<1>2. Cardinality(matching') <= Cardinality(matching) /\ Cardinality(matching) \in Nat /\ Cardinality(matching') \in Nat
  BY <1>1, FiniteEmails, FS_Subset
<1>3. ASSUME NEW s, NEW n \in Nat, AllBefore(matching, s, n)
      PROVE  AllBefore(matching', s, n)
  <2> SUFFICES ASSUME NEW f \in matching', n <= Cardinality(Ahead(matching', f)) PROVE Before(s, f)
    BY DEF AllBefore
  <2>1. Cardinality(Ahead(matching', f)) <= Cardinality(Ahead(matching, f))
    BY <1>1, AheadGrows
  <2>2. Cardinality(Ahead(matching', f)) \in Nat /\ Cardinality(Ahead(matching, f)) \in Nat
    BY <1>1, AheadIn
  <2> QED
    BY <1>1, <1>3, <2>1, <2>2 DEF AllBefore
<1>4. (spec.page - 1) * PageSize \in Nat /\ spec.page * PageSize \in Nat
  <2>1. spec.page \in Nat \ {0}
    BY Len0 DEF IInv, Places
  <2> QED
    BY <2>1, PlacesOf
<1>5. Filtered'
  BY <1>1 DEF IInv, Filtered
<1>6. Ordered'
  <2>1. pc = "fetch" => AllBefore(matching', yielded, (spec.page - 1) * PageSize)
    BY <1>3, <1>4 DEF IInv, Ordered
  <2>2. pc = "yield" => /\ AllBefore(matching', yielded, spec.page * PageSize)
                        /\ AllBefore(matching', items, spec.page * PageSize)
    BY <1>3, <1>4 DEF IInv, Ordered
  <2> QED
    BY <1>1, <2>1, <2>2 DEF IInv, Ordered, AllBefore, Before, Ahead, Rising
<1>7. Counted'
  <2>1. Len(yielded) \in Nat /\ Len(items) \in Nat
    BY DEF IInv, Places
  <2> QED
    BY <1>1, <1>2, <2>1 DEF IInv, Counted
<1> QED
  BY <1>5, <1>6, <1>7

\* A new walk has yielded nothing.
LEMMA StartsRight ==
    pc = "fetch" /\ spec = FirstSpec /\ yielded = <<>> => Filtered /\ Ordered /\ Counted
<1> SUFFICES ASSUME pc = "fetch", spec = FirstSpec, yielded = <<>>
             PROVE  Filtered /\ Ordered /\ Counted
  OBVIOUS
<1>1. /\ spec.filtered = TRUE /\ spec.page = 1 /\ Len(yielded) = 0 /\ pc = "fetch"
      /\ (spec.page - 1) * PageSize = 0
  <2>1. PageSize \in Nat
    BY PagesAssumption
  <2> QED
    BY <2>1 DEF FirstSpec, Request
<1>2. \A i \in 1..Len(yielded) : FALSE
  BY <1>1
<1> QED
  BY <1>1, <1>2 DEF Filtered, Ordered, Counted, Rising, AllBefore, Before

\* IInv is inductive, for the walk All makes.
LEMMA Inductive == ~ByHand /\ IInv /\ [Next]_vars => IInv'
<1> SUFFICES ASSUME ~ByHand, IInv, [Next]_vars PROVE Filtered' /\ Ordered' /\ Counted'
  BY PlacesKept DEF IInv
<1>1. CASE FetchPage
  BY <1>1, FetchKeeps
<1>2. CASE FetchFails
  BY <1>2 DEF FetchFails, IInv, Filtered, Ordered, Counted, Rising
<1>3. CASE YieldItem
  BY <1>3, YieldKeeps
<1>4. CASE NextPage
  BY <1>4, NextPageKeeps
<1>5. CASE RangeAgain
  <2>1. (pc = "fetch" /\ spec = FirstSpec /\ yielded = <<>>)'
    BY <1>5 DEF RangeAgain
  <2>2. (pc = "fetch" /\ spec = FirstSpec /\ yielded = <<>> => Filtered /\ Ordered /\ Counted)'
    BY StartsRight, PTL
  <2> QED
    BY <2>1, <2>2
<1>6. ASSUME NEW e \in Email, Leave(e) PROVE Filtered' /\ Ordered' /\ Counted'
  BY <1>6, LeaveKeeps
<1>7. CASE UNCHANGED vars
  BY <1>7 DEF vars, walker, IInv, Filtered, Ordered, Counted, Rising, AllBefore, Before, Ahead
<1>8. CASE FetchBlankPage
  BY <1>8, BlankKeeps
<1> QED
  BY <1>1, <1>2, <1>3, <1>4, <1>5, <1>6, <1>7, <1>8 DEF Next

LEMMA Invariance == ASSUME ~ByHand PROVE Spec => []IInv
<1>1. Init => IInv
  <2>1. Init => Filtered /\ Ordered /\ Counted
    BY StartsRight DEF Init
  <2> QED
    BY <2>1, PlacesFirst DEF IInv
<1>2. IInv /\ [Next]_vars => IInv'
  BY Inductive
<1> QED
  BY <1>1, <1>2, PTL DEF Spec

-------------------------------------------------------------------------------
\* Every email that All yields matched the filters the caller gave, on every page of every walk.
THEOREM FiltersHold == ASSUME ~ByHand PROVE Spec => []OnlyMatching
<1>1. IInv => OnlyMatching
  BY DEF IInv, Places, Filtered, OnlyMatching, ToSet
<1> QED
  BY <1>1, Invariance, PTL

\* No walk of All yields an email twice, though the pages move while it runs.
THEOREM YieldedOnce == ASSUME ~ByHand PROVE Spec => []NoDuplicates
<1>1. IInv => NoDuplicates
  BY RisingOnce DEF IInv, Places, Ordered, NoDuplicates
<1> QED
  BY <1>1, Invariance, PTL

\* A walk of All that ends by itself over a collection nobody changed yielded the whole listing, in
\* its order, unless the API answered a page with an empty object.
THEOREM CompleteWhenDone == ASSUME ~ByHand PROVE Spec => []DoneIsComplete
<1>1. IInv => DoneIsComplete
  <2> SUFFICES ASSUME IInv, pc = "done", body # "emptyObject", matching = atStart
               PROVE  yielded = InOrder(atStart)
    BY DEF DoneIsComplete
  <2>1. atStart \in SUBSET Email /\ Rising(yielded) /\ Len(yielded) >= Cardinality(atStart)
    BY DEF IInv, Places, Ordered, Counted
  <2>2. yielded \in Seq(atStart)
    BY DEF IInv, Places, Filtered
  <2> QED
    BY <2>1, <2>2, RisingIsInOrder
<1> QED
  BY <1>1, Invariance, PTL

\* What a set leaves of another one, in numbers.
LEMMA LeftOver ==
    ASSUME NEW m \in Nat, NEW y \in Nat, NEW common \in Nat, NEW limit \in Nat, NEW a, NEW b,
           y >= m, a = m - common, b = y - common, b <= limit
    PROVE  a <= limit
OBVIOUS

\* A walk of All that ends by itself passes over no more emails that match all along than left
\* while it ran, unless the API answered a page with an empty object.
THEOREM SkipsNoMoreThanLeft == ASSUME ~ByHand PROVE Spec => []SkipsAreBounded
<1>1. IInv => SkipsAreBounded
  <2> SUFFICES ASSUME IInv, pc = "done", body # "emptyObject"
               PROVE  Cardinality(matching \ ToSet(yielded)) <= Cardinality(atStart \ matching)
    BY DEF SkipsAreBounded
  <2> DEFINE Y == ToSet(yielded)
  <2>1. matching \in SUBSET Email /\ matching \in SUBSET atStart /\ atStart \in SUBSET Email
    BY DEF IInv, Places
  <2>2. Y \in SUBSET Email /\ Cardinality(Y) >= Cardinality(matching)
    <3>1. Cardinality(Y) = Len(yielded) /\ Y \in SUBSET Email
      BY RisingOnce DEF IInv, Places, Ordered
    <3>2. Len(yielded) >= Cardinality(matching)
      BY DEF IInv, Counted
    <3> QED
      BY <3>1, <3>2
  <2>3. Y \ matching \in SUBSET (atStart \ matching)
    BY DEF IInv, Places, Filtered, ToSet
  <2> HIDE DEF Y
  <2>4. /\ Cardinality(matching \ Y) = Cardinality(matching) - Cardinality(matching \cap Y)
        /\ Cardinality(Y \ matching) = Cardinality(Y) - Cardinality(Y \cap matching)
    BY <2>1, <2>2, FiniteEmails, FS_Difference
  <2>5. Cardinality(Y \ matching) <= Cardinality(atStart \ matching)
    <3>1. IsFiniteSet(atStart \ matching)
      BY <2>1, FiniteEmails
    <3> QED
      BY <2>3, <3>1, FS_Subset
  <2>6. /\ Cardinality(matching) \in Nat /\ Cardinality(Y) \in Nat /\ Cardinality(matching \cap Y) \in Nat
        /\ Cardinality(atStart \ matching) \in Nat
    BY <2>1, <2>2, FiniteEmails
  <2>7. Y \cap matching = matching \cap Y
    OBVIOUS
  <2>8. Cardinality(Y \ matching) = Cardinality(Y) - Cardinality(matching \cap Y)
    BY <2>4, <2>7
  <2>9. Cardinality(matching \ Y) <= Cardinality(atStart \ matching)
    BY <2>2, <2>4, <2>5, <2>6, <2>8, LeftOver
  <2> QED
    BY <2>9 DEF Y
<1> QED
  BY <1>1, Invariance, PTL
===============================================================================
