-------------------------- MODULE LoadedWholeProofs --------------------------
(***************************************************************************)
(* What holds of Loading for every database, all query texts and all       *)
(* settings: a cache filled by queries that agree is their image.          *)
(***************************************************************************)
EXTENDS LoadingProofs, FiniteSetTheorems

-----------------------------------------------------------------------------
(* The inductive invariant *)

\* Where the entries of the calendar of row c of Q2 begin in Q3.
Start(c) == CHOOSE j \in DOMAIN q3 : /\ j + SizeOf(q2, c) - 1 \in DOMAIN q3
                                     /\ IdOf(q3, j) = IdOf(q2, c)
                                     /\ Consecutive(q3, j, j + SizeOf(q2, c) - 1)

\* The entries that the first n rows of Q2 announce.
Announced(n) ==
  UNION {{c} \X (1 .. SizeOf(q2, c)) : c \in {d \in DOMAIN q2 : Counts(d) /\ d <= n}}

\* What the first n rows of Q2 make of the cache.
Counted(n) ==
  /\ DOMAIN calendars = 0 .. MaxId(q1) - MinId(q1)
  /\ \A c \in DOMAIN q2 : Counts(c) /\ c <= n =>
       /\ calendars[IndexOf(c)].id = IdOf(q2, c)
       /\ Len(calendars[IndexOf(c)].dates) = SizeOf(q2, c)
       /\ NameOf(q2, c) \in DOMAIN names /\ names[NameOf(q2, c)] = IdOf(q2, c)
  /\ \A i \in DOMAIN calendars :
       (\A c \in DOMAIN q2 : Counts(c) /\ c <= n => IndexOf(c) # i) => calendars[i] = Blank
  /\ total = Cardinality(Announced(n))

\* What the first n rows of Q3 make of it: each date is in its place, and the
\* page maps are those of the calendars that are complete.
Copied(n) ==
  \A c \in DOMAIN q2 : Counts(c) =>
    /\ calendars[IndexOf(c)].indexed <=> Start(c) + SizeOf(q2, c) - 1 <= n
    /\ \A k \in DOMAIN q3 : k <= n /\ IdOf(q3, k) = IdOf(q2, c) =>
         calendars[IndexOf(c)].dates[k - Start(c) + 1] = DateOf(q3, k)

\* The locals of the loop over the rows of Q3 after row n.
AtRow(n) ==
  /\ n = 0 => entry_count = 0
  /\ n > 0 => \A c \in DOMAIN q2 : Counts(c) /\ IdOf(q3, n) = IdOf(q2, c) =>
       prev_calendar_id = IdOf(q3, n) /\ entry_count = n - Start(c) + 1

WholeInvariant ==
  /\ cache_filled => pc = "free"
  /\ Agree(source.text) =>
       /\ pc = "q2" => Counted(row) /\ \A i \in DOMAIN calendars : ~calendars[i].indexed
       /\ pc = "q3" => Counted(Len(q2)) /\ Copied(row) /\ AtRow(row)
       /\ cache_filled => Counted(Len(q2)) /\ Copied(Len(q3))

-----------------------------------------------------------------------------
(* Queries that agree *)

\* The rows of the queries do not change during a load.
LEMMA SameQueries ==
  ASSUME UNCHANGED <<answers, source>>
  PROVE  /\ q1' = q1 /\ q2' = q2 /\ q3' = q3
         /\ Agree(source.text)' <=> Agree(source.text)
         /\ Fit(source.text)' <=> Fit(source.text)
  BY DEF q1, q2, q3, Agree, Fit

LEMMA AgreeFit == Agree(source.text) => Fit(source.text)
  BY DEF Agree

\* The domains of the results are intervals.
LEMMA Domains ==
  ASSUME TypeOK
  PROVE  /\ DOMAIN q2 = 1 .. Len(q2) /\ Len(q2) \in Nat
         /\ DOMAIN q3 = 1 .. Len(q3) /\ Len(q3) \in Nat
  BY SourceRows DEF Rows

\* Each row of Q3 is one of a calendar that Q2 returns.
LEMMA EntryCounts ==
  ASSUME TypeOK, Fit(source.text), NEW k \in DOMAIN q3
  PROVE  \E c \in DOMAIN q2 : Counts(c) /\ IdOf(q2, c) = IdOf(q3, k)
<1>1. k \in Nat
  BY Domains
<1>2. Consecutive(q3, k, k) /\ k <= k
  BY <1>1 DEF Consecutive
<1> QED
  BY <1>2 DEF Fit, FitTogether, Counts, q1, q2, q3

\* Rows of Q3 that follow one another with one id are no more than Q2 counts.
LEMMA RunsAreCounted ==
  ASSUME TypeOK, Fit(source.text), NEW c \in DOMAIN q2, Counts(c),
         NEW j \in DOMAIN q3, NEW k \in DOMAIN q3, j <= k,
         Consecutive(q3, j, k), IdOf(q3, k) = IdOf(q2, c)
  PROVE  k - j < SizeOf(q2, c)
<1>1. PICK d \in DOMAIN q2 : Counts(d) /\ IdOf(q2, d) = IdOf(q3, k) /\ k - j < SizeOf(q2, d)
  BY DEF Fit, FitTogether, Counts, q1, q2, q3
<1>2. c = d
  BY <1>1 DEF Fit, FitTogether, Counts, q1, q2, q3
<1> QED
  BY <1>1, <1>2

\* The rows of Q3 of a calendar are one block, as long as Q2 says.
LEMMA Block ==
  ASSUME TypeOK, Agree(source.text), NEW c \in DOMAIN q2, Counts(c)
  PROVE  /\ SizeOf(q2, c) \in Nat \ {0}
         /\ Start(c) \in DOMAIN q3 /\ Start(c) + SizeOf(q2, c) - 1 \in DOMAIN q3
         /\ \A k \in DOMAIN q3 : IdOf(q3, k) = IdOf(q2, c) <=>
              Start(c) <= k /\ k <= Start(c) + SizeOf(q2, c) - 1
<1> DEFINE first == Start(c)
           last  == Start(c) + SizeOf(q2, c) - 1
<1>1. \E j \in DOMAIN q3 : /\ j + SizeOf(q2, c) - 1 \in DOMAIN q3
                           /\ IdOf(q3, j) = IdOf(q2, c)
                           /\ Consecutive(q3, j, j + SizeOf(q2, c) - 1)
  BY DEF Agree, Counts, q2, q3
<1>2. /\ first \in DOMAIN q3 /\ last \in DOMAIN q3
      /\ IdOf(q3, first) = IdOf(q2, c) /\ Consecutive(q3, first, last)
  BY <1>1 DEF Start
<1>3. SizeOf(q2, c) \in Int
  BY Numbers
<1>4. /\ first \in Nat \ {0} /\ last \in Nat \ {0} /\ last = first + SizeOf(q2, c) - 1
      /\ DOMAIN q3 \subseteq Nat
  BY <1>2, Domains
<1> HIDE DEF first, last
<1>5. SizeOf(q2, c) > 0
  <2>1. Consecutive(q3, first, first)
    BY <1>4 DEF Consecutive
  <2>2. first - first < SizeOf(q2, c)
    BY <1>2, <1>4, <2>1, AgreeFit, RunsAreCounted
  <2> QED
    BY <1>4, <2>2
<1>6. \A k \in first .. last : IdOf(q3, k) = IdOf(q2, c)
  BY <1>2, <1>3, <1>4, <1>5 DEF Consecutive
<1>7. ASSUME NEW k \in DOMAIN q3, IdOf(q3, k) = IdOf(q2, c)
      PROVE  first <= k /\ k <= last
  <2>0. k \in Nat /\ last \in first .. last
    BY <1>3, <1>4, <1>5
  <2>1. ASSUME k < first PROVE FALSE
    <3>1. k <= last /\ IdOf(q3, last) = IdOf(q2, c)
      BY <1>3, <1>4, <1>5, <1>6, <2>0, <2>1
    <3>2. Consecutive(q3, k, last)
      BY <1>2, <1>7, <3>1 DEF Agree, q2, q3
    <3>3. last - k < SizeOf(q2, c)
      BY <1>2, <3>1, <3>2, AgreeFit, RunsAreCounted
    <3> QED
      BY <1>3, <1>4, <2>0, <2>1, <3>3
  <2>2. ASSUME k > last PROVE FALSE
    <3>1. first <= k
      BY <1>3, <1>4, <1>5, <2>0, <2>2
    <3>2. Consecutive(q3, first, k)
      BY <1>2, <1>7, <3>1 DEF Agree, q2, q3
    <3>3. k - first < SizeOf(q2, c)
      BY <1>2, <1>7, <3>1, <3>2, AgreeFit, RunsAreCounted
    <3> QED
      BY <1>3, <1>4, <2>0, <2>2, <3>3
  <2> QED
    BY <1>4, <2>0, <2>1, <2>2
<1>8. SizeOf(q2, c) \in Nat \ {0}
  BY <1>3, <1>5
<1>9. \A k \in DOMAIN q3 : first <= k /\ k <= last => IdOf(q3, k) = IdOf(q2, c)
  BY <1>4, <1>6
<1> QED
  BY <1>2, <1>7, <1>8, <1>9 DEF first, last

\* Two rows of Q2 give two calendars.
LEMMA OneRow ==
  ASSUME TypeOK, Fit(source.text), NEW c \in DOMAIN q2, NEW d \in DOMAIN q2, Counts(c), Counts(d)
  PROVE  /\ IdOf(q2, c) = IdOf(q2, d) => c = d
         /\ IndexOf(c) = IndexOf(d) => c = d
         /\ IndexOf(c) \in 0 .. MaxId(q1) - MinId(q1)
  BY CountedIndex DEF Fit, FitTogether, Counts, q1, q2, q3

-----------------------------------------------------------------------------
(* Counting the entries *)

LEMMA UpTo ==
  ASSUME NEW n \in Nat
  PROVE  IsFiniteSet(1 .. n) /\ Cardinality(1 .. n) = n
  BY FS_Interval

LEMMA AnnouncedFinite ==
  ASSUME TypeOK, Agree(source.text), NEW n
  PROVE  IsFiniteSet(Announced(n))
<1>1. Announced(n) \subseteq (1 .. Len(q2)) \X (1 .. Len(q3))
  <2> SUFFICES ASSUME NEW c \in DOMAIN q2, Counts(c), NEW m \in 1 .. SizeOf(q2, c)
               PROVE  c \in 1 .. Len(q2) /\ m \in 1 .. Len(q3)
    BY DEF Announced
  <2>1. /\ SizeOf(q2, c) \in Nat \ {0} /\ Start(c) \in 1 .. Len(q3)
        /\ Start(c) + SizeOf(q2, c) - 1 \in 1 .. Len(q3)
    BY Block, Domains
  <2> QED
    BY <2>1, Domains
<1>2. IsFiniteSet(1 .. Len(q2)) /\ IsFiniteSet(1 .. Len(q3))
  BY Domains, UpTo
<1>3. IsFiniteSet((1 .. Len(q2)) \X (1 .. Len(q3)))
  BY <1>2, FS_Product
<1> QED
  BY <1>1, <1>3, FS_Subset

LEMMA AnnouncedNone ==
  ASSUME TypeOK
  PROVE  Cardinality(Announced(0)) = 0
<1>1. Announced(0) = {}
  BY Domains DEF Announced
<1> QED
  BY <1>1, FS_EmptySet

\* One more row of Q2 announces as many entries as it counts.
LEMMA AnnouncedNext ==
  ASSUME TypeOK, Agree(source.text), NEW n \in Nat, n + 1 \in DOMAIN q2
  PROVE  Cardinality(Announced(n + 1)) =
           Cardinality(Announced(n)) + IF Counts(n + 1) THEN SizeOf(q2, n + 1) ELSE 0
<1> DEFINE k == n + 1
           new == {k} \X (1 .. SizeOf(q2, k))
<1>1. DOMAIN q2 \subseteq Nat
  BY Domains
<1>2. \A c \in DOMAIN q2 : c <= k <=> c <= n \/ c = k
  BY <1>1
<1>3. IsFiniteSet(Announced(n)) /\ Cardinality(Announced(n)) \in Nat
  BY AnnouncedFinite, FS_CardinalityType
<1>4. CASE ~Counts(k)
  <2>1. {d \in DOMAIN q2 : Counts(d) /\ d <= k} = {d \in DOMAIN q2 : Counts(d) /\ d <= n}
    BY <1>2, <1>4
  <2>2. Announced(k) = Announced(n)
    BY <2>1 DEF Announced
  <2> QED
    BY <1>3, <1>4, <2>2
<1>5. CASE Counts(k)
  <2>1. {d \in DOMAIN q2 : Counts(d) /\ d <= k} = {d \in DOMAIN q2 : Counts(d) /\ d <= n} \cup {k}
    BY <1>2, <1>5
  <2>2. Announced(k) = Announced(n) \cup new
    BY <2>1, Zenon DEF Announced
  <2>3. \A e \in Announced(n) : e[1] <= n
    BY DEF Announced
  <2>4. Announced(n) \cap new = {}
    BY <2>3
  <2>5. IsFiniteSet(new) /\ Cardinality(new) = SizeOf(q2, k)
    <3>1. SizeOf(q2, k) \in Nat
      BY <1>5, Block
    <3>2. IsFiniteSet(1 .. SizeOf(q2, k)) /\ Cardinality(1 .. SizeOf(q2, k)) = SizeOf(q2, k)
      BY <3>1, UpTo
    <3>3. IsFiniteSet({k}) /\ Cardinality({k}) = 1
      BY FS_Singleton
    <3>4. IsFiniteSet(new) /\ Cardinality(new) = Cardinality({k}) * Cardinality(1 .. SizeOf(q2, k))
      BY <3>2, <3>3, FS_Product
    <3> QED
      BY <3>1, <3>2, <3>3, <3>4
  <2> HIDE DEF new
  <2>6. Cardinality(Announced(n) \cup new) = Cardinality(Announced(n)) + Cardinality(new) - Cardinality({})
    BY <1>3, <2>4, <2>5, FS_Union
  <2>7. Cardinality({}) = 0 /\ SizeOf(q2, k) \in Nat
    BY <1>5, Block, FS_EmptySet
  <2> HIDE DEF k
  <2>8. Cardinality(Announced(k)) = Cardinality(Announced(n) \cup new)
    BY <2>2, Zenon
  <2>9. Cardinality(Announced(k)) = Cardinality(Announced(n)) + SizeOf(q2, k)
    BY <1>3, <2>5, <2>6, <2>7, <2>8
  <2> QED
    BY <1>5, <2>9 DEF k
<1> QED
  BY <1>4, <1>5

LEMMA OneToOne ==
  ASSUME NEW S, NEW T, NEW f \in [S -> T],
         \A j, k \in S : f[j] = f[k] => j = k, \A e \in T : \E k \in S : f[k] = e
  PROVE  f \in Bijection(S, T)
<1>1. DOMAIN f = S
  OBVIOUS
<1>2. IsInjective(f)
  BY <1>1 DEF IsInjective
<1>3. f \in Injection(S, T)
  BY <1>2 DEF Injection
<1>4. f \in Surjection(S, T)
  BY DEF Surjection
<1> QED
  BY <1>3, <1>4 DEF Bijection

\* Queries that agree: Q2 announces as many entries as Q3 has rows.
LEMMA AnnouncedAll ==
  ASSUME TypeOK, Agree(source.text)
  PROVE  Cardinality(Announced(Len(q2))) = Len(q3)
<1> DEFINE Of(k) == CHOOSE c \in DOMAIN q2 : Counts(c) /\ IdOf(q2, c) = IdOf(q3, k)
           f == [k \in DOMAIN q3 |-> <<Of(k), k - Start(Of(k)) + 1>>]
<1>1. ASSUME NEW k \in DOMAIN q3
      PROVE  Of(k) \in DOMAIN q2 /\ Counts(Of(k)) /\ IdOf(q2, Of(k)) = IdOf(q3, k)
  BY AgreeFit, EntryCounts
<1>2. ASSUME NEW k \in DOMAIN q3
      PROVE  /\ Start(Of(k)) \in Nat /\ k \in Nat /\ SizeOf(q2, Of(k)) \in Nat
             /\ k - Start(Of(k)) + 1 \in 1 .. SizeOf(q2, Of(k))
  <2>1. /\ SizeOf(q2, Of(k)) \in Nat \ {0} /\ Start(Of(k)) \in DOMAIN q3
        /\ Start(Of(k)) <= k /\ k <= Start(Of(k)) + SizeOf(q2, Of(k)) - 1
    BY <1>1, Block
  <2>2. k \in Nat /\ Start(Of(k)) \in Nat
    BY <2>1, Domains
  <2> HIDE DEF Of
  <2> QED
    BY <2>1, <2>2
<1> HIDE DEF Of
<1>3. \A k \in DOMAIN q3 : f[k] \in Announced(Len(q2))
  <2> TAKE k \in DOMAIN q3
  <2>1. Of(k) <= Len(q2)
    BY <1>1, Domains
  <2> QED
    BY <1>1, <1>2, <2>1 DEF Announced
<1>4. \A j, k \in DOMAIN q3 : f[j] = f[k] => j = k
  <2> SUFFICES ASSUME NEW j \in DOMAIN q3, NEW k \in DOMAIN q3, f[j] = f[k] PROVE j = k
    OBVIOUS
  <2>1. Of(j) = Of(k) /\ j - Start(Of(j)) + 1 = k - Start(Of(k)) + 1
    OBVIOUS
  <2> QED
    BY <1>2, <2>1
<1>5. \A e \in Announced(Len(q2)) : \E k \in DOMAIN q3 : f[k] = e
  <2> TAKE e \in Announced(Len(q2))
  <2>0. \E c \in DOMAIN q2 : Counts(c) /\ \E m \in 1 .. SizeOf(q2, c) : e = <<c, m>>
    BY DEF Announced
  <2> PICK c \in DOMAIN q2 : Counts(c) /\ \E m \in 1 .. SizeOf(q2, c) : e = <<c, m>>
    BY <2>0
  <2> PICK m \in 1 .. SizeOf(q2, c) : e = <<c, m>>
    OBVIOUS
  <2> DEFINE k == Start(c) + m - 1
  <2>1. /\ SizeOf(q2, c) \in Nat \ {0} /\ Start(c) \in 1 .. Len(q3)
        /\ Start(c) + SizeOf(q2, c) - 1 \in 1 .. Len(q3)
        /\ DOMAIN q3 = 1 .. Len(q3) /\ Len(q3) \in Nat
    BY Block, Domains
  <2>2. k \in DOMAIN q3 /\ Start(c) <= k /\ k <= Start(c) + SizeOf(q2, c) - 1
        /\ k - Start(c) + 1 = m
    BY <2>1
  <2> HIDE DEF k
  <2>3. IdOf(q3, k) = IdOf(q2, c)
    BY <2>2, Block
  <2>4. Of(k) = c
    BY <1>1, <2>2, <2>3, AgreeFit, OneRow
  <2> QED
    BY <2>2, <2>4
<1>6. f \in Bijection(DOMAIN q3, Announced(Len(q2)))
  <2>0. f = [k \in DOMAIN q3 |-> f[k]]
    OBVIOUS
  <2> HIDE DEF f
  <2>1. f \in [DOMAIN q3 -> Announced(Len(q2))]
    BY <1>3, <2>0, Zenon
  <2> QED
    BY <1>4, <1>5, <2>1, OneToOne
<1>7. IsFiniteSet(DOMAIN q3) /\ Cardinality(DOMAIN q3) = Len(q3)
  <2>1. DOMAIN q3 = 1 .. Len(q3) /\ Len(q3) \in Nat
    BY Domains
  <2>2. IsFiniteSet(1 .. Len(q3)) /\ Cardinality(1 .. Len(q3)) = Len(q3)
    BY <2>1, UpTo
  <2> QED
    BY <2>1, <2>2, Zenon
<1>8. ExistsBijection(DOMAIN q3, Announced(Len(q2)))
  BY <1>6 DEF ExistsBijection
<1> QED
  BY <1>7, <1>8, FS_Bijection

-----------------------------------------------------------------------------
(* Every step preserves the invariant *)

\* Steps that do not touch shared memory.
LEMMA SameCache ==
  ASSUME UNCHANGED <<answers, source, calendars, total, names>>
  PROVE  /\ Counted(Len(q2))' <=> Counted(Len(q2))
         /\ Copied(Len(q3))' <=> Copied(Len(q3))
         /\ Counted(row)' <=> Counted(row')
         /\ Copied(row)' <=> Copied(row')
<1>1. q1' = q1 /\ q2' = q2 /\ q3' = q3
  BY SameQueries
<1> QED
  BY <1>1 DEF Counted, Copied, Counts, IndexOf, Announced, Start

LEMMA LoadIdsWhole ==
  ASSUME TypeOK, WholeInvariant, LoadIds
  PROVE  WholeInvariant'
<1>1. ~cache_filled' /\ pc' \in {"free", "q2"}
  BY DEF LoadIds, WholeInvariant, Fail
<1>2. CASE pc' = "q2"
  <2>1. /\ q1' = q1 /\ q2' = q2 /\ q3' = q3 /\ Result = q1 /\ row' = 0
    BY SameQueries DEF LoadIds, TypeOK, Result, q1, locals
  <2>2. calendars' = [i \in 0 .. MaxId(q1) - MinId(q1) |-> Blank] /\ total' = 0
    BY <1>2, <2>1 DEF LoadIds, Fail
  <2>3. DOMAIN q2 \subseteq Nat \ {0}
    BY Domains
  <2>4. Cardinality(Announced(0)') = 0
    <3>1. Announced(0)' = Announced(0)
      BY <2>1 DEF Announced, Counts
    <3> QED
      BY <3>1, AnnouncedNone
  <2>5. \A i \in DOMAIN calendars' : calendars'[i] = Blank /\ ~calendars'[i].indexed
    BY <2>2 DEF Blank
  <2>6. Counted(0)'
    BY <2>1, <2>2, <2>3, <2>4, <2>5 DEF Counted
  <2>7. Counted(row)'
    BY <2>1, <2>6 DEF Counted, Announced
  <2> QED
    BY <1>1, <1>2, <2>5, <2>7 DEF WholeInvariant
<1> QED
  BY <1>1, <1>2 DEF WholeInvariant

LEMMA CountRowWhole ==
  ASSUME TypeOK, LoadInvariant, WholeInvariant, CountRow
  PROVE  WholeInvariant'
<1>1. pc = "q2" /\ ~cache_filled /\ UNCHANGED <<answers, source>> /\ cache_filled' = cache_filled
  BY DEF CountRow, WholeInvariant, imcx, Stray
<1> SUFFICES ASSUME Agree(source.text)', pc' # "free", pc' # "undefined" PROVE WholeInvariant'
  BY <1>1 DEF WholeInvariant
<1> DEFINE k == row + 1
           i == get_calendar_index(IdOf(q2, k))
<1>2. /\ q1' = q1 /\ q2' = q2 /\ q3' = q3 /\ Agree(source.text) /\ Fit(source.text)
      /\ Counted(row) /\ \A x \in DOMAIN calendars : ~calendars[x].indexed
  BY <1>1, SameQueries, AgreeFit DEF WholeInvariant
<1>3. /\ k \in DOMAIN q2 /\ pc' = "q2" /\ row' = k /\ row \in Nat
      /\ \/ ~Counts(k) /\ UNCHANGED imcx
         \/ /\ Counts(k) /\ i = IndexOf(k) /\ i \in DOMAIN calendars
            /\ pg_calendar_init(i, IdOf(q2, k), SizeOf(q2, k))
            /\ NameOf(q2, k) \notin DOMAIN names
            /\ names' = [m \in DOMAIN names \cup {NameOf(q2, k)} |->
                          IF m = NameOf(q2, k) THEN IdOf(q2, k) ELSE names[m]]
  <2>1. k = row + 1 /\ i = get_calendar_index(IdOf(q2, k)) /\ row \in Nat
    BY DEF TypeOK
  <2> HIDE DEF k, i
  <2> QED
    BY <1>2, <2>1, CountRowStep
<1>4. Cardinality(Announced(k)) =
        Cardinality(Announced(row)) + IF Counts(k) THEN SizeOf(q2, k) ELSE 0
  BY <1>2, <1>3, AnnouncedNext
<1>5. \A c \in DOMAIN q2 : c <= k <=> c <= row \/ c = k
  BY <1>3, Domains
<1> HIDE DEF k, i
<1>6. CASE ~Counts(k) /\ UNCHANGED imcx
  <2>1. Counted(k)
    <3>1. \A c \in DOMAIN q2 : Counts(c) /\ c <= k <=> Counts(c) /\ c <= row
      BY <1>5, <1>6
    <3>2. total = Cardinality(Announced(k))
      BY <1>2, <1>4, <1>6, <3>1, Zenon DEF Counted, Announced
    <3> QED
      BY <1>2, <3>1, <3>2 DEF Counted
  <2>2. Counted(row)'
    BY <1>1, <1>3, <1>6, <2>1, SameCache DEF imcx
  <2> QED
    BY <1>1, <1>2, <1>3, <1>6, <2>2 DEF WholeInvariant, imcx
<1>7. CASE /\ Counts(k) /\ i = IndexOf(k) /\ i \in DOMAIN calendars
           /\ pg_calendar_init(i, IdOf(q2, k), SizeOf(q2, k))
           /\ NameOf(q2, k) \notin DOMAIN names
           /\ names' = [m \in DOMAIN names \cup {NameOf(q2, k)} |->
                         IF m = NameOf(q2, k) THEN IdOf(q2, k) ELSE names[m]]
  <2>1. /\ DOMAIN calendars' = DOMAIN calendars
        /\ calendars'[i].id = IdOf(q2, k) /\ calendars'[i].dates = Zeros(SizeOf(q2, k))
        /\ calendars'[i].indexed = calendars[i].indexed
        /\ \A x \in DOMAIN calendars : x # i => calendars'[x] = calendars[x]
        /\ total' = total + SizeOf(q2, k)
    BY <1>7 DEF pg_calendar_init
  <2>2. ASSUME NEW c \in DOMAIN q2, Counts(c), c <= k
        PROVE  /\ calendars'[IndexOf(c)].id = IdOf(q2, c)
               /\ Len(calendars'[IndexOf(c)].dates) = SizeOf(q2, c)
               /\ NameOf(q2, c) \in DOMAIN names' /\ names'[NameOf(q2, c)] = IdOf(q2, c)
    <3>1. CASE c = k
      <4>1. SizeOf(q2, k) \in Nat
        BY <1>2, <1>3, <1>7, Block
      <4> QED
        BY <1>7, <2>1, <3>1, <4>1, ZerosType
    <3>2. CASE c # k
      <4>1. c <= row
        BY <1>5, <2>2, <3>2
      <4>2. IndexOf(c) # i /\ IndexOf(c) \in DOMAIN calendars
        BY <1>2, <1>3, <1>7, <2>2, <3>2, OneRow DEF Counted
      <4>3. /\ calendars[IndexOf(c)].id = IdOf(q2, c)
            /\ Len(calendars[IndexOf(c)].dates) = SizeOf(q2, c)
            /\ NameOf(q2, c) \in DOMAIN names /\ names[NameOf(q2, c)] = IdOf(q2, c)
        BY <1>2, <2>2, <4>1 DEF Counted
      <4> QED
        BY <1>7, <2>1, <4>2, <4>3
    <3> QED
      BY <3>1, <3>2
  <2>3. ASSUME NEW x \in DOMAIN calendars,
               \A c \in DOMAIN q2 : Counts(c) /\ c <= k => IndexOf(c) # x
        PROVE  calendars'[x] = Blank
    <3>1. x # i /\ \A c \in DOMAIN q2 : Counts(c) /\ c <= row => IndexOf(c) # x
      BY <1>3, <1>5, <1>7, <2>3
    <3> QED
      BY <1>2, <2>1, <3>1 DEF Counted
  <2>4. total' = Cardinality(Announced(k))
    BY <1>2, <1>4, <1>7, <2>1 DEF Counted
  <2>5. Announced(row)' = Announced(k)
    BY <1>2, <1>3 DEF Announced, Counts
  <2>6. Counted(row)'
    BY <1>2, <1>3, <2>1, <2>2, <2>3, <2>4, <2>5 DEF Counted, Counts, IndexOf
  <2>7. \A x \in DOMAIN calendars' : ~calendars'[x].indexed
    BY <1>2, <1>7, <2>1
  <2> QED
    BY <1>1, <1>3, <2>6, <2>7 DEF WholeInvariant
<1> QED
  BY <1>3, <1>6, <1>7

LEMMA CountsDoneWhole ==
  ASSUME TypeOK, LoadInvariant, WholeInvariant, CountsDone
  PROVE  WholeInvariant'
<1>1. /\ pc = "q2" /\ pc' = "q3" /\ ~cache_filled /\ row = Len(q2) /\ row' = 0
      /\ UNCHANGED <<answers, source>> /\ UNCHANGED <<imcx, entry_count>>
  BY DEF CountsDone, WholeInvariant, Result, q2, imcx
<1> SUFFICES ASSUME Agree(source.text)' PROVE WholeInvariant'
  BY <1>1 DEF WholeInvariant, imcx
<1>2. /\ q1' = q1 /\ q2' = q2 /\ q3' = q3 /\ Agree(source.text) /\ Fit(source.text)
      /\ Counted(row) /\ \A i \in DOMAIN calendars : ~calendars[i].indexed
  BY <1>1, SameQueries, AgreeFit DEF WholeInvariant
<1>3. entry_count' = 0
  BY <1>1, <1>2 DEF LoadInvariant
<1>4. AtRow(row)'
  BY <1>1, <1>3 DEF AtRow
<1>5. Counted(Len(q2))'
  BY <1>1, <1>2, SameCache DEF imcx
<1>6. Copied(0)
  <2> SUFFICES ASSUME NEW c \in DOMAIN q2, Counts(c)
               PROVE  /\ calendars[IndexOf(c)].indexed <=> Start(c) + SizeOf(q2, c) - 1 <= 0
                      /\ \A k \in DOMAIN q3 : ~(k <= 0)
    BY DEF Copied
  <2>1. ~calendars[IndexOf(c)].indexed
    BY <1>2, OneRow DEF Counted
  <2>2. Start(c) + SizeOf(q2, c) - 1 \in DOMAIN q3
    BY <1>2, Block
  <2>3. \A k \in DOMAIN q3 : ~(k <= 0)
    BY Domains
  <2> QED
    BY <2>1, <2>2, <2>3
<1>7. Copied(row)'
  BY <1>1, <1>6, SameCache DEF imcx
<1> QED
  BY <1>1, <1>4, <1>5, <1>7 DEF WholeInvariant, imcx

\* The place of the next row of Q3 is its distance from the beginning of its block.
LEMMA PlaceInBlock ==
  ASSUME TypeOK, LoadInvariant, Agree(source.text), pc = "q3", AtRow(row), row + 1 \in DOMAIN q3,
         NEW c \in DOMAIN q2, Counts(c), IdOf(q2, c) = EntryId
  PROVE  EntryPlace = (row + 1) - Start(c)
<1> DEFINE k == row + 1
<1>1. row \in Nat /\ DOMAIN q3 = 1 .. Len(q3) /\ Len(q3) \in Nat
  BY Domains DEF TypeOK
<1>2. /\ SizeOf(q2, c) \in Nat \ {0} /\ Start(c) \in DOMAIN q3
      /\ \A m \in DOMAIN q3 : IdOf(q3, m) = EntryId <=>
           Start(c) <= m /\ m <= Start(c) + SizeOf(q2, c) - 1
  BY Block
<1>3. Start(c) <= k /\ k <= Start(c) + SizeOf(q2, c) - 1
  BY <1>2 DEF EntryId
<1>4. CASE row = 0
  <2>1. entry_count = 0
    BY <1>4 DEF AtRow
  <2>2. Start(c) = 1
    BY <1>1, <1>2, <1>3, <1>4
  <2> QED
    BY <1>4, <2>1, <2>2 DEF EntryPlace, Position
<1>5. CASE row # 0 /\ IdOf(q3, row) = EntryId
  <2>1. prev_calendar_id = EntryId /\ entry_count = row - Start(c) + 1
    BY <1>1, <1>5 DEF AtRow
  <2> QED
    BY <1>1, <1>2, <2>1 DEF EntryPlace, Position
<1>6. CASE row # 0 /\ IdOf(q3, row) # EntryId
  <2>1. row \in DOMAIN q3
    BY <1>1, <1>6
  <2>2. PICK d \in DOMAIN q2 : Counts(d) /\ IdOf(q2, d) = IdOf(q3, row)
    BY <2>1, AgreeFit, EntryCounts
  <2>3. prev_calendar_id = IdOf(q3, row)
    BY <1>1, <1>6, <2>2 DEF AtRow
  <2>4. EntryPlace = 0
    BY <1>6, <2>3 DEF EntryPlace, Position
  <2>5. ~(Start(c) <= row)
    BY <1>1, <1>2, <1>3, <1>6, <2>1
  <2> QED
    BY <1>1, <1>2, <1>3, <2>4, <2>5
<1> QED
  BY <1>4, <1>5, <1>6

LEMMA EntryRowWhole ==
  ASSUME TypeOK, LoadInvariant, WholeInvariant, EntryRow, LoadInvariant'
  PROVE  WholeInvariant'
<1>1. pc = "q3" /\ ~cache_filled /\ UNCHANGED <<answers, source>> /\ cache_filled' = cache_filled
  BY DEF EntryRow, WholeInvariant, Stray, imcx
<1> SUFFICES ASSUME Agree(source.text)', pc' # "free" PROVE WholeInvariant'
  BY <1>1 DEF WholeInvariant
<1> DEFINE k == row + 1
<1>2. /\ q1' = q1 /\ q2' = q2 /\ q3' = q3 /\ Agree(source.text) /\ Fit(source.text)
      /\ Counted(Len(q2)) /\ Copied(row) /\ AtRow(row)
  BY <1>1, SameQueries, AgreeFit DEF WholeInvariant
<1>3. /\ row \in Nat /\ k \in DOMAIN q3
      /\ EntryIndex \in DOMAIN calendars /\ EntryPlace \in Nat /\ EntryPlace < Len(EntryDates)
      /\ Len(EntryDates) = Len(calendars[EntryIndex].dates)
      /\ DOMAIN EntryDates = 1 .. Len(EntryDates)
      /\ EntryDates[EntryPlace + 1] = DateOf(q3, k)
      /\ \A x \in 1 .. Len(EntryDates) :
           x # EntryPlace + 1 => EntryDates[x] = calendars[EntryIndex].dates[x]
      /\ calendars' = [calendars EXCEPT ![EntryIndex] =
           [id |-> @.id, dates |-> EntryDates,
            indexed |-> @.indexed \/ Complete(EntryDates, EntryPlace + 1)]]
      /\ prev_calendar_id' = EntryId /\ entry_count' = EntryPlace + 1 /\ row' = k
      /\ UNCHANGED <<pc, min_calendar_id, total, names, cache_filled>>
  BY <1>2, EntryRowStep
<1>4. PICK c \in DOMAIN q2 : Counts(c) /\ IdOf(q2, c) = EntryId
  BY <1>2, <1>3, EntryCounts DEF EntryId
<1>5. EntryIndex = IndexOf(c)
  BY <1>1, <1>2, <1>4 DEF LoadInvariant, Allocated, EntryIndex, get_calendar_index, IndexOf
<1>6. EntryPlace = k - Start(c)
  <2>1. pc = "q3" /\ Agree(source.text) /\ AtRow(row) /\ row + 1 \in DOMAIN q3
    BY <1>1, <1>2, <1>3
  <2> QED
    BY <1>4, <2>1, PlaceInBlock
<1>7. /\ SizeOf(q2, c) \in Nat \ {0} /\ Start(c) \in Nat
      /\ Start(c) <= k /\ k <= Start(c) + SizeOf(q2, c) - 1
      /\ Len(EntryDates) = SizeOf(q2, c)
  <2>1. Len(calendars[IndexOf(c)].dates) = SizeOf(q2, c)
    BY <1>2, <1>4, Domains DEF Counted
  <2>2. /\ SizeOf(q2, c) \in Nat \ {0} /\ Start(c) \in DOMAIN q3
        /\ Start(c) <= k /\ k <= Start(c) + SizeOf(q2, c) - 1
    BY <1>2, <1>3, <1>4, Block DEF EntryId
  <2>3. Start(c) \in Nat
    BY <2>2, Domains
  <2> QED
    BY <1>3, <1>5, <2>1, <2>2, <2>3
<1>8. /\ DOMAIN calendars' = DOMAIN calendars
      /\ calendars'[IndexOf(c)].id = calendars[IndexOf(c)].id
      /\ calendars'[IndexOf(c)].dates = EntryDates
      /\ \A x \in DOMAIN calendars : x # IndexOf(c) => calendars'[x] = calendars[x]
  BY <1>3, <1>5
<1>9. calendars'[IndexOf(c)].indexed <=>
        calendars[IndexOf(c)].indexed \/ Complete(EntryDates, EntryPlace + 1)
  BY <1>3, <1>5
<1>10. \A x \in 1 .. Len(q2) : Counts(x) => IndexOf(x) \in DOMAIN calendars
  BY <1>2, Domains, OneRow DEF Counted
<1> HIDE DEF k
<1>11. Counted(Len(q2))'
  <2>1. \A x \in DOMAIN calendars :
          /\ calendars'[x].id = calendars[x].id
          /\ Len(calendars'[x].dates) = Len(calendars[x].dates)
    BY <1>3, <1>5, <1>8
  <2>2. ASSUME NEW x \in DOMAIN calendars,
               \A d \in DOMAIN q2 : Counts(d) /\ d <= Len(q2) => IndexOf(d) # x
        PROVE  calendars'[x] = Blank
    <3>1. x # IndexOf(c)
      BY <1>4, <2>2, Domains
    <3> QED
      BY <1>2, <1>8, <2>2, <3>1 DEF Counted
  <2>3. Announced(Len(q2))' = Announced(Len(q2))
    BY <1>2 DEF Announced, Counts
  <2>4. \A d \in DOMAIN q2 : Counts(d) => IndexOf(d) \in DOMAIN calendars
    BY <1>10, Domains
  <2> QED
    BY <1>2, <1>3, <1>8, <2>1, <2>2, <2>3, <2>4 DEF Counted, Counts, IndexOf
<1>12. ASSUME NEW d \in DOMAIN q2, Counts(d)
       PROVE  /\ calendars'[IndexOf(d)].indexed <=> Start(d) + SizeOf(q2, d) - 1 <= k
              /\ \A m \in DOMAIN q3 : m <= k /\ IdOf(q3, m) = IdOf(q2, d) =>
                   calendars'[IndexOf(d)].dates[m - Start(d) + 1] = DateOf(q3, m)
  <2>1. /\ calendars[IndexOf(d)].indexed <=> Start(d) + SizeOf(q2, d) - 1 <= row
        /\ \A m \in DOMAIN q3 : m <= row /\ IdOf(q3, m) = IdOf(q2, d) =>
             calendars[IndexOf(d)].dates[m - Start(d) + 1] = DateOf(q3, m)
    BY <1>2, <1>12 DEF Copied
  <2>2. k = row + 1 /\ row \in Nat /\ DOMAIN q3 \subseteq Nat
    BY <1>3, Domains DEF k
  <2>3. CASE d = c
    <3>1. Complete(EntryDates, EntryPlace + 1) <=> k = Start(c) + SizeOf(q2, c) - 1
      BY <1>6, <1>7, <2>2 DEF Complete
    <3>2. calendars'[IndexOf(d)].indexed <=> Start(d) + SizeOf(q2, d) - 1 <= k
      BY <1>7, <1>9, <2>1, <2>2, <2>3, <3>1
    <3>3. ASSUME NEW m \in DOMAIN q3, m <= k, IdOf(q3, m) = IdOf(q2, c)
          PROVE  EntryDates[m - Start(c) + 1] = DateOf(q3, m)
      <4>1. CASE m = k
        <5>1. EntryPlace + 1 = m - Start(c) + 1
          BY <1>6, <4>1
        <5> QED
          BY <1>3, <4>1, <5>1
      <4>2. CASE m # k
        <5>1. m \in Nat /\ m <= row
          BY <2>2, <3>3, <4>2
        <5>2. Start(c) <= m /\ m <= Start(c) + SizeOf(q2, c) - 1
          BY <1>2, <1>4, <3>3, Block
        <5>3. m - Start(c) + 1 \in 1 .. Len(EntryDates) /\ m - Start(c) + 1 # EntryPlace + 1
          BY <1>6, <1>7, <2>2, <5>1, <5>2
        <5>4. calendars[EntryIndex].dates[m - Start(c) + 1] = DateOf(q3, m)
          BY <1>5, <2>1, <2>3, <3>3, <5>1
        <5> QED
          BY <1>3, <5>3, <5>4
      <4> QED
        BY <4>1, <4>2
    <3> QED
      BY <1>8, <2>3, <3>2, <3>3
  <2>4. CASE d # c
    <3>1. IndexOf(d) # IndexOf(c) /\ IdOf(q2, d) # EntryId /\ IndexOf(d) \in DOMAIN calendars
      BY <1>2, <1>4, <1>10, <1>12, <2>4, OneRow, Domains
    <3>2. IdOf(q3, k) # IdOf(q2, d)
      BY <3>1 DEF EntryId, k
    <3>3. /\ Start(d) + SizeOf(q2, d) - 1 \in DOMAIN q3
          /\ Start(d) + SizeOf(q2, d) - 1 # k
      <4>1. /\ Start(d) \in Nat /\ SizeOf(q2, d) \in Nat \ {0}
            /\ Start(d) + SizeOf(q2, d) - 1 \in DOMAIN q3
            /\ ~(Start(d) <= k /\ k <= Start(d) + SizeOf(q2, d) - 1)
        BY <1>2, <1>3, <1>12, <3>2, Block, Domains DEF k
      <4> QED
        BY <4>1
    <3>4. Start(d) + SizeOf(q2, d) - 1 <= k <=> Start(d) + SizeOf(q2, d) - 1 <= row
      BY <2>2, <3>3
    <3>5. \A m \in DOMAIN q3 : m <= k /\ IdOf(q3, m) = IdOf(q2, d) => m <= row
      BY <2>2, <3>2
    <3> QED
      BY <1>8, <2>1, <3>1, <3>4, <3>5
  <2> QED
    BY <2>3, <2>4
<1>13. Copied(row)'
  BY <1>2, <1>3, <1>12 DEF Copied, Counts, IndexOf, Start, k
<1>14. AtRow(row)'
  <2>1. ASSUME NEW d \in DOMAIN q2, Counts(d), IdOf(q3, k) = IdOf(q2, d)
        PROVE  EntryId = IdOf(q3, k) /\ EntryPlace + 1 = k - Start(d) + 1
    <3>1. d = c
      BY <1>2, <1>4, <2>1, OneRow DEF EntryId, k
    <3> QED
      BY <1>6, <3>1 DEF EntryId, k
  <2>2. k # 0
    BY <1>3 DEF k
  <2> QED
    BY <1>2, <1>3, <2>1, <2>2 DEF AtRow, Counts, Start, k
<1> QED
  BY <1>1, <1>3, <1>11, <1>13, <1>14 DEF WholeInvariant

LEMMA OtherWhole ==
  ASSUME TypeOK, WholeInvariant, NoRows \/ Finish \/ Invalidate \/ Restart \/ UNCHANGED vars
  PROVE  WholeInvariant'
<1>1. CASE NoRows
  BY <1>1 DEF NoRows, Fail, WholeInvariant, imcx, Query
<1>2. CASE Finish
  <2>1. /\ pc = "q3" /\ row = Len(q3) /\ pc' = "free"
        /\ UNCHANGED <<answers, source, calendars, total, names>>
    BY <1>2 DEF Finish, Result, q3
  <2>2. q2' = q2 /\ q3' = q3 /\ (Agree(source.text)' <=> Agree(source.text))
    BY <2>1, SameQueries
  <2>3. (Counted(Len(q2))' <=> Counted(Len(q2))) /\ (Copied(Len(q3))' <=> Copied(Len(q3)))
    BY <2>1, SameCache
  <2> QED
    BY <2>1, <2>2, <2>3 DEF WholeInvariant
<1>3. CASE Invalidate \/ Restart
  BY <1>3 DEF Invalidate, cache_invalidate, Restart, WholeInvariant
<1>4. CASE UNCHANGED vars
  <2>1. UNCHANGED <<answers, source, calendars, total, names, row, pc, cache_filled, entry_count,
                    prev_calendar_id>>
    BY <1>4 DEF vars, imcx, locals
  <2>2. q2' = q2 /\ q3' = q3 /\ (Agree(source.text)' <=> Agree(source.text))
    BY <2>1, SameQueries
  <2>3. /\ Counted(Len(q2))' <=> Counted(Len(q2))
        /\ Copied(Len(q3))' <=> Copied(Len(q3))
        /\ Counted(row)' <=> Counted(row')
        /\ Copied(row)' <=> Copied(row')
    BY <2>1, SameCache
  <2>4. AtRow(row)' <=> AtRow(row)
    BY <2>1, <2>2 DEF AtRow, Counts, Start
  <2> QED
    BY <2>1, <2>2, <2>3, <2>4 DEF WholeInvariant
<1> QED
  BY <1>1, <1>2, <1>3, <1>4

LEMMA SettingWhole ==
  ASSUME TypeOK, WholeInvariant, NEW s \in Session,
         Begin(s) \/ \E p \in Settable : Set(s, p[1], p[2])
  PROVE  WholeInvariant'
<1>1. CASE Begin(s)
  BY <1>1 DEF Begin, WholeInvariant, imcx
<1>2. CASE \E p \in Settable : Set(s, p[1], p[2])
  <2>1. pc = "free" /\ pc' = "free"
        /\ UNCHANGED <<answers, source, calendars, total, names, cache_filled>>
    BY <1>2 DEF Set, imcx
  <2>2. q2' = q2 /\ q3' = q3 /\ (Agree(source.text)' <=> Agree(source.text))
    BY <2>1, SameQueries
  <2>3. (Counted(Len(q2))' <=> Counted(Len(q2))) /\ (Copied(Len(q3))' <=> Copied(Len(q3)))
    BY <2>1, SameCache
  <2> QED
    BY <2>1, <2>2, <2>3 DEF WholeInvariant
<1> QED
  BY <1>1, <1>2

LEMMA WholeStep ==
  TypeOK /\ LoadInvariant /\ WholeInvariant /\ [Next]_vars /\ LoadInvariant' => WholeInvariant'
  BY SettingWhole, LoadIdsWhole, CountRowWhole, CountsDoneWhole, EntryRowWhole, OtherWhole
  DEF Next, Load

LEMMA StartWhole == Init => WholeInvariant
  BY DEF Init, WholeInvariant

-----------------------------------------------------------------------------
(* The image *)

\* The rank of a row of Q3 is its place in its block.
LEMMA RankInBlock ==
  ASSUME TypeOK, Agree(source.text), NEW c \in DOMAIN q2, Counts(c), NEW k \in DOMAIN q3,
         IdOf(q3, k) = IdOf(q2, c)
  PROVE  Cardinality({j \in 1 .. k : IdOf(q3, j) = IdOf(q3, k)}) = k - Start(c) + 1
<1>1. /\ Start(c) \in Nat \ {0} /\ k \in Nat /\ Start(c) <= k
      /\ \A j \in 1 .. k : j \in DOMAIN q3 /\ j \in Nat
      /\ k <= Start(c) + SizeOf(q2, c) - 1 /\ SizeOf(q2, c) \in Nat
  BY Block, Domains
<1>2. \A j \in 1 .. k : IdOf(q3, j) = IdOf(q3, k) <=> Start(c) <= j
  <2> TAKE j \in 1 .. k
  <2>1. IdOf(q3, j) = IdOf(q3, k) <=> Start(c) <= j /\ j <= Start(c) + SizeOf(q2, c) - 1
    BY <1>1, Block
  <2>2. j <= Start(c) + SizeOf(q2, c) - 1
    BY <1>1
  <2> QED
    BY <2>1, <2>2
<1>3. {j \in 1 .. k : IdOf(q3, j) = IdOf(q3, k)} = Start(c) .. k
  BY <1>1, <1>2
<1>4. Cardinality(Start(c) .. k) = k - Start(c) + 1
  BY <1>1, FS_Interval
<1> QED
  BY <1>3, <1>4, Zenon

\* The parts of the image of the queries of this load.
Rank(k)    == Cardinality({j \in 1 .. k : IdOf(q3, j) = IdOf(q3, k)})
DatesOf(c) == [n \in 1 .. SizeOf(q2, c) |->
  DateOf(q3, CHOOSE k \in DOMAIN q3 : IdOf(q3, k) = IdOf(q2, c) /\ Rank(k) = n)]
RowsOf(id) == {c \in DOMAIN q2 : Column(q2[c], 1) # Null /\ IdOf(q2, c) = id}
Pictured(i) ==
  IF RowsOf(MinId(q1) + i) = {} THEN Blank
  ELSE [id |-> MinId(q1) + i, dates |-> DatesOf(CHOOSE c \in RowsOf(MinId(q1) + i) : TRUE),
        indexed |-> TRUE]

LEMMA ImageParts == Image(source.text) = [i \in 0 .. MaxId(q1) - MinId(q1) |-> Pictured(i)]
  BY DEF Image, Pictured, RowsOf, DatesOf, Rank, q1, q2, q3

\* The dates of a calendar are those of its rows, in their order.
LEMMA DatesInOrder ==
  ASSUME TypeOK, Agree(source.text), Counted(Len(q2)), Copied(Len(q3)),
         NEW c \in DOMAIN q2, Counts(c)
  PROVE  calendars[IndexOf(c)].dates = DatesOf(c)
<1> DEFINE dates == calendars[IndexOf(c)].dates
<1>1. IndexOf(c) \in DOMAIN calendars
  BY AgreeFit, OneRow DEF Counted
<1>2. dates \in Seq(Int) /\ Len(dates) = SizeOf(q2, c)
  BY <1>1, Domains DEF TypeOK, Calendar, Counted
<1>3. /\ SizeOf(q2, c) \in Nat \ {0} /\ Start(c) \in 1 .. Len(q3)
      /\ Start(c) + SizeOf(q2, c) - 1 \in 1 .. Len(q3)
  BY Block, Domains
<1>4. ASSUME NEW n \in 1 .. SizeOf(q2, c)
      PROVE  dates[n] = DatesOf(c)[n]
  <2> DEFINE k == Start(c) + n - 1
  <2>1. k \in 1 .. Len(q3) /\ Start(c) <= k /\ k <= Start(c) + SizeOf(q2, c) - 1
        /\ k - Start(c) + 1 = n
    BY <1>3, Domains
  <2> HIDE DEF k
  <2>2. k \in DOMAIN q3 /\ IdOf(q3, k) = IdOf(q2, c)
    BY <2>1, Block, Domains
  <2>3. ASSUME NEW m \in DOMAIN q3, IdOf(q3, m) = IdOf(q2, c)
        PROVE  Rank(m) = n <=> m = k
    <3>1. Rank(m) = m - Start(c) + 1 /\ m \in Nat
      BY <2>3, RankInBlock, Domains DEF Rank
    <3>2. Start(c) \in Int /\ k \in Int /\ k - Start(c) + 1 = n
      BY <1>3, <2>1
    <3>3. m - Start(c) + 1 = n <=> m = k
      BY <3>1, <3>2
    <3> QED
      BY <3>1, <3>3
  <2>4. (CHOOSE m \in DOMAIN q3 : IdOf(q3, m) = IdOf(q2, c) /\ Rank(m) = n) = k
    BY <2>2, <2>3
  <2>5. dates[n] = DateOf(q3, k)
    <3>1. k <= Len(q3)
      BY <2>1
    <3>2. dates[k - Start(c) + 1] = DateOf(q3, k)
      BY <2>2, <3>1 DEF Copied
    <3> QED
      BY <2>1, <3>2
  <2> QED
    BY <2>4, <2>5 DEF DatesOf
<1>5. DOMAIN dates = 1 .. SizeOf(q2, c)
  BY <1>2
<1>6. DOMAIN DatesOf(c) = 1 .. SizeOf(q2, c)
  BY DEF DatesOf
<1>7. dates = [n \in 1 .. SizeOf(q2, c) |-> dates[n]]
  BY <1>2, <1>5
<1>8. DatesOf(c) = [n \in 1 .. SizeOf(q2, c) |-> DatesOf(c)[n]]
  BY DEF DatesOf
<1> HIDE DEF dates
<1>9. dates = DatesOf(c)
  BY <1>4, <1>7, <1>8, Zenon
<1> QED
  BY <1>9 DEF dates

LEMMA SameCalendar ==
  ASSUME NEW x \in Calendar, NEW id, NEW dates,
         x.id = id, x.dates = dates, x.indexed = TRUE
  PROVE  x = [id |-> id, dates |-> dates, indexed |-> TRUE]
  BY DEF Calendar

LEMMA WholeIsImage == TypeOK /\ WholeInvariant => LoadedWhole
<1> SUFFICES ASSUME TypeOK, WholeInvariant, cache_filled, Agree(source.text)
             PROVE  LoadedWhole
  BY DEF LoadedWhole
<1>1. Counted(Len(q2)) /\ Copied(Len(q3))
  BY DEF WholeInvariant
<1>2. MinId(q1) \in Int /\ MaxId(q1) \in Int /\ \A c : IdOf(q2, c) \in Int
  BY Numbers
<1>3. DOMAIN calendars = 0 .. MaxId(q1) - MinId(q1)
  BY <1>1 DEF Counted
<1>4. ASSUME NEW i \in DOMAIN calendars
      PROVE  calendars[i] = Pictured(i)
  <2>0. i \in Int
    BY <1>3
  <2>1. CASE RowsOf(MinId(q1) + i) = {}
    <3>1. \A c \in DOMAIN q2 : Counts(c) => IndexOf(c) # i
      BY <1>2, <2>0, <2>1 DEF RowsOf, Counts, IndexOf
    <3>2. calendars[i] = Blank
      BY <1>1, <3>1 DEF Counted
    <3> QED
      BY <2>1, <3>2 DEF Pictured
  <2>2. CASE RowsOf(MinId(q1) + i) # {}
    <3> DEFINE c == CHOOSE c \in RowsOf(MinId(q1) + i) : TRUE
    <3>1. c \in RowsOf(MinId(q1) + i)
      BY <2>2
    <3> HIDE DEF c
    <3>2. c \in DOMAIN q2 /\ Counts(c) /\ IdOf(q2, c) = MinId(q1) + i
      BY <3>1 DEF RowsOf, Counts
    <3>3. IndexOf(c) = i
      BY <1>2, <2>0, <3>2 DEF IndexOf
    <3>4. calendars[i].id = MinId(q1) + i
      BY <1>1, <3>2, <3>3, Domains DEF Counted
    <3>5. calendars[i].dates = DatesOf(c)
      BY <1>1, <3>2, <3>3, DatesInOrder
    <3>6. calendars[i].indexed
      <4>1. Start(c) + SizeOf(q2, c) - 1 <= Len(q3)
        BY <3>2, Block, Domains
      <4> QED
        BY <1>1, <3>2, <3>3, <4>1 DEF Copied
    <3>7. calendars[i] \in Calendar
      BY DEF TypeOK
    <3>8. calendars[i].indexed = TRUE
      BY <3>6, <3>7 DEF Calendar
    <3>9. calendars[i] = [id |-> MinId(q1) + i, dates |-> DatesOf(c), indexed |-> TRUE]
      BY <3>4, <3>5, <3>7, <3>8, SameCalendar
    <3> QED
      BY <2>2, <3>9 DEF Pictured, c
  <2> QED
    BY <2>1, <2>2
<1>5. calendars = Image(source.text)
  <2>1. calendars = [i \in DOMAIN calendars |-> calendars[i]]
    BY DEF TypeOK
  <2> QED
    BY <1>3, <1>4, <2>1, ImageParts
<1>6. total = Len(q3)
  BY <1>1, AnnouncedAll DEF Counted
<1>7. \A c \in DOMAIN q2 : Counts(c) => NameOf(q2, c) \in DOMAIN names /\ names[NameOf(q2, c)] = IdOf(q2, c)
  BY <1>1, Domains DEF Counted
<1> QED
  BY <1>5, <1>6, <1>7 DEF LoadedWhole, Counts, q2, q3

\* A cache that is marked as filled, by queries that agree, holds what they
\* return: every calendar with all its dates in their order and a page map, the
\* number of all entries, and each name.  This is so for every database, and
\* whatever loads failed before or were invalidated.
THEOREM LoadCorrect == Spec => []LoadedWhole
<1>1. Init => TypeOK /\ LoadInvariant /\ WholeInvariant
  BY StartType, StartInvariant, StartWhole
<1>2. /\ TypeOK /\ LoadInvariant /\ WholeInvariant /\ [Next]_vars
      => TypeOK' /\ LoadInvariant' /\ WholeInvariant'
  BY TypeStep, InvariantStep, WholeStep
<1>3. TypeOK /\ WholeInvariant => LoadedWhole
  BY WholeIsImage
<1> QED
  BY <1>1, <1>2, <1>3, PTL DEF Spec

-----------------------------------------------------------------------------
(* The setting that shares the variable of Q3 *)

\* A text other than the default is one that the session has set as such.
GivenTexts ==
  /\ \A s \in Session, q \in Query : text[s][q] # Default[q] => q \in given[s]
  /\ \A q \in Query : source.text[q] # Default[q] => q \in source.given

LEMMA GivenStart == Init => GivenTexts
  BY LoadingAssumption DEF Init, GivenTexts

LEMMA GivenStep ==
  ASSUME \A p \in Settable : p[1] # "schema_validation"
  PROVE  TypeOK /\ GivenTexts /\ [Next]_vars => GivenTexts'
<1> SUFFICES ASSUME TypeOK, GivenTexts, [Next]_vars PROVE GivenTexts'
  OBVIOUS
<1>1. ASSUME NEW s \in Session, NEW p \in Settable, Set(s, p[1], p[2]) PROVE GivenTexts'
  <2>1. BoundTo(p[1]) = p[1]
    BY DEF BoundTo
  <2>2. /\ text' = [text EXCEPT ![s][p[1]] = p[2]] /\ given' = [given EXCEPT ![s] = @ \cup {p[1]}]
        /\ UNCHANGED source
    BY <1>1, <2>1 DEF Set
  <2> QED
    BY <2>2 DEF GivenTexts, TypeOK
<1>2. ASSUME NEW s \in Session, Begin(s) PROVE GivenTexts'
  BY <1>2 DEF Begin, GivenTexts, settings
<1>3. CASE Restart
  BY <1>3, LoadingAssumption DEF Restart, GivenTexts
<1>4. CASE Load \/ Invalidate \/ UNCHANGED vars
  <2>1. UNCHANGED <<text, given, source>>
    BY <1>4 DEF Load, NoRows, LoadIds, CountRow, CountsDone, EntryRow, Finish, Invalidate,
       vars, settings
  <2> QED
    BY <2>1 DEF GivenTexts
<1> QED
  BY <1>1, <1>2, <1>3, <1>4 DEF Next

LEMMA GivenWhole == TypeOK /\ LoadedWhole /\ GivenTexts => DefaultLoadIsWhole
<1> SUFFICES ASSUME TypeOK, LoadedWhole, GivenTexts, cache_filled,
                    source.given \cap Query = {}, Agree(Default)
             PROVE  calendars = Image(Default)
  BY DEF DefaultLoadIsWhole
<1>1. \A q \in Query : source.text[q] = Default[q]
  BY DEF GivenTexts
<1>2. source.text \in [Query -> Text] /\ Default \in [Query -> Text]
  BY LoadingAssumption DEF TypeOK
<1>3. source.text = Default
  BY <1>1, <1>2
<1> QED
  BY <1>3 DEF LoadedWhole

\* Where no session may set kq.calendar.q_schema_validation, a session that has
\* not set Q1, Q2 or Q3 fills the cache with what the default queries return:
\* the variable that this setting shares with Q3 is all that keeps the program
\* from what the documentation says.
THEOREM DefaultLoadCorrect ==
  ASSUME \A p \in Settable : p[1] # "schema_validation"
  PROVE  Spec => []DefaultLoadIsWhole
  BY GivenStart, GivenStep, GivenWhole, TypeCorrect, LoadCorrect, PTL DEF Spec

=============================================================================
