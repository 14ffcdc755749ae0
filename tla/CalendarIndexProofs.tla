------------------------ MODULE CalendarIndexProofs ------------------------
(***************************************************************************)
(* What holds of CalendarIndex for every sorted calendar, every input and  *)
(* every interval: the page map is exact, the search finds the closest     *)
(* date from the left up to the last date, and the answer is the           *)
(* documented one: from the first date to the last, before the first for   *)
(* intervals that are not positive, and where the sum does not overflow.   *)
(***************************************************************************)
EXTENDS CalendarIndex, TLAPS

-----------------------------------------------------------------------------
(* The inductive invariant *)

Index == 0 .. dates_size - 1

\* The calendar that Q3 has filled.
SortedCalendar ==
  /\ dates_size \in 1 .. MaxEntries
  /\ dates \in [Index -> INT32]
  /\ \A i, j \in Index : i <= j => dates[i] <= dates[j]

NotIndexed ==
  /\ page_size = 0 /\ first_page_offset = 0 /\ page_map_size = 0
  /\ page_map = [p \in {} |-> 0]
  /\ date_index = 0 /\ prev_page_index = 0

Paged ==
  /\ page_size \in {16, 32}
  /\ first_page_offset = Quotient(First, page_size)
  /\ page_map_size = PageOf(Last) + 1

\* The loop of pg_init_page_size has mapped the dates before date_index, and
\* the pages up to prev_page_index, which is the page of the last of them.
Mapped ==
  /\ page_map \in [0 .. page_map_size - 1 -> 0 .. dates_size - 1]
  /\ date_index \in 0 .. dates_size
  /\ prev_page_index \in 0 .. page_map_size - 1
  /\ \A i \in Index : i < date_index => PageOf(dates[i]) <= prev_page_index
  /\ date_index = 0 \/ prev_page_index = PageOf(dates[date_index - 1])
  /\ date_index = 0 => prev_page_index = 0
  /\ \A p \in 0 .. prev_page_index :
       /\ page_map[p] <= date_index
       /\ \A i \in Index : i < date_index => (PageOf(dates[i]) < p <=> i < page_map[p])

MapInvariant ==
  /\ SortedCalendar
  /\ pc = "init_page_size" => NotIndexed
  /\ pc # "init_page_size" => Paged /\ Mapped
  /\ pc \notin {"init_page_size", "map"} => date_index = dates_size

\* The binary search: entries on the left of the interval are before the
\* input, and entries on its right after it.
Narrowed ==
  /\ left \in 0 .. dates_size /\ right \in -1 .. dates_size
  /\ \A i \in Index : i < left => dates[i] < input_date
  /\ \A i \in Index : i > right => dates[i] > input_date

SearchInvariant ==
  /\ pc \in {"init_page_size", "map", "ready", "search", "closest"}
  /\ input_date \in INT32 /\ interval \in INT32
  /\ left \in Int /\ right \in Int /\ prev_date_index \in Int
  /\ result \in [status : {"none", "success", "negative", "positive"}, date : INT32]
  /\ pc \in {"init_page_size", "map"} => result = NoResult
  /\ pc = "search" /\ input_date <= Last => Narrowed
  /\ ClosestUpToLast
  /\ AnswerAsDocumented

-----------------------------------------------------------------------------
(* Arithmetic *)

\* Truncated division by a page size keeps the order of the days.
LEMMA QuotientOrder ==
  ASSUME NEW d \in {16, 32}, NEW m \in Int, NEW n \in Int, m <= n
  PROVE  Quotient(m, d) \in Int /\ Quotient(m, d) <= Quotient(n, d)
<1>1. CASE d = 16
  BY <1>1 DEF Quotient
<1>2. CASE d = 32
  BY <1>2 DEF Quotient
<1> QED
  BY <1>1, <1>2

LEMMA Bounds ==
  /\ PG_INT32_MAX \in Nat /\ INT32 \subseteq Int /\ 0 \in INT32 /\ PG_INT32_MAX \in INT32
  /\ MaxEntries \in Nat
  BY IndexAssumption DEF INT32

\* The entries of the calendar.
LEMMA Entries ==
  ASSUME SortedCalendar
  PROVE  /\ dates_size \in Nat /\ dates_size >= 1 /\ 0 \in Index /\ dates_size - 1 \in Index
         /\ First \in INT32 /\ Last \in INT32 /\ First \in Int /\ Last \in Int /\ First <= Last
         /\ \A i \in Index : dates[i] \in INT32 /\ dates[i] \in Int /\ First <= dates[i] /\ dates[i] <= Last
<1>1. dates_size \in Nat /\ dates_size >= 1 /\ 0 \in Index /\ dates_size - 1 \in Index
  BY Bounds DEF SortedCalendar, Index
<1>2. \A i \in Index : dates[i] \in INT32 /\ 0 <= i /\ i <= dates_size - 1
  BY <1>1 DEF SortedCalendar, Index
<1>3. \A i \in Index : First <= dates[i] /\ dates[i] <= Last
  BY <1>1, <1>2 DEF SortedCalendar, First, Last
<1> QED
  BY <1>1, <1>2, <1>3, Bounds DEF First, Last

\* A later day is on the same page or on a later one.
LEMMA PageOrder ==
  ASSUME MapInvariant, pc # "init_page_size", NEW m \in Int, NEW n \in Int, m <= n
  PROVE  PageOf(m) \in Int /\ PageOf(n) \in Int /\ PageOf(m) <= PageOf(n)
<1>1. First \in Int /\ page_size \in {16, 32} /\ first_page_offset = Quotient(First, page_size)
  BY Bounds, Entries DEF MapInvariant, Paged
<1>2. /\ Quotient(m, page_size) \in Int /\ Quotient(n, page_size) \in Int
      /\ Quotient(m, page_size) <= Quotient(n, page_size)
      /\ Quotient(First, page_size) \in Int
  BY <1>1, QuotientOrder
<1> QED
  BY <1>1, <1>2 DEF PageOf

-----------------------------------------------------------------------------
(* pg_init_page_size *)

LEMMA MapStart == Init => MapInvariant
  BY Bounds, IndexAssumption DEF Init, MapInvariant, SortedCalendar, Index, NotIndexed

LEMMA InitPageSizeMap ==
  ASSUME MapInvariant, InitPageSize
  PROVE  MapInvariant'
<1>1. /\ pc = "init_page_size" /\ pc' = "map" /\ UNCHANGED <<dates_size, dates>>
      /\ SortedCalendar /\ NotIndexed /\ date_index' = 0 /\ prev_page_index' = 0
  BY DEF InitPageSize, MapInvariant, calendar, loop, NotIndexed
<1>2. page_size' \in {16, 32}
  BY DEF InitPageSize, calculate_page_size
<1>3. First' = First /\ Last' = Last /\ First \in Int /\ Last \in Int /\ First <= Last
  BY <1>1, Entries, Bounds DEF First, Last
<1>4. /\ first_page_offset' = Quotient(First, page_size')
      /\ page_map_size' = Quotient(Last, page_size') - first_page_offset' + 1
  BY DEF InitPageSize
<1>5. first_page_offset' \in Int /\ page_map_size' \in Int /\ page_map_size' >= 1
  BY <1>2, <1>3, <1>4, QuotientOrder, SMTT(30)
<1>6. SortedCalendar'
  BY <1>1 DEF SortedCalendar, Index
<1>7. Paged'
  BY <1>2, <1>3, <1>4 DEF Paged, PageOf
<1>8. page_map' = [p \in 0 .. page_map_size' - 1 |-> 0]
  BY DEF InitPageSize
<1>9. Mapped'
  <2>1. dates_size \in Nat /\ dates_size >= 1 /\ dates_size' = dates_size
    BY <1>1, Entries
  <2>6. 0 \in 0 .. page_map_size' - 1 /\ 0 \in 0 .. dates_size' - 1 /\ 0 \in 0 .. dates_size'
    <3>1. \A n \in Int : n >= 1 => 0 \in 0 .. n - 1 /\ 0 \in 0 .. n
      OBVIOUS
    <3>2. 0 \in 0 .. page_map_size' - 1
      BY <1>5, <3>1
    <3>3. dates_size' \in Int /\ dates_size' >= 1
      BY <2>1
    <3>4. 0 \in 0 .. dates_size' - 1 /\ 0 \in 0 .. dates_size'
      BY <3>1, <3>3
    <3> QED
      BY <3>2, <3>4
  <2>2. page_map' \in [0 .. page_map_size' - 1 -> 0 .. dates_size' - 1] /\ page_map'[0] = 0
    BY <1>8, <2>6
  <2>3. \A i \in Index' : ~(i < date_index')
    BY <1>1, <2>1 DEF Index
  <2>4. prev_page_index' \in 0 .. page_map_size' - 1 /\ date_index' \in 0 .. dates_size'
    BY <1>1, <2>6
  <2>5. \A p \in 0 .. prev_page_index' : p = 0
    BY <1>1
  <2> QED
    BY <1>1, <2>2, <2>3, <2>4, <2>5 DEF Mapped
<1> QED
  BY <1>1, <1>6, <1>7, <1>9 DEF MapInvariant

LEMMA MapDateMap ==
  ASSUME MapInvariant, MapDate
  PROVE  MapInvariant'
<1> DEFINE d == date_index
           page == PageOf(dates[d])
<1>1. /\ pc = "map" /\ pc' = "map" /\ SortedCalendar /\ Paged /\ Mapped
      /\ UNCHANGED <<dates_size, dates, page_size, first_page_offset, page_map_size>>
      /\ d < dates_size /\ date_index' = d + 1
  BY DEF MapInvariant, MapDate, calendar
<1>2. /\ d \in Index /\ d \in Nat /\ dates_size \in Nat
      /\ \A i \in Index : dates[i] \in Int
  BY <1>1, Entries DEF Mapped, Index
<1>3. \A i \in Index : PageOf(dates[i]) \in Int
                       /\ PageOf(dates[i]) <= PageOf(Last) /\ PageOf(First) <= PageOf(dates[i])
  <2>1. First \in Int /\ Last \in Int
    BY <1>1, Entries, Bounds
  <2> QED
    BY <1>1, <1>2, <2>1, Entries, PageOrder
<1>4. PageOf(First) = 0
  <2>1. First \in Int /\ page_size \in {16, 32} /\ first_page_offset = Quotient(First, page_size)
    BY <1>1, Entries, Bounds DEF Paged
  <2> QED
    BY <2>1, QuotientOrder DEF PageOf
<1>5. page \in Int /\ 0 <= page /\ page <= page_map_size - 1 /\ page_map_size \in Int
  <2>1. PageOf(Last) \in Int
    BY <1>1, <1>3, Entries DEF Last
  <2> QED
    BY <1>1, <1>2, <1>3, <1>4, <2>1 DEF Paged
<1>6. prev_page_index \in Nat /\ prev_page_index <= page_map_size - 1
  BY <1>1, <1>5 DEF Mapped
<1>7. prev_page_index <= page
  <2>1. CASE d = 0
    BY <1>1, <1>5, <2>1 DEF Mapped
  <2>2. CASE d # 0
    <3>1. d - 1 \in Index /\ d - 1 <= d
      BY <1>2, <2>2 DEF Index
    <3>2. dates[d - 1] <= dates[d]
      BY <1>1, <1>2, <3>1 DEF SortedCalendar
    <3>3. PageOf(dates[d - 1]) <= page
      BY <1>1, <1>2, <3>1, <3>2, PageOrder
    <3> QED
      BY <1>1, <2>2, <3>3 DEF Mapped
  <2> QED
    BY <2>1, <2>2
<1>8. prev_page_index' = page
  BY <1>5, <1>6, <1>7 DEF MapDate
<1>9. page_map' = [p \in DOMAIN page_map \cup Started(page) |->
                     IF p \in Started(page) THEN d ELSE page_map[p]]
  BY DEF MapDate
<1>10. Started(page) = prev_page_index + 1 .. page /\ DOMAIN page_map = 0 .. page_map_size - 1
  BY <1>1 DEF Started, Mapped
<1>11. /\ \A i \in Index : (PageOf(dates[i]))' = PageOf(dates[i])
       /\ Index' = Index /\ First' = First /\ Last' = Last /\ PageOf(Last)' = PageOf(Last)
  BY <1>1 DEF PageOf, Index, First, Last
<1> HIDE DEF d, page
<1>12. DOMAIN page_map \cup Started(page) = 0 .. page_map_size - 1
  BY <1>5, <1>6, <1>10
<1>13. page_map' \in [0 .. page_map_size - 1 -> 0 .. dates_size - 1]
  <2>1. d \in 0 .. dates_size - 1
    BY <1>2 DEF Index
  <2>2. page_map \in [0 .. page_map_size - 1 -> 0 .. dates_size - 1]
    BY <1>1 DEF Mapped
  <2> QED
    BY <1>9, <1>12, <2>1, <2>2
<1>14. \A p \in 0 .. page : page_map'[p] = IF p <= prev_page_index THEN page_map[p] ELSE d
  BY <1>5, <1>6, <1>9, <1>10, <1>12
<1>15. ASSUME NEW i \in Index, i < d + 1 PROVE PageOf(dates[i]) <= page
  <2>1. CASE i = d
    BY <1>5, <2>1 DEF page
  <2>2. CASE i # d
    <3>1. i < date_index /\ PageOf(dates[i]) \in Int
      BY <1>2, <1>3, <1>15, <2>2 DEF Index, d
    <3>2. PageOf(dates[i]) <= prev_page_index
      BY <1>1, <3>1 DEF Mapped
    <3> QED
      BY <1>5, <1>6, <1>7, <3>1, <3>2
  <2> QED
    BY <2>1, <2>2
<1>16. ASSUME NEW p \in 0 .. page
       PROVE  /\ page_map'[p] <= d + 1
              /\ \A i \in Index : i < d + 1 => (PageOf(dates[i]) < p <=> i < page_map'[p])
  <2>1. CASE p <= prev_page_index
    <3>1. p \in 0 .. prev_page_index /\ page_map'[p] = page_map[p]
      BY <1>5, <1>6, <1>14, <2>1
    <3>2. /\ page_map[p] <= d
          /\ \A i \in Index : i < d => (PageOf(dates[i]) < p <=> i < page_map[p])
      BY <1>1, <3>1 DEF Mapped, d
    <3>3. page_map[p] \in Int
      BY <1>1, <1>5, <1>6, <3>1 DEF Mapped
    <3>4. page >= p /\ ~(d < page_map[p])
      BY <1>2, <3>2, <3>3
    <3>5. ASSUME NEW i \in Index, i < d + 1
          PROVE  PageOf(dates[i]) < p <=> i < page_map[p]
      <4>1. CASE i = d
        BY <1>5, <3>4, <4>1 DEF page
      <4>2. CASE i # d
        BY <1>2, <3>2, <3>5, <4>2 DEF Index
      <4> QED
        BY <4>1, <4>2
    <3> QED
      BY <1>2, <3>1, <3>2, <3>3, <3>5
  <2>2. CASE p > prev_page_index
    <3>1. page_map'[p] = d
      BY <1>6, <1>14, <2>2
    <3>2. ASSUME NEW i \in Index, i < d + 1
          PROVE  PageOf(dates[i]) < p <=> i < d
      <4>1. CASE i = d
        BY <1>2, <1>5, <4>1 DEF page
      <4>2. CASE i # d
        <5>1. i < date_index /\ PageOf(dates[i]) \in Int
          BY <1>2, <1>3, <3>2, <4>2 DEF Index, d
        <5>2. PageOf(dates[i]) <= prev_page_index
          BY <1>1, <5>1 DEF Mapped
        <5> QED
          BY <1>6, <2>2, <5>1, <5>2 DEF d
      <4> QED
        BY <4>1, <4>2
    <3> QED
      BY <1>2, <3>1, <3>2
  <2> QED
    BY <1>6, <2>1, <2>2
<1>17. SortedCalendar' /\ Paged'
  BY <1>1, <1>11 DEF SortedCalendar, Paged
<1>18. Mapped'
  <2>1. date_index' = d + 1 /\ date_index' \in 0 .. dates_size /\ date_index' # 0
    BY <1>1, <1>2 DEF d
  <2>2. prev_page_index' \in 0 .. page_map_size - 1
    BY <1>5, <1>8
  <2>3. PageOf(dates[date_index - 1])' = page
    BY <1>1, <1>2, <1>11, <2>1 DEF d, page, PageOf
  <2> QED
    BY <1>1, <1>8, <1>11, <1>13, <1>15, <1>16, <2>1, <2>2, <2>3 DEF Mapped
<1> QED
  BY <1>1, <1>17, <1>18 DEF MapInvariant

\* The other steps leave the calendar and its index alone.
LEMMA OtherMap ==
  ASSUME MapInvariant, UNCHANGED <<calendar, index, loop>>,
         \/ pc' = pc
         \/ pc = "map" /\ date_index = dates_size /\ pc' # "init_page_size"
         \/ pc \notin {"init_page_size", "map"} /\ pc' # "init_page_size"
  PROVE  MapInvariant'
<1>1. SortedCalendar' /\ (Paged' <=> Paged) /\ (Mapped' <=> Mapped) /\ (NotIndexed' <=> NotIndexed)
  BY DEF MapInvariant, calendar, index, loop, SortedCalendar, Index, Paged, Mapped, NotIndexed,
         PageOf, First, Last
<1> QED
  BY <1>1 DEF MapInvariant, calendar, loop

LEMMA MapStep == MapInvariant /\ [Next]_vars => MapInvariant'
<1> SUFFICES ASSUME MapInvariant, [Next]_vars PROVE MapInvariant'
  OBVIOUS
<1>1. CASE MapDone
  BY <1>1, OtherMap DEF MapDone
<1>2. ASSUME NEW day \in InputDay, NEW n \in Interval, AddCalendarDays(day, n)
      PROVE  MapInvariant'
  BY <1>2, OtherMap DEF AddCalendarDays
<1>3. CASE Search
  BY <1>3, OtherMap DEF Search
<1>4. CASE SearchEnds \/ Answer
  BY <1>4, OtherMap DEF SearchEnds, Answer
<1>5. CASE UNCHANGED vars
  BY <1>5, OtherMap DEF vars
<1> QED
  BY <1>1, <1>2, <1>3, <1>4, <1>5, InitPageSizeMap, MapDateMap DEF Next, Compute

LEMMA PageMapFollows == MapInvariant => PageMapExact
<1> SUFFICES ASSUME MapInvariant, pc \notin {"init_page_size", "map"},
                    NEW p \in 0 .. page_map_size - 1, NEW i \in Index
             PROVE  PageOf(dates[i]) < p <=> i < page_map[p]
  BY DEF PageMapExact, Index
<1>1. Paged /\ Mapped /\ SortedCalendar /\ date_index = dates_size
  BY DEF MapInvariant
<1>2. dates_size # 0 /\ i < date_index /\ prev_page_index = PageOf(dates[date_index - 1])
  BY <1>1, Entries DEF Mapped, Index
<1>3. prev_page_index = page_map_size - 1
  <2>1. PageOf(Last) = prev_page_index /\ prev_page_index \in Int
    BY <1>1, <1>2 DEF Last, Mapped
  <2> QED
    BY <1>1, <2>1 DEF Paged
<1> QED
  BY <1>1, <1>2, <1>3 DEF Mapped

\* The page map points, for each page, to the first date on it or after it: for
\* every sorted calendar of pg_init_page_size, with truncated division.
THEOREM PageMapCorrect == Spec => []PageMapExact
  BY MapStart, MapStep, PageMapFollows, PTL DEF Spec

-----------------------------------------------------------------------------
(* add_calendar_days *)

\* The pages of the days: the first date is on page 0, the last on the last.
LEMMA Pages ==
  ASSUME MapInvariant, pc # "init_page_size"
  PROVE  PageOf(First) = 0 /\ PageOf(Last) = page_map_size - 1 /\ page_map_size \in Int
<1>1. /\ First \in Int /\ Last \in Int /\ page_size \in {16, 32}
      /\ first_page_offset = Quotient(First, page_size) /\ page_map_size = PageOf(Last) + 1
  BY Entries, Bounds DEF MapInvariant, Paged
<1>2. PageOf(First) = 0 /\ PageOf(Last) \in Int
  BY <1>1, QuotientOrder, SMTT(30) DEF PageOf
<1> QED
  BY <1>1, <1>2

\* The index of the closest date, as Closest defines it.
LEMMA ClosestRange ==
  ASSUME SortedCalendar, NEW day \in Int
  PROVE  Closest(day) \subseteq -1 .. dates_size - 1
<1>1. dates_size \in Nat /\ dates_size >= 1
  BY Entries
<1>2. -1 \in -1 .. dates_size - 1 /\ 0 .. dates_size - 1 \subseteq -1 .. dates_size - 1
  BY <1>1
<1> QED
  BY <1>2 DEF Closest

LEMMA ClosestBefore ==
  ASSUME NEW day \in Int, day < First
  PROVE  -1 \in Closest(day)
  BY DEF Closest

LEMMA ClosestAt ==
  ASSUME SortedCalendar, NEW day \in Int, NEW m \in Index, dates[m] <= day,
         \A j \in Index : dates[j] <= day => dates[j] <= dates[m]
  PROVE  m \in Closest(day)
<1>1. ~(day < First)
  BY Entries
<1> QED
  BY <1>1 DEF Closest, Index

\* Up to the last date the middle of the interval is an entry.
LEMMA MidIsEntry ==
  ASSUME SortedCalendar, Narrowed, input_date \in Int, input_date <= Last, left <= right
  PROVE  mid \in Index /\ Entry = {dates[mid]} /\ left <= mid /\ mid <= right
<1>1. /\ dates_size \in Nat /\ dates_size >= 1 /\ dates_size - 1 \in Index
      /\ left \in 0 .. dates_size /\ right \in -1 .. dates_size
  BY Entries DEF Narrowed
<1>2. left # dates_size
  <2>1. ~(Last < input_date)
    BY Entries
  <2> QED
    BY <1>1, <2>1 DEF Narrowed, Last
<1>3. mid \in Int /\ left <= mid /\ mid <= right /\ mid < dates_size
  BY <1>1, <1>2 DEF mid
<1>4. mid \in Index
  BY <1>1, <1>3 DEF Index
<1> QED
  BY <1>3, <1>4 DEF Entry, SortedCalendar

\* Up to the last date, the search never reads past the entries of the calendar.
LEMMA ReadsFollows == MapInvariant /\ SearchInvariant => ReadsEntries
<1> SUFFICES ASSUME MapInvariant, SearchInvariant, pc = "search", left <= right, input_date <= Last
             PROVE  mid \in DOMAIN dates
  BY DEF ReadsEntries
<1>1. SortedCalendar /\ Narrowed /\ input_date \in Int
  BY Bounds DEF MapInvariant, SearchInvariant
<1> QED
  BY <1>1, MidIsEntry DEF SortedCalendar

\* What the search keeps of its variables' types, whatever the memory holds.
LEMMA SearchTypes ==
  ASSUME SearchInvariant
  PROVE  /\ input_date \in Int /\ interval \in Int /\ left \in Int /\ right \in Int
         /\ mid \in Int /\ prev_date_index \in Int
<1>1. /\ input_date \in Int /\ interval \in Int /\ left \in Int /\ right \in Int
      /\ prev_date_index \in Int
  BY Bounds DEF SearchInvariant
<1> QED
  BY <1>1 DEF mid

LEMMA SearchStart == Init => SearchInvariant
<1> SUFFICES ASSUME Init PROVE SearchInvariant
  OBVIOUS
<1>1. NoResult \in [status : {"none", "success", "negative", "positive"}, date : INT32]
  BY Bounds DEF NoResult
<1> QED
  BY <1>1, Bounds DEF Init, SearchInvariant, ClosestUpToLast, AnswerAsDocumented

LEMMA AddCalendarDaysSearch ==
  ASSUME MapInvariant, SearchInvariant, NEW day \in InputDay, NEW n \in Interval,
         AddCalendarDays(day, n)
  PROVE  SearchInvariant'
<1> DEFINE page == PageOf(day)
<1>1. /\ pc = "ready" /\ pc' \in {"closest", "search"} /\ result' = NoResult
      /\ input_date' = day /\ interval' = n
      /\ UNCHANGED <<dates_size, dates, page_size, first_page_offset, page_map, page_map_size>>
  BY DEF AddCalendarDays, calendar, index
<1>2. day \in INT32 /\ day \in Int /\ n \in INT32
  BY IndexAssumption, Bounds
<1>3. SortedCalendar /\ Mapped /\ PageMapExact /\ Index' = Index
  BY <1>1, PageMapFollows DEF MapInvariant, Index
<1>4. PageOf(First) = 0 /\ PageOf(Last) = page_map_size - 1 /\ page_map_size \in Int
  BY <1>1, Pages
<1>5. page \in Int /\ (day <= Last => page <= page_map_size - 1) /\ (page < 0 => day < First)
  <2>1. First \in Int /\ Last \in Int
    BY <1>3, Entries
  <2>2. page \in Int
    BY <1>1, <1>2, PageOrder
  <2>3. day <= Last => page <= page_map_size - 1
    BY <1>1, <1>2, <1>4, <2>1, PageOrder
  <2>4. First <= day => 0 <= page
    BY <1>1, <1>2, <1>4, <2>1, PageOrder
  <2> QED
    BY <1>2, <2>1, <2>2, <2>3, <2>4
<1>6. Last' = Last /\ First' = First
  BY <1>1 DEF First, Last
<1>7. NoResult \in [status : {"none", "success", "negative", "positive"}, date : INT32]
  BY Bounds DEF NoResult
<1>8. AnswerAsDocumented'
  BY <1>1 DEF AnswerAsDocumented, NoResult
<1>9. dates_size \in Nat /\ dates_size >= 1 /\ left \in Int /\ right \in Int /\ prev_date_index \in Int
  BY <1>3, Entries, SearchTypes
<1>10. \/ page >= page_map_size /\ prev_date_index' = -dates_size - 1 /\ pc' = "closest"
          /\ UNCHANGED <<left, right>>
       \/ page < 0 /\ prev_date_index' = -1 /\ pc' = "closest" /\ UNCHANGED <<left, right>>
       \/ /\ page \in 0 .. page_map_size - 1 /\ pc' = "search" /\ UNCHANGED prev_date_index
          /\ left' = page_map[page]
          /\ right' = IF page < page_map_size - 1 THEN page_map[page + 1] ELSE dates_size
  BY DEF AddCalendarDays
<1> HIDE DEF page
<1>11. CASE page >= page_map_size /\ prev_date_index' = -dates_size - 1 /\ pc' = "closest"
            /\ UNCHANGED <<left, right>>
  <2>1. ~(day <= Last)
    BY <1>4, <1>5, <1>11
  <2>2. ClosestUpToLast'
    BY <1>1, <1>6, <2>1 DEF ClosestUpToLast
  <2> QED
    BY <1>1, <1>2, <1>7, <1>8, <1>9, <1>11, <2>2 DEF SearchInvariant
<1>12. CASE page < 0 /\ prev_date_index' = -1 /\ pc' = "closest" /\ UNCHANGED <<left, right>>
  <2>1. prev_date_index' \in Closest(input_date)'
    BY <1>1, <1>5, <1>6, <1>12 DEF Closest
  <2>2. ClosestUpToLast'
    BY <2>1 DEF ClosestUpToLast
  <2> QED
    BY <1>1, <1>2, <1>7, <1>8, <1>9, <1>12, <2>2 DEF SearchInvariant
<1>13. CASE /\ page \in 0 .. page_map_size - 1 /\ pc' = "search" /\ UNCHANGED prev_date_index
            /\ left' = page_map[page]
            /\ right' = IF page < page_map_size - 1 THEN page_map[page + 1] ELSE dates_size
  <2>1. left' \in 0 .. dates_size - 1 /\ right' \in 0 .. dates_size
    BY <1>3, <1>4, <1>5, <1>9, <1>13 DEF Mapped
  <2>2. ASSUME NEW i \in Index
        PROVE  (i < left' => dates[i] < day) /\ (i > right' => dates[i] > day)
    <3>1. dates[i] \in Int /\ i \in Nat /\ i < dates_size
      BY <1>3, <1>9, Entries DEF Index
    <3>2. PageOf(dates[i]) \in Int
      BY <1>1, <3>1, PageOrder
    <3>3. day <= dates[i] => page <= PageOf(dates[i])
      BY <1>1, <1>2, <3>1, PageOrder DEF page
    <3>4. dates[i] <= day => PageOf(dates[i]) <= page
      BY <1>1, <1>2, <3>1, PageOrder DEF page
    <3>5. i < left' => PageOf(dates[i]) < page
      BY <1>1, <1>3, <1>13 DEF PageMapExact, Index
    <3>6. CASE page < page_map_size - 1
      <4>1. page + 1 \in 0 .. page_map_size - 1 /\ right' = page_map[page + 1]
        BY <1>4, <1>5, <1>13, <3>6
      <4>2. PageOf(dates[i]) < page + 1 <=> i < right'
        BY <1>1, <1>3, <4>1 DEF PageMapExact, Index
      <4> QED
        BY <1>2, <1>5, <2>1, <3>1, <3>2, <3>3, <3>4, <3>5, <4>2
    <3>7. CASE ~(page < page_map_size - 1)
      <4>1. right' = dates_size
        BY <1>13, <3>7
      <4> QED
        BY <1>2, <1>5, <1>9, <2>1, <3>1, <3>2, <3>3, <3>5, <4>1
    <3> QED
      BY <3>6, <3>7
  <2>3. Narrowed'
    <3>1. \A i \in Index' : i < left' => dates'[i] < input_date'
      BY <1>1, <1>3, <2>2
    <3>2. \A i \in Index' : i > right' => dates'[i] > input_date'
      BY <1>1, <1>3, <2>2
    <3>3. left' \in 0 .. dates_size' /\ right' \in -1 .. dates_size'
      BY <1>1, <1>9, <2>1
    <3> QED
      BY <3>1, <3>2, <3>3 DEF Narrowed
  <2>4. ClosestUpToLast'
    BY <1>13 DEF ClosestUpToLast
  <2>5. left' \in Int /\ right' \in Int /\ prev_date_index' \in Int
    BY <1>9, <1>13, <2>1
  <2> QED
    BY <1>1, <1>2, <1>7, <1>8, <1>13, <2>3, <2>4, <2>5 DEF SearchInvariant
<1> QED
  BY <1>10, <1>11, <1>12, <1>13

LEMMA SearchSearch ==
  ASSUME MapInvariant, SearchInvariant, Search
  PROVE  SearchInvariant'
<1>1. /\ pc = "search" /\ left <= right /\ SortedCalendar
      /\ UNCHANGED <<dates_size, dates, input_date, interval, result>>
  BY DEF Search, MapInvariant, calendar, request
<1>2. /\ input_date \in INT32 /\ interval \in INT32
      /\ result \in [status : {"none", "success", "negative", "positive"}, date : INT32]
  BY DEF SearchInvariant
<1>3. /\ input_date \in Int /\ left \in Int /\ right \in Int /\ mid \in Int
      /\ prev_date_index \in Int
  BY SearchTypes
<1>4. PICK entry \in Entry :
        \/ entry < input_date /\ left' = mid + 1 /\ UNCHANGED <<right, prev_date_index, pc>>
        \/ entry > input_date /\ right' = mid - 1 /\ UNCHANGED <<left, prev_date_index, pc>>
        \/ entry = input_date /\ prev_date_index' = mid /\ pc' = "closest"
           /\ UNCHANGED <<left, right>>
  BY DEF Search
<1>5. /\ left' \in Int /\ right' \in Int /\ prev_date_index' \in Int
      /\ pc' \in {"search", "closest"}
  BY <1>1, <1>3, <1>4
<1>6. Last' = Last /\ Index' = Index
  BY <1>1 DEF Last, Index
<1>7. AnswerAsDocumented'
  BY <1>5 DEF AnswerAsDocumented
<1>8. CASE ~(input_date <= Last)
  <2>1. ClosestUpToLast' /\ ~(input_date' <= Last')
    BY <1>1, <1>6, <1>8 DEF ClosestUpToLast
  <2> QED
    BY <1>1, <1>2, <1>5, <1>7, <2>1 DEF SearchInvariant
<1>9. CASE input_date <= Last
  <2>1. Narrowed
    BY <1>1, <1>9 DEF SearchInvariant
  <2>2. mid \in Index /\ entry = dates[mid] /\ left <= mid /\ mid <= right
    BY <1>1, <1>3, <1>9, <2>1, MidIsEntry
  <2>3. /\ dates_size \in Nat /\ mid \in 0 .. dates_size - 1 /\ entry \in Int
        /\ \A i \in Index : dates[i] \in Int /\ i \in Int
    BY <1>1, <2>2, Entries DEF Index
  <2>4. \A i \in Index : (i <= mid => dates[i] <= entry) /\ (mid <= i => entry <= dates[i])
    BY <1>1, <2>2 DEF SortedCalendar
  <2>5. CASE entry < input_date /\ left' = mid + 1 /\ UNCHANGED <<right, prev_date_index, pc>>
    <3>1. left' \in 0 .. dates_size /\ right' \in -1 .. dates_size
      BY <2>1, <2>3, <2>5 DEF Narrowed
    <3>2. \A i \in Index : (i < left' => dates[i] < input_date) /\ (i > right' => dates[i] > input_date)
      BY <1>3, <2>1, <2>3, <2>4, <2>5 DEF Narrowed
    <3>3. Narrowed' /\ pc' = "search"
      BY <1>1, <1>6, <2>5, <3>1, <3>2 DEF Narrowed
    <3>4. ClosestUpToLast'
      BY <3>3 DEF ClosestUpToLast
    <3> QED
      BY <1>1, <1>2, <1>5, <1>7, <3>3, <3>4 DEF SearchInvariant
  <2>6. CASE entry > input_date /\ right' = mid - 1 /\ UNCHANGED <<left, prev_date_index, pc>>
    <3>1. left' \in 0 .. dates_size /\ right' \in -1 .. dates_size
      BY <2>1, <2>3, <2>6 DEF Narrowed
    <3>2. \A i \in Index : (i < left' => dates[i] < input_date) /\ (i > right' => dates[i] > input_date)
      BY <1>3, <2>1, <2>3, <2>4, <2>6 DEF Narrowed
    <3>3. Narrowed' /\ pc' = "search"
      BY <1>1, <1>6, <2>6, <3>1, <3>2 DEF Narrowed
    <3>4. ClosestUpToLast'
      BY <3>3 DEF ClosestUpToLast
    <3> QED
      BY <1>1, <1>2, <1>5, <1>7, <3>3, <3>4 DEF SearchInvariant
  <2>7. CASE entry = input_date /\ prev_date_index' = mid /\ pc' = "closest"
             /\ UNCHANGED <<left, right>>
    <3>1. mid \in Closest(input_date)
      <4>1. dates[mid] = input_date /\ dates[mid] <= input_date
        BY <1>3, <2>2, <2>7
      <4> QED
        BY <1>1, <1>3, <2>2, <4>1, ClosestAt
    <3>2. ClosestUpToLast'
      BY <1>1, <2>7, <3>1 DEF ClosestUpToLast, Closest, First
    <3> QED
      BY <1>1, <1>2, <1>5, <1>7, <2>7, <3>2 DEF SearchInvariant
  <2> QED
    BY <1>4, <2>5, <2>6, <2>7
<1> QED
  BY <1>8, <1>9

LEMMA SearchEndsSearch ==
  ASSUME MapInvariant, SearchInvariant, SearchEnds
  PROVE  SearchInvariant'
<1>1. /\ pc = "search" /\ pc' = "closest" /\ left > right /\ SortedCalendar
      /\ prev_date_index' = left - 1
      /\ UNCHANGED <<dates_size, dates, input_date, interval, left, right, result>>
  BY DEF SearchEnds, MapInvariant, calendar, request
<1>2. /\ input_date \in INT32 /\ interval \in INT32
      /\ result \in [status : {"none", "success", "negative", "positive"}, date : INT32]
  BY DEF SearchInvariant
<1>3. input_date \in Int /\ left \in Int /\ right \in Int /\ prev_date_index' \in Int
  BY <1>1, SearchTypes
<1>4. AnswerAsDocumented'
  BY <1>1 DEF AnswerAsDocumented
<1>5. Last' = Last
  BY <1>1 DEF Last
<1>6. ASSUME input_date <= Last PROVE left - 1 \in Closest(input_date)
  <2>1. Narrowed
    BY <1>1, <1>6 DEF SearchInvariant
  <2>2. /\ dates_size \in Nat /\ 0 \in Index /\ First \in Int
        /\ \A i \in Index : dates[i] \in Int /\ i \in Nat /\ i < dates_size /\ First <= dates[i]
    BY <1>1, Entries DEF Index
  <2>3. CASE left = 0
    <3>1. First > input_date
      BY <1>1, <2>1, <2>2, <2>3 DEF Narrowed, First
    <3> QED
      BY <1>3, <2>2, <2>3, <3>1, ClosestBefore
  <2>4. CASE left # 0
    <3>1. left - 1 \in Index /\ left - 1 < left
      BY <2>1, <2>2, <2>4 DEF Narrowed, Index
    <3>2. dates[left - 1] < input_date
      BY <2>1, <3>1 DEF Narrowed
    <3>3. ASSUME NEW j \in Index, dates[j] <= input_date PROVE dates[j] <= dates[left - 1]
      <4>1. j <= left - 1
        BY <1>1, <1>3, <2>1, <2>2, <3>3 DEF Narrowed
      <4> QED
        BY <1>1, <3>1, <4>1 DEF SortedCalendar
    <3>4. dates[left - 1] <= input_date
      BY <1>3, <2>2, <3>1, <3>2
    <3> QED
      BY <1>1, <1>3, <3>1, <3>3, <3>4, ClosestAt
  <2> QED
    BY <2>3, <2>4
<1>7. ClosestUpToLast'
  BY <1>1, <1>5, <1>6 DEF ClosestUpToLast, Closest, First
<1> QED
  BY <1>1, <1>2, <1>3, <1>4, <1>7 DEF SearchInvariant

LEMMA AnswerSearch ==
  ASSUME MapInvariant, SearchInvariant, Answer
  PROVE  SearchInvariant'
<1>1. /\ pc = "closest" /\ pc' = "ready" /\ SortedCalendar
      /\ left' = 0 /\ right' = 0 /\ prev_date_index' = 0
      /\ UNCHANGED <<dates_size, dates, input_date, interval>>
  BY DEF Answer, MapInvariant, calendar, request
<1>2. /\ input_date \in INT32 /\ interval \in INT32 /\ ClosestUpToLast
      /\ prev_date_index \in Int /\ interval \in Int /\ input_date \in Int
  BY Bounds DEF SearchInvariant
<1>3. PICK shifted \in Sum32(prev_date_index + interval) : result' = ResultAt(shifted)
  BY DEF Answer
<1>4. shifted \in Int
  BY <1>2, Bounds DEF Sum32, Wrapped
<1>5. /\ dates_size \in Nat /\ dates_size >= 1 /\ First \in INT32 /\ PG_INT32_MAX \in INT32
      /\ \A i \in Index : dates[i] \in INT32
  BY <1>1, Entries, Bounds
<1>6. result' \in [status : {"none", "success", "negative", "positive"}, date : INT32]
  BY <1>3, <1>4, <1>5 DEF ResultAt, Index
<1>7. Last' = Last
  BY <1>1 DEF Last
<1>8. ASSUME input_date <= Last, input_date >= First \/ interval <= 0,
             interval - 1 \in INT32, dates_size + interval \in INT32
      PROVE  \E i \in Closest(input_date) :
               /\ ResultAt(shifted).date = Shifted(i, interval)
               /\ ResultAt(shifted).status = "positive" <=> i + interval >= dates_size
  <2>1. prev_date_index \in Closest(input_date) /\ prev_date_index \in -1 .. dates_size - 1
    BY <1>1, <1>2, <1>8, ClosestRange DEF ClosestUpToLast
  <2>2. shifted = prev_date_index + interval
    BY <1>2, <1>5, <1>8, <2>1, Bounds DEF Sum32, Wrapped, INT32
  <2>3. prev_date_index < 0 => shifted < 0
    BY <1>2, <1>5, <1>8, <2>1, <2>2 DEF Closest, INT32
  <2>4. /\ ResultAt(shifted).date = Shifted(prev_date_index, interval)
        /\ ResultAt(shifted).status = "positive" <=> prev_date_index + interval >= dates_size
    BY <1>2, <1>5, <2>1, <2>2, <2>3 DEF ResultAt, Shifted
  <2> QED
    BY <2>1, <2>4
<1>9. AnswerAsDocumented'
  BY <1>1, <1>3, <1>7, <1>8 DEF AnswerAsDocumented, Closest, Shifted, First
<1>10. ClosestUpToLast'
  BY <1>1 DEF ClosestUpToLast
<1> QED
  BY <1>1, <1>2, <1>6, <1>9, <1>10 DEF SearchInvariant

\* The steps of pg_init_page_size answer nothing.
LEMMA IndexingSearch ==
  ASSUME SearchInvariant, pc \in {"init_page_size", "map"}, pc' \in {"map", "ready"},
         UNCHANGED <<calendar, request, search, result>>
  PROVE  SearchInvariant'
<1>1. result' = NoResult /\ UNCHANGED <<input_date, interval, left, right, prev_date_index, result>>
  BY DEF SearchInvariant, request, search
<1>2. ClosestUpToLast' /\ AnswerAsDocumented'
  BY <1>1 DEF ClosestUpToLast, AnswerAsDocumented, NoResult
<1> QED
  BY <1>1, <1>2 DEF SearchInvariant, NoResult

LEMMA SearchStep == MapInvariant /\ SearchInvariant /\ [Next]_vars => SearchInvariant'
<1> SUFFICES ASSUME MapInvariant, SearchInvariant, [Next]_vars PROVE SearchInvariant'
  OBVIOUS
<1>1. CASE InitPageSize \/ MapDate \/ MapDone
  BY <1>1, IndexingSearch DEF InitPageSize, MapDate, MapDone
<1>2. CASE UNCHANGED vars
  BY <1>2 DEF vars, calendar, index, request, search, SearchInvariant, Narrowed, Index, First, Last,
     ClosestUpToLast, AnswerAsDocumented, Closest, Shifted, NoResult
<1> QED
  BY <1>1, <1>2, AddCalendarDaysSearch, SearchSearch, SearchEndsSearch, AnswerSearch
     DEF Next, Compute

LEMMA Inductive == Spec => [](MapInvariant /\ SearchInvariant)
  BY MapStart, MapStep, SearchStart, SearchStep, PTL DEF Spec

\* The variables keep their types; in particular the loop of pg_init_page_size
\* writes only the memory it has allocated for the page map.
THEOREM TypeCorrect == Spec => []TypeOK
<1>1. MapInvariant /\ SearchInvariant => TypeOK
  <2> SUFFICES ASSUME MapInvariant, SearchInvariant PROVE TypeOK
    OBVIOUS
  <2>1. /\ dates_size \in 1 .. MaxEntries /\ dates_size \in Nat /\ dates_size >= 1
        /\ dates \in [0 .. dates_size - 1 -> INT32]
    BY Entries DEF MapInvariant, SortedCalendar, Index
  <2>2. CASE pc = "init_page_size"
    <3>1. page_map \in [0 .. page_map_size - 1 -> 0 .. dates_size - 1]
      BY <2>2 DEF MapInvariant, NotIndexed
    <3> QED
      BY <2>1, <2>2, <3>1 DEF MapInvariant, NotIndexed, SearchInvariant, TypeOK
  <2>3. CASE pc # "init_page_size"
    <3>1. Paged /\ Mapped /\ page_map_size \in Int
      BY <2>3, Pages DEF MapInvariant
    <3>2. first_page_offset \in Int
      BY <2>1, <3>1, Entries, QuotientOrder DEF Paged, MapInvariant
    <3>3. page_map_size \in Nat /\ prev_page_index \in Nat
      BY <3>1 DEF Mapped
    <3> QED
      BY <2>1, <3>1, <3>2, <3>3 DEF Paged, Mapped, SearchInvariant, TypeOK
  <2> QED
    BY <2>2, <2>3
<1> QED
  BY <1>1, Inductive, PTL

\* Up to the last date, left_binary_search reads entries of the calendar only,
\* though add_calendar_days gives it a right end one past them.
THEOREM ReadsCorrect == Spec => []ReadsEntries
  BY Inductive, ReadsFollows, PTL

\* Up to the last date, the page map and the search find the closest date from
\* the left, of every sorted calendar.
THEOREM ClosestCorrect == Spec => []ClosestUpToLast
<1>1. SearchInvariant => ClosestUpToLast
  BY DEF SearchInvariant
<1> QED
  BY <1>1, Inductive, PTL

\* For an input from the first date to the last, and for one before the first
\* with an interval that is not positive, add_calendar_days answers with the
\* date that cache.h:99-103 promises, and with RET_ADD_DAYS_POSITIVE exactly
\* where the interval leads beyond the last date, if interval - 1 and
\* dates_size + interval are int32 values: for every calendar and every size
\* of the int32.
THEOREM AnswerCorrect == Spec => []AnswerAsDocumented
<1>1. SearchInvariant => AnswerAsDocumented
  BY DEF SearchInvariant
<1> QED
  BY <1>1, Inductive, PTL
=============================================================================
