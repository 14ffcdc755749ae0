--------------------------- MODULE CalendarIndex ---------------------------
(***************************************************************************)
(* One cached calendar and the arithmetic on it: pg_init_page_size, which  *)
(* builds the page map when the last date has been copied, and             *)
(* add_calendar_days, which finds the closest date from the left of the    *)
(* input through the page map and a binary search.                         *)
(*                                                                         *)
(* A date is a day number (DateADT).  The arrays of the C code are         *)
(* functions on 0 .. size - 1; the entry after the last one can be read,   *)
(* and then it is whatever ShmemAlloc placed there.                        *)
(***************************************************************************)
EXTENDS Integers, FiniteSets

CONSTANTS
  Day,           \* the day numbers of the calendar entries
  MaxEntries,    \* bound: the entries of the calendar
  InputDay,      \* the day numbers add_calendar_days is asked about
  Interval,      \* the intervals it is asked to add
  Beyond,        \* the values the memory after dates[] may hold
  PG_INT32_MAX   \* the largest int32

INT32 == -PG_INT32_MAX - 1 .. PG_INT32_MAX

ASSUME IndexAssumption ==
  /\ PG_INT32_MAX \in Nat /\ MaxEntries \in Nat \ {0} /\ MaxEntries < PG_INT32_MAX
  /\ Day \subseteq INT32 /\ InputDay \subseteq INT32
  /\ Interval \subseteq INT32 /\ Beyond \subseteq INT32

VARIABLES
  dates_size, dates,                            \* the calendar as it was copied
  page_size, first_page_offset,                 \* its index
  page_map, page_map_size,
  date_index, prev_page_index,                  \* the loop of pg_init_page_size
  input_date, interval,                         \* the arguments of add_calendar_days
  left, right,                                  \* the loop of left_binary_search
  prev_date_index,                              \* what the search returned
  result,                                       \* the returned status and *result_date
  pc

calendar == <<dates_size, dates>>
index    == <<page_size, first_page_offset, page_map, page_map_size>>
loop     == <<date_index, prev_page_index>>
request  == <<input_date, interval>>
search   == <<left, right, prev_date_index>>
vars     == <<calendar, index, loop, request, search, result, pc>>

-----------------------------------------------------------------------------
\* Signed overflow is undefined: the sum as if int were wider (the operation
\* is folded into a comparison), or the sum wrapped around by the machine.
Wrapped(n) == CASE n > PG_INT32_MAX      -> n - 2 * (PG_INT32_MAX + 1)
                [] n < -PG_INT32_MAX - 1 -> n + 2 * (PG_INT32_MAX + 1)
                [] OTHER                 -> n
Sum32(n) == {n, Wrapped(n)}

\* Division in C truncates towards zero.
Quotient(n, d) == IF n >= 0 THEN n \div d ELSE -((-n) \div d)

PageOf_NoOffset(day) == Quotient(day, page_size)

\* The day's page, counted from the page of the first date.
PageOf(day) == Quotient(day, page_size) - first_page_offset

\* Pages of a month, or of half a month where an entry comes more than
\* weekly: entry_count > date_range / 7.0.
calculate_page_size(date_range, entry_count) ==
  IF 7 * entry_count > date_range THEN 16 ELSE 32

First == dates[0]
Last  == dates[dates_size - 1]

NoResult == [status |-> "none", date |-> 0]

\* Q3 orders the dates of a calendar; equal dates are not excluded.
Init ==
  /\ dates_size \in 1 .. MaxEntries
  /\ dates \in [0 .. dates_size - 1 -> Day]
  /\ \A i, j \in 0 .. dates_size - 1 : i <= j => dates[i] <= dates[j]
  /\ page_size = 0 /\ first_page_offset = 0
  /\ page_map = [p \in {} |-> 0] /\ page_map_size = 0
  /\ date_index = 0 /\ prev_page_index = 0
  /\ input_date = 0 /\ interval = 0
  /\ left = 0 /\ right = 0 /\ prev_date_index = 0
  /\ result = NoResult
  /\ pc = "init_page_size"

-----------------------------------------------------------------------------
(* pg_init_page_size *)

InitPageSize ==
  /\ pc = "init_page_size"
  /\ \E date_range \in Sum32(Last - First) :
       page_size' = calculate_page_size(date_range, dates_size)
  /\ first_page_offset' = Quotient(First, page_size')
  /\ page_map_size' = Quotient(Last, page_size') - first_page_offset' + 1
  /\ page_map' = [p \in 0 .. page_map_size' - 1 |-> 0]
  /\ pc' = "map"
  /\ UNCHANGED <<calendar, loop, request, search, result>>

Started_OwnPage(page) == {p \in {page} : p > prev_page_index}

\* The pages a date starts: those after the last page that has been started,
\* up to its own.
Started(page) == prev_page_index + 1 .. page

\* One iteration of the loop over the dates.
MapDate ==
  /\ pc = "map" /\ date_index < dates_size
  /\ LET page == PageOf(dates[date_index]) IN
     /\ page_map' = [p \in DOMAIN page_map \cup Started(page) |->
                       IF p \in Started(page) THEN date_index ELSE page_map[p]]
     /\ prev_page_index' = IF page > prev_page_index THEN page ELSE prev_page_index
  /\ date_index' = date_index + 1
  /\ UNCHANGED <<calendar, page_size, first_page_offset, page_map_size,
                 request, search, result, pc>>

MapDone ==
  /\ pc = "map" /\ date_index = dates_size
  /\ pc' = "ready"
  /\ UNCHANGED <<calendar, index, loop, request, search, result>>

-----------------------------------------------------------------------------
(* add_calendar_days *)

\* get_closest_index_from_left, up to its call of the search: a day beyond
\* the pages has its index at once, another one is searched between the
\* start of its page and the start of the next, or dates_size.
AddCalendarDays(day, n) ==
  LET page == PageOf(day) IN
  /\ pc = "ready"
  /\ input_date' = day /\ interval' = n
  /\ result' = NoResult
  /\ \/ /\ page >= page_map_size
        /\ prev_date_index' = -dates_size - 1
        /\ pc' = "closest"
        /\ UNCHANGED <<left, right>>
     \/ /\ page < 0
        /\ prev_date_index' = -1
        /\ pc' = "closest"
        /\ UNCHANGED <<left, right>>
     \/ /\ page \in 0 .. page_map_size - 1
        /\ left' = page_map[page]
        /\ right' = IF page < page_map_size - 1 THEN page_map[page + 1] ELSE dates_size
        /\ pc' = "search"
        /\ UNCHANGED prev_date_index
  /\ UNCHANGED <<calendar, index, loop>>

mid_RoundedUp == left + (right - left + 1) \div 2

mid == left + (right - left) \div 2

\* arr[mid]: the right end that the search is given lies one past the entries.
Entry == IF mid \in DOMAIN dates THEN {dates[mid]} ELSE Beyond

Search_KeepsMid ==
  /\ pc = "search" /\ left <= right
  /\ \E entry \in Entry :
       \/ /\ entry < input_date
          /\ left' = mid
          /\ UNCHANGED <<right, prev_date_index, pc>>
       \/ /\ entry > input_date
          /\ right' = mid - 1
          /\ UNCHANGED <<left, prev_date_index, pc>>
       \/ /\ entry = input_date
          /\ prev_date_index' = mid
          /\ pc' = "closest"
          /\ UNCHANGED <<left, right>>
  /\ UNCHANGED <<calendar, index, loop, request, result>>

\* One iteration of left_binary_search.
Search ==
  /\ pc = "search" /\ left <= right
  /\ \E entry \in Entry :
       \/ /\ entry < input_date
          /\ left' = mid + 1
          /\ UNCHANGED <<right, prev_date_index, pc>>
       \/ /\ entry > input_date
          /\ right' = mid - 1
          /\ UNCHANGED <<left, prev_date_index, pc>>
       \/ /\ entry = input_date
          /\ prev_date_index' = mid
          /\ pc' = "closest"
          /\ UNCHANGED <<left, right>>
  /\ UNCHANGED <<calendar, index, loop, request, result>>

SearchEnds_AtLeft ==
  /\ pc = "search" /\ left > right
  /\ prev_date_index' = left
  /\ pc' = "closest"
  /\ UNCHANGED <<calendar, index, loop, request, left, right, result>>

SearchEnds ==
  /\ pc = "search" /\ left > right
  /\ prev_date_index' = left - 1
  /\ pc' = "closest"
  /\ UNCHANGED <<calendar, index, loop, request, left, right, result>>

ResultAt_LastIsInfinite(shifted) ==
  IF shifted < 0 THEN [status |-> "success", date |-> First]
  ELSE IF prev_date_index < 0 THEN [status |-> "negative", date |-> First]
  ELSE IF shifted >= dates_size - 1 THEN [status |-> "positive", date |-> PG_INT32_MAX]
  ELSE [status |-> "success", date |-> dates[shifted]]

\* The date at the shifted index, the first date or INT32_MAX, and the status.
ResultAt(shifted) ==
  IF shifted < 0 THEN [status |-> "success", date |-> First]
  ELSE IF prev_date_index < 0 THEN [status |-> "negative", date |-> First]
  ELSE IF shifted >= dates_size THEN [status |-> "positive", date |-> PG_INT32_MAX]
  ELSE [status |-> "success", date |-> dates[shifted]]

\* The locals of the call are gone when it returns.
Answer ==
  /\ pc = "closest"
  /\ \E shifted \in Sum32(prev_date_index + interval) : result' = ResultAt(shifted)
  /\ left' = 0 /\ right' = 0 /\ prev_date_index' = 0
  /\ pc' = "ready"
  /\ UNCHANGED <<calendar, index, loop, request>>

Compute == InitPageSize \/ MapDate \/ MapDone \/ Search \/ SearchEnds \/ Answer

Next == Compute \/ \E day \in InputDay, n \in Interval : AddCalendarDays(day, n)

Spec == Init /\ [][Next]_vars

\* The code runs on: nothing in it waits.
FairSpec == Spec /\ WF_vars(Compute)

-----------------------------------------------------------------------------
(* Properties *)

\* The variables have their types; in particular no write to the page map
\* falls outside the memory allocated for it.
TypeOK ==
  /\ dates_size \in 1 .. MaxEntries
  /\ dates \in [0 .. dates_size - 1 -> INT32]
  /\ page_size \in {0, 16, 32} /\ first_page_offset \in Int
  /\ page_map_size \in Nat
  /\ page_map \in [0 .. page_map_size - 1 -> 0 .. dates_size - 1]
  /\ date_index \in 0 .. dates_size /\ prev_page_index \in Nat
  /\ input_date \in INT32 /\ interval \in INT32
  /\ left \in Int /\ right \in Int /\ prev_date_index \in Int
  /\ result \in [status : {"none", "success", "negative", "positive"}, date : INT32]
  /\ pc \in {"init_page_size", "map", "ready", "search", "closest"}

\* The page map points, for each page and also for a page without dates, to
\* the first date on that page or after it - with truncated division too,
\* where the page around day 0 has twice the days of the others.
PageMapExact ==
  pc \notin {"init_page_size", "map"} =>
    \A p \in 0 .. page_map_size - 1 : \A i \in 0 .. dates_size - 1 :
      PageOf(dates[i]) < p <=> i < page_map[p]

\* The indices of the date closest to the day from the left: where dates are
\* equal there may be several, and -1 stands for "before the first".
Closest(day) ==
  IF day < First THEN {-1}
  ELSE {i \in 0 .. dates_size - 1 :
          dates[i] <= day /\ \A j \in 0 .. dates_size - 1 : dates[j] <= day => dates[j] <= dates[i]}

\* What cache.h:99-103 promises: the date so many entries away from the closest
\* one, the first date where the interval is too small, and infinity where it
\* is too big.  It makes no exception for an input before the first date.
Shifted(i, n) ==
  IF i + n < 0 THEN First
  ELSE IF i + n >= dates_size THEN PG_INT32_MAX ELSE dates[i + n]

\* Up to the last date, the search reads the entries of the calendar only,
\* though its right end lies one past them.
ReadsEntries ==
  pc = "search" /\ left <= right /\ input_date <= Last => mid \in DOMAIN dates

\* Up to the last date, page map and search find the closest date from the left.
ClosestUpToLast ==
  pc = "closest" /\ input_date <= Last => prev_date_index \in Closest(input_date)

\* From the first date to the last with any interval, and before the first with
\* an interval that is not positive, the date is the documented one, and the
\* status tells whether it lies beyond the last, as long as the sum fits an
\* int32.
AnswerAsDocumented ==
  /\ pc = "ready" /\ result # NoResult /\ input_date <= Last
  /\ input_date >= First \/ interval <= 0
  /\ interval - 1 \in INT32 /\ dates_size + interval \in INT32
  => \E i \in Closest(input_date) :
       /\ result.date = Shifted(i, interval)
       /\ result.status = "positive" <=> i + interval >= dates_size

\* Every call of add_calendar_days returns: the search narrows.
SearchReturns == pc = "search" ~> pc = "ready"

-----------------------------------------------------------------------------
(* What the documentation says and the code does not do *)

\* "the closest date index from the left of the input_date in the calendar"
\* (cache.c:162), of any input on the pages of the calendar.
ClosestFromLeft ==
  pc = "closest" /\ PageOf(input_date) < page_map_size =>
    prev_date_index \in Closest(input_date)

\* "out of bounds from the right, result_date will contain INT32_MAX"
\* (cache.h:113), for an input after the last date and a positive interval.
FutureIsInfinite ==
  pc = "ready" /\ result # NoResult /\ input_date > Last /\ interval > 0
    => result.date = PG_INT32_MAX

\* "The next or previous date will be obtained from the given Calendar, if the
\* interval is bigger and cannot be calculated, the function will return
\* INT32_MAX" (cache.h:99-101), for an input before the first date and a
\* positive interval: the code answers with the first date, however large the
\* interval.
BeforeFirstIsShifted ==
  /\ pc = "ready" /\ result # NoResult /\ input_date < First
  /\ interval > 0 /\ dates_size + interval \in INT32
  => result.date = Shifted(-1, interval)

=============================================================================
