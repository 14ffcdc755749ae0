---------------------------- MODULE MCTableLocks ----------------------------
(***************************************************************************)
(* Instances of TableLocks for TLC.                                        *)
(***************************************************************************)
EXTENDS TableLocks, TLC

CONSTANTS p1, p2, d1

\* Sessions that call the functions while others lock the tables; then one of
\* them invalidates as well, or two call and invalidate and nobody locks.
Separate ==
  { p1 :> {"call"} @@ p2 :> {"call"} @@ d1 :> {"lock"},
    p1 :> {"call"} @@ p2 :> {"lock"} @@ d1 :> {"lock"},
    p1 :> {"call"} @@ p2 :> {"invalidate"} @@ d1 :> {"lock"},
    p1 :> {"call", "invalidate"} @@ p2 :> {"call"} @@ d1 :> {"call", "invalidate"} }

\* A session that has locked a table goes on to call a function.
LockThenCall == { p1 :> {"call"} @@ p2 :> {"call", "lock"} @@ d1 :> {} }

\* Two callers, of which one invalidates, and one session that locks.
Invalidating == { p1 :> {"call"} @@ p2 :> {"call", "invalidate"} @@ d1 :> {"lock"} }
=============================================================================
