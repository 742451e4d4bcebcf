----------------------------- MODULE MCCardCycle -----------------------------
(* Instances of CardCycle small enough for TLC. *)
EXTENDS CardCycle

CONSTANTS Days, FirstMonth, LastMonth

\* Every day of Days the months have; month 12 * 2028 + 1 is a leap February.
SomeDates == {d \in {Date(m, k) : m \in FirstMonth .. LastMonth, k \in Days} : d \in Dates}
\* An edit leaves the date, or moves it to a neighbouring month.
Around == -1 .. 1

=============================================================================
