----------------------------- MODULE MCTraffic ------------------------------
\* Traffic on a small instance: days of two halves, from the end of December 2027 to
\* the end of a leap year's February.
EXTENDS Traffic

\* 31 December 12:00, 1 January 12:00, 31 January 12:00, 29 February 00:00
\* and 12:00, 1 March 00:00.
YearEnd == {42367, 42369, 42429, 42486, 42487, 42488}

\* The first of the month, half a day west of UTC, and the day of creation.
West == [mode |-> "fixed", day |-> 1, offset |-> -1]
Creation == [mode |-> "creation", day |-> 1, offset |-> 0]
OwnerChoices == {West, Creation}

Protected == ~excused
=============================================================================
