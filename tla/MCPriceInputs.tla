---------------------------- MODULE MCPriceInputs ----------------------------
EXTENDS PriceInputs

Raw(start, dur, estimate, window) ==
  [start |-> start, dur |-> dur, end |-> Absent, price |-> start,
   estimate |-> estimate, window |-> window]

\* n intervals of dur minutes from a start on.
Run(start, dur, n) ==
  [k \in 1..n |-> Raw(start + (k - 1) * Minutes(dur), dur, "none", "none")]

\* The feed of Amber, a second late on each boundary: five-minute intervals to
\* the end of the half hour, the first not yet confirmed, then half hours.
Near(start, n, estimate) ==
  [Run(start, 5, n) EXCEPT ![1].estimate = estimate] \o Run(start + n * Minutes(5), 30, 2)

\* A reading with an interval that cannot be read and one that states no length.
Broken ==
  <<Raw(1, Malformed, "yes", "none"),
    [Raw(301, Absent, "yes", "none") EXCEPT !.end = 601]>> \o Run(601, 5, 2)

MCRawGeneral ==
  { Near(1, 6, "yes"), Near(1, 6, "no"),
    Run(1, 30, 2),                                    \* half hours only
    Run(-720, 30, 3),                                 \* half hours off the grid
    Run(180, 5, 3) \o Run(1080, 30, 2),               \* everything off the grid
    Run(0, 60, 2),                                    \* hours
    Run(901, 5, 3),                                   \* nothing before 15:01
    Broken,
    <<>> }

MCRawFeedIn ==
  { Near(1, 6, "yes"), Near(301, 5, "no"), Run(-720, 30, 3), <<>> }

MCInstants == {0, 1, 80, 200, 300, 1070, 1790, 1800}

Event(readable, start, end, rate) ==
  [readable |-> readable, start |-> start, end |-> end, rate |-> rate]

MCTariffs ==
  { {Event(TRUE, 0, 1200, 1), Event(TRUE, 1200, 9000, 2)},
    {Event(TRUE, 0, 1200, 1), Event(FALSE, 0, 0, 0)},
    {} }

MCClockWindow == [start |-> 3600, end |-> 7200]
==============================================================================
