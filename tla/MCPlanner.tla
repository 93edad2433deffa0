------------------------------ MODULE MCPlanner ------------------------------
(***************************************************************************)
(* Scenarios for the planner.                                              *)
(***************************************************************************)
EXTENDS Execution

Slot(at, len, buy, sell, solar, load, win) ==
    [at |-> at, len |-> len, buy |-> buy, sell |-> sell, solar |-> solar,
     load |-> load, priced |-> TRUE, window |-> win, deadline |-> win,
     entry |-> FALSE, exportable |-> TRUE, exportFloor |-> 0, admitted |-> FALSE]

WithEntries(slots) ==
    [i \in DOMAIN slots |->
        [slots[i] EXCEPT !.entry = slots[i].deadline
                                     /\ (i = 1 \/ ~slots[i - 1].deadline)]]

Usual == [target |-> 180, mode |-> "self", minCycle |-> 0, minHold |-> 0,
          base |-> 2, effective |-> 3, maxPre |-> 5, margin |-> 1, acc |-> 80,
          floor |-> MinSoc, loadMargin |-> 150, amber |-> FALSE, under |-> FALSE,
          salvage |-> TRUE, spikePre |-> TRUE, spikeSell |-> TRUE, tail |-> TRUE,
          sinceEnd |-> 1000, runway |-> 0, flat |-> 0, perUnit |-> 0,
          thr |-> <<>>, water |-> NoPrice,
          term |-> None, urgent |-> None, hard |-> None, funding |-> {},
          spill |-> [end |-> None, floors |-> <<>>]]

\* Hour-long slots: prices and solar as given, the window on slots W.
Feed(buys, solars, load, W) ==
    WithEntries([i \in DOMAIN buys |->
        Slot(2 * (i - 1), 2, buys[i], buys[i] - 1, solars[i], load, i \in W)])

Day(slots, s, c) == [slots |-> slots, soc |-> s, settings |-> c, faults |-> NoFaults]

Flat(n) == [i \in 1 .. n |-> 0]

\* Prices before an evening window, with and without solar.
Evenings ==
    {Day(Feed(<<p, q, r, 3, 9, 8, 2, 2>>, z, 4, {5, 6}), s, [Usual EXCEPT !.acc = a]) :
        p \in {2, 4}, q \in {2, 4}, r \in {2, 4}, s \in {20, 90},
        z \in {Flat(8), <<0, 9, 9, 0, 0, 0, 0, 0>>}, a \in {60, 100}}

\* Short days whose moves stay on the grid.
Shorts ==
    {Day(Feed(<<p, q, r, 9, 2>>, z, 4, W), s, [Usual EXCEPT !.mode = m, !.loadMargin = 0]) :
        p \in {2, 5}, q \in {2, 5}, r \in {2, 5}, s \in {40, 160}, 
        z \in {Flat(5), <<9, 0, 0, 0, 0>>}, W \in {{}, {4}}, m \in {"self", "arb"}}

\* A sale price per slot of its own.
Selling(slots, sells) == [i \in DOMAIN slots |-> [slots[i] EXCEPT !.sell = sells[i]]]

\* A dear morning and a cheaper recovery, with the savings demanded of a cycle
\* and of a strict hold.
Spikes ==
    {Day(Selling(Feed(<<4, 3, r, t, 3, 3, 2, 2>>, z, 4, W), <<3, 2, e, t - 1, 2, 2, 1, 1>>),
         s, [Usual EXCEPT !.minCycle = k[1], !.minHold = h, !.floor = k[2]]) :
        r \in {4, 30}, t \in {20, 40}, e \in {2, 25}, s \in {60, 150},
        z \in {Flat(8)}, W \in {{}, {7}}, k \in {<<0, 20>>, <<2, 43>>}, h \in {0, 2}}

\* Spot prices in price blocks, with and without a charge window in view.
Blocks ==
    {Day(Feed(<<p, q, 9, 9, 3, r, 2, 6, 6, 9>>, z, 4, W), s,
         [Usual EXCEPT !.amber = TRUE, !.sinceEnd = n, !.under = u]) :
        p \in {2, 9}, q \in {2, 9}, r \in {3, 9}, s \in {20, 90},
        z \in {Flat(10), <<0, 0, 3, 2, 9, 9, 0, 0, 0, 0>>}, W \in {{}, {9, 10}},
        n \in {1, 1000}, u \in BOOLEAN}

\* Tomorrow's window beyond the feed.
Tails ==
    {Day(Feed(<<p, 8, 8, q, r, 2, 3, 3, 9, 9>>, Flat(10), 4, {2, 3, 9, 10}), s,
         [Usual EXCEPT !.floor = f, !.tail = t]) :
        p \in {2, 4}, q \in {2, 4}, r \in {2, 4}, s \in {60, 150}, f \in {20, 63},
        t \in BOOLEAN}

\* A midday that pays nothing for solar, or charges for it.
Spills ==
    {Day(Selling(Feed(<<4, 4, 3, 3, 3, 9, 9, 3>>, z, 4, {6, 7}),
                 <<e, 3, n, n, -1, 5, 5, 2>>), s, [Usual EXCEPT !.acc = a, !.salvage = v]) :
        z \in {<<0, 4, 14, 16, 12, 0, 0, 0>>, <<4, 4, 9, 9, 6, 0, 0, 0>>},
        e \in {2, 6}, n \in {0, -3}, s \in {60, 150, 190}, a \in {60, 100}, v \in BOOLEAN}

\* An afternoon in half hours whose sun and decisions may fail.
Afternoons ==
    {[slots |-> WithEntries([i \in 1 .. 6 |->
                    Slot(i - 1, 1, p, p - 1, IF i < 6 THEN z ELSE 0, 2, i = 6)]),
      soc |-> s, settings |-> [Usual EXCEPT !.runway = 1, !.target = t, !.acc = 100],
      faults |-> [grants |-> g, sun |-> {0, 100}]] :
        p \in {2, 5}, z \in {0, 9, 12}, s \in {20, 60, 110}, t \in {180, 195},
        g \in {{TRUE, FALSE}, {FALSE}}}

\* The planner knows the current mode, and a change of it costs: the largest
\* flat amount, or by the energy of a slot as is usual and at most.
Sticky ==
    {[d EXCEPT !.settings.flat = k[1], !.settings.perUnit = k[2]] :
        d \in Shorts \cup {e \in Evenings : e.settings.acc = 100},
        k \in {<<1200, 0>>, <<250, 1500>>, <<250, 3700>>}}

MCDays == Sticky \cup Evenings \cup Shorts \cup Spikes \cup Blocks \cup Tails \cup Spills
          \cup Afternoons
=============================================================================
