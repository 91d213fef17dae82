------------------------------- MODULE MCSim -------------------------------
(***************************************************************************)
(* Small instances of Sim: the calls a script may make, the bars the       *)
(* market may print, and the properties the runs check.                    *)
(***************************************************************************)
EXTENDS SimProps

L == 1     \* ids of entries
M == 2
X == 3     \* ids of exits
Y == 4

Blank == [kind |-> "entry", id |-> NoId, entry |-> NoId, dir |-> 0, qty |-> 0,
          stop |-> 0, limit |-> 0, profit |-> 0, loss |-> 0, trail |-> 0, off |-> 0,
          oca |-> NoOCA, when |-> TRUE]

Entry(id, dir) == [Blank EXCEPT !.id = id, !.dir = dir]
Order1(id, dir, qty) == [Entry(id, dir) EXCEPT !.kind = "order", !.qty = qty]
StopEntry(id, dir, level) == [Entry(id, dir) EXCEPT !.stop = level]
LimitEntry(id, dir, level) == [Entry(id, dir) EXCEPT !.limit = level]
InGroup(c, group) == [c EXCEPT !.oca = group]
Unless(c) == [c EXCEPT !.when = FALSE]
CloseCall(id) == [Blank EXCEPT !.kind = "close", !.id = id]
CloseAllCall == [Blank EXCEPT !.kind = "close_all"]
CancelCall(id) == [Blank EXCEPT !.kind = "cancel", !.id = id]
CancelAllCall == [Blank EXCEPT !.kind = "cancel_all"]
ExitAt(id, entry, stop, limit) ==
  [Blank EXCEPT !.kind = "exit", !.id = id, !.entry = entry, !.stop = stop, !.limit = limit]
ExitBy(id, entry, loss, profit) ==
  [Blank EXCEPT !.kind = "exit", !.id = id, !.entry = entry, !.loss = loss, !.profit = profit]
TrailingExit(id, entry, trail, off) ==
  [Blank EXCEPT !.kind = "exit", !.id = id, !.entry = entry, !.trail = trail, !.off = off]
\* An exit whose only level was computed below zero.
NegativeExit(id, entry, qty) ==
  [Blank EXCEPT !.kind = "exit", !.id = id, !.entry = entry, !.qty = qty, !.stop = -100]

Quote(o, h, l, c) == [o |-> o, h |-> h, l |-> l, c |-> c]
Rise == Quote(1000, 1300, 900, 1200)
Fall == Quote(1000, 1100, 700, 800)
GapUp == Quote(1400, 1500, 1300, 1400)
GapDown == Quote(600, 700, 500, 600)
Spike == Quote(2000, 3000, 1000, 2500)
RiseAndFall == {Rise, Fall}
Gaps == {Rise, Fall, GapUp, GapDown}
Spikes == {Rise, GapDown, Spike}

AllIds == {L, M, X, Y}

\* Everything that moves money except strategy.order: pyramided entries, reversals,
\* closes, exits of part of a position, by name or of the aggregate, and resting
\* exits of every sort.
TradingCalls == {Entry(L, 1), Entry(L, -1), [Entry(M, 1) EXCEPT !.qty = 3],
                 [Entry(M, -1) EXCEPT !.qty = 2], StopEntry(Y, 1, 1200), CloseCall(L), CloseAllCall,
                 NegativeExit(X, M, 1), NegativeExit(X, NoId, 2), ExitBy(X, L, 200, 300),
                 ExitAt(X, L, 800, 1300), ExitAt(X, NoId, 900, 0), TrailingExit(Y, L, 200, 100)}
\* Leverage, and orders that rest or keep coming after the wipe; strategy.order,
\* which can hold opposite positions; cancels, and an entry whose `when` is false.
OrderCalls == {[Entry(L, -1) EXCEPT !.qty = 4], [Entry(L, 1) EXCEPT !.qty = 6], Unless(Entry(L, 1)),
               InGroup(Entry(M, 0), 1), StopEntry(M, -1, 900), LimitEntry(M, 1, 900),
               Order1(L, 1, 2), Order1(L, -1, 1), Order1(M, -1, 2),
               ExitAt(X, L, 2000, 0), TrailingExit(X, NoId, 200, 0),
               CloseAllCall, CloseCall(NoId), CancelCall(M), CancelAllCall}
\* OCA groups.
OCACalls == {InGroup(StopEntry(L, 1, 1200), 1), InGroup(StopEntry(M, 1, 1400), 1)}
=============================================================================
