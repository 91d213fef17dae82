-------------------------------- MODULE Sim --------------------------------
(***************************************************************************)
(* The bar-by-bar strategy simulator of the backtester: Sim and its orders *)
(* (backtest/sim.go), driven by the strategy.* hooks (backtest/hooks.go)   *)
(* and by the per-bar callback of runOne (backtest/main.go).               *)
(*                                                                         *)
(* After bar `bar` of the script has run, the callback calls Step(bar+1).  *)
(* A Step is a sequence of phases, one iteration of a loop per action:     *)
(*                                                                         *)
(*   script -> fill -> entries -> mark -> script (next bar) ... -> done    *)
(*                                                                         *)
(* The script is the environment: in a bar it makes any calls of Calls.    *)
(* The lists pendingMarket and pendingCond are sets of orders numbered by  *)
(* Intent.Seq: orders are only appended and filtered, so the order of a    *)
(* list is the order of the numbers.  Prices, quantities and money are     *)
(* integers; rates are percentages, and a division rounds down.            *)
(***************************************************************************)
EXTENDS Integers, FiniteSets, Sums

CONSTANTS
  Ids,                  \* entry ids and exit ids, numbered in sort order
  Quotes,               \* the bars [o, h, l, c] the market may print
  Calls,                \* the strategy.* calls the script may make
  MaxCalls,             \* bound: calls the script makes in the run
  LastBar,              \* bound: index of the last bar
  InitialCapital,
  Pyramiding,
  QtyType,              \* "fixed", "cash" or "percent_of_equity"
  QtyValue,
  CommissionType,       \* "percent", "cash_per_contract" or "cash_per_order"
  CommissionValue,
  Slippage,             \* percent of the price
  ProcessOrdersOnClose

NoId == 0               \* the empty id
NoOCA == 0              \* no oca_name

ASSUME IdsAssumption == IsFiniteSet(Ids) /\ Ids \subseteq Nat \ {NoId}
ASSUME QuotesAssumption ==
  \A q \in Quotes : /\ q \in [o : Nat \ {0}, h : Nat \ {0}, l : Nat \ {0}, c : Nat \ {0}]
                    /\ q.l <= q.o /\ q.o <= q.h
                    /\ q.l <= q.c /\ q.c <= q.h
ASSUME BoundsAssumption == MaxCalls \in Nat /\ LastBar \in Nat
ASSUME DeclAssumption ==
  /\ InitialCapital \in Nat \ {0} /\ Pyramiding \in Nat
  /\ QtyType \in {"fixed", "cash", "percent_of_equity"} /\ QtyValue \in Nat \ {0}
  /\ CommissionType \in {"percent", "cash_per_contract", "cash_per_order"}
  /\ CommissionValue \in Nat
  /\ Slippage \in 0 .. 99
  /\ ProcessOrdersOnClose \in BOOLEAN

\* The arguments of a call, the same fields for every hook.
Call == [kind : {"entry", "order", "exit", "close", "close_all", "cancel", "cancel_all"},
         id : Ids \cup {NoId}, entry : Ids \cup {NoId}, dir : {-1, 0, 1}, qty : Nat,
         stop : Int, limit : Int, profit : Int, loss : Int, trail : Int, off : Int,
         oca : Nat, when : BOOLEAN]

ASSUME CallsAssumption ==
  /\ Calls \subseteq Call
  /\ \A c \in Calls : c.kind \in {"entry", "order", "exit"} => c.id \in Ids

VARIABLES
  bar,        \* Runner.currentBar: the bar the script is on
  phase,      \* where the callback is
  seq,        \* Sim.seq (bounded by MaxCalls)
  quote,      \* Bars[b] of the last bar stepped
  prevClose,  \* Bars[b-1].C
  market,     \* Sim.pendingMarket
  cond,       \* Sim.pendingCond
  ready,      \* fillMarketOrders: the orders of this bar not yet looked at
  resting,    \* processConditionals: deferred and keep
  triggers,   \* processConditionals: orderCond not yet looked at
  still,      \* processConditionals: still
  trailSeen,  \* processConditionals: trailSeen
  acct,       \* Sim.positions, Sim.cash and Sim.Trades; and, for the properties,
              \* realized (the sum of the trades' Pnl) and fees (the sum charged)
  equity,     \* Sim.Equity of the last bar stepped, which is Sim.eqPrev
  wiped,      \* Sim.wiped
  ocaHit      \* for the properties: OCA groups that filled in this Step

pending == <<market, cond>>
locals == <<ready, resting, triggers, still, trailSeen>>
clock == <<bar, seq, quote, prevClose>>
vars == <<clock, phase, pending, locals, acct, equity, wiped, ocaHit>>

-----------------------------------------------------------------------------
(* Orders. *)

Never == -1   \* CondOrder.Armed = false; an armed order holds the bar it armed on

\* A close or close_all intent is queued under an id of its own ("__close_L",
\* "__close_all") that no call can name.
Order == [call : Calls, qty : Int, bar : Nat, seq : Nat, armed : Nat \cup {Never}]

NewOrder(c, q) == [call |-> c, qty |-> q, bar |-> bar, seq |-> seq', armed |-> Never]

\* The first order of a list and the last.
First(S) == CHOOSE o \in S : \A p \in S : o.seq <= p.seq
Last(S) == CHOOSE o \in S : \A p \in S : p.seq <= o.seq

\* The entry an exit or a close applies to.
Target(o) == IF o.call.kind = "close" THEN o.call.id ELSE o.call.entry

Named(o, id) == o.call.id = id /\ o.call.kind \notin {"close", "close_all"}
\* Mutant: the resting order of the same id is not replaced.
DroppedNothing(S, id) == S
Dropped(S, id) == {o \in S : ~ Named(o, id)}
WithoutOCA(S, group) == 
  {o \in S : group = NoOCA \/ o.call.oca # group \/ o.call.kind \notin {"entry", "order"}}

HasLevel(c) == \E x \in {c.stop, c.loss, c.limit, c.profit, c.trail, c.off} : x > 0
HasArgument(c) == \E x \in {c.stop, c.loss, c.limit, c.profit, c.trail, c.off} : x # 0

-----------------------------------------------------------------------------
(* Positions and the account. *)

SignOf(x) == IF x > 0 THEN 1 ELSE IF x < 0 THEN -1 ELSE 0
Abs(x) == IF x < 0 THEN -x ELSE x
Least(x, y) == IF x < y THEN x ELSE y
Greatest(x, y) == IF x < y THEN y ELSE x

Position == [qty : Int, avg : Int, from : Nat, hi : Int, lo : Int]
NoPositions == [i \in {} |-> i]

PositionSize(ps) == SumOf([i \in DOMAIN ps |-> ps[i].qty])
EquityNow(a, price) == a.cash + PositionSize(a.positions) * price
SameDirEntryCount(ps, dir) == Cardinality({i \in DOMAIN ps : SignOf(ps[i].qty) = dir})

Slipped(price, buying) ==
  IF price <= 0 THEN price
  ELSE IF buying THEN (price * (100 + Slippage)) \div 100
       ELSE (price * (100 - Slippage)) \div 100

Fee(qty, price) ==
  CASE CommissionType = "cash_per_contract" -> qty * CommissionValue
    [] CommissionType = "cash_per_order"    -> CommissionValue
    [] CommissionType = "percent"           -> (qty * price * CommissionValue) \div 100

DefaultQty(price) ==
  CASE QtyType = "fixed" -> QtyValue
    [] QtyType = "cash"  -> QtyValue \div price
    [] QtyType = "percent_of_equity" -> (equity * QtyValue) \div (100 * price)

\* Mutant: a position that is closed exactly stays, empty.
RemainingKeepsEmpty(ps, take) ==
  [i \in {j \in DOMAIN ps : take[j] <= Abs(ps[j].qty)} |->
     [ps[i] EXCEPT !.qty = @ - SignOf(@) * take[i]]]
\* Mutant: a partial close deletes the position.
RemainingForgetsRest(ps, take) == [i \in {j \in DOMAIN ps : take[j] = 0} |-> ps[i]]
\* What is left of the positions; an emptied one is deleted.
Remaining(ps, take) ==
  [i \in {j \in DOMAIN ps : take[j] < Abs(ps[j].qty)} |->
     [ps[i] EXCEPT !.qty = @ - SignOf(@) * take[i]]]

\* Closes take[i] units of each position i at price[i], for reason[i].
Realize(a, take, price, reason) ==
  LET ps == a.positions
      hit == {i \in DOMAIN ps : take[i] > 0}
      paid(i) == Slipped(price[i], ps[i].qty < 0)
      pnl(i) == SignOf(ps[i].qty) * (paid(i) - ps[i].avg) * take[i]
  IN  [positions |-> Remaining(ps, take),
       cash |-> a.cash + SumOf([i \in hit |-> SignOf(ps[i].qty) * take[i] * paid(i)]),
       realized |-> a.realized + SumOf([i \in hit |-> pnl(i)]),
       fees |-> a.fees,
       trades |-> a.trades
                    \cup {[entry |-> i, qty |-> take[i], dir |-> SignOf(ps[i].qty),
                           entryPrice |-> ps[i].avg, exitPrice |-> paid(i), pnl |-> pnl(i),
                           entryBar |-> ps[i].from, exitBar |-> bar + 1,
                           reason |-> reason[i]] : i \in hit}]

CloseAllAt(a, price, reason) ==
  LET ps == a.positions
  IN  Realize(a, [i \in DOMAIN ps |-> Abs(ps[i].qty)],
                 [i \in DOMAIN ps |-> price], [i \in DOMAIN ps |-> reason])

\* Mutant: the loss beyond the margin stays in the account.
LiquidatedInDebt(a) == CloseAllAt(a, quote.c, "margin_call")
\* Mutant: the account is zeroed with its positions open.
LiquidatedOnPaper(a) == [a EXCEPT !.cash = 0]
\* checkMarginCall: the loss beyond the margin is not the account's.
Liquidated(a) == [CloseAllAt(a, quote.c, "margin_call") EXCEPT !.cash = 0]

\* An opposite fill that exactly closes the position deletes it and returns
\* before the cash is accounted for.
ApplyFill(a, id, dir, qty, quoted) ==
  LET ps == a.positions
      price == Slipped(quoted, dir > 0)
      old == IF id \in DOMAIN ps THEN ps[id]
             ELSE [qty |-> 0, avg |-> 0, from |-> bar + 1, hi |-> 0, lo |-> 0]
      newQty == old.qty + dir * qty
      new == [qty |-> newQty,
              avg |-> IF old.qty = 0 THEN price
                      ELSE IF SignOf(old.qty) = SignOf(newQty)
                           THEN (Abs(old.qty) * old.avg + qty * price) \div Abs(newQty)
                           ELSE old.avg,
              from |-> old.from,
              hi |-> IF old.hi = 0 THEN price ELSE Greatest(old.hi, price),
              lo |-> IF old.lo = 0 THEN price ELSE Least(old.lo, price)]
  IN  IF newQty = 0
      THEN [a EXCEPT !.positions = [i \in DOMAIN ps \ {id} |-> ps[i]]]
      ELSE [a EXCEPT !.positions = [i \in DOMAIN ps \cup {id} |-> IF i = id THEN new ELSE ps[i]],
                     !.cash = @ - dir * qty * price]

\* Mutant: one entry more than `pyramiding` allows.
IgnoredOneMore(a, o, kind, dir) ==
  LET ps == a.positions
  IN  /\ dir = SignOf(PositionSize(ps))
      /\ IF kind = "order" THEN Pyramiding = 0
         ELSE \/ o.call.id \in DOMAIN ps /\ SignOf(ps[o.call.id].qty) = dir
              \/ SameDirEntryCount(ps, dir) > Greatest(Pyramiding, 1)
\* executeEntry: what becomes of an entry of direction dir at this price.
\* kind is "" for a resting order that triggers, which takes the entry rules.
Ignored(a, o, kind, dir) ==
  LET ps == a.positions
  IN  /\ dir = SignOf(PositionSize(ps))
      /\ IF kind = "order" THEN Pyramiding = 0
         ELSE \/ o.call.id \in DOMAIN ps /\ SignOf(ps[o.call.id].qty) = dir
              \/ SameDirEntryCount(ps, dir) >= Greatest(Pyramiding, 1)
Reverses(a, kind, dir) ==
  /\ SignOf(PositionSize(a.positions)) = -dir
  /\ kind = "order" => Pyramiding = 0
EntryQty(o, price) == IF o.qty > 0 THEN o.qty ELSE DefaultQty(price)
Fills(a, o, kind, dir, price) ==
  price > 0 /\ ~ wiped /\ ~ Ignored(a, o, kind, dir) /\ EntryQty(o, price) > 0
Charged(a, fee) == [a EXCEPT !.cash = @ - fee, !.fees = @ + fee]
ExecuteEntry(a, o, kind, dir, price) ==
  LET reversed == IF Reverses(a, kind, dir) THEN CloseAllAt(a, price, "reverse") ELSE a
      qty == EntryQty(o, price)
      filled == ApplyFill(reversed, o.call.id, dir, qty, price)
  IN  IF price <= 0 \/ wiped \/ Ignored(a, o, kind, dir) THEN a
      ELSE IF qty <= 0 THEN reversed
      ELSE Charged(filled, Fee(qty, price))

\* executeExit and realizeFirst: the units a market exit closes of each position.
FirstIn(ps, qty) ==
  [i \in DOMAIN ps |->
     LET before == SumOf([j \in {k \in DOMAIN ps : k < i} |-> Abs(ps[j].qty)])
     IN  Least(Greatest(qty - before, 0), Abs(ps[i].qty))]
ExitTake(ps, o) ==
  LET size == Abs(PositionSize(ps))
      whole == [i \in DOMAIN ps |-> Abs(ps[i].qty)]
      none == [i \in DOMAIN ps |-> 0]
      asked(i) == IF o.qty = 0 THEN whole[i] ELSE Least(Abs(o.qty), whole[i])
  IN  CASE o.call.kind = "close_all"        -> whole
        [] o.call.kind # "close_all" /\ Target(o) # NoId ->
             [i \in DOMAIN ps |-> IF i = Target(o) THEN asked(i) ELSE 0]
        [] o.call.kind # "close_all" /\ Target(o) = NoId ->
             IF size = 0 THEN none
             ELSE IF 0 < o.qty /\ o.qty < size THEN FirstIn(ps, o.qty) ELSE whole

-----------------------------------------------------------------------------
(* Exit levels: processConditionals and the brackets it executes. *)

StopAt(p, distance, isStop) ==
  IF isStop = (p.qty > 0) THEN p.avg - distance ELSE p.avg + distance

\* The level an exit call sets for a position (0 when it sets none).  The trail
\* follows the extremes through the previous bar.
StopLevel(c, p) ==
  LET fixed == IF c.loss > 0 THEN StopAt(p, c.loss, TRUE) ELSE c.stop
      trailed == IF p.qty > 0 THEN p.hi - c.trail - c.off ELSE p.lo + c.trail + c.off
      tighter == IF p.qty > 0 THEN trailed > fixed ELSE trailed < fixed
  IN  IF c.trail > 0 /\ (fixed = 0 \/ tighter) THEN trailed ELSE fixed
LimitLevel(c, p) == IF c.profit > 0 THEN StopAt(p, c.profit, FALSE) ELSE c.limit

\* Mutant: an exit without from_entry applies to nothing.
TargetsNamed(o, ps) == {o.call.entry} \cap DOMAIN ps
\* The positions an exit applies to: an empty from_entry applies to them all.
Targets(o, ps) == IF o.call.entry # NoId THEN {o.call.entry} \cap DOMAIN ps ELSE DOMAIN ps

\* The bracket of position i: of the exits that apply to it, the last one with a
\* level governs.
GoverningStop(exits, ps, i) ==
  LET set == {o \in exits : i \in Targets(o, ps) /\ StopLevel(o.call, ps[i]) > 0}
  IN  IF set = {} THEN 0 ELSE StopLevel(Last(set).call, ps[i])
GoverningLimit(exits, ps, i) ==
  LET set == {o \in exits : i \in Targets(o, ps) /\ LimitLevel(o.call, ps[i]) > 0}
  IN  IF set = {} THEN 0 ELSE LimitLevel(Last(set).call, ps[i])

StopHit(p, stop) == stop > 0 /\ IF p.qty > 0 THEN quote.l <= stop ELSE quote.h >= stop
LimitHit(p, limit) == limit > 0 /\ IF p.qty > 0 THEN quote.h >= limit ELSE quote.l <= limit

\* Mutant: a stop fills at its own level.
StopFillAtLevel(p, stop) == stop
\* A level beyond the open fills at the open.
StopFill(p, stop) == IF p.qty > 0 THEN Least(stop, quote.o) ELSE Greatest(stop, quote.o)
LimitFill(p, limit) == IF p.qty > 0 THEN Greatest(limit, quote.o) ELSE Least(limit, quote.o)

\* Each bracket closes the whole of its own position, the stop first, so the
\* order in which the map of brackets is walked makes no difference.
RunBrackets(a, exits) ==
  LET ps == a.positions
      stop(i) == GoverningStop(exits, ps, i)
      limit(i) == GoverningLimit(exits, ps, i)
      hit(i) == StopHit(ps[i], stop(i)) \/ LimitHit(ps[i], limit(i))
  IN  Realize(a, [i \in DOMAIN ps |-> IF hit(i) THEN Abs(ps[i].qty) ELSE 0],
                 [i \in DOMAIN ps |-> IF StopHit(ps[i], stop(i)) THEN StopFill(ps[i], stop(i))
                                      ELSE LimitFill(ps[i], limit(i))],
                 [i \in DOMAIN ps |-> IF StopHit(ps[i], stop(i)) THEN "stop_loss"
                                      ELSE "take_profit"])

\* A resting entry: an order with a stop price is a stop entry, else a limit entry.
Triggered(o) ==
  LET c == o.call
  IN  IF c.stop > 0
      THEN (c.dir > 0 /\ quote.h >= c.stop) \/ (c.dir < 0 /\ quote.l <= c.stop)
      ELSE (c.dir > 0 /\ quote.l <= c.limit) \/ (c.dir < 0 /\ quote.h >= c.limit)
TriggerPrice(o) ==
  LET c == o.call
      level == IF c.stop > 0 THEN c.stop ELSE c.limit
  IN  IF c.dir > 0 THEN Greatest(level, quote.o) ELSE Least(level, quote.o)

-----------------------------------------------------------------------------
(* The script: the hooks build an Intent and call AddIntent. *)

Init ==
  /\ bar = 0 /\ phase = "script" /\ seq = 0
  /\ quote \in Quotes /\ prevClose = 0
  /\ market = {} /\ cond = {}
  /\ ready = {} /\ resting = {} /\ triggers = {} /\ still = {}
  /\ trailSeen = NoPositions
  /\ acct = [positions |-> NoPositions, cash |-> InitialCapital, trades |-> {},
             realized |-> 0, fees |-> 0]
  /\ equity = InitialCapital /\ wiped = FALSE
  /\ ocaHit = {}

AddIntent(c) ==
  /\ phase = "script" /\ seq < MaxCalls
  /\ seq' = seq + 1
  /\ UNCHANGED <<bar, quote, prevClose, phase, locals, acct, equity, wiped, ocaHit>>

\* strategy.cancel(id) and strategy.cancel_all()
Cancel(c) ==
  /\ c.kind = "cancel" /\ c.when
  /\ AddIntent(c)
  /\ market' = Dropped(market, c.id) /\ cond' = Dropped(cond, c.id)
CancelAll(c) ==
  /\ c.kind = "cancel_all" /\ c.when
  /\ AddIntent(c)
  /\ market' = {} /\ cond' = {}

\* strategy.close_all(): nothing is queued when the aggregate size is zero.
CloseAll(c) ==
  /\ c.kind = "close_all" /\ c.when
  /\ AddIntent(c)
  /\ LET size == PositionSize(acct.positions)
     IN  market' = IF size = 0 THEN market ELSE market \cup {NewOrder(c, size)}
  /\ UNCHANGED cond

\* strategy.close(id): the quantity is fixed now, an unknown id stands for the
\* aggregate.
QtyForEntry(id) ==
  IF id \in DOMAIN acct.positions THEN -acct.positions[id].qty ELSE -PositionSize(acct.positions)
Close(c) ==
  /\ c.kind = "close" /\ c.when
  /\ AddIntent(c)
  /\ LET size == QtyForEntry(c.id)
     IN  market' = IF size = 0 THEN market ELSE market \cup {NewOrder(c, size)}
  /\ UNCHANGED cond

\* strategy.exit: a level above zero makes it a resting exit, which replaces the
\* resting order of the same id; levels none of which is above zero make it a
\* market exit; without any level the hook ignores it.
Exit(c) ==
  /\ c.kind = "exit" /\ c.when /\ HasArgument(c)
  /\ AddIntent(c)
  /\ IF HasLevel(c)
     THEN cond' = Dropped(cond, c.id) \cup {NewOrder(c, c.qty)} /\ UNCHANGED market
     ELSE market' = market \cup {NewOrder(c, c.qty)} /\ UNCHANGED cond

\* strategy.entry and strategy.order: the pending orders of the same id are
\* replaced.  A resting entry does not keep `when`.
Enter(c) ==
  /\ c.kind \in {"entry", "order"}
  /\ AddIntent(c)
  /\ IF c.stop > 0 \/ c.limit > 0
     THEN market' = Dropped(market, c.id) /\ cond' = Dropped(cond, c.id) \cup {NewOrder(c, c.qty)}
     ELSE market' = Dropped(market, c.id) \cup {NewOrder(c, c.qty)} /\ cond' = Dropped(cond, c.id)

-----------------------------------------------------------------------------
(* Step(bar + 1). *)

\* Mutant: orders wait one bar more.
DueLater(o) == o.bar < bar
\* Orders submitted by this bar's script are not looked at in its own Step.
Due(o) == o.bar < bar + 1

\* fillMarketOrders: the orders of earlier bars are taken from the queue.
BeginStep ==
  /\ phase = "script" /\ bar < LastBar
  /\ quote' \in Quotes /\ prevClose' = quote.c
  /\ ocaHit' = {}
  /\ IF wiped
     THEN /\ market' = {} /\ cond' = {} /\ phase' = "mark"
          /\ UNCHANGED ready
     ELSE /\ ready' = {o \in market : Due(o)}
          /\ market' = market \ ready'
          /\ phase' = "fill"
          /\ UNCHANGED cond
  /\ UNCHANGED <<bar, seq, resting, triggers, still, trailSeen, acct, equity, wiped>>

MarketPrice == IF ProcessOrdersOnClose THEN prevClose ELSE quote.o
MarketDir(o) ==
  LET held == SignOf(PositionSize(acct.positions))
  IN  IF o.call.dir # 0 THEN o.call.dir ELSE IF held # 0 THEN held ELSE 1

\* cancelOCA after a fill; what is in `ready` or `triggers` is out of its reach.
CancelOCA(o, filled) ==
  IF filled /\ o.call.oca # NoOCA
  THEN /\ market' = WithoutOCA(market, o.call.oca)
       /\ cond' = WithoutOCA(cond, o.call.oca)
       /\ ocaHit' = ocaHit \cup {o.call.oca}
  ELSE UNCHANGED <<pending, ocaHit>>

\* One iteration of the loop of fillMarketOrders.
FillMarketOrder ==
  /\ phase = "fill" /\ ready # {}
  /\ LET o == First(ready)
         price == [i \in DOMAIN acct.positions |-> MarketPrice]
         reason == [i \in DOMAIN acct.positions |-> "market"]
     IN  /\ ready' = ready \ {o}
         /\ \/ /\ ~ o.call.when
               /\ UNCHANGED <<acct, pending, ocaHit>>
            \/ /\ o.call.when /\ o.call.kind \notin {"entry", "order"}
               /\ acct' = Realize(acct, ExitTake(acct.positions, o), price, reason)
               /\ UNCHANGED <<pending, ocaHit>>
            \/ /\ o.call.when /\ o.call.kind \in {"entry", "order"}
               /\ acct' = ExecuteEntry(acct, o, o.call.kind, MarketDir(o), MarketPrice)
               /\ CancelOCA(o, Fills(acct, o, o.call.kind, MarketDir(o), MarketPrice))
  /\ UNCHANGED <<clock, phase, resting, triggers, still, trailSeen, equity, wiped>>

\* Mutant: an exit whose entry has not filled yet is dropped.
KeptAttached(exits, ps) ==
  {[o EXCEPT !.armed = IF @ = Never THEN bar + 1 ELSE @] : o \in {x \in exits : Targets(x, ps) # {}}}
\* The exits that go on resting: those with a position to apply to, which arm, and
\* those that never had one.  An armed exit without a position is dropped.
Kept(exits, ps) ==
  LET attached == {o \in exits : Targets(o, ps) # {}}
  IN  {[o EXCEPT !.armed = IF @ = Never THEN bar + 1 ELSE @] : o \in attached}
        \cup {o \in exits \ attached : o.armed = Never}

\* The positions a trailing exit applies to, with their direction.
Trailed(exits, ps) ==
  [i \in {j \in DOMAIN ps : \E o \in exits : j \in Targets(o, ps) /\ o.call.trail > 0} |->
     SignOf(ps[i].qty)]

\* processConditionals up to its loop over the entries: resolves the resting
\* exits against the open positions, and executes their brackets.
ProcessExits ==
  /\ phase = "fill" /\ ready = {}
  /\ LET due == {o \in cond : Due(o)}
         exits == {o \in due : o.call.kind = "exit"}
     IN  /\ resting' = (cond \ due) \cup Kept(exits, acct.positions)
         /\ trailSeen' = Trailed(exits, acct.positions)
         /\ triggers' = due \ exits
         /\ acct' = RunBrackets(acct, exits)
  /\ still' = {}
  /\ phase' = "entries"
  /\ UNCHANGED <<clock, pending, ready, equity, wiped, ocaHit>>

\* One iteration of the loop over the resting entries.
TryResting ==
  /\ phase = "entries" /\ triggers # {}
  /\ LET o == First(triggers)
     IN  /\ triggers' = triggers \ {o}
         /\ \/ /\ ~ Triggered(o)
               /\ still' = still \cup {o}
               /\ UNCHANGED <<acct, pending, ocaHit>>
            \/ /\ Triggered(o)
               /\ acct' = ExecuteEntry(acct, o, "", o.call.dir, TriggerPrice(o))
               /\ CancelOCA(o, Fills(acct, o, "", o.call.dir, TriggerPrice(o)))
               /\ UNCHANGED still
  /\ UNCHANGED <<clock, phase, ready, resting, trailSeen, equity, wiped>>

\* The trailing extremes of the positions take in this bar.
FollowTrails(ps) ==
  [i \in DOMAIN ps |->
     IF i \notin DOMAIN trailSeen THEN ps[i]
     ELSE IF trailSeen[i] > 0 THEN [ps[i] EXCEPT !.hi = Greatest(@, quote.h)]
     ELSE [ps[i] EXCEPT !.lo = Least(@, quote.l)]]

\* The end of processConditionals: the list is rebuilt from its parts, and then the
\* trails move.
RestOrders ==
  /\ phase = "entries" /\ triggers = {}
  /\ cond' = resting \cup still
  /\ acct' = [acct EXCEPT !.positions = FollowTrails(@)]
  /\ resting' = {} /\ still' = {} /\ trailSeen' = NoPositions
  /\ phase' = "mark"
  /\ UNCHANGED <<clock, market, ready, triggers, equity, wiped, ocaHit>>

\* Mutant: an account with nothing left survives.
SolventAtZero(marked) == marked >= 0
\* checkMarginCall: the account survives only above zero.
Solvent(marked) == marked > 0

\* The rest of Step: equity is marked at the close; at zero or below the account
\* is liquidated and wiped (checkMarginCall).  The callback advances the bar.
Mark ==
  /\ phase = "mark"
  /\ LET marked == EquityNow(acct, quote.c)
     IN  IF wiped \/ Solvent(marked)
         THEN /\ equity' = marked
              /\ UNCHANGED <<acct, wiped, pending>>
         ELSE /\ equity' = 0 /\ wiped' = TRUE
              /\ acct' = Liquidated(acct)
              /\ market' = {} /\ cond' = {}
  /\ bar' = bar + 1
  /\ phase' = "script"
  /\ UNCHANGED <<seq, quote, prevClose, locals, ocaHit>>

\* After the last bar's callback, which steps nothing.
Finish ==
  /\ phase = "script" /\ bar = LastBar
  /\ phase' = "done"
  /\ UNCHANGED <<clock, pending, locals, acct, equity, wiped, ocaHit>>
Done == phase = "done" /\ UNCHANGED vars

Script == \E c \in Calls : Cancel(c) \/ CancelAll(c) \/ CloseAll(c) \/ Close(c) \/ Exit(c) \/ Enter(c)
Callback == BeginStep \/ FillMarketOrder \/ ProcessExits \/ TryResting \/ RestOrders \/ Mark \/ Finish

Next == Script \/ Callback \/ Done
Spec == Init /\ [][Next]_vars
=============================================================================
