------------------------------ MODULE SimProps ------------------------------
(***************************************************************************)
(* What the simulator promises.                                            *)
(***************************************************************************)
EXTENDS Sim

ps == acct.positions

Reasons == {"market", "reverse", "stop_loss", "take_profit", "margin_call"}
Trade == [entry : Ids, qty : Nat, dir : {-1, 1}, entryPrice : Int, exitPrice : Int, pnl : Int,
          entryBar : Nat, exitBar : Nat, reason : Reasons]

\* The open positions of a bar's callback: none is ever empty, and each was
\* opened on a bar that has been reached.  The code tests both all over.
IsBook(p) ==
  /\ DOMAIN p \subseteq Ids /\ p \in [DOMAIN p -> Position]
  /\ \A i \in DOMAIN p : p[i].qty # 0 /\ p[i].from <= bar + 1
IsAccount(a) ==
  /\ a \in [positions : {a.positions}, cash : Int, trades : SUBSET Trade,
            realized : Int, fees : Int]
  /\ IsBook(a.positions)

\* The state is well typed.
TypeOK ==
  /\ bar \in Nat /\ seq \in Nat
  /\ phase \in {"script", "fill", "entries", "mark", "done"}
  /\ quote \in Quotes /\ prevClose \in Nat
  /\ market \subseteq Order /\ cond \subseteq Order /\ ready \subseteq Order
  /\ resting \subseteq Order /\ triggers \subseteq Order /\ still \subseteq Order
  /\ DOMAIN trailSeen \subseteq Ids /\ trailSeen \in [DOMAIN trailSeen -> {-1, 1}]
  /\ IsAccount(acct)
  /\ equity \in Int /\ wiped \in BOOLEAN /\ ocaHit \subseteq Nat

\* Bankruptcy (checkMarginCall: "nothing may fill after bankruptcy"): a wiped
\* account has no cash, no positions and no equity, and no order is on its way
\* to be filled.
Bankrupt ==
  wiped => /\ acct.cash = 0 /\ DOMAIN ps = {} /\ equity = 0
           /\ ready = {} /\ triggers = {} /\ resting = {} /\ still = {}

\* The bankruptcy floor: marked equity is never negative, and it is zero only in
\* an account that is wiped.
EquityFloor == equity >= 0 /\ (equity = 0 => wiped)

\* After the wipe nothing ever changes in the account, whatever the script does:
\* the equity is not resurrected and no trade is booked.
NoResurrection == [][wiped => wiped' /\ UNCHANGED <<acct, equity>>]_vars

\* strategy.entry: the open positions have one direction, and no more of them
\* than `pyramiding` allows (0 and 1 both allow one).
PyramidingCap ==
  /\ Cardinality(DOMAIN ps) <= Greatest(Pyramiding, 1)
  /\ \A i, j \in DOMAIN ps : SignOf(ps[i].qty) = SignOf(ps[j].qty)

\* Double entry: until the wipe, the cash and the positions at cost are the
\* capital, plus what the closed trades made, minus the fees.
Ledger ==
  ~ wiped => acct.cash + SumOf([i \in DOMAIN ps |-> ps[i].qty * ps[i].avg])
               = InitialCapital + acct.realized - acct.fees

\* A market order has one chance, at the next bar: when the script runs, the
\* orders of earlier bars are filled or gone.
MarketOrdersExpire == phase = "script" => \A o \in market : o.bar = bar

\* The locals of a Step are empty outside it, market orders are of this bar, only
\* orders that may rest rest, and a wiped account steps straight to its mark:
\* with TypeOK and Bankrupt, what makes the invariants inductive.
Orderly ==
  /\ phase # "fill" => ready = {}
  /\ phase # "entries" => resting = {} /\ triggers = {} /\ still = {}
  /\ phase \in {"fill", "entries", "mark"} => market = {}
  /\ \A o \in market : o.bar = bar
  /\ \A o \in cond \cup resting \cup still \cup triggers :
       o.call.kind \in {"entry", "order", "exit"} /\ o.seq <= seq
  /\ \A o \in triggers : o.call.kind # "exit"
  /\ wiped => phase \in {"script", "mark", "done"}

\* Resting orders have distinct ids: an order replaces the one of its id
\* ("stale stops from earlier bars accumulate" otherwise).
RestingIdsUnique ==
  \A o, p \in cond \cup resting \cup triggers \cup still :
    o.call.id = p.call.id => o.seq = p.seq

\* No fill at a price the bar did not trade: a new position's price and a closed
\* trade's lie between the bar's low and high, but for the slippage.
FillsInRange ==
  [][\A p \in {ps'[i].avg : i \in {j \in DOMAIN ps' : j \notin DOMAIN ps}}
          \cup {t.exitPrice : t \in acct'.trades \ acct.trades} :
       Slipped(quote.l, FALSE) <= p /\ p <= Slipped(quote.h, TRUE)]_vars

\* The fixed stops resting for position i.
StopsOf(i) == {o \in cond : o.call.kind = "exit" /\ o.call.entry \in {i, NoId} /\ o.call.stop > 0}
FixedStopOnly(i) == \A o \in cond : o.call.kind = "exit" /\ o.call.entry \in {i, NoId} =>
                                      o.call.loss <= 0 /\ o.call.trail <= 0

\* Stops protect: a position carried through a bar that traded through its
\* resting stop is not open at its close.
StopHonoured ==
  phase = "mark" =>
    \A i \in DOMAIN ps :
      ps[i].from <= bar /\ StopsOf(i) # {} /\ FixedStopOnly(i) =>
        LET stop == Last(StopsOf(i)).call.stop
        IN  IF ps[i].qty > 0 THEN quote.l > stop ELSE quote.h < stop

\* An exit declared before its entry filled keeps resting until it has had a
\* position to protect: no Step loses it.
UnarmedExitRests ==
  [][phase # "script" /\ ~ wiped' =>
       \A o \in cond : o.call.kind = "exit" /\ o.armed = Never =>
         \E p \in cond' \cup resting' : p.seq = o.seq]_vars

-----------------------------------------------------------------------------
(* What a comment or a test of the repository says and the code does not do. *)

\* A fill of an OCA group cancels the group's other resting entries (sim.go:
\* "executeEntry cancels OCA group").
OCACancelled == phase = "mark" => \A o \in cond : o.call.kind # "exit" => o.call.oca \notin ocaHit
=============================================================================
