----------------------------- MODULE SimProofs -----------------------------
(***************************************************************************)
(* Proofs of the simulator's invariants, for any ids, calls, quotes and    *)
(* declaration: first that every operator on the account returns an        *)
(* account, then that every action preserves the inductive invariant, then *)
(* what a step may never do: touch a wiped account, lose a waiting exit or *)
(* fill at a price the bar did not trade; last, what holds of a strategy   *)
(* without strategy.order.                                                 *)
(***************************************************************************)
EXTENDS SimProps, SumTheorems, TLAPS

-----------------------------------------------------------------------------
(* The operators on the account. *)

\* The entries that are open are finitely many, so their sizes have a sum.
LEMMA SumOverBook ==
  ASSUME NEW S, S \subseteq Ids, NEW g \in [S -> Int]
  PROVE  IsFiniteSet(S) /\ SumOf(g) \in Int
<1>1. IsFiniteSet(S)
  BY IdsAssumption, FS_Subset
<1> QED BY <1>1, SumType

\* The aggregate position of a book is an integer.
LEMMA SizeType ==
  ASSUME NEW p, IsBook(p) PROVE PositionSize(p) \in Int
<1> DEFINE g == [i \in DOMAIN p |-> p[i].qty]
<1>1. g \in [DOMAIN p -> Int] /\ DOMAIN p \subseteq Ids
  BY DEF IsBook, Position
<1>2. SumOf(g) \in Int
  BY <1>1, SumOverBook
<1> QED BY <1>2 DEF PositionSize

\* A fill price is an integer, whatever the slippage.
LEMMA SlippedType ==
  ASSUME NEW x \in Int, NEW b PROVE Slipped(x, b) \in Int
<1>1. Slippage \in Int
  BY DeclAssumption
<1>2. (x * (100 + Slippage)) \in Int /\ (x * (100 - Slippage)) \in Int
  BY <1>1
<1> QED BY <1>2 DEF Slipped

\* Signs and magnitudes.
LEMMA SignType ==
  ASSUME NEW x \in Int
  PROVE  /\ SignOf(x) \in {-1, 0, 1} /\ Abs(x) \in Nat
         /\ x # 0 => SignOf(x) \in {-1, 1} /\ Abs(x) > 0
         /\ x > 0 => SignOf(x) = 1 /\ Abs(x) = x
         /\ x < 0 => SignOf(x) = -1 /\ Abs(x) = -x
BY DEF SignOf, Abs

\* Realize keeps an account an account: what is left of a book is a book, and
\* the trades it books are trades.
LEMMA RealizeType ==
  ASSUME bar \in Nat, NEW a, IsAccount(a),
         NEW take \in [DOMAIN a.positions -> Nat],
         NEW price \in [DOMAIN a.positions -> Int],
         NEW reason \in [DOMAIN a.positions -> Reasons]
  PROVE  IsAccount(Realize(a, take, price, reason))
<1> DEFINE p == a.positions
           D == DOMAIN p
           hit == {i \in D : take[i] > 0}
           paid(i) == Slipped(price[i], p[i].qty < 0)
           pnl(i) == SignOf(p[i].qty) * (paid(i) - p[i].avg) * take[i]
           flow == [i \in hit |-> SignOf(p[i].qty) * take[i] * paid(i)]
           gain == [i \in hit |-> pnl(i)]
           booked == {[entry |-> i, qty |-> take[i], dir |-> SignOf(p[i].qty),
                       entryPrice |-> p[i].avg, exitPrice |-> paid(i), pnl |-> pnl(i),
                       entryBar |-> p[i].from, exitBar |-> bar + 1,
                       reason |-> reason[i]] : i \in hit}
           rest == Remaining(p, take)
<1>1. /\ D \subseteq Ids /\ p \in [D -> Position]
      /\ \A i \in D : p[i].qty # 0 /\ p[i].from <= bar + 1
  BY DEF IsAccount, IsBook
<1>2. \A i \in D : /\ p[i].qty \in Int /\ p[i].avg \in Int /\ p[i].from \in Nat
                   /\ p[i].hi \in Int /\ p[i].lo \in Int
  BY <1>1 DEF Position
<1>3. \A i \in D : paid(i) \in Int /\ SignOf(p[i].qty) \in {-1, 1} /\ take[i] \in Nat
  <2>1. \A i \in D : price[i] \in Int /\ take[i] \in Nat
    OBVIOUS
  <2>2. \A i \in D : paid(i) \in Int
    <3> HIDE DEF p, D
    <3> QED BY <2>1, SlippedType
  <2> QED BY <1>1, <1>2, <2>1, <2>2, SignType
<1>4. flow \in [hit -> Int] /\ gain \in [hit -> Int]
  <2>1. \A i \in hit : SignOf(p[i].qty) * take[i] * paid(i) \in Int
    BY <1>3
  <2>2. \A i \in hit : pnl(i) \in Int
    BY <1>2, <1>3
  <2> QED BY <2>1, <2>2
<1>5. hit \subseteq Ids
  BY <1>1
<1>6. SumOf(flow) \in Int /\ SumOf(gain) \in Int
  <2> HIDE DEF flow, gain, hit
  <2> QED BY <1>4, <1>5, SumOverBook
<1>7. booked \subseteq Trade
  <2> SUFFICES ASSUME NEW i \in hit
               PROVE  [entry |-> i, qty |-> take[i], dir |-> SignOf(p[i].qty),
                       entryPrice |-> p[i].avg, exitPrice |-> paid(i), pnl |-> pnl(i),
                       entryBar |-> p[i].from, exitBar |-> bar + 1,
                       reason |-> reason[i]] \in Trade
    OBVIOUS
  <2>1. i \in D /\ i \in Ids /\ pnl(i) \in Int /\ bar + 1 \in Nat
    BY <1>1, <1>4
  <2>2. take[i] \in Nat /\ SignOf(p[i].qty) \in {-1, 1} /\ paid(i) \in Int /\ reason[i] \in Reasons
    BY <1>3, <2>1
  <2>3. p[i].avg \in Int /\ p[i].from \in Nat
    BY <1>2, <2>1
  <2> HIDE DEF pnl, paid, hit, D, p
  <2> QED BY <2>1, <2>2, <2>3 DEF Trade
<1>8. IsBook(rest)
  <2>1. DOMAIN rest = {j \in D : take[j] < Abs(p[j].qty)}
    BY DEF Remaining
  <2>2. ASSUME NEW i \in DOMAIN rest
        PROVE  rest[i] \in Position /\ rest[i].qty # 0 /\ rest[i].from <= bar + 1
    <3>1. i \in D /\ take[i] < Abs(p[i].qty) /\ p[i] \in Position
      BY <1>1, <2>1
    <3>2. rest[i] = [p[i] EXCEPT !.qty = @ - SignOf(@) * take[i]]
      BY <2>1 DEF Remaining
    <3>3. /\ p[i].qty - SignOf(p[i].qty) * take[i] \in Int
          /\ p[i].qty - SignOf(p[i].qty) * take[i] # 0
      BY <1>1, <1>2, <3>1 DEF SignOf, Abs
    <3>4. /\ rest[i].qty = p[i].qty - SignOf(p[i].qty) * take[i]
          /\ rest[i].from = p[i].from /\ rest[i] \in Position
      BY <3>1, <3>2, <3>3 DEF Position
    <3> QED BY <1>1, <3>1, <3>3, <3>4
  <2>3. rest = [i \in DOMAIN rest |-> rest[i]]
    BY DEF Remaining
  <2> QED BY <1>1, <2>1, <2>2, <2>3 DEF IsBook
<1>9. Realize(a, take, price, reason) =
        [positions |-> rest, cash |-> a.cash + SumOf(flow),
         realized |-> a.realized + SumOf(gain), fees |-> a.fees,
         trades |-> a.trades \cup booked]
  BY DEF Realize
<1> HIDE DEF rest, flow, gain, booked
<1> QED BY <1>6, <1>7, <1>8, <1>9 DEF IsAccount

\* closeAllAt takes an account to an account without positions.
LEMMA CloseAllType ==
  ASSUME bar \in Nat, NEW a, IsAccount(a), NEW x \in Int, NEW r \in Reasons
  PROVE  /\ IsAccount(CloseAllAt(a, x, r))
         /\ DOMAIN CloseAllAt(a, x, r).positions = {}
<1> DEFINE p == a.positions
           take == [i \in DOMAIN p |-> Abs(p[i].qty)]
           price == [i \in DOMAIN p |-> x]
           reason == [i \in DOMAIN p |-> r]
<1>1. \A i \in DOMAIN p : p[i].qty \in Int
  BY DEF IsAccount, IsBook, Position
<1>2. take \in [DOMAIN p -> Nat]
  BY <1>1, SignType
<1>3. price \in [DOMAIN p -> Int] /\ reason \in [DOMAIN p -> Reasons]
  OBVIOUS
<1>4. CloseAllAt(a, x, r) = Realize(a, take, price, reason)
  BY DEF CloseAllAt
<1>5. DOMAIN Realize(a, take, price, reason).positions = {}
  <2>1. Realize(a, take, price, reason).positions = Remaining(p, take)
    BY DEF Realize
  <2>2. DOMAIN Remaining(p, take) = {j \in DOMAIN p : take[j] < Abs(p[j].qty)}
    BY DEF Remaining
  <2>3. \A j \in DOMAIN p : ~ (take[j] < Abs(p[j].qty))
    BY <1>1, SignType
  <2> QED BY <2>1, <2>2, <2>3
<1>6. IsAccount(Realize(a, take, price, reason))
  <2> HIDE DEF take, price, reason
  <2> QED BY <1>2, <1>3, RealizeType
<1> QED BY <1>4, <1>5, <1>6

\* A liquidated account is an account, with nothing in it.
LEMMA LiquidatedType ==
  ASSUME bar \in Nat, quote \in Quotes, NEW a, IsAccount(a)
  PROVE  /\ IsAccount(Liquidated(a))
         /\ Liquidated(a).cash = 0 /\ DOMAIN Liquidated(a).positions = {}
<1> DEFINE r == CloseAllAt(a, quote.c, "margin_call")
<1>1. quote.c \in Int
  BY QuotesAssumption
<1>2. IsAccount(r) /\ DOMAIN r.positions = {}
  BY <1>1, CloseAllType DEF Reasons
<1>3. Liquidated(a) = [r EXCEPT !.cash = 0]
  BY DEF Liquidated
<1> HIDE DEF r
<1>4. r \in [positions : {r.positions}, cash : Int, trades : SUBSET Trade,
             realized : Int, fees : Int]
  BY <1>2 DEF IsAccount
<1>5. /\ [r EXCEPT !.cash = 0].positions = r.positions
      /\ [r EXCEPT !.cash = 0].cash = 0
      /\ [r EXCEPT !.cash = 0] \in [positions : {r.positions}, cash : Int,
                                    trades : SUBSET Trade, realized : Int, fees : Int]
  BY <1>4
<1> QED BY <1>2, <1>3, <1>5 DEF IsAccount

\* The fill of an order is an account: a new position is a position.
LEMMA ApplyFillType ==
  ASSUME bar \in Nat, NEW a, IsAccount(a), NEW id \in Ids, NEW dir \in {-1, 1},
         NEW qty \in Nat \ {0}, NEW quoted \in Int
  PROVE  IsAccount(ApplyFill(a, id, dir, qty, quoted))
<1> DEFINE p == a.positions
           D == DOMAIN p
           price == Slipped(quoted, dir > 0)
           old == IF id \in D THEN p[id]
                  ELSE [qty |-> 0, avg |-> 0, from |-> bar + 1, hi |-> 0, lo |-> 0]
           newQty == old.qty + dir * qty
           avg == IF old.qty = 0 THEN price
                  ELSE IF SignOf(old.qty) = SignOf(newQty)
                       THEN (Abs(old.qty) * old.avg + qty * price) \div Abs(newQty)
                       ELSE old.avg
           new == [qty |-> newQty, avg |-> avg, from |-> old.from,
                   hi |-> IF old.hi = 0 THEN price ELSE Greatest(old.hi, price),
                   lo |-> IF old.lo = 0 THEN price ELSE Least(old.lo, price)]
           without == [i \in D \ {id} |-> p[i]]
           with == [i \in D \cup {id} |-> IF i = id THEN new ELSE p[i]]
<1>1. /\ D \subseteq Ids /\ p \in [D -> Position] /\ a.cash \in Int
      /\ \A i \in D : p[i].qty # 0 /\ p[i].from <= bar + 1
  BY DEF IsAccount, IsBook
<1>2. price \in Int
  BY SlippedType
<1>3. old \in Position /\ old.from <= bar + 1
  BY <1>1 DEF Position
<1>4. newQty \in Int
  BY <1>3 DEF Position
<1>5. CASE newQty = 0
  <2>1. ApplyFill(a, id, dir, qty, quoted) = [a EXCEPT !.positions = without]
    BY <1>5 DEF ApplyFill
  <2>2. IsBook(without)
    BY <1>1 DEF IsBook
  <2> HIDE DEF without
  <2> QED BY <2>1, <2>2 DEF IsAccount
<1>6. CASE newQty # 0
  <2>1. ApplyFill(a, id, dir, qty, quoted) =
          [a EXCEPT !.positions = with, !.cash = @ - dir * qty * price]
    BY <1>6 DEF ApplyFill
  <2>2. avg \in Int
    <3>1. old.qty \in Int /\ old.avg \in Int
      BY <1>3 DEF Position
    <3>2. Abs(newQty) \in Nat \ {0} /\ Abs(old.qty) \in Int
      BY <1>4, <1>6, <3>1, SignType
    <3>3. Abs(old.qty) * old.avg + qty * price \in Int
      BY <1>2, <3>1, <3>2
    <3>4. (Abs(old.qty) * old.avg + qty * price) \div Abs(newQty) \in Int
      <4> HIDE DEF newQty, old, price
      <4> QED BY <3>2, <3>3
    <3> HIDE DEF newQty, old, price
    <3> QED BY <1>2, <3>1, <3>4
  <2>3. new \in Position /\ new.qty # 0 /\ new.from <= bar + 1
    <3> HIDE DEF avg, price, old
    <3> QED BY <1>2, <1>3, <1>4, <1>6, <2>2 DEF Position, Greatest, Least
  <2>4. IsBook(with)
    <3> HIDE DEF new
    <3> QED BY <1>1, <2>3 DEF IsBook
  <2>5. a.cash - dir * qty * price \in Int
    BY <1>1, <1>2
  <2> HIDE DEF with
  <2> QED BY <2>1, <2>4, <2>5 DEF IsAccount
<1> QED BY <1>5, <1>6

\* A default quantity is an integer: no price at or below zero is divided by.
LEMMA EntryQtyType ==
  ASSUME equity \in Int, NEW o, o.qty \in Int, NEW price \in Nat \ {0}
  PROVE  EntryQty(o, price) \in Int
<1>1. QtyValue \in Int
  BY DeclAssumption
<1>2. QtyValue \div price \in Int
  BY <1>1
<1>3. (equity * QtyValue) \div (100 * price) \in Int
  <2>1. equity * QtyValue \in Int
    BY <1>1
  <2>2. 100 * price \in Nat \ {0}
    OBVIOUS
  <2> QED BY <2>1, <2>2
<1>4. DefaultQty(price) \in Int
  BY <1>1, <1>2, <1>3, DeclAssumption DEF DefaultQty
<1> QED BY <1>4 DEF EntryQty

\* The commission is an integer.
LEMMA FeeType ==
  ASSUME NEW qty \in Int, NEW price \in Int PROVE Fee(qty, price) \in Int
<1>1. CommissionValue \in Int
  BY DeclAssumption
<1>2. qty * CommissionValue \in Int /\ qty * price * CommissionValue \in Int
  BY <1>1
<1>3. (qty * price * CommissionValue) \div 100 \in Int
  BY <1>2
<1> QED BY <1>1, <1>2, <1>3, DeclAssumption DEF Fee

\* The account after a commission is an account.
LEMMA ChargedType ==
  ASSUME NEW a, IsAccount(a), NEW fee \in Int PROVE IsAccount(Charged(a, fee))
<1> DEFINE c == a.cash - fee
           f == a.fees + fee
           r == [a EXCEPT !.cash = c, !.fees = f]
<1>1. /\ a \in [positions : {a.positions}, cash : Int, trades : SUBSET Trade,
                realized : Int, fees : Int]
      /\ IsBook(a.positions)
  BY DEF IsAccount
<1>2. c \in Int /\ f \in Int
  BY <1>1
<1>3. Charged(a, fee) = r
  BY DEF Charged
<1> HIDE DEF c, f
<1>4. /\ r \in [positions : {a.positions}, cash : Int, trades : SUBSET Trade,
                realized : Int, fees : Int]
      /\ r.positions = a.positions
  BY <1>1, <1>2
<1> HIDE DEF r
<1> QED BY <1>1, <1>3, <1>4 DEF IsAccount

\* executeEntry takes an account to an account, whichever way it returns.
LEMMA ExecuteEntryType ==
  ASSUME bar \in Nat, equity \in Int, NEW a, IsAccount(a),
         NEW o, o.qty \in Int, o.call.id \in Ids, NEW kind, NEW dir \in {-1, 1},
         NEW price \in Int
  PROVE  IsAccount(ExecuteEntry(a, o, kind, dir, price))
<1> DEFINE reversed == IF Reverses(a, kind, dir) THEN CloseAllAt(a, price, "reverse") ELSE a
           qty == EntryQty(o, price)
           filled == ApplyFill(reversed, o.call.id, dir, qty, price)
           fee == Fee(qty, price)
<1>1. IsAccount(reversed)
  BY CloseAllType DEF Reasons
<1>2. CASE price <= 0 \/ wiped \/ Ignored(a, o, kind, dir)
  BY <1>2 DEF ExecuteEntry
<1>3. CASE ~ (price <= 0 \/ wiped \/ Ignored(a, o, kind, dir)) /\ qty <= 0
  BY <1>1, <1>3 DEF ExecuteEntry
<1>4. CASE ~ (price <= 0 \/ wiped \/ Ignored(a, o, kind, dir)) /\ ~ (qty <= 0)
  <2>1. price \in Nat \ {0}
    BY <1>4
  <2>2. qty \in Int
    BY <2>1, EntryQtyType
  <2>3. qty \in Nat \ {0}
    BY <1>4, <2>2
  <2>4. IsAccount(filled) /\ fee \in Int
    <3> HIDE DEF reversed, qty
    <3> QED BY <1>1, <2>2, <2>3, ApplyFillType, FeeType
  <2>5. ExecuteEntry(a, o, kind, dir, price) = Charged(filled, fee)
    BY <1>4 DEF ExecuteEntry
  <2> HIDE DEF filled, fee
  <2> QED BY <2>4, <2>5, ChargedType
<1> QED BY <1>2, <1>3, <1>4

\* What may be taken off the positions of a book: of each, at most what there is.
Takes(p) == {t \in [DOMAIN p -> Nat] : \A i \in DOMAIN p : t[i] <= Abs(p[i].qty)}

\* A market exit closes at most what there is of each position.
LEMMA ExitTakeType ==
  ASSUME NEW p, IsBook(p), NEW o, o.qty \in Int
  PROVE  ExitTake(p, o) \in Takes(p)
<1> DEFINE whole == [i \in DOMAIN p |-> Abs(p[i].qty)]
           none == [i \in DOMAIN p |-> 0]
           asked(i) == IF o.qty = 0 THEN whole[i] ELSE Least(Abs(o.qty), whole[i])
           named == [i \in DOMAIN p |-> IF i = Target(o) THEN asked(i) ELSE 0]
           before(i) == [j \in {k \in DOMAIN p : k < i} |-> Abs(p[j].qty)]
<1>1. \A i \in DOMAIN p : p[i].qty \in Int /\ Abs(p[i].qty) \in Nat
  BY SignType DEF IsBook, Position
<1>2. whole \in Takes(p) /\ none \in Takes(p)
  BY <1>1 DEF Takes
<1>3. \A i \in DOMAIN p : asked(i) \in Nat /\ asked(i) <= Abs(p[i].qty)
  <2>1. Abs(o.qty) \in Nat
    BY SignType
  <2>2. \A i \in DOMAIN p : whole[i] \in Nat /\ whole[i] = Abs(p[i].qty)
    BY <1>1
  <2> HIDE DEF whole
  <2> QED BY <2>1, <2>2 DEF Least
<1>4. named \in Takes(p)
  <2> HIDE DEF asked
  <2> QED BY <1>1, <1>3 DEF Takes
<1>5. ASSUME 0 < o.qty PROVE FirstIn(p, o.qty) \in Takes(p)
  <2>1. \A i \in DOMAIN p : SumOf(before(i)) \in Int
    <3> TAKE i \in DOMAIN p
    <3>1. {k \in DOMAIN p : k < i} \subseteq Ids
      BY DEF IsBook
    <3>2. before(i) \in [{k \in DOMAIN p : k < i} -> Int]
      BY <1>1
    <3> HIDE DEF before
    <3> QED BY <3>1, <3>2, SumOverBook
  <2> DEFINE first(i) == Least(Greatest(o.qty - SumOf(before(i)), 0), Abs(p[i].qty))
  <2>2. \A i \in DOMAIN p : first(i) \in Nat /\ first(i) <= Abs(p[i].qty)
    <3> HIDE DEF before
    <3> QED BY <1>1, <2>1 DEF Least, Greatest
  <2>3. FirstIn(p, o.qty) = [i \in DOMAIN p |-> first(i)]
    BY DEF FirstIn
  <2> HIDE DEF first
  <2> QED BY <2>2, <2>3 DEF Takes
<1>6. ExitTake(p, o) \in {whole, none, named}
                           \cup (IF 0 < o.qty THEN {FirstIn(p, o.qty)} ELSE {})
  <2>1. CASE o.call.kind = "close_all"
    BY <2>1 DEF ExitTake
  <2>2. CASE o.call.kind # "close_all" /\ Target(o) # NoId
    BY <2>2 DEF ExitTake
  <2>3. CASE o.call.kind # "close_all" /\ Target(o) = NoId
    <3> HIDE DEF whole, none, named
    <3> QED BY <2>3 DEF ExitTake, whole, none
  <2> QED BY <2>1, <2>2, <2>3
<1> HIDE DEF whole, none, named
<1> QED BY <1>2, <1>4, <1>5, <1>6

\* The last of the orders numbered up to n is one of them, with the greatest number.
LEMMA LastType ==
  ASSUME NEW S, S \subseteq Order, S # {}, NEW n \in Nat, \A o \in S : o.seq <= n
  PROVE  Last(S) \in S /\ \A o \in S : o.seq <= Last(S).seq
<1> DEFINE B == {n - o.seq : o \in S}
<1>1. \A o \in S : o.seq \in Nat
  BY DEF Order
<1>2. B \subseteq Nat /\ B # {}
  BY <1>1
<1>3. PICK m \in B : \A k \in B : m <= k
  <2> HIDE DEF B
  <2> QED BY <1>2, LeastNatural
<1>4. PICK o \in S : m = n - o.seq
  BY <1>3
<1>5. \A p \in S : p.seq <= o.seq
  <2> TAKE p \in S
  <2>1. n - p.seq \in B
    OBVIOUS
  <2>2. m <= n - p.seq
    BY <1>3, <2>1
  <2> QED BY <1>1, <1>4, <2>2
<1> HIDE DEF B
<1> QED BY <1>5 DEF Last

\* The first of some orders is one of them.
LEMMA FirstType ==
  ASSUME NEW S, S \subseteq Order, S # {}
  PROVE  First(S) \in S
<1> DEFINE B == {o.seq : o \in S}
<1>1. B \subseteq Nat /\ B # {}
  BY DEF Order
<1>2. PICK m \in B : \A k \in B : m <= k
  <2> HIDE DEF B
  <2> QED BY <1>1, LeastNatural
<1>3. PICK o \in S : m = o.seq
  BY <1>2
<1>4. \A p \in S : o.seq <= p.seq
  BY <1>2, <1>3
<1> QED BY <1>4 DEF First

\* A price the bar traded at.
InBar(x) == quote.l <= x /\ x <= quote.h

\* The brackets of a bar close whole positions, at prices the bar traded at, and leave
\* none whose stop was hit.
LEMMA BracketsRealize ==
  ASSUME bar \in Nat, quote \in Quotes, seq \in Nat, NEW a, IsAccount(a),
         NEW exits, exits \subseteq Order, \A o \in exits : o.seq <= seq
  PROVE  \E take \in Takes(a.positions), price \in [DOMAIN a.positions -> Int],
            reason \in [DOMAIN a.positions -> Reasons] :
           /\ RunBrackets(a, exits) = Realize(a, take, price, reason)
           /\ \A i \in DOMAIN a.positions :
                /\ take[i] > 0 => InBar(price[i])
                /\ \/ take[i] = Abs(a.positions[i].qty)
                   \/ take[i] = 0 /\ ~ StopHit(a.positions[i], GoverningStop(exits, a.positions, i))
<1> DEFINE p == a.positions
           stop(i) == GoverningStop(exits, p, i)
           limit(i) == GoverningLimit(exits, p, i)
           hit(i) == StopHit(p[i], stop(i)) \/ LimitHit(p[i], limit(i))
           take == [i \in DOMAIN p |-> IF hit(i) THEN Abs(p[i].qty) ELSE 0]
           price == [i \in DOMAIN p |-> IF StopHit(p[i], stop(i)) THEN StopFill(p[i], stop(i))
                                        ELSE LimitFill(p[i], limit(i))]
           reason == [i \in DOMAIN p |-> IF StopHit(p[i], stop(i)) THEN "stop_loss"
                                         ELSE "take_profit"]
<1>1. \A i \in DOMAIN p : /\ p[i].qty \in Int /\ p[i].avg \in Int /\ p[i].hi \in Int
                          /\ p[i].lo \in Int /\ Abs(p[i].qty) \in Nat
  BY SignType DEF IsAccount, IsBook, Position
<1>2. \A c \in Calls : /\ c.stop \in Int /\ c.limit \in Int /\ c.profit \in Int
                       /\ c.loss \in Int /\ c.trail \in Int /\ c.off \in Int
  BY CallsAssumption DEF Call
<1>3. \A c \in Calls : \A i \in DOMAIN p : StopLevel(c, p[i]) \in Int /\ LimitLevel(c, p[i]) \in Int
  BY <1>1, <1>2 DEF StopLevel, LimitLevel, StopAt
<1>4. ASSUME NEW i \in DOMAIN p PROVE stop(i) \in Int /\ limit(i) \in Int
  <2> DEFINE S == {o \in exits : i \in Targets(o, p) /\ StopLevel(o.call, p[i]) > 0}
             T == {o \in exits : i \in Targets(o, p) /\ LimitLevel(o.call, p[i]) > 0}
  <2>1. S # {} => Last(S) \in S
    BY LastType
  <2>2. T # {} => Last(T) \in T
    BY LastType
  <2>3. \A o \in exits : o.call \in Calls
    BY DEF Order
  <2>4. stop(i) = IF S = {} THEN 0 ELSE StopLevel(Last(S).call, p[i])
    BY DEF GoverningStop
  <2>5. limit(i) = IF T = {} THEN 0 ELSE LimitLevel(Last(T).call, p[i])
    BY DEF GoverningLimit
  <2>6. S # {} => Last(S) \in exits
    BY <2>1
  <2>7. T # {} => Last(T) \in exits
    BY <2>2
  <2> HIDE DEF S, T, p
  <2> QED BY <1>3, <2>3, <2>4, <2>5, <2>6, <2>7
<1>5. quote.o \in Int
  BY QuotesAssumption
<1>6. price \in [DOMAIN p -> Int]
  <2>1. \A i \in DOMAIN p : StopFill(p[i], stop(i)) \in Int /\ LimitFill(p[i], limit(i)) \in Int
    <3> HIDE DEF stop, limit
    <3> QED BY <1>4, <1>5 DEF StopFill, LimitFill, Least, Greatest
  <2> HIDE DEF stop, limit
  <2> QED BY <2>1
<1>7. take \in Takes(p)
  <2> HIDE DEF hit
  <2> QED BY <1>1 DEF Takes
<1>8. reason \in [DOMAIN p -> Reasons]
  <2> HIDE DEF stop
  <2> QED BY DEF Reasons
<1>9. RunBrackets(a, exits) = Realize(a, take, price, reason)
  BY DEF RunBrackets
<1>10. \A i \in DOMAIN p : take[i] > 0 => InBar(price[i])
  <2> SUFFICES ASSUME NEW i \in DOMAIN p, take[i] > 0 PROVE InBar(price[i])
    OBVIOUS
  <2>1. /\ quote.o \in Int /\ quote.h \in Int /\ quote.l \in Int
        /\ quote.l <= quote.o /\ quote.o <= quote.h
    BY QuotesAssumption
  <2>2. stop(i) \in Int /\ limit(i) \in Int /\ p[i].qty \in Int
    BY <1>1, <1>4
  <2>3. hit(i)
    <3> HIDE DEF hit
    <3> QED OBVIOUS
  <2>4. price[i] = IF StopHit(p[i], stop(i)) THEN StopFill(p[i], stop(i)) ELSE LimitFill(p[i], limit(i))
    OBVIOUS
  <2>5. StopHit(p[i], stop(i)) => InBar(StopFill(p[i], stop(i)))
    <3> HIDE DEF stop, p
    <3> QED BY <2>1, <2>2 DEF StopHit, StopFill, InBar, Least, Greatest
  <2>6. LimitHit(p[i], limit(i)) => InBar(LimitFill(p[i], limit(i)))
    <3> HIDE DEF limit, p
    <3> QED BY <2>1, <2>2 DEF LimitHit, LimitFill, InBar, Least, Greatest
  <2> QED BY <2>3, <2>4, <2>5, <2>6
<1>11. \A i \in DOMAIN p : take[i] = Abs(p[i].qty) \/ (take[i] = 0 /\ ~ StopHit(p[i], stop(i)))
  BY Zenon
<1> HIDE DEF take, price, reason
<1> QED BY <1>6, <1>7, <1>8, <1>9, <1>10, <1>11

\* They take an account to an account.
LEMMA RunBracketsType ==
  ASSUME bar \in Nat, quote \in Quotes, seq \in Nat, NEW a, IsAccount(a),
         NEW exits, exits \subseteq Order, \A o \in exits : o.seq <= seq
  PROVE  IsAccount(RunBrackets(a, exits))
<1>1. PICK take \in Takes(a.positions), price \in [DOMAIN a.positions -> Int],
           reason \in [DOMAIN a.positions -> Reasons] :
        RunBrackets(a, exits) = Realize(a, take, price, reason)
  BY BracketsRealize, Zenon
<1> QED BY <1>1, RealizeType DEF Takes

\* Moving the trails keeps a book a book.
LEMMA FollowTrailsType ==
  ASSUME quote \in Quotes, NEW p, IsBook(p)
  PROVE  /\ IsBook(FollowTrails(p)) /\ DOMAIN FollowTrails(p) = DOMAIN p
         /\ \A i \in DOMAIN p : /\ FollowTrails(p)[i].qty = p[i].qty
                               /\ FollowTrails(p)[i].avg = p[i].avg
                               /\ FollowTrails(p)[i].from = p[i].from
<1>1. quote.h \in Int /\ quote.l \in Int
  BY QuotesAssumption
<1>2. ASSUME NEW i \in DOMAIN p
      PROVE  /\ FollowTrails(p)[i] \in Position
             /\ FollowTrails(p)[i].qty = p[i].qty /\ FollowTrails(p)[i].from = p[i].from
             /\ FollowTrails(p)[i].avg = p[i].avg
  <2>1. p[i] \in Position
    BY DEF IsBook
  <2>2. /\ Greatest(p[i].hi, quote.h) \in Int
        /\ Least(p[i].lo, quote.l) \in Int
    BY <1>1, <2>1 DEF Position, Greatest, Least
  <2> DEFINE up == [p[i] EXCEPT !.hi = Greatest(@, quote.h)]
             down == [p[i] EXCEPT !.lo = Least(@, quote.l)]
  <2>3. up \in Position /\ up.qty = p[i].qty /\ up.from = p[i].from /\ up.avg = p[i].avg
    BY <2>1, <2>2 DEF Position
  <2>4. down \in Position /\ down.qty = p[i].qty /\ down.from = p[i].from /\ down.avg = p[i].avg
    BY <2>1, <2>2 DEF Position
  <2>5. FollowTrails(p)[i] \in {p[i], up, down}
    <3> HIDE DEF up, down
    <3> QED BY DEF FollowTrails, up, down
  <2> HIDE DEF up, down
  <2> QED BY <2>1, <2>3, <2>4, <2>5
<1>3. DOMAIN FollowTrails(p) = DOMAIN p
      /\ FollowTrails(p) = [i \in DOMAIN p |-> FollowTrails(p)[i]]
  BY DEF FollowTrails
<1> QED BY <1>2, <1>3 DEF IsBook

-----------------------------------------------------------------------------
(* The inductive invariant. *)

\* What every state satisfies: each part needs TypeOK, and Bankrupt needs to know
\* that a Step of a wiped account fills nothing (Orderly).
Inv == TypeOK /\ Orderly /\ Bankrupt /\ EquityFloor /\ RestingIdsUnique

\* An account that is typed after a step within a bar is typed in the new state.
LEMMA AccountKept ==
  ASSUME bar' = bar, IsAccount(acct') PROVE IsAccount(acct)'
BY DEF IsAccount, IsBook

\* The initial states satisfy the invariant.
LEMMA InitInv == ASSUME Init PROVE Inv
<1>1. InitialCapital \in Nat \ {0}
  BY DeclAssumption
<1>2. /\ bar = 0 /\ phase = "script" /\ seq = 0 /\ quote \in Quotes /\ prevClose = 0
      /\ market = {} /\ cond = {} /\ ready = {} /\ resting = {} /\ triggers = {} /\ still = {}
      /\ trailSeen = NoPositions /\ equity = InitialCapital /\ wiped = FALSE /\ ocaHit = {}
      /\ acct = [positions |-> NoPositions, cash |-> InitialCapital, trades |-> {},
                 realized |-> 0, fees |-> 0]
  BY DEF Init
<1>3. DOMAIN NoPositions = {} /\ NoPositions = [i \in {} |-> i]
  BY DEF NoPositions
<1>4. IsBook(acct.positions)
  BY <1>2, <1>3 DEF IsBook
<1>5. IsAccount(acct)
  BY <1>1, <1>2, <1>4 DEF IsAccount
<1>6. TypeOK
  <2>1. DOMAIN trailSeen \subseteq Ids /\ trailSeen \in [DOMAIN trailSeen -> {-1, 1}]
    BY <1>2, <1>3
  <2>2. equity \in Int
    BY <1>1, <1>2
  <2> QED BY <1>2, <1>5, <2>1, <2>2 DEF TypeOK
<1>7. Orderly
  BY <1>2 DEF Orderly
<1> QED BY <1>1, <1>2, <1>6, <1>7 DEF Inv, Bankrupt, EquityFloor, RestingIdsUnique

\* A new order is an order.
LEMMA NewOrderType ==
  ASSUME seq \in Nat, bar \in Nat, seq' = seq + 1, NEW c \in Calls, NEW q \in Int
  PROVE  NewOrder(c, q) \in Order
<1>1. seq' \in Nat
  OBVIOUS
<1> QED BY <1>1 DEF NewOrder, Order

\* A call of the script queues orders of this bar, and replaces the resting order
\* of its id; it leaves the account alone.
LEMMA ScriptStep == ASSUME Inv, Script PROVE Inv'
<1> USE DEF Inv
<1>1. PICK c \in Calls : Cancel(c) \/ CancelAll(c) \/ CloseAll(c) \/ Close(c) \/ Exit(c) \/ Enter(c)
  BY DEF Script
<1>2. AddIntent(c)
  BY <1>1 DEF Cancel, CancelAll, CloseAll, Close, Exit, Enter
<1>3. /\ phase = "script" /\ seq' = seq + 1 /\ seq' \in Nat
      /\ UNCHANGED <<bar, quote, prevClose, phase, locals, acct, equity, wiped, ocaHit>>
  BY <1>2 DEF AddIntent, TypeOK
<1>4. /\ ready = {} /\ resting = {} /\ triggers = {} /\ still = {}
      /\ ready' = {} /\ resting' = {} /\ triggers' = {} /\ still' = {}
  BY <1>3 DEF Orderly, locals
<1>5. ASSUME NEW S, S \subseteq Order, NEW id PROVE Dropped(S, id) \subseteq S
  BY DEF Dropped
<1>6. c.qty \in Int
  BY CallsAssumption DEF Call
<1>7. NewOrder(c, c.qty) \in Order
  BY <1>3, <1>6, NewOrderType DEF TypeOK
<1>8. PositionSize(ps) \in Int
  BY SizeType DEF TypeOK, IsAccount, ps
<1>9. \E n \in Order : n.bar = bar /\ market' \subseteq market \cup {n}
  <2>1. CASE CloseAll(c)
    <3>1. NewOrder(c, PositionSize(ps)) \in Order
      BY <1>3, <1>8, NewOrderType DEF TypeOK
    <3>2. market' \subseteq market \cup {NewOrder(c, PositionSize(ps))}
      BY <2>1 DEF CloseAll, ps
    <3> QED BY <3>1, <3>2 DEF NewOrder
  <2>2. CASE Close(c)
    <3>1. QtyForEntry(c.id) \in Int
      BY <1>8 DEF QtyForEntry, TypeOK, IsAccount, IsBook, Position, ps
    <3>2. NewOrder(c, QtyForEntry(c.id)) \in Order
      BY <1>3, <3>1, NewOrderType DEF TypeOK
    <3>3. market' \subseteq market \cup {NewOrder(c, QtyForEntry(c.id))}
      BY <2>2 DEF Close
    <3> QED BY <3>2, <3>3 DEF NewOrder
  <2>3. CASE Cancel(c) \/ CancelAll(c) \/ Exit(c) \/ Enter(c)
    <3>1. market' \subseteq market \cup {NewOrder(c, c.qty)}
      BY <2>3, <1>5 DEF Cancel, CancelAll, Exit, Enter, TypeOK
    <3> QED BY <1>7, <3>1 DEF NewOrder
  <2> QED BY <1>1, <2>1, <2>2, <2>3
<1>10. \/ cond' \subseteq cond
       \/ /\ c.kind \in {"entry", "order", "exit"}
          /\ cond' = Dropped(cond, c.id) \cup {NewOrder(c, c.qty)}
  <2>1. CASE Cancel(c) \/ CancelAll(c) \/ CloseAll(c) \/ Close(c)
    BY <2>1, <1>5 DEF Cancel, CancelAll, CloseAll, Close, TypeOK
  <2>2. CASE Exit(c)
    BY <2>2, <1>5 DEF Exit, TypeOK
  <2>3. CASE Enter(c)
    BY <2>3, <1>5 DEF Enter, TypeOK
  <2> QED BY <1>1, <2>1, <2>2, <2>3
<1>11. TypeOK'
  <2>1. market' \subseteq Order
    BY <1>9 DEF TypeOK
  <2>2. cond' \subseteq Order
    BY <1>5, <1>7, <1>10 DEF TypeOK
  <2>3. IsAccount(acct)'
    BY <1>3, AccountKept DEF TypeOK
  <2> QED BY <1>3, <1>4, <2>1, <2>2, <2>3 DEF TypeOK, locals
<1>12. \A o \in cond' : \/ o \in cond
                        \/ o = NewOrder(c, c.qty) /\ c.kind \in {"entry", "order", "exit"}
  BY <1>5, <1>10 DEF TypeOK
<1>13. NewOrder(c, c.qty).seq = seq' /\ NewOrder(c, c.qty).call = c
  BY DEF NewOrder
<1>14. Orderly'
  <2>1. \A o \in market' : o.bar = bar'
    BY <1>3, <1>9 DEF Orderly
  <2>2. \A o \in cond : o.seq \in Nat /\ o.seq <= seq
    BY DEF Orderly, TypeOK, Order
  <2>3. \A o \in cond' : o.call.kind \in {"entry", "order", "exit"} /\ o.seq <= seq'
    BY <1>3, <1>12, <1>13, <2>2 DEF Orderly, TypeOK
  <2> QED BY <1>3, <1>4, <2>1, <2>3 DEF Orderly
<1>15. Bankrupt' /\ EquityFloor'
  BY <1>3, <1>4 DEF Bankrupt, EquityFloor, ps, locals
<1>16. RestingIdsUnique'
  <2>1. \A o \in cond : o.call.kind \notin {"close", "close_all"}
    BY DEF Orderly
  <2>2. \A o \in Dropped(cond, c.id) : o \in cond /\ o.call.id # c.id
    BY <2>1 DEF Dropped, Named
  <2>3. ASSUME NEW o \in cond', NEW p \in cond', o.call.id = p.call.id PROVE o.seq = p.seq
    BY <1>10, <1>13, <2>2, <2>3 DEF RestingIdsUnique
  <2> QED BY <1>4, <2>3 DEF RestingIdsUnique
<1> QED BY <1>11, <1>14, <1>15, <1>16

\* The queue is split: the orders of earlier bars, which are all there are, leave it.
LEMMA BeginStepInv == ASSUME Inv, BeginStep PROVE Inv'
<1> USE DEF Inv
<1>1. /\ phase = "script" /\ quote \in Quotes /\ quote' \in Quotes /\ prevClose' = quote.c
      /\ ocaHit' = {}
      /\ UNCHANGED <<bar, seq, resting, triggers, still, trailSeen, acct, equity, wiped>>
  BY DEF BeginStep, TypeOK
<1>2. prevClose' \in Nat
  BY <1>1, QuotesAssumption
<1>3. ready = {} /\ resting = {} /\ triggers = {} /\ still = {}
  BY <1>1 DEF Orderly
<1>4. \A o \in market : Due(o)
  BY DEF Orderly, Due, TypeOK
<1>5. /\ market' = {} /\ cond' \subseteq cond /\ ready' \subseteq market
      /\ phase' \in {"fill", "mark"}
      /\ phase' = "mark" => ready' = {}
      /\ wiped => phase' = "mark" /\ ready' = {}
  BY <1>3, <1>4 DEF BeginStep
<1>6. IsAccount(acct)'
  BY <1>1, AccountKept DEF TypeOK
<1>7. TypeOK'
  BY <1>1, <1>2, <1>5, <1>6 DEF TypeOK
<1>8. Orderly'
  BY <1>1, <1>3, <1>5 DEF Orderly
<1>9. Bankrupt' /\ EquityFloor'
  BY <1>1, <1>3, <1>5 DEF Bankrupt, EquityFloor, ps
<1>10. RestingIdsUnique'
  BY <1>1, <1>5 DEF RestingIdsUnique
<1> QED BY <1>7, <1>8, <1>9, <1>10

\* A market order goes into the account, one at a time.
LEMMA FillMarketOrderInv == ASSUME Inv, FillMarketOrder PROVE Inv'
<1> USE DEF Inv
<1> DEFINE o == First(ready)
           price == [i \in DOMAIN acct.positions |-> MarketPrice]
           reason == [i \in DOMAIN acct.positions |-> "market"]
           dir == MarketDir(o)
<1>1. /\ phase = "fill" /\ ready # {} /\ ready' = ready \ {o}
      /\ UNCHANGED <<clock, phase, resting, triggers, still, trailSeen, equity, wiped>>
  BY DEF FillMarketOrder
<1>2. /\ bar' = bar /\ seq' = seq /\ quote' = quote /\ prevClose' = prevClose
      /\ phase' = phase /\ resting' = resting /\ triggers' = triggers /\ still' = still
      /\ trailSeen' = trailSeen /\ equity' = equity /\ wiped' = wiped
  BY <1>1 DEF clock
<1>3. o \in ready /\ o \in Order
  BY <1>1, FirstType DEF TypeOK
<1>4. o.qty \in Int /\ o.call \in Calls /\ o.call.dir \in {-1, 0, 1} /\ o.call.oca \in Nat
  BY <1>3, CallsAssumption DEF Order, Call
<1>5. /\ IsAccount(acct) /\ IsBook(acct.positions)
      /\ bar \in Nat /\ equity \in Int /\ quote \in Quotes /\ seq \in Nat
  BY DEF TypeOK, IsAccount
<1>6. MarketPrice \in Int
  BY <1>5, QuotesAssumption DEF MarketPrice, TypeOK
<1>7. dir \in {-1, 1}
  BY <1>4, <1>5, SizeType, SignType DEF MarketDir
<1>8. \/ UNCHANGED <<acct, pending, ocaHit>>
      \/ /\ o.call.kind \notin {"entry", "order"}
         /\ acct' = Realize(acct, ExitTake(acct.positions, o), price, reason)
         /\ UNCHANGED <<pending, ocaHit>>
      \/ /\ o.call.kind \in {"entry", "order"}
         /\ acct' = ExecuteEntry(acct, o, o.call.kind, dir, MarketPrice)
         /\ CancelOCA(o, Fills(acct, o, o.call.kind, dir, MarketPrice))
  BY DEF FillMarketOrder
<1>9. IsAccount(acct')
  <2>1. CASE UNCHANGED <<acct, pending, ocaHit>>
    BY <1>5, <2>1
  <2>2. CASE acct' = Realize(acct, ExitTake(acct.positions, o), price, reason)
    <3>1. price \in [DOMAIN acct.positions -> Int] /\ reason \in [DOMAIN acct.positions -> Reasons]
      BY <1>6 DEF Reasons
    <3>2. ExitTake(acct.positions, o) \in [DOMAIN acct.positions -> Nat]
      BY <1>4, <1>5, ExitTakeType DEF Takes
    <3> HIDE DEF price, reason, o
    <3> QED BY <1>5, <2>2, <3>1, <3>2, RealizeType
  <2>3. CASE /\ o.call.kind \in {"entry", "order"}
             /\ acct' = ExecuteEntry(acct, o, o.call.kind, dir, MarketPrice)
    <3>1. o.call.id \in Ids
      BY <1>4, <2>3, CallsAssumption
    <3> HIDE DEF o, dir
    <3> QED BY <1>4, <1>5, <1>6, <1>7, <2>3, <3>1, ExecuteEntryType
  <2> QED BY <1>8, <2>1, <2>2, <2>3
<1>10. IsAccount(acct)'
  BY <1>2, <1>9, AccountKept
<1>11. market' \subseteq market /\ cond' \subseteq cond /\ ocaHit' \subseteq Nat
  BY <1>4, <1>8 DEF CancelOCA, WithoutOCA, pending, TypeOK
<1>12. TypeOK'
  <2> HIDE DEF o
  <2> QED BY <1>1, <1>2, <1>10, <1>11 DEF TypeOK
<1>13. Orderly'
  BY <1>1, <1>2, <1>11 DEF Orderly
<1>14. Bankrupt' /\ EquityFloor'
  BY <1>1, <1>2 DEF Bankrupt, EquityFloor, Orderly
<1>15. RestingIdsUnique'
  BY <1>2, <1>11 DEF RestingIdsUnique
<1> QED BY <1>12, <1>13, <1>14, <1>15

\* The orders an exit pass keeps are orders of the list, armed or not.
LEMMA KeptType ==
  ASSUME bar \in Nat, NEW exits, exits \subseteq Order, NEW p
  PROVE  /\ Kept(exits, p) \subseteq Order
         /\ \A k \in Kept(exits, p) :
              \E o \in exits : k.call = o.call /\ k.seq = o.seq /\ k.bar = o.bar
<1> SUFFICES ASSUME NEW k \in Kept(exits, p)
             PROVE  /\ k \in Order
                    /\ \E o \in exits : k.call = o.call /\ k.seq = o.seq /\ k.bar = o.bar
  OBVIOUS
<1>1. CASE k \in exits
  BY <1>1
<1>2. CASE k \notin exits
  <2>1. PICK o \in exits : k = [o EXCEPT !.armed = IF @ = Never THEN bar + 1 ELSE @]
    BY <1>2 DEF Kept
  <2>2. o \in Order /\ (IF o.armed = Never THEN bar + 1 ELSE o.armed) \in Nat \cup {Never}
    BY DEF Order
  <2>3. k \in Order /\ k.call = o.call /\ k.seq = o.seq /\ k.bar = o.bar
    BY <2>1, <2>2 DEF Order
  <2> QED BY <2>3
<1> QED BY <1>1, <1>2

\* Of an exit with a position to apply to there is a copy among the kept ones.
LEMMA AttachedKept ==
  ASSUME NEW exits, exits \subseteq Order, NEW p, NEW o \in exits, Targets(o, p) # {}
  PROVE  \E k \in Kept(exits, p) : k.call = o.call /\ k.seq = o.seq
<1> DEFINE k == [o EXCEPT !.armed = IF @ = Never THEN bar + 1 ELSE @]
<1>1. k \in Kept(exits, p)
  BY DEF Kept
<1>2. k.call = o.call /\ k.seq = o.seq
  BY DEF Order
<1> QED BY <1>1, <1>2

\* The resting exits are resolved and their brackets executed.
LEMMA ProcessExitsInv == ASSUME Inv, ProcessExits PROVE Inv'
<1> USE DEF Inv
<1> DEFINE due == {o \in cond : Due(o)}
           exits == {o \in due : o.call.kind = "exit"}
           kept == Kept(exits, acct.positions)
<1>1. /\ phase = "fill" /\ ready = {} /\ phase' = "entries" /\ still' = {}
      /\ resting' = (cond \ due) \cup kept
      /\ trailSeen' = Trailed(exits, acct.positions)
      /\ triggers' = due \ exits
      /\ acct' = RunBrackets(acct, exits)
  BY DEF ProcessExits
<1>2. /\ bar' = bar /\ seq' = seq /\ quote' = quote /\ prevClose' = prevClose
      /\ market' = market /\ cond' = cond /\ ready' = ready
      /\ equity' = equity /\ wiped' = wiped /\ ocaHit' = ocaHit
  BY DEF ProcessExits, clock, pending
<1>3. /\ IsAccount(acct) /\ IsBook(acct.positions)
      /\ bar \in Nat /\ quote \in Quotes /\ seq \in Nat /\ cond \subseteq Order
  BY DEF TypeOK, IsAccount
<1>4. /\ due \subseteq cond /\ exits \subseteq cond /\ exits \subseteq Order
      /\ \A o \in exits : o.seq <= seq
  BY <1>3 DEF Orderly
<1>5. /\ kept \subseteq Order
      /\ \A k \in kept : \E o \in exits : k.call = o.call /\ k.seq = o.seq
  BY <1>3, <1>4, KeptType
<1>6. IsAccount(acct)'
  <2>1. IsAccount(acct')
    <3> HIDE DEF exits
    <3> QED BY <1>1, <1>3, <1>4, RunBracketsType
  <2> QED BY <1>2, <2>1, AccountKept
<1>7. DOMAIN trailSeen' \subseteq Ids /\ trailSeen' \in [DOMAIN trailSeen' -> {-1, 1}]
  <2> DEFINE p == acct.positions
             D == {j \in DOMAIN p : \E o \in exits : j \in Targets(o, p) /\ o.call.trail > 0}
  <2>1. trailSeen' = [i \in D |-> SignOf(p[i].qty)]
    BY <1>1 DEF Trailed
  <2>2. D \subseteq DOMAIN p /\ D \subseteq Ids
    BY <1>3 DEF IsBook
  <2>3. \A i \in DOMAIN p : SignOf(p[i].qty) \in {-1, 1}
    BY <1>3, SignType DEF IsBook, Position
  <2> HIDE DEF D, p
  <2> QED BY <2>1, <2>2, <2>3
<1>8. ASSUME NEW o \in resting' \cup triggers'
      PROVE  \E p \in cond : o.call = p.call /\ o.seq = p.seq
  <2> HIDE DEF kept
  <2>1. o \in cond \/ o \in kept
    BY <1>1, <1>4
  <2> QED BY <1>4, <1>5, <2>1
<1>9. TypeOK'
  <2>1. resting' \subseteq Order /\ triggers' \subseteq Order /\ still' \subseteq Order
    <3> HIDE DEF kept
    <3> QED BY <1>1, <1>3, <1>4, <1>5
  <2>2. phase' \in {"script", "fill", "entries", "mark", "done"}
    BY <1>1
  <2> QED BY <1>2, <1>6, <1>7, <2>1, <2>2 DEF TypeOK
<1>10. Orderly'
  <2>1. \A o \in triggers' : o.call.kind # "exit"
    BY <1>1
  <2>2. \A o \in resting' \cup triggers' :
          o.call.kind \in {"entry", "order", "exit"} /\ o.seq <= seq
    BY <1>8 DEF Orderly
  <2> QED BY <1>1, <1>2, <2>1, <2>2 DEF Orderly
<1>11. Bankrupt' /\ EquityFloor'
  BY <1>1, <1>2 DEF Bankrupt, EquityFloor, Orderly
<1>12. RestingIdsUnique'
  <2>1. \A o \in (cond \cup resting \cup triggers \cup still)' :
          \E p \in cond : o.call = p.call /\ o.seq = p.seq
    BY <1>1, <1>2, <1>8
  <2> QED BY <2>1 DEF RestingIdsUnique
<1> QED BY <1>9, <1>10, <1>11, <1>12

\* A resting entry triggers or goes on resting.
LEMMA TryRestingInv == ASSUME Inv, TryResting PROVE Inv'
<1> USE DEF Inv
<1> DEFINE o == First(triggers)
<1>1. /\ phase = "entries" /\ triggers # {} /\ triggers' = triggers \ {o}
      /\ UNCHANGED <<clock, phase, ready, resting, trailSeen, equity, wiped>>
  BY DEF TryResting
<1>2. /\ bar' = bar /\ seq' = seq /\ quote' = quote /\ prevClose' = prevClose
      /\ phase' = phase /\ ready' = ready /\ resting' = resting
      /\ trailSeen' = trailSeen /\ equity' = equity /\ wiped' = wiped
  BY <1>1 DEF clock
<1>3. o \in triggers /\ o \in Order
  BY <1>1, FirstType DEF TypeOK
<1>4. /\ o.qty \in Int /\ o.call \in Calls /\ o.call.dir \in {-1, 0, 1} /\ o.call.oca \in Nat
      /\ o.call.id \in Ids /\ o.call.stop \in Int /\ o.call.limit \in Int
  BY <1>3, CallsAssumption DEF Order, Call, Orderly
<1>5. /\ IsAccount(acct) /\ bar \in Nat /\ equity \in Int /\ quote \in Quotes
      /\ quote.o \in Int
  BY QuotesAssumption DEF TypeOK
<1>6. TriggerPrice(o) \in Int
  BY <1>4, <1>5 DEF TriggerPrice, Greatest, Least
<1>7. \/ still' = still \cup {o} /\ UNCHANGED <<acct, pending, ocaHit>>
      \/ /\ Triggered(o) /\ still' = still
         /\ acct' = ExecuteEntry(acct, o, "", o.call.dir, TriggerPrice(o))
         /\ CancelOCA(o, Fills(acct, o, "", o.call.dir, TriggerPrice(o)))
  BY DEF TryResting
<1>8. IsAccount(acct')
  <2>1. CASE UNCHANGED <<acct, pending, ocaHit>>
    BY <1>5, <2>1
  <2>2. CASE Triggered(o) /\ acct' = ExecuteEntry(acct, o, "", o.call.dir, TriggerPrice(o))
    <3> HIDE DEF o
    <3>1. o.call.dir \in {-1, 1}
      <4>1. o.call.dir > 0 \/ o.call.dir < 0
        BY <2>2, Zenon DEF Triggered
      <4> QED BY <1>4, <4>1
    <3> QED BY <1>4, <1>5, <1>6, <2>2, <3>1, ExecuteEntryType
  <2> QED BY <1>7, <2>1, <2>2
<1>9. IsAccount(acct)'
  BY <1>2, <1>8, AccountKept
<1>10. market' \subseteq market /\ cond' \subseteq cond /\ ocaHit' \subseteq Nat
  BY <1>4, <1>7 DEF CancelOCA, WithoutOCA, pending, TypeOK
<1>11. /\ triggers' \subseteq triggers
       /\ still' \subseteq still \cup triggers
  BY <1>1, <1>3, <1>7
<1>12. TypeOK'
  <2> HIDE DEF o
  <2> QED BY <1>2, <1>9, <1>10, <1>11 DEF TypeOK
<1>13. Orderly'
  BY <1>1, <1>2, <1>10, <1>11 DEF Orderly
<1>14. Bankrupt' /\ EquityFloor'
  BY <1>1, <1>2 DEF Bankrupt, EquityFloor, Orderly
<1>15. RestingIdsUnique'
  BY <1>2, <1>10, <1>11 DEF RestingIdsUnique
<1> QED BY <1>12, <1>13, <1>14, <1>15

\* The list is rebuilt from its parts.
LEMMA RestOrdersInv == ASSUME Inv, RestOrders PROVE Inv'
<1> USE DEF Inv
<1>1. /\ phase = "entries" /\ triggers = {} /\ cond' = resting \cup still
      /\ acct' = [acct EXCEPT !.positions = FollowTrails(@)]
      /\ resting' = {} /\ still' = {} /\ trailSeen' = NoPositions /\ phase' = "mark"
      /\ bar' = bar /\ seq' = seq /\ quote' = quote /\ prevClose' = prevClose
      /\ market' = market /\ ready' = ready /\ triggers' = triggers
      /\ equity' = equity /\ wiped' = wiped /\ ocaHit' = ocaHit
  BY DEF RestOrders, clock
<1>2. IsAccount(acct) /\ IsBook(acct.positions) /\ quote \in Quotes
  BY DEF TypeOK, IsAccount
<1>3. IsBook(FollowTrails(acct.positions))
  BY <1>2, FollowTrailsType
<1>4. IsAccount(acct')
  <2> DEFINE t == FollowTrails(acct.positions)
  <2>1. IsBook(t)
    BY <1>3
  <2>2. acct' = [acct EXCEPT !.positions = t]
    BY <1>1
  <2> HIDE DEF t
  <2> QED BY <1>2, <2>1, <2>2 DEF IsAccount
<1>5. IsAccount(acct)'
  BY <1>1, <1>4, AccountKept
<1>6. DOMAIN trailSeen' \subseteq Ids /\ trailSeen' \in [DOMAIN trailSeen' -> {-1, 1}]
  BY <1>1 DEF NoPositions
<1>7. TypeOK'
  BY <1>1, <1>5, <1>6 DEF TypeOK
<1>8. Orderly'
  BY <1>1 DEF Orderly
<1>9. Bankrupt' /\ EquityFloor'
  BY <1>1 DEF Bankrupt, EquityFloor, Orderly
<1>10. RestingIdsUnique'
  BY <1>1 DEF RestingIdsUnique
<1> QED BY <1>7, <1>8, <1>9, <1>10

\* Marked equity is an integer, and it is the cash when nothing is open.
LEMMA EquityType ==
  ASSUME NEW a, IsAccount(a), NEW x \in Int
  PROVE  /\ EquityNow(a, x) \in Int
         /\ DOMAIN a.positions = {} => EquityNow(a, x) = a.cash
<1>1. a.cash \in Int /\ IsBook(a.positions)
  BY DEF IsAccount
<1>2. PositionSize(a.positions) \in Int
  BY <1>1, SizeType
<1>3. DOMAIN a.positions = {} => PositionSize(a.positions) = 0
  BY SumOfEmpty DEF PositionSize
<1> QED BY <1>1, <1>2, <1>3 DEF EquityNow

\* Equity is marked; an account that is not solvent is liquidated.
LEMMA MarkInv == ASSUME Inv, Mark PROVE Inv'
<1> USE DEF Inv
<1> DEFINE marked == EquityNow(acct, quote.c)
<1>1. /\ phase = "mark" /\ bar' = bar + 1 /\ phase' = "script"
      /\ seq' = seq /\ quote' = quote /\ prevClose' = prevClose /\ ocaHit' = ocaHit
      /\ ready' = ready /\ resting' = resting /\ triggers' = triggers /\ still' = still
      /\ trailSeen' = trailSeen
  BY DEF Mark, locals
<1>2. /\ IsAccount(acct) /\ quote \in Quotes /\ bar \in Nat /\ market = {}
      /\ ready = {} /\ resting = {} /\ triggers = {} /\ still = {}
  BY <1>1 DEF TypeOK, Orderly
<1>3. marked \in Int /\ (DOMAIN ps = {} => marked = acct.cash)
  BY <1>2, QuotesAssumption, EquityType DEF ps
<1>4. ASSUME NEW x, IsAccount(x), acct' = x PROVE IsAccount(acct)'
  BY <1>1, <1>2, <1>4 DEF IsAccount, IsBook, Position
<1>5. CASE wiped \/ Solvent(marked)
  <2>1. equity' = marked /\ acct' = acct /\ wiped' = wiped /\ market' = market /\ cond' = cond
    BY <1>5 DEF Mark, pending
  <2>2. IsAccount(acct)'
    BY <1>2, <1>4, <2>1
  <2>3. TypeOK'
    BY <1>1, <1>3, <2>1, <2>2 DEF TypeOK
  <2>4. Orderly'
    BY <1>1, <1>2, <2>1 DEF Orderly
  <2>5. Bankrupt' /\ EquityFloor'
    BY <1>1, <1>2, <1>3, <1>5, <2>1 DEF Bankrupt, EquityFloor, Solvent, ps
  <2>6. RestingIdsUnique'
    BY <1>1, <2>1 DEF RestingIdsUnique
  <2> QED BY <2>3, <2>4, <2>5, <2>6
<1>6. CASE ~ (wiped \/ Solvent(marked))
  <2>1. equity' = 0 /\ wiped' = TRUE /\ acct' = Liquidated(acct) /\ market' = {} /\ cond' = {}
    BY <1>6 DEF Mark
  <2>2. /\ IsAccount(Liquidated(acct)) /\ Liquidated(acct).cash = 0
        /\ DOMAIN Liquidated(acct).positions = {}
    BY <1>2, LiquidatedType
  <2>3. IsAccount(acct)'
    BY <1>4, <2>1, <2>2
  <2>4. TypeOK'
    BY <1>1, <2>1, <2>3 DEF TypeOK
  <2>5. Orderly'
    BY <1>1, <1>2, <2>1 DEF Orderly
  <2>6. Bankrupt' /\ EquityFloor'
    BY <1>1, <1>2, <2>1, <2>2 DEF Bankrupt, EquityFloor, ps
  <2>7. RestingIdsUnique'
    BY <1>1, <1>2, <2>1 DEF RestingIdsUnique
  <2> QED BY <2>4, <2>5, <2>6, <2>7
<1> QED BY <1>5, <1>6

\* Steps that change nothing but the phase.
LEMMA StutterInv == ASSUME Inv, UNCHANGED vars \/ Finish PROVE Inv'
<1> USE DEF Inv
<1>1. /\ bar' = bar /\ seq' = seq /\ quote' = quote /\ prevClose' = prevClose
      /\ market' = market /\ cond' = cond /\ ready' = ready /\ resting' = resting
      /\ triggers' = triggers /\ still' = still /\ trailSeen' = trailSeen
      /\ acct' = acct /\ equity' = equity /\ wiped' = wiped /\ ocaHit' = ocaHit
      /\ (phase' = phase \/ (phase = "script" /\ phase' = "done"))
  BY DEF Finish, vars, clock, pending, locals
<1>2. IsAccount(acct)'
  BY <1>1, AccountKept DEF TypeOK
<1>3. TypeOK'
  BY <1>1, <1>2 DEF TypeOK
<1>4. Orderly'
  BY <1>1 DEF Orderly
<1>5. Bankrupt' /\ EquityFloor' /\ RestingIdsUnique'
  BY <1>1 DEF Bankrupt, EquityFloor, RestingIdsUnique, ps
<1> QED BY <1>3, <1>4, <1>5

\* The invariant is inductive.
THEOREM Invariance == Spec => []Inv
<1>1. Init => Inv
  BY InitInv
<1>2. Inv /\ [Next]_vars => Inv'
  BY ScriptStep, BeginStepInv, FillMarketOrderInv, ProcessExitsInv, TryRestingInv,
     RestOrdersInv, MarkInv, StutterInv DEF Next, Callback, Done
<1> QED BY <1>1, <1>2, PTL DEF Spec

\* Type correctness.
THEOREM TypeCorrect == Spec => []TypeOK
BY Invariance, PTL DEF Inv

\* Bankruptcy is final: a wiped account holds nothing, and no order is on its way
\* to be filled.
THEOREM BankruptcyIsFinal == Spec => []Bankrupt
BY Invariance, PTL DEF Inv

\* Marked equity is never negative, and only a wiped account has none.
THEOREM EquityHasFloor == Spec => []EquityFloor
BY Invariance, PTL DEF Inv

\* The resting orders have distinct ids.
THEOREM RestingIdsAreUnique == Spec => []RestingIdsUnique
BY Invariance, PTL DEF Inv

\* A market order is filled or gone one bar after it was submitted.
THEOREM MarketOrdersDoExpire == Spec => []MarketOrdersExpire
<1>1. Inv => MarketOrdersExpire
  BY DEF Inv, Orderly, MarketOrdersExpire
<1> QED BY Invariance, <1>1, PTL

\* Nothing changes in the account after the wipe, whatever the script goes on
\* calling: no step fills an order, books a trade or moves the equity.
THEOREM NoStepResurrects == Spec => NoResurrection
<1>1. Inv /\ [Next]_vars => [wiped => wiped' /\ UNCHANGED <<acct, equity>>]_vars
  <2> SUFFICES ASSUME Inv, Next, wiped PROVE wiped' /\ UNCHANGED <<acct, equity>>
    OBVIOUS
  <2>1. phase \in {"script", "mark", "done"}
    BY DEF Inv, Orderly
  <2>2. ~ FillMarketOrder /\ ~ ProcessExits /\ ~ TryResting /\ ~ RestOrders
    BY <2>1 DEF FillMarketOrder, ProcessExits, TryResting, RestOrders
  <2>3. CASE Mark
    <3>1. EquityNow(acct, quote.c) = equity
      <4>1. acct.cash = 0 /\ DOMAIN ps = {} /\ equity = 0
        BY DEF Inv, Bankrupt
      <4>2. IsAccount(acct) /\ quote.c \in Int
        BY QuotesAssumption DEF Inv, TypeOK
      <4> QED BY <4>1, <4>2, EquityType DEF ps
    <3> QED BY <2>3, <3>1 DEF Mark
  <2>4. CASE Script
    BY <2>4 DEF Script, Cancel, CancelAll, CloseAll, Close, Exit, Enter, AddIntent
  <2>5. CASE BeginStep \/ Finish \/ Done
    BY <2>5 DEF BeginStep, Finish, Done, vars
  <2> QED BY <2>2, <2>3, <2>4, <2>5 DEF Next, Callback
<1> QED BY Invariance, <1>1, PTL DEF Spec, NoResurrection

-----------------------------------------------------------------------------
(* Exits that wait for their entry. *)

UnarmedExits(S) == {o \in S : o.call.kind = "exit" /\ o.armed = Never}

\* Between the exits and the end of a Step the list that is about to be replaced and
\* the list that replaces it hold the same unarmed exits.
Carried == phase = "entries" => \A o \in UnarmedExits(cond) : \E p \in resting : p.seq = o.seq

\* An OCA group cancels no exit.
LEMMA GroupKeepsExits ==
  ASSUME NEW o, NEW filled, CancelOCA(o, filled)
  PROVE  cond' \subseteq cond /\ UnarmedExits(cond) \subseteq cond'
<1>1. cond' = cond \/ cond' = WithoutOCA(cond, o.call.oca)
  BY DEF CancelOCA, pending
<1> QED BY <1>1 DEF WithoutOCA, UnarmedExits

\* So does no step but the one that empties the list of a wiped account.
LEMMA FillKeepsExits ==
  ASSUME FillMarketOrder \/ TryResting
  PROVE  cond' \subseteq cond /\ UnarmedExits(cond) \subseteq cond'
<1>1. CASE cond' = cond
  BY <1>1 DEF UnarmedExits
<1>2. CASE \E o, filled : CancelOCA(o, filled)
  BY <1>2, GroupKeepsExits
<1> QED BY <1>1, <1>2 DEF FillMarketOrder, TryResting, pending

\* What the exits pass of a Step sets aside carries every unarmed exit.
LEMMA ExitsCarried ==
  ASSUME Inv, ProcessExits
  PROVE  \A o \in UnarmedExits(cond) : \E p \in resting' : p.seq = o.seq
<1> SUFFICES ASSUME NEW o \in cond, o.call.kind = "exit", o.armed = Never
             PROVE  \E p \in resting' : p.seq = o.seq
  BY DEF UnarmedExits
<1> DEFINE due == {x \in cond : Due(x)}
           exits == {x \in due : x.call.kind = "exit"}
           attached == {x \in exits : Targets(x, acct.positions) # {}}
<1>1. resting' = (cond \ due) \cup Kept(exits, acct.positions)
  BY DEF ProcessExits
<1>2. Kept(exits, acct.positions) =
        {[x EXCEPT !.armed = IF @ = Never THEN bar + 1 ELSE @] : x \in attached}
          \cup {x \in exits \ attached : x.armed = Never}
  BY DEF Kept
<1>3. CASE o \notin attached
  BY <1>1, <1>2, <1>3
<1>4. CASE o \in attached
  <2>1. exits \subseteq Order /\ o \in exits /\ Targets(o, acct.positions) # {}
    BY <1>4 DEF Inv, TypeOK
  <2> HIDE DEF exits
  <2>2. \E k \in Kept(exits, acct.positions) : k.call = o.call /\ k.seq = o.seq
    BY <2>1, AttachedKept
  <2> QED BY <1>1, <2>2
<1> QED BY <1>3, <1>4

\* Every step keeps the copies of the list in accord.
LEMMA CarriedStep == ASSUME Inv, Carried, [Next]_vars PROVE Carried'
<1>1. CASE UNCHANGED vars \/ Script \/ BeginStep \/ RestOrders \/ Mark \/ Finish \/ Done \/ FillMarketOrder
  <2>1. phase' # "entries" \/ UNCHANGED vars
    BY <1>1 DEF Script, Cancel, CancelAll, CloseAll, Close, Exit, Enter, AddIntent,
                BeginStep, RestOrders, Mark, Finish, Done, FillMarketOrder
  <2> QED BY <2>1 DEF Carried, UnarmedExits, vars, pending, locals
<1>2. CASE ProcessExits
  <2>1. cond' = cond
    BY <1>2 DEF ProcessExits, pending
  <2> QED BY <1>2, <2>1, ExitsCarried DEF Carried, UnarmedExits
<1>3. CASE TryResting
  <2>1. phase = "entries" /\ resting' = resting
    BY <1>3 DEF TryResting
  <2>2. UnarmedExits(cond)' \subseteq UnarmedExits(cond)
    BY <1>3, FillKeepsExits DEF UnarmedExits
  <2> QED BY <2>1, <2>2 DEF Carried
<1> QED BY <1>1, <1>2, <1>3 DEF Next, Callback

\* An exit declared before its entry fills is lost in no step of any bar, whatever
\* fills, triggers or cancels around it: it rests until it has had a position.
THEOREM UnarmedExitsRest == Spec => UnarmedExitRests
<1>1. Init => Carried
  BY DEF Init, Carried
<1>2. Inv /\ Carried /\ [Next]_vars => Carried'
  BY CarriedStep
<1>3. Inv /\ Carried /\ [Next]_vars =>
        [phase # "script" /\ ~ wiped' =>
           \A o \in cond : o.call.kind = "exit" /\ o.armed = Never =>
             \E p \in cond' \cup resting' : p.seq = o.seq]_vars
  <2> SUFFICES ASSUME Inv, Carried, Next, phase # "script", ~ wiped',
                      NEW o \in UnarmedExits(cond)
               PROVE  \E p \in cond' \cup resting' : p.seq = o.seq
    BY DEF UnarmedExits
  <2>1. CASE FillMarketOrder \/ TryResting
    BY <2>1, FillKeepsExits
  <2>2. CASE ProcessExits
    BY <2>2, ExitsCarried
  <2>3. CASE RestOrders
    BY <2>3 DEF RestOrders, Carried
  <2>4. CASE Mark \/ Done
    <3>1. cond' = cond
      BY <2>4 DEF Mark, Done, vars, pending
    <3> QED BY <3>1 DEF UnarmedExits
  <2>5. phase = "script" => FALSE
    OBVIOUS
  <2> QED BY <2>1, <2>2, <2>3, <2>4, <2>5
        DEF Next, Callback, Script, Cancel, CancelAll, CloseAll, Close, Exit, Enter,
            AddIntent, BeginStep, Finish
<1> QED BY <1>1, <1>2, <1>3, Invariance, PTL DEF Spec, UnarmedExitRests

-----------------------------------------------------------------------------
(* Prices. *)

\* Nothing rests at a limit price, which an entry may fill at outside the bar, and
\* nothing fills at the previous close.
StopEntriesOnly ==
  /\ ~ ProcessOrdersOnClose
  /\ \A c \in Calls : c.kind \in {"entry", "order"} => c.stop > 0 \/ c.limit <= 0

\* A price of the bar, but for the slippage.
InRange(x) == Slipped(quote.l, FALSE) <= x /\ x <= Slipped(quote.h, TRUE)

\* From account a to account b nothing fills outside the bar.
FairFills(a, b) ==
  /\ \A i \in DOMAIN b.positions \ DOMAIN a.positions : InRange(b.positions[i].avg)
  /\ \A t \in b.trades \ a.trades : InRange(t.exitPrice)

\* Slippage moves a price of the bar no further than the bar's own range slips: the
\* rounding is monotone.
LEMMA SlippedInRange ==
  ASSUME quote \in Quotes, NEW x \in Int, InBar(x), NEW b
  PROVE  InRange(Slipped(x, b))
<1> DEFINE down == 100 - Slippage
           up == 100 + Slippage
<1>1. /\ quote.l \in Nat \ {0} /\ quote.h \in Nat \ {0}
      /\ quote.l <= x /\ x <= quote.h /\ x \in Nat \ {0}
  BY QuotesAssumption DEF InBar
<1>2. down \in Nat /\ up \in Nat /\ down <= up
  BY DeclAssumption
<1>3. ASSUME NEW m \in Nat, NEW n \in Nat, m <= n PROVE m \div 100 <= n \div 100
  BY <1>3
<1>4. ASSUME NEW m \in Nat, NEW n \in Nat, m <= n, NEW k \in Nat
      PROVE  m * k <= n * k /\ k * m <= k * n /\ m * k \in Nat
  BY <1>4
<1> HIDE DEF down, up
<1>5. /\ quote.l * down <= x * down /\ x * down <= x * up /\ x * up <= quote.h * up
      /\ quote.l * down \in Nat /\ x * down \in Nat /\ x * up \in Nat /\ quote.h * up \in Nat
  BY <1>1, <1>2, <1>4
<1>6. /\ (quote.l * down) \div 100 <= (x * down) \div 100
      /\ (x * down) \div 100 <= (x * up) \div 100
      /\ (x * up) \div 100 <= (quote.h * up) \div 100
  BY <1>3, <1>5
<1>7. /\ Slipped(quote.l, FALSE) = (quote.l * down) \div 100
      /\ Slipped(quote.h, TRUE) = (quote.h * up) \div 100
      /\ Slipped(x, b) \in {(x * down) \div 100, (x * up) \div 100}
  BY <1>1 DEF Slipped, down, up
<1> DEFINE s == Slipped(x, b)
           low == (quote.l * down) \div 100
           high == (quote.h * up) \div 100
<1>8. low \in Int /\ (x * down) \div 100 \in Int /\ (x * up) \div 100 \in Int /\ high \in Int
  BY <1>5
<1>9. low <= s /\ s <= high
  <2> HIDE DEF s, low, high
  <2> QED BY <1>6, <1>7, <1>8 DEF s, low, high
<1> QED BY <1>7, <1>9 DEF InRange

\* Closing at prices of the bar books trades at prices of the bar and opens nothing.
LEMMA RealizeFair ==
  ASSUME quote \in Quotes, NEW a, NEW take,
         NEW price \in [DOMAIN a.positions -> Int],
         \A i \in DOMAIN a.positions : take[i] > 0 => InBar(price[i]), NEW reason
  PROVE  FairFills(a, Realize(a, take, price, reason))
<1> DEFINE p == a.positions
           r == Realize(a, take, price, reason)
<1>1. r.positions = Remaining(p, take)
  BY DEF Realize
<1>2. DOMAIN Remaining(p, take) \subseteq DOMAIN p
  BY DEF Remaining
<1>3. ASSUME NEW t \in r.trades \ a.trades PROVE InRange(t.exitPrice)
  <2>1. PICK i \in DOMAIN p : take[i] > 0 /\ t.exitPrice = Slipped(price[i], p[i].qty < 0)
    BY <1>3 DEF Realize
  <2>2. price[i] \in Int /\ InBar(price[i])
    BY <2>1
  <2> HIDE DEF p
  <2> QED BY <2>1, <2>2, SlippedInRange
<1> HIDE DEF r
<1> QED BY <1>1, <1>2, <1>3 DEF FairFills, r

\* So does closing everything at one price.
LEMMA CloseAllFair ==
  ASSUME quote \in Quotes, NEW a, NEW x \in Int, InBar(x), NEW r
  PROVE  FairFills(a, CloseAllAt(a, x, r))
<1> DEFINE take == [i \in DOMAIN a.positions |-> Abs(a.positions[i].qty)]
           price == [i \in DOMAIN a.positions |-> x]
           reason == [i \in DOMAIN a.positions |-> r]
<1>1. price \in [DOMAIN a.positions -> Int] /\ \A i \in DOMAIN a.positions : price[i] = x
  OBVIOUS
<1>2. CloseAllAt(a, x, r) = Realize(a, take, price, reason)
  BY DEF CloseAllAt
<1> HIDE DEF take, price, reason
<1> QED BY <1>1, <1>2, RealizeFair

\* A fill opens at most the position of its own id, at the price it is given.
LEMMA ApplyFillFair ==
  ASSUME quote \in Quotes, NEW a, IsAccount(a), NEW id \in Ids, NEW dir \in {-1, 1},
         NEW qty \in Nat \ {0}, NEW quoted \in Int, InBar(quoted)
  PROVE  LET r == ApplyFill(a, id, dir, qty, quoted)
         IN  r.trades = a.trades /\ FairFills(a, r)
<1> DEFINE p == a.positions
           r == ApplyFill(a, id, dir, qty, quoted)
           price == Slipped(quoted, dir > 0)
<1>1. a \in [positions : {p}, cash : Int, trades : SUBSET Trade, realized : Int, fees : Int]
  BY DEF IsAccount
<1>2. InRange(price)
  BY SlippedInRange
<1>3. PICK w, c : /\ \/ r = [a EXCEPT !.positions = w]
                     \/ r = [a EXCEPT !.positions = w, !.cash = c]
                  /\ \A i \in DOMAIN w \ DOMAIN p : w[i].avg = price
  <2> DEFINE old == IF id \in DOMAIN p THEN p[id]
                    ELSE [qty |-> 0, avg |-> 0, from |-> bar + 1, hi |-> 0, lo |-> 0]
             newQty == old.qty + dir * qty
             avg == IF old.qty = 0 THEN price
                    ELSE IF SignOf(old.qty) = SignOf(newQty)
                         THEN (Abs(old.qty) * old.avg + qty * price) \div Abs(newQty)
                         ELSE old.avg
             new == [qty |-> newQty, avg |-> avg, from |-> old.from,
                     hi |-> IF old.hi = 0 THEN price ELSE Greatest(old.hi, price),
                     lo |-> IF old.lo = 0 THEN price ELSE Least(old.lo, price)]
             with == [i \in DOMAIN p \cup {id} |-> IF i = id THEN new ELSE p[i]]
             without == [i \in DOMAIN p \ {id} |-> p[i]]
  <2>1. r = IF newQty = 0 THEN [a EXCEPT !.positions = without]
            ELSE [a EXCEPT !.positions = with, !.cash = a.cash - dir * qty * price]
    BY DEF ApplyFill
  <2>2. \A i \in DOMAIN without \ DOMAIN p : without[i].avg = price
    OBVIOUS
  <2>3. \A i \in DOMAIN with \ DOMAIN p : with[i].avg = price
    <3>1. id \notin DOMAIN p => avg = price
      <4> HIDE DEF price, newQty
      <4> QED OBVIOUS
    <3>2. \A i \in DOMAIN with \ DOMAIN p : i = id /\ with[i] = new
      <4> HIDE DEF new
      <4> QED OBVIOUS
    <3>3. new.avg = avg
      <4> HIDE DEF avg, newQty, old, price
      <4> QED OBVIOUS
    <3> HIDE DEF with, new, avg
    <3> QED BY <3>1, <3>2, <3>3
  <2> HIDE DEF with, without, newQty, r, price
  <2> QED BY <2>1, <2>2, <2>3
<1> HIDE DEF r, price
<1>4. r.positions = w /\ r.trades = a.trades
  BY <1>1, <1>3
<1> QED BY <1>2, <1>3, <1>4 DEF FairFills, r

\* executeEntry at a price of the bar, or at none.
LEMMA ExecuteEntryFair ==
  ASSUME bar \in Nat, quote \in Quotes, equity \in Int, NEW a, IsAccount(a),
         NEW o, o.qty \in Int, o.call.id \in Ids, NEW kind, NEW dir \in {-1, 1},
         NEW price \in Int, price > 0 => InBar(price)
  PROVE  FairFills(a, ExecuteEntry(a, o, kind, dir, price))
<1> DEFINE reversed == IF Reverses(a, kind, dir) THEN CloseAllAt(a, price, "reverse") ELSE a
           qty == EntryQty(o, price)
           filled == ApplyFill(reversed, o.call.id, dir, qty, price)
           fee == Fee(qty, price)
           r == ExecuteEntry(a, o, kind, dir, price)
<1>1. IsAccount(reversed)
  BY CloseAllType DEF Reasons
<1>2. CASE price <= 0 \/ wiped \/ Ignored(a, o, kind, dir)
  BY <1>2 DEF ExecuteEntry, FairFills
<1>3. CASE ~ (price <= 0 \/ wiped \/ Ignored(a, o, kind, dir))
  <2>1. price \in Nat \ {0} /\ InBar(price)
    BY <1>3
  <2>2. qty \in Int
    BY <2>1, EntryQtyType
  <2>3. /\ FairFills(a, reversed) /\ DOMAIN reversed.positions \subseteq DOMAIN a.positions
    BY <2>1, CloseAllFair, CloseAllType DEF FairFills, Reasons
  <2>4. CASE qty <= 0
    BY <1>3, <2>3, <2>4 DEF ExecuteEntry
  <2>5. CASE ~ (qty <= 0)
    <3>1. qty \in Nat \ {0}
      BY <2>2, <2>5
    <3>2. filled.trades = reversed.trades /\ FairFills(reversed, filled) /\ IsAccount(filled)
      <4> HIDE DEF reversed, qty
      <4>1. filled.trades = reversed.trades /\ FairFills(reversed, filled)
        BY <1>1, <2>1, <3>1, ApplyFillFair
      <4> QED BY <1>1, <2>1, <3>1, <4>1, ApplyFillType
    <3>3. r = Charged(filled, fee)
      BY <1>3, <2>5 DEF ExecuteEntry
    <3>4. r.positions = filled.positions /\ r.trades = filled.trades
      <4> HIDE DEF filled, fee, r
      <4> QED BY <3>2, <3>3 DEF Charged, IsAccount
    <3>5. \A i \in DOMAIN r.positions \ DOMAIN a.positions :
            i \in DOMAIN filled.positions \ DOMAIN reversed.positions
      <4> HIDE DEF filled, reversed, r
      <4> QED BY <2>3, <3>4
    <3> HIDE DEF filled, reversed, r
    <3> QED BY <2>3, <3>2, <3>4, <3>5 DEF FairFills, r
  <2> QED BY <2>4, <2>5
<1> QED BY <1>2, <1>3

-----------------------------------------------------------------------------

\* Market orders fill at the open.
LEMMA FillMarketOrderFair ==
  ASSUME StopEntriesOnly, Inv, FillMarketOrder PROVE FairFills(acct, acct')
<1> DEFINE o == First(ready)
           price == [i \in DOMAIN acct.positions |-> MarketPrice]
           reason == [i \in DOMAIN acct.positions |-> "market"]
           dir == MarketDir(o)
<1>1. o \in ready /\ o \in Order
  BY FirstType DEF Inv, TypeOK, FillMarketOrder
<1>2. o.qty \in Int /\ o.call \in Calls /\ o.call.dir \in {-1, 0, 1}
  BY <1>1, CallsAssumption DEF Order, Call
<1>3. /\ IsAccount(acct) /\ IsBook(acct.positions)
      /\ bar \in Nat /\ equity \in Int /\ quote \in Quotes
  BY DEF Inv, TypeOK, IsAccount
<1>4. MarketPrice \in Int /\ InBar(MarketPrice)
  BY <1>3, QuotesAssumption DEF MarketPrice, StopEntriesOnly, InBar
<1>5. dir \in {-1, 1}
  BY <1>2, <1>3, SizeType, SignType DEF MarketDir
<1>6. \/ acct' = acct
      \/ acct' = Realize(acct, ExitTake(acct.positions, o), price, reason)
      \/ /\ o.call.kind \in {"entry", "order"}
         /\ acct' = ExecuteEntry(acct, o, o.call.kind, dir, MarketPrice)
  BY DEF FillMarketOrder
<1>7. CASE acct' = acct
  BY <1>7 DEF FairFills
<1>8. CASE acct' = Realize(acct, ExitTake(acct.positions, o), price, reason)
  <2>1. /\ price \in [DOMAIN acct.positions -> Int]
        /\ \A i \in DOMAIN acct.positions : InBar(price[i])
    BY <1>4
  <2> HIDE DEF price, reason, o
  <2> QED BY <1>3, <1>8, <2>1, RealizeFair
<1>9. CASE /\ o.call.kind \in {"entry", "order"}
           /\ acct' = ExecuteEntry(acct, o, o.call.kind, dir, MarketPrice)
  <2>1. o.call.id \in Ids
    BY <1>2, <1>9, CallsAssumption
  <2> HIDE DEF o, dir
  <2> QED BY <1>2, <1>3, <1>4, <1>5, <1>9, <2>1, ExecuteEntryFair
<1> QED BY <1>6, <1>7, <1>8, <1>9

\* Stops and limits fill between their level and the open, on a bar that reached them.
LEMMA ProcessExitsFair == ASSUME Inv, ProcessExits PROVE FairFills(acct, acct')
<1> DEFINE exits == {o \in {x \in cond : Due(x)} : o.call.kind = "exit"}
<1>1. acct' = RunBrackets(acct, exits)
  BY DEF ProcessExits
<1>2. /\ IsAccount(acct) /\ bar \in Nat /\ quote \in Quotes /\ seq \in Nat
      /\ exits \subseteq Order /\ \A o \in exits : o.seq <= seq
  BY DEF Inv, TypeOK, Orderly
<1> HIDE DEF exits
<1>3. PICK take \in Takes(acct.positions), price \in [DOMAIN acct.positions -> Int],
           reason \in [DOMAIN acct.positions -> Reasons] :
        /\ RunBrackets(acct, exits) = Realize(acct, take, price, reason)
        /\ \A i \in DOMAIN acct.positions :
             /\ take[i] > 0 => InBar(price[i])
             /\ \/ take[i] = Abs(acct.positions[i].qty)
                \/ take[i] = 0 /\ ~ StopHit(acct.positions[i], GoverningStop(exits, acct.positions, i))
  BY <1>2, BracketsRealize, Zenon
<1> QED BY <1>1, <1>2, <1>3, RealizeFair

\* A stop entry fills at its level or at an open beyond it.
LEMMA TriggerPriceFair ==
  ASSUME StopEntriesOnly, quote \in Quotes, NEW o, o.call \in Calls,
         o.call.kind \in {"entry", "order"}, Triggered(o)
  PROVE  TriggerPrice(o) \in Int /\ (TriggerPrice(o) > 0 => InBar(TriggerPrice(o)))
<1> DEFINE c == o.call
<1>1. c.dir \in {-1, 0, 1} /\ c.stop \in Int /\ c.limit \in Int /\ (c.stop > 0 \/ c.limit <= 0)
  BY CallsAssumption DEF Call, StopEntriesOnly
<1>2. /\ quote.o \in Nat \ {0} /\ quote.l \in Nat \ {0} /\ quote.h \in Nat \ {0}
      /\ quote.l <= quote.o /\ quote.o <= quote.h
  BY QuotesAssumption
<1>3. CASE c.stop > 0
  <2>1. (c.dir > 0 /\ quote.h >= c.stop) \/ (c.dir < 0 /\ quote.l <= c.stop)
    BY <1>3 DEF Triggered
  <2>2. TriggerPrice(o) = IF c.dir > 0 THEN Greatest(c.stop, quote.o) ELSE Least(c.stop, quote.o)
    BY <1>3 DEF TriggerPrice
  <2> HIDE DEF c
  <2> QED BY <1>1, <1>2, <2>1, <2>2 DEF Greatest, Least, InBar
<1>4. CASE ~ (c.stop > 0)
  <2>1. (c.dir > 0 /\ quote.l <= c.limit) \/ (c.dir < 0 /\ quote.h >= c.limit)
    BY <1>4 DEF Triggered
  <2>2. TriggerPrice(o) = IF c.dir > 0 THEN Greatest(c.limit, quote.o) ELSE Least(c.limit, quote.o)
    BY <1>4 DEF TriggerPrice
  <2> HIDE DEF c
  <2> QED BY <1>1, <1>2, <1>4, <2>1, <2>2 DEF Greatest, Least
<1> QED BY <1>3, <1>4

\* Resting entries fill at a price of the bar.
LEMMA TryRestingFair ==
  ASSUME StopEntriesOnly, Inv, TryResting PROVE FairFills(acct, acct')
<1> DEFINE o == First(triggers)
<1>1. o \in triggers /\ o \in Order
  BY FirstType DEF Inv, TypeOK, TryResting
<1>2. /\ o.qty \in Int /\ o.call \in Calls /\ o.call.dir \in {-1, 0, 1} /\ o.call.id \in Ids
      /\ o.call.kind \in {"entry", "order"}
  BY <1>1, CallsAssumption DEF Order, Call, Inv, Orderly
<1>3. /\ IsAccount(acct) /\ bar \in Nat /\ equity \in Int /\ quote \in Quotes
  BY DEF Inv, TypeOK
<1>4. \/ acct' = acct
      \/ /\ Triggered(o)
         /\ acct' = ExecuteEntry(acct, o, "", o.call.dir, TriggerPrice(o))
  BY DEF TryResting
<1> HIDE DEF o
<1>5. CASE acct' = acct
  BY <1>5 DEF FairFills
<1>6. CASE Triggered(o) /\ acct' = ExecuteEntry(acct, o, "", o.call.dir, TriggerPrice(o))
  <2>1. o.call.dir > 0 \/ o.call.dir < 0
    BY <1>6, Zenon DEF Triggered
  <2>2. o.call.dir \in {-1, 1}
    BY <1>2, <2>1
  <2>3. TriggerPrice(o) \in Int /\ (TriggerPrice(o) > 0 => InBar(TriggerPrice(o)))
    BY <1>2, <1>3, <1>6, TriggerPriceFair
  <2> QED BY <1>2, <1>3, <1>6, <2>2, <2>3, ExecuteEntryFair
<1> QED BY <1>4, <1>5, <1>6

\* A liquidation closes at the close.
LEMMA MarkFair == ASSUME Inv, Mark PROVE FairFills(acct, acct')
<1>1. acct' = acct \/ acct' = Liquidated(acct)
  BY DEF Mark
<1>2. IsAccount(acct) /\ bar \in Nat /\ quote \in Quotes /\ quote.c \in Int /\ InBar(quote.c)
  BY QuotesAssumption DEF Inv, TypeOK, InBar
<1> DEFINE r == CloseAllAt(acct, quote.c, "margin_call")
<1>3. FairFills(acct, r)
  BY <1>2, CloseAllFair
<1>4. Liquidated(acct) = [r EXCEPT !.cash = 0] /\ IsAccount(r)
  BY <1>2, CloseAllType DEF Liquidated, Reasons
<1> HIDE DEF r
<1>5. Liquidated(acct).positions = r.positions /\ Liquidated(acct).trades = r.trades
  BY <1>4 DEF IsAccount
<1> QED BY <1>1, <1>3, <1>5 DEF FairFills

\* No fill of a strategy without limit entries is at a price its bar did not trade:
\* opens, stops, limits, reversals and liquidations.
THEOREM FillsAreInRange == ASSUME StopEntriesOnly PROVE Spec => FillsInRange
<1>1. Inv /\ [Next]_vars =>
        [\A p \in {ps'[i].avg : i \in {j \in DOMAIN ps' : j \notin DOMAIN ps}}
                \cup {t.exitPrice : t \in acct'.trades \ acct.trades} :
             Slipped(quote.l, FALSE) <= p /\ p <= Slipped(quote.h, TRUE)]_vars
  <2> SUFFICES ASSUME Inv, Next
               PROVE  \A p \in {ps'[i].avg : i \in {j \in DOMAIN ps' : j \notin DOMAIN ps}}
                              \cup {t.exitPrice : t \in acct'.trades \ acct.trades} : InRange(p)
    BY DEF InRange
  <2>1. FairFills(acct, acct')
    <3>1. CASE Script \/ BeginStep \/ Finish \/ Done
      <4>1. acct' = acct
        BY <3>1 DEF vars, Script, Cancel, CancelAll, CloseAll, Close, Exit, Enter, AddIntent,
                    BeginStep, Finish, Done
      <4> QED BY <4>1 DEF FairFills
    <3>2. CASE RestOrders
      <4> DEFINE t == FollowTrails(acct.positions)
      <4>1. acct' = [acct EXCEPT !.positions = t] /\ IsAccount(acct)
        BY <3>2 DEF RestOrders, Inv, TypeOK
      <4>2. DOMAIN t = DOMAIN acct.positions
        BY DEF FollowTrails
      <4> HIDE DEF t
      <4>3. acct'.positions = t /\ acct'.trades = acct.trades
        BY <4>1 DEF IsAccount
      <4> QED BY <4>2, <4>3 DEF FairFills
    <3> QED BY <3>1, <3>2, FillMarketOrderFair, ProcessExitsFair, TryRestingFair, MarkFair
            DEF Next, Callback
  <2> QED BY <2>1 DEF FairFills, ps
<1> QED BY <1>1, Invariance, PTL DEF Spec, FillsInRange

-----------------------------------------------------------------------------
(***************************************************************************)
(* A strategy that trades with strategy.entry and never with               *)
(* strategy.order: the pyramiding cap holds, the books balance to the last *)
(* unit, and stops protect.  With strategy.order they fail: opposite       *)
(* positions may be open side by side, an order that exactly closes its    *)
(* position moves no cash, and one that turns a position round leaves it   *)
(* dated on the bar it was first opened on.                                *)
(***************************************************************************)
EntriesOnly == \A c \in Calls : c.kind # "order"

\* The parts of the two properties, of any account.
OneSided(p) == \A i, j \in DOMAIN p : SignOf(p[i].qty) = SignOf(p[j].qty)
Capped(p) == Cardinality(DOMAIN p) <= Greatest(Pyramiding, 1)
Cost(p) == SumOf([i \in DOMAIN p |-> p[i].qty * p[i].avg])
Balanced(a) == a.cash + Cost(a.positions) = InitialCapital + a.realized - a.fees
Sound(a) == OneSided(a.positions) /\ Capped(a.positions) /\ Balanced(a)

\* The aggregate size of a one-sided book has the sign of its positions.
LEMMA SideOfSize ==
  ASSUME NEW p, IsBook(p), OneSided(p)
  PROVE  /\ DOMAIN p = {} => PositionSize(p) = 0
         /\ \A i \in DOMAIN p : SignOf(PositionSize(p)) = SignOf(p[i].qty)
<1> DEFINE S == DOMAIN p
           g == [i \in S |-> p[i].qty]
           n == [i \in S |-> -g[i]]
<1>1. /\ S \subseteq Ids /\ IsFiniteSet(S) /\ g \in [S -> Int] /\ n \in [S -> Int]
      /\ \A i \in S : g[i] = p[i].qty /\ n[i] = -g[i] /\ g[i] \in Int /\ g[i] # 0
  BY IdsAssumption, FS_Subset DEF IsBook, Position
<1>2. PositionSize(p) = SumOf(g)
  BY DEF PositionSize
<1>3. S = {} => SumOf(g) = 0
  BY SumOfEmpty
<1>4. ASSUME NEW i \in S PROVE SignOf(SumOf(g)) = SignOf(g[i])
  <2>1. SumOf(g) \in Int /\ SumOf(n) = -SumOf(g)
    <3> HIDE DEF g, S
    <3> QED BY <1>1, SumType, SumNegated
  <2>2. CASE g[i] > 0
    <3>1. \A j \in S : g[j] > 0
      BY <1>1, <2>2 DEF OneSided, SignOf
    <3>2. SumOf(g) > 0
      <4> HIDE DEF g, S
      <4> QED BY <1>1, <3>1, SumPositive
    <3> HIDE DEF g
    <3> QED BY <2>1, <2>2, <3>2 DEF SignOf
  <2>3. CASE g[i] < 0
    <3>1. \A j \in S : n[j] > 0
      BY <1>1, <2>3 DEF OneSided, SignOf
    <3>2. SumOf(n) > 0
      <4> HIDE DEF n, S
      <4> QED BY <1>1, <3>1, SumPositive
    <3> HIDE DEF g, n
    <3> QED BY <1>1, <2>1, <2>3, <3>2 DEF SignOf
  <2> HIDE DEF g
  <2> QED BY <1>1, <2>2, <2>3
<1> HIDE DEF g
<1> QED BY <1>1, <1>2, <1>3, <1>4

\* What is left of a one-sided, capped book is one-sided and capped.
LEMMA RemainingSound ==
  ASSUME NEW p, IsBook(p), OneSided(p), Capped(p), NEW take \in Takes(p)
  PROVE  OneSided(Remaining(p, take)) /\ Capped(Remaining(p, take))
<1> DEFINE r == Remaining(p, take)
<1>1. /\ \A i \in DOMAIN p : p[i].qty \in Int /\ p[i] \in Position /\ take[i] \in Nat
      /\ DOMAIN p \subseteq Ids
  BY DEF IsBook, Position, Takes
<1>2. DOMAIN r = {j \in DOMAIN p : take[j] < Abs(p[j].qty)} /\ DOMAIN r \subseteq DOMAIN p
  BY DEF Remaining
<1>3. ASSUME NEW i \in DOMAIN r PROVE SignOf(r[i].qty) = SignOf(p[i].qty)
  <2>1. i \in DOMAIN p /\ take[i] < Abs(p[i].qty)
    BY <1>2
  <2>2. r[i].qty = p[i].qty - SignOf(p[i].qty) * take[i]
    <3>1. r[i] = [p[i] EXCEPT !.qty = @ - SignOf(@) * take[i]]
      BY <1>2 DEF Remaining
    <3> HIDE DEF r
    <3> QED BY <1>1, <2>1, <3>1 DEF Position
  <2> HIDE DEF r
  <2> QED BY <1>1, <2>1, <2>2 DEF SignOf, Abs
<1>4. OneSided(r)
  <2> HIDE DEF r
  <2> QED BY <1>2, <1>3 DEF OneSided
<1>5. Cardinality(DOMAIN r) <= Cardinality(DOMAIN p)
      /\ Cardinality(DOMAIN r) \in Nat /\ Cardinality(DOMAIN p) \in Nat
  <2>1. IsFiniteSet(DOMAIN p)
    BY <1>1, IdsAssumption, FS_Subset
  <2> HIDE DEF r
  <2> QED BY <1>2, <2>1, FS_Subset, FS_CardinalityType
<1>6. Greatest(Pyramiding, 1) \in Int
  BY DeclAssumption DEF Greatest
<1> QED BY <1>4, <1>5, <1>6 DEF Capped

\* The cost of what is left and the money that came in differ from the cost of what
\* there was by what was gained: sums agree because the terms of each position do.
LEMMA RealizeBalances ==
  ASSUME NEW a, IsAccount(a), NEW take \in Takes(a.positions),
         NEW price \in [DOMAIN a.positions -> Int], NEW reason
  PROVE  LET r == Realize(a, take, price, reason)
         IN  /\ r.cash \in Int /\ r.realized \in Int /\ r.fees = a.fees
             /\ r.cash + Cost(r.positions) - r.realized =
                  a.cash + Cost(a.positions) - a.realized
<1> DEFINE p == a.positions
           D == DOMAIN p
           s(i) == SignOf(p[i].qty)
           paid(i) == Slipped(price[i], p[i].qty < 0)
           hit == {i \in D : take[i] > 0}
           left == {i \in D : take[i] < Abs(p[i].qty)}
           cost == [i \in D |-> p[i].qty * p[i].avg]
           rest == [i \in D |-> (p[i].qty - s(i) * take[i]) * p[i].avg]
           flow == [i \in D |-> s(i) * take[i] * paid(i)]
           gain == [i \in D |-> s(i) * (paid(i) - p[i].avg) * take[i]]
<1>1. /\ D \subseteq Ids /\ IsFiniteSet(D) /\ hit \subseteq D /\ left \subseteq D
      /\ a.cash \in Int /\ a.realized \in Int
  BY IdsAssumption, FS_Subset DEF IsAccount, IsBook
<1>2. \A i \in D : /\ p[i].qty \in Int /\ p[i].avg \in Int /\ take[i] \in Nat
                   /\ p[i] \in Position
                   /\ take[i] <= Abs(p[i].qty) /\ s(i) \in {-1, 1} /\ price[i] \in Int
  BY SignType DEF IsAccount, IsBook, Position, Takes
<1>3. \A i \in D : paid(i) \in Int
  BY <1>2, SlippedType
<1>4. /\ cost \in [D -> Int] /\ rest \in [D -> Int] /\ flow \in [D -> Int] /\ gain \in [D -> Int]
  <2>1. \A i \in D : /\ p[i].qty * p[i].avg \in Int
                     /\ (p[i].qty - s(i) * take[i]) * p[i].avg \in Int
                     /\ s(i) * take[i] * paid(i) \in Int
                     /\ s(i) * (paid(i) - p[i].avg) * take[i] \in Int
    <3> HIDE DEF s, paid, p
    <3> QED BY <1>2, <1>3
  <2> HIDE DEF s, paid, p, D
  <2> QED BY <2>1
<1>5. \A i \in D : rest[i] + flow[i] = cost[i] + gain[i]
  <2>1. ASSUME NEW q \in Int, NEW t \in Int, NEW v \in Int, NEW x \in Int, NEW k \in {-1, 1}
        PROVE  (q - k * t) * v + k * t * x = q * v + k * (x - v) * t
    <3>1. CASE k = 1
      BY <3>1
    <3>2. CASE k = -1
      BY <3>2
    <3> QED BY <3>1, <3>2
  <2>2. \A i \in D : (p[i].qty - s(i) * take[i]) * p[i].avg + s(i) * take[i] * paid(i) =
                       p[i].qty * p[i].avg + s(i) * (paid(i) - p[i].avg) * take[i]
    <3> HIDE DEF s, paid, p
    <3> QED BY <1>2, <1>3, <2>1
  <2> HIDE DEF s, paid, p
  <2> QED BY <2>2
<1>6. SumOf(rest) + SumOf(flow) = SumOf(cost) + SumOf(gain)
  <2> DEFINE u == [i \in D |-> rest[i] + flow[i]]
             v == [i \in D |-> cost[i] + gain[i]]
  <2>1. u = v
    <3> HIDE DEF rest, flow, cost, gain
    <3> QED BY <1>5
  <2>2. SumOf(u) = SumOf(rest) + SumOf(flow)
    <3> HIDE DEF rest, flow, D
    <3> QED BY <1>1, <1>4, SumPointwise
  <2>3. SumOf(v) = SumOf(cost) + SumOf(gain)
    <3> HIDE DEF cost, gain, D
    <3> QED BY <1>1, <1>4, SumPointwise
  <2> QED BY <2>1, <2>2, <2>3
<1>7. /\ SumOf(rest) \in Int /\ SumOf(flow) \in Int /\ SumOf(cost) \in Int /\ SumOf(gain) \in Int
  <2> HIDE DEF rest, flow, cost, gain, D
  <2> QED BY <1>1, <1>4, SumType
<1>8. SumOf(flow) = SumOf([i \in hit |-> s(i) * take[i] * paid(i)])
  <2>1. \A i \in D \ hit : flow[i] = 0
    <3>1. \A i \in D \ hit : take[i] = 0
      BY <1>2
    <3> HIDE DEF hit, s, paid
    <3> QED BY <1>2, <1>3, <3>1
  <2>2. On(flow, hit) = [i \in hit |-> s(i) * take[i] * paid(i)]
    BY <1>1 DEF On
  <2> HIDE DEF flow, hit, D
  <2> QED BY <1>1, <1>4, <2>1, <2>2, SumSupport
<1>9. SumOf(gain) = SumOf([i \in hit |-> s(i) * (paid(i) - p[i].avg) * take[i]])
  <2>1. \A i \in D \ hit : gain[i] = 0
    <3>1. \A i \in D \ hit : take[i] = 0
      BY <1>2
    <3> HIDE DEF hit, s, paid
    <3> QED BY <1>2, <1>3, <3>1
  <2>2. On(gain, hit) = [i \in hit |-> s(i) * (paid(i) - p[i].avg) * take[i]]
    BY <1>1 DEF On
  <2> HIDE DEF gain, hit, D
  <2> QED BY <1>1, <1>4, <2>1, <2>2, SumSupport
<1>10. SumOf(rest) = Cost(Remaining(p, take))
  <2>1. \A i \in D \ left : rest[i] = 0
    <3>1. \A i \in D \ left : p[i].qty - s(i) * take[i] = 0
      BY <1>2 DEF SignOf, Abs
    <3> HIDE DEF left, s
    <3> QED BY <1>2, <3>1
  <2>2. DOMAIN Remaining(p, take) = left
    BY DEF Remaining
  <2>3. \A i \in left : /\ Remaining(p, take)[i].qty = p[i].qty - s(i) * take[i]
                        /\ Remaining(p, take)[i].avg = p[i].avg
    <3> TAKE i \in left
    <3>1. Remaining(p, take)[i] = [p[i] EXCEPT !.qty = @ - SignOf(@) * take[i]]
      BY DEF Remaining
    <3>2. p[i] \in Position
      BY <1>2
    <3> HIDE DEF p
    <3> QED BY <3>1, <3>2 DEF Position
  <2>4. On(rest, left) = [i \in left |-> (p[i].qty - s(i) * take[i]) * p[i].avg]
    BY <1>1 DEF On
  <2>5. Cost(Remaining(p, take)) = SumOf(On(rest, left))
    <3> HIDE DEF left, s, rest, p
    <3> QED BY <2>2, <2>3, <2>4 DEF Cost
  <2> HIDE DEF rest, left, D
  <2> QED BY <1>1, <1>4, <2>1, <2>5, SumSupport
<1>11. Cost(p) = SumOf(cost)
  BY DEF Cost
<1> DEFINE r == Realize(a, take, price, reason)
<1>12. /\ r.positions = Remaining(p, take) /\ r.fees = a.fees
       /\ r.cash = a.cash + SumOf(flow) /\ r.realized = a.realized + SumOf(gain)
  BY <1>8, <1>9 DEF Realize
<1> HIDE DEF cost, rest, flow, gain, r
<1> QED
  <2>1. /\ r.cash \in Int /\ r.realized \in Int /\ r.fees = a.fees
        /\ r.cash + Cost(r.positions) - r.realized = a.cash + Cost(a.positions) - a.realized
    BY <1>1, <1>6, <1>7, <1>10, <1>11, <1>12
  <2> QED BY <2>1 DEF r

\* Closing at most what there is keeps a sound account sound.
LEMMA RealizeSound ==
  ASSUME bar \in Nat, NEW a, IsAccount(a), Sound(a), NEW take \in Takes(a.positions),
         NEW price \in [DOMAIN a.positions -> Int],
         NEW reason \in [DOMAIN a.positions -> Reasons]
  PROVE  Sound(Realize(a, take, price, reason))
<1> DEFINE r == Realize(a, take, price, reason)
<1>1. IsBook(a.positions) /\ a.cash \in Int /\ a.realized \in Int /\ a.fees \in Int
  BY DEF IsAccount
<1>2. OneSided(r.positions) /\ Capped(r.positions)
  BY <1>1, RemainingSound DEF Sound, Realize
<1>3. /\ r.cash \in Int /\ r.realized \in Int /\ r.fees = a.fees
      /\ r.cash + Cost(r.positions) - r.realized = a.cash + Cost(a.positions) - a.realized
  BY RealizeBalances
<1>4. Cost(r.positions) \in Int /\ Cost(a.positions) \in Int
  <2>1. ASSUME NEW p, IsBook(p) PROVE Cost(p) \in Int
    <3> DEFINE g == [i \in DOMAIN p |-> p[i].qty * p[i].avg]
    <3>1. g \in [DOMAIN p -> Int] /\ DOMAIN p \subseteq Ids
      BY <2>1 DEF IsBook, Position
    <3>2. SumOf(g) \in Int
      BY <3>1, SumOverBook
    <3> QED BY <3>2 DEF Cost
  <2>2. IsAccount(r)
    BY RealizeType DEF Takes
  <2>3. IsBook(r.positions)
    BY <2>2 DEF IsAccount
  <2> HIDE DEF r
  <2> QED BY <1>1, <2>1, <2>3
<1>5. InitialCapital \in Int
  BY DeclAssumption
<1>6. Balanced(r)
  <2>1. a.cash + Cost(a.positions) = InitialCapital + a.realized - a.fees
    BY DEF Sound, Balanced
  <2> HIDE DEF r
  <2> QED BY <1>1, <1>3, <1>4, <1>5, <2>1 DEF Balanced
<1> HIDE DEF r
<1>7. Sound(r)
  BY <1>2, <1>6 DEF Sound
<1> QED BY <1>7 DEF r

\* Closing everything keeps a sound account sound.
LEMMA CloseAllSound ==
  ASSUME bar \in Nat, NEW a, IsAccount(a), Sound(a), NEW x \in Int, NEW r \in Reasons
  PROVE  Sound(CloseAllAt(a, x, r))
<1> DEFINE p == a.positions
           take == [i \in DOMAIN p |-> Abs(p[i].qty)]
           price == [i \in DOMAIN p |-> x]
           reason == [i \in DOMAIN p |-> r]
<1>1. \A i \in DOMAIN p : Abs(p[i].qty) \in Nat
  BY SignType DEF IsAccount, IsBook, Position
<1>2. take \in Takes(p) /\ price \in [DOMAIN p -> Int] /\ reason \in [DOMAIN p -> Reasons]
  BY <1>1 DEF Takes
<1>3. CloseAllAt(a, x, r) = Realize(a, take, price, reason)
  BY DEF CloseAllAt
<1> HIDE DEF take, price, reason
<1> QED BY <1>2, <1>3, RealizeSound

\* The account after a commission is sound.
LEMMA ChargedSound ==
  ASSUME NEW a, IsAccount(a), Sound(a), NEW fee \in Int PROVE Sound(Charged(a, fee))
<1> DEFINE r == Charged(a, fee)
<1>1. /\ a \in [positions : {a.positions}, cash : Int, trades : SUBSET Trade,
                realized : Int, fees : Int]
      /\ a.cash \in Int /\ a.realized \in Int /\ a.fees \in Int
  BY DEF IsAccount
<1>2. /\ r.positions = a.positions /\ r.realized = a.realized
      /\ r.cash = a.cash - fee /\ r.fees = a.fees + fee
  BY <1>1 DEF Charged
<1>3. Cost(a.positions) = InitialCapital + a.realized - a.fees - a.cash
        /\ InitialCapital \in Int
  <2>1. IsBook(a.positions)
    BY DEF IsAccount
  <2> DEFINE g == [i \in DOMAIN a.positions |-> a.positions[i].qty * a.positions[i].avg]
  <2>2. g \in [DOMAIN a.positions -> Int] /\ DOMAIN a.positions \subseteq Ids
    BY <2>1 DEF IsBook, Position
  <2>3. Cost(a.positions) \in Int
    <3>1. SumOf(g) \in Int
      BY <2>2, SumOverBook
    <3> QED BY <3>1 DEF Cost
  <2> QED BY <1>1, <2>3, DeclAssumption DEF Sound, Balanced
<1> HIDE DEF r
<1>4. Sound(r)
  BY <1>1, <1>2, <1>3 DEF Sound, Balanced
<1> QED BY <1>4 DEF r

\* The fill of an entry that is not open adds its cost to the book and takes it from
\* the cash; the book stays one-sided if it was empty or of that direction, and
\* capped if there was room.
LEMMA ApplyFillSound ==
  ASSUME bar \in Nat, NEW a, IsAccount(a), Sound(a), NEW id \in Ids, NEW dir \in {-1, 1},
         NEW qty \in Nat \ {0}, NEW quoted \in Int,
         id \notin DOMAIN a.positions,
         \A i \in DOMAIN a.positions : SignOf(a.positions[i].qty) = dir,
         Cardinality(DOMAIN a.positions) < Greatest(Pyramiding, 1)
  PROVE  Sound(ApplyFill(a, id, dir, qty, quoted))
<1> DEFINE p == a.positions
           D == DOMAIN p
           price == Slipped(quoted, dir > 0)
           new == [qty |-> 0 + dir * qty, avg |-> price, from |-> bar + 1,
                   hi |-> price, lo |-> price]
           with == [i \in D \cup {id} |-> IF i = id THEN new ELSE p[i]]
           r == [a EXCEPT !.positions = with, !.cash = @ - dir * qty * price]
<1>1. /\ D \subseteq Ids /\ IsFiniteSet(D) /\ p \in [D -> Position]
      /\ a.cash \in Int /\ a.realized \in Int /\ a.fees \in Int /\ InitialCapital \in Int
      /\ a \in [positions : {p}, cash : Int, trades : SUBSET Trade, realized : Int, fees : Int]
  BY DeclAssumption, IdsAssumption, FS_Subset DEF IsAccount, IsBook
<1>2. price \in Int
  BY SlippedType
<1>3. 0 + dir * qty # 0 /\ 0 + dir * qty \in Int /\ SignOf(0 + dir * qty) = dir
  BY DEF SignOf
<1>4. ApplyFill(a, id, dir, qty, quoted) = r
  BY <1>3 DEF ApplyFill
<1>5. /\ r.positions = with /\ r.cash = a.cash - dir * qty * price
      /\ r.realized = a.realized /\ r.fees = a.fees
  <2> HIDE DEF with, price
  <2> QED BY <1>1
<1>6. OneSided(with)
  <2>1. \A i \in DOMAIN with : SignOf(with[i].qty) = dir
    <3> HIDE DEF price
    <3> QED BY <1>3
  <2> HIDE DEF with
  <2> QED BY <2>1 DEF OneSided
<1>7. Capped(with)
  <2>1. DOMAIN with = D \cup {id}
    OBVIOUS
  <2>2. Cardinality(D \cup {id}) = Cardinality(D) + 1 /\ Cardinality(D) \in Nat
    BY <1>1, FS_AddElement, FS_CardinalityType
  <2>3. Greatest(Pyramiding, 1) \in Int
    BY DeclAssumption DEF Greatest
  <2> HIDE DEF with, D
  <2>4. Cardinality(D) < Greatest(Pyramiding, 1)
    BY DEF D
  <2> QED BY <2>1, <2>2, <2>3, <2>4 DEF Capped
<1>8. Cost(with) = dir * qty * price + Cost(p) /\ Cost(p) \in Int
  <2> DEFINE g == [i \in D |-> p[i].qty * p[i].avg]
             v == (0 + dir * qty) * price
             h == [i \in D \cup {id} |-> IF i = id THEN v ELSE g[i]]
  <2>1. g \in [D -> Int]
    BY <1>1 DEF Position
  <2>2. v \in Int /\ v = dir * qty * price
    <3> HIDE DEF price
    <3> QED BY <1>2
  <2>3. SumOf(h) = v + SumOf(g)
    <3>1. id \notin D
      OBVIOUS
    <3> HIDE DEF g, v, D, price
    <3>2. IsFiniteSet(D) /\ v \in Int
      BY <1>1, <2>2
    <3>3. SumOf([i \in D \cup {id} |-> IF i = id THEN v ELSE g[i]]) = v + SumOf(g)
      BY <2>1, <3>1, <3>2, SumInsert
    <3> QED BY <3>3
  <2>4. [i \in DOMAIN with |-> with[i].qty * with[i].avg] = h
    <3>1. DOMAIN with = D \cup {id}
      OBVIOUS
    <3>2. \A i \in D \cup {id} : with[i].qty * with[i].avg = IF i = id THEN v ELSE g[i]
      <4> HIDE DEF price
      <4> QED OBVIOUS
    <3> HIDE DEF with, v, g
    <3> QED BY <3>1, <3>2
  <2>5. Cost(with) = SumOf(h)
    BY <2>4 DEF Cost
  <2>6. Cost(p) = SumOf(g)
    BY DEF Cost
  <2>7. SumOf(g) \in Int
    <3> HIDE DEF g, D
    <3> QED BY <1>1, <2>1, SumType
  <2> HIDE DEF g, h, v
  <2> QED BY <2>2, <2>3, <2>5, <2>6, <2>7
<1>9. Balanced(r)
  <2>1. a.cash + Cost(p) = InitialCapital + a.realized - a.fees
    BY DEF Sound, Balanced
  <2>2. dir * qty * price \in Int
    <3> HIDE DEF price
    <3> QED BY <1>2
  <2> DEFINE spent == dir * qty * price
  <2>3. /\ r.cash = a.cash - spent /\ Cost(r.positions) = spent + Cost(p) /\ spent \in Int
    BY <1>5, <1>8, <2>2
  <2> HIDE DEF spent, r, p
  <2> QED BY <1>1, <1>5, <1>8, <2>1, <2>3 DEF Balanced
<1> HIDE DEF r, with
<1> QED BY <1>4, <1>5, <1>6, <1>7, <1>9 DEF Sound

\* There is room in a one-sided book for an entry that is not ignored: its id is not
\* open once what it reverses is closed.
LEMMA RoomForEntry ==
  ASSUME NEW a, IsAccount(a), OneSided(a.positions), NEW o, NEW kind, kind # "order",
         NEW dir \in {-1, 1}, NEW price \in Int, ~ Ignored(a, o, kind, dir), bar \in Nat
  PROVE  LET r == IF Reverses(a, kind, dir) THEN CloseAllAt(a, price, "reverse") ELSE a
         IN  /\ o.call.id \notin DOMAIN r.positions
             /\ \A i \in DOMAIN r.positions : SignOf(r.positions[i].qty) = dir
             /\ Cardinality(DOMAIN r.positions) < Greatest(Pyramiding, 1)
<1> DEFINE reversed == IF Reverses(a, kind, dir) THEN CloseAllAt(a, price, "reverse") ELSE a
           p == a.positions
<1>1. IsBook(p) /\ OneSided(p) /\ Greatest(Pyramiding, 1) \in Nat \ {0}
  BY DeclAssumption DEF IsAccount, Greatest
<1>2. PositionSize(p) \in Int /\ SignOf(PositionSize(p)) \in {-1, 0, 1}
  BY <1>1, SizeType, SignType
<1>3. CASE SignOf(PositionSize(p)) = dir
  <2>1. \A i \in DOMAIN p : SignOf(p[i].qty) = dir
    BY <1>1, <1>3, SideOfSize
  <2>2. ~ Reverses(a, kind, dir)
    BY <1>3 DEF Reverses
  <2>3. {i \in DOMAIN p : SignOf(p[i].qty) = dir} = DOMAIN p
    BY <2>1
  <2>4. SameDirEntryCount(p, dir) = Cardinality(DOMAIN p)
    BY <2>3 DEF SameDirEntryCount
  <2>5. Cardinality(DOMAIN p) \in Nat
    BY <1>1, IdsAssumption, FS_Subset, FS_CardinalityType DEF IsBook
  <2>6. /\ o.call.id \notin DOMAIN p
        /\ ~ (Cardinality(DOMAIN p) >= Greatest(Pyramiding, 1))
    BY <1>3, <2>1, <2>4 DEF Ignored
  <2> HIDE DEF p
  <2>7. Cardinality(DOMAIN p) < Greatest(Pyramiding, 1)
    BY <1>1, <2>5, <2>6
  <2> QED BY <2>1, <2>2, <2>6, <2>7 DEF p
<1>4. CASE SignOf(PositionSize(p)) # dir
  <2>1. DOMAIN reversed.positions = {}
    <3>1. CASE SignOf(PositionSize(p)) = -dir
      <4>1. Reverses(a, kind, dir)
        BY <3>1 DEF Reverses
      <4> QED BY <4>1, CloseAllType DEF Reasons
    <3>2. CASE SignOf(PositionSize(p)) = 0
      <4>1. DOMAIN p = {}
        <5> SUFFICES ASSUME NEW i \in DOMAIN p PROVE FALSE
          OBVIOUS
        <5>1. SignOf(p[i].qty) = 0
          BY <1>1, <3>2, SideOfSize
        <5> QED BY <1>1, <5>1, SignType DEF IsBook, Position
      <4>2. DOMAIN CloseAllAt(a, price, "reverse").positions = {}
        BY CloseAllType DEF Reasons
      <4> QED BY <4>1, <4>2
    <3> QED BY <1>2, <1>4, <3>1, <3>2
  <2>2. Cardinality(DOMAIN reversed.positions) = 0
    BY <2>1, FS_EmptySet
  <2> HIDE DEF reversed
  <2> QED BY <1>1, <2>1, <2>2 DEF reversed
<1> QED BY <1>3, <1>4

\* executeEntry under the rules of strategy.entry keeps a sound account sound.
LEMMA ExecuteEntrySound ==
  ASSUME bar \in Nat, equity \in Int, NEW a, IsAccount(a), Sound(a),
         NEW o, o.qty \in Int, o.call.id \in Ids, NEW kind, kind # "order",
         NEW dir \in {-1, 1}, NEW price \in Int
  PROVE  Sound(ExecuteEntry(a, o, kind, dir, price))
<1> DEFINE reversed == IF Reverses(a, kind, dir) THEN CloseAllAt(a, price, "reverse") ELSE a
           qty == EntryQty(o, price)
           filled == ApplyFill(reversed, o.call.id, dir, qty, price)
           p == a.positions
<1>1. IsAccount(reversed) /\ Sound(reversed)
  BY CloseAllType, CloseAllSound DEF Reasons
<1>2. CASE price <= 0 \/ wiped \/ Ignored(a, o, kind, dir)
  BY <1>2 DEF ExecuteEntry
<1>3. CASE ~ (price <= 0 \/ wiped \/ Ignored(a, o, kind, dir)) /\ qty <= 0
  BY <1>1, <1>3 DEF ExecuteEntry
<1>4. CASE ~ (price <= 0 \/ wiped \/ Ignored(a, o, kind, dir)) /\ ~ (qty <= 0)
  <2>1. price \in Nat \ {0}
    BY <1>4
  <2>2. qty \in Nat \ {0}
    BY <1>4, <2>1, EntryQtyType
  <2>5. /\ o.call.id \notin DOMAIN reversed.positions
        /\ \A i \in DOMAIN reversed.positions : SignOf(reversed.positions[i].qty) = dir
        /\ Cardinality(DOMAIN reversed.positions) < Greatest(Pyramiding, 1)
    BY <1>4, RoomForEntry DEF Sound
  <2>6. IsAccount(filled) /\ Sound(filled)
    <3> HIDE DEF reversed, qty
    <3> QED BY <1>1, <2>2, <2>5, ApplyFillType, ApplyFillSound
  <2>7. Fee(qty, price) \in Int
    <3> HIDE DEF qty
    <3> QED BY <2>2, FeeType
  <2>8. ExecuteEntry(a, o, kind, dir, price) = Charged(filled, Fee(qty, price))
    BY <1>4 DEF ExecuteEntry
  <2> HIDE DEF filled, qty
  <2> QED BY <2>6, <2>7, <2>8, ChargedSound
<1> QED BY <1>2, <1>3, <1>4

\* A bracket takes all of its position or nothing.
LEMMA RunBracketsSound ==
  ASSUME bar \in Nat, quote \in Quotes, seq \in Nat, NEW a, IsAccount(a), Sound(a),
         NEW exits, exits \subseteq Order, \A o \in exits : o.seq <= seq
  PROVE  Sound(RunBrackets(a, exits))
<1>1. PICK take \in Takes(a.positions), price \in [DOMAIN a.positions -> Int],
           reason \in [DOMAIN a.positions -> Reasons] :
        RunBrackets(a, exits) = Realize(a, take, price, reason)
  BY BracketsRealize, Zenon
<1> QED BY <1>1, RealizeSound

-----------------------------------------------------------------------------
(* The two properties of every state. *)

\* What a state adds to the invariant: the book is one-sided and capped, and until
\* the wipe it balances.
Books == OneSided(ps) /\ Capped(ps) /\ (~ wiped => Balanced(acct))

\* A step that leaves account and wipe alone leaves the books alone.
LEMMA BooksKept == ASSUME Books, acct' = acct, wiped' = wiped PROVE Books'
BY DEF Books, OneSided, Capped, Balanced, Cost, ps

\* The market orders fill by the rules of strategy.entry, or close.
LEMMA FillMarketOrderBooks ==
  ASSUME EntriesOnly, Inv, Books, ~ wiped, FillMarketOrder PROVE Sound(acct')
<1> DEFINE o == First(ready)
           price == [i \in DOMAIN acct.positions |-> MarketPrice]
           reason == [i \in DOMAIN acct.positions |-> "market"]
           dir == MarketDir(o)
<1>1. o \in ready /\ o \in Order
  BY FirstType DEF Inv, TypeOK, FillMarketOrder
<1>2. o.qty \in Int /\ o.call \in Calls /\ o.call.dir \in {-1, 0, 1}
  BY <1>1, CallsAssumption DEF Order, Call
<1>3. /\ IsAccount(acct) /\ IsBook(acct.positions) /\ Sound(acct)
      /\ bar \in Nat /\ equity \in Int /\ quote \in Quotes /\ prevClose \in Nat
  BY DEF Inv, TypeOK, IsAccount, Books, Sound, ps
<1>4. MarketPrice \in Int
  BY <1>3, QuotesAssumption DEF MarketPrice
<1>5. dir \in {-1, 1}
  BY <1>2, <1>3, SizeType, SignType DEF MarketDir
<1>6. \/ acct' = acct
      \/ acct' = Realize(acct, ExitTake(acct.positions, o), price, reason)
      \/ /\ o.call.kind \in {"entry", "order"}
         /\ acct' = ExecuteEntry(acct, o, o.call.kind, dir, MarketPrice)
  BY DEF FillMarketOrder
<1>7. CASE acct' = acct
  BY <1>3, <1>7
<1>8. CASE acct' = Realize(acct, ExitTake(acct.positions, o), price, reason)
  <2>1. price \in [DOMAIN acct.positions -> Int] /\ reason \in [DOMAIN acct.positions -> Reasons]
    BY <1>4 DEF Reasons
  <2>2. ExitTake(acct.positions, o) \in Takes(acct.positions)
    BY <1>2, <1>3, ExitTakeType
  <2> HIDE DEF price, reason, o
  <2> QED BY <1>3, <1>8, <2>1, <2>2, RealizeSound
<1>9. CASE /\ o.call.kind \in {"entry", "order"}
           /\ acct' = ExecuteEntry(acct, o, o.call.kind, dir, MarketPrice)
  <2>1. o.call.id \in Ids /\ o.call.kind # "order"
    BY <1>2, <1>9, CallsAssumption DEF EntriesOnly
  <2> HIDE DEF o, dir
  <2> QED BY <1>2, <1>3, <1>4, <1>5, <1>9, <2>1, ExecuteEntrySound
<1> QED BY <1>6, <1>7, <1>8, <1>9

\* The brackets close whole positions.
LEMMA ProcessExitsBooks ==
  ASSUME Inv, Books, ~ wiped, ProcessExits PROVE Sound(acct')
<1> DEFINE due == {o \in cond : Due(o)}
           exits == {o \in due : o.call.kind = "exit"}
<1>1. acct' = RunBrackets(acct, exits)
  BY DEF ProcessExits
<1>2. /\ IsAccount(acct) /\ Sound(acct) /\ bar \in Nat /\ quote \in Quotes /\ seq \in Nat
      /\ exits \subseteq Order /\ \A o \in exits : o.seq <= seq
  BY DEF Inv, TypeOK, Orderly, Books, Sound, ps
<1> HIDE DEF exits
<1> QED BY <1>1, <1>2, RunBracketsSound

\* A resting entry fills by the rules of strategy.entry.
LEMMA TryRestingBooks ==
  ASSUME Inv, Books, ~ wiped, TryResting PROVE Sound(acct')
<1> DEFINE o == First(triggers)
<1>1. o \in triggers /\ o \in Order
  BY FirstType DEF Inv, TypeOK, TryResting
<1>2. /\ o.qty \in Int /\ o.call \in Calls /\ o.call.dir \in {-1, 0, 1}
      /\ o.call.id \in Ids /\ o.call.stop \in Int /\ o.call.limit \in Int
  BY <1>1, CallsAssumption DEF Order, Call, Inv, Orderly
<1>3. /\ IsAccount(acct) /\ Sound(acct) /\ bar \in Nat /\ equity \in Int /\ quote.o \in Int
  BY QuotesAssumption DEF Inv, TypeOK, Books, Sound, ps
<1>4. TriggerPrice(o) \in Int
  BY <1>2, <1>3 DEF TriggerPrice, Greatest, Least
<1>5. \/ acct' = acct
      \/ /\ Triggered(o)
         /\ acct' = ExecuteEntry(acct, o, "", o.call.dir, TriggerPrice(o))
  BY DEF TryResting
<1>6. ASSUME Triggered(o) PROVE o.call.dir \in {-1, 1}
  <2> HIDE DEF o
  <2>1. o.call.dir > 0 \/ o.call.dir < 0
    BY <1>6, Zenon DEF Triggered
  <2> QED BY <1>2, <2>1
<1> HIDE DEF o
<1> QED BY <1>2, <1>3, <1>4, <1>5, <1>6, ExecuteEntrySound

\* Moving the trails changes no size and no cost.
LEMMA RestOrdersBooks ==
  ASSUME Inv, Books, ~ wiped, RestOrders PROVE Sound(acct')
<1> DEFINE t == FollowTrails(acct.positions)
<1>1. IsBook(acct.positions) /\ quote \in Quotes /\ Sound(acct) /\ IsAccount(acct)
  BY DEF Inv, TypeOK, IsAccount, Books, Sound, ps
<1>2. /\ DOMAIN t = DOMAIN acct.positions
      /\ \A i \in DOMAIN acct.positions : /\ t[i].qty = acct.positions[i].qty
                                          /\ t[i].avg = acct.positions[i].avg
  BY <1>1, FollowTrailsType
<1>3. /\ acct'.positions = t /\ acct'.cash = acct.cash
      /\ acct'.realized = acct.realized /\ acct'.fees = acct.fees
  <2>1. acct' = [acct EXCEPT !.positions = t]
    BY DEF RestOrders
  <2> HIDE DEF t
  <2> QED BY <1>1, <2>1 DEF IsAccount
<1> HIDE DEF t
<1>4. OneSided(t) /\ Capped(t)
  BY <1>1, <1>2 DEF Sound, OneSided, Capped
<1>5. Cost(t) = Cost(acct.positions)
  <2>1. [i \in DOMAIN t |-> t[i].qty * t[i].avg] =
          [i \in DOMAIN acct.positions |-> acct.positions[i].qty * acct.positions[i].avg]
    BY <1>2
  <2> QED BY <2>1 DEF Cost
<1> QED BY <1>1, <1>3, <1>4, <1>5 DEF Sound, Balanced

\* Every step keeps the books.
LEMMA BooksStep == ASSUME EntriesOnly, Inv, Books, [Next]_vars PROVE Books'
<1>1. CASE UNCHANGED vars \/ Script \/ BeginStep \/ Finish \/ Done
  <2>1. acct' = acct /\ wiped' = wiped
    BY <1>1 DEF vars, Script, Cancel, CancelAll, CloseAll, Close, Exit, Enter, AddIntent,
                BeginStep, Finish, Done
  <2> QED BY <2>1, BooksKept
<1>2. CASE FillMarketOrder \/ ProcessExits \/ TryResting \/ RestOrders
  <2>1. ~ wiped /\ wiped' = wiped
    BY <1>2 DEF Inv, Orderly, FillMarketOrder, ProcessExits, TryResting, RestOrders
  <2>2. Sound(acct')
    BY <1>2, <2>1, FillMarketOrderBooks, ProcessExitsBooks, TryRestingBooks, RestOrdersBooks
  <2> QED BY <2>2 DEF Sound, Books, OneSided, Capped, Balanced, Cost, ps
<1>3. CASE Mark
  <2> DEFINE marked == EquityNow(acct, quote.c)
  <2>1. CASE wiped \/ Solvent(marked)
    BY <1>3, <2>1, BooksKept DEF Mark
  <2>2. CASE ~ (wiped \/ Solvent(marked))
    <3>1. wiped' = TRUE /\ acct' = Liquidated(acct)
      BY <1>3, <2>2 DEF Mark
    <3>2. DOMAIN ps' = {}
      BY <3>1, LiquidatedType DEF Inv, TypeOK, ps
    <3>3. Cardinality(DOMAIN ps') = 0 /\ Greatest(Pyramiding, 1) \in Nat
      BY <3>2, FS_EmptySet, DeclAssumption DEF Greatest
    <3> QED BY <3>1, <3>2, <3>3 DEF Books, OneSided, Capped
  <2> QED BY <2>1, <2>2
<1> QED BY <1>1, <1>2, <1>3 DEF Next, Callback

\* The books of a strategy of entries are sound in every state.
LEMMA BooksInvariant == ASSUME EntriesOnly PROVE Spec => []Books
<1>1. Init => Books
  <2> SUFFICES ASSUME Init PROVE Books
    OBVIOUS
  <2>1. /\ acct.positions = NoPositions /\ acct.cash = InitialCapital
        /\ acct.realized = 0 /\ acct.fees = 0
    BY DEF Init
  <2>2. DOMAIN NoPositions = {}
    BY DEF NoPositions
  <2>3. Cost(NoPositions) = 0
    BY <2>2, SumOfEmpty DEF Cost
  <2>4. Cardinality({}) = 0 /\ Greatest(Pyramiding, 1) \in Nat /\ InitialCapital \in Int
    BY FS_EmptySet, DeclAssumption DEF Greatest
  <2> QED BY <2>1, <2>2, <2>3, <2>4 DEF Books, OneSided, Capped, Balanced, ps
<1>2. Inv /\ Books /\ [Next]_vars => Books'
  BY BooksStep
<1> QED BY <1>1, <1>2, Invariance, PTL DEF Spec

\* strategy.entry keeps its cap: open positions have one direction, and no more of
\* them than `pyramiding` allows, whatever closes and reversals come between.
THEOREM EntriesAreCapped == ASSUME EntriesOnly PROVE Spec => []PyramidingCap
<1>1. Books => PyramidingCap
  BY DEF Books, OneSided, Capped, PyramidingCap, ps
<1> QED BY BooksInvariant, <1>1, PTL

\* Cash and positions at cost are the capital, plus the booked profit, minus the
\* fees, through every entry, reversal, partial exit, stop and limit.
THEOREM BooksBalance == ASSUME EntriesOnly PROVE Spec => []Ledger
<1>1. Books => Ledger
  BY DEF Books, Balanced, Cost, Ledger, ps
<1> QED BY BooksInvariant, <1>1, PTL

-----------------------------------------------------------------------------
(* Stops. *)

\* The orders of the list and of the parts it is taken apart into.
Resting == cond \cup resting \cup triggers \cup still

Same(o, p) == o.call = p.call /\ o.seq = p.seq /\ o.bar = p.bar

\* An order keeps its call and its number wherever it is; none is of a bar to come;
\* the entries that do not trigger are entries.
Ranked ==
  /\ \A o, p \in Resting : o.seq = p.seq => o.call = p.call
  /\ \A o \in Resting : o.bar <= bar
  /\ \A o \in still : o.call.kind # "exit"

\* The fixed stops of a list for position i, and a list that sets it no other stop.
Stops(S, i) == {o \in S : o.call.kind = "exit" /\ o.call.entry \in {i, NoId} /\ o.call.stop > 0}
OnlyFixed(S, i) ==
  \A o \in S : o.call.kind = "exit" /\ o.call.entry \in {i, NoId} => o.call.loss <= 0 /\ o.call.trail <= 0

\* The bar stayed clear of a stop of the position.
Clear(p, stop) == IF p.qty > 0 THEN quote.l > stop ELSE quote.h < stop

\* The bar stayed clear of the fixed stop of each position carried into it.
Guarded(S, p) ==
  \A i \in DOMAIN p :
    p[i].from <= bar /\ Stops(S, i) # {} /\ OnlyFixed(S, i) => Clear(p[i], Last(Stops(S, i)).call.stop)

\* Once the exits have been executed, this holds of the orders set aside, and then of
\* the list rebuilt from them.
Protected ==
  /\ phase = "entries" => Guarded(resting, ps)
  /\ phase = "mark" => Guarded(cond, ps)

\* What moves between the parts of the list is what was there: only the script adds
\* an order, with the next number.
LEMMA ListsStep ==
  ASSUME Inv, ~ Script, [Next]_vars
  PROVE  /\ \A o \in Resting' : \E p \in Resting : Same(o, p)
         /\ \A o \in still' : o \in still \cup triggers
<1>1. CASE UNCHANGED vars \/ Finish \/ Done
  BY <1>1 DEF Finish, Done, vars, pending, locals, Resting, Same
<1>2. CASE BeginStep \/ Mark
  <2>1. cond' \subseteq cond /\ UNCHANGED <<resting, triggers, still>>
    BY <1>2 DEF BeginStep, Mark, pending, locals
  <2> QED BY <2>1 DEF Resting, Same
<1>3. CASE FillMarketOrder \/ TryResting
  <2>1. cond' \subseteq cond
    <3>1. CASE cond' = cond
      BY <3>1
    <3>2. CASE \E o, filled : CancelOCA(o, filled)
      BY <3>2 DEF CancelOCA, pending, WithoutOCA
    <3> QED BY <1>3, <3>1, <3>2 DEF FillMarketOrder, TryResting, pending
  <2>2. FillMarketOrder => UNCHANGED <<resting, triggers, still>>
    BY DEF FillMarketOrder
  <2>3. TryResting => /\ resting' = resting /\ triggers' \subseteq triggers
                      /\ still' \subseteq still \cup triggers
    <3> SUFFICES ASSUME TryResting
                 PROVE  /\ resting' = resting /\ triggers' \subseteq triggers
                        /\ still' \subseteq still \cup triggers
      OBVIOUS
    <3>1. First(triggers) \in triggers
      BY FirstType DEF TryResting, Inv, TypeOK
    <3> DEFINE o == First(triggers)
    <3>2. /\ resting' = resting /\ triggers' = triggers \ {o}
          /\ still' = still \/ still' = still \cup {o}
      BY DEF TryResting
    <3> QED BY <3>1, <3>2
  <2> QED BY <1>3, <2>1, <2>2, <2>3 DEF Resting, Same
<1>4. CASE ProcessExits
  <2> DEFINE due == {x \in cond : Due(x)}
             exits == {x \in due : x.call.kind = "exit"}
             kept == Kept(exits, acct.positions)
  <2>1. /\ cond' = cond /\ still' = {} /\ triggers' = due \ exits
        /\ resting' = (cond \ due) \cup kept
    BY <1>4 DEF ProcessExits, pending
  <2>2. exits \subseteq Order /\ exits \subseteq cond /\ due \subseteq cond /\ bar \in Nat
    BY DEF Inv, TypeOK
  <2> HIDE DEF exits, due
  <2>3. \A k \in kept : \E o \in exits : Same(k, o)
    BY <2>2, KeptType DEF Same
  <2> HIDE DEF kept
  <2> QED BY <2>1, <2>2, <2>3 DEF Resting, Same
<1>5. CASE RestOrders
  <2>1. cond' = resting \cup still /\ resting' = {} /\ still' = {} /\ triggers' = triggers
    BY <1>5 DEF RestOrders
  <2> QED BY <2>1 DEF Resting, Same
<1> QED BY <1>1, <1>2, <1>3, <1>4, <1>5 DEF Next, Callback

\* Every step keeps the orders ranked.
LEMMA RankedStep == ASSUME Inv, Ranked, [Next]_vars PROVE Ranked'
<1>1. bar' \in {bar, bar + 1} /\ bar \in Nat
  BY DEF Next, Callback, Script, Cancel, CancelAll, CloseAll, Close, Exit, Enter, AddIntent,
         BeginStep, FillMarketOrder, ProcessExits, TryResting, RestOrders, Mark, Finish, Done,
         vars, clock, Inv, TypeOK
<1>2. \A o \in Resting : o.bar \in Nat /\ o.seq <= seq /\ o.seq \in Nat
  BY DEF Inv, TypeOK, Orderly, Order, Resting
<1>3. CASE Script
  <2>1. PICK c \in Calls : Cancel(c) \/ CancelAll(c) \/ CloseAll(c) \/ Close(c) \/ Exit(c) \/ Enter(c)
    BY <1>3 DEF Script
  <2>2. /\ seq' = seq + 1 /\ bar' = bar /\ seq \in Nat
        /\ resting' = resting /\ triggers' = triggers /\ still' = still
    BY <2>1 DEF Cancel, CancelAll, CloseAll, Close, Exit, Enter, AddIntent, locals, Inv, TypeOK
  <2> DEFINE n == NewOrder(c, c.qty)
  <2>3. cond' \subseteq cond \cup {n}
    BY <2>1 DEF Cancel, CancelAll, CloseAll, Close, Exit, Enter, Dropped
  <2>4. n.seq = seq + 1 /\ n.bar = bar
    BY <2>2 DEF NewOrder
  <2>5. Resting' \subseteq Resting \cup {n}
    <3> HIDE DEF n
    <3> QED BY <2>2, <2>3 DEF Resting
  <2> HIDE DEF n
  <2>6. \A o \in Resting : o.seq # n.seq
    BY <1>2, <2>2, <2>4
  <2>7. \A o, p \in Resting' : o.seq = p.seq => o.call = p.call
    BY <2>5, <2>6 DEF Ranked
  <2>8. \A o \in Resting' : o.bar <= bar'
    BY <1>1, <2>2, <2>4, <2>5 DEF Ranked
  <2> QED BY <2>2, <2>7, <2>8 DEF Ranked
<1>4. CASE ~ Script
  <2>1. /\ \A o \in Resting' : \E p \in Resting : Same(o, p)
        /\ \A o \in still' : o \in still \cup triggers
    BY <1>4, ListsStep
  <2>2. \A o, p \in Resting' : o.seq = p.seq => o.call = p.call
    <3> TAKE o, p \in Resting'
    <3>1. PICK x \in Resting : Same(o, x)
      BY <2>1
    <3>2. PICK y \in Resting : Same(p, y)
      BY <2>1
    <3> QED BY <3>1, <3>2 DEF Same, Ranked
  <2>3. \A o \in Resting' : o.bar <= bar'
    <3> TAKE o \in Resting'
    <3>1. PICK x \in Resting : Same(o, x)
      BY <2>1
    <3>2. o.bar = x.bar /\ x.bar <= bar /\ x.bar \in Nat
      BY <1>2, <3>1 DEF Same, Ranked
    <3> QED BY <1>1, <3>2
  <2>4. \A o \in still' : o.call.kind # "exit"
    BY <2>1 DEF Ranked, Inv, Orderly
  <2> QED BY <2>2, <2>3, <2>4 DEF Ranked
<1> QED BY <1>3, <1>4

\* The stop that governs a position with nothing but fixed stops is the last one
\* kept.
LEMMA FixedStopGoverns ==
  ASSUME seq \in Nat, NEW exits, exits \subseteq Order,
         \A o \in exits : o.call.kind = "exit" /\ o.seq <= seq,
         \A o, q \in exits : o.seq = q.seq => o.call = q.call,
         bar \in Nat, NEW p, DOMAIN p \subseteq Ids, NEW i \in DOMAIN p,
         NEW kept, kept = Kept(exits, p), Stops(kept, i) # {}, OnlyFixed(kept, i)
  PROVE  LET stop == Last(Stops(kept, i)).call.stop
         IN  stop > 0 /\ GoverningStop(exits, p, i) = stop
<1> DEFINE G == {o \in exits : i \in Targets(o, p) /\ StopLevel(o.call, p[i]) > 0}
           T == Stops(kept, i)
<1>1. i # NoId
  BY IdsAssumption
<1>2. \A o \in exits : i \in Targets(o, p) <=> o.call.entry \in {i, NoId}
  BY <1>1 DEF Targets
<1>3. /\ kept \subseteq Order
      /\ \A k \in kept : \E o \in exits : k.call = o.call /\ k.seq = o.seq
  BY KeptType
<1>4. \A k \in T : \E o \in G : k.call = o.call /\ k.seq = o.seq
  <2> TAKE k \in T
  <2>1. /\ k \in kept /\ k.call.kind = "exit" /\ k.call.entry \in {i, NoId} /\ k.call.stop > 0
        /\ k.call.loss <= 0 /\ k.call.trail <= 0
    BY DEF Stops, OnlyFixed
  <2>2. PICK o \in exits : k.call = o.call /\ k.seq = o.seq
    BY <1>3, <2>1
  <2>3. /\ o.call.loss \in Int /\ o.call.trail \in Int
    BY CallsAssumption DEF Order, Call
  <2>4. StopLevel(o.call, p[i]) = o.call.stop
    <3>1. ~ (o.call.loss > 0) /\ ~ (o.call.trail > 0)
      BY <2>1, <2>2, <2>3
    <3> QED BY <3>1 DEF StopLevel
  <2> QED BY <1>2, <2>1, <2>2, <2>4
<1>5. \A o \in G : \E k \in T : k.call = o.call /\ k.seq = o.seq
  <2> TAKE o \in G
  <2>1. o \in exits /\ i \in Targets(o, p) /\ o.call.entry \in {i, NoId} /\ o.call.kind = "exit"
    BY <1>2
  <2>2. PICK k \in kept : k.call = o.call /\ k.seq = o.seq
    BY <2>1, AttachedKept
  <2>3. k.call.loss <= 0 /\ k.call.trail <= 0
    BY <2>1, <2>2 DEF OnlyFixed
  <2>4. /\ o.call.loss \in Int /\ o.call.trail \in Int
    BY <2>1, CallsAssumption DEF Order, Call
  <2>5. StopLevel(o.call, p[i]) = o.call.stop
    <3>1. ~ (o.call.loss > 0) /\ ~ (o.call.trail > 0)
      BY <2>2, <2>3, <2>4
    <3> QED BY <3>1 DEF StopLevel
  <2> QED BY <2>1, <2>2, <2>5 DEF Stops
<1>6. G # {} /\ G \subseteq exits /\ T \subseteq kept /\ T # {}
  BY <1>4 DEF Stops
<1>7. \A k \in kept : k.seq <= seq
  BY <1>3
<1>8. \A o \in G : o.seq \in Nat
  BY DEF Order
<1>9. \A o \in T : o.seq \in Nat
  BY <1>3, <1>6 DEF Order
<1> HIDE DEF G, T
<1>10. Last(G) \in G /\ \A o \in G : o.seq <= Last(G).seq
  <2>1. G \subseteq Order
    BY <1>6
  <2> QED BY <1>6, <2>1, LastType
<1>11. Last(T) \in T /\ \A o \in T : o.seq <= Last(T).seq
  <2>1. T \subseteq Order
    BY <1>3, <1>6
  <2> QED BY <1>6, <1>7, <2>1, LastType
<1>12. PICK o \in G : Last(T).call = o.call /\ Last(T).seq = o.seq
  BY <1>4, <1>11
<1>13. PICK k \in T : k.call = Last(G).call /\ k.seq = Last(G).seq
  BY <1>5, <1>10
<1>14. o.seq = Last(G).seq
  <2>1. o.seq <= Last(G).seq /\ k.seq <= Last(T).seq
    BY <1>10, <1>11
  <2> QED BY <1>8, <1>9, <1>10, <1>11, <1>12, <1>13, <2>1
<1>15. o.call = Last(G).call
  BY <1>6, <1>10, <1>14
<1>16. /\ Last(T).call.stop > 0 /\ Last(T).call.loss <= 0 /\ Last(T).call.trail <= 0
       /\ Last(T).call \in Calls
  BY <1>3, <1>6, <1>11 DEF T, Stops, OnlyFixed, Order
<1>17. StopLevel(Last(G).call, p[i]) = Last(T).call.stop
  <2>1. Last(T).call.loss \in Int /\ Last(T).call.trail \in Int
    BY <1>16, CallsAssumption DEF Call
  <2>2. ~ (Last(T).call.loss > 0) /\ ~ (Last(T).call.trail > 0)
    BY <1>16, <2>1
  <2> QED BY <1>12, <1>15, <2>2 DEF StopLevel
<1>18. GoverningStop(exits, p, i) = StopLevel(Last(G).call, p[i])
  BY <1>6 DEF GoverningStop, G
<1> QED BY <1>16, <1>17, <1>18 DEF T

\* The fill of an entry that is not open opens it on this Step's bar and touches
\* nothing else.
LEMMA ApplyFillNew ==
  ASSUME bar \in Nat, NEW a, IsAccount(a), NEW id \in Ids, NEW dir \in {-1, 1},
         NEW qty \in Nat \ {0}, NEW quoted \in Int, id \notin DOMAIN a.positions
  PROVE  LET f == ApplyFill(a, id, dir, qty, quoted).positions
         IN  /\ DOMAIN f = DOMAIN a.positions \cup {id} /\ f[id].from = bar + 1
             /\ \A i \in DOMAIN a.positions : f[i] = a.positions[i]
<1> DEFINE p == a.positions
           price == Slipped(quoted, dir > 0)
           new == [qty |-> 0 + dir * qty, avg |-> price, from |-> bar + 1,
                   hi |-> price, lo |-> price]
           with == [i \in DOMAIN p \cup {id} |-> IF i = id THEN new ELSE p[i]]
           r == [a EXCEPT !.positions = with, !.cash = @ - dir * qty * price]
<1>1. a \in [positions : {p}, cash : Int, trades : SUBSET Trade, realized : Int, fees : Int]
  BY DEF IsAccount
<1>2. 0 + dir * qty # 0
  OBVIOUS
<1>3. ApplyFill(a, id, dir, qty, quoted) = r
  BY <1>2 DEF ApplyFill
<1>4. r.positions = with
  <2> HIDE DEF with, price
  <2> QED BY <1>1
<1>5. with[id] = new /\ new.from = bar + 1
  <2> HIDE DEF price
  <2> QED OBVIOUS
<1>6. DOMAIN with = DOMAIN p \cup {id} /\ \A i \in DOMAIN p : with[i] = p[i]
  <2> HIDE DEF new
  <2> QED BY <1>5
<1> HIDE DEF with, r, new
<1> QED BY <1>3, <1>4, <1>5, <1>6

\* A position that account r has open is as account a has it, or is opened now.
OpensAnew(a, r) ==
  \A i \in DOMAIN r.positions :
    \/ i \in DOMAIN a.positions /\ r.positions[i] = a.positions[i]
    \/ r.positions[i].from = bar + 1

\* What executeEntry does to a one-sided book, by the rules of strategy.entry: a
\* position it leaves open is as it was, or is one opened now.
LEMMA EntryOpensAnew ==
  ASSUME bar \in Nat, equity \in Int, NEW a, IsAccount(a), Sound(a),
         NEW o, o.qty \in Int, o.call.id \in Ids, NEW kind, kind # "order",
         NEW dir \in {-1, 1}, NEW price \in Int
  PROVE  OpensAnew(a, ExecuteEntry(a, o, kind, dir, price))
<1> DEFINE reversed == IF Reverses(a, kind, dir) THEN CloseAllAt(a, price, "reverse") ELSE a
           qty == EntryQty(o, price)
           filled == ApplyFill(reversed, o.call.id, dir, qty, price)
           r == ExecuteEntry(a, o, kind, dir, price)
           id == o.call.id
<1>1. /\ IsAccount(reversed)
      /\ \A i \in DOMAIN reversed.positions : i \in DOMAIN a.positions
                                              /\ reversed.positions[i] = a.positions[i]
  BY CloseAllType DEF Reasons
<1>2. CASE price <= 0 \/ wiped \/ Ignored(a, o, kind, dir)
  BY <1>2 DEF ExecuteEntry, OpensAnew
<1>3. CASE ~ (price <= 0 \/ wiped \/ Ignored(a, o, kind, dir)) /\ qty <= 0
  BY <1>1, <1>3 DEF ExecuteEntry, OpensAnew
<1>4. CASE ~ (price <= 0 \/ wiped \/ Ignored(a, o, kind, dir)) /\ ~ (qty <= 0)
  <2>1. price \in Nat \ {0}
    BY <1>4
  <2>2. qty \in Nat \ {0}
    BY <1>4, <2>1, EntryQtyType
  <2>3. id \notin DOMAIN reversed.positions
    BY <1>4, RoomForEntry DEF Sound
  <2>4. /\ DOMAIN filled.positions = DOMAIN reversed.positions \cup {id}
        /\ filled.positions[id].from = bar + 1
        /\ \A i \in DOMAIN reversed.positions : filled.positions[i] = reversed.positions[i]
    <3> HIDE DEF reversed, qty
    <3> QED BY <1>1, <2>1, <2>2, <2>3, ApplyFillNew
  <2>5. IsAccount(filled)
    <3> HIDE DEF reversed, qty
    <3> QED BY <1>1, <2>2, ApplyFillType
  <2>6. r = Charged(filled, Fee(qty, price))
    BY <1>4 DEF ExecuteEntry
  <2>7. r.positions = filled.positions
    <3> HIDE DEF filled, qty, r
    <3> QED BY <2>5, <2>6 DEF Charged, IsAccount
  <2> HIDE DEF filled, reversed, r
  <2>8. ASSUME NEW i \in DOMAIN r.positions
        PROVE  \/ i \in DOMAIN a.positions /\ r.positions[i] = a.positions[i]
               \/ r.positions[i].from = bar + 1
    <3>1. CASE i = id
      BY <2>4, <2>7, <3>1
    <3>2. CASE i # id
      BY <1>1, <2>4, <2>7, <3>2
    <3> QED BY <3>1, <3>2
  <2> QED BY <2>8 DEF r, OpensAnew
<1> QED BY <1>2, <1>3, <1>4

\* The brackets leave guarded what they leave open.
LEMMA ProcessExitsGuards ==
  ASSUME Inv, Ranked, ProcessExits PROVE Guarded(resting, ps)'
<1> DEFINE due == {o \in cond : Due(o)}
           exits == {o \in due : o.call.kind = "exit"}
           p == acct.positions
<1>1. /\ acct' = RunBrackets(acct, exits) /\ quote' = quote /\ bar' = bar
      /\ resting' = (cond \ due) \cup Kept(exits, p)
  BY DEF ProcessExits, clock
<1>2. /\ IsAccount(acct) /\ bar \in Nat /\ quote \in Quotes /\ seq \in Nat
      /\ exits \subseteq Order /\ \A o \in exits : o.seq <= seq /\ o.call.kind = "exit"
  BY DEF Inv, TypeOK, Orderly
<1>3. cond \ due = {}
  <2>1. \A o \in cond : o.bar \in Nat /\ o.bar <= bar
    BY DEF Ranked, Resting, Inv, TypeOK, Order
  <2> QED BY <1>2, <2>1 DEF Due
<1>4. \A o, q \in exits : o.seq = q.seq => o.call = q.call
  BY DEF Ranked, Resting
<1> HIDE DEF exits, due
<1>5. resting' = Kept(exits, p)
  BY <1>1, <1>3
<1>6. PICK take \in Takes(p), price \in [DOMAIN p -> Int], reason \in [DOMAIN p -> Reasons] :
        /\ RunBrackets(acct, exits) = Realize(acct, take, price, reason)
        /\ \A i \in DOMAIN p :
             /\ take[i] > 0 => InBar(price[i])
             /\ \/ take[i] = Abs(p[i].qty)
                \/ take[i] = 0 /\ ~ StopHit(p[i], GoverningStop(exits, p, i))
  BY <1>2, BracketsRealize, Zenon
<1>7. acct'.positions = Remaining(p, take)
  BY <1>1, <1>6 DEF Realize
<1>8. SUFFICES ASSUME NEW i \in DOMAIN acct'.positions,
                      Stops(resting', i) # {}, OnlyFixed(resting', i)
               PROVE  Clear(acct'.positions[i], Last(Stops(resting', i)).call.stop)
  BY <1>1 DEF Guarded, Clear, ps
<1>9. i \in DOMAIN p /\ take[i] < Abs(p[i].qty)
  BY <1>7 DEF Remaining
<1>10. /\ p[i] \in Position /\ p[i].qty \in Int /\ DOMAIN p \subseteq Ids
       /\ take[i] \in Nat /\ Abs(p[i].qty) \in Nat
  BY <1>2, <1>9, SignType DEF IsAccount, IsBook, Position, Takes
<1>11. take[i] = 0 /\ ~ StopHit(p[i], GoverningStop(exits, p, i))
  BY <1>6, <1>9, <1>10
<1>12. acct'.positions[i].qty = p[i].qty
  <2>1. Remaining(p, take)[i] = [p[i] EXCEPT !.qty = @ - SignOf(@) * take[i]]
    BY <1>9 DEF Remaining
  <2>2. p[i].qty - SignOf(p[i].qty) * take[i] = p[i].qty
    <3>1. SignOf(p[i].qty) \in Int
      BY <1>10, SignType
    <3> QED BY <1>10, <1>11, <3>1
  <2> HIDE DEF p
  <2> QED BY <1>7, <1>10, <2>1, <2>2 DEF Position
<1> DEFINE stop == Last(Stops(resting', i)).call.stop
<1>13. stop > 0 /\ GoverningStop(exits, p, i) = stop /\ stop \in Int
  <2>1. stop > 0 /\ GoverningStop(exits, p, i) = stop
    BY <1>2, <1>4, <1>5, <1>8, <1>9, <1>10, FixedStopGoverns
  <2>2. Last(Stops(resting', i)) \in Stops(resting', i)
    <3>1. /\ Kept(exits, p) \subseteq Order
          /\ \A k \in Kept(exits, p) : \E o \in exits : k.seq = o.seq
      BY <1>2, KeptType
    <3>2. Stops(resting', i) \subseteq Order /\ \A k \in Stops(resting', i) : k.seq <= seq
      BY <1>2, <1>5, <3>1 DEF Stops
    <3> QED BY <1>2, <1>8, <3>2, LastType
  <2>3. Last(Stops(resting', i)) \in Order
    BY <1>2, <1>5, <2>2, KeptType DEF Stops
  <2> QED BY <2>1, <2>3, CallsAssumption DEF Order, Call
<1>14. quote.l \in Int /\ quote.h \in Int
  BY <1>2, QuotesAssumption
<1> HIDE DEF stop, p
<1>15. IF p[i].qty > 0 THEN ~ (quote.l <= stop) ELSE ~ (quote.h >= stop)
  BY <1>11, <1>13 DEF StopHit
<1>16. Clear(acct'.positions[i], stop)
  BY <1>10, <1>12, <1>13, <1>14, <1>15 DEF Clear
<1> QED BY <1>16 DEF stop

\* Every step keeps what was carried into the bar protected: what opens later in it
\* was not carried into it.
LEMMA ProtectedStep ==
  ASSUME EntriesOnly, Inv, Books, Ranked, Protected, [Next]_vars PROVE Protected'
<1>1. CASE UNCHANGED vars \/ Done
  <2>1. /\ phase' = phase /\ resting' = resting /\ cond' = cond /\ acct' = acct
        /\ bar' = bar /\ quote' = quote
    BY <1>1 DEF Done, vars, clock, pending, locals
  <2> QED BY <2>1 DEF Protected, Guarded, Clear, ps
<1>2. CASE Script \/ FillMarketOrder \/ Mark \/ Finish
  <2>1. phase' \notin {"entries", "mark"}
    BY <1>2 DEF Script, Cancel, CancelAll, CloseAll, Close, Exit, Enter, AddIntent,
                FillMarketOrder, Mark, Finish
  <2> QED BY <2>1 DEF Protected
<1>3. CASE BeginStep
  <2>1. phase' = "fill" \/ (phase' = "mark" /\ cond' = {})
    BY <1>3 DEF BeginStep
  <2>2. \A i : Stops({}, i) = {}
    BY DEF Stops
  <2> QED BY <2>1, <2>2 DEF Protected, Guarded
<1>4. CASE ProcessExits
  <2>1. phase' = "entries"
    BY <1>4 DEF ProcessExits
  <2> QED BY <1>4, <2>1, ProcessExitsGuards DEF Protected
<1>5. CASE TryResting
  <2> DEFINE o == First(triggers)
  <2>1. /\ phase = "entries" /\ phase' = "entries" /\ resting' = resting
        /\ bar' = bar /\ quote' = quote /\ bar \in Nat /\ equity \in Int /\ ~ wiped
    BY <1>5 DEF TryResting, clock, Inv, TypeOK, Orderly
  <2>2. o \in triggers /\ o \in Order
    BY <1>5, FirstType DEF Inv, TypeOK, TryResting
  <2>3. /\ o.qty \in Int /\ o.call \in Calls /\ o.call.dir \in {-1, 0, 1}
        /\ o.call.id \in Ids /\ o.call.stop \in Int /\ o.call.limit \in Int
    BY <2>2, CallsAssumption DEF Order, Call, Inv, Orderly
  <2>4. TriggerPrice(o) \in Int
    BY <2>3, QuotesAssumption DEF TriggerPrice, Greatest, Least, Inv, TypeOK
  <2>5. IsAccount(acct) /\ Sound(acct)
    BY <2>1 DEF Inv, TypeOK, Books, Sound, ps
  <2>6. \/ acct' = acct
        \/ /\ Triggered(o)
           /\ acct' = ExecuteEntry(acct, o, "", o.call.dir, TriggerPrice(o))
    BY <1>5 DEF TryResting
  <2>7. Triggered(o) => o.call.dir \in {-1, 1}
    <3> HIDE DEF o
    <3>1. Triggered(o) => o.call.dir > 0 \/ o.call.dir < 0
      BY Zenon DEF Triggered
    <3> QED BY <2>3, <3>1
  <2> HIDE DEF o
  <2>8. OpensAnew(acct, acct')
    <3>1. CASE acct' = acct
      BY <3>1 DEF OpensAnew
    <3>2. CASE Triggered(o) /\ acct' = ExecuteEntry(acct, o, "", o.call.dir, TriggerPrice(o))
      <4>1. o.call.dir \in {-1, 1}
        BY <2>7, <3>2
      <4> QED BY <2>1, <2>3, <2>4, <2>5, <3>2, <4>1, EntryOpensAnew
    <3> QED BY <2>6, <3>1, <3>2
  <2>9. Guarded(resting, ps)
    BY <2>1 DEF Protected
  <2>10. Guarded(resting, ps)'
    <3> SUFFICES ASSUME NEW i \in DOMAIN acct'.positions, acct'.positions[i].from <= bar,
                        Stops(resting, i) # {}, OnlyFixed(resting, i)
                 PROVE  Clear(acct'.positions[i], Last(Stops(resting, i)).call.stop)
      BY <2>1 DEF Guarded, Clear, ps
    <3>1. i \in DOMAIN acct.positions /\ acct'.positions[i] = acct.positions[i]
      BY <2>1, <2>8 DEF OpensAnew
    <3> QED BY <2>9, <3>1 DEF Guarded, ps
  <2> QED BY <2>1, <2>10 DEF Protected
<1>6. CASE RestOrders
  <2> DEFINE t == FollowTrails(acct.positions)
  <2>1. /\ phase = "entries" /\ phase' = "mark" /\ cond' = resting \cup still
        /\ bar' = bar /\ quote' = quote /\ acct' = [acct EXCEPT !.positions = t]
    BY <1>6 DEF RestOrders, clock
  <2>2. IsAccount(acct) /\ IsBook(acct.positions) /\ quote \in Quotes
    BY DEF Inv, TypeOK, IsAccount
  <2>3. /\ DOMAIN t = DOMAIN acct.positions
        /\ \A i \in DOMAIN t : /\ t[i].qty = acct.positions[i].qty
                               /\ t[i].from = acct.positions[i].from
    BY <2>2, FollowTrailsType
  <2> HIDE DEF t
  <2>4. acct'.positions = t
    BY <2>1, <2>2 DEF IsAccount
  <2>5. \A i : Stops(cond', i) = Stops(resting, i) /\ (OnlyFixed(cond', i) => OnlyFixed(resting, i))
    BY <2>1 DEF Ranked, Stops, OnlyFixed
  <2>6. Guarded(resting, ps)
    BY <2>1 DEF Protected
  <2>7. Guarded(cond, ps)'
    BY <2>1, <2>3, <2>4, <2>5, <2>6 DEF Guarded, Clear, ps
  <2> QED BY <2>1, <2>7 DEF Protected
<1> QED BY <1>1, <1>2, <1>3, <1>4, <1>5, <1>6 DEF Next, Callback

\* Stops protect, in a strategy that trades with strategy.entry: a position carried
\* into a bar that traded through its resting fixed stop is not open at the close,
\* whatever else fills, reverses or cancels in that bar.
THEOREM StopsAreHonoured == ASSUME EntriesOnly PROVE Spec => []StopHonoured
<1>1. Init => Ranked /\ Protected
  BY DEF Init, Ranked, Protected, Resting
<1>2. Inv /\ Books /\ Ranked /\ Protected /\ [Next]_vars => Ranked' /\ Protected'
  BY RankedStep, ProtectedStep
<1>3. Protected => StopHonoured
  <2>1. \A i : StopsOf(i) = Stops(cond, i) /\ (FixedStopOnly(i) <=> OnlyFixed(cond, i))
    BY DEF StopsOf, Stops, FixedStopOnly, OnlyFixed
  <2> QED BY <2>1 DEF Protected, Guarded, Clear, StopHonoured
<1> QED BY <1>1, <1>2, <1>3, Invariance, BooksInvariant, PTL DEF Spec

=============================================================================
