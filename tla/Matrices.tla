------------------------------ MODULE Matrices ------------------------------
(***************************************************************************)
(* The matrix functions (matrix.go) on values: a matrix is the sequence of *)
(* its rows.  Its elements are the numbers of Rationals.                   *)
(***************************************************************************)
EXTENDS Rationals, SequencesExt

Rows(m) == Len(m)
Cols(m) == IF m = <<>> THEN 0 ELSE Len(m[1])
IsRect(m) == \A i \in DOMAIN m : Len(m[i]) = Cols(m)
IsSquare(m) == Rows(m) = Cols(m)
Within(m, r, c) == r \in 0 .. Rows(m) - 1 /\ c \in 0 .. Cols(m) - 1
Column(m, j) == [i \in DOMAIN m |-> m[i][j]]
Flatten(m) == FlattenSeq(m)
Finite(m) == \A i \in DOMAIN m : NaN \notin Range(m[i])

Grid(rows, cols, At(_, _)) == [i \in 1 .. rows |-> [j \in 1 .. cols |-> At(i, j)]]
IsGrid(m) == Rows(m) \in Nat /\ Cols(m) \in Nat /\ m = Grid(Rows(m), Cols(m), LAMBDA i, j : m[i][j])
NewMatrix(rows, cols, fill) == Grid(rows, cols, LAMBDA i, j : fill)
\* The rows of m, refilled in order.
Shaped(flat, rows, cols) == Grid(rows, cols, LAMBDA i, j : flat[(i - 1) * cols + j])
Refilled(m, flat) == Shaped(flat, Rows(m), Cols(m))

Sum(s) == FoldLeft(Plus, Zero, s)
SumOver(n, Term(_)) == Sum([k \in 1 .. n |-> Term(k)])

-----------------------------------------------------------------------------
(* Shape. *)

\* Bounds of a range of rows and columns, each up to its end.
InBounds(m, rows, cols) ==
  /\ 0 <= rows[1] /\ rows[1] <= rows[2] /\ rows[2] <= Rows(m)
  /\ 0 <= cols[1] /\ cols[1] <= cols[2] /\ cols[2] <= Cols(m)
FilledRange(m, v, rows, cols) ==
  Grid(Rows(m), Cols(m), LAMBDA i, j :
         IF i \in rows[1] + 1 .. rows[2] /\ j \in cols[1] + 1 .. cols[2] THEN v ELSE m[i][j])
Submatrix(m, rows, cols) ==
  Grid(rows[2] - rows[1], cols[2] - cols[1], LAMBDA i, j : m[rows[1] + i][cols[1] + j])
\* The columns of a matrix without rows are its rows.
ColAdded(m, index, col) ==
  IF m = <<>> THEN [i \in DOMAIN col |-> <<col[i]>>]
  ELSE [i \in DOMAIN m |-> InsertAt(m[i], index + 1, col[i])]
ColRemoved(m, index) == [i \in DOMAIN m |-> RemoveAt(m[i], index + 1)]
ColsSwapped(m, a, b) == [i \in DOMAIN m |-> [m[i] EXCEPT ![a + 1] = m[i][b + 1], ![b + 1] = m[i][a + 1]]]
Reversed(m) == Refilled(m, Reverse(Flatten(m)))
\* sort.Float64s: NaN before every number.
Ascending(flat) == SortSeq(flat, LAMBDA x, y : Less(x, y) \/ (x = NaN /\ y # NaN))
Sorted(m) == Refilled(m, Ascending(Flatten(m)))

\* Side by side when the rows match, one above the other when only the columns do.
ConcatFits(a, b) == Rows(a) = Rows(b) \/ Cols(a) = Cols(b)
Concat(a, b) == IF Rows(a) = Rows(b) THEN [i \in DOMAIN a |-> a[i] \o b[i]] ELSE a \o b

-----------------------------------------------------------------------------
(* Arithmetic. *)

Diff(a, b) == Grid(Rows(a), Cols(a), LAMBDA i, j : Minus(a[i][j], b[i][j]))
Transpose(a) == Grid(Cols(a), Rows(a), LAMBDA i, j : a[j][i])
Mult(a, b) ==
  Grid(Rows(a), Cols(b), LAMBDA i, j : SumOver(Cols(a), LAMBDA k : Times(a[i][k], b[k][j])))
Kron(a, b) ==
  Grid(Rows(a) * Rows(b), Cols(a) * Cols(b), LAMBDA i, j :
         Times(a[(i - 1) \div Rows(b) + 1][(j - 1) \div Cols(b) + 1],
               b[((i - 1) % Rows(b)) + 1][((j - 1) % Cols(b)) + 1]))
Identity(n) == Grid(n, n, LAMBDA i, j : IF i = j THEN One ELSE Zero)
Trace(a) == SumOver(Rows(a), LAMBDA i : a[i][i])

\* By squaring: a bit of p at a time, the lowest first.
Pow(a, p) ==
  LET Step(acc, bit) ==
        IF 2^bit > p THEN acc
        ELSE [result |-> IF (p \div 2^bit) % 2 = 1 THEN Mult(acc.result, acc.base) ELSE acc.result,
              base |-> IF 2^(bit + 1) <= p THEN Mult(acc.base, acc.base) ELSE acc.base]
      After[bits \in 0 .. 30] ==
        IF bits = 0 THEN [result |-> Identity(Rows(a)), base |-> a] ELSE Step(After[bits - 1], bits - 1)
  IN  After[30].result

-----------------------------------------------------------------------------
(* Elimination, with the largest pivot. *)

\* The first row from r on whose element in column c is largest.
PivotRow(m, r, c) ==
  FoldLeft(LAMBDA p, i : IF Less(Magnitude(m[p][c]), Magnitude(m[i][c])) THEN i ELSE p,
           r, [k \in 1 .. Rows(m) - r |-> r + k])
RowsSwapped(m, a, b) == [m EXCEPT ![a] = m[b], ![b] = m[a]]
\* Column c cleared in the rows `is` by what it takes of row r.
Cleared(m, is, r, c) ==
  [i \in DOMAIN m |->
     IF i \notin is THEN m[i]
     ELSE LET factor == Over(m[i][c], m[r][c])
          IN  [j \in DOMAIN m[i] |-> Minus(m[i][j], Times(factor, m[r][j]))]]
Scaled(m, r, c) == [m EXCEPT ![r] = [j \in DOMAIN m[r] |-> Over(m[r][j], m[r][c])]]

\* Mutant: a swap of rows leaves the sign.
DetUnsigned(a) ==
  LET Step(acc, i) ==
        LET p == PivotRow(acc.m, i, i)
            m == RowsSwapped(acc.m, i, p)
        IN  IF acc.det = Zero \/ m[i][i] = Zero THEN [acc EXCEPT !.det = Zero]
            ELSE [m |-> Cleared(m, i + 1 .. Rows(m), i, i), det |-> Times(acc.det, m[i][i])]
  IN  FoldLeft(Step, [m |-> a, det |-> One], [i \in 1 .. Rows(a) |-> i]).det
Det(a) ==
  LET Step(acc, i) ==
        LET p == PivotRow(acc.m, i, i)
            m == RowsSwapped(acc.m, i, p)
            signed == IF p = i THEN m[i][i] ELSE Minus(Zero, m[i][i])
        IN  IF acc.det = Zero \/ m[i][i] = Zero THEN [acc EXCEPT !.det = Zero]
            ELSE [m |-> Cleared(m, i + 1 .. Rows(m), i, i), det |-> Times(acc.det, signed)]
  IN  FoldLeft(Step, [m |-> a, det |-> One], [i \in 1 .. Rows(a) |-> i]).det

MatrixRank(a) ==
  LET Step(acc, c) ==
        LET r == acc.rank + 1
            p == PivotRow(acc.m, r, c)
            m == Scaled(RowsSwapped(acc.m, r, p), r, c)
        IN  IF r > Rows(a) \/ acc.m[p][c] = Zero THEN acc
            ELSE [m |-> Cleared(m, DOMAIN m \ {r}, r, c), rank |-> r]
  IN  FoldLeft(Step, [m |-> a, rank |-> 0], [c \in 1 .. Cols(a) |-> c]).rank

\* Gauss-Jordan beside the identity; Singular when there is no pivot.
Singular == <<NaN>>
Inv(a) ==
  LET n == Rows(a)
      Step(m, i) ==
        LET p == PivotRow(m, i, i)
            scaled == Scaled(RowsSwapped(m, i, p), i, i)
        IN  IF m = Singular \/ m[p][i] = Zero THEN Singular
            ELSE Cleared(scaled, DOMAIN m \ {i}, i, i)
      end == FoldLeft(Step, Concat(a, Identity(n)), [i \in 1 .. n |-> i])
  IN  IF end = Singular THEN Singular ELSE Submatrix(end, <<0, n>>, <<n, 2 * n>>)

\* Singular too when the transpose of a matrix without columns does not fit.
Pinv(a) ==
  LET at == Transpose(a)
      gram == IF Rows(a) >= Cols(a) THEN Mult(at, a) ELSE Mult(a, at)
      inv == Inv(gram)
  IN  IF (a # <<>> /\ Cols(a) = 0) \/ inv = Singular THEN Singular
      ELSE IF Rows(a) >= Cols(a) THEN Mult(inv, at) ELSE Mult(at, inv)

-----------------------------------------------------------------------------
(* Statistics and predicates. *)

Smallest(s) == FoldLeft(LAMBDA x, y : IF Less(y, x) THEN y ELSE x, s[1], s)
Largest(s) == FoldLeft(LAMBDA x, y : IF Less(x, y) THEN y ELSE x, s[1], s)
Average(s) == Over(Sum(s), Whole(Len(s)))
Median(s) ==
  LET sorted == Ascending(s)
      h == Len(s) \div 2
  IN  IF Len(s) % 2 = 1 THEN sorted[h + 1] ELSE Over(Plus(sorted[h], sorted[h + 1]), Whole(2))

\* The entries of the map of frequencies: one for a value, one for each NaN.
Entries(s) ==
  SetToSeq({[v |-> s[i], n |-> Cardinality({k \in DOMAIN s : s[k] = s[i]}), id |-> 0]
            : i \in {k \in DOMAIN s : s[k] # NaN}}
           \cup {[v |-> NaN, n |-> 1, id |-> i] : i \in {k \in DOMAIN s : s[k] = NaN}})
\* Mutant: of two values as frequent, the last one met.
LaterWins(best, e) == IF e.n >= best.n THEN e ELSE best
MoreFrequent(best, e) == IF e.n > best.n \/ (e.n = best.n /\ Less(e.v, best.v)) THEN e ELSE best
\* The mode, in every order in which Go may go through the map.
Modes(s) ==
  LET entries == Entries(s)
      In(order) == FoldLeft(LAMBDA best, k : MoreFrequent(best, entries[k]),
                            [v |-> Ascending(s)[1], n |-> -1, id |-> 0], order)
  IN  {In(order).v : order \in SetToSeqs(DOMAIN entries)}

\* matrixProperty: elements differ when they do by far; NaN differs from nothing.
Differs(x, y) == ~Undefined(x, y) /\ x # y
Cells(m) == (1 .. Rows(m)) \X (1 .. Cols(m))
AllZero(m, Where(_, _)) == \A p \in Cells(m) : Where(p[1], p[2]) => ~Differs(m[p[1]][p[2]], Zero)
IsZero(m) == AllZero(m, LAMBDA i, j : TRUE)
IsBinary(m) == \A p \in Cells(m) : ~Differs(m[p[1]][p[2]], Zero) \/ ~Differs(m[p[1]][p[2]], One)
IsDiagonal(m) == IsSquare(m) /\ AllZero(m, LAMBDA i, j : i # j)
IsAntidiagonal(m) == IsSquare(m) /\ AllZero(m, LAMBDA i, j : i + j # Rows(m) + 1)
IsIdentity(m) == IsDiagonal(m) /\ \A i \in DOMAIN m : ~Differs(m[i][i], One)
IsSymmetric(m) == IsSquare(m) /\ \A p \in Cells(m) : ~Differs(m[p[1]][p[2]], m[p[2]][p[1]])
IsAntisymmetric(m) ==
  IsSquare(m) /\ \A p \in Cells(m) : ~Differs(Plus(m[p[1]][p[2]], m[p[2]][p[1]]), Zero)
IsTriangular(m) ==
  IsSquare(m) /\ (AllZero(m, LAMBDA i, j : i > j) \/ AllZero(m, LAMBDA i, j : i < j))
IsStochastic(m) ==
  /\ IsSquare(m)
  /\ \A i \in DOMAIN m : ~Differs(Sum(m[i]), One) /\ \A j \in DOMAIN m[i] : ~Less(m[i][j], Zero)
=============================================================================
