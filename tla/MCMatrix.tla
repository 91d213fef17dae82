------------------------------ MODULE MCMatrix ------------------------------
(* Two names over small matrices, and larger matrices for the algorithms. *)
EXTENDS Matrix

-----------------------------------------------------------------------------
(* What the algorithms must compute. *)

Given == {ValueOf(x) : x \in {y \in Names : held[y] # None}}
Numeric == {m \in Given : Finite(m) /\ (m = <<>> \/ Cols(m) > 0)}

\* The determinant as the sum over the permutations, and the minors of a matrix.
Orders(n) == {p \in [1 .. n -> 1 .. n] : Range(p) = 1 .. n}
Inversions(p) == Cardinality({q \in (DOMAIN p) \X (DOMAIN p) : q[1] < q[2] /\ p[q[1]] > p[q[2]]})
Leibniz(m) ==
  LET orders == SetToSeq(Orders(Rows(m)))
      Product(p) == FoldLeft(LAMBDA acc, i : Times(acc, m[i][p[i]]),
                             Whole(IF Inversions(p) % 2 = 0 THEN 1 ELSE -1), [i \in DOMAIN m |-> i])
  IN  SumOver(Len(orders), LAMBDA k : Product(orders[k]))
Chosen(m, rows, cols) ==
  LET r == SetToSortSeq(rows, <)
      c == SetToSortSeq(cols, <)
  IN  Grid(Len(r), Len(c), LAMBDA i, j : m[r[i]][c[j]])
FullRank(m) == Min({Rows(m), Cols(m)})
MinorRank(m) ==
  Max({0} \cup {k \in 1 .. FullRank(m) :
                  \E rows \in kSubset(k, 1 .. Rows(m)), cols \in kSubset(k, 1 .. Cols(m)) :
                    Leibniz(Chosen(m, rows, cols)) # Zero})

Repeated(m, p) == FoldLeft(LAMBDA acc, k : Mult(acc, m), Identity(Rows(m)), [k \in 1 .. p |-> k])
Inverts(x, m) == Mult(m, x) = Identity(Rows(m)) /\ Mult(x, m) = Identity(Rows(m))
Penrose(x, m) ==
  /\ Mult(Mult(m, x), m) = m /\ Mult(Mult(x, m), x) = x
  /\ Transpose(Mult(m, x)) = Mult(m, x) /\ Transpose(Mult(x, m)) = Mult(x, m)

Eliminates(m) ==
  /\ MatrixRank(m) = MinorRank(m)
  /\ IF MinorRank(m) = FullRank(m) THEN Penrose(Pinv(m), m) ELSE Pinv(m) = Singular
  /\ IsSquare(m) =>
       /\ Det(m) = Leibniz(m)
       /\ IF Leibniz(m) = Zero THEN Inv(m) = Singular ELSE Inverts(Inv(m), m)
       /\ \A p \in Powers \cap Nat : Pow(m, p) = Repeated(m, p)
Recognised(m) ==
  /\ Transpose(m) = [j \in 1 .. Cols(m) |-> Column(m, j)]
  /\ IsZero(m) <=> MatrixRank(m) = 0
  /\ IsBinary(m) <=> \A p \in Cells(m) : Times(m[p[1]][p[2]], m[p[1]][p[2]]) = m[p[1]][p[2]]
  /\ IsSquare(m) =>
    /\ IsSymmetric(m) <=> Transpose(m) = m
    /\ IsAntidiagonal(m) <=> IsDiagonal(Reverse(m))
    /\ IsAntisymmetric(m) <=> Diff(m, m) = Diff(m, Diff(Diff(m, m), Transpose(m)))
    /\ IsIdentity(m) <=> IsDiagonal(m) /\ Mult(m, m) = m /\ Det(m) # Zero
    /\ IsTriangular(m) => Det(m) = FoldLeft(LAMBDA acc, i : Times(acc, m[i][i]), One, [i \in DOMAIN m |-> i])
    /\ IsStochastic(m) => IsStochastic(Mult(m, m))
Multiply(a, b) ==
  /\ Cols(a) = Rows(b) => Transpose(Mult(a, b)) = Mult(Transpose(b), Transpose(a))
  /\ Transpose(Kron(a, b)) = Kron(Transpose(a), Transpose(b))
  /\ Rows(a) * Rows(b) <= 6 => MatrixRank(Kron(a, b)) = MatrixRank(a) * MatrixRank(b)
  /\ IsSquare(a) /\ IsSquare(b) => Trace(Kron(a, b)) = Times(Trace(a), Trace(b))
\* Elimination with pivots finds the determinant that the permutations give, the rank
\* that the minors give, an inverse exactly when the determinant is not zero, and a
\* pseudoinverse, with the four equations of Penrose, exactly when the rank is full;
\* powers by squaring are repeated products; transposes, ranks and traces of products
\* fit together, and the predicates recognise what the algebra says of the matrix
\* (matrix.go: "Gauss-Jordan elimination", "Moore-Penrose pseudoinverse", "binary
\* exponentiation").
LinearAlgebra ==
  /\ \A m \in Numeric : Eliminates(m) /\ Recognised(m)
  /\ \A a, b \in Numeric : Multiply(a, b)

\* The statistics of the elements: whatever order Go goes through the map of
\* frequencies in, the mode of numbers is the least of the most frequent; the median
\* splits them in halves, and minimum, maximum and average are theirs.
Halves(s, x) ==
  /\ 2 * Cardinality({i \in DOMAIN s : ~Less(x, s[i])}) >= Len(s)
  /\ 2 * Cardinality({i \in DOMAIN s : ~Less(s[i], x)}) >= Len(s)
Count(s, v) == Cardinality({i \in DOMAIN s : s[i] = v})
IsMode(s, v) ==
  v \in Range(s) /\ \A w \in Range(s) : Count(s, w) < Count(s, v) \/ (Count(s, w) = Count(s, v) /\ ~Less(w, v))
Statistics ==
  \A s \in {Flatten(m) : m \in Numeric} \ {<<>>} :
    /\ \E v \in Range(s) : Modes(s) = {v} /\ IsMode(s, v)
    /\ Halves(s, Median(s))
    /\ \A v \in Range(s) : ~Less(v, Smallest(s)) /\ ~Less(Largest(s), v)
    /\ {Smallest(s), Largest(s)} \subseteq Range(s)
    /\ Sum([i \in DOMAIN s |-> Minus(s[i], Average(s))]) = Zero

-----------------------------------------------------------------------------
(* Constants. *)

TwoNames == {"a", "b"}
Heap == 1 .. 3
Two == 1 .. 2
Few == {Zero, One}
Indexes == {Zero, One, Whole(2), Q(-1, 2), NaN}
RowsOrCols == {<<0, 1>>, <<0, 2>>, <<1, 2>>, <<1, 0>>}
Powered == {-1, 0, 3, 6}

All(rows, cols, S) == [1 .. rows -> [1 .. cols -> S]]
ThreeWide == {[j \in 1 .. 3 |-> Whole(r[j])] : r \in {<<0, 1, -2>>, <<1, 0, 1>>, <<-2, 0, 0>>, <<0, 0, 0>>, <<1, 1, -2>>}}
MCInputs ==
  {<<>>} \cup All(1, 3, {Zero, NaN}) \cup All(2, 2, {Whole(-1), Zero, Whole(2), Q(1, 2)}) \cup All(1, 4, {Zero, One, Whole(2)})
  \cup [1 .. 3 -> ThreeWide] \cup [1 .. 2 -> ThreeWide] \cup {Transpose(m) : m \in [1 .. 2 -> ThreeWide]}
=============================================================================
