------------------------------- MODULE Matrix -------------------------------
(***************************************************************************)
(* The matrices a script holds (matrix.go, callMatrixBuiltin): a matrix is *)
(* a slice of row slices behind a pointer.  Some builtins write into the   *)
(* rows, some replace or reorder them, some build a new matrix; what they  *)
(* must not do is share a row.                                             *)
(***************************************************************************)
EXTENDS Matrices

CONSTANTS
  Names,       \* the variables of the script
  None,        \* what a variable without a matrix holds
  Refs, Slices,  \* the matrices and the row slices of the heap, numbered
  Inputs,      \* the matrices the first name may hold at the start
  Elements,    \* the elements, kept few
  MaxRows, MaxCols,  \* the largest shape built
  Arguments,   \* numbers a script may pass for an index
  Spans,       \* the ranges of rows or of columns it may pass, from and to
  Powers
\* There is always a matrix to make: the heap holds one for every name.
ASSUME HeapAssumption ==
  /\ IsFiniteSet(Names) /\ IsFiniteSet(Refs) /\ Cardinality(Names) <= Cardinality(Refs)
  /\ Refs \subseteq Nat /\ IsFiniteSet(Slices) /\ None \notin Refs \cup Slices
ASSUME InputAssumption == \A m \in Inputs : IsGrid(m) /\ 1 .. Rows(m) \subseteq Slices
ASSUME ArgumentAssumption == Arguments \subseteq AllFloats /\ Spans \subseteq Int \X Int

VARIABLES
  held,    \* the pointer each name holds, or None
  data,    \* the rows of each matrix: Data
  slices,  \* the contents of each row
  failed   \* a call has returned an error, which ends the run
vars == <<held, data, slices, failed>>

Values(m, s) == [i \in DOMAIN m |-> s[m[i]]]
ValueOf(x) == Values(data[held[x]], slices)

\* The heap without what no name reaches.
Keep(h, d, s) ==
  LET live == {h[x] : x \in Names} \ {None}
      rows == UNION {Range(d[r]) : r \in live}
  IN  /\ held' = h
      /\ data' = [r \in Refs |-> IF r \in live THEN d[r] ELSE <<>>]
      /\ slices' = [i \in Slices |-> IF i \in rows THEN s[i] ELSE <<>>]

Small(m) ==
  /\ Rows(m) <= MaxRows /\ Cols(m) <= MaxCols
  /\ \A i \in DOMAIN m : Range(m[i]) \subseteq Elements

\* The rows of r become the slices ids and, of the others, new ones with what m says.
Rebuild(h, r, m, kept) ==
  LET others == UNION {Range(data[h[y]]) : y \in {z \in Names : h[z] \notin {None, r}}}
      new == {i \in DOMAIN m : kept[i] = None}
      free == Slices \ (others \cup Range(kept))
      fresh == CHOOSE f \in Injection(new, free) : TRUE
      ids == [i \in DOMAIN m |-> IF i \in new THEN fresh[i] ELSE kept[i]]
  IN  /\ Small(m) /\ Cardinality(new) <= Cardinality(free)
      /\ Keep(h, [data EXCEPT ![r] = ids],
              [s \in Slices |-> IF s \in Range(ids) THEN m[CHOOSE i \in DOMAIN m : ids[i] = s] ELSE slices[s]])
NewRows(m) == [i \in DOMAIN m |-> None]

\* x is set to a new matrix.
Make(x, m) ==
  LET r == Min(Refs \ {held[y] : y \in Names \ {x}})
  IN  Rebuild([held EXCEPT ![x] = r], r, m, NewRows(m)) /\ UNCHANGED failed
\* The matrix of x is changed: its rows written into, or replaced.
Write(x, m) == Rebuild(held, held[x], m, data[held[x]]) /\ UNCHANGED failed
Replace(x, m, kept) == Rebuild(held, held[x], m, kept) /\ UNCHANGED failed

\* An argument that is no matrix, or no rectangular one, or another error.
IsMatrix(x) == held[x] # None /\ IsRect(ValueOf(x))
Error == failed' = TRUE /\ UNCHANGED <<held, data, slices>>
Checked(ok, Do) == \/ ok /\ Do
                   \/ ~ok /\ Error

-----------------------------------------------------------------------------
(* The builtins. *)

Indices == UNION {Truncated(i) : i \in Arguments}
Lists(n) == UNION {[1 .. k -> Elements \cup {NaN}] : k \in 0 .. n}

New(x, rows, cols, v) == Checked(rows >= 0 /\ cols >= 0, Make(x, NewMatrix(rows, cols, v)))
Assign(x, y) == Keep([held EXCEPT ![x] = held[y]], data, slices) /\ UNCHANGED failed
\* Mutant: the copy has the rows of the original.
CopyRows(x, y) ==
  Checked(IsMatrix(y),
    LET r == Min(Refs \ {held[z] : z \in Names \ {x}})
    IN  Keep([held EXCEPT ![x] = r], [data EXCEPT ![r] = data[held[y]]], slices) /\ UNCHANGED failed)
Copy(x, y) == Checked(IsMatrix(y), Make(x, ValueOf(y)))

Set(x, r, c, v) ==
  Checked(IsMatrix(x) /\ Within(ValueOf(x), r, c), Write(x, [ValueOf(x) EXCEPT ![r + 1][c + 1] = v]))
Fill(x, v, rows, cols) ==
  Checked(IsMatrix(x) /\ InBounds(ValueOf(x), rows, cols), Write(x, FilledRange(ValueOf(x), v, rows, cols)))
Reshape(x, rows, cols) ==
  Checked(IsMatrix(x) /\ rows >= 0 /\ cols >= 0 /\ rows * cols = Len(Flatten(ValueOf(x))),
          LET m == Shaped(Flatten(ValueOf(x)), rows, cols) IN Replace(x, m, NewRows(m)))
\* The array must hold numbers only; a first row may have any width.
AddRow(x, index, row) ==
  LET m == ValueOf(x)
  IN  Checked(/\ IsMatrix(x) /\ NaN \notin Range(row) /\ index \in 0 .. Rows(m)
              /\ (m # <<>> => Len(row) = Cols(m)),
              Replace(x, InsertAt(m, index + 1, row), InsertAt(data[held[x]], index + 1, None)))
AddCol(x, index, col) ==
  LET m == ValueOf(x)
  IN  Checked(/\ IsMatrix(x) /\ NaN \notin Range(col)
              /\ (m # <<>> => index \in 0 .. Cols(m) /\ Len(col) = Rows(m)),
              Replace(x, ColAdded(m, index, col), NewRows(ColAdded(m, index, col))))
RemoveRow(x, index) ==
  Checked(IsMatrix(x) /\ index \in 0 .. Rows(ValueOf(x)) - 1,
          Replace(x, RemoveAt(ValueOf(x), index + 1), RemoveAt(data[held[x]], index + 1)))
RemoveCol(x, index) ==
  Checked(IsMatrix(x) /\ index \in 0 .. Cols(ValueOf(x)) - 1, Write(x, ColRemoved(ValueOf(x), index)))
SwapRows(x, i, j) ==
  Checked(IsMatrix(x) /\ {i, j} \subseteq 0 .. Rows(ValueOf(x)) - 1,
          Replace(x, RowsSwapped(ValueOf(x), i + 1, j + 1), RowsSwapped(data[held[x]], i + 1, j + 1)))
SwapCols(x, i, j) ==
  Checked(IsMatrix(x) /\ {i, j} \subseteq 0 .. Cols(ValueOf(x)) - 1, Write(x, ColsSwapped(ValueOf(x), i, j)))
Reorder(x) == Checked(IsMatrix(x), \E m \in {Reversed(ValueOf(x)), Sorted(ValueOf(x))} : Write(x, m))

\* New matrices out of one or of two.
Sub(x, y, rows, cols) ==
  Checked(IsMatrix(y) /\ InBounds(ValueOf(y), rows, cols), Make(x, Submatrix(ValueOf(y), rows, cols)))
Combine(x, y, z) ==
  LET a == ValueOf(y)
      b == ValueOf(z)
      both == IsMatrix(y) /\ IsMatrix(z)
  IN  \/ Checked(both /\ ConcatFits(a, b), Make(x, Concat(a, b)))
      \/ Checked(both /\ Rows(a) = Rows(b) /\ Cols(a) = Cols(b), Make(x, Diff(a, b)))
      \/ Checked(both /\ Cols(a) = Rows(b), Make(x, Mult(a, b)))
      \/ Checked(both, Make(x, Kron(a, b)))
Transform(x, y) ==
  LET a == ValueOf(y)
      square == IsMatrix(y) /\ IsSquare(a)
  IN  \/ Checked(IsMatrix(y), Make(x, Transpose(a)))
      \/ \E p \in Powers : Checked(square /\ p >= 0, Make(x, Pow(a, p)))
      \/ Checked(square /\ Inv(a) # Singular, Make(x, Inv(a)))
      \/ Checked(IsMatrix(y) /\ Pinv(a) # Singular, Make(x, Pinv(a)))

-----------------------------------------------------------------------------
Init ==
  /\ \E m \in Inputs :
       /\ held = [y \in Names |-> IF y = CHOOSE x \in Names : TRUE THEN Min(Refs) ELSE None]
       /\ data = [r \in Refs |-> IF r = Min(Refs) THEN [i \in 1 .. Rows(m) |-> i] ELSE <<>>]
       /\ slices = [s \in Slices |-> IF s \in 1 .. Rows(m) THEN m[s] ELSE <<>>]
  /\ failed = FALSE

Next ==
  /\ ~failed /\ \A x \in Names : held[x] # None => Small(ValueOf(x))
  /\ \E x \in Names :
       \/ \E i, j \in Indices, v \in Elements :
            New(x, i, j, v) \/ Set(x, i, j, v) \/ Reshape(x, i, j) \/ SwapRows(x, i, j) \/ SwapCols(x, i, j)
       \/ \E rows, cols \in Spans, v \in Elements : Fill(x, v, rows, cols)
       \/ \E i \in Indices :
            \/ RemoveRow(x, i) \/ RemoveCol(x, i)
            \/ \E list \in Lists(MaxRows) : AddRow(x, i, list) \/ AddCol(x, i, list)
       \/ Reorder(x)
       \/ \E y \in Names :
            \/ Assign(x, y) \/ Copy(x, y) \/ Transform(x, y)
            \/ \E rows, cols \in Spans : Sub(x, y, rows, cols)
            \/ \E z \in Names : Combine(x, y, z)
Spec == Init /\ [][Next]_vars

-----------------------------------------------------------------------------
(* What the heap must be. *)

ValuesHeld == [r \in {held[x] : x \in Names} \ {None} |-> Values(data[r], slices)]
\* Whatever a script does to its matrices, two names see the same changes only when one
\* was assigned to the other: a copy, a transpose or a result shares nothing with what
\* it was made from (docs/features.md: "matrix.copy(mtx)"), every matrix stays
\* rectangular, and a call that returns an error has changed nothing.
Separate == INSTANCE MatrixHeap WITH value <- ValuesHeld, IsMatrix <- IsRect
IsHeap == Separate!Spec
=============================================================================
