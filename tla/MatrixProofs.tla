---------------------------- MODULE MatrixProofs ----------------------------
(***************************************************************************)
(* Proofs of what the matrices of a script promise, for any shapes, heap   *)
(* and elements: first that every builtin returns a rectangular matrix,    *)
(* then that no two matrices share a row, and that every step is one of    *)
(* MatrixHeap.                                                             *)
(***************************************************************************)
EXTENDS Matrix, SumTheorems, SequenceTheorems, FunctionTheorems

-----------------------------------------------------------------------------
(* Shapes. *)

HasShape(m, rows, cols) ==
  /\ m = [i \in 1 .. rows |-> m[i]]
  /\ \A i \in 1 .. rows : m[i] = [j \in 1 .. cols |-> m[i][j]]

\* Rows of one width are a matrix (matrix.go rectangular).
LEMMA ShapeIsGrid ==
  ASSUME NEW m, NEW rows \in Nat, NEW cols \in Nat, HasShape(m, rows, cols)
  PROVE  IsGrid(m) /\ Rows(m) = rows /\ Cols(m) = IF rows = 0 THEN 0 ELSE cols
<1>1. Len(m) = rows
  BY DEF HasShape
<1>2. \A i \in 1 .. rows : Len(m[i]) = cols
  BY DEF HasShape
<1>3. CASE rows = 0
  <2>1. m = <<>>
    BY <1>1, <1>3 DEF HasShape
  <2>2. Rows(m) = 0 /\ Cols(m) = 0
    BY <2>1, <1>1, <1>3 DEF Rows, Cols
  <2>3. m = Grid(0, 0, LAMBDA i, j : m[i][j])
    BY <1>3 DEF Grid, HasShape
  <2> QED BY <1>3, <2>2, <2>3 DEF IsGrid
<1>4. CASE rows # 0
  <2>1. 1 \in 1 .. rows
    BY <1>4
  <2>2. m # <<>>
    BY <1>1, <1>4
  <2>3. Rows(m) = rows /\ Cols(m) = cols
    BY <2>1, <2>2, <1>1, <1>2 DEF Rows, Cols
  <2>4. m = Grid(rows, cols, LAMBDA i, j : m[i][j])
    BY DEF Grid, HasShape
  <2> QED BY <1>4, <2>3, <2>4 DEF IsGrid
<1> QED BY <1>3, <1>4

\* And a matrix has a shape.
LEMMA GridHasShape ==
  ASSUME NEW m, IsGrid(m)
  PROVE  /\ Rows(m) \in Nat /\ Cols(m) \in Nat /\ HasShape(m, Rows(m), Cols(m)) /\ IsRect(m)
         /\ DOMAIN m = 1 .. Rows(m)
<1>1. Rows(m) \in Nat /\ Cols(m) \in Nat /\ m = [i \in 1 .. Rows(m) |-> [j \in 1 .. Cols(m) |-> m[i][j]]]
  BY DEF IsGrid, Grid
<1>2. DOMAIN m = 1 .. Rows(m)
  BY <1>1
<1>3. \A i \in 1 .. Rows(m) : m[i] = [j \in 1 .. Cols(m) |-> m[i][j]]
  BY <1>1
<1>4. m = [i \in 1 .. Rows(m) |-> m[i]]
  BY <1>1, <1>2
<1>5. \A i \in 1 .. Rows(m) : Len(m[i]) = Cols(m)
  BY <1>1, <1>3
<1> QED BY <1>1, <1>2, <1>3, <1>4, <1>5 DEF HasShape, IsRect

\* matrix.new and the results of matrix.submatrix, diff, mult, kron and transpose are
\* matrices, of the shape the builtin says.
LEMMA NewMatrixIsGrid ==
  ASSUME NEW rows \in Nat, NEW cols \in Nat, NEW v
  PROVE  IsGrid(NewMatrix(rows, cols, v))
<1>1. HasShape(NewMatrix(rows, cols, v), rows, cols)
  BY DEF NewMatrix, Grid, HasShape
<1> QED BY <1>1, ShapeIsGrid

LEMMA ShapedIsGrid ==
  ASSUME NEW flat, NEW rows \in Nat, NEW cols \in Nat
  PROVE  IsGrid(Shaped(flat, rows, cols)) /\ Rows(Shaped(flat, rows, cols)) = rows
<1>1. HasShape(Shaped(flat, rows, cols), rows, cols)
  BY DEF Shaped, Grid, HasShape
<1> QED BY <1>1, ShapeIsGrid

LEMMA SubmatrixIsGrid ==
  ASSUME NEW m, NEW rows, NEW cols, rows[2] - rows[1] \in Nat, cols[2] - cols[1] \in Nat
  PROVE  /\ IsGrid(Submatrix(m, rows, cols))
         /\ Rows(Submatrix(m, rows, cols)) = rows[2] - rows[1]
<1>1. HasShape(Submatrix(m, rows, cols), rows[2] - rows[1], cols[2] - cols[1])
  BY DEF Submatrix, Grid, HasShape
<1> QED BY <1>1, ShapeIsGrid

LEMMA FilledIsGrid ==
  ASSUME NEW m, IsGrid(m), NEW v, NEW rows, NEW cols
  PROVE  IsGrid(FilledRange(m, v, rows, cols)) /\ Rows(FilledRange(m, v, rows, cols)) = Rows(m)
<1>1. HasShape(FilledRange(m, v, rows, cols), Rows(m), Cols(m))
  BY DEF FilledRange, Grid, HasShape
<1> QED BY <1>1, GridHasShape, ShapeIsGrid

LEMMA TransposeIsGrid ==
  ASSUME NEW a, IsGrid(a)
  PROVE  IsGrid(Transpose(a)) /\ Rows(Transpose(a)) = Cols(a)
<1>1. HasShape(Transpose(a), Cols(a), Rows(a))
  BY DEF Transpose, Grid, HasShape
<1> QED BY <1>1, GridHasShape, ShapeIsGrid

LEMMA DiffIsGrid ==
  ASSUME NEW a, IsGrid(a), NEW b
  PROVE  IsGrid(Diff(a, b))
<1>1. HasShape(Diff(a, b), Rows(a), Cols(a))
  BY DEF Diff, Grid, HasShape
<1> QED BY <1>1, GridHasShape, ShapeIsGrid

LEMMA MultIsGrid ==
  ASSUME NEW a, NEW b, Rows(a) \in Nat, Cols(b) \in Nat
  PROVE  IsGrid(Mult(a, b)) /\ Rows(Mult(a, b)) = Rows(a) /\ Cols(Mult(a, b)) = IF Rows(a) = 0 THEN 0 ELSE Cols(b)
<1>1. HasShape(Mult(a, b), Rows(a), Cols(b))
  BY DEF Mult, Grid, HasShape
<1> QED BY <1>1, ShapeIsGrid

LEMMA KronIsGrid ==
  ASSUME NEW a, IsGrid(a), NEW b, IsGrid(b)
  PROVE  IsGrid(Kron(a, b))
<1>1. ASSUME NEW x \in Nat, NEW y \in Nat PROVE x * y \in Nat
  OBVIOUS
<1>2. HasShape(Kron(a, b), Rows(a) * Rows(b), Cols(a) * Cols(b))
  BY DEF Kron, Grid, HasShape
<1>3. Rows(a) * Rows(b) \in Nat /\ Cols(a) * Cols(b) \in Nat
  BY <1>1, GridHasShape
<1> QED BY <1>2, <1>3, ShapeIsGrid

-----------------------------------------------------------------------------
(* Sequences with an element more or less. *)

\* A part of a sequence, and two sequences joined, as functions.
LEMMA PartIs ==
  ASSUME NEW s, NEW from \in Nat, NEW to \in Int, from - 1 <= to
  PROVE  SubSeq(s, from, to) = [k \in 1 .. to - from + 1 |-> s[from + k - 1]]
<1> DEFINE S == {s[k] : k \in from .. to}
<1>1. PICK a : a = SubSeq(s, from, to)
  OBVIOUS
<1>2. /\ a \in Seq(S) /\ Len(a) = IF from <= to THEN to - from + 1 ELSE 0
      /\ \A k \in 1 .. to - from + 1 : a[k] = s[from + k - 1]
  BY <1>1, SubSeqProperties
<1> HIDE DEF S
<1>3. a = [k \in 1 .. Len(a) |-> a[k]] /\ Len(a) = to - from + 1
  BY <1>2, LenProperties
<1> QED BY <1>1, <1>2, <1>3

LEMMA JoinedIs ==
  ASSUME NEW n \in Nat, NEW s, s = [k \in 1 .. n |-> s[k]],
         NEW p \in Nat, NEW t, t = [k \in 1 .. p |-> t[k]]
  PROVE  s \o t = [k \in 1 .. n + p |-> IF k <= n THEN s[k] ELSE t[k - n]]
<1> DEFINE S == {s[k] : k \in 1 .. n} \cup {t[k] : k \in 1 .. p}
<1>1. s \in Seq(S) /\ Len(s) = n
  <2>1. s \in [1 .. n -> S]
    OBVIOUS
  <2> QED BY <2>1
<1>2. t \in Seq(S) /\ Len(t) = p
  <2>1. t \in [1 .. p -> S]
    OBVIOUS
  <2> QED BY <2>1
<1> HIDE DEF S
<1>3. PICK a : a = s \o t
  OBVIOUS
<1>4. /\ a \in Seq(S) /\ Len(a) = n + p
      /\ \A k \in 1 .. n + p : a[k] = IF k <= n THEN s[k] ELSE t[k - n]
  BY <1>1, <1>2, <1>3, ConcatProperties
<1>5. a = [k \in 1 .. n + p |-> a[k]]
  BY <1>4, LenProperties
<1> QED BY <1>3, <1>4, <1>5

\* A row or an element inserted (slices.Insert).
Inserted(s, n, i, e) == [k \in 1 .. n + 1 |-> IF k < i THEN s[k] ELSE IF k = i THEN e ELSE s[k - 1]]
LEMMA InsertAtIs ==
  ASSUME NEW n \in Nat, NEW s, s = [k \in 1 .. n |-> s[k]], NEW i \in 1 .. n + 1, NEW e
  PROVE  InsertAt(s, i, e) = Inserted(s, n, i, e)
<1>1. Len(s) = n
  OBVIOUS
<1>2. PICK a : a = SubSeq(s, 1, i - 1)
  OBVIOUS
<1>3. PICK b : b = SubSeq(s, i, n)
  OBVIOUS
<1>4. a = [k \in 1 .. i - 1 |-> s[k]]
  <2>1. a = [k \in 1 .. (i - 1) - 1 + 1 |-> s[1 + k - 1]]
    BY <1>2, PartIs
  <2>2. (i - 1) - 1 + 1 = i - 1 /\ \A k \in 1 .. i - 1 : 1 + k - 1 = k
    OBVIOUS
  <2> QED BY <2>1, <2>2
<1>5. b = [k \in 1 .. n - i + 1 |-> s[i + k - 1]]
  BY <1>3, PartIs
<1>6. PICK c : c = a \o <<e>>
  OBVIOUS
<1>7. c = [k \in 1 .. i |-> IF k < i THEN s[k] ELSE e]
  <2>1. PICK t : t = <<e>>
    OBVIOUS
  <2>2. t = [k \in 1 .. 1 |-> t[k]] /\ t[1] = e
    BY <2>1
  <2>3. c = [k \in 1 .. (i - 1) + 1 |-> IF k <= i - 1 THEN a[k] ELSE t[k - (i - 1)]]
    <3>1. a = [k \in 1 .. i - 1 |-> a[k]] /\ i - 1 \in Nat /\ 1 \in Nat
      BY <1>4
    <3>2. c = a \o t
      BY <1>6, <2>1
    <3> HIDE <1>4
    <3> QED BY <2>2, <3>1, <3>2, JoinedIs
  <2> QED BY <1>4, <2>2, <2>3
<1>8. PICK d : d = c \o b
  OBVIOUS
<1>9. d = [k \in 1 .. i + (n - i + 1) |-> IF k <= i THEN c[k] ELSE b[k - i]]
  BY <1>5, <1>7, <1>8, JoinedIs
<1>10. \A k \in 1 .. n + 1 : d[k] = IF k < i THEN s[k] ELSE IF k = i THEN e ELSE s[k - 1]
  BY <1>5, <1>7, <1>9
<1>11. d = [k \in 1 .. n + 1 |-> d[k]]
  <2>1. i + (n - i + 1) = n + 1
    OBVIOUS
  <2> QED BY <1>9, <2>1
<1>12. d = InsertAt(s, i, e)
  BY <1>1, <1>2, <1>3, <1>6, <1>8 DEF InsertAt
<1> QED BY <1>10, <1>11, <1>12 DEF Inserted

\* A row or an element removed (slices.Delete).
LEMMA RemoveAtIs ==
  ASSUME NEW n \in Nat, NEW s, s = [k \in 1 .. n |-> s[k]], NEW i \in 1 .. n
  PROVE  RemoveAt(s, i) = [k \in 1 .. n - 1 |-> IF k < i THEN s[k] ELSE s[k + 1]]
<1>1. Len(s) = n
  OBVIOUS
<1>2. PICK a : a = SubSeq(s, 1, i - 1)
  OBVIOUS
<1>3. PICK b : b = SubSeq(s, i + 1, n)
  OBVIOUS
<1>4. a = [k \in 1 .. i - 1 |-> s[k]]
  <2>1. a = [k \in 1 .. (i - 1) - 1 + 1 |-> s[1 + k - 1]]
    BY <1>2, PartIs
  <2>2. (i - 1) - 1 + 1 = i - 1 /\ \A k \in 1 .. i - 1 : 1 + k - 1 = k
    OBVIOUS
  <2> QED BY <2>1, <2>2
<1>5. b = [k \in 1 .. n - i |-> s[i + k]]
  <2>1. b = [k \in 1 .. n - (i + 1) + 1 |-> s[(i + 1) + k - 1]]
    BY <1>3, PartIs
  <2>2. n - (i + 1) + 1 = n - i /\ \A k \in 1 .. n - i : (i + 1) + k - 1 = i + k
    OBVIOUS
  <2> QED BY <2>1, <2>2
<1>6. PICK d : d = a \o b
  OBVIOUS
<1>7. d = [k \in 1 .. (i - 1) + (n - i) |-> IF k <= i - 1 THEN a[k] ELSE b[k - (i - 1)]]
  BY <1>4, <1>5, <1>6, JoinedIs
<1>8. \A k \in 1 .. n - 1 : d[k] = IF k < i THEN s[k] ELSE s[k + 1]
  BY <1>4, <1>5, <1>7
<1>9. d = [k \in 1 .. n - 1 |-> d[k]]
  <2>1. (i - 1) + (n - i) = n - 1
    OBVIOUS
  <2> QED BY <1>7, <2>1
<1>10. d = RemoveAt(s, i)
  BY <1>1, <1>2, <1>3, <1>6 DEF RemoveAt
<1> QED BY <1>8, <1>9, <1>10

-----------------------------------------------------------------------------
(* The builtins that change a matrix keep its shape one. *)

\* matrix.add_row: a row as wide as the matrix, or any row as the first.
LEMMA RowAddedIsGrid ==
  ASSUME NEW m, IsGrid(m), NEW index \in 0 .. Rows(m), NEW k \in Nat,
         NEW row, row = [j \in 1 .. k |-> row[j]], m # <<>> => k = Cols(m)
  PROVE  IsGrid(InsertAt(m, index + 1, row)) /\ Rows(InsertAt(m, index + 1, row)) = Rows(m) + 1
<1>1. PICK n \in Nat : n = Rows(m)
  BY GridHasShape
<1>2. HasShape(m, n, Cols(m)) /\ Cols(m) \in Nat
  BY <1>1, GridHasShape
<1>3. n # 0 => k = Cols(m)
  <2>1. m = <<>> => Len(m) = 0
    OBVIOUS
  <2> QED BY <1>1, <2>1 DEF Rows
<1>4. PICK d : d = InsertAt(m, index + 1, row)
  OBVIOUS
<1>5. d = [i \in 1 .. n + 1 |-> IF i < index + 1 THEN m[i] ELSE IF i = index + 1 THEN row ELSE m[i - 1]]
  <2>1. m = [i \in 1 .. n |-> m[i]]
    BY <1>2 DEF HasShape
  <2>2. PICK p \in 1 .. n + 1 : p = index + 1
    BY <1>1
  <2>3. InsertAt(m, p, row) = Inserted(m, n, p, row)
    BY <2>1, InsertAtIs
  <2> QED BY <1>4, <2>2, <2>3 DEF Inserted
<1>6. HasShape(d, n + 1, k)
  <2>1. d = [i \in 1 .. n + 1 |-> d[i]]
    BY <1>5
  <2>2. ASSUME NEW i \in 1 .. n + 1 PROVE d[i] = [j \in 1 .. k |-> d[i][j]]
    <3>1. CASE i = index + 1
      <4>1. d[i] = row
        BY <1>5, <3>1
      <4> QED BY <4>1
    <3>2. CASE i # index + 1
      <4>1. PICK p \in 1 .. n : d[i] = m[p]
        BY <1>1, <1>5, <3>2
      <4>2. m[p] = [j \in 1 .. Cols(m) |-> m[p][j]] /\ k = Cols(m)
        BY <1>2, <1>3, <4>1 DEF HasShape
      <4> QED BY <4>1, <4>2
    <3> QED BY <3>1, <3>2
  <2> QED BY <2>1, <2>2 DEF HasShape
<1>7. n + 1 \in Nat
  OBVIOUS
<1> QED BY <1>1, <1>4, <1>6, <1>7, ShapeIsGrid

\* matrix.remove_row.
LEMMA RowRemovedIsGrid ==
  ASSUME NEW m, IsGrid(m), NEW index \in 0 .. Rows(m) - 1
  PROVE  IsGrid(RemoveAt(m, index + 1)) /\ Rows(RemoveAt(m, index + 1)) = Rows(m) - 1
<1>1. PICK n \in Nat : n = Rows(m)
  BY GridHasShape
<1>2. HasShape(m, n, Cols(m)) /\ Cols(m) \in Nat
  BY <1>1, GridHasShape
<1>3. PICK d : d = RemoveAt(m, index + 1)
  OBVIOUS
<1>4. d = [i \in 1 .. n - 1 |-> IF i < index + 1 THEN m[i] ELSE m[i + 1]]
  <2>1. m = [i \in 1 .. n |-> m[i]] /\ index + 1 \in 1 .. n
    BY <1>1, <1>2 DEF HasShape
  <2> QED BY <1>3, <2>1, RemoveAtIs
<1>5. HasShape(d, n - 1, Cols(m))
  <2>1. d = [i \in 1 .. n - 1 |-> d[i]]
    BY <1>4
  <2>2. ASSUME NEW i \in 1 .. n - 1 PROVE d[i] = [j \in 1 .. Cols(m) |-> d[i][j]]
    <3>1. PICK p \in 1 .. n : d[i] = m[p]
      BY <1>1, <1>4
    <3>2. m[p] = [j \in 1 .. Cols(m) |-> m[p][j]]
      BY <1>2, <3>1 DEF HasShape
    <3> QED BY <3>1, <3>2
  <2> QED BY <2>1, <2>2 DEF HasShape
<1>6. n - 1 \in Nat
  BY <1>1
<1> QED BY <1>1, <1>2, <1>3, <1>5, <1>6, ShapeIsGrid

\* matrix.swap_rows.
LEMMA RowsSwappedIsGrid ==
  ASSUME NEW m, IsGrid(m), NEW a \in 1 .. Rows(m), NEW b \in 1 .. Rows(m)
  PROVE  IsGrid(RowsSwapped(m, a, b)) /\ Rows(RowsSwapped(m, a, b)) = Rows(m)
<1>1. HasShape(m, Rows(m), Cols(m)) /\ Rows(m) \in Nat /\ Cols(m) \in Nat
  BY GridHasShape
<1>2. PICK d : d = RowsSwapped(m, a, b)
  OBVIOUS
<1>3. d = [i \in 1 .. Rows(m) |-> IF i = b THEN m[a] ELSE IF i = a THEN m[b] ELSE m[i]]
  BY <1>1, <1>2 DEF RowsSwapped, HasShape
<1>4. HasShape(d, Rows(m), Cols(m))
  <2>1. d = [i \in 1 .. Rows(m) |-> d[i]]
    BY <1>3
  <2>2. ASSUME NEW i \in 1 .. Rows(m) PROVE d[i] = [j \in 1 .. Cols(m) |-> d[i][j]]
    <3>1. PICK p \in 1 .. Rows(m) : d[i] = m[p]
      BY <1>3
    <3>2. m[p] = [j \in 1 .. Cols(m) |-> m[p][j]]
      BY <1>1, <3>1 DEF HasShape
    <3> QED BY <3>1, <3>2
  <2> QED BY <2>1, <2>2 DEF HasShape
<1> QED BY <1>1, <1>2, <1>4, ShapeIsGrid

\* matrix.set.
LEMMA ElementSetIsGrid ==
  ASSUME NEW m, IsGrid(m), NEW r, NEW c, NEW v
  PROVE  IsGrid([m EXCEPT ![r][c] = v]) /\ Rows([m EXCEPT ![r][c] = v]) = Rows(m)
<1>1. HasShape(m, Rows(m), Cols(m)) /\ Rows(m) \in Nat /\ Cols(m) \in Nat
  BY GridHasShape
<1>2. PICK d : d = [m EXCEPT ![r][c] = v]
  OBVIOUS
<1>3. d = [i \in 1 .. Rows(m) |-> IF i = r THEN [m[r] EXCEPT ![c] = v] ELSE m[i]]
  BY <1>1, <1>2 DEF HasShape
<1>4. HasShape(d, Rows(m), Cols(m))
  <2>1. d = [i \in 1 .. Rows(m) |-> d[i]]
    BY <1>3
  <2>2. ASSUME NEW i \in 1 .. Rows(m) PROVE d[i] = [j \in 1 .. Cols(m) |-> d[i][j]]
    <3>1. m[i] = [j \in 1 .. Cols(m) |-> m[i][j]]
      BY <1>1 DEF HasShape
    <3>2. i = r => d[i] = [m[i] EXCEPT ![c] = v]
      BY <1>3
    <3>3. i # r => d[i] = m[i]
      BY <1>3
    <3> QED BY <3>1, <3>2, <3>3
  <2> QED BY <2>1, <2>2 DEF HasShape
<1> QED BY <1>1, <1>2, <1>4, ShapeIsGrid

\* matrix.add_col: a column as high as the matrix, or the rows of one without rows.
LEMMA ColAddedIsGrid ==
  ASSUME NEW m, IsGrid(m), NEW index, m # <<>> => index \in 0 .. Cols(m), NEW k \in Nat,
         NEW col, col = [j \in 1 .. k |-> col[j]]
  PROVE  IsGrid(ColAdded(m, index, col))
<1>1. HasShape(m, Rows(m), Cols(m)) /\ Rows(m) \in Nat /\ Cols(m) \in Nat
  BY GridHasShape
<1>2. PICK d : d = ColAdded(m, index, col)
  OBVIOUS
<1>3. CASE m = <<>>
  <2>1. d = [i \in 1 .. k |-> <<col[i]>>]
    BY <1>2, <1>3 DEF ColAdded
  <2>2. \A e : <<e>> = [j \in 1 .. 1 |-> <<e>>[j]]
    OBVIOUS
  <2>3. HasShape(d, k, 1)
    BY <2>1, <2>2 DEF HasShape
  <2> QED BY <1>2, <2>3, ShapeIsGrid
<1>4. CASE m # <<>>
  <2>1. d = [i \in 1 .. Rows(m) |-> InsertAt(m[i], index + 1, col[i])]
    BY <1>1, <1>2, <1>4 DEF ColAdded, HasShape
  <2>2. PICK n \in Nat : n = Cols(m)
    BY <1>1
  <2>3. PICK p \in 1 .. n + 1 : p = index + 1
    BY <1>4, <2>2
  <2>4. ASSUME NEW i \in 1 .. Rows(m) PROVE d[i] = [j \in 1 .. n + 1 |-> d[i][j]]
    <3>1. PICK row, e : row = m[i] /\ e = col[i]
      OBVIOUS
    <3>2. row = [j \in 1 .. n |-> row[j]]
      BY <1>1, <2>2, <3>1 DEF HasShape
    <3>3. InsertAt(row, p, e) = Inserted(row, n, p, e)
      BY <3>2, InsertAtIs
    <3>4. d[i] = Inserted(row, n, p, e)
      BY <2>1, <2>3, <3>1, <3>3
    <3> QED BY <3>4 DEF Inserted
  <2>5. d = [i \in 1 .. Rows(m) |-> d[i]]
    BY <2>1
  <2>6. HasShape(d, Rows(m), n + 1) /\ n + 1 \in Nat
    BY <2>4, <2>5 DEF HasShape
  <2> QED BY <1>1, <1>2, <2>6, ShapeIsGrid
<1> QED BY <1>3, <1>4

\* matrix.remove_col.
LEMMA ColRemovedIsGrid ==
  ASSUME NEW m, IsGrid(m), NEW index \in 0 .. Cols(m) - 1
  PROVE  IsGrid(ColRemoved(m, index)) /\ Rows(ColRemoved(m, index)) = Rows(m)
<1>1. HasShape(m, Rows(m), Cols(m)) /\ Rows(m) \in Nat /\ Cols(m) \in Nat
  BY GridHasShape
<1>2. PICK d : d = ColRemoved(m, index)
  OBVIOUS
<1>3. d = [i \in 1 .. Rows(m) |-> RemoveAt(m[i], index + 1)]
  BY <1>1, <1>2 DEF ColRemoved, HasShape
<1>4. PICK n \in Nat : n = Cols(m)
  BY <1>1
<1>5. PICK p \in 1 .. n : p = index + 1
  BY <1>4
<1>6. ASSUME NEW i \in 1 .. Rows(m) PROVE d[i] = [j \in 1 .. n - 1 |-> d[i][j]]
  <2>1. PICK row : row = m[i]
    OBVIOUS
  <2>2. row = [j \in 1 .. n |-> row[j]]
    BY <1>1, <1>4, <2>1 DEF HasShape
  <2>3. RemoveAt(row, p) = [k \in 1 .. n - 1 |-> IF k < p THEN row[k] ELSE row[k + 1]]
    BY <2>2, RemoveAtIs
  <2>4. d[i] = [k \in 1 .. n - 1 |-> IF k < p THEN row[k] ELSE row[k + 1]]
    BY <1>3, <1>5, <2>1, <2>3
  <2> QED BY <2>4
<1>7. d = [i \in 1 .. Rows(m) |-> d[i]]
  BY <1>3
<1>8. HasShape(d, Rows(m), n - 1) /\ n - 1 \in Nat
  BY <1>4, <1>6, <1>7 DEF HasShape
<1> QED BY <1>1, <1>2, <1>8, ShapeIsGrid

\* matrix.swap_columns.
LEMMA ColsSwappedIsGrid ==
  ASSUME NEW m, IsGrid(m), NEW a, NEW b
  PROVE  IsGrid(ColsSwapped(m, a, b)) /\ Rows(ColsSwapped(m, a, b)) = Rows(m)
<1>1. HasShape(m, Rows(m), Cols(m)) /\ Rows(m) \in Nat /\ Cols(m) \in Nat
  BY GridHasShape
<1>2. PICK d : d = ColsSwapped(m, a, b)
  OBVIOUS
<1>3. d = [i \in 1 .. Rows(m) |-> [m[i] EXCEPT ![a + 1] = m[i][b + 1], ![b + 1] = m[i][a + 1]]]
  BY <1>1, <1>2 DEF ColsSwapped, HasShape
<1>4. ASSUME NEW i \in 1 .. Rows(m) PROVE d[i] = [j \in 1 .. Cols(m) |-> d[i][j]]
  <2>1. PICK row : row = m[i]
    OBVIOUS
  <2>2. row = [j \in 1 .. Cols(m) |-> row[j]]
    BY <1>1, <2>1 DEF HasShape
  <2>3. d[i] = [row EXCEPT ![a + 1] = row[b + 1], ![b + 1] = row[a + 1]]
    BY <1>3, <2>1
  <2> QED BY <2>2, <2>3
<1>5. d = [i \in 1 .. Rows(m) |-> d[i]]
  BY <1>3
<1>6. HasShape(d, Rows(m), Cols(m))
  BY <1>4, <1>5 DEF HasShape
<1> QED BY <1>1, <1>2, <1>6, ShapeIsGrid

\* matrix.concat: side by side, or one above the other.
LEMMA ConcatIsGrid ==
  ASSUME NEW a, IsGrid(a), NEW b, IsGrid(b), ConcatFits(a, b)
  PROVE  IsGrid(Concat(a, b))
<1>1. /\ HasShape(a, Rows(a), Cols(a)) /\ Rows(a) \in Nat /\ Cols(a) \in Nat
      /\ HasShape(b, Rows(b), Cols(b)) /\ Rows(b) \in Nat /\ Cols(b) \in Nat
  BY GridHasShape
<1>2. PICK d : d = Concat(a, b)
  OBVIOUS
<1>3. CASE Rows(a) = Rows(b)
  <2>1. d = [i \in 1 .. Rows(a) |-> a[i] \o b[i]]
    BY <1>1, <1>2, <1>3 DEF Concat, HasShape
  <2>2. PICK n \in Nat, p \in Nat : n = Cols(a) /\ p = Cols(b)
    BY <1>1
  <2>3. ASSUME NEW i \in 1 .. Rows(a) PROVE d[i] = [j \in 1 .. n + p |-> d[i][j]]
    <3>1. PICK s, t : s = a[i] /\ t = b[i]
      OBVIOUS
    <3>2. s = [j \in 1 .. n |-> s[j]] /\ t = [j \in 1 .. p |-> t[j]]
      BY <1>1, <1>3, <2>2, <3>1 DEF HasShape
    <3>3. s \o t = [k \in 1 .. n + p |-> IF k <= n THEN s[k] ELSE t[k - n]]
      BY <3>2, JoinedIs
    <3>4. d[i] = [k \in 1 .. n + p |-> IF k <= n THEN s[k] ELSE t[k - n]]
      BY <2>1, <3>1, <3>3
    <3> QED BY <3>4
  <2>4. d = [i \in 1 .. Rows(a) |-> d[i]]
    BY <2>1
  <2>5. HasShape(d, Rows(a), n + p) /\ n + p \in Nat
    BY <2>3, <2>4 DEF HasShape
  <2> QED BY <1>1, <1>2, <2>5, ShapeIsGrid
<1>4. CASE Rows(a) # Rows(b)
  <2>1. d = a \o b /\ Cols(a) = Cols(b)
    BY <1>2, <1>4 DEF Concat, ConcatFits
  <2>2. PICK n \in Nat, p \in Nat : n = Rows(a) /\ p = Rows(b)
    BY <1>1
  <2>3. a = [k \in 1 .. n |-> a[k]] /\ b = [k \in 1 .. p |-> b[k]]
    BY <1>1, <2>2 DEF HasShape
  <2>4. a \o b = [k \in 1 .. n + p |-> IF k <= n THEN a[k] ELSE b[k - n]]
    BY <2>3, JoinedIs
  <2>5. ASSUME NEW i \in 1 .. n + p PROVE d[i] = [j \in 1 .. Cols(a) |-> d[i][j]]
    <3>1. CASE i <= n
      <4>1. d[i] = a[i] /\ i \in 1 .. Rows(a)
        BY <2>1, <2>2, <2>4, <3>1
      <4> QED BY <1>1, <4>1 DEF HasShape
    <3>2. CASE ~ (i <= n)
      <4>1. PICK k : k = i - n
        OBVIOUS
      <4>2. k \in 1 .. Rows(b) /\ d[i] = b[k]
        BY <2>1, <2>2, <2>4, <3>2, <4>1
      <4> QED BY <1>1, <2>1, <4>2 DEF HasShape
    <3> QED BY <3>1, <3>2
  <2>6. d = [i \in 1 .. n + p |-> d[i]]
    BY <2>1, <2>4
  <2>7. HasShape(d, n + p, Cols(a)) /\ n + p \in Nat
    BY <2>5, <2>6 DEF HasShape
  <2> QED BY <1>1, <1>2, <2>7, ShapeIsGrid
<1> QED BY <1>3, <1>4

-----------------------------------------------------------------------------
(* Powers and inverses. *)

\* matrix.pow: whatever bits are taken, a square matrix as large as the one given.
LEMMA PowIsGrid ==
  ASSUME NEW a, IsGrid(a), IsSquare(a), NEW p
  PROVE  IsGrid(Pow(a, p))
<1> DEFINE Step(acc, bit) ==
             IF 2^bit > p THEN acc
             ELSE [result |-> IF (p \div 2^bit) % 2 = 1 THEN Mult(acc.result, acc.base) ELSE acc.result,
                   base |-> IF 2^(bit + 1) <= p THEN Mult(acc.base, acc.base) ELSE acc.base]
           first == [result |-> Identity(Rows(a)), base |-> a]
           Loop(h, bits) == IF bits = 0 THEN first ELSE Step(h[bits - 1], bits - 1)
           Solves(h) == h = [bits \in 0 .. 30 |-> Loop(h, bits)]
           after == CHOOSE h : Solves(h)
<1>1. Pow(a, p) = after[30].result
  BY DEF Pow
<1>2. PICK n \in Nat : n = Rows(a)
  BY GridHasShape
<1> DEFINE Square(m) == IsGrid(m) /\ Rows(m) = n /\ Cols(m) = n
<1>3. Square(a)
  BY <1>2 DEF IsSquare
<1>4. Square(Identity(n))
  <2>1. HasShape(Identity(n), n, n)
    BY DEF Identity, Grid, HasShape
  <2> QED BY <2>1, ShapeIsGrid
<1>5. ASSUME NEW x, Square(x), NEW y, Square(y) PROVE Square(Mult(x, y))
  BY <1>5, MultIsGrid
<1> HIDE DEF Square
<1>6. ASSUME NEW acc, Square(acc.result), Square(acc.base), NEW bit
      PROVE Square(Step(acc, bit).result) /\ Square(Step(acc, bit).base)
  <2>1. CASE 2^bit > p
    BY <1>6, <2>1
  <2>2. CASE ~ (2^bit > p)
    <3>1. PICK mr, mb : mr = Mult(acc.result, acc.base) /\ mb = Mult(acc.base, acc.base)
      OBVIOUS
    <3>2. Square(mr) /\ Square(mb)
      BY <1>5, <1>6, <3>1
    <3>3. /\ Step(acc, bit).result \in {mr, acc.result}
          /\ Step(acc, bit).base \in {mb, acc.base}
      BY <2>2, <3>1
    <3> QED BY <1>6, <3>2, <3>3
  <2> QED BY <2>1, <2>2
<1>7. Square(first.result) /\ Square(first.base)
  BY <1>2, <1>3, <1>4
<1> HIDE DEF Step, first
<1>8. \A k \in 0 .. 30 : \E h : h = [bits \in 0 .. k |-> Loop(h, bits)]
  <2> DEFINE Bad == {k \in 0 .. 30 : ~ \E h : h = [bits \in 0 .. k |-> Loop(h, bits)]}
  <2> SUFFICES ASSUME Bad # {} PROVE FALSE
    OBVIOUS
  <2>1. PICK k \in Bad : \A l \in Bad : k <= l
    <3>1. Bad \subseteq Nat
      OBVIOUS
    <3> HIDE DEF Bad
    <3> QED BY <3>1, LeastNatural
  <2>2. k # 0
    <3>1. PICK h : h = [bits \in 0 .. 0 |-> first]
      OBVIOUS
    <3>2. h = [bits \in 0 .. 0 |-> Loop(h, bits)]
      BY <3>1
    <3> QED BY <3>2
  <2>3. PICK g : g = [bits \in 0 .. k - 1 |-> Loop(g, bits)]
    BY <2>1, <2>2
  <2>4. PICK h : h = [bits \in 0 .. k |-> IF bits < k THEN g[bits] ELSE Step(g[k - 1], k - 1)]
    OBVIOUS
  <2>5. ASSUME NEW bits \in 0 .. k PROVE h[bits] = Loop(h, bits)
    <3>1. CASE bits = 0
      <4>1. g[0] = first
        BY <2>2, <2>3
      <4> QED BY <2>2, <2>4, <3>1, <4>1
    <3>2. CASE bits # 0
      <4>1. h[bits - 1] = g[bits - 1]
        BY <2>4, <3>2
      <4>2. bits < k => g[bits] = Step(g[bits - 1], bits - 1)
        BY <2>3, <3>2
      <4>3. h[bits] = Step(g[bits - 1], bits - 1)
        BY <2>4, <4>2
      <4> QED BY <3>2, <4>1, <4>3
    <3> QED BY <3>1, <3>2
  <2>6. h = [bits \in 0 .. k |-> h[bits]]
    BY <2>4
  <2> HIDE DEF Loop
  <2>7. h = [bits \in 0 .. k |-> Loop(h, bits)]
    BY <2>5, <2>6
  <2> QED BY <2>7
<1>9. Solves(after)
  <2>1. \E h : Solves(h)
    BY <1>8
  <2> HIDE DEF Solves
  <2> QED BY <2>1
<1> HIDE DEF after
<1>10. \A bits \in 0 .. 30 : Square(after[bits].result) /\ Square(after[bits].base)
  <2> DEFINE Bad == {k \in 0 .. 30 : ~ (Square(after[k].result) /\ Square(after[k].base))}
  <2> SUFFICES ASSUME Bad # {} PROVE FALSE
    OBVIOUS
  <2>1. PICK k \in Bad : \A l \in Bad : k <= l
    <3>1. Bad \subseteq Nat
      OBVIOUS
    <3> HIDE DEF Bad
    <3> QED BY <3>1, LeastNatural
  <2>2. k = 0 => after[k] = first
    BY <1>9
  <2>3. k # 0 => after[k] = Step(after[k - 1], k - 1)
    BY <1>9
  <2>4. k # 0 => Square(after[k - 1].result) /\ Square(after[k - 1].base)
    BY <2>1
  <2> QED BY <1>6, <1>7, <2>2, <2>3, <2>4
<1>11. Square(after[30].result)
  BY <1>10
<1> QED BY <1>1, <1>11 DEF Square

\* matrix.inv: a square matrix as large as the one given, or Singular.
LEMMA InvIsGrid ==
  ASSUME NEW a, Rows(a) \in Nat, Inv(a) # Singular
  PROVE  IsGrid(Inv(a)) /\ Rows(Inv(a)) = Rows(a)
<1>1. PICK n \in Nat : n = Rows(a)
  OBVIOUS
<1>2. PICK end : Inv(a) = Submatrix(end, <<0, n>>, <<n, 2 * n>>)
  BY <1>1 DEF Inv
<1>3. PICK rows, cols : rows = <<0, n>> /\ cols = <<n, 2 * n>>
  OBVIOUS
<1>4. rows[2] - rows[1] = n /\ cols[2] - cols[1] = n
  BY <1>3
<1>5. IsGrid(Submatrix(end, rows, cols)) /\ Rows(Submatrix(end, rows, cols)) = n
  BY <1>4, SubmatrixIsGrid
<1> QED BY <1>1, <1>2, <1>3, <1>5

\* matrix.pinv.
LEMMA PinvIsGrid ==
  ASSUME NEW a, IsGrid(a), Pinv(a) # Singular
  PROVE  IsGrid(Pinv(a))
<1>1. Rows(a) \in Nat /\ Cols(a) \in Nat
  BY GridHasShape
<1>2. PICK at : at = Transpose(a)
  OBVIOUS
<1>3. IsGrid(at) /\ Rows(at) \in Nat /\ Cols(at) \in Nat
  BY <1>1, <1>2, TransposeIsGrid, GridHasShape
<1>4. PICK gram : gram = IF Rows(a) >= Cols(a) THEN Mult(at, a) ELSE Mult(a, at)
  OBVIOUS
<1>5. Rows(gram) \in Nat
  BY <1>1, <1>3, <1>4, MultIsGrid
<1>6. PICK inv : inv = Inv(gram)
  OBVIOUS
<1>7. inv # Singular /\ Pinv(a) = IF Rows(a) >= Cols(a) THEN Mult(inv, at) ELSE Mult(at, inv)
  BY <1>2, <1>4, <1>6 DEF Pinv
<1>8. Rows(inv) \in Nat /\ Cols(inv) \in Nat
  BY <1>5, <1>6, <1>7, InvIsGrid, GridHasShape
<1> QED BY <1>3, <1>7, <1>8, MultIsGrid

\* int(x) is an integer (the arguments of the builtins).
LEMMA IndicesAreIntegers == \A i \in Indices : i \in Int
<1> SUFFICES ASSUME NEW x \in Arguments, NEW i \in Truncated(x) PROVE i \in Int
  BY DEF Indices
<1>1. x \in AllFloats
  BY ArgumentAssumption
<1>2. CASE x = NaN
  BY <1>2 DEF Truncated, LowestInt
<1>3. CASE x # NaN
  <2>1. x[1] \in Int /\ x[2] \in Nat \ {0}
    BY <1>1, <1>3 DEF AllFloats
  <2>2. i = IF x[1] < 0 THEN -((-x[1]) \div x[2]) ELSE x[1] \div x[2]
    BY <1>3 DEF Truncated
  <2>3. ASSUME NEW n \in Int, NEW d \in Nat \ {0} PROVE n \div d \in Int
    OBVIOUS
  <2> QED BY <2>1, <2>2, <2>3
<1> QED BY <1>2, <1>3

-----------------------------------------------------------------------------
(* Room on the heap. *)

\* New row slices fit where there is room for them.
LEMMA RoomForRows ==
  ASSUME NEW S, IsFiniteSet(S), NEW T, IsFiniteSet(T), Cardinality(S) <= Cardinality(T)
  PROVE  \E f \in Injection(S, T) : TRUE
<1>1. PICK n \in Nat, p \in Nat : n = Cardinality(S) /\ p = Cardinality(T)
  BY FS_CardinalityType
<1>2. ExistsBijection(1 .. n, S) /\ ExistsBijection(1 .. p, T)
  BY <1>1, FS_CardinalityType
<1>3. ExistsInjection(S, 1 .. n) /\ ExistsInjection(1 .. p, T)
  BY <1>2, Fun_ExistsBijEquiv
<1>4. ExistsInjection(1 .. n, 1 .. p)
  BY <1>1, Fun_NatInjLeq
<1>5. ExistsInjection(S, T)
  BY <1>3, <1>4, Fun_ExistsInjTransitive
<1> QED BY <1>5 DEF ExistsInjection

\* A matrix that no other name holds.
LEMMA RoomForMatrix ==
  ASSUME NEW h, NEW x \in Names
  PROVE  Min(Refs \ {h[y] : y \in Names \ {x}}) \in Refs \ {h[y] : y \in Names \ {x}}
<1> DEFINE T == {h[y] : y \in Names \ {x}}
<1>1. IsFiniteSet(Names \ {x}) /\ Cardinality(Names \ {x}) = Cardinality(Names) - 1
  BY HeapAssumption, FS_RemoveElement
<1>2. [y \in Names \ {x} |-> h[y]] \in Surjection(Names \ {x}, T)
  BY DEF Surjection
<1>3. IsFiniteSet(T) /\ Cardinality(T) <= Cardinality(Names \ {x})
  BY <1>1, <1>2, FS_Surjection
<1>4. Cardinality(T) \in Nat /\ Cardinality(Refs) \in Nat /\ Cardinality(Names) \in Nat
  BY <1>3, HeapAssumption, FS_CardinalityType
<1>5. ~ (Refs \subseteq T)
  <2>1. Refs \subseteq T => Cardinality(Refs) <= Cardinality(T)
    BY <1>3, FS_Subset
  <2>2. Cardinality(Names) <= Cardinality(Refs)
    BY HeapAssumption
  <2> HIDE DEF T
  <2> QED BY <1>1, <1>3, <1>4, <2>1, <2>2
<1> HIDE DEF T
<1>6. PICK F : F = Refs \ T
  OBVIOUS
<1>7. F # {} /\ F \subseteq Nat
  BY <1>5, <1>6, HeapAssumption
<1>8. PICK r \in F : \A q \in F : r <= q
  BY <1>7, LeastNatural
<1>9. Min(F) \in F
  BY <1>8 DEF Min
<1> QED BY <1>6, <1>9 DEF T

-----------------------------------------------------------------------------
(* The heap: no two matrices, and no two rows, are one slice. *)

Live == {held[x] : x \in Names} \ {None}
\* The rows of a matrix are different slices.
Distinct(ids) ==
  /\ ids = [i \in DOMAIN ids |-> ids[i]] /\ \A i \in DOMAIN ids : ids[i] \in Slices
  /\ \A i, j \in DOMAIN ids : ids[i] = ids[j] => i = j
Apart(ids, others) == \A i \in DOMAIN ids, j \in DOMAIN others : ids[i] # others[j]
HeapInv ==
  /\ held \in [Names -> Refs \cup {None}] /\ failed \in BOOLEAN
  /\ data = [r \in Refs |-> data[r]] /\ slices = [s \in Slices |-> slices[s]]
  /\ \A r \in Live : Distinct(data[r]) /\ IsGrid(Values(data[r], slices))
  /\ \A r, q \in Live : r # q => Apart(data[r], data[q])

\* What may be kept for a matrix with the rows m: slices of its own, each once.
Fits(kept, m, r) ==
  /\ DOMAIN kept = DOMAIN m
  /\ \A i \in DOMAIN m : kept[i] # None =>
       kept[i] \in Slices /\ \A q \in Live \ {r} : \A j \in DOMAIN data[q] : kept[i] # data[q][j]
  /\ \A i, j \in DOMAIN m : kept[i] # None /\ kept[i] = kept[j] => i = j

\* What is collected is what no name holds: the matrices held keep their rows, and the
\* rows their elements.
LEMMA KeepKeeps ==
  ASSUME NEW h \in [Names -> Refs \cup {None}],
         NEW d, d = [r \in Refs |-> d[r]], NEW s, s = [i \in Slices |-> s[i]], Keep(h, d, s),
         \A r \in {h[x] : x \in Names} \ {None} : \A i \in DOMAIN d[r] : d[r][i] \in Slices
  PROVE  /\ held' = h /\ data' = [r \in Refs |-> data'[r]] /\ slices' = [i \in Slices |-> slices'[i]]
         /\ \A r \in Live' : /\ r \in Refs /\ r \in {h[x] : x \in Names} \ {None} /\ data'[r] = d[r]
                             /\ Values(data'[r], slices') = Values(d[r], s)
<1> DEFINE live == {h[x] : x \in Names} \ {None}
           rows == UNION {Range(d[r]) : r \in live}
<1>1. /\ held' = h
      /\ data' = [r \in Refs |-> IF r \in live THEN d[r] ELSE <<>>]
      /\ slices' = [i \in Slices |-> IF i \in rows THEN s[i] ELSE <<>>]
  BY DEF Keep
<1>2. Live' = live /\ live \subseteq Refs
  BY <1>1 DEF Live
<1>3. ASSUME NEW r \in live PROVE data'[r] = d[r] /\ Values(data'[r], slices') = Values(d[r], s)
  <2>1. data'[r] = d[r]
    BY <1>1, <1>2, <1>3
  <2>2. ASSUME NEW i \in DOMAIN d[r] PROVE slices'[d[r][i]] = s[d[r][i]]
    <3>1. d[r][i] \in Slices /\ d[r][i] \in rows
      BY <1>3 DEF Range
    <3> HIDE DEF rows
    <3> QED BY <1>1, <3>1
  <2> QED BY <2>1, <2>2 DEF Values
<1> QED BY <1>1, <1>2, <1>3

\* A matrix whose rows are rebuilt shares none with another, which stays what it was.
LEMMA Rebuilt ==
  ASSUME HeapInv, NEW h \in [Names -> Refs \cup {None}], NEW r \in Refs, \A z \in Names : h[z] = held[z] \/ h[z] = r,
         NEW m, IsGrid(m), NEW kept, Fits(kept, m, r), Rebuild(h, r, m, kept), failed' = failed
  PROVE  /\ HeapInv' /\ held' = h
         /\ \A q \in Live' \ {r} : q \in Live /\ Values(data'[q], slices') = Values(data[q], slices)
         /\ r \in Live' => Values(data'[r], slices') = m
<1> DEFINE others == UNION {Range(data[h[y]]) : y \in {z \in Names : h[z] \notin {None, r}}}
           new == {i \in DOMAIN m : kept[i] = None}
           free == Slices \ (others \cup Range(kept))
           fresh == CHOOSE f \in Injection(new, free) : TRUE
           ids == [i \in DOMAIN m |-> IF i \in new THEN fresh[i] ELSE kept[i]]
           d == [data EXCEPT ![r] = ids]
           s == [t \in Slices |-> IF t \in Range(ids) THEN m[CHOOSE i \in DOMAIN m : ids[i] = t] ELSE slices[t]]
           live == {h[x] : x \in Names} \ {None}
<1>1. Cardinality(new) <= Cardinality(free) /\ Keep(h, d, s)
  BY DEF Rebuild
<1>2. DOMAIN m = 1 .. Rows(m) /\ Rows(m) \in Nat /\ m = [i \in DOMAIN m |-> m[i]]
  BY GridHasShape DEF HasShape
<1>3. fresh \in Injection(new, free)
  <2>1. IsFiniteSet(new)
    <3>1. PICK n \in Nat : n = Rows(m)
      BY <1>2
    <3>2. IsFiniteSet(1 .. n)
      BY FS_Interval
    <3>3. new \subseteq 1 .. n
      BY <1>2, <3>1
    <3> HIDE DEF new
    <3> QED BY <3>2, <3>3, FS_Subset
  <2>2. IsFiniteSet(free)
    BY HeapAssumption, FS_Subset
  <2> HIDE DEF new, free
  <2>3. \E f \in Injection(new, free) : TRUE
    BY <1>1, <2>1, <2>2, RoomForRows
  <2> QED BY <2>3
<1>4. /\ \A i \in new : fresh[i] \in free
      /\ \A i, j \in new : fresh[i] = fresh[j] => i = j
  BY <1>3 DEF Injection, IsInjective
<1>5. \A q \in live \ {r} : q \in Live
  BY DEF Live
<1>6. \A q \in live \ {r} : \A j \in DOMAIN data[q] : data[q][j] \in others
  BY DEF Range
<1>7. \A i \in DOMAIN m : kept[i] \in Range(kept) /\ (i \notin new => kept[i] # None)
  BY DEF Fits, Range
<1> HIDE DEF fresh
<1>8. DOMAIN ids = DOMAIN m /\ \A i \in DOMAIN m : ids[i] = IF i \in new THEN fresh[i] ELSE kept[i]
  OBVIOUS
<1>9. new \subseteq DOMAIN m /\ free \subseteq Slices /\ \A t \in free : t \notin others /\ t \notin Range(kept)
  OBVIOUS
<1>10. ids = [i \in DOMAIN ids |-> ids[i]]
  OBVIOUS
<1> HIDE DEF new, free, ids
<1>11. ASSUME NEW i \in DOMAIN m
       PROVE ids[i] \in Slices /\ \A q \in live \ {r} : \A j \in DOMAIN data[q] : ids[i] # data[q][j]
  <2>1. CASE i \in new
    <3>1. ids[i] \in free
      BY <1>4, <1>8, <2>1
    <3> HIDE DEF others, live
    <3> QED BY <1>6, <1>9, <3>1
  <2>2. CASE i \notin new
    <3>1. ids[i] = kept[i] /\ kept[i] # None
      BY <1>7, <1>8, <2>2
    <3> HIDE DEF live
    <3> QED BY <1>5, <3>1 DEF Fits
  <2> QED BY <2>1, <2>2
<1>12. ASSUME NEW i \in DOMAIN m, NEW j \in DOMAIN m, ids[i] = ids[j] PROVE i = j
  <2>1. CASE i \in new /\ j \in new
    BY <1>4, <1>8, <1>12, <2>1
  <2>2. CASE i \notin new /\ j \notin new
    <3>1. kept[i] # None /\ kept[i] = kept[j]
      BY <1>7, <1>8, <1>12, <2>2
    <3> QED BY <3>1 DEF Fits
  <2>3. CASE (i \in new /\ j \notin new) \/ (i \notin new /\ j \in new)
    BY <1>4, <1>7, <1>8, <1>9, <1>12, <2>3
  <2> QED BY <2>1, <2>2, <2>3
<1>13. Distinct(ids)
  BY <1>8, <1>10, <1>11, <1>12 DEF Distinct
<1>14. /\ d = [q \in Refs |-> d[q]] /\ d[r] = ids /\ \A q \in Refs \ {r} : d[q] = data[q]
  BY DEF HeapInv
<1>15. s = [t \in Slices |-> s[t]]
  OBVIOUS
<1>16. Values(ids, s) = m
  <2>1. ASSUME NEW i \in DOMAIN m PROVE s[ids[i]] = m[i]
    <3>1. ids[i] \in Slices /\ ids[i] \in Range(ids)
      BY <1>8, <1>11 DEF Range
    <3>2. (CHOOSE k \in DOMAIN m : ids[k] = ids[i]) = i
      BY <1>12
    <3> QED BY <3>1, <3>2
  <2> HIDE DEF s
  <2> QED BY <1>2, <1>8, <2>1 DEF Values
<1>17. ASSUME NEW q \in live \ {r} PROVE Values(data[q], s) = Values(data[q], slices)
  <2>1. q \in Live /\ Distinct(data[q])
    BY <1>5, <1>17 DEF HeapInv
  <2>2. ASSUME NEW j \in DOMAIN data[q] PROVE s[data[q][j]] = slices[data[q][j]]
    <3>1. data[q][j] \in Slices
      BY <2>1 DEF Distinct
    <3>2. data[q][j] \notin Range(ids)
      BY <1>8, <1>11, <1>17 DEF Range
    <3> QED BY <3>1, <3>2
  <2> HIDE DEF s, live
  <2> QED BY <2>2 DEF Values
<1> HIDE DEF d, s
<1>18. live \subseteq Refs /\ live = {h[x] : x \in Names} \ {None}
  OBVIOUS
<1>19. \A q \in live : Distinct(d[q])
  BY <1>5, <1>13, <1>14, <1>18 DEF HeapInv
<1>20. \A q \in live : \A i \in DOMAIN d[q] : d[q][i] \in Slices
  BY <1>19 DEF Distinct
<1>21. /\ held' = h /\ data' = [q \in Refs |-> data'[q]] /\ slices' = [i \in Slices |-> slices'[i]]
       /\ \A q \in Live' : /\ q \in Refs /\ q \in live /\ data'[q] = d[q]
                           /\ Values(data'[q], slices') = Values(d[q], s)
  BY <1>1, <1>14, <1>15, <1>18, <1>20, KeepKeeps
<1> HIDE DEF live
<1>22. \A q \in Live' \ {r} : q \in Live /\ Values(data'[q], slices') = Values(data[q], slices)
  BY <1>5, <1>14, <1>17, <1>21
<1>23. r \in Live' => Values(data'[r], slices') = m
  BY <1>14, <1>16, <1>21
<1>24. \A q \in Live' : Distinct(data'[q]) /\ IsGrid(Values(data'[q], slices'))
  BY <1>19, <1>21, <1>22, <1>23 DEF HeapInv
<1>25. ASSUME NEW p \in Live', NEW q \in Live', p # q PROVE Apart(data'[p], data'[q])
  <2>1. CASE p = r
    BY <1>8, <1>11, <1>14, <1>21, <1>25, <2>1 DEF Apart
  <2>2. CASE q = r
    BY <1>8, <1>11, <1>14, <1>21, <1>25, <2>2 DEF Apart
  <2>3. CASE p # r /\ q # r
    <3>1. p \in Live /\ q \in Live /\ data'[p] = data[p] /\ data'[q] = data[q]
      BY <1>14, <1>21, <1>22, <2>3
    <3> QED BY <1>25, <3>1 DEF HeapInv
  <2> QED BY <2>1, <2>2, <2>3
<1>26. HeapInv'
  BY <1>21, <1>24, <1>25 DEF HeapInv
<1> QED BY <1>21, <1>22, <1>23, <1>26

-----------------------------------------------------------------------------
(* Every step is one of MatrixHeap. *)

\* The value a name holds is a matrix, which the checks of the builtins find it to be.
LEMMA HeldIsGrid ==
  ASSUME HeapInv, NEW x \in Names, held[x] # None
  PROVE  /\ held[x] \in Live /\ held[x] \in Refs /\ IsGrid(ValueOf(x)) /\ Distinct(data[held[x]])
         /\ DOMAIN data[held[x]] = 1 .. Rows(ValueOf(x)) /\ Rows(ValueOf(x)) \in Nat /\ Cols(ValueOf(x)) \in Nat
<1>1. held[x] \in Live /\ held[x] \in Refs
  BY DEF HeapInv, Live
<1>2. IsGrid(ValueOf(x)) /\ Distinct(data[held[x]])
  BY <1>1 DEF HeapInv, ValueOf
<1>3. DOMAIN data[held[x]] = DOMAIN ValueOf(x)
  BY DEF ValueOf, Values
<1> QED BY <1>1, <1>2, <1>3, GridHasShape

\* The invariant is what MatrixHeap asks of every state.
LEMMA HeapIsTyped ==
  ASSUME HeapInv PROVE Separate!TypeOK
<1>1. \A r \in Live : IsRect(ValuesHeld[r])
  BY GridHasShape DEF HeapInv, ValuesHeld, Live
<1> QED BY <1>1 DEF HeapInv, Live, ValuesHeld, Separate!TypeOK, Separate!Live

\* A builtin that returns an error changes nothing.
LEMMA ErrorIsFail ==
  ASSUME HeapInv, Error PROVE HeapInv' /\ Separate!Fail
<1>1. HeapInv'
  BY DEF HeapInv, Error, Live
<1>2. ValuesHeld' = ValuesHeld
  BY DEF Error, ValuesHeld, Values
<1> QED BY <1>1, <1>2 DEF Error, Separate!Fail

\* A new matrix is one that no other name holds, and no other matrix changes.
LEMMA MakeImplements ==
  ASSUME HeapInv, NEW x \in Names, NEW m, IsGrid(m), Make(x, m)
  PROVE  HeapInv' /\ Separate!Make(x)
<1>1. PICK r : r = Min(Refs \ {held[y] : y \in Names \ {x}})
  OBVIOUS
<1>2. r \in Refs \ {held[y] : y \in Names \ {x}}
  BY <1>1, RoomForMatrix
<1>3. PICK h : h = [held EXCEPT ![x] = r]
  OBVIOUS
<1>4. h \in [Names -> Refs \cup {None}] /\ \A z \in Names : h[z] = held[z] \/ h[z] = r
  BY <1>2, <1>3 DEF HeapInv
<1>5. Rebuild(h, r, m, NewRows(m)) /\ failed' = failed
  BY <1>1, <1>3 DEF Make
<1>6. Fits(NewRows(m), m, r)
  BY DEF Fits, NewRows
<1>7. /\ HeapInv' /\ held' = h
      /\ \A q \in Live' \ {r} : q \in Live /\ Values(data'[q], slices') = Values(data[q], slices)
  BY <1>2, <1>4, <1>5, <1>6, Rebuilt
<1>8. held'[x] = r
  BY <1>3, <1>7 DEF HeapInv
<1>9. \A q \in Live \ {r} : q \in Live' => ValuesHeld'[q] = ValuesHeld[q]
  BY <1>7 DEF ValuesHeld, Live
<1> QED BY <1>2, <1>3, <1>5, <1>7, <1>8, <1>9
        DEF Separate!Make, Separate!Unchanged, Separate!Live, Live

\* A builtin that writes changes the matrix it is given, for every name that holds it.
LEMMA ReplaceImplements ==
  ASSUME HeapInv, NEW x \in Names, held[x] # None, NEW m, IsGrid(m),
         NEW kept, Fits(kept, m, held[x]), Replace(x, m, kept)
  PROVE  HeapInv' /\ Separate!Change(x)
<1>1. held[x] \in Refs /\ held \in [Names -> Refs \cup {None}]
  BY HeldIsGrid DEF HeapInv
<1>2. Rebuild(held, held[x], m, kept) /\ failed' = failed
  BY DEF Replace
<1>3. /\ HeapInv' /\ held' = held
      /\ \A q \in Live' \ {held[x]} : q \in Live /\ Values(data'[q], slices') = Values(data[q], slices)
  BY <1>1, <1>2, Rebuilt
<1>4. \A q \in Live \ {held[x]} : q \in Live' => ValuesHeld'[q] = ValuesHeld[q]
  BY <1>3 DEF ValuesHeld, Live
<1> QED BY <1>2, <1>3, <1>4 DEF Separate!Change, Separate!Unchanged, Separate!Live, Live

LEMMA WriteImplements ==
  ASSUME HeapInv, NEW x \in Names, held[x] # None, NEW m, IsGrid(m), Rows(m) = Rows(ValueOf(x)), Write(x, m)
  PROVE  HeapInv' /\ Separate!Change(x)
<1>1. PICK kept : kept = data[held[x]]
  OBVIOUS
<1>2. DOMAIN kept = DOMAIN m /\ Distinct(kept) /\ held[x] \in Live
  BY <1>1, HeldIsGrid, GridHasShape
<1>3. \A q \in Live \ {held[x]} : Apart(kept, data[q])
  BY <1>1, <1>2 DEF HeapInv
<1>4. Fits(kept, m, held[x])
  BY <1>2, <1>3 DEF Fits, Distinct, Apart
<1>5. Replace(x, m, kept)
  BY <1>1 DEF Write, Replace
<1> QED BY <1>4, <1>5, ReplaceImplements

\* An assignment shares the matrix itself.
LEMMA AssignImplements ==
  ASSUME HeapInv, NEW x \in Names, NEW y \in Names, Assign(x, y)
  PROVE  HeapInv' /\ Separate!Name(x)
<1>1. PICK h : h = [held EXCEPT ![x] = held[y]]
  OBVIOUS
<1>2. h \in [Names -> Refs \cup {None}] /\ \A r \in {h[z] : z \in Names} \ {None} : r \in Live
  BY <1>1 DEF HeapInv, Live
<1>3. Keep(h, data, slices) /\ failed' = failed
  BY <1>1 DEF Assign
<1>4. /\ held' = h /\ data' = [r \in Refs |-> data'[r]] /\ slices' = [i \in Slices |-> slices'[i]]
      /\ \A r \in Live' : /\ r \in Refs /\ r \in {h[z] : z \in Names} \ {None} /\ data'[r] = data[r]
                          /\ Values(data'[r], slices') = Values(data[r], slices)
  <2>1. data = [r \in Refs |-> data[r]] /\ slices = [i \in Slices |-> slices[i]]
    BY DEF HeapInv
  <2>2. \A r \in {h[z] : z \in Names} \ {None} : \A i \in DOMAIN data[r] : data[r][i] \in Slices
    BY <1>2 DEF HeapInv, Distinct
  <2> QED BY <1>2, <1>3, <2>1, <2>2, KeepKeeps
<1>5. HeapInv'
  BY <1>2, <1>3, <1>4 DEF HeapInv
<1>6. \A q \in Live : q \in Live' => ValuesHeld'[q] = ValuesHeld[q]
  BY <1>4 DEF ValuesHeld, Live
<1> QED BY <1>1, <1>3, <1>4, <1>5, <1>6 DEF Separate!Name, Separate!Unchanged, Separate!Live, Live

\* What a builtin called for x may do.
Serves(x) ==
  HeapInv' /\ (Separate!Fail \/ Separate!Name(x) \/ Separate!Make(x) \/ Separate!Change(x))

\* The builtins that make a matrix of sizes or of another one.
LEMMA MakersServe ==
  ASSUME HeapInv, NEW x \in Names, NEW y \in Names, NEW i \in Int, NEW j \in Int, NEW v,
         NEW rows, NEW cols,
         New(x, i, j, v) \/ Copy(x, y) \/ (rows \in Spans /\ cols \in Spans /\ Sub(x, y, rows, cols))
  PROVE  Serves(x)
<1>1. CASE Error
  BY <1>1, ErrorIsFail DEF Serves
<1>2. ASSUME New(x, i, j, v), ~ Error PROVE Serves(x)
  <2>1. i \in Nat /\ j \in Nat /\ Make(x, NewMatrix(i, j, v))
    BY <1>2 DEF New, Checked
  <2> QED BY <2>1, NewMatrixIsGrid, MakeImplements DEF Serves
<1>3. ASSUME Copy(x, y), ~ Error PROVE Serves(x)
  <2>1. held[y] # None /\ Make(x, ValueOf(y))
    BY <1>3 DEF Copy, Checked, IsMatrix
  <2> QED BY <2>1, HeldIsGrid, MakeImplements DEF Serves
<1>4. ASSUME rows \in Spans, cols \in Spans, Sub(x, y, rows, cols), ~ Error PROVE Serves(x)
  <2>1. InBounds(ValueOf(y), rows, cols) /\ Make(x, Submatrix(ValueOf(y), rows, cols))
    BY <1>4 DEF Sub, Checked
  <2>2. /\ rows[1] \in Int /\ rows[2] \in Int /\ cols[1] \in Int /\ cols[2] \in Int
    BY <1>4, ArgumentAssumption
  <2>3. rows[2] - rows[1] \in Nat /\ cols[2] - cols[1] \in Nat
    BY <2>1, <2>2 DEF InBounds
  <2> QED BY <2>1, <2>3, SubmatrixIsGrid, MakeImplements DEF Serves
<1> QED BY <1>1, <1>2, <1>3, <1>4

\* The builtins that write into the rows of a matrix.
LEMMA WritersServe ==
  ASSUME HeapInv, NEW x \in Names, NEW i \in Int, NEW j \in Int, NEW v, NEW rows, NEW cols,
         Set(x, i, j, v) \/ Fill(x, v, rows, cols) \/ RemoveCol(x, i) \/ SwapCols(x, i, j) \/ Reorder(x)
  PROVE  Serves(x)
<1>1. CASE Error
  BY <1>1, ErrorIsFail DEF Serves
<1>2. CASE held[x] # None
  <2>1. PICK m : m = ValueOf(x)
    OBVIOUS
  <2>2. IsGrid(m) /\ Rows(m) \in Nat /\ Cols(m) \in Nat
    BY <1>2, <2>1, HeldIsGrid
  <2>3. ASSUME NEW w, IsGrid(w), Rows(w) = Rows(m), Write(x, w) PROVE Serves(x)
    BY <1>2, <2>1, <2>3, WriteImplements DEF Serves
  <2>4. ASSUME Set(x, i, j, v), ~ Error PROVE Serves(x)
    <3>1. Write(x, [m EXCEPT ![i + 1][j + 1] = v])
      BY <2>1, <2>4 DEF Set, Checked
    <3> QED BY <2>2, <2>3, <3>1, ElementSetIsGrid
  <2>5. ASSUME Fill(x, v, rows, cols), ~ Error PROVE Serves(x)
    <3>1. Write(x, FilledRange(m, v, rows, cols))
      BY <2>1, <2>5 DEF Fill, Checked
    <3> QED BY <2>2, <2>3, <3>1, FilledIsGrid
  <2>6. ASSUME RemoveCol(x, i), ~ Error PROVE Serves(x)
    <3>1. i \in 0 .. Cols(m) - 1 /\ Write(x, ColRemoved(m, i))
      BY <2>1, <2>6 DEF RemoveCol, Checked
    <3> QED BY <2>2, <2>3, <3>1, ColRemovedIsGrid
  <2>7. ASSUME SwapCols(x, i, j), ~ Error PROVE Serves(x)
    <3>1. Write(x, ColsSwapped(m, i, j))
      BY <2>1, <2>7 DEF SwapCols, Checked
    <3> QED BY <2>2, <2>3, <3>1, ColsSwappedIsGrid
  <2>8. ASSUME Reorder(x), ~ Error PROVE Serves(x)
    <3>1. PICK flat : Write(x, Shaped(flat, Rows(m), Cols(m)))
      BY <2>1, <2>8 DEF Reorder, Checked, Reversed, Sorted, Refilled
    <3> QED BY <2>2, <2>3, <3>1, ShapedIsGrid
  <2> QED BY <1>1, <2>4, <2>5, <2>6, <2>7, <2>8
<1>3. CASE held[x] = None
  BY <1>1, <1>3 DEF Set, Fill, RemoveCol, SwapCols, Reorder, Checked, IsMatrix
<1> QED BY <1>2, <1>3

\* No slice is kept where every row is new.
LEMMA NewRowsFit ==
  ASSUME NEW m, NEW r PROVE Fits(NewRows(m), m, r)
BY DEF Fits, NewRows

\* The builtins that replace or reorder the rows.
LEMMA ReplacersServe ==
  ASSUME HeapInv, NEW x \in Names, NEW i \in Int, NEW j \in Int,
         NEW k \in Nat, NEW list, list = [c \in 1 .. k |-> list[c]],
         \/ Reshape(x, i, j) \/ SwapRows(x, i, j) \/ RemoveRow(x, i)
         \/ AddRow(x, i, list) \/ AddCol(x, i, list)
  PROVE  Serves(x)
<1>1. CASE Error
  BY <1>1, ErrorIsFail DEF Serves
<1>2. CASE held[x] # None
  <2>1. PICK m, ids : m = ValueOf(x) /\ ids = data[held[x]]
    OBVIOUS
  <2>2. IsGrid(m) /\ Cols(m) \in Nat /\ Distinct(ids)
    BY <1>2, <2>1, HeldIsGrid
  <2>3. PICK n \in Nat : n = Rows(m) /\ DOMAIN ids = 1 .. n
    BY <1>2, <2>1, HeldIsGrid
  <2>4. ids = [p \in 1 .. n |-> ids[p]] /\ DOMAIN m = 1 .. n
    BY <2>2, <2>3, GridHasShape DEF Distinct
  \* A slice of its own is no other matrix's.
  <2>5. ASSUME NEW p \in 1 .. n
        PROVE  ids[p] \in Slices /\ \A q \in Live \ {held[x]} : \A c \in DOMAIN data[q] : ids[p] # data[q][c]
    <3>1. held[x] \in Live
      BY <1>2, HeldIsGrid
    <3>2. \A q \in Live \ {held[x]} : Apart(ids, data[q])
      BY <2>1, <3>1 DEF HeapInv
    <3> QED BY <2>2, <2>3, <3>2 DEF Distinct, Apart
  <2>6. \A p, q \in 1 .. n : ids[p] = ids[q] => p = q
    BY <2>2, <2>3 DEF Distinct
  <2>7. ASSUME NEW w, IsGrid(w), NEW kept, Fits(kept, w, held[x]), Replace(x, w, kept) PROVE Serves(x)
    BY <1>2, <2>7, ReplaceImplements DEF Serves
  <2>8. ASSUME Reshape(x, i, j), ~ Error PROVE Serves(x)
    <3>1. PICK w : w = Shaped(Flatten(m), i, j)
      OBVIOUS
    <3>2. i \in Nat /\ j \in Nat /\ Replace(x, w, NewRows(w))
      BY <2>1, <2>8, <3>1 DEF Reshape, Checked
    <3> QED BY <2>7, <3>1, <3>2, ShapedIsGrid, NewRowsFit
  <2>9. ASSUME SwapRows(x, i, j), ~ Error PROVE Serves(x)
    <3>1. PICK a \in 1 .. n, b \in 1 .. n : a = i + 1 /\ b = j + 1
      BY <2>1, <2>3, <2>9 DEF SwapRows, Checked
    <3>2. PICK w, kept : w = RowsSwapped(m, a, b) /\ kept = RowsSwapped(ids, a, b)
      OBVIOUS
    <3>3. Replace(x, w, kept)
      BY <2>1, <2>9, <3>1, <3>2 DEF SwapRows, Checked
    <3>4. kept = [p \in 1 .. n |-> IF p = b THEN ids[a] ELSE IF p = a THEN ids[b] ELSE ids[p]]
      BY <2>4, <3>2 DEF RowsSwapped
    <3>5. IsGrid(w) /\ DOMAIN w = 1 .. n
      BY <2>2, <2>3, <3>2, RowsSwappedIsGrid, GridHasShape
    <3>6. ASSUME NEW p \in 1 .. n
          PROVE  kept[p] \in Slices /\ \A q \in Live \ {held[x]} : \A c \in DOMAIN data[q] : kept[p] # data[q][c]
      <4>1. PICK t \in 1 .. n : kept[p] = ids[t]
        BY <3>4
      <4> QED BY <2>5, <4>1
    <3>7. \A p, q \in 1 .. n : kept[p] = kept[q] => p = q
      BY <2>6, <3>4
    <3>8. Fits(kept, w, held[x])
      BY <3>4, <3>5, <3>6, <3>7 DEF Fits
    <3> QED BY <2>7, <3>3, <3>5, <3>8
  <2>10. ASSUME RemoveRow(x, i), ~ Error PROVE Serves(x)
    <3>1. PICK a \in 1 .. n : a = i + 1
      BY <2>1, <2>3, <2>10 DEF RemoveRow, Checked
    <3>2. PICK w, kept : w = RemoveAt(m, a) /\ kept = RemoveAt(ids, a)
      OBVIOUS
    <3>3. Replace(x, w, kept) /\ i \in 0 .. Rows(m) - 1
      BY <2>1, <2>10, <3>1, <3>2 DEF RemoveRow, Checked
    <3>4. kept = [p \in 1 .. n - 1 |-> IF p < a THEN ids[p] ELSE ids[p + 1]]
      BY <2>4, <3>2, RemoveAtIs
    <3>5. IsGrid(w) /\ DOMAIN w = 1 .. n - 1
      BY <2>2, <2>3, <3>1, <3>2, <3>3, RowRemovedIsGrid, GridHasShape
    <3>6. ASSUME NEW p \in 1 .. n - 1
          PROVE  kept[p] \in Slices /\ \A q \in Live \ {held[x]} : \A c \in DOMAIN data[q] : kept[p] # data[q][c]
      <4>1. PICK t \in 1 .. n : kept[p] = ids[t]
        BY <3>4
      <4> QED BY <2>5, <4>1
    <3>7. ASSUME NEW p \in 1 .. n - 1, NEW q \in 1 .. n - 1, kept[p] = kept[q] PROVE p = q
      <4>1. PICK t \in 1 .. n : t = IF p < a THEN p ELSE p + 1
        OBVIOUS
      <4>2. PICK u \in 1 .. n : u = IF q < a THEN q ELSE q + 1
        OBVIOUS
      <4>3. kept[p] = ids[t] /\ kept[q] = ids[u]
        BY <3>4, <4>1, <4>2
      <4>4. t = u
        BY <2>6, <3>7, <4>3
      <4> QED BY <4>1, <4>2, <4>4
    <3>8. Fits(kept, w, held[x])
      BY <3>4, <3>5, <3>6, <3>7 DEF Fits
    <3> QED BY <2>7, <3>3, <3>5, <3>8
  <2>11. ASSUME AddRow(x, i, list), ~ Error PROVE Serves(x)
    <3>1. /\ i \in 0 .. Rows(m) /\ (m # <<>> => Len(list) = Cols(m))
          /\ Replace(x, InsertAt(m, i + 1, list), InsertAt(ids, i + 1, None))
      BY <2>1, <2>11 DEF AddRow, Checked
    <3>2. PICK a \in 1 .. n + 1 : a = i + 1
      BY <2>3, <3>1
    <3>3. PICK w, kept : w = InsertAt(m, a, list) /\ kept = InsertAt(ids, a, None)
      OBVIOUS
    <3>4. Replace(x, w, kept)
      BY <3>1, <3>2, <3>3
    <3>5. kept = [p \in 1 .. n + 1 |-> IF p < a THEN ids[p] ELSE IF p = a THEN None ELSE ids[p - 1]]
      <4>1. kept = Inserted(ids, n, a, None)
        BY <2>4, <3>3, InsertAtIs
      <4> QED BY <4>1 DEF Inserted
    <3>6. IsGrid(w) /\ DOMAIN w = 1 .. n + 1
      <4>1. Len(list) = k
        OBVIOUS
      <4>2. IsGrid(w) /\ Rows(w) = n + 1
        BY <2>2, <2>3, <3>1, <3>2, <3>3, <4>1, RowAddedIsGrid
      <4> QED BY <4>2, GridHasShape
    <3>7. ASSUME NEW p \in 1 .. n + 1, kept[p] # None
          PROVE  kept[p] \in Slices /\ \A q \in Live \ {held[x]} : \A c \in DOMAIN data[q] : kept[p] # data[q][c]
      <4>1. PICK t \in 1 .. n : kept[p] = ids[t]
        BY <3>5, <3>7
      <4> QED BY <2>5, <4>1
    <3>8. ASSUME NEW p \in 1 .. n + 1, NEW q \in 1 .. n + 1, kept[p] # None, kept[p] = kept[q] PROVE p = q
      <4>1. p # a /\ q # a
        BY <3>5, <3>8
      <4>2. PICK t \in 1 .. n : t = IF p < a THEN p ELSE p - 1
        BY <4>1
      <4>3. PICK u \in 1 .. n : u = IF q < a THEN q ELSE q - 1
        BY <4>1
      <4>4. kept[p] = ids[t] /\ kept[q] = ids[u]
        BY <3>5, <4>1, <4>2, <4>3
      <4>5. t = u
        BY <2>6, <3>8, <4>4
      <4> QED BY <4>1, <4>2, <4>3, <4>5
    <3>9. Fits(kept, w, held[x])
      BY <3>5, <3>6, <3>7, <3>8 DEF Fits
    <3> QED BY <2>7, <3>4, <3>6, <3>9
  <2>12. ASSUME AddCol(x, i, list), ~ Error PROVE Serves(x)
    <3>1. PICK w : w = ColAdded(m, i, list)
      OBVIOUS
    <3>2. (m # <<>> => i \in 0 .. Cols(m)) /\ Replace(x, w, NewRows(w))
      BY <2>1, <2>12, <3>1 DEF AddCol, Checked
    <3>3. IsGrid(w)
      BY <2>2, <3>1, <3>2, ColAddedIsGrid
    <3> QED BY <2>7, <3>2, <3>3, NewRowsFit
  <2> QED BY <1>1, <2>8, <2>9, <2>10, <2>11, <2>12
<1>3. CASE held[x] = None
  BY <1>1, <1>3 DEF Reshape, SwapRows, RemoveRow, AddRow, AddCol, Checked, IsMatrix
<1> QED BY <1>2, <1>3

\* The builtins that make a matrix out of one or two others.
LEMMA CombinersServe ==
  ASSUME HeapInv, NEW x \in Names, NEW y \in Names, NEW z \in Names,
         Combine(x, y, z) \/ Transform(x, y)
  PROVE  Serves(x)
<1>1. CASE Error
  BY <1>1, ErrorIsFail DEF Serves
<1>2. CASE held[y] # None /\ ~ Error
  <2>1. PICK a, b : a = ValueOf(y) /\ b = ValueOf(z)
    OBVIOUS
  <2>2. IsGrid(a) /\ Rows(a) \in Nat /\ Cols(a) \in Nat
    BY <1>2, <2>1, HeldIsGrid
  <2>3. ASSUME NEW w, IsGrid(w), Make(x, w) PROVE Serves(x)
    BY <2>3, MakeImplements DEF Serves
  <2>4. ASSUME Combine(x, y, z) PROVE Serves(x)
    <3>1. /\ held[z] # None
          /\ \/ ConcatFits(a, b) /\ Make(x, Concat(a, b))
             \/ Make(x, Diff(a, b)) \/ Make(x, Mult(a, b)) \/ Make(x, Kron(a, b))
      BY <1>2, <2>1, <2>4 DEF Combine, Checked, IsMatrix
    <3>2. IsGrid(b) /\ Cols(b) \in Nat
      BY <2>1, <3>1, HeldIsGrid
    <3>3. IsGrid(Diff(a, b)) /\ IsGrid(Mult(a, b)) /\ IsGrid(Kron(a, b))
      BY <2>2, <3>2, DiffIsGrid, MultIsGrid, KronIsGrid
    <3>4. ConcatFits(a, b) => IsGrid(Concat(a, b))
      BY <2>2, <3>2, ConcatIsGrid
    <3> QED BY <2>3, <3>1, <3>3, <3>4
  <2>5. ASSUME Transform(x, y) PROVE Serves(x)
    <3>1. \/ Make(x, Transpose(a))
          \/ \E p \in Powers : IsSquare(a) /\ Make(x, Pow(a, p))
          \/ Inv(a) # Singular /\ Make(x, Inv(a))
          \/ Pinv(a) # Singular /\ Make(x, Pinv(a))
      BY <1>2, <2>1, <2>5 DEF Transform, Checked
    <3>2. CASE Make(x, Transpose(a))
      BY <2>2, <2>3, <3>2, TransposeIsGrid
    <3>3. ASSUME NEW p \in Powers, IsSquare(a), Make(x, Pow(a, p)) PROVE Serves(x)
      BY <2>2, <2>3, <3>3, PowIsGrid
    <3>4. CASE Inv(a) # Singular /\ Make(x, Inv(a))
      BY <2>2, <2>3, <3>4, InvIsGrid
    <3>5. CASE Pinv(a) # Singular /\ Make(x, Pinv(a))
      BY <2>2, <2>3, <3>5, PinvIsGrid
    <3> QED BY <3>1, <3>2, <3>3, <3>4, <3>5
  <2> QED BY <2>4, <2>5
<1>3. CASE held[y] = None
  BY <1>1, <1>3 DEF Combine, Transform, Checked, IsMatrix
<1> QED BY <1>1, <1>2, <1>3

\* At the start one name holds a matrix of the inputs.
LEMMA StartsAsHeap == Init => HeapInv /\ ~failed
<1> SUFFICES ASSUME Init PROVE HeapInv /\ ~failed
  OBVIOUS
<1>0. PICK first, r : first = (CHOOSE x \in Names : TRUE) /\ r = Min(Refs)
  OBVIOUS
<1>1. PICK m \in Inputs :
        /\ r = Min(Refs) /\ held = [y \in Names |-> IF y = first THEN r ELSE None]
        /\ data = [q \in Refs |-> IF q = r THEN [i \in 1 .. Rows(m) |-> i] ELSE <<>>]
        /\ slices = [s \in Slices |-> IF s \in 1 .. Rows(m) THEN m[s] ELSE <<>>]
        /\ failed = FALSE
  BY <1>0 DEF Init
<1>2. IsGrid(m) /\ DOMAIN m = 1 .. Rows(m) /\ m = [i \in 1 .. Rows(m) |-> m[i]] /\ 1 .. Rows(m) \subseteq Slices
  BY InputAssumption, GridHasShape DEF HasShape
<1>3. Names # {} => r \in Refs
  <2> SUFFICES ASSUME NEW x \in Names PROVE r \in Refs
    OBVIOUS
  <2>1. Refs # {}
    BY RoomForMatrix
  <2>2. PICK q \in Refs : \A p \in Refs : q <= p
    BY <2>1, HeapAssumption, LeastNatural
  <2> QED BY <1>1, <2>2 DEF Min
<1>4. Live \subseteq {r} /\ (Live # {} => r \in Refs)
  BY <1>1, <1>3 DEF Live
<1>5. ASSUME r \in Refs PROVE Distinct(data[r]) /\ Values(data[r], slices) = m
  <2>1. data[r] = [i \in 1 .. Rows(m) |-> i]
    BY <1>1, <1>5
  <2>2. \A i \in 1 .. Rows(m) : slices[i] = m[i]
    BY <1>1, <1>2
  <2>3. Distinct(data[r])
    BY <1>2, <2>1 DEF Distinct
  <2>4. Values(data[r], slices) = m
    BY <1>2, <2>1, <2>2 DEF Values
  <2> QED BY <2>3, <2>4
<1>6. held \in [Names -> Refs \cup {None}]
  BY <1>1, <1>3
<1> QED BY <1>1, <1>2, <1>4, <1>5, <1>6 DEF HeapInv

\* The matrices of a script keep their promise: a step changes the one matrix it is given
\* or makes a new one, names share a matrix only by assignment, every matrix stays
\* rectangular, and a call that fails changes nothing (matrix.go, callMatrixBuiltin).
THEOREM MatricesAreSeparate == Spec => IsHeap
<1>1. Init => HeapInv /\ Separate!Init
  <2>1. ASSUME HeapInv, ~failed PROVE Separate!Init
    BY <2>1, HeapIsTyped DEF Separate!Init
  <2> QED BY <2>1, StartsAsHeap
<1>2. HeapInv => Separate!TypeOK
  BY HeapIsTyped
<1>3. HeapInv' => Separate!TypeOK'
  BY <1>2, PTL
<1>4. ASSUME HeapInv, Next PROVE \E x \in Names : Serves(x)
  <2>1. PICK x \in Names :
          \/ \E i, j \in Indices, v \in Elements :
               New(x, i, j, v) \/ Set(x, i, j, v) \/ Reshape(x, i, j) \/ SwapRows(x, i, j) \/ SwapCols(x, i, j)
          \/ \E rows, cols \in Spans, v \in Elements : Fill(x, v, rows, cols)
          \/ \E i \in Indices :
               \/ RemoveRow(x, i) \/ RemoveCol(x, i)
               \/ \E list \in Lists(MaxRows) : AddRow(x, i, list) \/ AddCol(x, i, list)
          \/ Reorder(x)
          \/ \E y \in Names :
               \/ Assign(x, y) \/ Copy(x, y) \/ Transform(x, y)
               \/ \E rows, cols \in Spans : Sub(x, y, rows, cols)
               \/ \E z \in Names : Combine(x, y, z)
    BY <1>4 DEF Next
  <2>2. ASSUME NEW i \in Indices, NEW j \in Indices, NEW v,
               New(x, i, j, v) \/ Set(x, i, j, v) \/ Reshape(x, i, j) \/ SwapRows(x, i, j) \/ SwapCols(x, i, j)
        PROVE  Serves(x)
    <3>1. i \in Int /\ j \in Int
      BY IndicesAreIntegers
    <3>2. CASE New(x, i, j, v)
      BY <1>4, <3>1, <3>2, MakersServe
    <3>3. CASE Set(x, i, j, v) \/ SwapCols(x, i, j)
      BY <1>4, <3>1, <3>3, WritersServe
    <3>4. CASE Reshape(x, i, j) \/ SwapRows(x, i, j)
      <4>1. PICK list : list = [c \in 1 .. 0 |-> 0]
        OBVIOUS
      <4>2. list = [c \in 1 .. 0 |-> list[c]]
        BY <4>1
      <4> HIDE <4>1
      <4> QED BY <1>4, <3>1, <3>4, <4>2, ReplacersServe
    <3> QED BY <2>2, <3>2, <3>3, <3>4
  <2>3. ASSUME NEW v, NEW rows, NEW cols, Fill(x, v, rows, cols) PROVE Serves(x)
    BY <1>4, <2>3, WritersServe
  <2>4. CASE Reorder(x)
    BY <1>4, <2>4, WritersServe
  <2>5. ASSUME NEW i \in Indices, RemoveCol(x, i) PROVE Serves(x)
    BY <1>4, <2>5, IndicesAreIntegers, WritersServe
  <2>6. ASSUME NEW i \in Indices, RemoveRow(x, i) PROVE Serves(x)
    <3>1. i \in Int
      BY IndicesAreIntegers
    <3>2. PICK list : list = [c \in 1 .. 0 |-> 0]
      OBVIOUS
    <3>3. list = [c \in 1 .. 0 |-> list[c]]
      BY <3>2
    <3> HIDE <3>2
    <3> QED BY <1>4, <2>6, <3>1, <3>3, ReplacersServe
  <2>7. ASSUME NEW i \in Indices, NEW list \in Lists(MaxRows), AddRow(x, i, list) \/ AddCol(x, i, list)
        PROVE  Serves(x)
    <3>1. i \in Int
      BY IndicesAreIntegers
    <3>2. PICK k \in Nat : list = [c \in 1 .. k |-> list[c]]
      BY DEF Lists
    <3> QED BY <1>4, <2>7, <3>1, <3>2, ReplacersServe
  <2>8. ASSUME NEW y \in Names, Assign(x, y) PROVE Serves(x)
    BY <1>4, <2>8, AssignImplements DEF Serves
  <2>9. ASSUME NEW y \in Names, Copy(x, y) PROVE Serves(x)
    BY <1>4, <2>9, MakersServe
  <2>10. ASSUME NEW y \in Names, NEW rows \in Spans, NEW cols \in Spans, Sub(x, y, rows, cols) PROVE Serves(x)
    BY <1>4, <2>10, MakersServe
  <2>11. ASSUME NEW y \in Names, NEW z \in Names, Transform(x, y) \/ Combine(x, y, z) PROVE Serves(x)
    BY <1>4, <2>11, CombinersServe
  <2> QED BY <2>1, <2>2, <2>3, <2>4, <2>5, <2>6, <2>7, <2>8, <2>9, <2>10, <2>11
<1>5. HeapInv /\ [Next]_vars => HeapInv' /\ [Separate!Next]_<<held, ValuesHeld, failed>>
  <2> SUFFICES ASSUME HeapInv, [Next]_vars
               PROVE  HeapInv' /\ [Separate!Next]_<<held, ValuesHeld, failed>>
    OBVIOUS
  <2>1. CASE Next
    <3>1. PICK x \in Names : Serves(x)
      BY <1>4, <2>1
    <3>2. HeapInv' /\ ~failed
      BY <2>1, <3>1 DEF Serves, Next
    <3> QED BY <1>3, <3>1, <3>2 DEF Serves, Separate!Next
  <2>2. CASE UNCHANGED vars
    <3>1. HeapInv'
      BY <2>2 DEF HeapInv, vars, Live
    <3>2. ValuesHeld' = ValuesHeld
      BY <2>2 DEF vars, ValuesHeld, Values
    <3> QED BY <2>2, <3>1, <3>2 DEF vars
  <2> QED BY <2>1, <2>2
<1> QED BY <1>1, <1>5, PTL DEF Spec, IsHeap, Separate!Spec
=============================================================================
