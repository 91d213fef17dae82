------------------------------- MODULE Damage -------------------------------
(***************************************************************************)
(* The damage that converted scripts have, done to the lines of a program: *)
(* what the passes of preprocess are there to repair.  Like Scripts, a     *)
(* reference and not part of the code.                                     *)
(***************************************************************************)
EXTENDS Scripts

Lead(n) == Spaces(4 * n)
Plain(line) == Raw(Lead(line.depth), Spelled(line.toks, TRUE))
Each(lines, RowsAt(_)) == Flat([k \in DOMAIN lines |-> RowsAt(k)])

\* A line that does not start a block is one column off.
Skewed(lines, columns) ==
  LET Off(k) == /\ k > 1 /\ lines[k].depth > 0
                /\ \/ lines[k - 1].depth = lines[k].depth
                   \/ lines[k - 1].depth > lines[k].depth /\ columns < 0
  IN  Each(lines, LAMBDA k : Raw(Spaces(4 * lines[k].depth + IF Off(k) THEN columns ELSE 0),
                                 Spelled(lines[k].toks, TRUE)))

\* A line goes on on the next one after an operator, or before one.
BrokenLine(line, breaks, before) ==
  LET cuts == {k \in 1..(Len(line.toks) - 1) :
                 line.toks[IF before THEN k + 1 ELSE k].text \in breaks}
      Piece(k) == SubSeq(line.toks, k + 1, Min({j \in cuts : j > k} \cup {Len(line.toks)}))
      RowOf(k) == IF k = 0 \/ k \in cuts
                  THEN Raw(Lead(line.depth) \o (IF k = 0 THEN <<>> ELSE Spaces(2)), Spelled(Piece(k), TRUE))
                  ELSE <<>>
  IN  Flat([k \in DOMAIN line.toks |-> RowOf(k - 1)])
Trailing == {"+", "-", "*", "/", "%", "<", "==", "?", ":", "=", ",", "(", "and", "or", "not"}
Leading == {"+", "*", "/", "%", "<", "==", "?", ":", "=", "and", "or", ")"}
Broken(lines, breaks, before) == Each(lines, LAMBDA k : BrokenLine(lines[k], breaks, before))

\* Something after, or before, every line, as deep as the line.
Followed(lines, code) == Each(lines, LAMBDA k : Plain(lines[k]) \o Raw(Lead(lines[k].depth), code))
Preceded(lines, code) == Each(lines, LAMBDA k : Raw(Lead(lines[k].depth), code) \o Plain(lines[k]))
\* A heading is one word.
Headed(lines) == Raw(<<" ">>, <<"Heading">>) \o Each(lines, LAMBDA k : Plain(lines[k])) \o Raw(<<>>, <<"END">>)
\* An else without its block, wherever a block ends.
WithEmptyElse(lines) ==
  Each(lines, LAMBDA k : (IF k > 1 /\ lines[k - 1].depth > lines[k].depth
                          THEN Raw(Lead(lines[k].depth), <<"else">>) ELSE <<>>) \o Plain(lines[k]))

\* A comment at the end of every line, inside of it, and over several lines.
Commented(lines) ==
  Each(lines, LAMBDA k : Raw(Lead(lines[k].depth), Spelled(lines[k].toks, TRUE) \o <<" ", "/", "/", " ", "(">>))
BlockCommented(lines) ==
  Raw(<<>>, <<"/", "*", " ", "\"">>) \o Raw(<<" ">>, <<"x", " ", "(">>) \o Raw(<<>>, <<"*", "/">>)
  \o Each(lines, LAMBDA k : Raw(Lead(lines[k].depth), Spelled(lines[k].toks, TRUE) \o <<" ", "/", "*", "(", "*", "/">>))

\* Statements of one line, separated by commas.
OnOneRow(lines) ==
  Raw(<<>>, Between([k \in DOMAIN lines |-> Spelled(lines[k].toks, TRUE)], <<",", " ">>))
\* The script ends too early by a closing quote or parenthesis.
Cut1(lines) ==
  LET rows == Each(lines, LAMBDA k : Plain(lines[k]))
  IN  [rows EXCEPT ![Len(rows)].code = Front(@)]

Damages(lines) ==
  {Skewed(lines, 1), Skewed(lines, -1), Broken(lines, Trailing, FALSE), Broken(lines, Leading, TRUE),
   Followed(lines, <<")">>), Followed(lines, <<"na", " ", ")">>), Followed(lines, <<",", " ", "x", " ", "=", " ", "1", ")">>),
   Followed(lines, <<",", " ", "a">>), Headed(lines), Preceded(lines, <<"if", " ", "a">>),
   Preceded(lines, <<"while", " ", "a">>), WithEmptyElse(lines), Commented(lines), BlockCommented(lines)}
=============================================================================
