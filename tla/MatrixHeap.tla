----------------------------- MODULE MatrixHeap -----------------------------
(***************************************************************************)
(* What the matrices of a script promise: names hold references to         *)
(* matrices, two names may hold the same one, an operation changes the one *)
(* matrix it is given or makes a new one, every matrix is rectangular, and *)
(* a call that fails changes nothing and ends the run.                     *)
(***************************************************************************)
CONSTANTS
  Names, Refs,
  None,         \* what a name without a matrix holds
  IsMatrix(_)   \* the rectangular values

VARIABLES
  held,    \* the reference each name holds, or None
  value,   \* the matrix of every reference held
  failed

Live == {held[x] : x \in Names} \ {None}
TypeOK ==
  /\ held \in [Names -> Refs \cup {None}]
  /\ DOMAIN value = Live /\ \A r \in Live : IsMatrix(value[r])
Init == TypeOK /\ ~failed

Unchanged(refs) == \A r \in refs : r \in Live' => value'[r] = value[r]
\* x names what another name holds.
Name(x) ==
  /\ \E y \in Names : held' = [held EXCEPT ![x] = held[y]]
  /\ Unchanged(Live) /\ UNCHANGED failed
\* x holds a matrix no other name holds.
Make(x) ==
  /\ \E r \in Refs \ {held[y] : y \in Names \ {x}} : held' = [held EXCEPT ![x] = r]
  /\ Unchanged(Live \ {held'[x]}) /\ UNCHANGED failed
\* The matrix x holds changes, for every name that holds it.
Change(x) ==
  /\ held[x] # None /\ Unchanged(Live \ {held[x]})
  /\ UNCHANGED <<held, failed>>
Fail == failed' /\ UNCHANGED <<held, value>>

Next == ~failed /\ TypeOK' /\ (Fail \/ \E x \in Names : Name(x) \/ Make(x) \/ Change(x))
Spec == Init /\ [][Next]_<<held, value, failed>>
=============================================================================
