---------------------------- MODULE InterpProps ----------------------------
(***************************************************************************)
(* What the interpreter promises the script.                               *)
(***************************************************************************)
EXTENDS Interp

IsFrame(f) == DOMAIN f \subseteq Names /\ f \in [DOMAIN f -> Entry]
Kinds == {"for", "for in", "while", "call"}
IsConstruct(c) ==
  /\ c \in [is : Kinds, var : Names, i : Int, last : Int, by : Int,
            items : Seq(Values), n : Nat, before : {c.before}, offset : Nat, saved : {c.saved}]
  /\ IsFrame(c.before) /\ DOMAIN c.before \subseteq {c.var}

\* The state is well typed, and the stacks agree: a frame for each call and the
\* root's, and a binding for each loop over numbers.
TypeOK ==
  /\ bar \in Nat /\ phase \in {"script", "commit", "done", "failed"} /\ offset \in Nat
  /\ \A k \in DOMAIN frames : IsFrame(frames[k])
  /\ \A k \in DOMAIN control : IsConstruct(control[k])
  /\ \A k \in DOMAIN loops : loops[k] \in [name : Names, value : Numeric]
  /\ consts \subseteq Names /\ bools \subseteq Names /\ rootVars \subseteq Names
  /\ kind \in [Names -> {"unknown", "numeric", "generic"}]
  /\ \A h \in {numHist, genHist, committed} : h \in [Names -> Seq(Values)]
  /\ Len(frames) = 1 + Cardinality({k \in DOMAIN control : control[k].is = "call"})
  /\ Len(loops) = Bindings(control)
  /\ phase = "commit" => control = <<>>

\* A call leaves the frames of its callers as they were, whatever the function's
\* body assigns and loops over: "every decl/assign inside a function" is
\* "frame-local" (typecheck.go).
CallersKept ==
  \A k \in DOMAIN control : control[k].is = "call" =>
    SubSeq(frames, 1, Len(control[k].saved)) = control[k].saved

\* commitBar records a variable on every bar from its first: a loop that borrows the
\* name of a variable gives it back, also when it is left by break or return, so
\* that no bar is missing in a history.
NoGaps == phase = "commit" => \A x \in Names : committed[x] # <<>> => x \in DOMAIN frames[1]

\* x[n]: the history of a root variable is what it was at the end of the bars
\* before, in a call evaluated bars back too, as long as no boolean came after a
\* number.
NoBoolAfterNumber(c) == \A i, j \in DOMAIN c : i < j /\ c[i] \in Numeric => c[j] \notin Bools
ReadsBack(x) ==
  \A n \in 1 .. Len(committed[x]) - offset :
    Index(x, n) = committed[x][Len(committed[x]) - offset - n + 1]
HistoryIsCommitted ==
  \A x \in Names : ArgOf(x) = NoArg /\ NoBoolAfterNumber(committed[x]) => ReadsBack(x)

-----------------------------------------------------------------------------
(* What a comment or the documentation says and the code does not do. *)

\* typecheck.go: "The runtime treats every decl/assign inside a function as
\* frame-local": a function's statements leave the loop variables of its callers
\* alone.
CallersLoops == IF CallAt = 0 THEN 0 ELSE Bindings(SubSeq(control, 1, CallAt))
AssignsAreLocal == [][\A k \in 1 .. CallersLoops : Len(loops') >= k => loops'[k] = loops[k]]_vars
=============================================================================
