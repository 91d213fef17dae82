------------------------------- MODULE Interp -------------------------------
(***************************************************************************)
(* The interpreter's state: the environment stack, the loop bindings, the  *)
(* history of the root variables and the constructs being executed         *)
(* (execStmt and commitBar in runtime_exec.go, callScriptFunction in       *)
(* runtime_calls.go, resolve, assign and recordHistory in                  *)
(* runtime_state.go, evalIndex in runtime_exec.go).                        *)
(*                                                                         *)
(* The script is the environment: it executes any statements of Stmts, one *)
(* after another or nested, and ends a construct whenever its syntax would *)
(* let it.  The result of a statement, and dotted names, are left out.     *)
(***************************************************************************)
EXTENDS Integers, Sequences, FiniteSets, FiniteSetsExt

CONSTANTS
  Names,             \* variables of the script, not those the runtime defines
  NaN, True, False,  \* values that are no integers
  Strings,           \* values toFloat rejects
  Stmts,             \* the statements the script may execute
  MaxLoopIterations, \* 100000 in the code
  MaxDepth,          \* bound: constructs nested in each other
  LastBar            \* bound: index of the last bar

Bools == {True, False}
Numeric == Int \cup {NaN}
Values == Numeric \cup Bools \cup Strings

ASSUME ValuesAssumption ==
  /\ NaN \notin Int
  /\ (\A v \in Bools : v \notin Numeric)
  /\ (\A v \in Strings : v \notin Numeric \cup Bools)
  /\ True # False
ASSUME BoundsAssumption == {MaxLoopIterations, MaxDepth, LastBar} \subseteq Nat

\* What a frame holds for a name that is no parameter; and for a parameter, the
\* argument: an identifier, or an expression without one.
NoArg == "none"
Literal == "literal"
ASSUME NamesAssumption == Names \cap {NoArg, Literal} = {}
Arg == Names \cup {NoArg, Literal}
Entry == [value : Values, arg : Arg]

Stmt == [kind : {"decl", "assign", "for", "for in", "while", "call"}, name : Names, value : Values,
         const : BOOLEAN, type : {"", "bool", "float"}, from : Int, to : Int, by : Int,
         items : Seq(Values), arg : Names \cup {Literal}, offset : Nat]
ASSUME StmtsAssumption == Stmts \subseteq Stmt

VARIABLES
  bar,        \* Runtime.barIndex
  phase,      \* "script", "commit", "done" or "failed"
  frames,     \* envStack: each a function from some of Names to Entry
  loops,      \* loopBindings
  control,    \* the constructs being executed, the innermost last
  offset,     \* evalOffset
  consts,     \* consts
  bools,      \* the names declaredTypes says are bool
  rootVars,   \* rootHistoryVars
  kind,       \* historyKind
  numHist,    \* numericHistory; <<>> where there is none
  genHist,    \* history; <<>> where there is none
  committed   \* for the properties: the values of each root variable at the commits

histories == <<kind, numHist, genHist, committed>>
script == <<frames, loops, control, offset, consts, bools, rootVars>>
vars == <<bar, phase, script, histories>>

Top(s) == s[Len(s)]
FrontOf(s) == SubSeq(s, 1, Len(s) - 1)
WithTop(s, e) == [s EXCEPT ![Len(s)] = e]
Put(f, x, e) == [y \in DOMAIN f \cup {x} |-> IF y = x THEN e ELSE f[y]]
Plain(v) == [value |-> v, arg |-> NoArg]

IsNumber(v) == v \in Numeric \cup Bools
ToFloat(v) == IF v = True THEN 1 ELSE IF v = False THEN 0 ELSE v

-----------------------------------------------------------------------------
(* Reading a variable. *)

\* findLoopBindingIndex: the innermost binding of x, 0 if there is none.
BindingOf(x) == Max({k \in DOMAIN loops : loops[k].name = x} \cup {0})
\* The innermost frame that knows x, 0 if none does.
FrameOf(x) == Max({k \in DOMAIN frames : x \in DOMAIN frames[k]} \cup {0})

\* The value of x `back` bars ago, from its history.
Past(x, back) ==
  IF numHist[x] # <<>>
  THEN IF back <= Len(numHist[x]) THEN numHist[x][Len(numHist[x]) - back + 1] ELSE NaN
  ELSE IF back <= Len(genHist[x]) THEN genHist[x][Len(genHist[x]) - back + 1]
       ELSE IF x \in bools THEN False ELSE NaN

\* resolve at evalOffset `off`; at 0 an unknown name fails.
Known(x, off) ==
  off > 0 \/ BindingOf(x) # 0 \/ FrameOf(x) # 0 \/ numHist[x] # <<>> \/ genHist[x] # <<>>
Resolve(x, off) ==
  IF off > 0 THEN Past(x, off)
  ELSE IF BindingOf(x) # 0 THEN loops[BindingOf(x)].value
  ELSE IF FrameOf(x) # 0 THEN frames[FrameOf(x)][x].value
  ELSE Past(x, 1)

\* evalIndex, x[idx]: the history of a parameter is that of its argument.
ArgOf(x) == IF BindingOf(x) # 0 \/ FrameOf(x) = 0 THEN NoArg ELSE frames[FrameOf(x)][x].arg
Index(x, idx) ==
  IF idx = 0 THEN Resolve(x, offset)
  ELSE IF ArgOf(x) = NoArg THEN Past(x, offset + idx)
  ELSE IF ArgOf(x) = Literal THEN frames[FrameOf(x)][x].value
  ELSE Past(ArgOf(x), offset + idx)

-----------------------------------------------------------------------------
(* Statements. *)

Init ==
  /\ bar = 0 /\ phase = "script"
  /\ frames = <<[x \in {} |-> Plain(NaN)]>> /\ loops = <<>> /\ control = <<>> /\ offset = 0
  /\ consts = {} /\ bools = {} /\ rootVars = {}
  /\ kind = [x \in Names |-> "unknown"]
  /\ numHist = [x \in Names |-> <<>>] /\ genHist = [x \in Names |-> <<>>]
  /\ committed = [x \in Names |-> <<>>]

Executes(k, s) == phase = "script" /\ s.kind = k

\* An error ends the run.
Fail == phase' = "failed" /\ UNCHANGED <<bar, script, histories>>

\* Mutant: a variable a caller knows is assigned in the caller's frame.
StoredWhereKnown(x, v) ==
  LET k == IF FrameOf(x) # 0 THEN FrameOf(x) ELSE Len(frames)
  IN  [frames EXCEPT ![k] = Put(@, x, Plain(v))]
Stored(x, v) == WithTop(frames, Put(Top(frames), x, Plain(v)))

\* assign, after the checks: a number goes to the innermost loop binding of that
\* name, whoever's it is; anything else to the innermost frame.
Assign(x, v) ==
  IF BindingOf(x) # 0 /\ IsNumber(v)
  THEN /\ loops' = [loops EXCEPT ![BindingOf(x)].value = ToFloat(v)]
       /\ UNCHANGED <<frames, rootVars>>
  ELSE /\ frames' = Stored(x, v)
       /\ rootVars' = IF Len(frames) = 1 THEN rootVars \cup {x} ELSE rootVars
       /\ UNCHANGED loops
Coerced(x, v) == IF x \in bools' /\ v = NaN THEN False ELSE v

\* x = v, var x = v, const x = v, bool x = v; also each part of a tuple.  The parser
\* does not keep the word var.
Decl(s) ==
  /\ Executes("decl", s)
  /\ LET typed == IF s.type = "bool" THEN bools \cup {s.name}
                  ELSE IF s.type = "" THEN bools ELSE bools \ {s.name}
     IN  \/ /\ s.name \in typed /\ s.value \notin Bools \cup {NaN}
            /\ Fail
         \/ /\ s.name \in typed => s.value \in Bools \cup {NaN}
            /\ bools' = typed
            /\ consts' = IF s.const THEN consts \cup {s.name} ELSE consts
            /\ Assign(s.name, Coerced(s.name, s.value))
            /\ UNCHANGED <<bar, phase, control, offset, histories>>

\* x := v
Reassign(s) ==
  /\ Executes("assign", s)
  /\ \/ /\ s.name \in consts \/ (s.name \in bools /\ s.value \notin Bools \cup {NaN})
        /\ Fail
     \/ /\ s.name \notin consts /\ (s.name \in bools => s.value \in Bools \cup {NaN})
        /\ UNCHANGED <<bools, consts>>
        /\ Assign(s.name, Coerced(s.name, s.value))
        /\ UNCHANGED <<bar, phase, control, offset, histories>>

-----------------------------------------------------------------------------
(* Constructs: loops and calls. *)

IsLoop(c) == c.is # "call"
Loop(is, x) ==
  [is |-> is, var |-> x, i |-> 0, last |-> 0, by |-> 1, items |-> <<>>, n |-> 1,
   before |-> [y \in {x} \cap DOMAIN Top(frames) |-> Top(frames)[y]],
   offset |-> 0, saved |-> <<>>]

InRange(i, last, by) == IF by > 0 THEN i <= last ELSE i >= last

Nest(c) == Len(control) < MaxDepth /\ control' = Append(control, c)
Entering == UNCHANGED <<bar, phase, offset, consts, bools, rootVars, histories>>

\* for x = from to to by by.  A loop without iterations changes nothing.
EnterFor(s) ==
  /\ Executes("for", s)
  /\ \/ /\ s.by = 0 \/ s.name \in consts
        /\ Fail
     \/ /\ s.by # 0 /\ s.name \notin consts /\ InRange(s.from, s.to, s.by)
        /\ Nest([Loop("for", s.name) EXCEPT !.i = s.from, !.last = s.to, !.by = s.by])
        /\ loops' = Append(loops, [name |-> s.name, value |-> s.from])
        /\ UNCHANGED frames
        /\ Entering

\* for x in items: the variable is set in the frame itself.
EnterForIn(s) ==
  /\ Executes("for in", s)
  /\ \/ s.name \in consts /\ Fail
     \/ /\ s.name \notin consts /\ s.items # <<>>
        /\ Nest([Loop("for in", s.name) EXCEPT !.items = Tail(s.items)])
        /\ frames' = Stored(s.name, Head(s.items))
        /\ UNCHANGED loops
        /\ Entering

EnterWhile(s) ==
  /\ Executes("while", s)
  /\ Nest(Loop("while", s.name))
  /\ UNCHANGED <<frames, loops>>
  /\ Entering

\* Mutant: a loop forgets that its variable had a value before.
DeletedAfter(f, cs) ==
  LET loopsOf(y) == {k \in DOMAIN cs : cs[k].is \in {"for", "for in"} /\ cs[k].var = y}
  IN  [y \in {z \in DOMAIN f : loopsOf(z) = {}} |-> f[y]]
\* The frame after the loops cs have ended, inner ones first: each puts back what
\* its variable was, so that what the outermost saw remains.
Unwound(f, cs) ==
  LET loopsOf(y) == {k \in DOMAIN cs : cs[k].is \in {"for", "for in"} /\ cs[k].var = y}
      before(y) == IF loopsOf(y) = {} THEN f ELSE cs[Min(loopsOf(y))].before
  IN  [y \in {z \in Names : z \in DOMAIN before(z)} |-> before(y)[y]]

Bindings(cs) == Cardinality({k \in DOMAIN cs : cs[k].is = "for"})

\* Mutant: a loop that is left keeps its binding.
UnwindKeeping(n) ==
  /\ control' = SubSeq(control, 1, n)
  /\ UNCHANGED loops
  /\ frames' = WithTop(frames, Unwound(Top(frames), SubSeq(control, n + 1, Len(control))))
\* The constructs above the n-th end; all are loops of one frame.
Unwind(n) ==
  /\ control' = SubSeq(control, 1, n)
  /\ loops' = SubSeq(loops, 1, Bindings(SubSeq(control, 1, n)))
  /\ frames' = WithTop(frames, Unwound(Top(frames), SubSeq(control, n + 1, Len(control))))

InLoop == phase = "script" /\ control # <<>> /\ IsLoop(Top(control))

\* break, or the condition of a while is false, or no iteration is left.
LeaveLoop ==
  /\ InLoop
  /\ Unwind(Len(control) - 1)
  /\ Entering

\* The end of the body, or continue.
Iterate ==
  /\ InLoop
  /\ LET c == Top(control)
         next == [c EXCEPT !.n = @ + 1, !.i = IF c.is = "for" THEN @ + c.by ELSE @,
                           !.items = IF c.is = "for in" THEN Tail(@) ELSE @]
     IN  /\ c.is = "for" => InRange(next.i, c.last, c.by)
         /\ c.is = "for in" => c.items # <<>>
         /\ \/ /\ c.n >= MaxLoopIterations
               /\ Fail
            \/ /\ c.n < MaxLoopIterations
               /\ control' = WithTop(control, next)
               /\ loops' = IF c.is = "for" THEN WithTop(loops, [Top(loops) EXCEPT !.value = next.i])
                           ELSE loops
               /\ frames' = IF c.is = "for in" THEN Stored(c.var, Head(c.items)) ELSE frames
               /\ Entering

\* f(arg), where f has the parameter s.name; f(arg)[k] evaluates the call k bars back.
Call(s) ==
  /\ Executes("call", s)
  /\ LET off == offset + s.offset
     IN  \/ /\ s.arg # Literal /\ ~ Known(s.arg, off)
            /\ Fail
         \/ /\ s.arg # Literal => Known(s.arg, off)
            /\ Nest([Loop("call", s.name) EXCEPT !.offset = offset, !.saved = frames])
            /\ LET v == IF s.arg = Literal THEN s.value ELSE Resolve(s.arg, off)
               IN  frames' = Append(frames, [y \in {s.name} |-> [value |-> v, arg |-> s.arg]])
            /\ offset' = off
            /\ UNCHANGED <<bar, phase, loops, consts, bools, rootVars, histories>>

\* return, or the end of a function's body: its loops end and its frame goes.
CallAt == Max({k \in DOMAIN control : control[k].is = "call"} \cup {0})
Return ==
  /\ phase = "script" /\ CallAt # 0
  /\ control' = SubSeq(control, 1, CallAt - 1)
  /\ loops' = SubSeq(loops, 1, Bindings(SubSeq(control, 1, CallAt - 1)))
  /\ frames' = FrontOf(frames)
  /\ offset' = control[CallAt].offset
  /\ UNCHANGED <<bar, phase, consts, bools, rootVars, histories>>

\* The end of the script; or a return, or a break or continue outside every loop, at
\* the top level.
EndScript ==
  /\ phase = "script" /\ CallAt = 0
  /\ Unwind(0)
  /\ phase' = "commit"
  /\ UNCHANGED <<bar, offset, consts, bools, rootVars, histories>>

-----------------------------------------------------------------------------
(* commitBar. *)

\* Mutant: the numbers a variable held before its first string are not converted.
RecordedApart(x, v) ==
  IF v \in Numeric /\ kind[x] # "generic"
  THEN [kind |-> "numeric", num |-> Append(numHist[x], v), gen |-> genHist[x]]
  ELSE [kind |-> "generic", num |-> <<>>, gen |-> Append(genHist[x], v)]

\* recordHistory of a value: a boolean, a number, anything else.  A number after
\* anything but numbers goes to the generic history.
Recorded(x, v) ==
  IF v \in Bools
  THEN [kind |-> "generic", num |-> numHist[x], gen |-> Append(genHist[x], v)]
  ELSE IF v \in Numeric
  THEN IF kind[x] = "generic"
       THEN [kind |-> "generic", num |-> numHist[x], gen |-> Append(genHist[x], v)]
       ELSE [kind |-> "numeric", num |-> Append(numHist[x], v), gen |-> genHist[x]]
  ELSE IF kind[x] = "numeric"
  THEN [kind |-> "generic", num |-> <<>>, gen |-> Append(numHist[x], v)]
  ELSE [kind |-> "generic", num |-> numHist[x], gen |-> Append(genHist[x], v)]

Commit ==
  /\ phase = "commit"
  /\ LET known == {x \in rootVars : x \in DOMAIN frames[1]}
         new(x) == Recorded(x, frames[1][x].value)
     IN  /\ kind' = [x \in Names |-> IF x \in known THEN new(x).kind ELSE kind[x]]
         /\ numHist' = [x \in Names |-> IF x \in known THEN new(x).num ELSE numHist[x]]
         /\ genHist' = [x \in Names |-> IF x \in known THEN new(x).gen ELSE genHist[x]]
         /\ committed' = [x \in Names |-> IF x \in known
                                          THEN Append(committed[x], frames[1][x].value)
                                          ELSE committed[x]]
  /\ IF bar < LastBar THEN bar' = bar + 1 /\ phase' = "script"
     ELSE phase' = "done" /\ UNCHANGED bar
  /\ UNCHANGED script

Execute ==
  \E s \in Stmts : Decl(s) \/ Reassign(s) \/ EnterFor(s) \/ EnterForIn(s) \/ EnterWhile(s) \/ Call(s)
Ended == phase \in {"done", "failed"} /\ UNCHANGED vars
Next == Execute \/ Iterate \/ LeaveLoop \/ Return \/ EndScript \/ Commit \/ Ended
Spec == Init /\ [][Next]_vars
=============================================================================
