------------------------------ MODULE Compiler ------------------------------
(***************************************************************************)
(* The compiler, from the text of a script to the program the runtime      *)
(* executes: lexing line by line, parsing, checking the types and lowering *)
(* (lex, parseProgram, compile in engine.go, lowerProgram); and what the   *)
(* expressions of the program then evaluate to.  A raw text is first       *)
(* repaired, as the backtester does (preprocess).                          *)
(***************************************************************************)
EXTENDS TypeCheck, Calls, Preprocess

CONSTANT Texts  \* the texts compiled: records of lines, of the statements they are meant
                \* to say (stmts), none for a text that is no program, and of whether the
                \* text is raw

VARIABLES
  text,     \* the text compiled
  passes,   \* the passes of preprocess still to run
  lines,    \* its lines not yet lexed
  lexer,    \* the state of lex
  program,  \* the program parsed, then lowered
  stage     \* "lexing", "parsing", "checking", "lowering", "done" or "failed"

vars == <<text, passes, lines, lexer, tokens, program, stage>>
NoProgram == Program(<<>>)

Init ==
  /\ text \in Texts /\ lines = text.lines /\ passes = IF text.raw THEN Passes ELSE <<>>
  /\ lexer = LexStart /\ tokens = <<>> /\ program = NoProgram /\ stage = "lexing"

RunPass ==
  /\ passes # <<>>
  /\ lines' = AfterPass(Head(passes), lines)
  /\ passes' = Tail(passes)
  /\ UNCHANGED <<text, lexer, tokens, program, stage>>

LexNextLine ==
  /\ stage = "lexing" /\ passes = <<>> /\ lines # <<>>
  /\ lexer' = AfterLine(lexer, Head(lines))
  /\ lines' = Tail(lines)
  /\ stage' = IF lexer'.failed THEN "failed" ELSE stage
  /\ UNCHANGED <<text, passes, tokens, program>>

LexEnd ==
  /\ stage = "lexing" /\ passes = <<>> /\ lines = <<>>
  /\ tokens' = AfterLast(lexer).out
  /\ lexer' = LexStart
  /\ stage' = "parsing"
  /\ UNCHANGED <<text, passes, lines, program>>

Parse ==
  /\ stage = "parsing"
  /\ \/ ~Parses /\ stage' = "failed" /\ UNCHANGED program
     \/ Parses /\ stage' = "checking" /\ program' = ParseProgram
  /\ UNCHANGED <<text, passes, lines, lexer, tokens>>

Check ==
  /\ stage = "checking"
  /\ stage' = IF Accepted(program) THEN "lowering" ELSE "failed"
  /\ UNCHANGED <<text, passes, lines, lexer, tokens, program>>

Lower ==
  /\ stage = "lowering"
  /\ program' = LowerProgram(program) /\ stage' = "done"
  /\ UNCHANGED <<text, passes, lines, lexer, tokens>>

Next == RunPass \/ LexNextLine \/ LexEnd \/ Parse \/ Check \/ Lower

Spec == Init /\ [][Next]_vars
=============================================================================
