------------------------------ MODULE MCEngine -------------------------------
(***************************************************************************)
(* Small instances of Engine: two providers, the second of which refuses a *)
(* timeframe and has no high; two programs.                                *)
(***************************************************************************)
EXTENDS Engine

Ref(form, symbol, vt) == [form |-> form, symbol |-> symbol, vt |-> vt, literal |-> TRUE, visited |-> TRUE]

Spelled == {Ref("ident", "A", "hl2"), Ref("atr", "A", "high"), Ref("close_of", "B", "low")}
Mixed == {Ref("value_of", "B", "hl2"), [Ref("ident", "A", "ohlc4") EXCEPT !.visited = FALSE],
          [Ref("sma_of", "A", "low") EXCEPT !.literal = FALSE]}
TwoPrograms == {Spelled, Mixed}

TwoProviders == <<[symbols |-> {"A"}, valueTypes |-> {"high", "low", "close"}, refuses |-> {}],
                  [symbols |-> {"A", "B"}, valueTypes |-> {"low", "close", "volume"}, refuses |-> {"5"}]>>
Served == {<<"A", "high">>, <<"A", "low">>, <<"A", "close">>, <<"B", "low">>, <<"B", "close">>}
Unreliable == {<<"B", "low">>}
AfterRuns == {<<"A", "hl2">>, <<"A", "volume">>, <<"B", "hlc3">>, <<"B", "ohlc4">>}
Sorted == <<"close", "high", "hl2", "hlc3", "hlcc4", "low", "ohlc4", "open", "volume">>

Slices == Permutations(Buffers)
=============================================================================
