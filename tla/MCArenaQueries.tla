---------------------------- MODULE MCArenaQueries ----------------------------
(***************************************************************************)
(* The Arena queries on a program of two files, main and lib.  The texts   *)
(* that the files may contain are given by the runs.                       *)
(***************************************************************************)
EXTENDS InferredVariables

\* A text in which nothing is declared.
Blank == [layout |-> 1, imports |-> <<>>, functions |-> <<>>, structs |-> <<>>,
          calls |-> <<>>, accesses |-> <<>>]

Function(id, params, returns) ==
    [name |-> id, params |-> params, returns |-> returns, variadic |-> FALSE]
Struct(members) == [name |-> "S", members |-> members]
Call(id, arguments) == [name |-> id, arguments |-> arguments]

\* Declares function 0 (main), imports lib, calls function 1 of lib with one
\* argument and reads S.y.
Client == [Blank EXCEPT !.imports = <<"lib">>,
                        !.functions = <<Function(0, 0, "int")>>,
                        !.calls = <<Call(1, 1)>>,
                        !.accesses = <<[name |-> "S", member |-> "y"]>>]

\* Two texts of lib that main finds different faults with.
Library1 == [Blank EXCEPT !.functions = <<Function(1, 1, "int")>>,
                          !.structs = <<Struct(<<"x">>)>>]
Library2 == [Blank EXCEPT !.functions = <<Function(1, 2, "bool")>>,
                          !.structs = <<Struct(<<"y">>)>>]

\* The same client on other lines.
ClientMoved == [Client EXCEPT !.layout = 2]

\* Library1 after an edit that operator== does not see.
LibraryGrown == [Library1 EXCEPT !.structs = <<Struct(<<"x", "y">>)>>]
-----------------------------------------------------------------------------

FreshTexts == {Client, ClientMoved, Library1, Library2}
GrowingTexts == {Client, Library1, LibraryGrown}

FreshRequests == {<<"RenderedErrors", "main">>}

Anew == INSTANCE Evaluation

Promise == INSTANCE FreshEvaluator WITH
    Evaluate <- Anew!Evaluated,
    answer <- IF outcome = "answered" THEN <<query_cache[target]>> ELSE <<>>

\* Every diagnostic that the compiler shows is what a compiler started anew
\* on the same texts would show, with the same files opened in the same order.
AnswersAreFresh == Promise!Spec
=============================================================================
