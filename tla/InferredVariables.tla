--------------------------- MODULE InferredVariables ---------------------------
(***************************************************************************)
(* The one query of the compiler that is not a function of what it reads.  *)
(*                                                                         *)
(* The type checker infers the type of a local variable from its           *)
(* initializer and writes it into the ResolvedVariable (inference.cpp).    *)
(* That object belongs to the result of ResolvedCalls, which stays in the  *)
(* cache when only the signature of an imported function changes: the type *)
(* that one run of TypecheckedFile inferred is there when the next begins. *)
(*                                                                         *)
(* Every call c of a text is the initializer of a variable here, as in     *)
(* "let x = c;".                                                           *)
(***************************************************************************)
EXTENDS ArenaQueries

VARIABLE inferred    \* [File -> the types of its variables that are inferred]

varsInferred == <<vars, inferred>>

Resolved(f) == <<"ResolvedCalls", f>>
Typechecked(f) == <<"TypecheckedFile", f>>

\* No variable of a newly resolved file has a type yet.
NoTypes == [i \in {} |-> "error"]

\* The type of a call by the signatures that are visible now.  The type of a
\* faulty call is the error type.
CallType(call, ftable) ==
    IF \/ call.name \notin Names(ftable)
       \/ CallFails(Entry(ftable, call.name), call.arguments)
    THEN "error"
    ELSE Entry(ftable, call.name).returns

CallTypes(f) ==
    LET calls == Reads(Typechecked(f))[3].ast.calls
    IN  [i \in DOMAIN calls |-> CallType(calls[i], Reads(Typechecked(f))[1])]

\* require_assignable: the error type goes with every type.
Conflict(type, other) == type # other /\ "error" \notin {type, other}

\* A variable that has a type already, and another than its initializer.
Mistyped(f, types) ==
    LET calls == Reads(Typechecked(f))[3].ast.calls
        wrong == {i \in DOMAIN inferred[f] : Conflict(inferred[f][i], types[i])}
    IN  Errors("inferred", [i \in 1..Cardinality(wrong) |->
                               calls[SetToSortSeq(wrong, <)[i]]])

-----------------------------------------------------------------------------

Typechecking(f) ==
    /\ At("compute", Typechecked(f))
    /\ Demand(Typechecked(f), Reads(Typechecked(f))) = Done

\* compute_query_result(TypecheckedFileQuery) has its inputs: check every
\* variable that has a type against its initializer, and give the initializer's
\* type to every variable that has none.
Typecheck(f) ==
    LET q == Typechecked(f)
        types == CallTypes(f)
    IN  /\ Typechecking(f)
        /\ Settle(q, [Result(q, Reads(q)) EXCEPT
                         !.errors = @ \o Mistyped(f, types)])
        /\ inferred' = [inferred EXCEPT ![f] = inferred[f] @@ types]
        /\ UNCHANGED <<world, request, seen>>

\* Every other step of the engine.  A result of ResolvedCalls that is stored
\* brings variables of its own.
OtherStep ==
    /\ \A f \in File : ~Typechecking(f)
    /\ EngineStep
    /\ inferred' = [f \in File |->
           IF changed'[Resolved(f)] # changed[Resolved(f)] THEN NoTypes
           ELSE inferred[f]]

InferringInit == Init /\ inferred = [f \in File |-> NoTypes]

InferringNext ==
    \/ \E f \in File : Typecheck(f)
    \/ OtherStep
    \/ UserStep /\ UNCHANGED inferred

InferringSpec == InferringInit /\ [][InferringNext]_varsInferred

-----------------------------------------------------------------------------

\* Phase three "makes it faster to reanalyze a file after one of its imported
\* symbols has changed" (queries.md:115): the errors that the type checker
\* finds with the resolved tree that was kept are those that it finds with a
\* new one.
ReanalysisIsComplete ==
    \A f \in File :
        LET q == Typechecked(f)
        IN  verified[q] = revision /\ revision # 0 =>
                query_cache[q].errors = Result(q, Reads(q)).errors
=============================================================================
