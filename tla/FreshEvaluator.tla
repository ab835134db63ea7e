---------------------------- MODULE FreshEvaluator ----------------------------
(***************************************************************************)
(* What query/engine.hpp promises to the caller of execute, without cache, *)
(* revisions or dependencies: a request is answered as an evaluator with   *)
(* no memory would answer it.  Such an evaluator opens a file the first    *)
(* time the evaluation needs it, uses that one snapshot for the rest of    *)
(* the request, and fails exactly when a file it needs cannot be opened.   *)
(*                                                                         *)
(* The evaluator is a parameter: QueryRefinement states the equations that *)
(* it satisfies, and Evaluation defines one that satisfies them.           *)
(***************************************************************************)
EXTENDS Evaluations

CONSTANTS
    Source, Contents, Missing, NoQuery, Requested, CallerCatches,
    Evaluate(_, _)    \* Evaluate(q, snapshot): what becomes of q, if snapshot
                      \* holds the files opened so far

VARIABLES
    files,     \* the user's disk
    target,    \* the query of the request being served
    outcome,   \* "none", "running", "answered" or "threw"
    seen,      \* the files opened for this request, and what they contained
    answer     \* what the request was answered, <<>> before it is

vars == <<files, target, outcome, seen, answer>>

-----------------------------------------------------------------------------

Init ==
    /\ files \in [Source -> Contents \cup {Missing}]
    /\ target = NoQuery
    /\ outcome = "none"
    /\ seen = [s \in {} |-> Missing]
    /\ answer = <<>>

Edit ==
    /\ files' \in [Source -> Contents \cup {Missing}]
    /\ UNCHANGED <<target, outcome, seen, answer>>

Request(q) ==
    /\ outcome # "running"
    /\ outcome = "threw" => CallerCatches
    /\ target' = q
    /\ outcome' = "running"
    /\ seen' = [s \in {} |-> Missing]
    /\ answer' = <<>>
    /\ UNCHANGED files

\* Open the one file the evaluation is waiting for.
Open(s) ==
    /\ outcome = "running"
    /\ Evaluate(target, seen) = Needs(s)
    /\ seen' = [x \in DOMAIN seen \cup {s} |->
                   IF x = s THEN files[s] ELSE seen[x]]
    /\ IF files[s] = Missing
       THEN outcome' = "threw" /\ UNCHANGED answer
       ELSE \/ UNCHANGED <<outcome, answer>>
            \/ /\ Evaluate(target, seen').tag = "value"
               /\ outcome' = "answered"
               /\ answer' = <<Evaluate(target, seen').of>>
    /\ UNCHANGED <<files, target>>

Answer ==
    /\ outcome = "running"
    /\ Evaluate(target, seen).tag = "value"
    /\ outcome' = "answered"
    /\ answer' = <<Evaluate(target, seen).of>>
    /\ UNCHANGED <<files, target, seen>>

Next ==
    \/ Edit
    \/ \E q \in Requested : Request(q)
    \/ \E s \in Source : Open(s)
    \/ Answer

Spec == Init /\ [][Next]_vars
=============================================================================
