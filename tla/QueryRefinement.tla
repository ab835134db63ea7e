--------------------------- MODULE QueryRefinement ---------------------------
(***************************************************************************)
(* The engine against what it promises: FreshEvaluator, which knows no     *)
(* cache, no revisions and no dependencies.                                *)
(***************************************************************************)
EXTENDS QueryFreshness, Evaluations

CONSTANTS
    Evaluate(_, _),       \* an evaluation of a query with no memory
    Continue(_, _, _)     \* the same once the query has read some results

\* What makes Evaluate one: a query runs what it demands, one after the other,
\* and each of these is evaluated anew.
EvaluatesAnew ==
    /\ \A q \in Query : \A snapshot :
          Evaluate(q, snapshot) =
              IF q \notin Source THEN Continue(q, <<>>, snapshot)
              ELSE IF q \notin DOMAIN snapshot THEN Needs(q)
              ELSE IF snapshot[q] = Missing THEN Fails(q)
              ELSE Value(snapshot[q])
    /\ \A q \in Query : \A reads, snapshot :
          Continue(q, reads, snapshot) =
              IF Demand(q, reads) = Done THEN Value(Result(q, reads))
              ELSE LET child == Evaluate(Demand(q, reads), snapshot)
                   IN  IF child.tag = "value"
                       THEN Continue(q, Append(reads, child.of), snapshot)
                       ELSE child

\* What the caller of execute is promised, with the cache as the answer.
Promise == INSTANCE FreshEvaluator WITH
    answer <- IF outcome = "answered" THEN <<query_cache[target]>> ELSE <<>>

\* The engine answers every request as an evaluator with no cache would, with
\* the files opened in the same order, each at most once for a request.
AnswersAreFresh == Promise!Spec

\* What a request keeps to while it is served, beside the two invariants: its
\* own query is the outermost, and a file that was opened for it is verified
\* and could be opened.
RequestServed ==
    /\ stack # <<>> => stack[1].query = target
    /\ outcome # "threw" =>
          \A s \in DOMAIN seen : verified[s] = revision /\ seen[s] # Missing
=============================================================================
