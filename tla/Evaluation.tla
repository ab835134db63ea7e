----------------------------- MODULE Evaluation -----------------------------
(***************************************************************************)
(* The evaluator with no memory of FreshEvaluator, for TLC: a query runs   *)
(* what it demands, one after the other, and each of these is evaluated    *)
(* anew.                                                                   *)
(***************************************************************************)
EXTENDS Sequences, Evaluations

CONSTANTS Source, Missing, Demand(_, _), Result(_, _), Done

RECURSIVE Evaluated(_, _), Continued(_, _, _)

Evaluated(q, snapshot) ==
    IF q \notin Source THEN Continued(q, <<>>, snapshot)
    ELSE IF q \notin DOMAIN snapshot THEN Needs(q)
    ELSE IF snapshot[q] = Missing THEN Fails(q)
    ELSE Value(snapshot[q])

Continued(q, reads, snapshot) ==
    LET next == Demand(q, reads)
    IN  IF next = Done THEN Value(Result(q, reads))
        ELSE LET child == Evaluated(next, snapshot)
             IN  IF child.tag = "value"
                 THEN Continued(q, Append(reads, child.of), snapshot)
                 ELSE child
=============================================================================
