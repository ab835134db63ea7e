--------------------------- MODULE QueryFreshness ---------------------------
(***************************************************************************)
(* The inductive invariant of QueryEngine behind VerifiedAreFresh and      *)
(* OnlyStaleRecomputed, which holds when operator== of every result type   *)
(* compares all of it.  It says what a cached result is worth before it is *)
(* verified again: as far as the dependencies that were recorded with it   *)
(* have not changed since it was verified, computing it again would run    *)
(* the same queries.                                                       *)
(*                                                                         *)
(* The hard case is an exception: execute forgets the dependencies of a    *)
(* query before it computes it again, and leaves those recorded so far     *)
(* when something it runs throws, with the result and the verification of  *)
(* the previous time.                                                      *)
(***************************************************************************)
EXTENDS QueryEngineInvariant

\* operator== of std::string, for the contents of the files.
SourcesCompared ==
    \A q \in Source : \A previous, result :
        TRUE \in Same(q, previous, result) => previous = result

\* operator== of every result type tells two results that differ apart.
SameIsEquality ==
    \A q \in Query : \A previous, result :
        TRUE \in Same(q, previous, result) => previous = result

\* What the first n queries of a list have returned.
Values(cache, list, n) == [i \in 1..n |-> cache[list[i]]]

\* The computation of q would run what is recorded for it, in this order.
Following(q) ==
    LET deps == query_dependencies[q]
    IN  \A n \in 1..Len(deps) :
            Demand(q, Values(query_cache, deps, n - 1)) = deps[n]

\* A computation of q that is run now and finds the first n dependencies
\* recorded for q unchanged finds their results, and goes on as it did before.
Founded(q, n) ==
    LET deps == query_dependencies[q]
    IN  /\ \A i \in 1..n : deps[i] \in Cached
        /\ n < Len(deps) =>
              Demand(q, Values(query_cache, deps, n)) = deps[n + 1]
        /\ n = Len(deps) =>
              /\ Demand(q, Values(query_cache, deps, n)) = Done
              /\ query_cache[q] = Result(q, Values(query_cache, deps, n))

Kept(q) ==
    LET deps == query_dependencies[q]
    IN  \A n \in 0..Len(deps) :
            (\A i \in 1..n : changed[deps[i]] <= verified[q]) => Founded(q, n)

Computing(q) ==
    \E i \in Frames : stack[i].pc = "compute" /\ stack[i].query = q

\* This holds of every query that was ever verified and is not being computed,
\* also of one whose computation was cut short.
ResultsKept ==
    \A q \in Query \ Source :
        verified[q] # 0 /\ ~Computing(q) => Kept(q)

\* A computation of a query that was verified before will run, if it has not
\* yet, a dependency that has changed since: it comes after others that are
\* verified, so that nothing can throw before it is recorded.
ChangeAhead(q) ==
    \E old \in Seq(Query) : \E k \in 1..Len(old) :
        /\ changed[old[k]] > verified[q]
        /\ \A j \in 1..(k - 1) : verified[old[j]] = revision
        /\ \A j \in 1..k :
              /\ Demand(q, Values(query_cache, old, j - 1)) = old[j]
              /\ j <= Len(query_dependencies[q]) =>
                    query_dependencies[q][j] = old[j]

FollowsOn(q) ==
    /\ Following(q)
    /\ verified[q] # 0 => ChangeAhead(q)

ComputationsFollow ==
    \A i \in Frames :
        stack[i].pc = "compute" /\ stack[i].query \notin Source =>
            FollowsOn(stack[i].query)

\* The query that a computation has just demanded is the next to be recorded;
\* once it is, it is the last.
Recorded(f, g) ==
    LET deps == query_dependencies[f.query]
    IN  /\ f.query \notin Source
        /\ IF g.pc = "lookup"
           THEN Demand(f.query, Values(query_cache, deps, Len(deps))) = g.query
           ELSE deps # <<>> /\ deps[Len(deps)] = g.query

CallsRecorded ==
    \A i \in Frames :
        i > 1 /\ stack[i - 1].pc = "compute" => Recorded(stack[i - 1], stack[i])

\* What a scan has passed has not changed.
Unchanged(f) ==
    f.pc \in {"scan", "verify", "refresh"} =>
        /\ f.query \notin Source
        /\ \A j \in 1..(f.at - 1) :
              changed[query_dependencies[f.query][j]] <= verified[f.query]

ScansUnchanged == \A i \in Frames : Unchanged(stack[i])

\* A query is out of date only because something it ran has changed.
Stale(q) ==
    \E k \in DOMAIN query_dependencies[q] :
        /\ changed[query_dependencies[q][k]] > verified[q]
        /\ \A j \in 1..(k - 1) :
              /\ verified[query_dependencies[q][j]] = revision
              /\ changed[query_dependencies[q][j]] <= verified[q]

AnswersGrounded ==
    stack # <<>> /\ top.pc = "decide" /\ out_of_date = "yes"
        /\ top.query \notin Source /\ verified[top.query] # 0 => Stale(top.query)

\* A verified source has the contents that were read for this request.
SourcesSeen ==
    \A q \in Source :
        verified[q] = revision /\ revision # 0 =>
            q \in DOMAIN seen /\ query_cache[q] = seen[q]

FreshnessInvariant ==
    /\ ResultsKept
    /\ ComputationsFollow
    /\ CallsRecorded
    /\ ScansUnchanged
    /\ AnswersGrounded
    /\ SourcesSeen
=============================================================================
