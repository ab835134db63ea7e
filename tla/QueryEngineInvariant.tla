------------------------ MODULE QueryEngineInvariant ------------------------
(***************************************************************************)
(* The inductive invariant of QueryEngine behind VerifiedTogether: what    *)
(* every activation of execute and of is_query_out_of_date on the call     *)
(* stack may rely on while the activations above it run.                   *)
(***************************************************************************)
EXTENDS QueryEngine

Frames == 1..Len(stack)

\* The recorded dependencies of q are among the queries it may run.
DependenciesUsed ==
    \A q \in Query : \A i \in DOMAIN query_dependencies[q] :
        query_dependencies[q][i] \in Uses[q]

\* The request is the outermost call; every stack lives in a revision.
RequestAtBottom ==
    stack # <<>> =>
        /\ stack[1].pc \in ExecutePoints
        /\ stack[1].parent = NoQuery
        /\ revision # 0

\* A call is for a query of lower rank than its caller's, except that execute
\* asks is_query_out_of_date about its own query.  No query is therefore being
\* computed, or scanned, twice at the same time.
RanksDescend ==
    \A i, k \in Frames :
        i < k =>
            /\ Rank[stack[k].query] <= Rank[stack[i].query]
            /\ stack[i].pc # "decide" =>
                  Rank[stack[k].query] < Rank[stack[i].query]

\* How a caller (f) and the call it has made (g) belong together.
Nested(f, g) ==
    \/ /\ f.pc = "decide"
       /\ g.pc \in CheckPoints /\ g.query = f.query /\ g.parent = NoQuery
    \/ /\ f.pc = "verify"
       /\ g.pc \in CheckPoints /\ g.parent = NoQuery
       /\ g.query = query_dependencies[f.query][f.at]
    \/ /\ f.pc = "refresh"
       /\ g.pc \in ExecutePoints /\ g.parent = NoQuery
       /\ g.query = query_dependencies[f.query][f.at]
    \/ /\ f.pc = "compute"
       /\ g.pc \in ExecutePoints /\ g.parent = f.query
       /\ g.query \in Uses[f.query]

CallsNested == \A i \in Frames : i > 1 => Nested(stack[i - 1], stack[i])

\* is_query_out_of_date(q) has been through the dependencies before "at", and
\* all of them are verified; q itself is not.
ScanOK(f) ==
    LET deps == query_dependencies[f.query]
    IN  /\ f.pc = "check" => f.at = 1
        /\ f.pc \in {"scan", "verify", "refresh"} =>
              /\ verified[f.query] \notin {0, revision}
              /\ f.at \in 1..(Len(deps) + 1)
              /\ \A j \in 1..(f.at - 1) : verified[deps[j]] = revision
        /\ f.pc \in {"verify", "refresh"} => f.at <= Len(deps)

ScansOK == \A i \in Frames : ScanOK(stack[i])

\* The last dependency recorded by the computation in frame i is the query
\* that it is running.
Running(i, j) ==
    /\ i < Len(stack)
    /\ stack[i + 1].pc # "lookup"
    /\ j = Len(query_dependencies[stack[i].query])
    /\ query_dependencies[stack[i].query][j] = stack[i + 1].query

\* A query being computed is not verified; what it has read is.
ComputationsOK ==
    \A i \in Frames :
        stack[i].pc = "compute" =>
            /\ verified[stack[i].query] # revision
            /\ \A j \in DOMAIN query_dependencies[stack[i].query] :
                  \/ verified[query_dependencies[stack[i].query][j]] = revision
                  \/ Running(i, j)

\* What the innermost activation knows when a call of its own has returned.
AnswerOK ==
    stack # <<>> =>
        /\ top.pc = "decide" =>
              /\ out_of_date = "no" => verified[top.query] = revision
              /\ out_of_date = "yes" => verified[top.query] # revision
        /\ top.pc = "verify" /\ out_of_date = "no" =>
              verified[scanned(top.query)] = revision
        /\ top.pc = "refresh" => verified[scanned(top.query)] = revision

\* is_query_out_of_date and execute call each other without getting in each
\* other's way: while a query is scanned or computed, its dependencies and its
\* verification belong to that activation alone, and a verdict that comes back
\* from an inner call still holds when it is used.
StackInvariant ==
    /\ RequestAtBottom
    /\ DependenciesUsed
    /\ RanksDescend
    /\ CallsNested
    /\ ScansOK
    /\ ComputationsOK
    /\ AnswerOK

\* The inductive invariant.
EngineInvariant ==
    /\ TypeOK
    /\ RevisionsOrdered
    /\ VerifiedTogether
    /\ StackInvariant
=============================================================================
