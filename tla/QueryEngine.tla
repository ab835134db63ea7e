----------------------------- MODULE QueryEngine -----------------------------
(***************************************************************************)
(* The incremental query engine of the Arena compiler:                     *)
(* query/engine.hpp and query/engine.cpp.                                  *)
(*                                                                         *)
(* A query is a pure function of the results of other queries and, at the  *)
(* leaves, of the contents of source files.  The engine caches every       *)
(* result, records which queries each computation ran, and on the next     *)
(* request (a new revision) recomputes a query only when one of the        *)
(* queries it ran has changed since the query was last verified.           *)
(*                                                                         *)
(* The engine is one thread of mutually recursive C++ functions; its call  *)
(* stack is a variable here, so that the edits of the user, which may fall *)
(* between any two steps, and a std::runtime_error, which unwinds the      *)
(* whole stack, are seen in every position.  A query and the id it is      *)
(* given by get_query_metadata are identified.                             *)
(*                                                                         *)
(* Results are read through references into the cache (run_query returns   *)
(* const ResultType &), so what a running computation has read is not kept *)
(* in its frame: it is what the cache holds for its dependencies.          *)
(***************************************************************************)
EXTENDS Naturals, Sequences

CONSTANTS
    Query,            \* every query key
    Source,           \* the AlwaysRefresh queries: SourceContentsQuery{path}
    Contents,         \* what a file may contain
    Missing,          \* a file that cannot be opened
    Uses,             \* Uses[q]: the queries compute_query_result(q) may run
    Rank,             \* a rank by which the queries of the program are acyclic
    Demand(_, _),     \* Demand(q, reads): what q runs next, or Done
    Result(_, _),     \* Result(q, reads): what q returns when it has run them
    Same(_, _, _),    \* Same(q, previous, result): what operator== of q's
                      \* results may find, a subset of BOOLEAN
    Done,             \* the computation runs no further query
    NoQuery,          \* std::nullopt as parent id
    Requested,        \* the queries that callers execute
    CallerCatches,    \* does the caller of execute survive an exception?
    MaxRevision,      \* bound: requests made of the engine
    MaxEdits          \* bound: edits made by the user

ASSUME QueryAssumption ==
    /\ Source \subseteq Query
    /\ Requested \subseteq Query
    /\ Uses \in [Query -> SUBSET Query]
    /\ Rank \in [Query -> Nat]
    /\ \A q \in Query : \A d \in Uses[q] : Rank[d] < Rank[q]
    /\ \A s \in Source : Uses[s] = {}
    /\ Done \notin Query
    /\ NoQuery \notin Query
    /\ Missing \notin Contents
    /\ CallerCatches \in BOOLEAN
    /\ MaxRevision \in Nat
    /\ MaxEdits \in Nat

VARIABLES
    files,                \* [Source -> Contents or Missing], the user's disk
    edits,                \* number of edits so far, for the bound
    revision,             \* QueryEngine::revision
    changed,              \* RevisionUpdate::changed of every query
    verified,             \* RevisionUpdate::verified of every query
    query_dependencies,   \* the queries each query ran, in order
    query_cache,          \* a function from the queries with a cached result
    stack,                \* the call stack of the engine, top frame last
    out_of_date,          \* what is_query_out_of_date has just returned
    target,               \* the query of the request being served
    outcome,              \* how that request stands
    seen                  \* history: the contents read from disk for it

vars == <<files, edits, revision, changed, verified, query_dependencies,
          query_cache, stack, out_of_date, target, outcome, seen>>

world == <<files, edits>>
tables == <<changed, verified, query_dependencies, query_cache>>
request == <<revision, target>>

-----------------------------------------------------------------------------
(* The call stack. *)

\* Where a frame of execute, or of is_query_out_of_date, stands.
ExecutePoints == {"lookup", "decide", "compute"}
CheckPoints == {"check", "scan", "verify", "refresh"}

Frame == [pc : ExecutePoints \cup CheckPoints, query : Query,
          parent : Query \cup {NoQuery}, at : Nat]

ExecuteFrame(q, parent) ==
    [pc |-> "lookup", query |-> q, parent |-> parent, at |-> 1]
CheckFrame(q) ==
    [pc |-> "check", query |-> q, parent |-> NoQuery, at |-> 1]

top == stack[Len(stack)]
callers == SubSeq(stack, 1, Len(stack) - 1)

\* The engine is at point pc of its innermost call, which is for q.
At(pc, q) == stack # <<>> /\ top.pc = pc /\ top.query = q

GoTo(pc) == [stack EXCEPT ![Len(stack)].pc = pc]
Invoke(pc, frame) == Append(GoTo(pc), frame)

Return(answer) ==
    /\ stack' = callers
    /\ out_of_date' = answer

\* The dependency that the scan of is_query_out_of_date(q) is looking at.
scanned(q) == query_dependencies[q][top.at]

\* What the running computation of q has read so far.
Reads(q) == [i \in DOMAIN query_dependencies[q] |->
                query_cache[query_dependencies[q][i]]]

Cached == DOMAIN query_cache
Store(q, result) ==
    [x \in Cached \cup {q} |-> IF x = q THEN result ELSE query_cache[x]]

-----------------------------------------------------------------------------
(* The user edits, creates or deletes a file, whatever the engine is doing. *)

Edit(s, contents) ==
    /\ edits < MaxEdits
    /\ files[s] # contents
    /\ files' = [files EXCEPT ![s] = contents]
    /\ edits' = edits + 1
    /\ UNCHANGED <<tables, request, stack, out_of_date, outcome, seen>>

-----------------------------------------------------------------------------
(* execute *)

\* The public execute: a new revision for every request.
Execute(q) ==
    /\ outcome # "running"
    /\ outcome = "threw" => CallerCatches
    /\ revision < MaxRevision
    /\ revision' = revision + 1
    /\ target' = q
    /\ outcome' = "running"
    /\ seen' = [s \in {} |-> Missing]
    /\ stack' = <<ExecuteFrame(q, NoQuery)>>
    /\ out_of_date' = "unknown"
    /\ UNCHANGED <<world, tables>>

\* The parent records the dependency before anything can throw, then asks
\* whether q is out of date.
Lookup(q) ==
    /\ At("lookup", q)
    /\ query_dependencies' =
          IF top.parent = NoQuery THEN query_dependencies
          ELSE [query_dependencies EXCEPT ![top.parent] = Append(@, q)]
    /\ stack' = Invoke("decide", CheckFrame(q))
    /\ UNCHANGED <<world, changed, verified, query_cache, request,
                   out_of_date, outcome, seen>>

\* Every return of execute: the last one answers the request.
ReturnResult ==
    /\ Return("unknown")
    /\ outcome' = IF Len(stack) = 1 THEN "answered" ELSE outcome

\* Mutant: the exception is caught by the first caller.
ThrowToCaller ==
    /\ stack' = callers
    /\ out_of_date' = "unknown"
    /\ outcome' = "threw"

\* A std::runtime_error unwinds every frame.
Throw ==
    /\ stack' = <<>>
    /\ out_of_date' = "unknown"
    /\ outcome' = "threw"

\* The cached result is returned.  That there is one is the engine's own sanity
\* check ("Cache miss for up to date query"); RevisionsOrdered shows it holds.
UseCached(q) ==
    /\ At("decide", q)
    /\ out_of_date = "no"
    /\ q \in Cached
    /\ verified' = [verified EXCEPT ![q] = revision]
    /\ ReturnResult
    /\ UNCHANGED <<world, changed, query_dependencies, query_cache, request,
                   seen>>

\* Clear the dependencies; the computation will record them again.
Recompute(q) ==
    /\ At("decide", q)
    /\ out_of_date = "yes"
    /\ query_dependencies' = [query_dependencies EXCEPT ![q] = <<>>]
    /\ stack' = GoTo("compute")
    /\ out_of_date' = "unknown"
    /\ UNCHANGED <<world, changed, verified, query_cache, request, outcome,
                   seen>>

\* Mutant: a changed result is stored, but the query is not marked verified.
SettleUnverified(q, result) ==
    /\ changed' = [changed EXCEPT ![q] = revision]
    /\ query_cache' = Store(q, result)
    /\ ReturnResult
    /\ UNCHANGED <<verified, query_dependencies>>

\* Keep the previous result when the new one equals it (early cut-off).
Settle(q, result) ==
    /\ \/ /\ q \in Cached
          /\ TRUE \in Same(q, query_cache[q], result)
          /\ UNCHANGED <<changed, query_cache>>
       \/ /\ q \in Cached => FALSE \in Same(q, query_cache[q], result)
          /\ changed' = [changed EXCEPT ![q] = revision]
          /\ query_cache' = Store(q, result)
    /\ verified' = [verified EXCEPT ![q] = revision]
    /\ ReturnResult
    /\ UNCHANGED query_dependencies

\* compute_query_result of a source query reads the file as it is now.
ReadSource(q) ==
    /\ At("compute", q)
    /\ q \in Source
    /\ seen' = [s \in DOMAIN seen \cup {q} |->
                   IF s = q THEN files[q] ELSE seen[s]]
    /\ \/ /\ files[q] # Missing
          /\ Settle(q, files[q])
       \/ /\ files[q] = Missing
          /\ Throw
          /\ UNCHANGED tables
    /\ UNCHANGED <<world, request>>

\* compute_query_result runs another query, with q as the parent.
RunQuery(q) ==
    /\ At("compute", q)
    /\ q \notin Source
    /\ \E d \in Uses[q] :
          /\ Demand(q, Reads(q)) = d
          /\ stack' = Append(stack, ExecuteFrame(d, q))
    /\ UNCHANGED <<world, tables, request, out_of_date, outcome, seen>>

Finish(q) ==
    /\ At("compute", q)
    /\ q \notin Source
    /\ Demand(q, Reads(q)) = Done
    /\ Settle(q, Result(q, Reads(q)))
    /\ UNCHANGED <<world, request, seen>>

-----------------------------------------------------------------------------
(* is_query_out_of_date *)

\* Mutant: an AlwaysRefresh query is refreshed by every caller.
CheckRevisionEagerly(q) ==
    /\ At("check", q)
    /\ \/ /\ verified[q] = revision
          /\ q \notin Source
          /\ Return("no")
       \/ /\ verified[q] = 0 \/ q \in Source
          /\ Return("yes")
       \/ /\ verified[q] \notin {0, revision}
          /\ q \notin Source
          /\ stack' = GoTo("scan")
          /\ UNCHANGED out_of_date
    /\ UNCHANGED <<world, tables, request, outcome, seen>>

CheckRevision(q) ==
    /\ At("check", q)
    /\ \/ /\ verified[q] = revision
          /\ Return("no")
       \/ /\ verified[q] # revision
          /\ verified[q] = 0 \/ q \in Source
          /\ Return("yes")
       \/ /\ verified[q] \notin {0, revision}
          /\ q \notin Source
          /\ stack' = GoTo("scan")
          /\ UNCHANGED out_of_date
    /\ UNCHANGED <<world, tables, request, outcome, seen>>

\* Mutant: the scan does not advance.
SameDependency ==
    /\ stack' = [stack EXCEPT ![Len(stack)].pc = "scan"]
    /\ out_of_date' = "unknown"

NextDependency ==
    /\ stack' = [stack EXCEPT ![Len(stack)].pc = "scan",
                              ![Len(stack)].at = @ + 1]
    /\ out_of_date' = "unknown"

\* Mutant: a dependency not known to have changed is not verified first.
ScanDependencyShallow(q) ==
    /\ At("scan", q)
    /\ top.at <= Len(query_dependencies[q])
    /\ \/ /\ changed[scanned(q)] > verified[q]
          /\ Return("yes")
       \/ /\ changed[scanned(q)] <= verified[q]
          /\ NextDependency
    /\ UNCHANGED <<world, tables, request, outcome, seen>>

\* Mutant: off by one, a change at the revision of the verification counts.
ScanDependencyTwice(q) ==
    /\ At("scan", q)
    /\ top.at <= Len(query_dependencies[q])
    /\ \/ /\ changed[scanned(q)] >= verified[q]
          /\ Return("yes")
       \/ /\ changed[scanned(q)] < verified[q]
          /\ verified[scanned(q)] = revision
          /\ NextDependency
       \/ /\ changed[scanned(q)] < verified[q]
          /\ verified[scanned(q)] # revision
          /\ stack' = Invoke("verify", CheckFrame(scanned(q)))
          /\ UNCHANGED out_of_date
    /\ UNCHANGED <<world, tables, request, outcome, seen>>

ScanDependency(q) ==
    /\ At("scan", q)
    /\ top.at <= Len(query_dependencies[q])
    /\ \/ /\ changed[scanned(q)] > verified[q]
          /\ Return("yes")
       \/ /\ changed[scanned(q)] <= verified[q]
          /\ verified[scanned(q)] = revision
          /\ NextDependency
       \/ /\ changed[scanned(q)] <= verified[q]
          /\ verified[scanned(q)] # revision
          /\ stack' = Invoke("verify", CheckFrame(scanned(q)))
          /\ UNCHANGED out_of_date
    /\ UNCHANGED <<world, tables, request, outcome, seen>>

\* Mutant: the refreshed dependency is recorded a second time.
RefreshDependencyRecording(q) ==
    /\ At("verify", q)
    /\ out_of_date = "yes"
    /\ stack' = Invoke("refresh", ExecuteFrame(scanned(q), q))
    /\ out_of_date' = "unknown"
    /\ UNCHANGED <<world, tables, request, outcome, seen>>

\* Re-execute a dependency that is out of date; it has no parent, so that
\* verifying q records nothing.
RefreshDependency(q) ==
    /\ At("verify", q)
    /\ out_of_date = "yes"
    /\ stack' = Invoke("refresh", ExecuteFrame(scanned(q), NoQuery))
    /\ out_of_date' = "unknown"
    /\ UNCHANGED <<world, tables, request, outcome, seen>>

\* Mutant: once it is refreshed, a dependency counts as unchanged.
TrustDependencyBlindly(q) ==
    /\ \/ At("verify", q) /\ out_of_date = "no"
       \/ At("refresh", q)
    /\ NextDependency
    /\ UNCHANGED <<world, tables, request, outcome, seen>>

\* The dependency is verified or refreshed: its "changed" can be trusted.
TrustDependency(q) ==
    /\ \/ At("verify", q) /\ out_of_date = "no"
       \/ At("refresh", q)
    /\ \/ /\ changed[scanned(q)] > verified[q]
          /\ Return("yes")
       \/ /\ changed[scanned(q)] <= verified[q]
          /\ NextDependency
    /\ UNCHANGED <<world, tables, request, outcome, seen>>

\* Every dependency is verified: so is q.
AllVerified(q) ==
    /\ At("scan", q)
    /\ top.at > Len(query_dependencies[q])
    /\ verified' = [verified EXCEPT ![q] = revision]
    /\ Return("no")
    /\ UNCHANGED <<world, changed, query_dependencies, query_cache, request,
                   outcome, seen>>

-----------------------------------------------------------------------------

Init ==
    /\ files \in [Source -> Contents \cup {Missing}]
    /\ edits = 0
    /\ revision = 0
    /\ changed = [q \in Query |-> 0]
    /\ verified = [q \in Query |-> 0]
    /\ query_dependencies = [q \in Query |-> <<>>]
    /\ query_cache = [q \in {} |-> Missing]
    /\ stack = <<>>
    /\ out_of_date = "unknown"
    /\ target = NoQuery
    /\ outcome = "none"
    /\ seen = [s \in {} |-> Missing]

EngineStep ==
    \E q \in Query :
        \/ Lookup(q)
        \/ UseCached(q)
        \/ Recompute(q)
        \/ ReadSource(q)
        \/ RunQuery(q)
        \/ Finish(q)
        \/ CheckRevision(q)
        \/ ScanDependency(q)
        \/ RefreshDependency(q)
        \/ TrustDependency(q)
        \/ AllVerified(q)

UserStep ==
    \/ \E s \in Source, contents \in Contents \cup {Missing} :
          Edit(s, contents)
    \/ \E q \in Requested : Execute(q)

Next == EngineStep \/ UserStep

Spec == Init /\ [][Next]_vars

\* The engine is one thread that runs on until execute returns or throws.
FairSpec == Spec /\ WF_vars(EngineStep)
-----------------------------------------------------------------------------
(* Properties. *)

\* Types, and the call stack exists exactly while a request is being served.
TypeOK ==
    /\ files \in [Source -> Contents \cup {Missing}]
    /\ edits \in 0..MaxEdits
    /\ revision \in 0..MaxRevision
    /\ changed \in [Query -> Nat]
    /\ verified \in [Query -> Nat]
    /\ query_dependencies \in [Query -> Seq(Query)]
    /\ query_cache = [q \in Cached |-> query_cache[q]]
    /\ Cached \subseteq Query
    /\ stack \in Seq(Frame)
    /\ out_of_date \in {"unknown", "yes", "no"}
    /\ target \in Query \cup {NoQuery}
    /\ outcome \in {"none", "running", "answered", "threw"}
    /\ outcome = "running" <=> stack # <<>>
    /\ DOMAIN seen \subseteq Source

\* A query changes no later than it is verified, and the one sanity check of
\* the engine never fails: a query that was ever verified has a cached result
\* (execute, "Cache miss for up to date query").
RevisionsOrdered ==
    \A q \in Query :
        /\ changed[q] <= verified[q]
        /\ verified[q] <= revision
        /\ verified[q] # 0 => q \in Cached

\* "If a query's dependencies are all verified, the query can be verified":
\* and only then.  A query verified at this revision ran nothing that is not,
\* although results, verifications and an exception come in any order.
VerifiedTogether ==
    \A q \in Query :
        verified[q] = revision /\ revision # 0 =>
            \A i \in DOMAIN query_dependencies[q] :
                verified[query_dependencies[q][i]] = revision

\* The recorded dependencies are what the computation would run if it were
\* run on the results that are now in the cache, and the cached result is what
\* it would return.
Reproducible(q) ==
    LET deps == query_dependencies[q]
    IN  /\ \A i \in DOMAIN deps :
              Demand(q, SubSeq(Reads(q), 1, i - 1)) = deps[i]
        /\ Demand(q, Reads(q)) = Done
        /\ query_cache[q] = Result(q, Reads(q))

\* Whatever the engine skipped, a query verified at this revision has the
\* result that computing it again now would give, and a source verified at
\* this revision has the contents read for this request.
VerifiedAreFresh ==
    \A q \in Query :
        verified[q] = revision /\ revision # 0 =>
            IF q \in Source THEN q \in DOMAIN seen /\ query_cache[q] = seen[q]
            ELSE Reproducible(q)

\* What a step does to a query verified at this revision: nothing.
LeavesVerified(q) ==
    verified[q] = revision /\ revision # 0 /\ revision' = revision =>
        /\ verified'[q] = revision
        /\ changed'[q] = changed[q]
        /\ query_dependencies'[q] = query_dependencies[q]
        /\ q \in Cached /\ query_cache'[q] = query_cache[q]

\* run_query hands out references into the cache.  Within one request nothing
\* that was handed out changes, however late it is used.
ReferencesStable == [][\A q \in Query : LeavesVerified(q)]_vars

\* A result is computed again only when something it was computed from has
\* changed: the point of the engine (queries.md).
OnlyStaleRecomputed ==
    [][\A q \in Query \ Source :
          Recompute(q) /\ verified[q] # 0 =>
              \E i \in DOMAIN query_dependencies[q] :
                  changed[query_dependencies[q][i]] > verified[q]]_vars

\* "If the query result is different than the cached result, then this new
\* result is stored in the cache" (queries.md:18; engine.hpp:118 says of the
\* other case that the "Output is the same").
StoresDifferent ==
    \A q \in Query \ Source :
        Finish(q) /\ q \in Cached /\ query_cache[q] # Result(q, Reads(q)) =>
            query_cache'[q] = Result(q, Reads(q))

DifferentResultsStored == [][StoresDifferent]_vars

\* A request comes to an end: the recursion of execute and
\* is_query_out_of_date bottoms out whatever the user edits meanwhile.
RequestsEnd == outcome = "running" ~> outcome # "running"
=============================================================================
