---------------------------- MODULE LifetimeSolver ----------------------------
(***************************************************************************)
(* types/lifetimes.cpp: LifetimeSolver::solve as a function of the group.  *)
(* SccSolver condenses the constraint graph, with a variant of Tarjan's    *)
(* algorithm that follows equalities first, into classes of lifetimes and  *)
(* gives each class an order; ConflictDetector compares orders constraint  *)
(* by constraint; OutlivesCounterexample searches the cycle to report.     *)
(*                                                                         *)
(* The solver's mutable state is a record that is passed along: a          *)
(* LifetimeNode is spread over its fields tarjan, parent, lowlink, order   *)
(* and on_stack.  A loop is an instance of Loops; the two functions that   *)
(* call themselves do so through constants, Inner..., for which a          *)
(* configuration gives the functions themselves.                           *)
(***************************************************************************)
EXTENDS LifetimeGroup, SequencesExt

CONSTANTS
    InnerUnion(_, _, _),        \* UnionEqualSuccessors
    InnerProcess(_, _, _)       \* ProcessNode

None == 0       \* a null parent, an id that is not indexed

Least(a, b) == IF a <= b THEN a ELSE b

(* std::numeric_limits<size_t>::max(): above every tarjan id.              *)
Unbounded(group) == MaxId(group) + 1

FreshSolver(group) ==
    LET all(x) == [id \in Ids(group) |-> x]
    IN  [tarjan |-> all(None), parent |-> all(None),
         lowlink |-> all(Unbounded(group)), order |-> all(0),
         on_stack |-> {}, indexed |-> 0, sorted_id |-> 0,
         tarjan_stack |-> <<>>, outlives_stack |-> <<>>]

IsIndexed(s, id) == s.tarjan[id] # None

(* get_node: the node is made, and numbered, when it is first asked for.   *)
GetNode(s, id) ==
    IF IsIndexed(s, id) THEN s
    ELSE [s EXCEPT !.tarjan[id] = s.indexed + 1, !.indexed = @ + 1]

UnionFind(s, id) ==
    LET root[node \in DOMAIN s.parent] ==
            IF s.parent[node] = None THEN node ELSE root[s.parent[node]]
    IN  root[id]

Unify(s, left, right) ==
    LET right_root == UnionFind(s, right)
    IN  IF UnionFind(s, left) = right_root THEN s
        ELSE [s EXCEPT !.parent[right_root] = left]

OnStack(s, id) == UnionFind(s, id) \in s.on_stack

Lower(s, id, bound) == [s EXCEPT !.lowlink[id] = Least(@, bound)]

(* union_equal_successors: the lifetimes equal to this one that are not    *)
(* indexed join its class, with what they equal and outlive in turn.       *)
Absorb(at, t, c) ==
    LET equal == Other(c, at.id)
    IN  IF ~Equals(c, at.id) \/ IsIndexed(t, equal) THEN t
        ELSE InnerUnion(at.group, Unify(GetNode(t, equal), at.id, equal), equal)

Absorbing == INSTANCE Loops WITH Step <- Absorb

\* An outlived lifetime waits on the stack until it is indexed; one that is
\* under way lowers the lowlink of the node at hand.
SeeOutlived(at, t, c) ==
    LET lesser == Lesser(c)
    IN  IF ~Outlives(c, at.id) THEN t
        ELSE IF ~IsIndexed(t, lesser)
        THEN [t EXCEPT !.outlives_stack = Append(@, lesser)]
        ELSE IF ~OnStack(t, lesser) THEN t
        ELSE Lower(t, at.id, t.tarjan[UnionFind(t, lesser)])

Seeing == INSTANCE Loops WITH Step <- SeeOutlived

UnionEqualSuccessors(group, s, id) ==
    LET at == [group |-> group, id |-> id]
    IN  Seeing!Loop(at, Absorbing!Loop(at, s, group.constraints), group.constraints)

(* process_node empties the outlives stack twice: lifetimes that were      *)
(* indexed meanwhile lower the lowlink, the others are processed next.     *)
Drain(at, t, lesser) ==
    IF IsIndexed(t, lesser) /\ OnStack(t, lesser)
    THEN Lower(t, at.id, t.tarjan[UnionFind(t, lesser)]) ELSE t

Draining == INSTANCE Loops WITH Step <- Drain

Visit(at, t, lesser) ==
    IF IsIndexed(t, lesser) THEN t
    ELSE LET done == InnerProcess(at.group, t, lesser)
         IN  Lower(done, at.id, done.lowlink[lesser])

Visiting == INSTANCE Loops WITH Step <- Visit

(* The root of a component takes everything above it off Tarjan's stack.   *)
Pop(root, t, top) ==
    Unify([t EXCEPT !.on_stack = @ \ {top}, !.order[top] = t.sorted_id], root, top)

Popping == INSTANCE Loops WITH Step <- Pop

PopComponent(s, id) ==
    LET stack == s.tarjan_stack
        from == CHOOSE i \in DOMAIN stack :
                    stack[i] = id /\ \A j \in DOMAIN stack : j > i => stack[j] # id
        popped == Popping!Loop(id, s, Reverse(SubSeq(stack, from, Len(stack))))
    IN  [popped EXCEPT !.tarjan_stack = SubSeq(stack, 1, from - 1), !.sorted_id = @ + 1]

ProcessNode(group, s, id) ==
    LET at == [group |-> group, id |-> id]
        made == GetNode(s, id)
        opened == [made EXCEPT !.lowlink[id] = made.tarjan[id],
                               !.on_stack = @ \cup {id},
                               !.tarjan_stack = Append(@, id)]
        united == UnionEqualSuccessors(group, opened, id)
        queued == Reverse(united.outlives_stack)
        drained == Draining!Loop(at, [united EXCEPT !.outlives_stack = <<>>], queued)
        visited == Visiting!Loop(at, drained, queued)
    IN  IF visited.lowlink[id] = visited.tarjan[id]
        THEN PopComponent(visited, id) ELSE visited

\* Items are the lifetimes in the order of their ids.
Start(group, s, id) == IF IsIndexed(s, id) THEN s ELSE ProcessNode(group, s, id)

Starting == INSTANCE Loops WITH Step <- Start

Condensed(group) == Starting!Loop(group, FreshSolver(group), [id \in Ids(group) |-> id])

\* Mutant: the members of a class do not get the order of its root.
BuildUnrooted(group) == Condensed(group).order

(* build: the order of a lifetime is that of the root of its class.        *)
Build(group) ==
    LET done == Condensed(group)
    IN  [id \in Ids(group) |-> done.order[UnionFind(done, id)]]

-----------------------------------------------------------------------------
(* OutlivesCounterexample: a breadth-first search from the lesser to the   *)
(* greater lifetime of a violated constraint, through `outlives` and then  *)
(* `equals`, among lifetimes of the required order.  A candidate is done   *)
(* when it has reached the target and has passed a constraint with a       *)
(* location.  Whether a lifetime was reached with and without a location   *)
(* is all that NodeDistance decides: the search meets shorter paths first. *)

\* Mutant: equal orders satisfy a strict constraint.
ViolatedLoosely(order, c) ==
    IF c.rel \in {">", ">="} THEN order[c.left] < order[c.right]
    ELSE c.rel \in {"<", "<="} /\ order[c.left] > order[c.right]

Violated(order, c) ==
    \/ c.rel = ">" /\ order[c.left] <= order[c.right]
    \/ c.rel = ">=" /\ order[c.left] < order[c.right]
    \/ c.rel = "<" /\ order[c.left] >= order[c.right]
    \/ c.rel = "<=" /\ order[c.left] > order[c.right]

HasLocation(c) == c.at # NoLocation

Candidate(c) ==
    [path |-> <<c>>, visited |-> {Lesser(c)}, location |-> Lesser(c),
     located |-> HasLocation(c)]

\* Mutant: only the last constraint's location counts.
WithStepForgetting(candidate, c, next) ==
    [path |-> Append(candidate.path, c),
     visited |-> candidate.visited \cup {candidate.location},
     location |-> next,
     located |-> HasLocation(c)]

WithStep(candidate, c, next) ==
    [path |-> Append(candidate.path, c),
     visited |-> candidate.visited \cup {candidate.location},
     location |-> next,
     located |-> candidate.located \/ HasLocation(c)]

Completable(candidate, target) ==
    candidate.location = target /\ candidate.located

\* Mutant: a stack of candidates in place of the queue.
ExploreDeeper(from, search, c, next) ==
    LET extended == WithStep(from.candidate, c, next)
        reached == <<next, extended.located>>
    IN  IF \/ from.order[next] # from.order[from.target]
           \/ next \in from.candidate.visited
           \/ reached \in search.reached
        THEN search
        ELSE LET marked == [search EXCEPT !.reached = @ \cup {reached}]
             IN  IF Completable(extended, from.target)
                 THEN [marked EXCEPT !.best = extended.path]
                 ELSE [marked EXCEPT !.queue = <<extended>> \o @]

ExploreEdge(from, search, c, next) ==
    LET extended == WithStep(from.candidate, c, next)
        reached == <<next, extended.located>>
    IN  IF \/ from.order[next] # from.order[from.target]
           \/ next \in from.candidate.visited
           \/ reached \in search.reached
        THEN search
        ELSE LET marked == [search EXCEPT !.reached = @ \cup {reached}]
             IN  IF Completable(extended, from.target)
                 THEN [marked EXCEPT !.best = extended.path]
                 ELSE [marked EXCEPT !.queue = Append(@, extended)]

ExploreOutlived(from, search, c) ==
    IF Outlives(c, from.candidate.location)
    THEN ExploreEdge(from, search, c, Lesser(c)) ELSE search

ExploreEqual(from, search, c) ==
    IF Equals(c, from.candidate.location)
    THEN ExploreEdge(from, search, c, Other(c, from.candidate.location)) ELSE search

Descending == INSTANCE Loops WITH Step <- ExploreOutlived
Crossing == INSTANCE Loops WITH Step <- ExploreEqual

ContinuePath(in, search) ==
    LET from == [candidate |-> Head(search.queue), order |-> in.order, target |-> in.target]
        rest == [search EXCEPT !.queue = Tail(@)]
        down == Descending!Loop(from, rest, in.group.constraints)
    IN  Crossing!Loop(from, down, in.group.constraints)

Search(in, search, turn) ==
    IF search.queue = <<>> \/ search.best # <<>> THEN search ELSE ContinuePath(in, search)

Searching == INSTANCE Loops WITH Step <- Search

\* find_path: a lifetime is queued at most twice, with a location and without
\* one, and the first candidate is queued once more.
Turns(group) == [turn \in 1 .. 2 * MaxId(group) + 1 |-> turn]

FindPath(in, candidate) ==
    Searching!Loop(in, [queue |-> <<candidate>>, reached |-> {}, best |-> <<>>],
                   Turns(in.group)).best

\* Mutant: the path is told from where it begins.
RotateNowhere(path) == path

(* rotate: the cycle is told from its first constraint with a location.    *)
Rotate(path) ==
    LET Pivot(i) == HasLocation(path[i]) /\ \A j \in 1 .. i - 1 : ~HasLocation(path[j])
        pivot == CHOOSE i \in DOMAIN path : Pivot(i)
    IN  IF \A i \in DOMAIN path : ~HasLocation(path[i]) THEN path
        ELSE SubSeq(path, pivot, Len(path)) \o SubSeq(path, 1, pivot - 1)

Counterexample(group, order, c) ==
    Rotate(FindPath([group |-> group, order |-> order, target |-> Greater(c)], Candidate(c)))

-----------------------------------------------------------------------------
(* ConflictDetector.  The two exceptions report_unsatisfied_outlives can   *)
(* end in are told apart: the orders differ, and there is no path.         *)

(* candidates[location] = candidate.                                       *)
Enter(candidates, at, candidate) ==
    [l \in DOMAIN candidates \cup {at} |->
        IF l = at THEN candidate ELSE candidates[l]]

(* queue_error: of two errors at one place the one with the shorter path.  *)
QueueError(candidates, c, path) ==
    LET at == path[1].at
    IN  IF at \in DOMAIN candidates /\ Len(candidates[at].path) <= Len(path)
        THEN candidates
        ELSE Enter(candidates, at, [of |-> c, path |-> path])

CheckConflict(in, found, c) ==
    IF found.threw # "nothing" \/ ~Violated(in.order, c) THEN found
    ELSE IF in.order[c.left] # in.order[c.right]
    THEN [found EXCEPT !.threw = "orders differ"]
    ELSE LET path == Counterexample(in.group, in.order, c)
         IN  IF path = <<>> THEN [found EXCEPT !.threw = "no path"]
             ELSE [found EXCEPT !.candidates = QueueError(@, c, path)]

Checking == INSTANCE Loops WITH Step <- CheckConflict

NoErrors == [at \in {} |-> 0]

DetectAllConflicts(group, order) ==
    Checking!Loop([group |-> group, order |-> order],
                  [threw |-> "nothing", candidates |-> NoErrors], group.constraints)

(* solve: what the errors are reported from, and the order they were found *)
(* with.                                                                   *)
Solve(group) ==
    LET order == Build(group)
        found == DetectAllConflicts(group, order)
    IN  [order |-> order, threw |-> found.threw,
         candidates |-> found.candidates]

=============================================================================
