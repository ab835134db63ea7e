---------------------------- MODULE LifetimeCheck ----------------------------
(***************************************************************************)
(* One function definition from its signature to its lifetime errors:      *)
(* LifetimeTable collects, and when the type checker is through,           *)
(* LifetimeSolver::solve decides.  The properties compare its verdict with *)
(* what the constraints mean: they can be met by real scopes unless a      *)
(* lifetime would have to outlive itself.                                  *)
(***************************************************************************)
EXTENDS LifetimeTable, LifetimeSolver

VARIABLE result     \* of solve, Unsolved before

checkVars == <<vars, result>>

Unsolved == <<>>

CheckInit == Init /\ result = Unsolved

Collect == result = Unsolved /\ Next /\ UNCHANGED result

SolveGroup ==
    /\ stage = "check"
    /\ result = Unsolved
    /\ result' = <<Solve(group)>>
    /\ UNCHANGED vars

CheckNext == Collect \/ SolveGroup

CheckSpec == CheckInit /\ [][CheckNext]_checkVars

-----------------------------------------------------------------------------
(* What the constraints mean.                                              *)

\* What the constraints say about the members of S: they live at least as
\* long as these.
Below(g, S) ==
    LET equals == {c \in ToSet(g.constraints) : c.rel = "="}
        others == ToSet(g.constraints) \ equals
    IN  {Lesser(c) : c \in {d \in others : Greater(d) \in S}}
            \cup {c.right : c \in {d \in equals : d.left \in S}}
            \cup {c.left : c \in {d \in equals : d.right \in S}}

Ends(pairs, a) == {p[2] : p \in {q \in pairs : q[1] = a}}

\* Chains that pass through id, beside those that only pass through ids in
\* front of it.
Through(g, pairs, id) ==
    LET starts == {p[1] : p \in {q \in pairs : q[2] = id}}
    IN  pairs \cup (starts \X Ends(pairs, id))

Closing == INSTANCE Loops WITH Step <- Through

\* The same through any chain of constraints; a lifetime covers itself.
Covers(g) ==
    LET direct == UNION {{a} \X ({a} \cup Below(g, {a})) : a \in Ids(g)}
    IN  Closing!Loop(g, direct, [id \in Ids(g) |-> id])

Strict(c) == c.rel \in {">", "<"}

(* The constraints that cannot be met: something has to live longer than   *)
(* what lives at least as long.                                            *)
Impossible(g) ==
    LET covers == Covers(g)
    IN  {i \in DOMAIN g.constraints :
            LET c == g.constraints[i]
            IN  Strict(c) /\ <<Lesser(c), Greater(c)>> \in covers}

Satisfiable(g) == Impossible(g) = {}

HasEquality(g) == \E i \in DOMAIN g.constraints : g.constraints[i].rel = "="

Solved == result # Unsolved

order == result[1].order

threw == result[1].threw

candidates == result[1].candidates

-----------------------------------------------------------------------------
(* Properties of the solver.                                               *)

(* The solver finds exactly the constraints that cannot be met; when it    *)
(* gives up with an exception, it has found errors before only in a        *)
(* function whose lifetimes cannot be met.                                 *)
VerdictIsRight ==
    Solved =>
        IF threw = "nothing"
        THEN Impossible(group) =
                {i \in DOMAIN group.constraints : Violated(order, group.constraints[i])}
        ELSE DOMAIN candidates # {} => ~Satisfiable(group)

(* Two lifetimes get one order exactly if they cover each other, and none  *)
(* gets a higher order than one that covers it.                            *)
OrdersExact ==
    LET covers == Covers(group)
    IN  \A a, b \in Ids(group) :
            /\ <<a, b>> \in covers => order[a] >= order[b]
            /\ order[a] = order[b] <=> {<<a, b>>, <<b, a>>} \subseteq covers

(* The solver does not give up, and its orders are exact, as long as       *)
(* nothing must match; and every conflict between lifetimes of one order   *)
(* can be told from an expression, whatever must match:                    *)
(* report_unsatisfied_outlives never ends in "No path found".              *)
OrdersSuffice ==
    Solved =>
        /\ threw # "no path"
        /\ ~HasEquality(group) => threw = "nothing" /\ OrdersExact

(* Lifetimes that must match get the same order.  check_conflict relies on *)
(* it: it never looks at an Equals constraint.                             *)
EqualsKept ==
    Solved =>
        \A i \in DOMAIN group.constraints :
            LET c == group.constraints[i]
            IN  c.rel = "=" => order[c.left] = order[c.right]

(* Where a chain of constraints leads to from a lifetime.                  *)
Walk(g, from, c) ==
    IF c.rel = "="
    THEN {id \in {c.left, c.right} : \E f \in from : {f, id} = {c.left, c.right}}
    ELSE IF Greater(c) \in from THEN {Lesser(c)} ELSE {}

Walking == INSTANCE Loops WITH Step <- Walk

Walks(path, start) == Walking!Loop(group, {start}, path)

(* The causes given for an error really are one: constraints of the group  *)
(* that lead in a circle, the violated strict one among them, told from    *)
(* one that has the location of the error.                                 *)
ConflictsHaveACause ==
    Solved =>
        \A at \in DOMAIN candidates :
            LET path == candidates[at].path
            IN  /\ path[1].at = at /\ at # NoLocation
                /\ ToSet(path) \subseteq ToSet(group.constraints)
                /\ candidates[at].of \in ToSet(path) /\ Strict(candidates[at].of)
                /\ \E start \in Ids(group) : start \in Walks(path, start)

Approach(in, so, turn) ==
    IF in.target \in so.reached THEN so
    ELSE [reached |-> so.reached \cup Below(in.group, so.reached), steps |-> so.steps + 1]

Approaching == INSTANCE Loops WITH Step <- Approach

\* How many constraints it takes from one lifetime down to another.
Distance(g, start, target) ==
    Approaching!Loop([group |-> g, target |-> target], [reached |-> {start}, steps |-> 0],
                     [turn \in Ids(g) |-> turn]).steps

(* "Djikstra search to find the shortest possible causal chain": for no    *)
(* violated constraint is there a circle with fewer constraints than the   *)
(* one that is found.                                                      *)
CausesAreShortest ==
    Solved /\ threw = "nothing" =>
        \A i \in DOMAIN group.constraints :
            LET c == group.constraints[i]
            IN  Violated(order, c) =>
                    Len(Counterexample(group, order, c)) =
                        1 + Distance(group, Lesser(c), Greater(c))

(* types/lifetimes.cpp:84: "both of the above cases will only involve      *)
(* nodes with the same `order` values".                                    *)
SameOrderWhereViolated == Solved => threw # "orders differ"

=============================================================================
