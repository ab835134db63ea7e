--------------------------- MODULE MCLifetimeCheck ---------------------------
(* Small functions for LifetimeCheck.  What can be compared is chosen per  *)
(* run, by what the function looks like so far.                            *)
EXTENDS LifetimeCheck

\* The constants Inner... stand for the functions themselves.  The LET is for
\* TLC, which follows a definition when it prepares to count what it costs,
\* but only up to there.
MCUnion(g, s, id) == LET inner == UnionEqualSuccessors(g, s, id) IN inner
MCProcess(g, s, id) == LET inner == ProcessNode(g, s, id) IN inner

MCSignatures ==
    {[lifetimes |-> NewGroup.lifetimes \o own, constraints |-> BaseConstraints] :
        own \in {<<"free">>} \cup {<<"free", name>> : name \in Names}}

MCNoLifetime == -1

StackRootId == 6

\* All but `static`, `unsafe` and `my`.
ScopedOrInferred(g) == {AnyLifetime, Ctx} \cup {id \in Ids(g) : id >= StackRootId}

\* The caller's arena, the function's stack and what was inferred in the
\* body.  The first must outlive the second, so that they can conflict.
ContextStackAndFree(g) == {Ctx} \cup {id \in Ids(g) : id >= StackRootId}

Assigned(g) == {i \in DOMAIN g.constraints : g.constraints[i].at # NoLocation}

Blocks(g) == {id \in Ids(g) : g.lifetimes[id] \in {"stack", "arena"}} \ {StackRootId}

\* What was inferred in the body.
FreeOnly(g) == {id \in Ids(g) : id > StackRootId}

\* A function with assignments has fewer lifetimes, and no names; more of them
\* are for functions that only open scopes, call and cast.
FewIfAssigned(g) == IF Assigned(g) = {} THEN 11 ELSE 8

AtMostNine(g) == 9

Compares(g) == MaxId(g) <= 8 /\ \A id \in Ids(g) : g.lifetimes[id] \notin Names

\* Two assignments in a function with blocks; in one without a third that
\* chains what was inferred, whatever the others have related it to.
ScopedOrChained(g) ==
    LET assigned == Cardinality(Assigned(g))
    IN  CASE ~Compares(g) -> {}
          [] Blocks(g) = {} /\ assigned < 2 -> ContextStackAndFree(g)
          [] Blocks(g) = {} /\ assigned = 2 -> FreeOnly(g)
          [] Blocks(g) # {} /\ assigned < 2 -> ScopedOrInferred(g)
          [] OTHER -> {}

Symmetry == Permutations(Locations)

=============================================================================
