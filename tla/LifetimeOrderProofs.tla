------------------------- MODULE LifetimeOrderProofs -------------------------
(***************************************************************************)
(* The lifetime solver, for any group: lifetimes get one order only if     *)
(* each covers the other, without equalities exactly then, and between     *)
(* lifetimes of one order the search for a counterexample finds a path.    *)
(* Together: report_unsatisfied_outlives does not end in "No path found",  *)
(* and not in any exception where nothing must match.                      *)
(*                                                                         *)
(* SccSolver is Tarjan's algorithm on classes: a node is numbered when it  *)
(* is found, the stack holds the roots of the classes that are under way,  *)
(* and the lowlink of a node on the stack is the number of one that it     *)
(* reaches without leaving what lies above that one on the stack.          *)
(***************************************************************************)
EXTENDS LifetimeProofs

-----------------------------------------------------------------------------
(* Where constraints lead to without leaving a set.                        *)

Reaches(g, X, a, b) ==
    /\ a \in X
    /\ \A S \in SUBSET X :
          a \in S /\ (\A x \in S : Below(g, {x}) \cap X \subseteq S) => b \in S

LEMMA ReachesItself ==
    ASSUME NEW g, NEW X, NEW a \in X
    PROVE  Reaches(g, X, a, a)
  BY DEF Reaches

LEMMA ReachesInside ==
    ASSUME NEW g, NEW X, NEW a, NEW b, Reaches(g, X, a, b)
    PROVE  a \in X /\ b \in X
  <1>1. X \in SUBSET X /\ \A x \in X : Below(g, {x}) \cap X \subseteq X
    OBVIOUS
  <1>2. QED
    BY <1>1 DEF Reaches

LEMMA ReachesFurther ==
    ASSUME NEW g, NEW X, NEW a, NEW b, NEW c, Reaches(g, X, a, b), Reaches(g, X, b, c)
    PROVE  Reaches(g, X, a, c)
  BY DEF Reaches

LEMMA ReachesBelow ==
    ASSUME NEW g, NEW X, NEW a \in X, NEW b \in X, b \in Below(g, {a})
    PROVE  Reaches(g, X, a, b)
  BY DEF Reaches

LEMMA ReachesWider ==
    ASSUME NEW g, NEW X, NEW Y, X \subseteq Y, NEW a, NEW b, Reaches(g, X, a, b)
    PROVE  Reaches(g, Y, a, b)
  <1>1. a \in Y
    BY DEF Reaches
  <1>2. ASSUME NEW S \in SUBSET Y, a \in S, \A x \in S : Below(g, {x}) \cap Y \subseteq S
        PROVE  b \in S
    <2> DEFINE T == S \cap X
    <2>1. T \in SUBSET X /\ a \in T
      BY <1>2 DEF Reaches
    <2>2. \A x \in T : Below(g, {x}) \cap X \subseteq T
      BY <1>2
    <2> HIDE DEF T
    <2>3. b \in T
      BY <2>1, <2>2 DEF Reaches
    <2>4. QED
      BY <2>3 DEF T
  <1>3. QED
    BY <1>1, <1>2 DEF Reaches

-----------------------------------------------------------------------------
(* What holds of the solver while it condenses.                            *)

\* The class of a lifetime, and the classes from a place of the stack on.
Class(g, s, x) == {y \in Ids(g) : UnionFind(s, y) = UnionFind(s, x)}

Above(g, s, q) ==
    {x \in Ids(g) : \E j \in q .. Len(s.tarjan_stack) : UnionFind(s, x) = s.tarjan_stack[j]}

Done(s, x) == IsIndexed(s, x) /\ ~OnStack(s, x)

\* The stack holds roots, the older ones below.
Stacked(g, s) ==
    /\ \A x \in Ids(g) :
          x \in s.on_stack <=> \E i \in 1 .. Len(s.tarjan_stack) : s.tarjan_stack[i] = x
    /\ \A i, j \in 1 .. Len(s.tarjan_stack) :
          i < j => s.tarjan[s.tarjan_stack[i]] < s.tarjan[s.tarjan_stack[j]]
    /\ \A x \in s.on_stack : IsIndexed(s, x) /\ UnionFind(s, x) = x

\* A class is numbered as a whole, and what is not is a class of its own.
Numbered(g, s) ==
    \A x \in Ids(g) :
        /\ s.tarjan[x] <= s.indexed
        /\ ~IsIndexed(s, x) => UnionFind(s, x) = x
        /\ IsIndexed(s, x) <=> IsIndexed(s, UnionFind(s, x))

\* The members of a class reach each other within it.
Connected(g, s) ==
    \A x \in Ids(g) :
        /\ Reaches(g, Class(g, s, x), x, UnionFind(s, x))
        /\ Reaches(g, Class(g, s, x), UnionFind(s, x), x)

\* A lowlink is the number of a root further down that the node reaches.
Traced(g, s, p) ==
    \E q \in 1 .. p :
        /\ s.lowlink[s.tarjan_stack[p]] = s.tarjan[s.tarjan_stack[q]]
        /\ Reaches(g, Above(g, s, q), s.tarjan_stack[p], s.tarjan_stack[q])

Tracing(g, s) == \A p \in 1 .. Len(s.tarjan_stack) : Traced(g, s, p)

\* Every class that is through has an order of its own.
Sorted(g, s) ==
    \A x, y \in Ids(g) : Done(s, x) /\ Done(s, y) =>
        /\ s.order[UnionFind(s, x)] < s.sorted_id
        /\ s.order[UnionFind(s, x)] = s.order[UnionFind(s, y)]
              => UnionFind(s, x) = UnionFind(s, y)

\* Where nothing must match, the classes that are under way have one member,
\* and what is below a class that is through is through and has no higher order.
Exact(g, s) ==
    ~HasEquality(g) =>
        \A x \in Ids(g) :
            /\ OnStack(s, x) => UnionFind(s, x) = x
            /\ Done(s, x) =>
                  \A y \in Below(g, {x}) :
                      Done(s, y) /\ s.order[UnionFind(s, y)] <= s.order[UnionFind(s, x)]

Ordering(g, s) ==
    /\ s \in Solving(g)
    /\ Stacked(g, s) /\ Numbered(g, s) /\ Connected(g, s)
    /\ Tracing(g, s) /\ Sorted(g, s) /\ Exact(g, s)

\* What was numbered keeps its number, its class and whether it is through.
Onward(g, s, t) ==
    /\ t \in Solving(g)
    /\ s.indexed <= t.indexed
    /\ \A x \in Ids(g) :
          /\ IsIndexed(s, x) =>
                /\ t.tarjan[x] = s.tarjan[x]
                /\ UnionFind(t, x) = UnionFind(s, x)
                /\ OnStack(t, x) <=> OnStack(s, x)
          /\ Done(s, x) => t.order[UnionFind(s, x)] = s.order[UnionFind(s, x)]
          /\ ~IsIndexed(s, x) /\ IsIndexed(t, x) => s.indexed < t.tarjan[x]
    /\ Len(s.tarjan_stack) <= Len(t.tarjan_stack)
    /\ \A i \in 1 .. Len(s.tarjan_stack) : t.tarjan_stack[i] = s.tarjan_stack[i]

\* What is below x has been found, and what of it is under way lies no deeper
\* than bound.
Seen(s, y, bound) ==
    IsIndexed(s, y) /\ (OnStack(s, y) => bound <= s.tarjan[UnionFind(s, y)])

Settled(g, s, x, bound) == \A y \in Below(g, {x}) : Seen(s, y, bound)

LEMMA SolverFields ==
    ASSUME NEW g, Referring(g), NEW s \in Solving(g)
    PROVE  /\ s \in Solvers(g)
           /\ \A x \in Ids(g) :
                 /\ x \in Nat /\ x # None
                 /\ s.tarjan[x] \in Nat /\ s.lowlink[x] \in Nat /\ s.order[x] \in Nat
                 /\ UnionFind(s, x) \in Ids(g)
                 /\ UnionFind(s, UnionFind(s, x)) = UnionFind(s, x)
           /\ s.on_stack \subseteq Ids(g)
           /\ s.indexed \in Nat /\ s.sorted_id \in Nat
           /\ s.tarjan_stack \in Seq(Ids(g)) /\ Len(s.tarjan_stack) \in Nat
           /\ DOMAIN s.tarjan_stack = 1 .. Len(s.tarjan_stack)
           /\ \A i \in 1 .. Len(s.tarjan_stack) : s.tarjan_stack[i] \in Ids(g)
           /\ s.outlives_stack \in Seq(Ids(g)) /\ Len(s.outlives_stack) \in Nat
           /\ \A i \in 1 .. Len(s.outlives_stack) : s.outlives_stack[i] \in Ids(g)
  <1>1. s \in Solvers(g)
    BY DEF Solving
  <1>2. \A x \in Ids(g) :
           s.tarjan[x] \in Nat /\ s.lowlink[x] \in Nat /\ s.order[x] \in Nat
    BY <1>1 DEF Solvers
  <1>3. \A x \in Ids(g) : x \in Nat /\ x # None
    BY IdsAreNumbers
  <1>4. /\ s.on_stack \subseteq Ids(g)
        /\ s.indexed \in Nat /\ s.sorted_id \in Nat
        /\ s.tarjan_stack \in Seq(Ids(g)) /\ s.outlives_stack \in Seq(Ids(g))
    BY <1>1 DEF Solvers
  <1>5. ASSUME NEW x \in Ids(g)
        PROVE  /\ UnionFind(s, x) \in Ids(g)
               /\ UnionFind(s, UnionFind(s, x)) = UnionFind(s, x)
    <2>1. PICK root \in [Ids(g) -> Ids(g)], rank \in [Ids(g) -> Nat] : Rooted(g, s, root, rank)
      BY DEF Solving, Forest
    <2>2. \A y \in Ids(g) : UnionFind(s, y) = root[y]
      BY <1>1, <2>1, FindsRoot
    <2>3. root[x] \in Ids(g) /\ s.parent[root[x]] = None
      BY <2>1 DEF Rooted
    <2>4. root[root[x]] = root[x]
      BY <2>1, <2>3 DEF Rooted
    <2>5. QED
      BY <2>2, <2>3, <2>4
  <1>6. /\ Len(s.tarjan_stack) \in Nat /\ DOMAIN s.tarjan_stack = 1 .. Len(s.tarjan_stack)
        /\ \A i \in 1 .. Len(s.tarjan_stack) : s.tarjan_stack[i] \in Ids(g)
        /\ Len(s.outlives_stack) \in Nat
        /\ \A i \in 1 .. Len(s.outlives_stack) : s.outlives_stack[i] \in Ids(g)
    BY <1>4
  <1>7. QED
    BY <1>1, <1>2, <1>3, <1>4, <1>5, <1>6

\* What lies higher on the stack lies in less of it.
LEMMA AboveShrinks ==
    ASSUME NEW g, Referring(g), NEW s \in Solving(g), NEW p \in Nat, NEW q \in Nat, q <= p
    PROVE  Above(g, s, p) \subseteq Above(g, s, q)
  <1>1. Len(s.tarjan_stack) \in Nat
    BY SolverFields
  <1>2. \A j \in p .. Len(s.tarjan_stack) : j \in q .. Len(s.tarjan_stack)
    BY <1>1
  <1>3. QED
    BY <1>2 DEF Above

\* The class of a root lies with the root.
LEMMA ClassAbove ==
    ASSUME NEW g, Referring(g), NEW s \in Solving(g), NEW x \in Ids(g),
           NEW q \in Nat, NEW j \in q .. Len(s.tarjan_stack), UnionFind(s, x) = s.tarjan_stack[j]
    PROVE  x \in Above(g, s, q) /\ Class(g, s, x) \subseteq Above(g, s, q)
  BY DEF Above, Class

\* Numbers say how the stack is ordered.
LEMMA StackAscends ==
    ASSUME NEW g, Referring(g), NEW s, Ordering(g, s),
           NEW i \in 1 .. Len(s.tarjan_stack), NEW j \in 1 .. Len(s.tarjan_stack)
    PROVE  /\ i <= j <=> s.tarjan[s.tarjan_stack[i]] <= s.tarjan[s.tarjan_stack[j]]
           /\ i < j <=> s.tarjan[s.tarjan_stack[i]] < s.tarjan[s.tarjan_stack[j]]
           /\ s.tarjan_stack[i] = s.tarjan_stack[j] => i = j
  <1>1. s \in Solving(g) /\ Stacked(g, s)
    BY DEF Ordering
  <1>2. /\ s.tarjan[s.tarjan_stack[i]] \in Nat /\ s.tarjan[s.tarjan_stack[j]] \in Nat
        /\ Len(s.tarjan_stack) \in Nat
    BY <1>1, SolverFields
  <1>3. /\ i < j => s.tarjan[s.tarjan_stack[i]] < s.tarjan[s.tarjan_stack[j]]
        /\ j < i => s.tarjan[s.tarjan_stack[j]] < s.tarjan[s.tarjan_stack[i]]
    BY <1>1 DEF Stacked
  <1>4. i < j \/ j < i \/ i = j
    BY <1>2
  <1>5. QED
    BY <1>2, <1>3, <1>4

\* The places of the stack are nodes under way, and what is under way has its
\* root there.
LEMMA StackPlaces ==
    ASSUME NEW g, Referring(g), NEW s, Ordering(g, s)
    PROVE  /\ \A i \in 1 .. Len(s.tarjan_stack) :
                 LET x == s.tarjan_stack[i]
                 IN  /\ x \in Ids(g) /\ x \in s.on_stack /\ IsIndexed(s, x)
                     /\ UnionFind(s, x) = x /\ OnStack(s, x)
           /\ \A x \in Ids(g) : OnStack(s, x) =>
                 /\ IsIndexed(s, x)
                 /\ \E i \in 1 .. Len(s.tarjan_stack) : UnionFind(s, x) = s.tarjan_stack[i]
  <1>1. s \in Solving(g) /\ Stacked(g, s) /\ Numbered(g, s)
    BY DEF Ordering
  <1>2. ASSUME NEW i \in 1 .. Len(s.tarjan_stack)
        PROVE  LET x == s.tarjan_stack[i]
               IN  /\ x \in Ids(g) /\ x \in s.on_stack /\ IsIndexed(s, x)
                   /\ UnionFind(s, x) = x /\ OnStack(s, x)
    <2>1. s.tarjan_stack[i] \in Ids(g)
      BY <1>1, SolverFields
    <2>2. QED
      BY <1>1, <2>1 DEF Stacked, OnStack
  <1>3. ASSUME NEW x \in Ids(g), OnStack(s, x)
        PROVE  /\ IsIndexed(s, x)
               /\ \E i \in 1 .. Len(s.tarjan_stack) : UnionFind(s, x) = s.tarjan_stack[i]
    <2>1. UnionFind(s, x) \in Ids(g) /\ UnionFind(s, x) \in s.on_stack
      BY <1>1, <1>3, SolverFields DEF OnStack
    <2>2. QED
      BY <1>1, <2>1 DEF Stacked, Numbered
  <1>4. QED
    BY <1>2, <1>3

LEMMA OnwardFromItself ==
    ASSUME NEW g, Referring(g), NEW s \in Solving(g)
    PROVE  Onward(g, s, s)
  <1>1. Len(s.tarjan_stack) \in Nat /\ s.indexed \in Nat
    BY SolverFields
  <1>2. QED
    BY <1>1 DEF Onward

LEMMA OnwardOnward ==
    ASSUME NEW g, Referring(g), NEW s \in Solving(g), NEW t, NEW u,
           Onward(g, s, t), Onward(g, t, u)
    PROVE  Onward(g, s, u)
  <1>1. t \in Solving(g) /\ u \in Solving(g)
    BY DEF Onward
  <1>2. /\ s.indexed \in Nat /\ t.indexed \in Nat /\ u.indexed \in Nat
        /\ Len(s.tarjan_stack) \in Nat /\ Len(t.tarjan_stack) \in Nat
        /\ Len(u.tarjan_stack) \in Nat
    BY <1>1, SolverFields
  <1>3. s.indexed <= u.indexed
    BY <1>2 DEF Onward
  <1>4. /\ Len(s.tarjan_stack) <= Len(u.tarjan_stack)
        /\ \A i \in 1 .. Len(s.tarjan_stack) : u.tarjan_stack[i] = s.tarjan_stack[i]
    BY <1>2 DEF Onward
  <1>5. ASSUME NEW x \in Ids(g)
        PROVE  /\ IsIndexed(s, x) =>
                     /\ u.tarjan[x] = s.tarjan[x]
                     /\ UnionFind(u, x) = UnionFind(s, x)
                     /\ OnStack(u, x) <=> OnStack(s, x)
               /\ Done(s, x) => u.order[UnionFind(s, x)] = s.order[UnionFind(s, x)]
               /\ ~IsIndexed(s, x) /\ IsIndexed(u, x) => s.indexed < u.tarjan[x]
    <2>1. IsIndexed(s, x) =>
             IsIndexed(t, x) /\ t.tarjan[x] = s.tarjan[x]
                /\ UnionFind(t, x) = UnionFind(s, x) /\ (OnStack(t, x) <=> OnStack(s, x))
      BY DEF Onward, IsIndexed
    <2>2. IsIndexed(t, x) =>
             u.tarjan[x] = t.tarjan[x]
                /\ UnionFind(u, x) = UnionFind(t, x) /\ (OnStack(u, x) <=> OnStack(t, x))
      BY DEF Onward
    <2>3. Done(s, x) => u.order[UnionFind(s, x)] = s.order[UnionFind(s, x)]
      <3>1. Done(s, x) => Done(t, x) /\ UnionFind(t, x) = UnionFind(s, x)
        BY <2>1 DEF Done
      <3>2. QED
        BY <3>1 DEF Onward
    <2>4. ASSUME ~IsIndexed(s, x), IsIndexed(u, x)
          PROVE  s.indexed < u.tarjan[x]
      <3>1. u.tarjan[x] \in Nat
        BY <1>1, SolverFields
      <3>2. CASE IsIndexed(t, x)
        BY <2>2, <2>4, <3>2 DEF Onward
      <3>3. CASE ~IsIndexed(t, x)
        <4>1. t.indexed < u.tarjan[x] /\ s.indexed <= t.indexed
          BY <2>4, <3>3 DEF Onward
        <4>2. QED
          BY <1>2, <3>1, <4>1
      <3>4. QED
        BY <3>2, <3>3
    <2>5. QED
      BY <2>1, <2>2, <2>3, <2>4
  <1>6. QED
    BY <1>1, <1>3, <1>4, <1>5 DEF Onward

\* What lay above a place of the stack still does.
LEMMA AboveKept ==
    ASSUME NEW g, Referring(g), NEW s, Ordering(g, s), NEW t, Onward(g, s, t), NEW q \in Nat \ {0}
    PROVE  Above(g, s, q) \subseteq Above(g, t, q)
  <1>1. SUFFICES ASSUME NEW x \in Ids(g), NEW j \in q .. Len(s.tarjan_stack),
                        UnionFind(s, x) = s.tarjan_stack[j]
                 PROVE  \E i \in q .. Len(t.tarjan_stack) : UnionFind(t, x) = t.tarjan_stack[i]
    BY DEF Above
  <1>2. s \in Solving(g) /\ t \in Solving(g) /\ Numbered(g, s)
    BY DEF Ordering, Onward
  <1>3. Len(s.tarjan_stack) \in Nat /\ Len(t.tarjan_stack) \in Nat
    BY <1>2, SolverFields
  <1>4. j \in 1 .. Len(s.tarjan_stack) /\ j \in q .. Len(t.tarjan_stack)
    BY <1>3 DEF Onward
  <1>5. IsIndexed(s, x)
    BY <1>1, <1>2, <1>4, StackPlaces DEF Numbered
  <1>6. UnionFind(t, x) = UnionFind(s, x) /\ t.tarjan_stack[j] = s.tarjan_stack[j]
    BY <1>4, <1>5 DEF Onward
  <1>7. QED
    BY <1>1, <1>4, <1>6

LEMMA TracedOn ==
    ASSUME NEW g, Referring(g), NEW s, Ordering(g, s), NEW t, Onward(g, s, t),
           NEW p \in 1 .. Len(s.tarjan_stack),
           t.lowlink[s.tarjan_stack[p]] = s.lowlink[s.tarjan_stack[p]]
    PROVE  Traced(g, t, p)
  <1>1. PICK q \in 1 .. p :
           /\ s.lowlink[s.tarjan_stack[p]] = s.tarjan[s.tarjan_stack[q]]
           /\ Reaches(g, Above(g, s, q), s.tarjan_stack[p], s.tarjan_stack[q])
    BY DEF Ordering, Tracing, Traced
  <1>2. s \in Solving(g) /\ t \in Solving(g)
    BY DEF Ordering, Onward
  <1>3. Len(s.tarjan_stack) \in Nat
    BY <1>2, SolverFields
  <1>4. q \in 1 .. Len(s.tarjan_stack) /\ q \in Nat \ {0}
    BY <1>3
  <1>5. t.tarjan_stack[p] = s.tarjan_stack[p] /\ t.tarjan_stack[q] = s.tarjan_stack[q]
    BY <1>4 DEF Onward
  <1>6. t.tarjan[s.tarjan_stack[q]] = s.tarjan[s.tarjan_stack[q]]
    BY <1>4, StackPlaces DEF Onward
  <1>7. Reaches(g, Above(g, t, q), s.tarjan_stack[p], s.tarjan_stack[q])
    BY <1>1, <1>4, AboveKept, ReachesWider
  <1>8. QED
    BY <1>1, <1>5, <1>6, <1>7 DEF Traced

LEMMA SeenOn ==
    ASSUME NEW g, NEW s, NEW t, Onward(g, s, t), NEW y \in Ids(g), NEW bound,
           Seen(s, y, bound), NEW root, root = UnionFind(s, y), IsIndexed(s, root), root \in Ids(g)
    PROVE  Seen(t, y, bound)
  <1>1. IsIndexed(s, y) /\ IsIndexed(t, y)
    BY DEF Seen, Onward, IsIndexed
  <1>2. UnionFind(t, y) = root /\ (OnStack(t, y) <=> OnStack(s, y))
        /\ t.tarjan[root] = s.tarjan[root]
    BY <1>1 DEF Onward
  <1>3. QED
    BY <1>1, <1>2 DEF Seen

-----------------------------------------------------------------------------
(* UnionEqualSuccessors. *)

\* A lifetime that is found through an equality joins the class.
LEMMA JoinedKeeps ==
    ASSUME NEW g, Referring(g), NEW s, Ordering(g, s), NEW id \in Ids(g), OnStack(s, id),
           NEW i \in DOMAIN g.constraints, Equals(g.constraints[i], id),
           NEW equal, equal = Other(g.constraints[i], id), ~IsIndexed(s, equal)
    PROVE  LET t == Unify(GetNode(s, equal), id, equal)
           IN  /\ Ordering(g, t) /\ Onward(g, s, t)
               /\ IsIndexed(t, equal) /\ UnionFind(t, equal) = UnionFind(s, id)
               /\ \A x \in Ids(g) : x # equal =>
                     UnionFind(t, x) = UnionFind(s, x) /\ (IsIndexed(t, x) <=> IsIndexed(s, x))
               /\ t.on_stack = s.on_stack /\ t.tarjan_stack = s.tarjan_stack
               /\ t.lowlink = s.lowlink /\ t.outlives_stack = s.outlives_stack
  <1> DEFINE made == GetNode(s, equal)
             t == Unify(made, id, equal)
             root == UnionFind(s, id)
             number == s.indexed + 1
  <1>1. /\ s \in Solving(g) /\ Stacked(g, s) /\ Numbered(g, s) /\ Connected(g, s)
        /\ Tracing(g, s) /\ Sorted(g, s) /\ Exact(g, s)
    BY DEF Ordering
  <1>2. equal \in Ids(g) /\ s \in Solvers(g)
    BY EndsAreLifetimes, <1>1, SolverFields
  <1>3. /\ IsIndexed(s, id) /\ id # equal /\ root \in Ids(g) /\ root # equal /\ IsIndexed(s, root)
        /\ root \in s.on_stack
    BY <1>1, <1>2, StackPlaces, SolverFields DEF Numbered, OnStack
  <1>4. UnionFind(s, equal) = equal
    BY <1>1, <1>2 DEF Numbered
  <1>5. number \in Nat /\ number # 0 /\ s.indexed \in Nat /\ s.indexed < number
    <2>1. s.indexed \in Nat
      BY <1>1, SolverFields
    <2>2. QED
      BY <2>1
  <1>6. made = [s EXCEPT !.tarjan = [s.tarjan EXCEPT ![equal] = number], !.indexed = number]
    BY DEF GetNode
  <1>7. made \in Solving(g)
    BY <1>1, <1>2, GetNodeIndexes
  <1> HIDE DEF number
  <1>8. /\ made.tarjan = [s.tarjan EXCEPT ![equal] = number] /\ made.indexed = number
        /\ made.parent = s.parent /\ made.lowlink = s.lowlink /\ made.order = s.order
        /\ made.on_stack = s.on_stack /\ made.sorted_id = s.sorted_id
        /\ made.tarjan_stack = s.tarjan_stack /\ made.outlives_stack = s.outlives_stack
    BY <1>2, <1>6 DEF Solvers
  <1> HIDE DEF made
  <1>9. \A x \in Ids(g) : UnionFind(made, x) = UnionFind(s, x)
    BY <1>1, <1>7, <1>8, SameParents DEF Solving
  <1>10. /\ t \in Solving(g)
         /\ \A x \in Ids(g) :
               UnionFind(t, x) = IF UnionFind(made, x) = UnionFind(made, equal)
                                 THEN UnionFind(made, id) ELSE UnionFind(made, x)
         /\ t = [made EXCEPT !.parent = t.parent]
    <2>1. t \in Solving(g) /\ t = [made EXCEPT !.parent = t.parent]
      BY <1>2, <1>7, UnifyJoins
    <2>2. \A x \in Ids(g) :
             UnionFind(t, x) = IF UnionFind(made, x) = UnionFind(made, equal)
                               THEN UnionFind(made, id) ELSE UnionFind(made, x)
      BY <1>2, <1>7, UnifyJoins
    <2>3. QED
      BY <2>1, <2>2
  <1> HIDE DEF t
  <1>11. /\ t.tarjan = made.tarjan /\ t.indexed = made.indexed
         /\ t.lowlink = made.lowlink /\ t.order = made.order
         /\ t.on_stack = made.on_stack /\ t.sorted_id = made.sorted_id
         /\ t.tarjan_stack = made.tarjan_stack /\ t.outlives_stack = made.outlives_stack
    BY <1>7, <1>10 DEF Solving, Solvers
  <1>12. ASSUME NEW x \in Ids(g), x # equal
         PROVE  /\ UnionFind(t, x) = UnionFind(s, x)
                /\ t.tarjan[x] = s.tarjan[x] /\ (IsIndexed(t, x) <=> IsIndexed(s, x))
    <2>1. UnionFind(s, x) # equal
      BY <1>1, <1>12 DEF Numbered
    <2>2. UnionFind(t, x) = UnionFind(s, x)
      BY <1>2, <1>4, <1>9, <1>10, <2>1
    <2>3. t.tarjan[x] = s.tarjan[x]
      BY <1>2, <1>8, <1>11, <1>12 DEF Solvers
    <2>4. QED
      BY <2>2, <2>3 DEF IsIndexed
  <1>13. /\ UnionFind(t, equal) = root /\ t.tarjan[equal] = number /\ IsIndexed(t, equal)
    <2>1. UnionFind(t, equal) = root
      BY <1>2, <1>9, <1>10
    <2>2. t.tarjan[equal] = number
      BY <1>2, <1>8, <1>11 DEF Solvers
    <2>3. QED
      BY <1>5, <2>1, <2>2 DEF IsIndexed, None
  <1>14. \A x \in Ids(g) : OnStack(t, x) <=> OnStack(s, x) \/ x = equal
    BY <1>3, <1>4, <1>8, <1>11, <1>12, <1>13 DEF OnStack
  <1>15. \A x \in Ids(g) : Done(t, x) <=> Done(s, x)
    BY <1>2, <1>12, <1>14 DEF Done
  <1>16. \A x \in Ids(g) : Class(g, s, x) \subseteq Class(g, t, x)
    <2>1. SUFFICES ASSUME NEW x \in Ids(g), NEW y \in Ids(g), UnionFind(s, y) = UnionFind(s, x)
                   PROVE  UnionFind(t, y) = UnionFind(t, x)
      BY DEF Class
    <2>2. x = equal => y = equal
      BY <1>1, <1>4, <2>1 DEF Numbered
    <2>3. y = equal => x = equal
      BY <1>1, <1>4, <2>1 DEF Numbered
    <2>4. QED
      BY <1>12, <2>1, <2>2, <2>3
  <1>17. Stacked(g, t)
    <2>1. \A x \in s.on_stack : x \in Ids(g) /\ x # equal /\ IsIndexed(s, x) /\ UnionFind(s, x) = x
      BY <1>1, SolverFields DEF Stacked
    <2>2. \A x \in t.on_stack : IsIndexed(t, x) /\ UnionFind(t, x) = x
      BY <1>8, <1>11, <1>12, <2>1
    <2>3. \A x \in Ids(g) :
             x \in t.on_stack <=> \E j \in 1 .. Len(t.tarjan_stack) : t.tarjan_stack[j] = x
      BY <1>1, <1>8, <1>11 DEF Stacked
    <2>4. \A j \in 1 .. Len(s.tarjan_stack) : t.tarjan[s.tarjan_stack[j]] = s.tarjan[s.tarjan_stack[j]]
      BY <1>12, <2>1, StackPlaces
    <2>5. \A j, k \in 1 .. Len(t.tarjan_stack) :
              j < k => t.tarjan[t.tarjan_stack[j]] < t.tarjan[t.tarjan_stack[k]]
      BY <1>1, <1>8, <1>11, <2>4 DEF Stacked
    <2>6. QED
      BY <2>2, <2>3, <2>5 DEF Stacked
  <1>18. Numbered(g, t)
    <2>1. SUFFICES ASSUME NEW x \in Ids(g)
                   PROVE  /\ t.tarjan[x] <= t.indexed
                          /\ ~IsIndexed(t, x) => UnionFind(t, x) = x
                          /\ IsIndexed(t, x) <=> IsIndexed(t, UnionFind(t, x))
      BY DEF Numbered
    <2>2. CASE x = equal
      BY <1>3, <1>5, <1>8, <1>11, <1>12, <1>13, <2>2
    <2>3. CASE x # equal
      <3>1. s.tarjan[x] <= s.indexed /\ s.tarjan[x] \in Nat /\ UnionFind(s, x) \in Ids(g)
        BY <1>1, SolverFields DEF Numbered
      <3>2. t.tarjan[x] <= t.indexed
        BY <1>5, <1>8, <1>11, <1>12, <2>3, <3>1
      <3>3. UnionFind(s, x) # equal
        BY <1>1, <2>3 DEF Numbered
      <3>4. QED
        BY <1>1, <1>12, <2>3, <3>1, <3>2, <3>3 DEF Numbered
    <2>4. QED
      BY <2>2, <2>3
  <1>19. Onward(g, s, t)
    <2>1. s.indexed <= t.indexed
      BY <1>5, <1>8, <1>11
    <2>2. \A x \in Ids(g) : ~IsIndexed(s, x) /\ IsIndexed(t, x) => s.indexed < t.tarjan[x]
      BY <1>5, <1>12, <1>13
    <2>3. \A x \in Ids(g) : IsIndexed(s, x) => x # equal
      OBVIOUS
    <2>4. Len(s.tarjan_stack) \in Nat
      BY <1>1, SolverFields
    <2>5. QED
      BY <1>8, <1>10, <1>11, <1>12, <1>14, <2>1, <2>2, <2>3, <2>4 DEF Onward
  <1>20. Connected(g, t)
    <2>1. SUFFICES ASSUME NEW x \in Ids(g)
                   PROVE  /\ Reaches(g, Class(g, t, x), x, UnionFind(t, x))
                          /\ Reaches(g, Class(g, t, x), UnionFind(t, x), x)
      BY DEF Connected
    <2>2. ASSUME NEW y \in Ids(g), y # equal
          PROVE  /\ Reaches(g, Class(g, t, y), y, UnionFind(t, y))
                 /\ Reaches(g, Class(g, t, y), UnionFind(t, y), y)
      <3>1. /\ Reaches(g, Class(g, s, y), y, UnionFind(s, y))
            /\ Reaches(g, Class(g, s, y), UnionFind(s, y), y)
        BY <1>1 DEF Connected
      <3>2. QED
        BY <1>12, <1>16, <2>2, <3>1, ReachesWider
    <2>3. CASE x = equal
      <3> DEFINE X == Class(g, t, equal)
      <3>1. Class(g, t, id) = X /\ id \in X /\ equal \in X /\ UnionFind(t, id) = root
        BY <1>2, <1>3, <1>12, <1>13 DEF Class
      <3>2. equal \in Below(g, {id}) /\ id \in Below(g, {equal})
        <4>1. Equals(g.constraints[i], equal) /\ id = Other(g.constraints[i], equal)
          BY DEF Equals, Other
        <4>2. QED
          BY <1>2, <4>1, BelowMeans
      <3>3. Reaches(g, X, equal, id) /\ Reaches(g, X, id, equal)
        BY <3>1, <3>2, ReachesBelow
      <3>4. Reaches(g, X, id, root) /\ Reaches(g, X, root, id)
        BY <1>3, <2>2, <3>1
      <3>5. Reaches(g, X, equal, root) /\ Reaches(g, X, root, equal)
        BY <3>3, <3>4, ReachesFurther
      <3>6. QED
        BY <1>13, <2>3, <3>5
    <2>4. QED
      BY <2>2, <2>3
  <1>21. Tracing(g, t)
    <2>1. \A p \in 1 .. Len(s.tarjan_stack) : Traced(g, t, p)
      BY <1>8, <1>11, <1>19, TracedOn
    <2>2. QED
      BY <1>8, <1>11, <2>1 DEF Tracing
  <1>22. Sorted(g, t)
    <2>1. \A x \in Ids(g) : Done(s, x) => UnionFind(t, x) = UnionFind(s, x)
      BY <1>12 DEF Done
    <2>2. QED
      BY <1>1, <1>8, <1>11, <1>15, <2>1 DEF Sorted
  <1>23. Exact(g, t)
    <2>1. HasEquality(g)
      BY DEF HasEquality, Equals
    <2>2. QED
      BY <2>1 DEF Exact
  <1>24. QED
    BY <1>2, <1>8, <1>10, <1>11, <1>12, <1>13, <1>17, <1>18, <1>19, <1>20, <1>21, <1>22, <1>23
       DEF Ordering, t, made

\* Only the lowlink of one lifetime and what waits are different.
Relinked(g, s, t, id) ==
    /\ t \in Solvers(g)
    /\ t.parent = s.parent /\ t.tarjan = s.tarjan /\ t.indexed = s.indexed
    /\ t.order = s.order /\ t.sorted_id = s.sorted_id
    /\ t.on_stack = s.on_stack /\ t.tarjan_stack = s.tarjan_stack
    /\ \A x \in Ids(g) : x # id => t.lowlink[x] = s.lowlink[x]

LEMMA RelinkedKeeps ==
    ASSUME NEW g, Referring(g), NEW s, Ordering(g, s), NEW id \in Ids(g), NEW t,
           Relinked(g, s, t, id),
           \A p \in 1 .. Len(s.tarjan_stack) : s.tarjan_stack[p] = id => Traced(g, t, p)
    PROVE  /\ Ordering(g, t) /\ Onward(g, s, t)
           /\ \A x : UnionFind(t, x) = UnionFind(s, x)
           /\ \A x : IsIndexed(t, x) <=> IsIndexed(s, x)
           /\ \A x : OnStack(t, x) <=> OnStack(s, x)
  <1>1. /\ s \in Solving(g) /\ Stacked(g, s) /\ Numbered(g, s) /\ Connected(g, s)
        /\ Tracing(g, s) /\ Sorted(g, s) /\ Exact(g, s)
    BY DEF Ordering
  <1>2. t \in Solving(g) /\ \A x : UnionFind(t, x) = UnionFind(s, x)
    BY <1>1, SameParents DEF Relinked
  <1>3. \A x : IsIndexed(t, x) <=> IsIndexed(s, x)
    BY DEF Relinked, IsIndexed
  <1>4. \A x : OnStack(t, x) <=> OnStack(s, x)
    BY <1>2 DEF Relinked, OnStack
  <1>5. \A x : Done(t, x) <=> Done(s, x)
    BY <1>3, <1>4 DEF Done
  <1>6. Onward(g, s, t)
    <2>1. Len(s.tarjan_stack) \in Nat /\ s.indexed \in Nat
      BY <1>1, SolverFields
    <2>2. QED
      BY <1>2, <1>3, <1>4, <2>1 DEF Onward, Relinked
  <1>7. \A x : Class(g, t, x) = Class(g, s, x)
    BY <1>2 DEF Class
  <1>8. Stacked(g, t)
    BY <1>1, <1>2, <1>3 DEF Stacked, Relinked
  <1>9. Numbered(g, t)
    BY <1>1, <1>2, <1>3 DEF Numbered, Relinked
  <1>10. Connected(g, t)
    BY <1>1, <1>2, <1>7 DEF Connected
  <1>11. Tracing(g, t)
    <2>1. ASSUME NEW p \in 1 .. Len(s.tarjan_stack), s.tarjan_stack[p] # id
          PROVE  Traced(g, t, p)
      <3>1. s.tarjan_stack[p] \in Ids(g)
        BY <1>1, SolverFields
      <3>2. QED
        BY <1>6, <2>1, <3>1, TracedOn DEF Relinked
    <2>2. QED
      BY <2>1 DEF Tracing, Relinked
  <1>12. Sorted(g, t)
    BY <1>1, <1>2, <1>5 DEF Sorted, Relinked
  <1>13. Exact(g, t)
    BY <1>1, <1>2, <1>4, <1>5 DEF Exact, Relinked
  <1>14. QED
    BY <1>2, <1>3, <1>4, <1>6, <1>8, <1>9, <1>10, <1>11, <1>12, <1>13 DEF Ordering

LEMMA RelinkedFurther ==
    ASSUME NEW g, NEW s, NEW t, NEW u, NEW id, Relinked(g, s, t, id), Relinked(g, t, u, id)
    PROVE  Relinked(g, s, u, id)
  BY DEF Relinked

LEMMA LowerRelinks ==
    ASSUME NEW g, NEW s \in Solvers(g), NEW id \in Ids(g), NEW bound \in Nat
    PROVE  LET t == Lower(s, id, bound)
           IN  /\ Relinked(g, s, t, id)
               /\ t.lowlink[id] = Least(s.lowlink[id], bound)
               /\ t.outlives_stack = s.outlives_stack
  <1> DEFINE lowlink == [s.lowlink EXCEPT ![id] = Least(@, bound)]
             t == Lower(s, id, bound)
  <1>1. lowlink \in [Ids(g) -> Nat] /\ lowlink[id] = Least(s.lowlink[id], bound)
        /\ \A x \in Ids(g) : x # id => lowlink[x] = s.lowlink[x]
    BY DEF Solvers, Least
  <1>2. t = [s EXCEPT !.lowlink = lowlink]
    BY DEF Lower
  <1> HIDE DEF lowlink, t
  <1>3. t.lowlink = lowlink /\ t.outlives_stack = s.outlives_stack /\ Relinked(g, s, t, id)
    BY <1>1, <1>2 DEF Solvers, Relinked
  <1>4. QED
    BY <1>1, <1>3 DEF t

\* The lowlink of a node on the stack may be lowered to the number of a root
\* that it reaches without leaving what lies above that.
LEMMA LowerTraces ==
    ASSUME NEW g, Referring(g), NEW s, Ordering(g, s), NEW id \in Ids(g), NEW bound \in Nat,
           id \in s.on_stack /\ bound < s.lowlink[id] =>
              \E q \in 1 .. Len(s.tarjan_stack) :
                  bound = s.tarjan[s.tarjan_stack[q]]
                  /\ Reaches(g, Above(g, s, q), id, s.tarjan_stack[q])
    PROVE  LET t == Lower(s, id, bound)
           IN  /\ Ordering(g, t) /\ Onward(g, s, t) /\ Relinked(g, s, t, id)
               /\ t.lowlink[id] = Least(s.lowlink[id], bound)
               /\ t.outlives_stack = s.outlives_stack
               /\ \A x : UnionFind(t, x) = UnionFind(s, x)
               /\ \A x : IsIndexed(t, x) <=> IsIndexed(s, x)
               /\ \A x : OnStack(t, x) <=> OnStack(s, x)
  <1> DEFINE t == Lower(s, id, bound)
  <1>1. s \in Solving(g) /\ s \in Solvers(g) /\ Tracing(g, s)
    BY SolverFields DEF Ordering
  <1>2. /\ Relinked(g, s, t, id) /\ t.lowlink[id] = Least(s.lowlink[id], bound)
        /\ t.outlives_stack = s.outlives_stack
    BY <1>1, LowerRelinks
  <1> HIDE DEF t
  <1>3. /\ t \in Solving(g) /\ t.tarjan = s.tarjan /\ t.tarjan_stack = s.tarjan_stack
        /\ \A x : UnionFind(t, x) = UnionFind(s, x)
    BY <1>1, <1>2, SameParents DEF Relinked
  <1>4. \A q : Above(g, t, q) = Above(g, s, q)
    BY <1>3 DEF Above
  <1>5. ASSUME NEW p \in 1 .. Len(s.tarjan_stack), s.tarjan_stack[p] = id
        PROVE  Traced(g, t, p)
    <2>1. s.lowlink[id] \in Nat /\ Len(s.tarjan_stack) \in Nat
      BY <1>1, SolverFields
    <2>2. PICK q \in 1 .. p :
             s.lowlink[id] = s.tarjan[s.tarjan_stack[q]]
             /\ Reaches(g, Above(g, s, q), id, s.tarjan_stack[q])
      BY <1>1, <1>5 DEF Tracing, Traced
    <2>3. CASE bound < s.lowlink[id]
      <3>1. id \in s.on_stack
        BY <1>5, StackPlaces
      <3>2. PICK r \in 1 .. Len(s.tarjan_stack) :
               bound = s.tarjan[s.tarjan_stack[r]]
               /\ Reaches(g, Above(g, s, r), id, s.tarjan_stack[r])
        BY <2>3, <3>1
      <3>3. q \in 1 .. Len(s.tarjan_stack)
        BY <2>1
      <3>4. r < q
        BY <2>2, <2>3, <3>2, <3>3, StackAscends
      <3>5. r \in 1 .. p
        BY <2>1, <3>4
      <3>6. t.lowlink[id] = bound
        BY <1>2, <2>1, <2>3 DEF Least
      <3>7. QED
        BY <1>3, <1>4, <1>5, <3>2, <3>5, <3>6 DEF Traced
    <2>4. CASE ~(bound < s.lowlink[id])
      <3>1. t.lowlink[id] = s.lowlink[id]
        BY <1>2, <2>1, <2>4 DEF Least
      <3>2. QED
        BY <1>3, <1>4, <1>5, <2>2, <3>1 DEF Traced
    <2>5. QED
      BY <2>3, <2>4
  <1>6. /\ Ordering(g, t) /\ Onward(g, s, t)
        /\ \A x : UnionFind(t, x) = UnionFind(s, x)
        /\ \A x : IsIndexed(t, x) <=> IsIndexed(s, x)
        /\ \A x : OnStack(t, x) <=> OnStack(s, x)
    BY <1>2, <1>5, RelinkedKeeps
  <1>7. QED
    BY <1>2, <1>6 DEF t

\* What is below a member of the class of a node, and under way.
LEMMA EdgeTraces ==
    ASSUME NEW g, Referring(g), NEW s, Ordering(g, s), NEW id \in s.on_stack,
           NEW m \in Ids(g), UnionFind(s, m) = id, NEW y \in Below(g, {m}), OnStack(s, y),
           s.tarjan[UnionFind(s, y)] < s.lowlink[id]
    PROVE  \E q \in 1 .. Len(s.tarjan_stack) :
              s.tarjan[UnionFind(s, y)] = s.tarjan[s.tarjan_stack[q]]
              /\ Reaches(g, Above(g, s, q), id, s.tarjan_stack[q])
  <1>1. s \in Solving(g) /\ Tracing(g, s) /\ Connected(g, s) /\ Stacked(g, s)
    BY DEF Ordering
  <1>2. y \in Ids(g) /\ id \in Ids(g) /\ Len(s.tarjan_stack) \in Nat
    BY <1>1, BelowLifetimes, SolverFields
  <1>3. PICK q \in 1 .. Len(s.tarjan_stack) : UnionFind(s, y) = s.tarjan_stack[q]
    BY <1>2, StackPlaces
  <1>4. PICK p \in 1 .. Len(s.tarjan_stack) : s.tarjan_stack[p] = id
    BY <1>1, <1>2 DEF Stacked
  <1>5. PICK r \in 1 .. p : s.lowlink[id] = s.tarjan[s.tarjan_stack[r]]
    BY <1>1, <1>4 DEF Tracing, Traced
  <1>6. q <= p
    <2>1. r \in 1 .. Len(s.tarjan_stack)
      BY <1>2
    <2>2. q < r
      BY <1>3, <1>5, <2>1, StackAscends
    <2>3. QED
      BY <1>2, <2>2
  <1>7. q \in Nat /\ p \in q .. Len(s.tarjan_stack) /\ q \in q .. Len(s.tarjan_stack)
    BY <1>2, <1>6
  <1>8. UnionFind(s, id) = id /\ m \in Class(g, s, id) /\ Class(g, s, m) = Class(g, s, id)
    BY <1>1 DEF Stacked, Class
  <1>9. /\ Class(g, s, id) \subseteq Above(g, s, q)
        /\ y \in Above(g, s, q) /\ Class(g, s, y) \subseteq Above(g, s, q)
    <2>1. Class(g, s, id) \subseteq Above(g, s, q)
      BY <1>1, <1>2, <1>4, <1>7, <1>8, ClassAbove
    <2>2. y \in Above(g, s, q) /\ Class(g, s, y) \subseteq Above(g, s, q)
      BY <1>1, <1>2, <1>3, <1>7, ClassAbove
    <2>3. QED
      BY <2>1, <2>2
  <1>10. Reaches(g, Above(g, s, q), id, m)
    <2>1. Reaches(g, Class(g, s, m), id, m)
      BY <1>1 DEF Connected
    <2>2. QED
      BY <1>8, <1>9, <2>1, ReachesWider
  <1>11. Reaches(g, Above(g, s, q), m, y)
    BY <1>8, <1>9, ReachesBelow
  <1>12. Reaches(g, Above(g, s, q), y, s.tarjan_stack[q])
    <2>1. Reaches(g, Class(g, s, y), y, UnionFind(s, y))
      BY <1>1, <1>2 DEF Connected
    <2>2. QED
      BY <1>3, <1>9, <2>1, ReachesWider
  <1>13. QED
    BY <1>3, <1>10, <1>11, <1>12, ReachesFurther

-----------------------------------------------------------------------------
(* What UnionEqualSuccessors leaves. *)

LEMMA OnwardLeaves ==
    ASSUME NEW g, Referring(g), NEW s, NEW t, Onward(g, s, t)
    PROVE  /\ \A x \in Ids(g) : IsIndexed(s, x) => IsIndexed(t, x)
           /\ Left(g, s) \in Nat /\ Left(g, t) \in Nat /\ Left(g, t) <= Left(g, s)
           /\ (\E x \in Ids(g) : IsIndexed(t, x) /\ ~IsIndexed(s, x)) => Left(g, t) < Left(g, s)
  <1> DEFINE S == {id \in Ids(g) : ~IsIndexed(s, id)}
             T == {id \in Ids(g) : ~IsIndexed(t, id)}
  <1>1. \A x \in Ids(g) : IsIndexed(s, x) => IsIndexed(t, x)
    BY DEF Onward, IsIndexed
  <1>2. IsFiniteSet(Ids(g)) /\ S \subseteq Ids(g) /\ T \subseteq S
    BY <1>1, IdsAreNumbers
  <1>3. IsFiniteSet(S) /\ IsFiniteSet(T)
    BY <1>2, FS_Subset
  <1>4. Cardinality(S) \in Nat /\ Cardinality(T) \in Nat
    BY <1>3, FS_CardinalityType
  <1>5. Cardinality(T) <= Cardinality(S) /\ (Cardinality(T) = Cardinality(S) => S = T)
    BY <1>2, <1>3, FS_Subset
  <1>6. (\E id \in Ids(g) : IsIndexed(t, id) /\ ~IsIndexed(s, id)) => S # T
    OBVIOUS
  <1>7. Left(g, s) = Cardinality(S) /\ Left(g, t) = Cardinality(T)
    BY DEF Left
  <1> HIDE DEF S, T
  <1>8. QED
    BY <1>1, <1>4, <1>5, <1>6, <1>7

LEMMA SeenLower ==
    ASSUME NEW g, Referring(g), NEW s \in Solving(g), NEW y \in Ids(g),
           NEW bound \in Nat, NEW lower \in Nat, lower <= bound, Seen(s, y, bound)
    PROVE  Seen(s, y, lower)
  <1>1. UnionFind(s, y) \in Ids(g)
    BY SolverFields
  <1>2. s.tarjan[UnionFind(s, y)] \in Nat
    BY <1>1, SolverFields
  <1>3. QED
    BY <1>2 DEF Seen

LEMMA SeenAlong ==
    ASSUME NEW g, Referring(g), NEW s, Ordering(g, s), NEW t, Onward(g, s, t),
           NEW y \in Ids(g), NEW bound, Seen(s, y, bound)
    PROVE  Seen(t, y, bound)
  <1>1. s \in Solving(g) /\ Numbered(g, s)
    BY DEF Ordering
  <1>2. UnionFind(s, y) \in Ids(g) /\ IsIndexed(s, UnionFind(s, y))
    BY <1>1, SolverFields DEF Seen, Numbered
  <1>3. QED
    BY <1>2, SeenOn

\* What waits is below a member of the class.
Queued(g, s, id) ==
    \A i \in 1 .. Len(s.outlives_stack) :
        \E m \in Ids(g) :
            UnionFind(s, m) = UnionFind(s, id) /\ s.outlives_stack[i] \in Below(g, {m})

Waits(s, y) == \E i \in 1 .. Len(s.outlives_stack) : s.outlives_stack[i] = y

\* The stack and the lowlinks on it, with the exception of one, are the same.
StackKept(g, s, t, except) ==
    /\ Ordering(g, t) /\ Onward(g, s, t)
    /\ t.tarjan_stack = s.tarjan_stack /\ t.on_stack = s.on_stack
    /\ \A x \in s.on_stack : x \notin except => t.lowlink[x] = s.lowlink[x]

Swept(g, s, t, id) ==
    /\ StackKept(g, s, t, {id})
    /\ Queued(g, s, id) => Queued(g, t, id)
    /\ ~HasEquality(g) =>
          \A y \in Below(g, {id}) : Waits(t, y) \/ Seen(t, y, t.lowlink[id])

Joined(g, s, id) ==
    {t \in Solving(g) : StackKept(g, s, t, {}) /\ (Queued(g, s, id) => Queued(g, t, id))}

LEMMA AbsorbJoins ==
    ASSUME SolverUnfolds, NEW g \in Group, Referring(g), NEW s, Ordering(g, s),
           NEW id \in Ids(g), OnStack(s, id),
           \A u \in Solving(g), x \in Ids(g) :
              Left(g, u) < Left(g, s) /\ Ordering(g, u) /\ OnStack(u, x) =>
                  Swept(g, u, UnionEqualSuccessors(g, u, x), x),
           NEW n \in DOMAIN g.constraints,
           NEW t \in Joined(g, s, id)
    PROVE  Absorb([group |-> g, id |-> id], t, g.constraints[n]) \in Joined(g, s, id)
  <1> DEFINE c == g.constraints[n]
             equal == Other(c, id)
             at == [group |-> g, id |-> id]
             u == Unify(GetNode(t, equal), id, equal)
             v == InnerUnion(g, u, equal)
  <1>1. /\ t \in Solving(g) /\ Ordering(g, t) /\ Onward(g, s, t) /\ s \in Solving(g)
        /\ t.tarjan_stack = s.tarjan_stack /\ t.on_stack = s.on_stack
        /\ \A x \in s.on_stack : t.lowlink[x] = s.lowlink[x]
        /\ Queued(g, s, id) => Queued(g, t, id)
    BY DEF Joined, StackKept, Ordering
  <1>2. equal \in Ids(g)
    BY EndsAreLifetimes
  <1>3. IsIndexed(s, id) /\ OnStack(t, id) /\ IsIndexed(t, id)
    BY <1>1, StackPlaces DEF Onward, IsIndexed
  <1>4. CASE ~Equals(c, id) \/ IsIndexed(t, equal)
    BY <1>4 DEF Absorb
  <1>5. CASE Equals(c, id) /\ ~IsIndexed(t, equal)
    <2>1. Absorb(at, t, c) = v
      BY <1>5 DEF Absorb
    <2>2. /\ Ordering(g, u) /\ Onward(g, t, u)
          /\ IsIndexed(u, equal) /\ UnionFind(u, equal) = UnionFind(t, id)
          /\ \A x \in Ids(g) : x # equal =>
                UnionFind(u, x) = UnionFind(t, x) /\ (IsIndexed(u, x) <=> IsIndexed(t, x))
          /\ u.on_stack = t.on_stack /\ u.tarjan_stack = t.tarjan_stack
          /\ u.lowlink = t.lowlink /\ u.outlives_stack = t.outlives_stack
      BY <1>1, <1>2, <1>3, <1>5, JoinedKeeps
    <2> HIDE DEF u
    <2>3. u \in Solving(g) /\ id # equal /\ UnionFind(u, id) = UnionFind(t, id)
          /\ IsIndexed(u, id) /\ OnStack(u, equal)
      BY <1>3, <1>5, <2>2 DEF Ordering, OnStack
    <2>4. Left(g, u) < Left(g, s)
      <3>1. Left(g, u) < Left(g, t) /\ Left(g, u) \in Nat /\ Left(g, t) \in Nat
        BY <1>2, <1>5, <2>2, OnwardLeaves
      <3>2. Left(g, t) <= Left(g, s) /\ Left(g, s) \in Nat
        BY <1>1, OnwardLeaves
      <3>3. QED
        BY <3>1, <3>2
    <2>5. Swept(g, u, v, equal)
      <3>1. v = UnionEqualSuccessors(g, u, equal)
        BY <1>2, <2>3 DEF SolverUnfolds
      <3>2. QED
        BY <1>2, <2>2, <2>3, <2>4, <3>1
    <2> HIDE DEF v
    <2>6. /\ Ordering(g, v) /\ Onward(g, u, v) /\ v \in Solving(g)
          /\ v.tarjan_stack = u.tarjan_stack /\ v.on_stack = u.on_stack
          /\ \A x \in u.on_stack : x # equal => v.lowlink[x] = u.lowlink[x]
          /\ Queued(g, u, equal) => Queued(g, v, equal)
      BY <2>5 DEF Swept, StackKept, Ordering
    <2>7. Onward(g, s, v)
      <3>1. Onward(g, t, v)
        BY <1>1, <2>2, <2>6, OnwardOnward
      <3>2. QED
        BY <1>1, <3>1, OnwardOnward
    <2>8. equal \notin t.on_stack
      BY <1>1, <1>5 DEF Ordering, Stacked
    <2>9. StackKept(g, s, v, {})
      BY <1>1, <2>2, <2>6, <2>7, <2>8 DEF StackKept
    <2>10. Queued(g, t, id) => Queued(g, v, id)
      <3>1. Queued(g, t, id) => Queued(g, u, equal)
        <4>1. UnionFind(t, equal) = equal /\ UnionFind(t, id) # equal
          BY <1>1, <1>2, <1>3, <1>5 DEF Ordering, Numbered
        <4>2. \A m \in Ids(g) : UnionFind(t, m) = UnionFind(t, id) =>
                 UnionFind(u, m) = UnionFind(u, equal)
          BY <2>2, <4>1
        <4>3. QED
          BY <2>2, <4>2 DEF Queued
      <3>2. UnionFind(v, id) = UnionFind(v, equal)
        BY <1>2, <2>2, <2>3, <2>6 DEF Onward
      <3>3. Queued(g, v, equal) => Queued(g, v, id)
        BY <3>2 DEF Queued
      <3>4. QED
        BY <2>6, <3>1, <3>3
    <2>11. QED
      BY <1>1, <2>1, <2>6, <2>9, <2>10 DEF Joined
  <1>6. QED
    BY <1>4, <1>5

LEMMA AbsorbingJoins ==
    ASSUME SolverUnfolds, NEW g \in Group, Referring(g), NEW s, Ordering(g, s),
           NEW id \in Ids(g), OnStack(s, id),
           \A u \in Solving(g), x \in Ids(g) :
              Left(g, u) < Left(g, s) /\ Ordering(g, u) /\ OnStack(u, x) =>
                  Swept(g, u, UnionEqualSuccessors(g, u, x), x)
    PROVE  Absorbing!Loop([group |-> g, id |-> id], s, g.constraints) \in Joined(g, s, id)
  <1> DEFINE at == [group |-> g, id |-> id]
             N == Len(g.constraints)
             W == [n \in 0 .. N |-> Joined(g, s, id)]
  <1>1. N \in Nat /\ DOMAIN g.constraints = 1 .. N
    BY IdsAreNumbers
  <1>2. s \in W[0]
    <2>1. s \in Solving(g) /\ Onward(g, s, s)
      BY OnwardFromItself DEF Ordering
    <2>2. s \in Joined(g, s, id)
      BY <2>1 DEF Joined, StackKept
    <2>3. QED
      BY <1>1, <2>2
  <1>3. ASSUME NEW n \in 1 .. N, NEW u \in W[n - 1]
        PROVE  Absorb(at, u, g.constraints[n]) \in W[n]
    <2>1. u \in Joined(g, s, id) /\ n \in DOMAIN g.constraints /\ W[n] = Joined(g, s, id)
      BY <1>1
    <2>2. Absorb(at, u, g.constraints[n]) \in Joined(g, s, id)
      BY <2>1, AbsorbJoins
    <2>3. QED
      BY <2>1, <2>2
  <1> HIDE DEF W, at
  <1>4. Absorbing!Loop(at, s, g.constraints) \in W[N]
    BY <1>1, <1>2, <1>3, Absorbing!LoopInvariant
  <1>5. QED
    BY <1>1, <1>4 DEF W, at

\* After n constraints what is below id by one of them waits or has been seen.
Looked(g, s, id, n) ==
    {t \in Solving(g) :
        /\ Ordering(g, t) /\ Onward(g, s, t) /\ Relinked(g, s, t, id)
        /\ Queued(g, s, id) => Queued(g, t, id)
        /\ \A i \in 1 .. n :
              LET c == g.constraints[i]
              IN  Outlives(c, id) => Waits(t, Lesser(c)) \/ Seen(t, Lesser(c), t.lowlink[id])}

LEMMA SeeOutlivedLooks ==
    ASSUME NEW g, Referring(g), NEW s, Ordering(g, s), NEW id \in Ids(g),
           NEW n \in DOMAIN g.constraints,
           NEW t \in Looked(g, s, id, n - 1)
    PROVE  SeeOutlived([group |-> g, id |-> id], t, g.constraints[n]) \in Looked(g, s, id, n)
  <1> DEFINE c == g.constraints[n]
             lesser == Lesser(c)
             at == [group |-> g, id |-> id]
  <1>1. /\ t \in Solving(g) /\ Ordering(g, t) /\ Onward(g, s, t) /\ Relinked(g, s, t, id)
        /\ Queued(g, s, id) => Queued(g, t, id)
        /\ \A i \in 1 .. n - 1 :
              LET d == g.constraints[i]
              IN  Outlives(d, id) => Waits(t, Lesser(d)) \/ Seen(t, Lesser(d), t.lowlink[id])
    BY DEF Looked
  <1>2. n \in 1 .. Len(g.constraints) /\ Len(g.constraints) \in Nat /\ lesser \in Ids(g)
        /\ \A i \in 1 .. n - 1 : i \in DOMAIN g.constraints /\ Lesser(g.constraints[i]) \in Ids(g)
    <2>1. /\ n \in 1 .. Len(g.constraints) /\ Len(g.constraints) \in Nat
          /\ DOMAIN g.constraints = 1 .. Len(g.constraints)
      BY IdsAreNumbers
    <2>2. \A i \in 1 .. n - 1 : i \in DOMAIN g.constraints
      BY <2>1
    <2>3. \A i \in DOMAIN g.constraints : Lesser(g.constraints[i]) \in Ids(g)
      BY EndsAreLifetimes
    <2>4. QED
      BY <2>1, <2>2, <2>3
  <1>3. \A i \in 1 .. n : i = n \/ i \in 1 .. n - 1
    BY <1>2
  <1>4. t \in Solvers(g) /\ s \in Solving(g) /\ t.lowlink[id] \in Nat
    BY <1>1, SolverFields DEF Ordering
  <1>5. CASE ~Outlives(c, id)
    <2>1. SeeOutlived(at, t, c) = t
      BY <1>5 DEF SeeOutlived
    <2>2. QED
      BY <1>1, <1>3, <1>5, <2>1 DEF Looked
  <1>6. CASE Outlives(c, id) /\ ~IsIndexed(t, lesser)
    <2> DEFINE waiting == Append(t.outlives_stack, lesser)
               u == [t EXCEPT !.outlives_stack = waiting]
               N == Len(t.outlives_stack)
    <2>1. SeeOutlived(at, t, c) = u
      BY <1>6 DEF SeeOutlived
    <2>2. /\ waiting \in Seq(Ids(g)) /\ Len(waiting) = N + 1 /\ N \in Nat
          /\ waiting[N + 1] = lesser
          /\ \A i \in 1 .. N : waiting[i] = t.outlives_stack[i]
      <3>1. t.outlives_stack \in Seq(Ids(g)) /\ N \in Nat
        BY <1>1, SolverFields
      <3>2. QED
        BY <1>2, <3>1
    <2> HIDE DEF waiting
    <2>3. /\ Relinked(g, t, u, id) /\ u.lowlink = t.lowlink /\ u.outlives_stack = waiting
      BY <1>4, <2>2 DEF Solvers, Relinked
    <2> HIDE DEF u, N
    <2>4. \A p \in 1 .. Len(t.tarjan_stack) : t.tarjan_stack[p] = id => Traced(g, u, p)
      <3>1. \A q : Above(g, u, q) = Above(g, t, q)
        <4>1. \A x : UnionFind(u, x) = UnionFind(t, x)
          BY <1>1, <2>3, SameParents DEF Relinked
        <4>2. QED
          BY <2>3, <4>1 DEF Above, Relinked
      <3>2. \A p \in 1 .. Len(t.tarjan_stack) : Traced(g, t, p)
        BY <1>1 DEF Ordering, Tracing
      <3>3. u.tarjan_stack = t.tarjan_stack /\ u.tarjan = t.tarjan /\ u.lowlink = t.lowlink
        BY <2>3 DEF Relinked
      <3>4. QED
        BY <3>1, <3>2, <3>3 DEF Traced
    <2>5. /\ Ordering(g, u) /\ Onward(g, t, u)
          /\ \A x : UnionFind(u, x) = UnionFind(t, x)
          /\ \A x : IsIndexed(u, x) <=> IsIndexed(t, x)
          /\ \A x : OnStack(u, x) <=> OnStack(t, x)
      BY <1>1, <2>3, <2>4, RelinkedKeeps
    <2>6. Onward(g, s, u) /\ Relinked(g, s, u, id)
      BY <1>1, <1>4, <2>3, <2>5, OnwardOnward, RelinkedFurther
    <2>7. Queued(g, t, id) => Queued(g, u, id)
      <3>1. lesser \in Below(g, {id})
        BY <1>6, BelowMeans
      <3>2. ASSUME Queued(g, t, id), NEW i \in 1 .. N + 1
            PROVE  \E m \in Ids(g) :
                      UnionFind(u, m) = UnionFind(u, id) /\ waiting[i] \in Below(g, {m})
        <4>1. CASE i = N + 1
          BY <2>2, <3>1, <4>1
        <4>2. CASE i \in 1 .. N
          BY <2>2, <2>5, <3>2, <4>2 DEF Queued, N
        <4>3. i = N + 1 \/ i \in 1 .. N
          BY <2>2
        <4>4. QED
          BY <4>1, <4>2, <4>3
      <3>3. QED
        BY <2>2, <2>3, <3>2 DEF Queued
    <2>8. ASSUME NEW i \in 1 .. n, Outlives(g.constraints[i], id)
          PROVE  Waits(u, Lesser(g.constraints[i]))
                 \/ Seen(u, Lesser(g.constraints[i]), u.lowlink[id])
      <3>1. CASE i = n
        BY <2>2, <2>3, <3>1 DEF Waits
      <3>2. CASE i \in 1 .. n - 1 /\ Waits(t, Lesser(g.constraints[i]))
        <4>1. PICK j \in 1 .. N : t.outlives_stack[j] = Lesser(g.constraints[i])
          BY <3>2 DEF Waits, N
        <4>2. j \in 1 .. N + 1 /\ waiting[j] = Lesser(g.constraints[i])
          BY <2>2, <4>1
        <4>3. QED
          BY <2>2, <2>3, <4>2 DEF Waits
      <3>3. CASE i \in 1 .. n - 1 /\ Seen(t, Lesser(g.constraints[i]), t.lowlink[id])
        BY <2>3, <2>5, <3>3 DEF Seen, Relinked
      <3>4. QED
        BY <1>1, <1>3, <2>8, <3>1, <3>2, <3>3
    <2>9. u \in Looked(g, s, id, n)
      BY <1>1, <2>5, <2>6, <2>7, <2>8 DEF Looked, Ordering
    <2>10. QED
      BY <2>1, <2>9
  <1>7. CASE Outlives(c, id) /\ IsIndexed(t, lesser) /\ ~OnStack(t, lesser)
    <2>1. SeeOutlived(at, t, c) = t
      BY <1>7 DEF SeeOutlived
    <2>2. Seen(t, lesser, t.lowlink[id])
      BY <1>7 DEF Seen
    <2>3. QED
      BY <1>1, <1>3, <2>1, <2>2 DEF Looked
  <1>8. CASE Outlives(c, id) /\ IsIndexed(t, lesser) /\ OnStack(t, lesser)
    <2> DEFINE bound == t.tarjan[UnionFind(t, lesser)]
               u == Lower(t, id, bound)
    <2>1. SeeOutlived(at, t, c) = u
      BY <1>8 DEF SeeOutlived
    <2>2. bound \in Nat
      BY <1>1, <1>2, SolverFields
    <2>3. ASSUME id \in t.on_stack, bound < t.lowlink[id]
          PROVE  \E q \in 1 .. Len(t.tarjan_stack) :
                    bound = t.tarjan[t.tarjan_stack[q]]
                    /\ Reaches(g, Above(g, t, q), id, t.tarjan_stack[q])
      <3>1. lesser \in Below(g, {id})
        BY <1>8, BelowMeans
      <3>2. UnionFind(t, id) = id
        BY <1>1, <2>3 DEF Ordering, Stacked
      <3>3. QED
        BY <1>1, <1>8, <2>3, <3>1, <3>2, EdgeTraces
    <2>4. /\ Ordering(g, u) /\ Onward(g, t, u) /\ Relinked(g, t, u, id)
          /\ u.lowlink[id] = Least(t.lowlink[id], bound)
          /\ u.outlives_stack = t.outlives_stack
          /\ \A x : UnionFind(u, x) = UnionFind(t, x)
          /\ \A x : IsIndexed(u, x) <=> IsIndexed(t, x)
          /\ \A x : OnStack(u, x) <=> OnStack(t, x)
      BY <1>1, <2>2, <2>3, LowerTraces
    <2> HIDE DEF u
    <2>5. Onward(g, s, u) /\ Relinked(g, s, u, id) /\ u \in Solving(g)
      BY <1>1, <1>4, <2>4, OnwardOnward, RelinkedFurther DEF Ordering
    <2>6. Queued(g, t, id) => Queued(g, u, id)
      BY <2>4 DEF Queued
    <2>7. u.lowlink[id] \in Nat /\ u.lowlink[id] <= t.lowlink[id] /\ u.lowlink[id] <= bound
      BY <1>4, <2>2, <2>4 DEF Least
    <2>8. ASSUME NEW i \in 1 .. n, Outlives(g.constraints[i], id)
          PROVE  Waits(u, Lesser(g.constraints[i]))
                 \/ Seen(u, Lesser(g.constraints[i]), u.lowlink[id])
      <3>1. CASE i = n
        <4>1. u.tarjan = t.tarjan
          BY <2>4 DEF Relinked
        <4>2. QED
          BY <1>8, <2>4, <2>7, <3>1, <4>1 DEF Seen
      <3>2. CASE i \in 1 .. n - 1 /\ Waits(t, Lesser(g.constraints[i]))
        BY <2>4, <3>2 DEF Waits
      <3>3. CASE i \in 1 .. n - 1 /\ Seen(t, Lesser(g.constraints[i]), t.lowlink[id])
        <4>1. Seen(u, Lesser(g.constraints[i]), t.lowlink[id])
          BY <2>4, <3>3 DEF Seen, Relinked
        <4>2. QED
          BY <1>2, <1>4, <2>5, <2>7, <3>3, <4>1, SeenLower
      <3>4. QED
        BY <1>1, <1>3, <2>8, <3>1, <3>2, <3>3
    <2>9. u \in Looked(g, s, id, n)
      BY <1>1, <2>4, <2>5, <2>6, <2>8 DEF Looked
    <2>10. QED
      BY <2>1, <2>9
  <1>9. QED
    BY <1>5, <1>6, <1>7, <1>8

LEMMA SeeingLooks ==
    ASSUME NEW g, Referring(g), NEW s, Ordering(g, s), NEW id \in Ids(g)
    PROVE  Seeing!Loop([group |-> g, id |-> id], s, g.constraints)
              \in Looked(g, s, id, Len(g.constraints))
  <1> DEFINE at == [group |-> g, id |-> id]
             N == Len(g.constraints)
             W == [n \in 0 .. N |-> Looked(g, s, id, n)]
  <1>1. N \in Nat /\ DOMAIN g.constraints = 1 .. N
    BY IdsAreNumbers
  <1>2. s \in W[0]
    <2>1. s \in Solving(g) /\ Onward(g, s, s) /\ s \in Solvers(g)
      BY OnwardFromItself, SolverFields DEF Ordering
    <2>2. s \in Looked(g, s, id, 0)
      BY <2>1 DEF Looked, Relinked
    <2>3. QED
      BY <1>1, <2>2
  <1>3. ASSUME NEW n \in 1 .. N, NEW u \in W[n - 1]
        PROVE  SeeOutlived(at, u, g.constraints[n]) \in W[n]
    <2>1. n - 1 \in 0 .. N /\ n \in 0 .. N /\ n \in DOMAIN g.constraints
      BY <1>1
    <2>2. u \in Looked(g, s, id, n - 1)
      BY <2>1
    <2>3. SeeOutlived(at, u, g.constraints[n]) \in Looked(g, s, id, n)
      BY <2>1, <2>2, SeeOutlivedLooks
    <2>4. QED
      BY <2>1, <2>3
  <1> HIDE DEF W, at
  <1>4. Seeing!Loop(at, s, g.constraints) \in W[N]
    BY <1>1, <1>2, <1>3, Seeing!LoopInvariant
  <1>5. QED
    BY <1>1, <1>4 DEF W, at

LEMMA UnionSweeps ==
    ASSUME SolverUnfolds, NEW g \in Group, Referring(g), NEW s, Ordering(g, s),
           NEW id \in Ids(g), OnStack(s, id)
    PROVE  Swept(g, s, UnionEqualSuccessors(g, s, id), id)
  <1> DEFINE T == {n \in Nat : \A u \in Solving(g), x \in Ids(g) :
                      Left(g, u) < n /\ Ordering(g, u) /\ OnStack(u, x) =>
                          Swept(g, u, UnionEqualSuccessors(g, u, x), x)}
  <1>1. \A u \in Solving(g) : Left(g, u) \in Nat
    BY LaterThanItself, LeftDescends
  <1>2. 0 \in T
    BY <1>1
  <1>3. ASSUME NEW n \in Nat, n \in T
        PROVE  n + 1 \in T
    <2>1. SUFFICES ASSUME NEW u \in Solving(g), NEW x \in Ids(g), Left(g, u) < n + 1,
                          Ordering(g, u), OnStack(u, x)
                   PROVE  Swept(g, u, UnionEqualSuccessors(g, u, x), x)
      OBVIOUS
    <2> DEFINE at == [group |-> g, id |-> x]
               joined == Absorbing!Loop(at, u, g.constraints)
               seen == Seeing!Loop(at, joined, g.constraints)
               N == Len(g.constraints)
    <2>2. \A v \in Solving(g), y \in Ids(g) :
             Left(g, v) < Left(g, u) /\ Ordering(g, v) /\ OnStack(v, y) =>
                 Swept(g, v, UnionEqualSuccessors(g, v, y), y)
      <3>1. \A v \in Solving(g) : Left(g, v) < Left(g, u) => Left(g, v) < n
        BY <1>1, <2>1
      <3>2. QED
        BY <1>3, <3>1
    <2>3. joined \in Joined(g, u, x)
      BY <2>1, <2>2, AbsorbingJoins
    <2>4. UnionEqualSuccessors(g, u, x) = seen
      BY DEF UnionEqualSuccessors
    <2> HIDE DEF joined
    <2>5. /\ Ordering(g, joined) /\ Onward(g, u, joined)
          /\ joined.tarjan_stack = u.tarjan_stack /\ joined.on_stack = u.on_stack
          /\ \A y \in u.on_stack : joined.lowlink[y] = u.lowlink[y]
          /\ Queued(g, u, x) => Queued(g, joined, x)
      BY <2>3 DEF Joined, StackKept
    <2>6. seen \in Looked(g, joined, x, N)
      BY <2>5, SeeingLooks
    <2> HIDE DEF seen
    <2>7. /\ Ordering(g, seen) /\ Onward(g, joined, seen) /\ Relinked(g, joined, seen, x)
          /\ Queued(g, joined, x) => Queued(g, seen, x)
          /\ \A i \in 1 .. N :
                LET c == g.constraints[i]
                IN  Outlives(c, x) =>
                       Waits(seen, Lesser(c)) \/ Seen(seen, Lesser(c), seen.lowlink[x])
      BY <2>6 DEF Looked
    <2>8. Onward(g, u, seen)
      BY <2>1, <2>5, <2>7, OnwardOnward
    <2>9. \A y \in u.on_stack : y \in Ids(g)
      BY <2>1, SolverFields
    <2>10. StackKept(g, u, seen, {x})
      BY <2>5, <2>7, <2>8, <2>9 DEF StackKept, Relinked
    <2>11. ASSUME ~HasEquality(g), NEW y \in Below(g, {x})
           PROVE  Waits(seen, y) \/ Seen(seen, y, seen.lowlink[x])
      <3>1. PICK i \in DOMAIN g.constraints :
               \/ Outlives(g.constraints[i], x) /\ y = Lesser(g.constraints[i])
               \/ Equals(g.constraints[i], x) /\ y = Other(g.constraints[i], x)
        BY BelowMeans
      <3>2. ~Equals(g.constraints[i], x)
        BY <2>11 DEF HasEquality, Equals
      <3>3. i \in 1 .. N
        BY IdsAreNumbers
      <3>4. QED
        BY <2>7, <3>1, <3>2, <3>3
    <2>12. QED
      BY <2>4, <2>5, <2>7, <2>10, <2>11 DEF Swept
  <1> HIDE DEF T
  <1>4. \A n \in Nat : n \in T
    BY <1>2, <1>3, StepByStep
  <1>5. Left(g, s) + 1 \in T /\ Left(g, s) < Left(g, s) + 1 /\ s \in Solving(g)
    BY <1>1, <1>4 DEF Ordering
  <1>6. QED
    BY <1>5 DEF T

-----------------------------------------------------------------------------
(* ProcessNode, up to where a component is complete. *)

LowKept(s, t) == \A x \in s.on_stack : t.lowlink[x] = s.lowlink[x]

LEMMA OpenedOrders ==
    ASSUME NEW g, Referring(g), NEW s, Ordering(g, s), NEW id \in Ids(g), ~IsIndexed(s, id)
    PROVE  LET t == Opened(s, id)
               k == Len(s.tarjan_stack) + 1
           IN  /\ Ordering(g, t) /\ Onward(g, s, t) /\ LowKept(s, t)
               /\ Len(t.tarjan_stack) = k /\ t.tarjan_stack[k] = id
               /\ t.outlives_stack = s.outlives_stack
  <1> DEFINE made == GetNode(s, id)
             number == s.indexed + 1
             k == Len(s.tarjan_stack) + 1
             lowlink == [s.lowlink EXCEPT ![id] = number]
             on_stack == s.on_stack \cup {id}
             stack == Append(s.tarjan_stack, id)
             tarjan == [s.tarjan EXCEPT ![id] = number]
             t == Opened(s, id)
  <1>1. /\ s \in Solving(g) /\ s \in Solvers(g) /\ Stacked(g, s) /\ Numbered(g, s)
        /\ Connected(g, s) /\ Tracing(g, s) /\ Sorted(g, s) /\ Exact(g, s)
    BY SolverFields DEF Ordering
  <1>2. /\ number \in Nat /\ number # 0 /\ s.indexed < number /\ s.indexed \in Nat
        /\ k \in Nat /\ k # 0 /\ Len(s.tarjan_stack) \in Nat /\ k - 1 = Len(s.tarjan_stack)
        /\ k > Len(s.tarjan_stack)
    <2>1. s.indexed \in Nat /\ Len(s.tarjan_stack) \in Nat
      BY <1>1, SolverFields
    <2>2. QED
      BY <2>1
  <1>3. /\ stack \in Seq(Ids(g)) /\ Len(stack) = k /\ stack[k] = id
        /\ \A i \in 1 .. k - 1 : stack[i] = s.tarjan_stack[i]
    <2>1. s.tarjan_stack \in Seq(Ids(g))
      BY <1>1, SolverFields
    <2>2. QED
      BY <2>1
  <1>4. /\ lowlink \in [Ids(g) -> Nat] /\ lowlink[id] = number
        /\ \A x \in Ids(g) : x # id => lowlink[x] = s.lowlink[x]
        /\ tarjan \in [Ids(g) -> Nat] /\ tarjan[id] = number
        /\ \A x \in Ids(g) : x # id => tarjan[x] = s.tarjan[x]
        /\ on_stack \in SUBSET Ids(g)
    BY <1>1, <1>2 DEF Solvers
  <1>5. made = [s EXCEPT !.tarjan = tarjan, !.indexed = number]
    BY DEF GetNode
  <1> HIDE DEF number, tarjan
  <1>6. made.tarjan = tarjan /\ made.lowlink = s.lowlink
        /\ made.on_stack = s.on_stack /\ made.tarjan_stack = s.tarjan_stack
    BY <1>1, <1>5 DEF Solvers
  <1>7. t = [made EXCEPT !.lowlink = lowlink, !.on_stack = on_stack, !.tarjan_stack = stack]
    BY <1>4, <1>6 DEF Opened
  <1> HIDE DEF made, lowlink, on_stack, stack, t
  <1>8. t = [s EXCEPT !.tarjan = tarjan, !.indexed = number, !.lowlink = lowlink,
                      !.on_stack = on_stack, !.tarjan_stack = stack]
    BY <1>1, <1>5, <1>7 DEF Solvers
  <1>9. /\ t.tarjan = tarjan /\ t.indexed = number /\ t.lowlink = lowlink
        /\ t.on_stack = on_stack /\ t.tarjan_stack = stack
        /\ t.parent = s.parent /\ t.order = s.order /\ t.sorted_id = s.sorted_id
        /\ t.outlives_stack = s.outlives_stack
        /\ t \in Solvers(g)
    BY <1>1, <1>2, <1>3, <1>4, <1>8 DEF Solvers
  <1>10. t \in Solving(g) /\ \A x : UnionFind(t, x) = UnionFind(s, x)
    BY <1>1, <1>9, SameParents
  <1>11. UnionFind(s, id) = id /\ id \notin s.on_stack
         /\ \A i \in 1 .. Len(s.tarjan_stack) : s.tarjan_stack[i] # id
    BY <1>1, StackPlaces DEF Numbered, Stacked
  <1>12. \A x \in Ids(g) : x # id => t.tarjan[x] = s.tarjan[x] /\ t.lowlink[x] = s.lowlink[x]
                                      /\ (IsIndexed(t, x) <=> IsIndexed(s, x))
    BY <1>4, <1>9 DEF IsIndexed
  <1>13. t.tarjan[id] = number /\ t.lowlink[id] = number /\ IsIndexed(t, id)
    BY <1>2, <1>4, <1>9 DEF IsIndexed, None
  <1>14. \A x \in Ids(g) : UnionFind(s, x) = id => x = id
    BY <1>1 DEF Numbered
  <1>15. \A x \in Ids(g) : OnStack(t, x) <=> OnStack(s, x) \/ x = id
    BY <1>9, <1>10, <1>11, <1>14 DEF OnStack, on_stack
  <1>16. \A x \in Ids(g) : Done(t, x) <=> Done(s, x)
    BY <1>12, <1>15 DEF Done
  <1>17. LowKept(s, t)
    <2>1. \A x \in s.on_stack : x \in Ids(g) /\ x # id
      BY <1>1, <1>11, SolverFields
    <2>2. QED
      BY <1>12, <2>1 DEF LowKept
  <1>18. Onward(g, s, t)
    <2>1. s.indexed <= t.indexed /\ Len(s.tarjan_stack) <= Len(t.tarjan_stack)
          /\ \A i \in 1 .. Len(s.tarjan_stack) : t.tarjan_stack[i] = s.tarjan_stack[i]
      BY <1>2, <1>3, <1>9
    <2>2. ASSUME NEW x \in Ids(g)
          PROVE  /\ IsIndexed(s, x) =>
                       /\ t.tarjan[x] = s.tarjan[x]
                       /\ UnionFind(t, x) = UnionFind(s, x)
                       /\ OnStack(t, x) <=> OnStack(s, x)
                 /\ Done(s, x) => t.order[UnionFind(s, x)] = s.order[UnionFind(s, x)]
                 /\ ~IsIndexed(s, x) /\ IsIndexed(t, x) => s.indexed < t.tarjan[x]
      BY <1>2, <1>9, <1>10, <1>12, <1>13, <1>15
    <2>3. QED
      BY <1>10, <2>1, <2>2 DEF Onward
  <1>19. Stacked(g, t)
    <2>1. \A i \in 1 .. k : i = k \/ i \in 1 .. k - 1
      BY <1>2
    <2>2. ASSUME NEW x \in Ids(g)
          PROVE  x \in t.on_stack <=> \E i \in 1 .. Len(t.tarjan_stack) : t.tarjan_stack[i] = x
      <3>1. x \in t.on_stack <=> x \in s.on_stack \/ x = id
        BY <1>9 DEF on_stack
      <3>2. x \in s.on_stack <=> \E i \in 1 .. k - 1 : s.tarjan_stack[i] = x
        BY <1>1, <1>2 DEF Stacked
      <3>3. (\E i \in 1 .. k : stack[i] = x) <=> x = id \/ \E i \in 1 .. k - 1 : s.tarjan_stack[i] = x
        <4>1. k \in 1 .. k /\ \A i \in 1 .. k - 1 : i \in 1 .. k
          BY <1>2
        <4>2. QED
          BY <1>3, <2>1, <4>1
      <3>4. QED
        BY <1>3, <1>9, <3>1, <3>2, <3>3
    <2>3. ASSUME NEW i \in 1 .. k, NEW j \in 1 .. k, i < j
          PROVE  t.tarjan[t.tarjan_stack[i]] < t.tarjan[t.tarjan_stack[j]]
      <3>1. i \in 1 .. k - 1
        BY <1>2, <2>3
      <3>2. /\ s.tarjan_stack[i] \in Ids(g) /\ s.tarjan_stack[i] # id
            /\ t.tarjan_stack[i] = s.tarjan_stack[i]
            /\ t.tarjan[s.tarjan_stack[i]] = s.tarjan[s.tarjan_stack[i]]
        BY <1>1, <1>2, <1>3, <1>9, <1>11, <1>12, <3>1, SolverFields
      <3>3. CASE j = k
        <4>1. s.tarjan[s.tarjan_stack[i]] <= s.indexed /\ s.tarjan[s.tarjan_stack[i]] \in Nat
          BY <1>1, <3>2, SolverFields DEF Numbered
        <4>2. QED
          BY <1>2, <1>3, <1>9, <1>13, <3>2, <3>3, <4>1
      <3>4. CASE j \in 1 .. k - 1
        <4>1. /\ s.tarjan_stack[j] \in Ids(g) /\ s.tarjan_stack[j] # id
              /\ t.tarjan_stack[j] = s.tarjan_stack[j]
              /\ t.tarjan[s.tarjan_stack[j]] = s.tarjan[s.tarjan_stack[j]]
          BY <1>1, <1>2, <1>3, <1>9, <1>11, <1>12, <3>4, SolverFields
        <4>2. s.tarjan[s.tarjan_stack[i]] < s.tarjan[s.tarjan_stack[j]]
          BY <1>1, <1>2, <2>3, <3>1, <3>4 DEF Stacked
        <4>3. QED
          BY <3>2, <4>1, <4>2
      <3>5. QED
        BY <2>1, <3>3, <3>4
    <2>4. ASSUME NEW x \in t.on_stack
          PROVE  IsIndexed(t, x) /\ UnionFind(t, x) = x
      <3>1. x = id \/ (x \in s.on_stack /\ x \in Ids(g) /\ x # id)
        BY <1>1, <1>9, <1>11, SolverFields DEF on_stack
      <3>2. QED
        BY <1>1, <1>10, <1>11, <1>12, <1>13, <3>1 DEF Stacked
    <2>5. QED
      BY <1>3, <1>9, <2>2, <2>3, <2>4 DEF Stacked
  <1>20. Numbered(g, t)
    <2>1. SUFFICES ASSUME NEW x \in Ids(g)
                   PROVE  /\ t.tarjan[x] <= t.indexed
                          /\ ~IsIndexed(t, x) => UnionFind(t, x) = x
                          /\ IsIndexed(t, x) <=> IsIndexed(t, UnionFind(t, x))
      BY DEF Numbered
    <2>2. CASE x = id
      BY <1>2, <1>9, <1>10, <1>11, <1>13, <2>2
    <2>3. CASE x # id
      <3>1. s.tarjan[x] <= s.indexed /\ s.tarjan[x] \in Nat /\ UnionFind(s, x) \in Ids(g)
        BY <1>1, SolverFields DEF Numbered
      <3>2. t.tarjan[x] <= t.indexed
        BY <1>2, <1>9, <1>12, <2>3, <3>1
      <3>3. QED
        BY <1>1, <1>10, <1>12, <1>14, <2>3, <3>1, <3>2 DEF Numbered
    <2>4. QED
      BY <2>2, <2>3
  <1>21. Connected(g, t)
    BY <1>1, <1>10 DEF Connected, Class
  <1>22. Tracing(g, t)
    <2>1. ASSUME NEW p \in 1 .. Len(s.tarjan_stack)
          PROVE  Traced(g, t, p)
      <3>1. s.tarjan_stack[p] \in s.on_stack
        BY StackPlaces
      <3>2. QED
        BY <1>17, <1>18, <3>1, TracedOn DEF LowKept
    <2>2. Traced(g, t, k)
      <3>1. id \in Above(g, t, k)
        BY <1>2, <1>3, <1>9, <1>10, <1>11 DEF Above
      <3>2. Reaches(g, Above(g, t, k), id, id)
        BY <3>1, ReachesItself
      <3>3. k \in 1 .. k /\ t.lowlink[t.tarjan_stack[k]] = t.tarjan[t.tarjan_stack[k]]
        BY <1>2, <1>3, <1>9, <1>13
      <3>4. QED
        BY <1>3, <1>9, <3>2, <3>3 DEF Traced
    <2>3. \A p \in 1 .. Len(t.tarjan_stack) : p = k \/ p \in 1 .. Len(s.tarjan_stack)
      BY <1>2, <1>3, <1>9
    <2>4. QED
      BY <2>1, <2>2, <2>3 DEF Tracing
  <1>23. Sorted(g, t)
    BY <1>1, <1>9, <1>10, <1>16 DEF Sorted
  <1>24. Exact(g, t)
    <2>1. ASSUME ~HasEquality(g), NEW x \in Ids(g)
          PROVE  /\ OnStack(t, x) => UnionFind(t, x) = x
                 /\ Done(t, x) =>
                       \A y \in Below(g, {x}) :
                           Done(t, y) /\ t.order[UnionFind(t, y)] <= t.order[UnionFind(t, x)]
      <3>1. OnStack(t, x) => UnionFind(t, x) = x
        BY <1>1, <1>10, <1>11, <1>15, <2>1 DEF Exact
      <3>2. \A y \in Below(g, {x}) : y \in Ids(g)
        BY BelowLifetimes
      <3>3. QED
        BY <1>1, <1>9, <1>10, <1>16, <2>1, <3>1, <3>2 DEF Exact
    <2>2. QED
      BY <2>1 DEF Exact
  <1>25. QED
    BY <1>3, <1>9, <1>10, <1>17, <1>18, <1>19, <1>20, <1>21, <1>22, <1>23, <1>24
       DEF Ordering, t

\* A lowlink is no higher than the number itself.
LEMMA LowlinkBounded ==
    ASSUME NEW g, Referring(g), NEW s, Ordering(g, s), NEW p \in 1 .. Len(s.tarjan_stack)
    PROVE  s.lowlink[s.tarjan_stack[p]] <= s.tarjan[s.tarjan_stack[p]]
  <1>1. PICK q \in 1 .. p : s.lowlink[s.tarjan_stack[p]] = s.tarjan[s.tarjan_stack[q]]
    BY DEF Ordering, Tracing, Traced
  <1>2. Len(s.tarjan_stack) \in Nat
    BY SolverFields DEF Ordering
  <1>3. q \in 1 .. Len(s.tarjan_stack) /\ q <= p
    BY <1>2
  <1>4. QED
    BY <1>1, <1>3, StackAscends

\* While id is explored, s is where that began: id reaches what has been put on
\* the stack since, each of it has reached something further down, and has
\* nothing below it that has not been seen.
Explored(g, s, t, id) ==
    LET k == Len(s.tarjan_stack) + 1
    IN  /\ Ordering(g, t) /\ Onward(g, s, t) /\ LowKept(s, t)
        /\ t.outlives_stack = <<>>
        /\ k <= Len(t.tarjan_stack) /\ t.tarjan_stack[k] = id
        /\ \A p \in k .. Len(t.tarjan_stack) : Reaches(g, Above(g, t, k), id, t.tarjan_stack[p])
        /\ \A p \in k + 1 .. Len(t.tarjan_stack) :
              /\ t.lowlink[t.tarjan_stack[p]] < t.tarjan[t.tarjan_stack[p]]
              /\ ~HasEquality(g) =>
                    Settled(g, t, t.tarjan_stack[p], t.lowlink[t.tarjan_stack[p]])

\* And of all lowlinks since, that of id is the lowest.
Exploring(g, s, t, id) ==
    /\ Explored(g, s, t, id)
    /\ \A p \in Len(s.tarjan_stack) + 1 .. Len(t.tarjan_stack) :
          t.lowlink[id] <= t.lowlink[t.tarjan_stack[p]]

LEMMA LowerExplores ==
    ASSUME NEW g, Referring(g), NEW s, Ordering(g, s), NEW id \in Ids(g), ~IsIndexed(s, id),
           NEW t, Explored(g, s, t, id), NEW bound \in Nat,
           bound < t.lowlink[id] =>
              \E q \in 1 .. Len(t.tarjan_stack) :
                  bound = t.tarjan[t.tarjan_stack[q]]
                  /\ Reaches(g, Above(g, t, q), id, t.tarjan_stack[q]),
           \A p \in Len(s.tarjan_stack) + 1 .. Len(t.tarjan_stack) :
              Least(t.lowlink[id], bound) <= t.lowlink[t.tarjan_stack[p]]
    PROVE  LET u == Lower(t, id, bound)
           IN  /\ Exploring(g, s, u, id) /\ Onward(g, t, u)
               /\ u.tarjan_stack = t.tarjan_stack
               /\ u.lowlink[id] = Least(t.lowlink[id], bound)
  <1> DEFINE u == Lower(t, id, bound)
             k == Len(s.tarjan_stack) + 1
  <1>1. /\ Ordering(g, t) /\ Onward(g, s, t) /\ LowKept(s, t) /\ t.outlives_stack = <<>>
        /\ k <= Len(t.tarjan_stack) /\ t.tarjan_stack[k] = id
        /\ \A p \in k .. Len(t.tarjan_stack) : Reaches(g, Above(g, t, k), id, t.tarjan_stack[p])
        /\ \A p \in k + 1 .. Len(t.tarjan_stack) :
              /\ t.lowlink[t.tarjan_stack[p]] < t.tarjan[t.tarjan_stack[p]]
              /\ ~HasEquality(g) =>
                    Settled(g, t, t.tarjan_stack[p], t.lowlink[t.tarjan_stack[p]])
    BY DEF Explored
  <1>2. s \in Solving(g) /\ t \in Solving(g) /\ Len(s.tarjan_stack) \in Nat
        /\ Len(t.tarjan_stack) \in Nat /\ t.lowlink[id] \in Nat
    BY <1>1, SolverFields DEF Ordering
  <1>3. /\ Ordering(g, u) /\ Onward(g, t, u) /\ Relinked(g, t, u, id)
        /\ u.lowlink[id] = Least(t.lowlink[id], bound)
        /\ u.outlives_stack = t.outlives_stack
        /\ \A x : UnionFind(u, x) = UnionFind(t, x)
        /\ \A x : IsIndexed(u, x) <=> IsIndexed(t, x)
        /\ \A x : OnStack(u, x) <=> OnStack(t, x)
    BY <1>1, LowerTraces
  <1> HIDE DEF u
  <1>4. u.tarjan_stack = t.tarjan_stack /\ u.tarjan = t.tarjan
        /\ \A x \in Ids(g) : x # id => u.lowlink[x] = t.lowlink[x]
    BY <1>3 DEF Relinked
  <1>5. Onward(g, s, u)
    BY <1>1, <1>2, <1>3, OnwardOnward
  <1>6. LowKept(s, u)
    <2>1. \A x \in s.on_stack : x \in Ids(g) /\ x # id
      BY <1>2, SolverFields DEF Ordering, Stacked
    <2>2. QED
      BY <1>1, <1>4, <2>1 DEF LowKept
  <1>7. Above(g, u, k) = Above(g, t, k)
    BY <1>3, <1>4 DEF Above
  <1>8. ASSUME NEW p \in k + 1 .. Len(t.tarjan_stack)
        PROVE  u.lowlink[t.tarjan_stack[p]] = t.lowlink[t.tarjan_stack[p]]
    <2>1. p \in 1 .. Len(t.tarjan_stack) /\ k \in 1 .. Len(t.tarjan_stack) /\ p # k
      BY <1>1, <1>2
    <2>2. t.tarjan_stack[p] # id /\ t.tarjan_stack[p] \in Ids(g)
      BY <1>1, <1>2, <2>1, StackAscends, SolverFields
    <2>3. QED
      BY <1>4, <2>2
  <1>9. Explored(g, s, u, id)
    <2>1. \A x, b : Settled(g, t, x, b) => Settled(g, u, x, b)
      BY <1>3, <1>4 DEF Settled, Seen
    <2>2. QED
      BY <1>1, <1>3, <1>4, <1>5, <1>6, <1>7, <1>8, <2>1 DEF Explored
  <1>10. ASSUME NEW p \in k .. Len(t.tarjan_stack)
         PROVE  u.lowlink[id] <= u.lowlink[t.tarjan_stack[p]]
    <2>1. p = k \/ p \in k + 1 .. Len(t.tarjan_stack)
      BY <1>2
    <2>2. u.lowlink[id] \in Nat
      BY <1>3, SolverFields DEF Ordering
    <2>3. QED
      BY <1>1, <1>3, <1>8, <2>1, <2>2
  <1>11. QED
    BY <1>3, <1>4, <1>9, <1>10 DEF Exploring, u

-----------------------------------------------------------------------------
(* The lifetimes that were queued are drained and visited. *)

\* The lifetimes that were queued are below members of the class of id.
Hanging(g, s, id, items) ==
    \A i \in 1 .. Len(items) :
        \E m \in Ids(g) : UnionFind(s, m) = UnionFind(s, id) /\ items[i] \in Below(g, {m})

LEMMA HangingOn ==
    ASSUME NEW g, Referring(g), NEW s, Ordering(g, s), NEW id \in Ids(g), IsIndexed(s, id),
           NEW items, Hanging(g, s, id, items), NEW t, Onward(g, s, t)
    PROVE  Hanging(g, t, id, items)
  <1>1. Numbered(g, s)
    BY DEF Ordering
  <1>2. \A m \in Ids(g) : UnionFind(s, m) = UnionFind(s, id) =>
           IsIndexed(s, m) /\ UnionFind(t, m) = UnionFind(t, id)
    BY <1>1 DEF Numbered, Onward
  <1>3. QED
    BY <1>2 DEF Hanging

\* What is put on the stack for a lifetime reached from id can reach down as
\* far as that lifetime.
LEMMA HangingTraces ==
    ASSUME NEW g, Referring(g), NEW s, Ordering(g, s), NEW id \in Ids(g),
           NEW k \in 1 .. Len(s.tarjan_stack), s.tarjan_stack[k] = id,
           NEW m \in Ids(g), UnionFind(s, m) = id, NEW y \in Below(g, {m}),
           NEW X, Above(g, s, k) \subseteq X, y \in X
    PROVE  Reaches(g, X, id, y)
  <1>1. s \in Solving(g) /\ Connected(g, s) /\ Len(s.tarjan_stack) \in Nat
    BY SolverFields DEF Ordering
  <1>2. Class(g, s, m) \subseteq Above(g, s, k) /\ m \in Above(g, s, k)
    <2>1. k \in Nat /\ k \in k .. Len(s.tarjan_stack)
      BY <1>1
    <2>2. QED
      BY <1>1, <2>1, ClassAbove
  <1>3. Reaches(g, X, id, m)
    <2>1. Reaches(g, Class(g, s, m), id, m)
      BY <1>1 DEF Connected
    <2>2. QED
      BY <1>2, <2>1, ReachesWider
  <1>4. Reaches(g, X, m, y)
    BY <1>2, ReachesBelow
  <1>5. QED
    BY <1>3, <1>4, ReachesFurther

\* What id itself is above has been seen, or is among the items that are left
\* and not indexed.
DrainedTo(g, s, id, items, n) ==
    {t \in Solving(g) :
        /\ Exploring(g, s, t, id) /\ Hanging(g, t, id, items)
        /\ ~HasEquality(g) =>
              \A y \in Below(g, {id}) :
                  \/ Seen(t, y, t.lowlink[id])
                  \/ \E i \in 1 .. Len(items) : items[i] = y /\ (i <= n => ~IsIndexed(t, y))}

VisitedTo(g, s, id, items, n) ==
    {t \in Solving(g) :
        /\ Exploring(g, s, t, id) /\ Hanging(g, t, id, items)
        /\ ~HasEquality(g) =>
              \A y \in Below(g, {id}) :
                  \/ Seen(t, y, t.lowlink[id])
                  \/ \E i \in n + 1 .. Len(items) : items[i] = y /\ ~IsIndexed(t, y)}

LEMMA DrainKeeps ==
    ASSUME NEW g, Referring(g), NEW s, Ordering(g, s), NEW id \in Ids(g), ~IsIndexed(s, id),
           NEW items \in Seq(Ids(g)), NEW n \in 1 .. Len(items),
           NEW t \in DrainedTo(g, s, id, items, n - 1)
    PROVE  Drain([group |-> g, id |-> id], t, items[n]) \in DrainedTo(g, s, id, items, n)
  <1> DEFINE at == [group |-> g, id |-> id]
             y == items[n]
             k == Len(s.tarjan_stack) + 1
             bound == t.tarjan[UnionFind(t, y)]
             u == Lower(t, id, bound)
  <1>1. /\ t \in Solving(g) /\ Exploring(g, s, t, id) /\ Hanging(g, t, id, items)
        /\ ~HasEquality(g) =>
              \A x \in Below(g, {id}) :
                  \/ Seen(t, x, t.lowlink[id])
                  \/ \E i \in 1 .. Len(items) : items[i] = x /\ (i <= n - 1 => ~IsIndexed(t, x))
    BY DEF DrainedTo
  <1>2. /\ Explored(g, s, t, id) /\ Ordering(g, t) /\ Onward(g, s, t)
        /\ k <= Len(t.tarjan_stack) /\ t.tarjan_stack[k] = id
        /\ \A p \in k .. Len(t.tarjan_stack) : t.lowlink[id] <= t.lowlink[t.tarjan_stack[p]]
    BY <1>1 DEF Exploring, Explored
  <1>3. y \in Ids(g) /\ Len(items) \in Nat /\ n \in Nat
    OBVIOUS
  <1>4. /\ s \in Solving(g) /\ Len(s.tarjan_stack) \in Nat /\ Len(t.tarjan_stack) \in Nat
        /\ t.lowlink[id] \in Nat /\ UnionFind(t, y) \in Ids(g) /\ bound \in Nat
        /\ \A p \in 1 .. Len(t.tarjan_stack) :
              t.tarjan_stack[p] \in Ids(g) /\ t.lowlink[t.tarjan_stack[p]] \in Nat
    <2>1. s \in Solving(g)
      BY DEF Ordering
    <2>2. /\ Len(s.tarjan_stack) \in Nat /\ Len(t.tarjan_stack) \in Nat
          /\ t.lowlink[id] \in Nat /\ UnionFind(t, y) \in Ids(g)
          /\ \A p \in 1 .. Len(t.tarjan_stack) : t.tarjan_stack[p] \in Ids(g)
      BY <1>1, <1>3, <2>1, SolverFields
    <2>3. \A x \in Ids(g) : t.tarjan[x] \in Nat /\ t.lowlink[x] \in Nat
      BY <1>1, SolverFields
    <2>4. QED
      BY <2>1, <2>2, <2>3
  <1>5. k \in 1 .. Len(t.tarjan_stack)
    BY <1>2, <1>4
  <1>6. id \in t.on_stack /\ IsIndexed(t, id) /\ UnionFind(t, id) = id
    BY <1>2, <1>5, StackPlaces
  <1>7. CASE ~(IsIndexed(t, y) /\ OnStack(t, y))
    <2>1. Drain(at, t, y) = t
      BY <1>7 DEF Drain
    <2>2. ASSUME ~HasEquality(g), NEW x \in Below(g, {id})
          PROVE  \/ Seen(t, x, t.lowlink[id])
                 \/ \E i \in 1 .. Len(items) : items[i] = x /\ (i <= n => ~IsIndexed(t, x))
      <3>1. CASE Seen(t, x, t.lowlink[id])
        BY <3>1
      <3>2. CASE \E i \in 1 .. Len(items) : items[i] = x /\ (i <= n - 1 => ~IsIndexed(t, x))
        <4>1. PICK i \in 1 .. Len(items) : items[i] = x /\ (i <= n - 1 => ~IsIndexed(t, x))
          BY <3>2
        <4>2. CASE i = n
          BY <1>7, <4>1, <4>2 DEF Seen
        <4>3. CASE i # n
          <5>1. i <= n => i <= n - 1
            BY <1>3, <4>3
          <5>2. QED
            BY <4>1, <5>1
        <4>4. QED
          BY <4>2, <4>3
      <3>3. QED
        BY <1>1, <2>2, <3>1, <3>2
    <2>3. QED
      BY <1>1, <2>1, <2>2 DEF DrainedTo
  <1>8. CASE IsIndexed(t, y) /\ OnStack(t, y)
    <2>1. Drain(at, t, y) = u
      BY <1>8 DEF Drain
    <2>2. ASSUME bound < t.lowlink[id]
          PROVE  \E q \in 1 .. Len(t.tarjan_stack) :
                    bound = t.tarjan[t.tarjan_stack[q]]
                    /\ Reaches(g, Above(g, t, q), id, t.tarjan_stack[q])
      <3>1. PICK m \in Ids(g) : UnionFind(t, m) = id /\ y \in Below(g, {m})
        BY <1>1, <1>6 DEF Hanging
      <3>2. QED
        BY <1>2, <1>6, <1>8, <2>2, <3>1, EdgeTraces
    <2>3. \A p \in k .. Len(t.tarjan_stack) :
             Least(t.lowlink[id], bound) <= t.lowlink[t.tarjan_stack[p]]
      <3>1. Least(t.lowlink[id], bound) \in Nat /\ Least(t.lowlink[id], bound) <= t.lowlink[id]
        BY <1>4 DEF Least
      <3>2. \A p \in k .. Len(t.tarjan_stack) : p \in 1 .. Len(t.tarjan_stack)
        BY <1>4
      <3> HIDE DEF bound
      <3>3. QED
        BY <1>2, <1>4, <3>1, <3>2
    <2> HIDE DEF bound
    <2>4. /\ Exploring(g, s, u, id) /\ Onward(g, t, u)
          /\ u.lowlink[id] = Least(t.lowlink[id], bound)
      BY <1>2, <1>4, <2>2, <2>3, LowerExplores
    <2> HIDE DEF u
    <2>5. u \in Solving(g) /\ Ordering(g, u)
      BY <2>4 DEF Exploring, Explored, Ordering
    <2>6. Hanging(g, u, id, items)
      BY <1>1, <1>2, <1>6, <2>4, HangingOn
    <2>7. u.lowlink[id] \in Nat /\ u.lowlink[id] <= t.lowlink[id] /\ u.lowlink[id] <= bound
      BY <1>4, <2>4 DEF Least
    <2>8. Seen(u, y, u.lowlink[id])
      <3>1. Seen(t, y, bound)
        BY <1>4, <1>8 DEF Seen, bound
      <3>2. Seen(u, y, bound)
        BY <1>2, <1>3, <2>4, <3>1, SeenAlong
      <3>3. QED
        BY <1>3, <1>4, <2>5, <2>7, <3>2, SeenLower
    <2>9. ASSUME ~HasEquality(g), NEW x \in Below(g, {id})
          PROVE  \/ Seen(u, x, u.lowlink[id])
                 \/ \E i \in 1 .. Len(items) : items[i] = x /\ (i <= n => ~IsIndexed(u, x))
      <3>1. x \in Ids(g)
        BY BelowLifetimes
      <3>2. CASE Seen(t, x, t.lowlink[id])
        <4>1. Seen(u, x, t.lowlink[id])
          BY <1>2, <2>4, <3>1, <3>2, SeenAlong
        <4>2. QED
          BY <1>4, <2>5, <2>7, <3>1, <4>1, SeenLower
      <3>3. CASE \E i \in 1 .. Len(items) : items[i] = x /\ (i <= n - 1 => ~IsIndexed(t, x))
        <4>1. PICK i \in 1 .. Len(items) : items[i] = x /\ (i <= n - 1 => ~IsIndexed(t, x))
          BY <3>3
        <4>2. CASE i = n
          BY <2>8, <4>1, <4>2
        <4>3. CASE i # n
          <5>1. i <= n => i <= n - 1
            BY <1>3, <4>3
          <5>2. IsIndexed(u, x) <=> IsIndexed(t, x)
            <6>1. t \in Solvers(g)
              BY <1>1, SolverFields
            <6>2. Relinked(g, t, u, id)
              BY <1>4, <6>1, LowerRelinks DEF u
            <6>3. QED
              BY <6>2 DEF Relinked, IsIndexed
          <5>3. QED
            BY <4>1, <5>1, <5>2
        <4>4. QED
          BY <4>2, <4>3
      <3>4. QED
        BY <1>1, <2>9, <3>2, <3>3
    <2>10. QED
      BY <2>1, <2>4, <2>5, <2>6, <2>9 DEF DrainedTo
  <1>9. QED
    BY <1>7, <1>8

LEMMA DrainingKeeps ==
    ASSUME NEW g, Referring(g), NEW s, Ordering(g, s), NEW id \in Ids(g), ~IsIndexed(s, id),
           NEW items \in Seq(Ids(g)),
           NEW t \in DrainedTo(g, s, id, items, 0)
    PROVE  Draining!Loop([group |-> g, id |-> id], t, items)
              \in DrainedTo(g, s, id, items, Len(items))
  <1> DEFINE at == [group |-> g, id |-> id]
             N == Len(items)
             W == [n \in 0 .. N |-> DrainedTo(g, s, id, items, n)]
  <1>1. N \in Nat
    OBVIOUS
  <1>2. t \in W[0]
    BY <1>1
  <1>3. ASSUME NEW n \in 1 .. N, NEW u \in W[n - 1]
        PROVE  Drain(at, u, items[n]) \in W[n]
    <2>1. n - 1 \in 0 .. N /\ n \in 0 .. N
      BY <1>1
    <2>2. u \in DrainedTo(g, s, id, items, n - 1)
      BY <2>1
    <2>3. Drain(at, u, items[n]) \in DrainedTo(g, s, id, items, n)
      BY <2>2, DrainKeeps
    <2>4. QED
      BY <2>1, <2>3
  <1> HIDE DEF W, at
  <1>4. Draining!Loop(at, t, items) \in W[N]
    BY <1>1, <1>2, <1>3, Draining!LoopInvariant
  <1>5. QED
    BY <1>1, <1>4 DEF W, at

\* ProcessNode is through with id: its component is complete and gone, or id
\* and what it has put on the stack all reach further down.
Finished(g, s, t, id) ==
    LET k == Len(s.tarjan_stack) + 1
    IN  /\ Ordering(g, t) /\ Onward(g, s, t) /\ LowKept(s, t)
        /\ IsIndexed(t, id) /\ t.outlives_stack = <<>>
        /\ \/ t.tarjan_stack = s.tarjan_stack /\ t.lowlink[id] = t.tarjan[id]
           \/ /\ k <= Len(t.tarjan_stack) /\ t.tarjan_stack[k] = id
              /\ \A p \in k .. Len(t.tarjan_stack) :
                    /\ Reaches(g, Above(g, t, k), id, t.tarjan_stack[p])
                    /\ t.lowlink[id] <= t.lowlink[t.tarjan_stack[p]]
                    /\ t.lowlink[t.tarjan_stack[p]] < t.tarjan[t.tarjan_stack[p]]
                    /\ ~HasEquality(g) =>
                          Settled(g, t, t.tarjan_stack[p], t.lowlink[t.tarjan_stack[p]])

LEMMA VisitExplores ==
    ASSUME NEW g, Referring(g), NEW s, Ordering(g, s), NEW id \in Ids(g), ~IsIndexed(s, id),
           NEW t, Exploring(g, s, t, id),
           NEW y \in Ids(g), ~IsIndexed(t, y),
           NEW m \in Ids(g), UnionFind(t, m) = id, y \in Below(g, {m}),
           NEW done, Finished(g, t, done, y)
    PROVE  LET u == Lower(done, id, done.lowlink[y])
           IN  /\ Exploring(g, s, u, id) /\ Onward(g, t, u)
               /\ u.lowlink[id] <= t.lowlink[id]
               /\ ~HasEquality(g) =>
                     \A x \in Ids(g) :
                         IsIndexed(u, x) /\ ~IsIndexed(t, x) => Seen(u, x, u.lowlink[id])
  <1> DEFINE k == Len(s.tarjan_stack) + 1
             K == Len(t.tarjan_stack) + 1
             bound == done.lowlink[y]
             u == Lower(done, id, bound)
             Fresh == \/ Len(done.tarjan_stack) = Len(t.tarjan_stack) /\ bound = done.tarjan[y]
                      \/ /\ K <= Len(done.tarjan_stack) /\ done.tarjan_stack[K] = y
                         /\ \A p \in K .. Len(done.tarjan_stack) :
                               /\ Reaches(g, Above(g, done, K), y, done.tarjan_stack[p])
                               /\ bound <= done.lowlink[done.tarjan_stack[p]]
                               /\ done.lowlink[done.tarjan_stack[p]]
                                     < done.tarjan[done.tarjan_stack[p]]
                               /\ ~HasEquality(g) =>
                                     Settled(g, done, done.tarjan_stack[p],
                                             done.lowlink[done.tarjan_stack[p]])
  <1>1. /\ Explored(g, s, t, id) /\ Ordering(g, t) /\ Onward(g, s, t) /\ LowKept(s, t)
        /\ t.outlives_stack = <<>>
        /\ k <= Len(t.tarjan_stack) /\ t.tarjan_stack[k] = id
        /\ \A p \in k .. Len(t.tarjan_stack) : Reaches(g, Above(g, t, k), id, t.tarjan_stack[p])
        /\ \A p \in k + 1 .. Len(t.tarjan_stack) :
              /\ t.lowlink[t.tarjan_stack[p]] < t.tarjan[t.tarjan_stack[p]]
              /\ ~HasEquality(g) =>
                    Settled(g, t, t.tarjan_stack[p], t.lowlink[t.tarjan_stack[p]])
        /\ \A p \in k .. Len(t.tarjan_stack) : t.lowlink[id] <= t.lowlink[t.tarjan_stack[p]]
    BY DEF Exploring, Explored
  <1>2. /\ Ordering(g, done) /\ Onward(g, t, done) /\ LowKept(t, done)
        /\ IsIndexed(done, y) /\ done.outlives_stack = <<>> /\ Fresh
    BY DEF Finished
  <1> HIDE DEF Fresh
  <1>3. /\ s \in Solving(g) /\ t \in Solving(g) /\ done \in Solving(g)
        /\ Len(s.tarjan_stack) \in Nat /\ Len(t.tarjan_stack) \in Nat
        /\ Len(done.tarjan_stack) \in Nat /\ k \in Nat /\ K \in Nat
        /\ \A x \in Ids(g) : /\ t.lowlink[x] \in Nat /\ t.tarjan[x] \in Nat
                             /\ done.lowlink[x] \in Nat /\ done.tarjan[x] \in Nat
        /\ t.indexed \in Nat
    <2>1. s \in Solving(g) /\ t \in Solving(g) /\ done \in Solving(g)
      BY <1>1, <1>2 DEF Ordering
    <2>2. Len(s.tarjan_stack) \in Nat /\ Len(t.tarjan_stack) \in Nat
          /\ Len(done.tarjan_stack) \in Nat /\ t.indexed \in Nat
      BY <2>1, SolverFields
    <2>3. \A x \in Ids(g) : t.lowlink[x] \in Nat /\ t.tarjan[x] \in Nat
      BY <2>1, SolverFields
    <2>4. \A x \in Ids(g) : done.lowlink[x] \in Nat /\ done.tarjan[x] \in Nat
      BY <2>1, SolverFields
    <2>5. QED
      BY <2>1, <2>2, <2>3, <2>4
  <1>4. /\ K - 1 <= Len(done.tarjan_stack) /\ k <= K - 1
        /\ \A p \in 1 .. K - 1 : /\ done.tarjan_stack[p] = t.tarjan_stack[p]
                                 /\ p \in 1 .. Len(t.tarjan_stack)
                                 /\ p \in 1 .. Len(done.tarjan_stack)
        /\ \A p \in k .. Len(done.tarjan_stack) : p \in k .. K - 1 \/ p \in K .. Len(done.tarjan_stack)
        /\ \A p \in k .. Len(done.tarjan_stack) : p \in 1 .. Len(done.tarjan_stack)
    BY <1>1, <1>2, <1>3 DEF Onward
  <1>5. ASSUME NEW p \in 1 .. K - 1
        PROVE  LET x == t.tarjan_stack[p]
               IN  /\ x \in Ids(g) /\ IsIndexed(t, x)
                   /\ done.lowlink[x] = t.lowlink[x] /\ done.tarjan[x] = t.tarjan[x]
    <2>1. t.tarjan_stack[p] \in Ids(g) /\ IsIndexed(t, t.tarjan_stack[p])
          /\ t.tarjan_stack[p] \in t.on_stack
      BY <1>1, <1>4, StackPlaces
    <2>2. QED
      BY <1>2, <2>1 DEF Onward, LowKept
  <1>6. k \in 1 .. K - 1 /\ k \in 1 .. Len(done.tarjan_stack) /\ k \in 1 .. Len(t.tarjan_stack)
        /\ done.tarjan_stack[k] = id
        /\ done.lowlink[id] = t.lowlink[id] /\ done.tarjan[id] = t.tarjan[id]
    <2>1. k \in 1 .. K - 1
      BY <1>3, <1>4
    <2>2. QED
      BY <1>1, <1>4, <1>5, <2>1
  <1>7. t.lowlink[id] <= t.tarjan[id]
    BY <1>1, <1>6, LowlinkBounded
  <1>8. Above(g, t, k) \subseteq Above(g, done, k)
    <2>1. k \in Nat \ {0}
      BY <1>6
    <2>2. QED
      BY <1>1, <1>2, <2>1, AboveKept
  <1>9. ASSUME NEW p \in K .. Len(done.tarjan_stack)
        PROVE  Reaches(g, Above(g, done, k), id, done.tarjan_stack[p])
    <2>1. K <= Len(done.tarjan_stack)
      BY <1>3
    <2>2. /\ done.tarjan_stack[K] = y
          /\ Reaches(g, Above(g, done, K), y, done.tarjan_stack[p])
      BY <1>2, <1>3, <2>1 DEF Fresh
    <2>3. Above(g, done, K) \subseteq Above(g, done, k)
      BY <1>3, <1>4, AboveShrinks
    <2>4. Reaches(g, Above(g, done, k), y, done.tarjan_stack[p]) /\ y \in Above(g, done, k)
      BY <2>2, <2>3, ReachesWider, ReachesInside
    <2>5. Reaches(g, Above(g, done, k), id, y)
      BY <1>1, <1>6, <1>8, <2>4, HangingTraces
    <2>6. QED
      BY <2>4, <2>5, ReachesFurther
  <1>10. Explored(g, s, done, id)
    <2>1. Onward(g, s, done)
      BY <1>1, <1>2, <1>3, OnwardOnward
    <2>2. LowKept(s, done)
      <3>1. ASSUME NEW x \in s.on_stack
            PROVE  x \in t.on_stack
        <4>1. PICK i \in 1 .. Len(s.tarjan_stack) : s.tarjan_stack[i] = x
          BY <1>3, SolverFields DEF Ordering, Stacked
        <4>2. i \in 1 .. Len(t.tarjan_stack) /\ t.tarjan_stack[i] = x
          BY <1>1, <1>3, <4>1 DEF Onward
        <4>3. QED
          BY <1>1, <4>2, StackPlaces
      <3>2. QED
        BY <1>1, <1>2, <3>1 DEF LowKept
    <2>3. ASSUME NEW p \in k .. Len(done.tarjan_stack)
          PROVE  Reaches(g, Above(g, done, k), id, done.tarjan_stack[p])
      <3>1. CASE p \in k .. K - 1
        <4>1. p \in k .. Len(t.tarjan_stack) /\ p \in 1 .. K - 1
          BY <1>3, <1>6, <3>1
        <4>2. Reaches(g, Above(g, t, k), id, t.tarjan_stack[p])
          BY <1>1, <4>1
        <4>3. QED
          BY <1>4, <1>8, <4>1, <4>2, ReachesWider
      <3>2. CASE p \in K .. Len(done.tarjan_stack)
        BY <1>9, <3>2
      <3>3. QED
        BY <1>4, <3>1, <3>2
    <2>4. ASSUME NEW p \in k + 1 .. Len(done.tarjan_stack)
          PROVE  /\ done.lowlink[done.tarjan_stack[p]] < done.tarjan[done.tarjan_stack[p]]
                 /\ ~HasEquality(g) =>
                       Settled(g, done, done.tarjan_stack[p], done.lowlink[done.tarjan_stack[p]])
      <3>1. CASE p \in K .. Len(done.tarjan_stack)
        <4>1. K <= Len(done.tarjan_stack)
          BY <1>3, <3>1
        <4>2. QED
          BY <1>2, <1>3, <3>1, <4>1 DEF Fresh
      <3>2. CASE p \in k + 1 .. K - 1
        <4> DEFINE x == t.tarjan_stack[p]
        <4>1. p \in 1 .. K - 1 /\ p \in k + 1 .. Len(t.tarjan_stack)
          BY <1>3, <1>6, <3>2
        <4>2. done.tarjan_stack[p] = x /\ x \in Ids(g)
              /\ done.lowlink[x] = t.lowlink[x] /\ done.tarjan[x] = t.tarjan[x]
          BY <1>4, <1>5, <4>1
        <4>3. t.lowlink[x] < t.tarjan[x] /\ (~HasEquality(g) => Settled(g, t, x, t.lowlink[x]))
          BY <1>1, <4>1
        <4>4. Settled(g, t, x, t.lowlink[x]) => Settled(g, done, x, t.lowlink[x])
          <5>1. \A z \in Below(g, {x}) : z \in Ids(g)
            BY <4>2, BelowLifetimes
          <5>2. \A z \in Ids(g) : Seen(t, z, t.lowlink[x]) => Seen(done, z, t.lowlink[x])
            BY <1>1, <1>2, SeenAlong
          <5>3. QED
            BY <5>1, <5>2 DEF Settled
        <4>5. QED
          BY <4>2, <4>3, <4>4
      <3>3. p \in K .. Len(done.tarjan_stack) \/ p \in k + 1 .. K - 1
        BY <1>3
      <3>4. QED
        BY <3>1, <3>2, <3>3
    <2>5. k <= Len(done.tarjan_stack)
      BY <1>3, <1>6
    <2>6. QED
      BY <1>2, <1>6, <2>1, <2>2, <2>3, <2>4, <2>5 DEF Explored
  <1>11. bound \in Nat
    BY <1>3
  <1>12. K <= Len(done.tarjan_stack) \/ t.lowlink[id] < bound
    <2>1. CASE bound = done.tarjan[y]
      <3>1. t.indexed < done.tarjan[y]
        BY <1>2 DEF Onward
      <3>2. t.tarjan[id] <= t.indexed
        BY <1>1 DEF Ordering, Numbered
      <3>3. QED
        BY <1>3, <1>7, <2>1, <3>1, <3>2
    <2>2. QED
      BY <1>2, <2>1 DEF Fresh
  <1>13. ASSUME bound < done.lowlink[id]
         PROVE  \E q \in 1 .. Len(done.tarjan_stack) :
                   bound = done.tarjan[done.tarjan_stack[q]]
                   /\ Reaches(g, Above(g, done, q), id, done.tarjan_stack[q])
    <2>1. K <= Len(done.tarjan_stack)
      BY <1>3, <1>6, <1>11, <1>12, <1>13
    <2>2. done.tarjan_stack[K] = y /\ K \in 1 .. Len(done.tarjan_stack)
      <3>1. Len(done.tarjan_stack) # Len(t.tarjan_stack)
        BY <1>3, <2>1
      <3>2. QED
        BY <1>2, <1>3, <2>1, <3>1 DEF Fresh
    <2>3. PICK q \in 1 .. K :
             bound = done.tarjan[done.tarjan_stack[q]]
             /\ Reaches(g, Above(g, done, q), y, done.tarjan_stack[q])
      BY <1>2, <2>2 DEF Ordering, Tracing, Traced
    <2>4. q \in 1 .. Len(done.tarjan_stack) /\ q \in Nat
      BY <1>3, <2>1
    <2>5. done.tarjan[done.tarjan_stack[q]] < done.tarjan[done.tarjan_stack[k]]
      <3>1. done.tarjan[id] \in Nat /\ done.lowlink[id] \in Nat
        BY <1>3
      <3>2. done.lowlink[id] <= done.tarjan[id]
        BY <1>6, <1>7
      <3>3. QED
        BY <1>6, <1>11, <1>13, <2>3, <3>1, <3>2
    <2>6. q < k
      BY <1>2, <1>6, <2>4, <2>5, StackAscends
    <2>7. Above(g, done, k) \subseteq Above(g, done, q)
      BY <1>3, <2>4, <2>6, AboveShrinks
    <2>8. Reaches(g, Above(g, done, q), id, y)
      <3>1. Above(g, t, k) \subseteq Above(g, done, q) /\ y \in Above(g, done, q)
        BY <1>8, <2>3, <2>7, ReachesInside
      <3>2. QED
        BY <1>1, <1>6, <3>1, HangingTraces
    <2>9. QED
      BY <2>3, <2>4, <2>8, ReachesFurther
  <1>14. ASSUME NEW p \in k .. Len(done.tarjan_stack)
         PROVE  Least(done.lowlink[id], bound) <= done.lowlink[done.tarjan_stack[p]]
    <2>1. done.tarjan_stack[p] \in Ids(g)
      BY <1>3, <1>4, SolverFields
    <2>2. done.lowlink[done.tarjan_stack[p]] \in Nat /\ done.lowlink[id] \in Nat
      BY <1>3, <2>1
    <2>3. \/ done.lowlink[id] <= done.lowlink[done.tarjan_stack[p]]
          \/ bound <= done.lowlink[done.tarjan_stack[p]]
      <3>1. CASE p \in k .. K - 1
        <4>1. p \in k .. Len(t.tarjan_stack) /\ p \in 1 .. K - 1
          BY <1>3, <1>6, <3>1
        <4>2. QED
          BY <1>1, <1>4, <1>5, <1>6, <4>1
      <3>2. CASE p \in K .. Len(done.tarjan_stack)
        <4>1. Len(done.tarjan_stack) # Len(t.tarjan_stack)
          BY <1>3, <3>2
        <4>2. QED
          BY <1>2, <3>2, <4>1 DEF Fresh
      <3>3. QED
        BY <1>4, <3>1, <3>2
    <2> HIDE DEF bound
    <2>4. QED
      BY <1>11, <2>2, <2>3 DEF Least
  <1>15. /\ Exploring(g, s, u, id) /\ Onward(g, done, u)
         /\ u.tarjan_stack = done.tarjan_stack
         /\ u.lowlink[id] = Least(done.lowlink[id], bound)
    BY <1>10, <1>11, <1>13, <1>14, LowerExplores
  <1> HIDE DEF u
  <1>16. Onward(g, t, u)
    BY <1>2, <1>3, <1>15, OnwardOnward
  <1>17. u.lowlink[id] \in Nat /\ u.lowlink[id] <= t.lowlink[id] /\ u.lowlink[id] <= bound
    <2>1. done.lowlink[id] \in Nat
      BY <1>3
    <2> HIDE DEF bound
    <2>2. QED
      BY <1>6, <1>11, <1>15, <2>1 DEF Least
  <1>18. ASSUME ~HasEquality(g), NEW x \in Ids(g), IsIndexed(u, x), ~IsIndexed(t, x)
         PROVE  Seen(u, x, u.lowlink[id])
    <2>1. SUFFICES ASSUME OnStack(u, x)
                   PROVE  u.lowlink[id] <= u.tarjan[UnionFind(u, x)]
      BY <1>18 DEF Seen
    <2>2. Ordering(g, u) /\ u \in Solving(g)
      BY <1>15 DEF Exploring, Explored, Ordering
    <2>3. UnionFind(u, x) = x
      BY <1>18, <2>1, <2>2 DEF Ordering, Exact
    <2>4. PICK p \in 1 .. Len(done.tarjan_stack) : done.tarjan_stack[p] = x
      BY <1>15, <2>1, <2>2, <2>3, StackPlaces
    <2>5. ~(p \in 1 .. K - 1)
      BY <1>4, <1>5, <1>18, <2>4
    <2>6. p \in K .. Len(done.tarjan_stack) /\ Len(done.tarjan_stack) # Len(t.tarjan_stack)
      BY <1>3, <2>5
    <2>7. bound <= done.lowlink[x] /\ done.lowlink[x] < done.tarjan[x]
      BY <1>2, <2>4, <2>6 DEF Fresh
    <2>8. u.tarjan[x] = done.tarjan[x]
      <3>1. IsIndexed(done, x)
        BY <1>2, <2>4, StackPlaces
      <3>2. QED
        BY <1>15, <3>1 DEF Onward
    <2>9. done.lowlink[x] \in Nat /\ done.tarjan[x] \in Nat
      BY <1>3
    <2> HIDE DEF bound
    <2>10. QED
      BY <1>11, <1>17, <2>3, <2>7, <2>8, <2>9
  <1>19. QED
    BY <1>15, <1>16, <1>17, <1>18 DEF u

LEMMA VisitKeeps ==
    ASSUME SolverUnfolds, NEW g \in Group, Referring(g), NEW s, Ordering(g, s),
           NEW id \in Ids(g), ~IsIndexed(s, id),
           \A u \in Solving(g), x \in Ids(g) :
              Left(g, u) < Left(g, s) /\ Ordering(g, u) /\ ~IsIndexed(u, x) /\ u.outlives_stack = <<>>
                 => Finished(g, u, ProcessNode(g, u, x), x),
           NEW items \in Seq(Ids(g)), NEW n \in 1 .. Len(items),
           NEW t \in VisitedTo(g, s, id, items, n - 1)
    PROVE  Visit([group |-> g, id |-> id], t, items[n]) \in VisitedTo(g, s, id, items, n)
  <1> DEFINE at == [group |-> g, id |-> id]
             y == items[n]
             k == Len(s.tarjan_stack) + 1
             done == InnerProcess(g, t, y)
             u == Lower(done, id, done.lowlink[y])
  <1>1. /\ t \in Solving(g) /\ Exploring(g, s, t, id) /\ Hanging(g, t, id, items)
        /\ ~HasEquality(g) =>
              \A x \in Below(g, {id}) :
                  \/ Seen(t, x, t.lowlink[id])
                  \/ \E i \in (n - 1) + 1 .. Len(items) : items[i] = x /\ ~IsIndexed(t, x)
    BY DEF VisitedTo
  <1>2. y \in Ids(g) /\ Len(items) \in Nat /\ n \in Nat /\ (n - 1) + 1 = n
        /\ \A i \in n .. Len(items) : i = n \/ i \in n + 1 .. Len(items)
    OBVIOUS
  <1>3. /\ Ordering(g, t) /\ Onward(g, s, t) /\ t.outlives_stack = <<>>
        /\ k <= Len(t.tarjan_stack) /\ t.tarjan_stack[k] = id
    BY <1>1 DEF Exploring, Explored
  <1>4. s \in Solving(g) /\ k \in 1 .. Len(t.tarjan_stack)
    <2>1. Len(s.tarjan_stack) \in Nat /\ Len(t.tarjan_stack) \in Nat /\ s \in Solving(g)
      BY <1>1, SolverFields DEF Ordering
    <2>2. QED
      BY <1>3, <2>1
  <1>5. IsIndexed(t, id) /\ UnionFind(t, id) = id
    BY <1>3, <1>4, StackPlaces
  <1>6. CASE IsIndexed(t, y)
    <2>1. Visit(at, t, y) = t
      BY <1>6 DEF Visit
    <2>2. ASSUME ~HasEquality(g), NEW x \in Below(g, {id})
          PROVE  \/ Seen(t, x, t.lowlink[id])
                 \/ \E i \in n + 1 .. Len(items) : items[i] = x /\ ~IsIndexed(t, x)
      <3>1. \/ Seen(t, x, t.lowlink[id])
            \/ \E i \in n .. Len(items) : items[i] = x /\ ~IsIndexed(t, x)
        BY <1>1, <1>2, <2>2
      <3>2. QED
        BY <1>2, <1>6, <3>1
    <2>3. QED
      BY <1>1, <2>1, <2>2 DEF VisitedTo
  <1>7. CASE ~IsIndexed(t, y)
    <2>1. Visit(at, t, y) = u
      BY <1>7 DEF Visit
    <2>2. Left(g, t) < Left(g, s)
      BY <1>3, <1>5, OnwardLeaves
    <2>3. done = ProcessNode(g, t, y)
      BY <1>1, <1>2 DEF SolverUnfolds
    <2>4. Finished(g, t, done, y)
      BY <1>1, <1>2, <1>3, <1>7, <2>2, <2>3
    <2>5. PICK m \in Ids(g) : UnionFind(t, m) = id /\ y \in Below(g, {m})
      BY <1>1, <1>5 DEF Hanging
    <2> HIDE DEF done
    <2>6. /\ Exploring(g, s, u, id) /\ Onward(g, t, u)
          /\ u.lowlink[id] <= t.lowlink[id]
          /\ ~HasEquality(g) =>
                \A x \in Ids(g) :
                    IsIndexed(u, x) /\ ~IsIndexed(t, x) => Seen(u, x, u.lowlink[id])
      BY <1>1, <1>2, <1>7, <2>4, <2>5, VisitExplores
    <2>7. IsIndexed(u, y)
      <3>1. IsIndexed(done, y) /\ done \in Solving(g)
        BY <2>4 DEF Finished, Ordering
      <3>2. u.tarjan = done.tarjan
        <4>1. done \in Solvers(g) /\ done.lowlink[y] \in Nat
          BY <1>2, <3>1, SolverFields
        <4>2. Relinked(g, done, u, id)
          BY <4>1, LowerRelinks
        <4>3. QED
          BY <4>2 DEF Relinked
      <3>3. QED
        BY <3>1, <3>2 DEF IsIndexed
    <2> HIDE DEF u
    <2>8. u \in Solving(g)
      BY <2>6 DEF Exploring, Explored, Ordering
    <2>9. Hanging(g, u, id, items)
      BY <1>1, <1>3, <1>5, <2>6, HangingOn
    <2>10. ASSUME ~HasEquality(g), NEW x \in Below(g, {id})
           PROVE  \/ Seen(u, x, u.lowlink[id])
                  \/ \E i \in n + 1 .. Len(items) : items[i] = x /\ ~IsIndexed(u, x)
      <3>1. x \in Ids(g)
        BY BelowLifetimes
      <3>2. \/ Seen(t, x, t.lowlink[id])
            \/ \E i \in n .. Len(items) : items[i] = x /\ ~IsIndexed(t, x)
        BY <1>1, <1>2, <2>10
      <3>3. CASE Seen(t, x, t.lowlink[id])
        <4>1. Seen(u, x, t.lowlink[id])
          BY <1>3, <2>6, <3>1, <3>3, SeenAlong
        <4>2. u.lowlink[id] \in Nat /\ t.lowlink[id] \in Nat
          BY <1>1, <2>8, SolverFields
        <4>3. QED
          BY <2>6, <2>8, <3>1, <4>1, <4>2, SeenLower
      <3>4. CASE \E i \in n .. Len(items) : items[i] = x /\ ~IsIndexed(t, x)
        BY <1>2, <2>6, <2>7, <2>10, <3>1, <3>4
      <3>5. QED
        BY <3>2, <3>3, <3>4
    <2>11. QED
      BY <2>1, <2>6, <2>8, <2>9, <2>10 DEF VisitedTo
  <1>8. QED
    BY <1>6, <1>7

LEMMA VisitingKeeps ==
    ASSUME SolverUnfolds, NEW g \in Group, Referring(g), NEW s, Ordering(g, s),
           NEW id \in Ids(g), ~IsIndexed(s, id),
           \A u \in Solving(g), x \in Ids(g) :
              Left(g, u) < Left(g, s) /\ Ordering(g, u) /\ ~IsIndexed(u, x) /\ u.outlives_stack = <<>>
                 => Finished(g, u, ProcessNode(g, u, x), x),
           NEW items \in Seq(Ids(g)),
           NEW t \in VisitedTo(g, s, id, items, 0)
    PROVE  Visiting!Loop([group |-> g, id |-> id], t, items)
              \in VisitedTo(g, s, id, items, Len(items))
  <1> DEFINE at == [group |-> g, id |-> id]
             N == Len(items)
             W == [n \in 0 .. N |-> VisitedTo(g, s, id, items, n)]
  <1>1. N \in Nat
    OBVIOUS
  <1>2. t \in W[0]
    BY <1>1
  <1>3. ASSUME NEW n \in 1 .. N, NEW u \in W[n - 1]
        PROVE  Visit(at, u, items[n]) \in W[n]
    <2>1. n - 1 \in 0 .. N /\ n \in 0 .. N
      BY <1>1
    <2>2. u \in VisitedTo(g, s, id, items, n - 1)
      BY <2>1
    <2>3. Visit(at, u, items[n]) \in VisitedTo(g, s, id, items, n)
      BY <2>2, VisitKeeps
    <2>4. QED
      BY <2>1, <2>3
  <1> HIDE DEF W, at
  <1>4. Visiting!Loop(at, t, items) \in W[N]
    BY <1>1, <1>2, <1>3, Visiting!LoopInvariant
  <1>5. QED
    BY <1>1, <1>4 DEF W, at

-----------------------------------------------------------------------------
(* A component is popped. *)

\* What lies on the stack from a place on.
Tops(s, r) == {s.tarjan_stack[p] : p \in r .. Len(s.tarjan_stack)}

PoppedTo(g, s, id, r) ==
    {t \in Solving(g) :
        /\ t.tarjan = s.tarjan /\ t.indexed = s.indexed /\ t.lowlink = s.lowlink
        /\ t.sorted_id = s.sorted_id /\ t.tarjan_stack = s.tarjan_stack
        /\ t.outlives_stack = s.outlives_stack
        /\ t.on_stack = s.on_stack \ Tops(s, r)
        /\ \A x \in Ids(g) :
              /\ t.order[x] = IF x \in Tops(s, r) THEN s.sorted_id ELSE s.order[x]
              /\ UnionFind(t, x) = IF UnionFind(s, x) \in Tops(s, r) THEN id ELSE UnionFind(s, x)}

LEMMA PopPops ==
    ASSUME NEW g, Referring(g), NEW s, Ordering(g, s), NEW id \in Ids(g),
           UnionFind(s, id) = id,
           NEW r \in 1 .. Len(s.tarjan_stack),
           NEW t \in PoppedTo(g, s, id, r + 1)
    PROVE  Pop(id, t, s.tarjan_stack[r]) \in PoppedTo(g, s, id, r)
  <1> DEFINE top == s.tarjan_stack[r]
             on_stack == t.on_stack \ {top}
             orders == [t.order EXCEPT ![top] = t.sorted_id]
             marked == [t EXCEPT !.on_stack = on_stack, !.order = orders]
             u == Unify(marked, id, top)
  <1>1. /\ t \in Solving(g)
        /\ t.tarjan = s.tarjan /\ t.indexed = s.indexed /\ t.lowlink = s.lowlink
        /\ t.sorted_id = s.sorted_id /\ t.tarjan_stack = s.tarjan_stack
        /\ t.outlives_stack = s.outlives_stack
        /\ t.on_stack = s.on_stack \ Tops(s, r + 1)
        /\ \A x \in Ids(g) :
              /\ t.order[x] = IF x \in Tops(s, r + 1) THEN s.sorted_id ELSE s.order[x]
              /\ UnionFind(t, x) =
                    IF UnionFind(s, x) \in Tops(s, r + 1) THEN id ELSE UnionFind(s, x)
    BY DEF PoppedTo
  <1>2. /\ s \in Solving(g) /\ Len(s.tarjan_stack) \in Nat /\ t \in Solvers(g)
        /\ t.sorted_id \in Nat
    BY <1>1, SolverFields DEF Ordering
  <1>3. top \in Ids(g) /\ UnionFind(s, top) = top
    BY StackPlaces
  <1>4. top \notin Tops(s, r + 1)
    <2>1. ASSUME NEW p \in r + 1 .. Len(s.tarjan_stack)
          PROVE  s.tarjan_stack[p] # top
      <3>1. p \in 1 .. Len(s.tarjan_stack) /\ p # r
        BY <1>2
      <3>2. QED
        BY <3>1, StackAscends
    <2>2. QED
      BY <2>1 DEF Tops
  <1>5. \A x : x \in Tops(s, r) <=> x \in Tops(s, r + 1) \/ x = top
    <2>1. \A p : p \in r .. Len(s.tarjan_stack) <=> p \in r + 1 .. Len(s.tarjan_stack) \/ p = r
      BY <1>2
    <2>2. QED
      BY <2>1 DEF Tops
  <1>6. /\ on_stack \in SUBSET Ids(g) /\ orders \in [Ids(g) -> Nat]
        /\ on_stack = s.on_stack \ Tops(s, r)
        /\ \A x \in Ids(g) : orders[x] = IF x \in Tops(s, r) THEN s.sorted_id ELSE s.order[x]
    <2>1. on_stack \in SUBSET Ids(g) /\ orders \in [Ids(g) -> Nat]
      BY <1>2 DEF Solvers
    <2>2. on_stack = s.on_stack \ Tops(s, r)
      BY <1>1, <1>5
    <2>3. ASSUME NEW x \in Ids(g)
          PROVE  orders[x] = IF x \in Tops(s, r) THEN s.sorted_id ELSE s.order[x]
      <3>1. orders[x] = IF x = top THEN t.sorted_id ELSE t.order[x]
        BY <1>2 DEF Solvers
      <3>2. QED
        BY <1>1, <1>5, <3>1
    <2>4. QED
      BY <2>1, <2>2, <2>3
  <1>7. Pop(id, t, top) = u
    BY DEF Pop
  <1> HIDE DEF on_stack, orders
  <1>8. /\ marked \in Solvers(g) /\ marked.parent = t.parent
        /\ marked.tarjan = t.tarjan /\ marked.indexed = t.indexed /\ marked.lowlink = t.lowlink
        /\ marked.sorted_id = t.sorted_id /\ marked.tarjan_stack = t.tarjan_stack
        /\ marked.outlives_stack = t.outlives_stack
        /\ marked.on_stack = on_stack /\ marked.order = orders
    BY <1>2, <1>6 DEF Solvers
  <1> HIDE DEF marked
  <1>9. marked \in Solving(g) /\ \A x : UnionFind(marked, x) = UnionFind(t, x)
    BY <1>1, <1>8, SameParents
  <1>10. /\ u \in Solving(g) /\ u = [marked EXCEPT !.parent = u.parent]
         /\ \A x \in Ids(g) :
               UnionFind(u, x) = IF UnionFind(marked, x) = UnionFind(marked, top)
                                 THEN UnionFind(marked, id) ELSE UnionFind(marked, x)
    <2>1. u \in Solving(g) /\ u = [marked EXCEPT !.parent = u.parent]
      BY <1>3, <1>9, UnifyJoins
    <2>2. \A x \in Ids(g) :
               UnionFind(u, x) = IF UnionFind(marked, x) = UnionFind(marked, top)
                                 THEN UnionFind(marked, id) ELSE UnionFind(marked, x)
      BY <1>3, <1>9, UnifyJoins
    <2>3. QED
      BY <2>1, <2>2
  <1> HIDE DEF u
  <1>11. /\ u.tarjan = marked.tarjan /\ u.indexed = marked.indexed /\ u.lowlink = marked.lowlink
         /\ u.sorted_id = marked.sorted_id /\ u.tarjan_stack = marked.tarjan_stack
         /\ u.outlives_stack = marked.outlives_stack
         /\ u.on_stack = marked.on_stack /\ u.order = marked.order
    BY <1>8, <1>10 DEF Solvers
  <1>12. ASSUME NEW x \in Ids(g)
         PROVE  UnionFind(u, x) = IF UnionFind(s, x) \in Tops(s, r) THEN id ELSE UnionFind(s, x)
    <2>1. UnionFind(t, top) = top /\ UnionFind(t, id) = id
      BY <1>1, <1>3, <1>4
    <2>2. UnionFind(u, x) = IF UnionFind(t, x) = top THEN id ELSE UnionFind(t, x)
      BY <1>3, <1>9, <1>10, <2>1
    <2>3. UnionFind(t, x) = IF UnionFind(s, x) \in Tops(s, r + 1) THEN id ELSE UnionFind(s, x)
      BY <1>1
    <2>4. QED
      BY <1>5, <2>2, <2>3
  <1>13. u \in PoppedTo(g, s, id, r)
    BY <1>1, <1>6, <1>8, <1>10, <1>11, <1>12 DEF PoppedTo
  <1>14. QED
    BY <1>7, <1>13

\* The places of the stack from k on, from the top.
LEMMA TopsReversed ==
    ASSUME NEW S, NEW stack \in Seq(S), NEW k \in 1 .. Len(stack)
    PROVE  LET items == Reverse(SubSeq(stack, k, Len(stack)))
           IN  /\ Len(items) = Len(stack) + 1 - k
               /\ \A n \in 1 .. Len(stack) + 1 - k : items[n] = stack[Len(stack) + 1 - n]
  <1> DEFINE N == Len(stack)
             part == SubSeq(stack, k, N)
  <1>1. N \in Nat /\ k \in Nat /\ k <= N
    OBVIOUS
  <1>2. Len(part) = N + 1 - k /\ \A i \in 1 .. N + 1 - k : part[i] = stack[k + i - 1]
    BY <1>1
  <1> HIDE DEF part
  <1>3. Reverse(part) = [i \in 1 .. Len(part) |-> part[(Len(part) - i) + 1]]
    BY DEF Reverse
  <1>4. N + 1 - k \in Nat
    BY <1>1
  <1>5. Len(Reverse(part)) = N + 1 - k
    BY <1>2, <1>3, <1>4
  <1>6. ASSUME NEW n \in 1 .. N + 1 - k
        PROVE  Reverse(part)[n] = stack[N + 1 - n]
    <2>1. Reverse(part)[n] = part[(N + 1 - k - n) + 1]
      BY <1>2, <1>3
    <2>2. (N + 1 - k - n) + 1 \in 1 .. N + 1 - k /\ k + ((N + 1 - k - n) + 1) - 1 = N + 1 - n
      BY <1>1
    <2>3. QED
      BY <1>2, <2>1, <2>2
  <1>7. QED
    BY <1>5, <1>6 DEF part

LEMMA ComponentPops ==
    ASSUME NEW g, Referring(g), NEW s, Ordering(g, s),
           NEW k \in 1 .. Len(s.tarjan_stack), NEW id, id = s.tarjan_stack[k]
    PROVE  LET t == PopComponent(s, id)
           IN  /\ t \in Solving(g)
               /\ t.tarjan = s.tarjan /\ t.indexed = s.indexed /\ t.lowlink = s.lowlink
               /\ t.sorted_id = s.sorted_id + 1 /\ t.outlives_stack = s.outlives_stack
               /\ t.tarjan_stack \in Seq(Ids(g))
               /\ Len(t.tarjan_stack) = k - 1
               /\ \A i \in 1 .. k - 1 : t.tarjan_stack[i] = s.tarjan_stack[i]
               /\ t.on_stack = s.on_stack \ Tops(s, k)
               /\ \A x \in Ids(g) :
                     /\ t.order[x] = IF x \in Tops(s, k) THEN s.sorted_id ELSE s.order[x]
                     /\ UnionFind(t, x) =
                           IF UnionFind(s, x) \in Tops(s, k) THEN id ELSE UnionFind(s, x)
  <1> DEFINE stack == s.tarjan_stack
             N == Len(stack)
             from == CHOOSE i \in DOMAIN stack :
                        stack[i] = id /\ \A j \in DOMAIN stack : j > i => stack[j] # id
             items == Reverse(SubSeq(stack, k, N))
             M == Len(items)
             popped == Popping!Loop(id, s, items)
             kept == SubSeq(stack, 1, k - 1)
             sorted == popped.sorted_id + 1
             t == PopComponent(s, id)
             W == [n \in 0 .. M |-> PoppedTo(g, s, id, N + 1 - n)]
  <1>1. /\ s \in Solving(g) /\ s \in Solvers(g) /\ stack \in Seq(Ids(g)) /\ N \in Nat
        /\ DOMAIN stack = 1 .. N
    BY SolverFields DEF Ordering
  <1>2. \A j \in 1 .. N : stack[j] = id => j = k
    BY StackAscends
  <1>3. from = k
    <2>1. /\ k \in DOMAIN stack /\ stack[k] = id
          /\ \A j \in DOMAIN stack : j > k => stack[j] # id
      BY <1>1, <1>2
    <2>2. \E i \in DOMAIN stack : stack[i] = id /\ \A j \in DOMAIN stack : j > i => stack[j] # id
      BY <2>1
    <2>3. from \in DOMAIN stack /\ stack[from] = id
      BY <2>2
    <2>4. QED
      BY <1>1, <1>2, <2>3
  <1>4. t = [popped EXCEPT !.tarjan_stack = kept, !.sorted_id = sorted]
    BY <1>3 DEF PopComponent
  <1> HIDE DEF from
  <1>5. M = N + 1 - k /\ \A n \in 1 .. M : items[n] = stack[N + 1 - n]
    BY <1>1, TopsReversed
  <1>6. M \in Nat
    BY <1>1, <1>5
  <1>7. id \in Ids(g) /\ UnionFind(s, id) = id
    BY StackPlaces
  <1> HIDE DEF items, M
  <1>8. s \in W[0]
    <2>1. Tops(s, N + 1) = {}
      BY <1>1 DEF Tops
    <2>2. s \in PoppedTo(g, s, id, N + 1)
      BY <1>1, <2>1 DEF PoppedTo
    <2>3. 0 \in 0 .. M /\ N + 1 - 0 = N + 1
      BY <1>1, <1>6
    <2>4. QED
      BY <2>2, <2>3
  <1>9. ASSUME NEW n \in 1 .. M, NEW u \in W[n - 1]
        PROVE  Pop(id, u, items[n]) \in W[n]
    <2> DEFINE r == N + 1 - n
    <2>1. /\ n - 1 \in 0 .. M /\ n \in 0 .. M /\ r \in 1 .. N /\ N + 1 - (n - 1) = r + 1
      <3>1. M = N + 1 - k /\ M \in Nat /\ N \in Nat /\ k \in 1 .. N
        BY <1>1, <1>5, <1>6
      <3> HIDE DEF N
      <3>2. n - 1 \in 0 .. M /\ n \in 0 .. M
        BY <3>1
      <3>3. r \in 1 .. N
        BY <3>1
      <3>4. N + 1 - (n - 1) = r + 1
        BY <3>1
      <3>5. QED
        BY <3>2, <3>3, <3>4
    <2>2. u \in PoppedTo(g, s, id, r + 1)
      BY <2>1
    <2>3. items[n] = stack[r]
      BY <1>5
    <2> HIDE DEF r
    <2>4. Pop(id, u, stack[r]) \in PoppedTo(g, s, id, r)
      BY <1>7, <2>1, <2>2, PopPops
    <2>5. QED
      BY <2>1, <2>3, <2>4 DEF r
  <1> HIDE DEF W
  <1>10. popped \in W[M]
    BY <1>6, <1>8, <1>9, Popping!LoopInvariant DEF M
  <1>11. popped \in PoppedTo(g, s, id, k)
    <2>1. M \in 0 .. M /\ N + 1 - M = k
      BY <1>1, <1>5, <1>6
    <2>2. QED
      BY <1>10, <2>1 DEF W
  <1> HIDE DEF popped
  <1>12. /\ popped \in Solving(g)
         /\ popped.tarjan = s.tarjan /\ popped.indexed = s.indexed /\ popped.lowlink = s.lowlink
         /\ popped.sorted_id = s.sorted_id /\ popped.outlives_stack = s.outlives_stack
         /\ popped.on_stack = s.on_stack \ Tops(s, k)
         /\ \A x \in Ids(g) :
               /\ popped.order[x] = IF x \in Tops(s, k) THEN s.sorted_id ELSE s.order[x]
               /\ UnionFind(popped, x) =
                     IF UnionFind(s, x) \in Tops(s, k) THEN id ELSE UnionFind(s, x)
    BY <1>11 DEF PoppedTo
  <1>13. kept \in Seq(Ids(g)) /\ Len(kept) = k - 1 /\ \A i \in 1 .. k - 1 : kept[i] = stack[i]
    BY <1>1
  <1>14. popped \in Solvers(g) /\ sorted \in Nat /\ sorted = s.sorted_id + 1
    <2>1. popped \in Solvers(g) /\ popped.sorted_id \in Nat
      BY <1>12, SolverFields
    <2>2. QED
      BY <1>12, <2>1
  <1> HIDE DEF kept, sorted, t
  <1>15. /\ t \in Solvers(g) /\ t.parent = popped.parent /\ t.tarjan = popped.tarjan
         /\ t.indexed = popped.indexed /\ t.lowlink = popped.lowlink /\ t.order = popped.order
         /\ t.outlives_stack = popped.outlives_stack /\ t.on_stack = popped.on_stack
         /\ t.tarjan_stack = kept /\ t.sorted_id = sorted
    BY <1>4, <1>13, <1>14 DEF Solvers
  <1>16. t \in Solving(g) /\ \A x : UnionFind(t, x) = UnionFind(popped, x)
    BY <1>12, <1>15, SameParents
  <1>17. QED
    BY <1>12, <1>13, <1>14, <1>15, <1>16 DEF t

\* The members of a component reach its root.
LEMMA ComponentReaches ==
    ASSUME NEW g, Referring(g), NEW s, Ordering(g, s),
           NEW k \in 1 .. Len(s.tarjan_stack),
           \A p \in k .. Len(s.tarjan_stack) :
              s.tarjan[s.tarjan_stack[k]] <= s.lowlink[s.tarjan_stack[p]],
           \A p \in k + 1 .. Len(s.tarjan_stack) :
              s.lowlink[s.tarjan_stack[p]] < s.tarjan[s.tarjan_stack[p]]
    PROVE  \A p \in k .. Len(s.tarjan_stack) :
              Reaches(g, Above(g, s, k), s.tarjan_stack[p], s.tarjan_stack[k])
  <1> DEFINE N == Len(s.tarjan_stack)
             X == Above(g, s, k)
             B == {p \in k .. N : ~Reaches(g, X, s.tarjan_stack[p], s.tarjan_stack[k])}
  <1>1. s \in Solving(g) /\ N \in Nat /\ k \in Nat
    BY SolverFields DEF Ordering
  <1>2. ASSUME B # {}
        PROVE  FALSE
    <2>1. B \subseteq Nat
      BY <1>1
    <2>2. PICK p \in B : \A m \in B : p <= m
      BY <1>2, <2>1, LeastNumber
    <2>3. p \in k .. N /\ p \in 1 .. N /\ ~Reaches(g, X, s.tarjan_stack[p], s.tarjan_stack[k])
      BY <1>1
    <2>4. s.tarjan_stack[p] \in X
      <3>1. s.tarjan_stack[p] \in Ids(g) /\ UnionFind(s, s.tarjan_stack[p]) = s.tarjan_stack[p]
        BY <2>3, StackPlaces
      <3>2. QED
        BY <2>3, <3>1 DEF Above
    <2>5. p # k
      BY <2>3, <2>4, ReachesItself
    <2>6. p \in k + 1 .. N
      BY <1>1, <2>3, <2>5
    <2>7. PICK q \in 1 .. p :
             /\ s.lowlink[s.tarjan_stack[p]] = s.tarjan[s.tarjan_stack[q]]
             /\ Reaches(g, Above(g, s, q), s.tarjan_stack[p], s.tarjan_stack[q])
      BY <2>3 DEF Ordering, Tracing, Traced
    <2>8. q \in 1 .. N /\ q \in Nat
      BY <1>1, <2>3
    <2>9. k <= q /\ q < p
      <3>1. s.tarjan[s.tarjan_stack[k]] <= s.tarjan[s.tarjan_stack[q]]
            /\ s.tarjan[s.tarjan_stack[q]] < s.tarjan[s.tarjan_stack[p]]
        BY <2>3, <2>6, <2>7
      <3>2. QED
        BY <2>3, <2>8, <3>1, StackAscends
    <2>10. Reaches(g, X, s.tarjan_stack[p], s.tarjan_stack[q])
      <3>1. Above(g, s, q) \subseteq X
        BY <1>1, <2>8, <2>9, AboveShrinks
      <3>2. QED
        BY <2>7, <3>1, ReachesWider
    <2>11. q \notin B /\ q \in k .. N
      <3>1. p \in Nat
        BY <1>1, <2>3
      <3>2. ~(p <= q)
        BY <2>8, <2>9, <3>1
      <3>3. QED
        BY <1>1, <2>2, <2>8, <2>9, <3>2
    <2>12. Reaches(g, X, s.tarjan_stack[q], s.tarjan_stack[k])
      BY <2>11
    <2>13. QED
      BY <2>3, <2>10, <2>12, ReachesFurther
  <1>3. QED
    BY <1>2

-----------------------------------------------------------------------------
(* The component that is popped is one class. *)

LEMMA PoppedOrders ==
    ASSUME NEW g, Referring(g), NEW s, Ordering(g, s), NEW id \in Ids(g), ~IsIndexed(s, id),
           NEW v, Exploring(g, s, v, id), v.lowlink[id] = v.tarjan[id],
           ~HasEquality(g) => Settled(g, v, id, v.lowlink[id])
    PROVE  Finished(g, s, PopComponent(v, id), id)
  <1> DEFINE k == Len(s.tarjan_stack) + 1
             stack == v.tarjan_stack
             N == Len(stack)
             C == Tops(v, k)
             t == PopComponent(v, id)
  <1>1. /\ Ordering(g, v) /\ Onward(g, s, v) /\ LowKept(s, v) /\ v.outlives_stack = <<>>
        /\ k <= N /\ stack[k] = id
        /\ \A p \in k .. N : Reaches(g, Above(g, v, k), id, stack[p])
        /\ \A p \in k + 1 .. N :
              /\ v.lowlink[stack[p]] < v.tarjan[stack[p]]
              /\ ~HasEquality(g) => Settled(g, v, stack[p], v.lowlink[stack[p]])
        /\ \A p \in k .. N : v.lowlink[id] <= v.lowlink[stack[p]]
    BY DEF Exploring, Explored
  <1>2. s \in Solving(g) /\ v \in Solving(g)
    BY <1>1 DEF Ordering
  <1>3. /\ Len(s.tarjan_stack) \in Nat /\ N \in Nat /\ k \in 1 .. N /\ k \in Nat
        /\ k - 1 = Len(s.tarjan_stack)
    <2>1. Len(s.tarjan_stack) \in Nat /\ N \in Nat
      BY <1>2, SolverFields
    <2>2. QED
      BY <1>1, <2>1
  <1>4. \A x \in Ids(g) :
           /\ v.tarjan[x] \in Nat /\ v.lowlink[x] \in Nat /\ v.order[x] \in Nat
           /\ UnionFind(v, x) \in Ids(g)
    BY <1>2, SolverFields
  <1>5. \A p \in k .. N : p \in 1 .. N
    BY <1>3
  <1>6. /\ t \in Solving(g)
        /\ t.tarjan = v.tarjan /\ t.indexed = v.indexed /\ t.lowlink = v.lowlink
        /\ t.sorted_id = v.sorted_id + 1 /\ t.outlives_stack = v.outlives_stack
        /\ t.tarjan_stack \in Seq(Ids(g))
        /\ Len(t.tarjan_stack) = k - 1
        /\ \A i \in 1 .. k - 1 : t.tarjan_stack[i] = stack[i]
        /\ t.on_stack = v.on_stack \ C
        /\ \A x \in Ids(g) :
              /\ t.order[x] = IF x \in C THEN v.sorted_id ELSE v.order[x]
              /\ UnionFind(t, x) = IF UnionFind(v, x) \in C THEN id ELSE UnionFind(v, x)
    <2> HIDE DEF k
    <2>1. id = v.tarjan_stack[k] /\ k \in 1 .. Len(v.tarjan_stack) /\ Ordering(g, v)
      BY <1>1, <1>3
    <2> HIDE DEF N, stack
    <2>2. /\ t \in Solving(g)
          /\ t.tarjan = v.tarjan /\ t.indexed = v.indexed /\ t.lowlink = v.lowlink
          /\ t.sorted_id = v.sorted_id + 1 /\ t.outlives_stack = v.outlives_stack
          /\ t.tarjan_stack \in Seq(Ids(g))
          /\ Len(t.tarjan_stack) = k - 1
          /\ \A i \in 1 .. k - 1 : t.tarjan_stack[i] = v.tarjan_stack[i]
      BY <2>1, ComponentPops
    <2>3. t.on_stack = v.on_stack \ Tops(v, k)
      BY <2>1, ComponentPops
    <2>4. \A x \in Ids(g) :
             /\ t.order[x] = IF x \in Tops(v, k) THEN v.sorted_id ELSE v.order[x]
             /\ UnionFind(t, x) = IF UnionFind(v, x) \in Tops(v, k) THEN id ELSE UnionFind(v, x)
      BY <2>1, ComponentPops
    <2>5. QED
      BY <2>2, <2>3, <2>4 DEF stack
  <1> HIDE DEF t
  <1>7. ASSUME NEW x \in C
        PROVE  /\ x \in Ids(g) /\ x \in v.on_stack /\ IsIndexed(v, x) /\ UnionFind(v, x) = x
               /\ ~IsIndexed(s, x)
    <2>1. PICK p \in k .. N : x = stack[p]
      BY DEF Tops
    <2>2. x \in Ids(g) /\ x \in v.on_stack /\ IsIndexed(v, x) /\ UnionFind(v, x) = x
      BY <1>1, <1>5, <2>1, StackPlaces
    <2>3. ASSUME IsIndexed(s, x)
          PROVE  FALSE
      <3>1. v.tarjan[x] = s.tarjan[x] /\ s.tarjan[x] <= s.indexed
        BY <1>1, <2>2, <2>3 DEF Onward, Ordering, Numbered
      <3>2. IsIndexed(v, id)
        BY <1>1, <1>3, StackPlaces
      <3>3. s.indexed < v.tarjan[id]
        BY <1>1, <3>2 DEF Onward
      <3>4. k <= p /\ p \in 1 .. N
        BY <1>3, <1>5, <2>1
      <3>5. v.tarjan[id] <= v.tarjan[x]
        <4> HIDE DEF k
        <4>1. QED
          BY <1>1, <1>3, <2>1, <3>4, StackAscends
      <3>6. s.indexed \in Nat /\ v.tarjan[id] \in Nat /\ v.tarjan[x] \in Nat
        BY <1>2, <1>4, <2>2, SolverFields
      <3>7. QED
        BY <3>1, <3>3, <3>5, <3>6
    <2>4. QED
      BY <2>2, <2>3
  <1>8. id \in C
    <2>1. k \in k .. N
      BY <1>3
    <2>2. QED
      BY <1>1, <2>1 DEF Tops
  <1>9. ASSUME NEW x \in Ids(g), IsIndexed(s, x)
        PROVE  UnionFind(v, x) = UnionFind(s, x) /\ UnionFind(v, x) \notin C
    <2>1. UnionFind(v, x) = UnionFind(s, x)
      BY <1>1, <1>9 DEF Onward
    <2>2. IsIndexed(s, UnionFind(s, x))
      BY <1>9 DEF Ordering, Numbered
    <2>3. QED
      BY <1>7, <2>1, <2>2
  <1>10. \A i \in 1 .. k - 1 : stack[i] \notin C /\ i \in 1 .. N
    <2>1. ASSUME NEW i \in 1 .. k - 1, NEW p \in k .. N, stack[i] = stack[p]
          PROVE  FALSE
      <3>1. i \in 1 .. N /\ p \in 1 .. N /\ i # p
        BY <1>3
      <3>2. QED
        BY <1>1, <2>1, <3>1, StackAscends
    <2>2. \A i \in 1 .. k - 1 : i \in 1 .. N
      BY <1>3
    <2>3. QED
      BY <2>1, <2>2 DEF Tops
  <1>11. \A x \in Ids(g) : x \in v.on_stack /\ x \notin C <=> \E i \in 1 .. k - 1 : stack[i] = x
    <2>1. \A x \in Ids(g) : x \in v.on_stack <=> \E i \in 1 .. N : stack[i] = x
      BY <1>1 DEF Ordering, Stacked
    <2>2. \A i \in 1 .. N : i \in 1 .. k - 1 \/ i \in k .. N
      BY <1>3
    <2>3. \A x : x \in C <=> \E p \in k .. N : stack[p] = x
      BY DEF Tops
    <2>4. QED
      BY <1>10, <2>1, <2>2, <2>3
  <1>12. t.tarjan_stack = s.tarjan_stack
    <2>1. s.tarjan_stack \in Seq(Ids(g))
      BY <1>2, SolverFields
    <2>2. \A i \in 1 .. k - 1 : stack[i] = s.tarjan_stack[i]
      BY <1>1, <1>3 DEF Onward
    <2> HIDE DEF k
    <2>3. QED
      BY <1>3, <1>6, <2>1, <2>2
  <1> HIDE DEF C
  <1>13. \A x \in Ids(g) : OnStack(t, x) <=> OnStack(v, x) /\ UnionFind(v, x) \notin C
    BY <1>6, <1>8 DEF OnStack
  <1>14. \A x : IsIndexed(t, x) <=> IsIndexed(v, x)
    BY <1>6 DEF IsIndexed
  <1>15. Onward(g, s, t)
    <2>1. s.indexed <= t.indexed
      BY <1>1, <1>6 DEF Onward
    <2>2. ASSUME NEW x \in Ids(g), IsIndexed(s, x)
          PROVE  /\ t.tarjan[x] = s.tarjan[x]
                 /\ UnionFind(t, x) = UnionFind(s, x)
                 /\ OnStack(t, x) <=> OnStack(s, x)
                 /\ Done(s, x) => t.order[UnionFind(s, x)] = s.order[UnionFind(s, x)]
      <3>1. v.tarjan[x] = s.tarjan[x] /\ (OnStack(v, x) <=> OnStack(s, x))
            /\ (Done(s, x) => v.order[UnionFind(s, x)] = s.order[UnionFind(s, x)])
        BY <1>1, <2>2 DEF Onward
      <3>2. UnionFind(s, x) \in Ids(g)
        BY <1>2, SolverFields
      <3>3. QED
        BY <1>6, <1>9, <1>13, <2>2, <3>1, <3>2
    <2>3. \A x \in Ids(g) : ~IsIndexed(s, x) /\ IsIndexed(t, x) => s.indexed < t.tarjan[x]
      BY <1>1, <1>6, <1>14 DEF Onward
    <2>4. \A x : Done(s, x) => IsIndexed(s, x)
      BY DEF Done
    <2>5. Len(s.tarjan_stack) <= Len(t.tarjan_stack)
      BY <1>3, <1>12
    <2>6. QED
      BY <1>6, <1>12, <2>1, <2>2, <2>3, <2>4, <2>5 DEF Onward
  <1>16. LowKept(s, t)
    BY <1>1, <1>6 DEF LowKept
  <1>17. Stacked(g, t)
    <2>1. \A x \in Ids(g) :
             x \in t.on_stack <=> \E i \in 1 .. Len(t.tarjan_stack) : t.tarjan_stack[i] = x
      BY <1>6, <1>11
    <2>2. \A i, j \in 1 .. Len(t.tarjan_stack) :
             i < j => t.tarjan[t.tarjan_stack[i]] < t.tarjan[t.tarjan_stack[j]]
      BY <1>1, <1>6, <1>10 DEF Ordering, Stacked
    <2>3. ASSUME NEW x \in t.on_stack
          PROVE  IsIndexed(t, x) /\ UnionFind(t, x) = x
      <3>1. x \in v.on_stack /\ x \notin C /\ x \in Ids(g)
        BY <1>2, <1>6, SolverFields
      <3>2. IsIndexed(v, x) /\ UnionFind(v, x) = x
        BY <1>1, <3>1 DEF Ordering, Stacked
      <3>3. QED
        BY <1>6, <1>14, <3>1, <3>2
    <2>4. QED
      BY <2>1, <2>2, <2>3 DEF Stacked
  <1>18. Numbered(g, t)
    <2>1. ASSUME NEW x \in Ids(g)
          PROVE  /\ t.tarjan[x] <= t.indexed
                 /\ ~IsIndexed(t, x) => UnionFind(t, x) = x
                 /\ IsIndexed(t, x) <=> IsIndexed(t, UnionFind(t, x))
      <3>1. /\ v.tarjan[x] <= v.indexed
            /\ ~IsIndexed(v, x) => UnionFind(v, x) = x
            /\ IsIndexed(v, x) <=> IsIndexed(v, UnionFind(v, x))
        BY <1>1 DEF Ordering, Numbered
      <3>2. QED
        BY <1>6, <1>7, <1>8, <1>14, <3>1
    <2>2. QED
      BY <2>1 DEF Numbered
  <1>19. Connected(g, t)
    <2>1. ASSUME NEW x \in Ids(g), UnionFind(v, x) \in C
          PROVE  /\ Reaches(g, Class(g, t, x), x, UnionFind(t, x))
                 /\ Reaches(g, Class(g, t, x), UnionFind(t, x), x)
      <3>1. Class(g, t, x) = Above(g, v, k)
        <4>1. \A y \in Ids(g) : UnionFind(t, y) = UnionFind(t, x) <=> UnionFind(v, y) \in C
          BY <1>6, <1>8, <2>1
        <4>2. \A y : UnionFind(v, y) \in C <=> \E j \in k .. N : UnionFind(v, y) = stack[j]
          BY DEF C, Tops
        <4>3. QED
          BY <4>1, <4>2 DEF Class, Above
      <3>2. PICK p \in k .. N : UnionFind(v, x) = stack[p]
        BY <2>1 DEF C, Tops
      <3>3. Class(g, v, x) \subseteq Above(g, v, k)
        <4> HIDE DEF k
        <4>1. QED
          BY <1>2, <1>3, <3>2, ClassAbove
      <3>4. /\ Reaches(g, Above(g, v, k), x, stack[p])
            /\ Reaches(g, Above(g, v, k), stack[p], x)
        <4>1. Reaches(g, Class(g, v, x), x, stack[p]) /\ Reaches(g, Class(g, v, x), stack[p], x)
          BY <1>1, <3>2 DEF Ordering, Connected
        <4>2. QED
          BY <3>3, <4>1, ReachesWider
      <3>5. Reaches(g, Above(g, v, k), stack[p], id)
        <4>1. \A j \in k .. N : v.tarjan[stack[k]] <= v.lowlink[stack[j]]
          BY <1>1
        <4>2. \A j \in k + 1 .. N : v.lowlink[stack[j]] < v.tarjan[stack[j]]
          BY <1>1
        <4> HIDE DEF k
        <4>3. \A j \in k .. N : Reaches(g, Above(g, v, k), stack[j], stack[k])
          BY <1>1, <1>3, <4>1, <4>2, ComponentReaches
        <4>4. QED
          BY <1>1, <4>3
      <3>6. Reaches(g, Above(g, v, k), id, stack[p])
        BY <1>1
      <3>7. UnionFind(t, x) = id
        BY <1>6, <2>1
      <3>8. Reaches(g, Above(g, v, k), x, id) /\ Reaches(g, Above(g, v, k), id, x)
        BY <3>4, <3>5, <3>6, ReachesFurther
      <3>9. QED
        BY <3>1, <3>7, <3>8
    <2>2. ASSUME NEW x \in Ids(g), UnionFind(v, x) \notin C
          PROVE  /\ Reaches(g, Class(g, t, x), x, UnionFind(t, x))
                 /\ Reaches(g, Class(g, t, x), UnionFind(t, x), x)
      <3>1. Class(g, v, x) \subseteq Class(g, t, x) /\ UnionFind(t, x) = UnionFind(v, x)
        BY <1>6, <2>2 DEF Class
      <3>2. /\ Reaches(g, Class(g, v, x), x, UnionFind(v, x))
            /\ Reaches(g, Class(g, v, x), UnionFind(v, x), x)
        BY <1>1 DEF Ordering, Connected
      <3>3. QED
        BY <3>1, <3>2, ReachesWider
    <2>3. QED
      BY <2>1, <2>2 DEF Connected
  <1>20. Tracing(g, t)
    <2>1. ASSUME NEW p \in 1 .. Len(s.tarjan_stack)
          PROVE  Traced(g, t, p)
      <3>1. s.tarjan_stack[p] \in s.on_stack
        BY StackPlaces
      <3>2. QED
        BY <1>15, <1>16, <3>1, TracedOn DEF LowKept
    <2>2. QED
      BY <1>12, <2>1 DEF Tracing
  <1>21. v.sorted_id \in Nat /\ t.sorted_id \in Nat /\ t.sorted_id = v.sorted_id + 1
    BY <1>2, <1>6, SolverFields
  <1>22. ASSUME NEW x \in Ids(g), Done(t, x)
         PROVE  \/ /\ UnionFind(v, x) \in C /\ UnionFind(t, x) = id
                   /\ t.order[UnionFind(t, x)] = v.sorted_id
                \/ /\ Done(v, x) /\ UnionFind(v, x) \notin C /\ UnionFind(t, x) = UnionFind(v, x)
                   /\ t.order[UnionFind(t, x)] = v.order[UnionFind(v, x)]
                   /\ v.order[UnionFind(v, x)] < v.sorted_id
    <2>1. CASE UnionFind(v, x) \in C
      BY <1>6, <1>8, <2>1
    <2>2. CASE UnionFind(v, x) \notin C
      <3>1. Done(v, x)
        BY <1>13, <1>14, <1>22, <2>2 DEF Done
      <3>2. v.order[UnionFind(v, x)] < v.sorted_id
        BY <1>1, <3>1 DEF Ordering, Sorted
      <3>3. QED
        BY <1>4, <1>6, <2>2, <3>1, <3>2
    <2>3. QED
      BY <2>1, <2>2
  <1>23. Sorted(g, t)
    <2>1. ASSUME NEW x \in Ids(g), NEW y \in Ids(g), Done(t, x), Done(t, y)
          PROVE  /\ t.order[UnionFind(t, x)] < t.sorted_id
                 /\ t.order[UnionFind(t, x)] = t.order[UnionFind(t, y)]
                       => UnionFind(t, x) = UnionFind(t, y)
      <3>1. /\ v.order[UnionFind(v, x)] \in Nat /\ v.order[UnionFind(v, y)] \in Nat
        BY <1>4
      <3>2. Done(v, x) /\ Done(v, y) =>
               (v.order[UnionFind(v, x)] = v.order[UnionFind(v, y)]
                  => UnionFind(v, x) = UnionFind(v, y))
        BY <1>1 DEF Ordering, Sorted
      <3>3. t.order[UnionFind(t, x)] < t.sorted_id
        BY <1>21, <1>22, <2>1, <3>1
      <3>4. ASSUME t.order[UnionFind(t, x)] = t.order[UnionFind(t, y)]
            PROVE  UnionFind(t, x) = UnionFind(t, y)
        BY <1>21, <1>22, <2>1, <3>1, <3>2, <3>4
      <3>5. QED
        BY <3>3, <3>4
    <2>2. QED
      BY <2>1 DEF Sorted
  <1>24. Exact(g, t)
    <2>1. ASSUME ~HasEquality(g), NEW x \in Ids(g)
          PROVE  OnStack(t, x) => UnionFind(t, x) = x
      BY <1>1, <1>6, <1>13, <2>1 DEF Ordering, Exact
    <2>2. ASSUME ~HasEquality(g), NEW x \in Ids(g), Done(t, x), NEW y \in Below(g, {x})
          PROVE  Done(t, y) /\ t.order[UnionFind(t, y)] <= t.order[UnionFind(t, x)]
      <3>1. y \in Ids(g)
        BY BelowLifetimes
      <3>2. \A z \in Ids(g) : UnionFind(v, z) \in C => OnStack(v, z) /\ Done(t, z)
               /\ t.order[UnionFind(t, z)] = v.sorted_id
        <4>1. ASSUME NEW z \in Ids(g), UnionFind(v, z) \in C
              PROVE  OnStack(v, z) /\ Done(t, z) /\ t.order[UnionFind(t, z)] = v.sorted_id
          <5>1. OnStack(v, z) /\ IsIndexed(v, z)
            BY <1>1, <1>7, <4>1 DEF OnStack, Ordering, Numbered
          <5>2. Done(t, z)
            BY <1>13, <1>14, <4>1, <5>1 DEF Done
          <5>3. t.order[UnionFind(t, z)] = v.sorted_id
            BY <1>6, <1>8, <4>1
          <5>4. QED
            BY <5>1, <5>2, <5>3
        <4>2. QED
          BY <4>1
      <3>3. ASSUME Done(v, y)
            PROVE  /\ UnionFind(v, y) \notin C /\ Done(t, y)
                   /\ t.order[UnionFind(t, y)] = v.order[UnionFind(v, y)]
                   /\ v.order[UnionFind(v, y)] < v.sorted_id
        <4>1. UnionFind(v, y) \notin C
          BY <3>1, <3>2, <3>3 DEF Done
        <4>2. Done(t, y)
          BY <1>13, <1>14, <3>1, <3>3, <4>1 DEF Done
        <4>3. QED
          BY <1>22, <3>1, <4>1, <4>2
      <3>4. CASE UnionFind(v, x) \notin C
        <4>1. Done(v, x) /\ t.order[UnionFind(t, x)] = v.order[UnionFind(v, x)]
          BY <1>22, <2>2, <3>4
        <4>2. Done(v, y) /\ v.order[UnionFind(v, y)] <= v.order[UnionFind(v, x)]
          BY <1>1, <2>2, <4>1 DEF Ordering, Exact
        <4>3. QED
          BY <3>3, <4>1, <4>2
      <3>5. CASE UnionFind(v, x) \in C
        <4>1. UnionFind(v, x) = x
          BY <1>1, <2>2, <3>2, <3>5 DEF Ordering, Exact
        <4>2. PICK p \in k .. N : x = stack[p]
          BY <3>5, <4>1 DEF C, Tops
        <4>3. p = k \/ p \in k + 1 .. N
          BY <1>3, <4>2
        <4>4. Settled(g, v, x, v.lowlink[x]) /\ v.tarjan[id] <= v.lowlink[x]
          BY <1>1, <2>2, <4>2, <4>3
        <4>5. Seen(v, y, v.lowlink[x])
          BY <2>2, <4>4 DEF Settled
        <4>6. CASE OnStack(v, y)
          <5>1. v.lowlink[x] <= v.tarjan[UnionFind(v, y)]
            BY <4>5, <4>6 DEF Seen
          <5>2. PICK j \in 1 .. N : UnionFind(v, y) = stack[j]
            BY <1>1, <3>1, <4>6, StackPlaces
          <5>3. v.tarjan[id] \in Nat /\ v.lowlink[x] \in Nat /\ v.tarjan[UnionFind(v, y)] \in Nat
            BY <1>4, <3>1
          <5>4. v.tarjan[stack[k]] <= v.tarjan[stack[j]]
            BY <1>1, <4>4, <5>1, <5>2, <5>3
          <5>5. k <= j
            <6> HIDE DEF k
            <6>1. QED
              BY <1>1, <1>3, <5>4, StackAscends
          <5>6. j \in k .. N
            BY <1>3, <5>5
          <5>7. UnionFind(v, y) \in C
            BY <5>2, <5>6 DEF C, Tops
          <5>8. QED
            BY <1>21, <3>1, <3>2, <3>5, <5>7
        <4>7. CASE ~OnStack(v, y)
          <5>1. Done(v, y)
            BY <4>5, <4>7 DEF Seen, Done
          <5>2. v.order[UnionFind(v, y)] \in Nat
            BY <1>4, <3>1
          <5>3. QED
            BY <1>21, <3>2, <3>3, <3>5, <5>1, <5>2
        <4>8. QED
          BY <4>6, <4>7
      <3>6. QED
        BY <3>4, <3>5
    <2>3. QED
      BY <2>1, <2>2 DEF Exact
  <1>25. Ordering(g, t)
    BY <1>6, <1>17, <1>18, <1>19, <1>20, <1>23, <1>24 DEF Ordering
  <1>26. IsIndexed(t, id) /\ t.outlives_stack = <<>> /\ t.lowlink[id] = t.tarjan[id]
    BY <1>1, <1>6, <1>7, <1>8, <1>14
  <1>27. QED
    BY <1>12, <1>15, <1>16, <1>25, <1>26 DEF Finished, t

-----------------------------------------------------------------------------
(* ProcessNode as a whole. *)

LEMMA EmptiedOrders ==
    ASSUME NEW g, Referring(g), NEW s, Ordering(g, s)
    PROVE  LET t == [s EXCEPT !.outlives_stack = <<>>]
           IN  /\ Ordering(g, t) /\ Onward(g, s, t) /\ t.outlives_stack = <<>>
               /\ t.tarjan_stack = s.tarjan_stack /\ t.lowlink = s.lowlink /\ t.tarjan = s.tarjan
               /\ \A x : UnionFind(t, x) = UnionFind(s, x)
               /\ \A x, bound : Seen(t, x, bound) <=> Seen(s, x, bound)
  <1> DEFINE t == [s EXCEPT !.outlives_stack = <<>>]
  <1>1. s \in Solving(g) /\ s \in Solvers(g)
    BY SolverFields DEF Ordering
  <1>2. /\ t \in Solvers(g) /\ t.parent = s.parent /\ t.tarjan = s.tarjan
        /\ t.indexed = s.indexed /\ t.lowlink = s.lowlink /\ t.order = s.order
        /\ t.sorted_id = s.sorted_id /\ t.on_stack = s.on_stack
        /\ t.tarjan_stack = s.tarjan_stack /\ t.outlives_stack = <<>>
    <2>1. <<>> \in Seq(Ids(g))
      OBVIOUS
    <2>2. QED
      BY <1>1, <2>1 DEF Solvers
  <1> HIDE DEF t
  <1>3. t \in Solving(g) /\ \A x : UnionFind(t, x) = UnionFind(s, x)
    BY <1>1, <1>2, SameParents
  <1>4. /\ \A x : IsIndexed(t, x) <=> IsIndexed(s, x)
        /\ \A x : OnStack(t, x) <=> OnStack(s, x)
    BY <1>2, <1>3 DEF IsIndexed, OnStack
  <1>5. \A x : Done(t, x) <=> Done(s, x)
    BY <1>4 DEF Done
  <1>6. /\ \A x : Class(g, t, x) = Class(g, s, x)
        /\ \A q : Above(g, t, q) = Above(g, s, q)
    BY <1>2, <1>3 DEF Class, Above
  <1>7. Stacked(g, t) /\ Numbered(g, t)
    BY <1>2, <1>3, <1>4 DEF Ordering, Stacked, Numbered
  <1>8. Connected(g, t)
    BY <1>3, <1>6 DEF Ordering, Connected
  <1>9. Tracing(g, t)
    BY <1>2, <1>6 DEF Ordering, Tracing, Traced
  <1>10. Sorted(g, t)
    BY <1>2, <1>3, <1>5 DEF Ordering, Sorted
  <1>11. Exact(g, t)
    BY <1>2, <1>3, <1>4, <1>5 DEF Ordering, Exact
  <1>12. Onward(g, s, t)
    <2>1. Onward(g, s, s)
      BY <1>1, OnwardFromItself
    <2>2. QED
      BY <1>2, <1>3, <1>4, <2>1 DEF Onward
  <1>13. \A x, bound : Seen(t, x, bound) <=> Seen(s, x, bound)
    BY <1>2, <1>3, <1>4 DEF Seen
  <1>14. QED
    BY <1>2, <1>3, <1>7, <1>8, <1>9, <1>10, <1>11, <1>12, <1>13 DEF Ordering, t

\* With id on the stack and its class united, exploring begins.
LEMMA UnitedExplores ==
    ASSUME SolverUnfolds, NEW g \in Group, Referring(g), NEW s, Ordering(g, s),
           NEW id \in Ids(g), ~IsIndexed(s, id), s.outlives_stack = <<>>
    PROVE  LET united == UnionEqualSuccessors(g, Opened(s, id), id)
               items == Reverse(united.outlives_stack)
           IN  /\ items \in Seq(Ids(g))
               /\ [united EXCEPT !.outlives_stack = <<>>] \in DrainedTo(g, s, id, items, 0)
  <1> DEFINE opened == Opened(s, id)
             united == UnionEqualSuccessors(g, opened, id)
             waiting == united.outlives_stack
             items == Reverse(waiting)
             t == [united EXCEPT !.outlives_stack = <<>>]
             k == Len(s.tarjan_stack) + 1
  <1>1. /\ Ordering(g, opened) /\ Onward(g, s, opened) /\ LowKept(s, opened)
        /\ Len(opened.tarjan_stack) = k /\ opened.tarjan_stack[k] = id
        /\ opened.outlives_stack = <<>>
    BY OpenedOrders
  <1> HIDE DEF opened
  <1>2. s \in Solving(g) /\ opened \in Solving(g) /\ Len(s.tarjan_stack) \in Nat /\ k \in Nat
        /\ k \in 1 .. Len(opened.tarjan_stack) /\ k \in k .. k
    BY <1>1, SolverFields DEF Ordering
  <1>3. OnStack(opened, id)
    BY <1>1, <1>2, StackPlaces
  <1>4. Swept(g, opened, united, id)
    BY <1>1, <1>3, UnionSweeps
  <1> HIDE DEF united
  <1>5. /\ Ordering(g, united) /\ Onward(g, opened, united)
        /\ united.tarjan_stack = opened.tarjan_stack
        /\ \A x \in opened.on_stack : x # id => united.lowlink[x] = opened.lowlink[x]
        /\ Queued(g, united, id)
        /\ ~HasEquality(g) =>
              \A y \in Below(g, {id}) : Waits(united, y) \/ Seen(united, y, united.lowlink[id])
    <2>1. Queued(g, opened, id)
      BY <1>1 DEF Queued
    <2>2. QED
      BY <1>4, <2>1 DEF Swept, StackKept
  <1>6. united \in Solving(g) /\ waiting \in Seq(Ids(g)) /\ Len(waiting) \in Nat
    BY <1>5, SolverFields DEF Ordering
  <1>7. /\ Ordering(g, t) /\ Onward(g, united, t) /\ t.outlives_stack = <<>>
        /\ t.tarjan_stack = united.tarjan_stack /\ t.lowlink = united.lowlink
        /\ \A x : UnionFind(t, x) = UnionFind(united, x)
        /\ \A x, bound : Seen(t, x, bound) <=> Seen(united, x, bound)
    BY <1>5, EmptiedOrders
  <1> HIDE DEF t, waiting
  <1>8. /\ items \in Seq(Ids(g)) /\ Len(items) = Len(waiting)
        /\ \A i \in 1 .. Len(waiting) : items[i] = waiting[(Len(waiting) - i) + 1]
        /\ \A i \in 1 .. Len(waiting) : (Len(waiting) - i) + 1 \in 1 .. Len(waiting)
    <2>1. items = [i \in 1 .. Len(waiting) |-> waiting[(Len(waiting) - i) + 1]]
      BY DEF Reverse
    <2>2. items \in Seq(Ids(g))
      BY <1>6, ReversedItems
    <2>3. Len(items) = Len(waiting)
      BY <1>6, <2>1
    <2>4. \A i \in 1 .. Len(waiting) : (Len(waiting) - i) + 1 \in 1 .. Len(waiting)
      BY <1>6
    <2>5. QED
      BY <2>1, <2>2, <2>3, <2>4
  <1> HIDE DEF items
  <1>9. Onward(g, s, t)
    BY <1>1, <1>2, <1>5, <1>6, <1>7, OnwardOnward
  <1>10. LowKept(s, t)
    <2>1. ASSUME NEW x \in s.on_stack
          PROVE  t.lowlink[x] = s.lowlink[x]
      <3>1. x \in Ids(g) /\ IsIndexed(s, x) /\ UnionFind(s, x) = x
        BY <1>2, SolverFields DEF Ordering, Stacked
      <3>2. x # id
        BY <3>1
      <3>3. x \in opened.on_stack
        BY <1>1, <3>1 DEF Onward, OnStack
      <3>4. QED
        BY <1>1, <1>5, <1>7, <3>2, <3>3 DEF LowKept
    <2>2. QED
      BY <2>1 DEF LowKept
  <1>11. t.tarjan_stack[k] = id /\ Len(t.tarjan_stack) = k
    BY <1>1, <1>5, <1>7
  <1>12. UnionFind(t, id) = id
    BY <1>2, <1>7, <1>11, StackPlaces
  <1>13. Reaches(g, Above(g, t, k), id, id)
    <2>1. id \in Above(g, t, k)
      BY <1>2, <1>11, <1>12 DEF Above
    <2>2. QED
      BY <2>1, ReachesItself
  <1>14. t \in Solving(g) /\ t.lowlink[id] \in Nat
    BY <1>7, SolverFields DEF Ordering
  <1>15. Exploring(g, s, t, id)
    <2>1. \A p \in k .. Len(t.tarjan_stack) : p = k
      BY <1>2, <1>11
    <2>2. \A p \in k + 1 .. Len(t.tarjan_stack) : FALSE
      BY <1>2, <1>11
    <2>3. k <= Len(t.tarjan_stack) /\ t.lowlink[id] <= t.lowlink[id]
      BY <1>2, <1>11, <1>14
    <2> HIDE DEF k
    <2>4. Explored(g, s, t, id)
      BY <1>7, <1>9, <1>10, <1>11, <1>13, <2>1, <2>2, <2>3 DEF Explored, k
    <2>5. QED
      BY <1>11, <2>1, <2>3, <2>4 DEF Exploring, k
  <1>16. Hanging(g, t, id, items)
    BY <1>5, <1>7, <1>8 DEF Hanging, Queued, waiting
  <1>17. ASSUME ~HasEquality(g), NEW y \in Below(g, {id})
         PROVE  \/ Seen(t, y, t.lowlink[id])
                \/ \E i \in 1 .. Len(items) : items[i] = y /\ (i <= 0 => ~IsIndexed(t, y))
    <2>1. CASE Seen(united, y, united.lowlink[id])
      BY <1>7, <2>1
    <2>2. CASE Waits(united, y)
      <3>1. PICK j \in 1 .. Len(waiting) : waiting[j] = y
        BY <2>2 DEF Waits, waiting
      <3>2. /\ (Len(waiting) - j) + 1 \in 1 .. Len(waiting)
            /\ (Len(waiting) - ((Len(waiting) - j) + 1)) + 1 = j
            /\ ~((Len(waiting) - j) + 1 <= 0)
        BY <1>6
      <3>3. items[(Len(waiting) - j) + 1] = y
        BY <1>8, <3>1, <3>2
      <3>4. QED
        BY <1>8, <3>2, <3>3
    <2>3. QED
      BY <1>5, <1>17, <2>1, <2>2
  <1>18. QED
    BY <1>8, <1>14, <1>15, <1>16, <1>17 DEF DrainedTo, t, items, waiting, united, opened

LEMMA ProcessOnce ==
    ASSUME SolverUnfolds, NEW g \in Group, Referring(g), NEW s, Ordering(g, s),
           NEW id \in Ids(g), ~IsIndexed(s, id), s.outlives_stack = <<>>,
           \A u \in Solving(g), x \in Ids(g) :
              Left(g, u) < Left(g, s) /\ Ordering(g, u) /\ ~IsIndexed(u, x) /\ u.outlives_stack = <<>>
                 => Finished(g, u, ProcessNode(g, u, x), x)
    PROVE  Finished(g, s, ProcessNode(g, s, id), id)
  <1> DEFINE at == [group |-> g, id |-> id]
             united == UnionEqualSuccessors(g, Opened(s, id), id)
             items == Reverse(united.outlives_stack)
             emptied == [united EXCEPT !.outlives_stack = <<>>]
             drained == Draining!Loop(at, emptied, items)
             v == Visiting!Loop(at, drained, items)
             k == Len(s.tarjan_stack) + 1
  <1>1. ProcessNode(g, s, id) =
           IF v.lowlink[id] = v.tarjan[id] THEN PopComponent(v, id) ELSE v
    BY DEF ProcessNode, Opened
  <1>2. items \in Seq(Ids(g)) /\ emptied \in DrainedTo(g, s, id, items, 0)
    BY UnitedExplores
  <1> HIDE DEF items, emptied
  <1>3. drained \in DrainedTo(g, s, id, items, Len(items))
    BY <1>2, DrainingKeeps
  <1> HIDE DEF drained
  <1>4. drained \in VisitedTo(g, s, id, items, 0)
    <2>1. \A i \in 1 .. Len(items) : i <= Len(items) /\ i \in 0 + 1 .. Len(items)
      BY <1>2
    <2>2. /\ drained \in Solving(g) /\ Exploring(g, s, drained, id)
          /\ Hanging(g, drained, id, items)
          /\ ~HasEquality(g) =>
                \A y \in Below(g, {id}) :
                    \/ Seen(drained, y, drained.lowlink[id])
                    \/ \E i \in 1 .. Len(items) :
                          items[i] = y /\ (i <= Len(items) => ~IsIndexed(drained, y))
      BY <1>3 DEF DrainedTo
    <2>3. ASSUME ~HasEquality(g), NEW y \in Below(g, {id})
          PROVE  \/ Seen(drained, y, drained.lowlink[id])
                 \/ \E i \in 0 + 1 .. Len(items) : items[i] = y /\ ~IsIndexed(drained, y)
      BY <2>1, <2>2, <2>3
    <2>4. QED
      BY <2>2, <2>3 DEF VisitedTo
  <1>5. v \in VisitedTo(g, s, id, items, Len(items))
    BY <1>2, <1>4, VisitingKeeps
  <1> HIDE DEF v
  <1>6. v \in Solving(g) /\ Exploring(g, s, v, id)
        /\ (~HasEquality(g) => Settled(g, v, id, v.lowlink[id]))
    <2>1. \A i \in Len(items) + 1 .. Len(items) : FALSE
      BY <1>2
    <2>2. QED
      BY <1>5, <2>1 DEF VisitedTo, Settled
  <1>7. CASE v.lowlink[id] = v.tarjan[id]
    BY <1>1, <1>6, <1>7, PoppedOrders
  <1>8. CASE v.lowlink[id] # v.tarjan[id]
    <2>1. /\ Ordering(g, v) /\ Onward(g, s, v) /\ LowKept(s, v) /\ v.outlives_stack = <<>>
          /\ k <= Len(v.tarjan_stack) /\ v.tarjan_stack[k] = id
          /\ \A p \in k .. Len(v.tarjan_stack) :
                Reaches(g, Above(g, v, k), id, v.tarjan_stack[p])
          /\ \A p \in k + 1 .. Len(v.tarjan_stack) :
                /\ v.lowlink[v.tarjan_stack[p]] < v.tarjan[v.tarjan_stack[p]]
                /\ ~HasEquality(g) =>
                      Settled(g, v, v.tarjan_stack[p], v.lowlink[v.tarjan_stack[p]])
          /\ \A p \in k .. Len(v.tarjan_stack) : v.lowlink[id] <= v.lowlink[v.tarjan_stack[p]]
      BY <1>6 DEF Exploring, Explored
    <2>2. Len(s.tarjan_stack) \in Nat /\ Len(v.tarjan_stack) \in Nat /\ s \in Solving(g)
          /\ v.lowlink[id] \in Nat /\ v.tarjan[id] \in Nat
      <3>1. s \in Solving(g)
        BY DEF Ordering
      <3>2. QED
        BY <1>6, <3>1, SolverFields
    <2>3. k \in 1 .. Len(v.tarjan_stack)
      BY <2>1, <2>2
    <2>4. IsIndexed(v, id) /\ v.lowlink[id] <= v.tarjan[id]
      BY <2>1, <2>3, StackPlaces, LowlinkBounded
    <2>5. v.lowlink[id] < v.tarjan[id]
      BY <1>8, <2>2, <2>4
    <2>6. \A p \in k .. Len(v.tarjan_stack) : p = k \/ p \in k + 1 .. Len(v.tarjan_stack)
      BY <2>2
    <2>7. \A p \in k .. Len(v.tarjan_stack) :
             /\ v.lowlink[v.tarjan_stack[p]] < v.tarjan[v.tarjan_stack[p]]
             /\ ~HasEquality(g) => Settled(g, v, v.tarjan_stack[p], v.lowlink[v.tarjan_stack[p]])
      BY <1>6, <2>1, <2>5, <2>6
    <2>8. Finished(g, s, v, id)
      BY <2>1, <2>4, <2>7 DEF Finished
    <2>9. QED
      BY <1>1, <1>8, <2>8
  <1>9. QED
    BY <1>7, <1>8

LEMMA ProcessOrders ==
    ASSUME SolverUnfolds, NEW g \in Group, Referring(g), NEW s, Ordering(g, s),
           NEW id \in Ids(g), ~IsIndexed(s, id), s.outlives_stack = <<>>
    PROVE  Finished(g, s, ProcessNode(g, s, id), id)
  <1> DEFINE T == {n \in Nat : \A u \in Solving(g), x \in Ids(g) :
                      Left(g, u) < n /\ Ordering(g, u) /\ ~IsIndexed(u, x) /\ u.outlives_stack = <<>>
                         => Finished(g, u, ProcessNode(g, u, x), x)}
  <1>1. \A u \in Solving(g) : Left(g, u) \in Nat
    BY LaterThanItself, LeftDescends
  <1>2. 0 \in T
    BY <1>1
  <1>3. ASSUME NEW n \in Nat, n \in T
        PROVE  n + 1 \in T
    <2>1. SUFFICES ASSUME NEW u \in Solving(g), NEW x \in Ids(g), Left(g, u) < n + 1,
                          Ordering(g, u), ~IsIndexed(u, x), u.outlives_stack = <<>>
                   PROVE  Finished(g, u, ProcessNode(g, u, x), x)
      OBVIOUS
    <2>2. \A v \in Solving(g) : Left(g, v) < Left(g, u) => Left(g, v) < n
      BY <1>1, <2>1
    <2>3. \A v \in Solving(g), y \in Ids(g) :
             Left(g, v) < Left(g, u) /\ Ordering(g, v) /\ ~IsIndexed(v, y) /\ v.outlives_stack = <<>>
                => Finished(g, v, ProcessNode(g, v, y), y)
      BY <1>3, <2>2
    <2>4. QED
      BY <2>1, <2>3, ProcessOnce
  <1> HIDE DEF T
  <1>4. \A n \in Nat : n \in T
    BY <1>2, <1>3, StepByStep
  <1>5. Left(g, s) + 1 \in T /\ Left(g, s) < Left(g, s) + 1 /\ s \in Solving(g)
    BY <1>1, <1>4 DEF Ordering
  <1>6. QED
    BY <1>5 DEF T

-----------------------------------------------------------------------------
(* What the orders that are built mean. *)

LEMMA FreshOrders ==
    ASSUME NEW g, Referring(g)
    PROVE  Ordering(g, FreshSolver(g))
  <1> DEFINE s == FreshSolver(g)
  <1>1. s \in Solving(g)
    BY FreshIsClosed
  <1>2. /\ \A x \in Ids(g) : s.parent[x] = None /\ s.tarjan[x] = None
        /\ s.on_stack = {} /\ s.tarjan_stack = <<>> /\ s.indexed = 0
    BY DEF FreshSolver
  <1> HIDE DEF s
  <1>3. \A x \in Ids(g) : UnionFind(s, x) = x
    <2> DEFINE root == [x \in Ids(g) |-> x]
               rank == [x \in Ids(g) |-> 0]
    <2>1. Rooted(g, s, root, rank)
      BY <1>2 DEF Rooted
    <2>2. root \in [Ids(g) -> Ids(g)] /\ rank \in [Ids(g) -> Nat] /\ s \in Solvers(g)
      BY <1>1 DEF Solving
    <2>3. \A x \in Ids(g) : root[x] = x
      OBVIOUS
    <2> HIDE DEF root, rank
    <2>4. QED
      BY <2>1, <2>2, <2>3, FindsRoot
  <1>4. \A x \in Ids(g) : ~IsIndexed(s, x) /\ ~OnStack(s, x) /\ ~Done(s, x)
    BY <1>2 DEF IsIndexed, OnStack, Done
  <1>5. Stacked(g, s)
    BY <1>2 DEF Stacked
  <1>6. Numbered(g, s)
    BY <1>2, <1>3, <1>4 DEF Numbered, None
  <1>7. Connected(g, s)
    <2>1. ASSUME NEW x \in Ids(g)
          PROVE  Reaches(g, Class(g, s, x), x, x)
      BY ReachesItself DEF Class
    <2>2. QED
      BY <1>3, <2>1 DEF Connected
  <1>8. Tracing(g, s)
    BY <1>2 DEF Tracing
  <1>9. Sorted(g, s)
    BY <1>4 DEF Sorted
  <1>10. Exact(g, s)
    BY <1>4 DEF Exact
  <1>11. QED
    BY <1>1, <1>5, <1>6, <1>7, <1>8, <1>9, <1>10 DEF Ordering, s

LEMMA CondensedOrders ==
    ASSUME SolverUnfolds, NEW g \in Group, Referring(g)
    PROVE  Ordering(g, Condensed(g)) /\ \A x \in Ids(g) : Done(Condensed(g), x)
  <1> DEFINE N == MaxId(g)
             items == [id \in Ids(g) |-> id]
             fresh == FreshSolver(g)
             W == [n \in 0 .. N |->
                      {s \in Solving(g) :
                          /\ Ordering(g, s) /\ s.tarjan_stack = <<>> /\ s.outlives_stack = <<>>
                          /\ \A id \in Ids(g) : id <= n => IsIndexed(s, id)}]
  <1>1. N \in Nat /\ Ids(g) = 1 .. N
    BY IdsAreNumbers
  <1>2. Len(items) = N /\ \A n \in 1 .. N : items[n] = n
    BY <1>1
  <1>3. fresh \in W[0]
    <2>1. fresh \in Solving(g) /\ Ordering(g, fresh)
      BY FreshOrders DEF Ordering
    <2>2. fresh.tarjan_stack = <<>> /\ fresh.outlives_stack = <<>>
      BY DEF FreshSolver
    <2> HIDE DEF fresh
    <2>3. QED
      BY <1>1, <2>1, <2>2
  <1>4. ASSUME NEW n \in 1 .. N, NEW s \in W[n - 1]
        PROVE  Start(g, s, items[n]) \in W[n]
    <2> DEFINE t == Start(g, s, n)
    <2>1. n - 1 \in 0 .. N /\ n \in 0 .. N /\ n \in Ids(g)
      BY <1>1
    <2>2. /\ s \in Solving(g) /\ Ordering(g, s) /\ s.tarjan_stack = <<>> /\ s.outlives_stack = <<>>
          /\ \A id \in Ids(g) : id <= n - 1 => IsIndexed(s, id)
      BY <2>1
    <2>3. /\ Ordering(g, t) /\ t.tarjan_stack = <<>> /\ t.outlives_stack = <<>>
          /\ IsIndexed(t, n) /\ Onward(g, s, t)
      <3>1. CASE IsIndexed(s, n)
        BY <2>2, <3>1, OnwardFromItself DEF Start
      <3>2. CASE ~IsIndexed(s, n)
        <4>1. t = ProcessNode(g, s, n)
          BY <3>2 DEF Start
        <4> HIDE DEF t
        <4>2. Finished(g, s, t, n)
          BY <2>1, <2>2, <3>2, <4>1, ProcessOrders
        <4>3. Len(s.tarjan_stack) + 1 = 1
          BY <2>2
        <4>4. ASSUME 1 <= Len(t.tarjan_stack), t.tarjan_stack[1] = n,
                     \A p \in 1 .. Len(t.tarjan_stack) :
                        t.lowlink[t.tarjan_stack[p]] < t.tarjan[t.tarjan_stack[p]]
              PROVE  FALSE
          <5>1. Ordering(g, t) /\ t \in Solving(g)
            BY <4>2 DEF Finished, Ordering
          <5>2. Len(t.tarjan_stack) \in Nat /\ t.tarjan[n] \in Nat
            BY <2>1, <5>1, SolverFields
          <5>3. 1 \in 1 .. Len(t.tarjan_stack)
            BY <4>4, <5>2
          <5>4. PICK q \in 1 .. 1 : t.lowlink[t.tarjan_stack[1]] = t.tarjan[t.tarjan_stack[q]]
            BY <5>1, <5>3 DEF Ordering, Tracing, Traced
          <5>5. q = 1
            OBVIOUS
          <5>6. t.lowlink[n] = t.tarjan[n] /\ t.lowlink[n] < t.tarjan[n]
            BY <4>4, <5>3, <5>4, <5>5
          <5>7. QED
            BY <5>2, <5>6
        <4>5. t.tarjan_stack = s.tarjan_stack
          BY <4>2, <4>3, <4>4 DEF Finished
        <4>6. QED
          BY <2>2, <4>2, <4>5 DEF Finished
      <3>3. QED
        BY <3>1, <3>2
    <2> HIDE DEF t
    <2>4. ASSUME NEW id \in Ids(g), id <= n
          PROVE  IsIndexed(t, id)
      <3>1. id = n \/ id <= n - 1
        BY <1>1, <2>4
      <3>2. QED
        BY <2>2, <2>3, <3>1, OnwardLeaves
    <2>5. t \in W[n]
      BY <2>1, <2>3, <2>4 DEF Ordering
    <2>6. QED
      BY <1>2, <2>5 DEF t
  <1> HIDE DEF W, items
  <1>5. Starting!Loop(g, fresh, items) \in W[N]
    BY <1>1, <1>2, <1>3, <1>4, Starting!LoopInvariant
  <1>6. Condensed(g) = Starting!Loop(g, fresh, items)
    BY DEF Condensed, items
  <1>7. /\ Ordering(g, Condensed(g)) /\ Condensed(g).tarjan_stack = <<>>
        /\ \A id \in Ids(g) : id <= N => IsIndexed(Condensed(g), id)
    BY <1>1, <1>5, <1>6 DEF W
  <1>8. \A x \in Ids(g) : IsIndexed(Condensed(g), x)
    BY <1>1, <1>7
  <1>9. \A x \in Ids(g) : ~OnStack(Condensed(g), x)
    <2>1. \A i \in 1 .. Len(Condensed(g).tarjan_stack) : FALSE
      BY <1>7
    <2>2. QED
      BY <1>7, <2>1, StackPlaces
  <1>10. QED
    BY <1>7, <1>8, <1>9 DEF Done

\* The lifetimes that have the order of one of them.
OfOrder(g, orders, a) == {x \in Ids(g) : orders[x] = orders[a]}

\* Lifetimes of one order reach each other among the lifetimes of that order.
LEMMA BuildConnects ==
    ASSUME SolverUnfolds, NEW g \in Group, Referring(g), NEW a \in Ids(g), NEW b \in Ids(g),
           Build(g)[a] = Build(g)[b]
    PROVE  Reaches(g, OfOrder(g, Build(g), a), a, b)
  <1> DEFINE done == Condensed(g)
  <1>1. Ordering(g, done) /\ \A x \in Ids(g) : Done(done, x)
    BY CondensedOrders
  <1> HIDE DEF done
  <1>2. Build(g) = [id \in Ids(g) |-> done.order[UnionFind(done, id)]]
    BY DEF Build, done
  <1>3. UnionFind(done, a) = UnionFind(done, b)
    BY <1>1, <1>2 DEF Ordering, Sorted
  <1>4. Class(g, done, a) \subseteq OfOrder(g, Build(g), a) /\ Class(g, done, a) = Class(g, done, b)
    BY <1>2, <1>3 DEF Class, OfOrder
  <1>5. /\ Reaches(g, Class(g, done, a), a, UnionFind(done, a))
        /\ Reaches(g, Class(g, done, b), UnionFind(done, b), b)
    BY <1>1 DEF Ordering, Connected
  <1>6. Reaches(g, Class(g, done, a), a, b)
    BY <1>3, <1>4, <1>5, ReachesFurther
  <1>7. QED
    BY <1>4, <1>6, ReachesWider

\* Where nothing must match, no order is higher than that of what is above.
LEMMA BuildDescends ==
    ASSUME SolverUnfolds, NEW g \in Group, Referring(g), ~HasEquality(g),
           NEW x \in Ids(g), NEW y \in Below(g, {x})
    PROVE  Build(g)[y] <= Build(g)[x]
  <1> DEFINE done == Condensed(g)
  <1>1. Ordering(g, done) /\ Done(done, x)
    BY CondensedOrders
  <1> HIDE DEF done
  <1>2. Build(g) = [id \in Ids(g) |-> done.order[UnionFind(done, id)]]
    BY DEF Build, done
  <1>3. y \in Ids(g)
    BY BelowLifetimes
  <1>4. QED
    BY <1>1, <1>2, <1>3 DEF Ordering, Exact

-----------------------------------------------------------------------------
(* The search for a counterexample finds a path where there is one.        *)

\* The lifetimes the search has met, and those that wait in its queue.
Met(c, search) == {Lesser(c)} \cup {r[1] : r \in search.reached}

Awaited(search, x) == \E j \in DOMAIN search.queue : search.queue[j].location = x

\* What is below x and of the right order has been met.
Followed(g, c, orders, search, x) ==
    \A y \in Below(g, {x}) : orders[y] = orders[Greater(c)] => y \in Met(c, search)

\* As long as nothing is found: the target has not been met, and what has been
\* met waits, is at hand, or has been followed.
Seeking(g, c, orders, open) ==
    {search \in Searches(g, c) :
        search.best = <<>> =>
            /\ search.queue \in Seq(Sought(g, c))
            /\ Greater(c) \notin Met(c, search)
            /\ \A j \in DOMAIN search.queue :
                  search.queue[j].visited \cup {search.queue[j].location} \subseteq Met(c, search)
            /\ \A x \in Met(c, search) :
                  x \in open \/ Awaited(search, x) \/ Followed(g, c, orders, search, x)}

\* After so many turns there are as many candidates left as have been queued.
Counted(search, turns) == Len(search.queue) + turns <= 1 + Cardinality(search.reached)

LEMMA ReachedIsFinite ==
    ASSUME NEW g, Referring(g), NEW reached \in SUBSET (Ids(g) \X BOOLEAN)
    PROVE  /\ IsFiniteSet(reached) /\ Cardinality(reached) \in Nat
           /\ Cardinality(reached) <= 2 * MaxId(g)
  <1> DEFINE all == Ids(g) \X BOOLEAN
  <1>1. IsFiniteSet(Ids(g)) /\ Cardinality(Ids(g)) = MaxId(g) /\ MaxId(g) \in Nat
    <2>1. Ids(g) = 1 .. MaxId(g) /\ MaxId(g) \in Nat
      BY IdsAreNumbers
    <2>2. QED
      BY <2>1, FS_Interval
  <1>2. IsFiniteSet(BOOLEAN) /\ Cardinality(BOOLEAN) = 2
    <2>1. IsFiniteSet({TRUE}) /\ Cardinality({TRUE}) = 1
      BY FS_Singleton
    <2>2. BOOLEAN = {TRUE} \cup {FALSE} /\ FALSE \notin {TRUE}
      OBVIOUS
    <2>3. IsFiniteSet({TRUE} \cup {FALSE}) /\ Cardinality({TRUE} \cup {FALSE}) = 1 + 1
      BY <2>1, <2>2, FS_AddElement
    <2>4. IsFiniteSet(BOOLEAN) /\ Cardinality(BOOLEAN) = 1 + 1
      BY <2>2, <2>3, Zenon
    <2>5. QED
      BY <2>4, 1 + 1 = 2
  <1>3. IsFiniteSet(all) /\ Cardinality(all) = Cardinality(Ids(g)) * Cardinality(BOOLEAN)
    BY <1>1, <1>2, FS_Product
  <1>4. Cardinality(all) = 2 * MaxId(g)
    BY <1>1, <1>2, <1>3
  <1>5. IsFiniteSet(reached) /\ Cardinality(reached) <= Cardinality(all)
    BY <1>3, FS_Subset
  <1>6. Cardinality(reached) \in Nat
    BY <1>5, FS_CardinalityType
  <1>7. QED
    BY <1>4, <1>5, <1>6

LEMMA ExploreEdgeSeeks ==
    ASSUME NEW g, Referring(g), WellConstrained(g), NEW c \in Stated(g), NEW orders,
           NEW candidate \in Sought(g, c), NEW open,
           NEW search \in Seeking(g, c, orders, open),
           search.best = <<>> =>
              candidate.visited \cup {candidate.location} \subseteq Met(c, search),
           NEW i \in DOMAIN g.constraints, NEW next,
           Leads(g.constraints[i], candidate.location, next)
    PROVE  LET t == ExploreEdge([candidate |-> candidate, order |-> orders,
                                 target |-> Greater(c)], search, g.constraints[i], next)
           IN  /\ t \in Seeking(g, c, orders, open)
               /\ t.best = <<>> =>
                     /\ search.best = <<>>
                     /\ Met(c, search) \subseteq Met(c, t)
                     /\ orders[next] = orders[Greater(c)] => next \in Met(c, t)
                     /\ \A turns \in Int : Counted(search, turns) => Counted(t, turns)
  <1> DEFINE d == g.constraints[i]
             from == [candidate |-> candidate, order |-> orders, target |-> Greater(c)]
             extended == WithStep(candidate, d, next)
             mark == <<next, extended.located>>
             reached == search.reached \cup {mark}
             queue == Append(search.queue, extended)
             t == ExploreEdge(from, search, d, next)
             skip == orders[next] # orders[Greater(c)] \/ next \in candidate.visited
                        \/ mark \in search.reached
  <1>1. /\ extended \in Sought(g, c) /\ extended.location = next
        /\ extended.visited = candidate.visited \cup {candidate.location}
        /\ extended.path \in Seq(Stated(g)) /\ Len(extended.path) > 0
        /\ extended.located \in BOOLEAN /\ next \in Ids(g)
    <2>1. extended \in Sought(g, c) /\ extended.location = next
      BY SoughtOn
    <2>2. extended \in Candidates(g, c)
      BY <2>1 DEF Sought
    <2>3. extended.visited = candidate.visited \cup {candidate.location}
      BY DEF WithStep
    <2> HIDE DEF extended
    <2>4. QED
      BY <2>1, <2>2, <2>3 DEF Candidates, Paths
  <1>2. t \in Searches(g, c)
    <2>1. candidate \in Candidates(g, c) /\ search \in Searches(g, c)
      BY DEF Sought, Seeking
    <2>2. QED
      BY <2>1, ExploreEdgeKeeps
  <1>3. /\ skip => t = search
        /\ ~skip /\ Completable(extended, Greater(c)) =>
              t = [search EXCEPT !.reached = reached, !.best = extended.path]
        /\ ~skip /\ ~Completable(extended, Greater(c)) =>
              t = [search EXCEPT !.reached = reached, !.queue = queue]
    BY DEF ExploreEdge
  <1>4. search \in Searches(g, c)
    BY DEF Seeking
  <1>5. /\ search.queue \in Seq(Candidates(g, c)) /\ search.reached \in SUBSET (Ids(g) \X BOOLEAN)
    BY <1>4 DEF Searches
  <1> HIDE DEF extended, t, d
  <1>6. CASE search.best # <<>>
    <2>1. extended.path # <<>>
      BY <1>1
    <2>2. t.best # <<>>
      BY <1>3, <1>4, <1>6, <2>1 DEF Searches
    <2>3. QED
      BY <1>2, <2>2 DEF Seeking, t, d
  <1>7. CASE search.best = <<>>
    <2>1. /\ search.queue \in Seq(Sought(g, c))
          /\ Greater(c) \notin Met(c, search)
          /\ \A j \in DOMAIN search.queue :
                search.queue[j].visited \cup {search.queue[j].location} \subseteq Met(c, search)
          /\ \A x \in Met(c, search) :
                x \in open \/ Awaited(search, x) \/ Followed(g, c, orders, search, x)
          /\ candidate.visited \cup {candidate.location} \subseteq Met(c, search)
      BY <1>7 DEF Seeking
    <2>2. CASE skip
      <3>1. t = search
        BY <1>3, <2>2
      <3>2. orders[next] = orders[Greater(c)] => next \in Met(c, search)
        <4>1. mark \in search.reached => next \in Met(c, search)
          BY DEF Met
        <4>2. next \in candidate.visited => next \in Met(c, search)
          BY <2>1
        <4>3. QED
          BY <2>2, <4>1, <4>2
      <3>3. QED
        BY <1>7, <3>1, <3>2 DEF t, d
    <2>3. CASE ~skip /\ Completable(extended, Greater(c))
      <3>1. t = [search EXCEPT !.reached = reached, !.best = extended.path]
        BY <1>3, <2>3
      <3> HIDE DEF reached
      <3>2. t.best = extended.path
        BY <1>4, <3>1 DEF Searches
      <3>3. t.best # <<>>
        BY <1>1, <3>2
      <3>4. QED
        BY <1>2, <3>3 DEF Seeking, t, d
    <2>4. CASE ~skip /\ ~Completable(extended, Greater(c))
      <3>1. t.reached = reached /\ t.queue = queue /\ t.best = <<>>
        BY <1>3, <1>4, <1>7, <2>4 DEF Searches
      <3>2. Met(c, t) = Met(c, search) \cup {next}
        <4>1. mark[1] = next
          OBVIOUS
        <4> HIDE DEF mark
        <4>2. {r[1] : r \in reached} = {r[1] : r \in search.reached} \cup {next}
          BY <4>1
        <4>3. QED
          BY <3>1, <4>2 DEF Met
      <3>3. next # Greater(c)
        <4>1. ASSUME next = Greater(c)
              PROVE  FALSE
          <5>1. ~extended.located
            BY <1>1, <2>4, <4>1 DEF Completable
          <5>2. Depth(g, Greater(c)) < Depth(g, Greater(c))
            BY <1>1, <4>1, <5>1 DEF Sought
          <5>3. Depth(g, Greater(c)) \in Nat
            BY <1>1, <4>1, DepthsAreNumbers
          <5>4. QED
            BY <5>2, <5>3
        <4>2. QED
          BY <4>1
      <3>4. /\ queue \in Seq(Sought(g, c)) /\ Len(queue) = Len(search.queue) + 1
            /\ DOMAIN queue = 1 .. Len(search.queue) + 1
            /\ DOMAIN search.queue = 1 .. Len(search.queue)
            /\ Len(search.queue) \in Nat
            /\ queue[Len(search.queue) + 1] = extended
            /\ \A j \in DOMAIN search.queue : queue[j] = search.queue[j] /\ j \in DOMAIN queue
        BY <1>1, <2>1
      <3>5. \A j \in DOMAIN queue : j = Len(search.queue) + 1 \/ j \in DOMAIN search.queue
        <4>1. \A j \in 1 .. Len(search.queue) + 1 :
                 j = Len(search.queue) + 1 \/ j \in 1 .. Len(search.queue)
          BY <3>4
        <4>2. QED
          BY <3>4, <4>1
      <3> HIDE DEF queue
      <3>6. \A j \in DOMAIN t.queue :
               t.queue[j].visited \cup {t.queue[j].location} \subseteq Met(c, t)
        <4>1. ASSUME NEW j \in DOMAIN queue
              PROVE  queue[j].visited \cup {queue[j].location} \subseteq Met(c, t)
          <5>1. CASE j = Len(search.queue) + 1
            BY <1>1, <2>1, <3>2, <3>4, <5>1
          <5>2. CASE j \in DOMAIN search.queue
            BY <2>1, <3>2, <3>4, <5>2
          <5>3. QED
            BY <3>5, <5>1, <5>2
        <4>2. QED
          BY <3>1, <4>1
      <3>7. \A x \in Met(c, t) :
               x \in open \/ Awaited(t, x) \/ Followed(g, c, orders, t, x)
        <4>1. ASSUME NEW x \in Met(c, search)
              PROVE  x \in open \/ Awaited(t, x) \/ Followed(g, c, orders, t, x)
          <5>1. Awaited(search, x) => Awaited(t, x)
            BY <3>1, <3>4 DEF Awaited
          <5>2. Followed(g, c, orders, search, x) => Followed(g, c, orders, t, x)
            BY <3>2 DEF Followed
          <5>3. QED
            BY <2>1, <5>1, <5>2
        <4>2. Awaited(t, next)
          <5>1. Len(search.queue) + 1 \in DOMAIN queue
            BY <3>4
          <5>2. QED
            BY <1>1, <3>1, <3>4, <5>1 DEF Awaited
        <4>3. QED
          BY <3>2, <4>1, <4>2
      <3>8. t \in Seeking(g, c, orders, open)
        BY <1>2, <2>1, <3>1, <3>2, <3>3, <3>4, <3>6, <3>7 DEF Seeking
      <3>9. ASSUME NEW turns \in Int, Counted(search, turns)
            PROVE  Counted(t, turns)
        <4>1. IsFiniteSet(search.reached) /\ Cardinality(search.reached) \in Nat
          BY <1>5, ReachedIsFinite
        <4>2. Cardinality(reached) = Cardinality(search.reached) + 1
          BY <2>4, <4>1, FS_AddElement
        <4> HIDE DEF reached
        <4>3. QED
          BY <3>1, <3>4, <3>9, <4>1, <4>2 DEF Counted
      <3>10. QED
        BY <1>7, <3>2, <3>8, <3>9 DEF t, d
    <2>5. QED
      BY <2>2, <2>3, <2>4
  <1>8. QED
    BY <1>6, <1>7

\* While what is below the head of the queue is explored: the head is at
\* hand, and what has been explored so far has been met.
Following(g, c, orders, head, turns, explored) ==
    {search \in Seeking(g, c, orders, {head.location}) :
        search.best = <<>> =>
            /\ head.visited \cup {head.location} \subseteq Met(c, search)
            /\ Counted(search, turns)
            /\ \A y \in explored : orders[y] = orders[Greater(c)] => y \in Met(c, search)}

LEMMA ExploreEdgeFollows ==
    ASSUME NEW g, Referring(g), WellConstrained(g), NEW c \in Stated(g), NEW orders,
           NEW head \in Sought(g, c), NEW turns \in Int, NEW explored,
           NEW search \in Following(g, c, orders, head, turns, explored),
           NEW i \in DOMAIN g.constraints, NEW next,
           Leads(g.constraints[i], head.location, next)
    PROVE  ExploreEdge([candidate |-> head, order |-> orders, target |-> Greater(c)],
                       search, g.constraints[i], next)
              \in Following(g, c, orders, head, turns, explored \cup {next})
  <1> DEFINE open == {head.location}
             t == ExploreEdge([candidate |-> head, order |-> orders, target |-> Greater(c)],
                              search, g.constraints[i], next)
  <1>1. search \in Seeking(g, c, orders, open)
        /\ (search.best = <<>> =>
              /\ head.visited \cup {head.location} \subseteq Met(c, search)
              /\ Counted(search, turns)
              /\ \A y \in explored : orders[y] = orders[Greater(c)] => y \in Met(c, search))
    BY DEF Following
  <1> HIDE DEF open
  <1>2. /\ t \in Seeking(g, c, orders, open)
        /\ t.best = <<>> =>
              /\ search.best = <<>>
              /\ Met(c, search) \subseteq Met(c, t)
              /\ orders[next] = orders[Greater(c)] => next \in Met(c, t)
              /\ \A n \in Int : Counted(search, n) => Counted(t, n)
    <2>1. search.best = <<>> => head.visited \cup {head.location} \subseteq Met(c, search)
      BY <1>1
    <2>2. t \in Seeking(g, c, orders, open)
      BY <1>1, <2>1, ExploreEdgeSeeks
    <2>3. t.best = <<>> =>
             /\ search.best = <<>>
             /\ Met(c, search) \subseteq Met(c, t)
             /\ orders[next] = orders[Greater(c)] => next \in Met(c, t)
             /\ \A n \in Int : Counted(search, n) => Counted(t, n)
      BY <1>1, <2>1, ExploreEdgeSeeks
    <2> HIDE DEF t
    <2>4. QED
      BY <2>2, <2>3
  <1> HIDE DEF t
  <1>3. ASSUME t.best = <<>>
        PROVE  /\ head.visited \cup {head.location} \subseteq Met(c, t)
               /\ Counted(t, turns)
               /\ \A y \in explored \cup {next} :
                     orders[y] = orders[Greater(c)] => y \in Met(c, t)
    BY <1>1, <1>2, <1>3
  <1>4. t \in Following(g, c, orders, head, turns, explored \cup {next})
    BY <1>2, <1>3 DEF Following, open
  <1>5. QED
    BY <1>4 DEF t

\* Taking the head off the queue puts it at hand.
LEMMA NextFollowed ==
    ASSUME NEW g, Referring(g), WellConstrained(g), NEW c \in Stated(g), NEW orders,
           NEW turns \in Int,
           NEW search \in Seeking(g, c, orders, {}), search.best = <<>>, search.queue # <<>>,
           Counted(search, turns - 1)
    PROVE  /\ Head(search.queue) \in Sought(g, c)
           /\ [search EXCEPT !.queue = Tail(@)]
                 \in Following(g, c, orders, Head(search.queue), turns, {})
  <1> DEFINE head == Head(search.queue)
             queue == Tail(search.queue)
             n == Len(search.queue)
             rest == [search EXCEPT !.queue = Tail(@)]
  <1>1. /\ search \in Searches(g, c)
        /\ search.queue \in Seq(Sought(g, c))
        /\ Greater(c) \notin Met(c, search)
        /\ \A j \in DOMAIN search.queue :
              search.queue[j].visited \cup {search.queue[j].location} \subseteq Met(c, search)
        /\ \A x \in Met(c, search) :
              Awaited(search, x) \/ Followed(g, c, orders, search, x)
    BY DEF Seeking
  <1>2. /\ head \in Sought(g, c) /\ queue \in Seq(Sought(g, c))
        /\ n \in Nat /\ n > 0 /\ DOMAIN search.queue = 1 .. n
        /\ Len(queue) = n - 1 /\ DOMAIN queue = 1 .. n - 1
        /\ head = search.queue[1]
        /\ \A j \in 1 .. n - 1 : queue[j] = search.queue[j + 1]
    BY <1>1
  <1>3. queue \in Seq(Candidates(g, c))
    <2>1. search.queue \in Seq(Candidates(g, c))
      BY <1>1 DEF Searches
    <2>2. QED
      BY <2>1
  <1>4. /\ rest \in Searches(g, c) /\ rest.queue = queue /\ rest.reached = search.reached
        /\ rest.best = <<>>
    BY <1>1, <1>3 DEF Searches
  <1> HIDE DEF queue, head, rest, n
  <1>5. Met(c, rest) = Met(c, search)
    BY <1>4 DEF Met
  <1>6. \A j \in 1 .. n - 1 : j + 1 \in 1 .. n
    BY <1>2
  <1>7. \A j \in 1 .. n : j = 1 \/ (j - 1 \in 1 .. n - 1 /\ (j - 1) + 1 = j)
    BY <1>2
  <1>8. \A j \in DOMAIN rest.queue :
           rest.queue[j].visited \cup {rest.queue[j].location} \subseteq Met(c, rest)
    BY <1>1, <1>2, <1>4, <1>5, <1>6
  <1>9. ASSUME NEW x \in Met(c, rest)
        PROVE  x \in {head.location} \/ Awaited(rest, x) \/ Followed(g, c, orders, rest, x)
    <2>1. Followed(g, c, orders, search, x) => Followed(g, c, orders, rest, x)
      BY <1>5 DEF Followed
    <2>2. ASSUME NEW j \in 1 .. n, search.queue[j].location = x
          PROVE  x \in {head.location} \/ Awaited(rest, x)
      <3>1. CASE j = 1
        BY <1>2, <2>2, <3>1
      <3>2. CASE j - 1 \in 1 .. n - 1 /\ (j - 1) + 1 = j
        <4>1. queue[j - 1] = search.queue[j]
          BY <1>2, <3>2
        <4>2. QED
          BY <1>2, <1>4, <2>2, <3>2, <4>1 DEF Awaited
      <3>3. QED
        BY <1>7, <3>1, <3>2
    <2>3. Awaited(search, x) => x \in {head.location} \/ Awaited(rest, x)
      BY <1>2, <2>2 DEF Awaited
    <2>4. QED
      BY <1>1, <1>5, <2>1, <2>3
  <1>10. rest \in Seeking(g, c, orders, {head.location})
    <2>1. rest.queue \in Seq(Sought(g, c)) /\ Greater(c) \notin Met(c, rest)
      BY <1>1, <1>2, <1>4, <1>5
    <2>2. QED
      BY <1>4, <1>8, <1>9, <2>1 DEF Seeking
  <1>11. head.visited \cup {head.location} \subseteq Met(c, rest)
    <2>1. 1 \in DOMAIN search.queue
      BY <1>2
    <2>2. QED
      BY <1>1, <1>2, <1>5, <2>1
  <1>12. Counted(rest, turns)
    <2>1. search.reached \in SUBSET (Ids(g) \X BOOLEAN)
      BY <1>1 DEF Searches
    <2>2. Cardinality(search.reached) \in Nat
      BY <2>1, ReachedIsFinite
    <2>3. Len(search.queue) = n
      BY DEF n
    <2>4. n + (turns - 1) <= 1 + Cardinality(search.reached)
      BY <2>3 DEF Counted
    <2>5. (n - 1) + turns <= 1 + Cardinality(search.reached)
      BY <1>2, <2>2, <2>4
    <2>6. QED
      BY <1>2, <1>4, <2>5 DEF Counted
  <1>13. rest \in Following(g, c, orders, head, turns, {})
    BY <1>10, <1>11, <1>12 DEF Following
  <1>14. QED
    BY <1>2, <1>13 DEF rest, head

\* What the two loops have explored after some of the constraints.
Down(g, x, n) ==
    {Lesser(g.constraints[i]) : i \in {j \in 1 .. n : Outlives(g.constraints[j], x)}}

Across(g, x, n) ==
    {Other(g.constraints[i], x) : i \in {j \in 1 .. n : Equals(g.constraints[j], x)}}

LEMMA ContinuePathSeeks ==
    ASSUME NEW g, Referring(g), WellConstrained(g), NEW c \in Stated(g), NEW orders,
           NEW turns \in Int,
           NEW search \in Seeking(g, c, orders, {}), search.best = <<>>, search.queue # <<>>,
           Counted(search, turns - 1)
    PROVE  LET t == ContinuePath([group |-> g, order |-> orders, target |-> Greater(c)], search)
           IN  t \in Seeking(g, c, orders, {}) /\ (t.best = <<>> => Counted(t, turns))
  <1> DEFINE N == Len(g.constraints)
             head == Head(search.queue)
             here == head.location
             from == [candidate |-> head, order |-> orders, target |-> Greater(c)]
             rest == [search EXCEPT !.queue = Tail(@)]
             down == Descending!Loop(from, rest, g.constraints)
             across == Crossing!Loop(from, down, g.constraints)
             F(explored) == Following(g, c, orders, head, turns, explored)
             D(n) == Down(g, here, n)
             E(n) == Down(g, here, N) \cup Across(g, here, n)
             W == [n \in 0 .. N |-> F(D(n))]
             V == [n \in 0 .. N |-> F(E(n))]
  <1>1. N \in Nat /\ DOMAIN g.constraints = 1 .. N
    BY IdsAreNumbers
  <1>2. head \in Sought(g, c) /\ rest \in F({})
    BY NextFollowed
  <1>3. here \in Ids(g)
    BY <1>2 DEF Sought, Candidates
  <1>4. ContinuePath([group |-> g, order |-> orders, target |-> Greater(c)], search) = across
    BY DEF ContinuePath
  <1>5. ASSUME NEW explored, NEW s \in F(explored), NEW i \in 1 .. N, NEW next,
               Leads(g.constraints[i], here, next)
        PROVE  ExploreEdge(from, s, g.constraints[i], next) \in F(explored \cup {next})
    <2>1. i \in DOMAIN g.constraints
      BY <1>1
    <2>2. QED
      BY <1>2, <1>5, <2>1, ExploreEdgeFollows
  <1>6. ASSUME NEW i \in 1 .. N, NEW j \in 1 .. i
        PROVE  j = i \/ j \in 1 .. i - 1
    BY <1>1
  <1>7. ASSUME NEW i \in 1 .. N
        PROVE  i - 1 \in 0 .. N /\ i \in 0 .. N
    BY <1>1
  <1> HIDE DEF head, rest, here, from, F, N
  <1>8. ASSUME NEW i \in 1 .. N, NEW s \in W[i - 1]
        PROVE  ExploreOutlived(from, s, g.constraints[i]) \in W[i]
    <2>1. s \in F(D(i - 1)) /\ W[i] = F(D(i))
      BY <1>7
    <2>2. CASE ~Outlives(g.constraints[i], here)
      <3>1. ExploreOutlived(from, s, g.constraints[i]) = s
        BY <2>2 DEF ExploreOutlived, from, here
      <3>2. D(i) \subseteq D(i - 1)
        BY <1>6, <2>2 DEF Down
      <3> HIDE DEF D
      <3>3. F(D(i - 1)) \subseteq F(D(i))
        BY <3>2 DEF F, Following
      <3>4. QED
        BY <2>1, <3>1, <3>3
    <2>3. CASE Outlives(g.constraints[i], here)
      <3> DEFINE next == Lesser(g.constraints[i])
      <3>1. ExploreOutlived(from, s, g.constraints[i])
               = ExploreEdge(from, s, g.constraints[i], next)
        BY <2>3 DEF ExploreOutlived, from, here
      <3>2. Leads(g.constraints[i], here, next)
        BY <2>3 DEF Leads
      <3>3. D(i) \subseteq D(i - 1) \cup {next}
        BY <1>6 DEF Down
      <3> HIDE DEF D, next
      <3>4. ExploreEdge(from, s, g.constraints[i], next) \in F(D(i - 1) \cup {next})
        BY <1>5, <2>1, <3>2
      <3>5. F(D(i - 1) \cup {next}) \subseteq F(D(i))
        BY <3>3 DEF F, Following
      <3>6. QED
        BY <2>1, <3>1, <3>4, <3>5
    <2>4. QED
      BY <2>2, <2>3
  <1>9. ASSUME NEW i \in 1 .. N, NEW s \in V[i - 1]
        PROVE  ExploreEqual(from, s, g.constraints[i]) \in V[i]
    <2>1. s \in F(E(i - 1)) /\ V[i] = F(E(i))
      BY <1>7
    <2>2. CASE ~Equals(g.constraints[i], here)
      <3>1. ExploreEqual(from, s, g.constraints[i]) = s
        BY <2>2 DEF ExploreEqual, from, here
      <3>2. E(i) \subseteq E(i - 1)
        BY <1>6, <2>2 DEF Across
      <3> HIDE DEF E
      <3>3. F(E(i - 1)) \subseteq F(E(i))
        BY <3>2 DEF F, Following
      <3>4. QED
        BY <2>1, <3>1, <3>3
    <2>3. CASE Equals(g.constraints[i], here)
      <3> DEFINE next == Other(g.constraints[i], here)
      <3>1. ExploreEqual(from, s, g.constraints[i])
               = ExploreEdge(from, s, g.constraints[i], next)
        BY <2>3 DEF ExploreEqual, from, here
      <3>2. Leads(g.constraints[i], here, next)
        BY <2>3 DEF Leads
      <3>3. E(i) \subseteq E(i - 1) \cup {next}
        BY <1>6 DEF Across
      <3> HIDE DEF E, next
      <3>4. ExploreEdge(from, s, g.constraints[i], next) \in F(E(i - 1) \cup {next})
        BY <1>5, <2>1, <3>2
      <3>5. F(E(i - 1) \cup {next}) \subseteq F(E(i))
        BY <3>3 DEF F, Following
      <3>6. QED
        BY <2>1, <3>1, <3>4, <3>5
    <2>4. QED
      BY <2>2, <2>3
  <1>10. W[0] = F(D(0)) /\ W[N] = F(D(N)) /\ V[0] = F(E(0)) /\ V[N] = F(E(N))
    BY <1>1
  <1>11. D(0) = {} /\ E(0) = D(N)
    BY DEF Down, Across
  <1>12. Below(g, {here}) \subseteq E(N)
    <2>1. ASSUME NEW y \in Below(g, {here})
          PROVE  y \in E(N)
      <3>1. PICK i \in DOMAIN g.constraints :
               \/ Outlives(g.constraints[i], here) /\ y = Lesser(g.constraints[i])
               \/ Equals(g.constraints[i], here) /\ y = Other(g.constraints[i], here)
        BY <1>3, <2>1, BelowMeans
      <3>2. i \in 1 .. N
        BY <1>1
      <3>3. QED
        BY <3>1, <3>2 DEF Down, Across
    <2>2. QED
      BY <2>1
  <1> HIDE DEF W, V, D, E
  <1>13. down \in W[N]
    BY <1>1, <1>2, <1>8, <1>10, <1>11, Descending!LoopInvariant DEF N
  <1> HIDE DEF down
  <1>14. across \in V[N]
    BY <1>1, <1>9, <1>10, <1>11, <1>13, Crossing!LoopInvariant DEF N
  <1> HIDE DEF across
  <1>15. across \in F(E(N))
    BY <1>10, <1>14
  <1>16. across \in Seeking(g, c, orders, {here}) /\ across \in Searches(g, c)
    BY <1>15 DEF F, Following, Seeking, here
  <1>17. ASSUME across.best = <<>>
         PROVE  /\ Counted(across, turns) /\ Followed(g, c, orders, across, here)
    BY <1>12, <1>15, <1>17 DEF F, Following, Followed
  <1>18. across \in Seeking(g, c, orders, {})
    <2>1. ASSUME across.best = <<>>
          PROVE  /\ across.queue \in Seq(Sought(g, c))
                 /\ Greater(c) \notin Met(c, across)
                 /\ \A j \in DOMAIN across.queue :
                       across.queue[j].visited \cup {across.queue[j].location}
                          \subseteq Met(c, across)
                 /\ \A x \in Met(c, across) :
                       x \in {here} \/ Awaited(across, x) \/ Followed(g, c, orders, across, x)
      BY <1>16, <2>1 DEF Seeking
    <2>2. QED
      BY <1>16, <1>17, <2>1 DEF Seeking
  <1>19. QED
    BY <1>4, <1>17, <1>18

\* Every turn takes a candidate off the queue: when the turns are over the
\* queue is empty.
LEMMA TurnsSuffice ==
    ASSUME NEW g, Referring(g), NEW c \in Stated(g), NEW search \in Searches(g, c),
           Counted(search, 2 * MaxId(g) + 1)
    PROVE  search.queue = <<>>
  <1>1. search.queue \in Seq(Candidates(g, c)) /\ search.reached \in SUBSET (Ids(g) \X BOOLEAN)
    BY DEF Searches
  <1>2. Cardinality(search.reached) \in Nat /\ Cardinality(search.reached) <= 2 * MaxId(g)
    BY <1>1, ReachedIsFinite
  <1>3. MaxId(g) \in Nat
    BY IdsAreNumbers
  <1>4. Len(search.queue) \in Nat
    BY <1>1
  <1>5. Len(search.queue) + (2 * MaxId(g) + 1) <= 1 + Cardinality(search.reached)
    BY DEF Counted
  <1>6. Len(search.queue) = 0
    BY <1>2, <1>3, <1>4, <1>5
  <1>7. QED
    BY <1>1, <1>6

LEMMA SearchEnds ==
    ASSUME NEW g, Referring(g), WellConstrained(g), NEW c \in Stated(g), c.rel # "=",
           Lesser(c) # Greater(c), NEW orders
    PROVE  \E end \in Seeking(g, c, orders, {}) :
              /\ end.best = <<>> => end.queue = <<>>
              /\ end.best = FindPath([group |-> g, order |-> orders, target |-> Greater(c)],
                                     Candidate(c))
  <1> DEFINE in == [group |-> g, order |-> orders, target |-> Greater(c)]
             first == Candidate(c)
             start == [queue |-> <<first>>, reached |-> {}, best |-> <<>>]
             items == Turns(g)
             N == Len(items)
             S(n) == {s \in Seeking(g, c, orders, {}) :
                         s.best = <<>> => s.queue = <<>> \/ Counted(s, n)}
             W == [n \in 0 .. N |-> S(n)]
             end == Searching!Loop(in, start, items)
  <1>1. N \in Nat /\ N = 2 * MaxId(g) + 1
    BY IdsAreNumbers DEF Turns
  <1>2. start \in S(0)
    <2>1. first \in Sought(g, c) /\ first.location = Lesser(c) /\ first.visited = {Lesser(c)}
      BY FirstIsSought DEF Candidate
    <2>2. first \in Candidates(g, c)
      BY <2>1 DEF Sought
    <2> HIDE DEF first
    <2>3. /\ <<first>> \in Seq(Sought(g, c)) /\ <<first>> \in Seq(Candidates(g, c))
          /\ DOMAIN <<first>> = {1} /\ <<first>>[1] = first /\ Len(<<first>>) = 1
      BY <2>1, <2>2
    <2>4. start.queue = <<first>> /\ start.reached = {} /\ start.best = <<>>
          /\ start \in Searches(g, c)
      BY <2>3 DEF Searches
    <2> HIDE DEF start
    <2>5. Met(c, start) = {Lesser(c)}
      BY <2>4 DEF Met
    <2>6. Awaited(start, Lesser(c))
      BY <2>1, <2>3, <2>4 DEF Awaited
    <2>7. \A j \in DOMAIN start.queue :
             start.queue[j].visited \cup {start.queue[j].location} \subseteq Met(c, start)
      BY <2>1, <2>3, <2>4, <2>5
    <2>8. start \in Seeking(g, c, orders, {})
      BY <2>3, <2>4, <2>5, <2>6, <2>7 DEF Seeking
    <2>9. Counted(start, 0)
      <3>1. Cardinality({}) = 0
        BY FS_EmptySet
      <3>2. QED
        BY <2>3, <2>4, <3>1 DEF Counted
    <2>10. QED
      BY <2>8, <2>9
  <1> HIDE DEF start, first, items, N
  <1>3. ASSUME NEW n \in 1 .. N, NEW s \in W[n - 1]
        PROVE  Search(in, s, items[n]) \in W[n]
    <2>1. n - 1 \in 0 .. N /\ n \in 0 .. N /\ n \in Int
      BY <1>1
    <2>2. s \in S(n - 1) /\ W[n] = S(n)
      BY <2>1
    <2>3. CASE s.queue = <<>> \/ s.best # <<>>
      <3>1. Search(in, s, items[n]) = s
        BY <2>3 DEF Search
      <3>2. s \in S(n)
        BY <2>2, <2>3
      <3>3. QED
        BY <2>2, <3>1, <3>2
    <2>4. CASE s.queue # <<>> /\ s.best = <<>>
      <3> DEFINE t == ContinuePath(in, s)
      <3>1. Search(in, s, items[n]) = t
        BY <2>4 DEF Search
      <3>2. s \in Seeking(g, c, orders, {}) /\ Counted(s, n - 1)
        BY <2>2, <2>4
      <3>3. t \in Seeking(g, c, orders, {})
        BY <2>1, <2>4, <3>2, ContinuePathSeeks
      <3>4. t.best = <<>> => Counted(t, n)
        BY <2>1, <2>4, <3>2, ContinuePathSeeks
      <3> HIDE DEF t
      <3>5. t \in S(n)
        BY <3>3, <3>4
      <3>6. QED
        BY <2>2, <3>1, <3>5
    <2>5. QED
      BY <2>3, <2>4
  <1>4. W[0] = S(0) /\ W[N] = S(N)
    BY <1>1
  <1>5. FindPath(in, first) = end.best
    BY DEF FindPath, start, items
  <1> HIDE DEF W, S, in
  <1>6. end \in W[N]
    BY <1>1, <1>2, <1>3, <1>4, Searching!LoopInvariant DEF N
  <1> HIDE DEF end
  <1>7. end \in Seeking(g, c, orders, {}) /\ (end.best = <<>> => end.queue = <<>> \/ Counted(end, N))
    BY <1>4, <1>6 DEF S
  <1>8. end \in Searches(g, c)
    BY <1>7 DEF Seeking
  <1>9. end.best = <<>> => end.queue = <<>>
    BY <1>1, <1>7, <1>8, TurnsSuffice
  <1>10. QED
    BY <1>5, <1>7, <1>9 DEF in, first

\* Where the lifetimes of one order are connected, a path is found.
LEMMA FoundSome ==
    ASSUME NEW g, Referring(g), WellConstrained(g), NEW c \in Stated(g), c.rel # "=",
           Lesser(c) # Greater(c), NEW orders, orders[Lesser(c)] = orders[Greater(c)],
           Reaches(g, OfOrder(g, orders, Lesser(c)), Lesser(c), Greater(c))
    PROVE  FindPath([group |-> g, order |-> orders, target |-> Greater(c)], Candidate(c)) # <<>>
  <1>1. PICK end \in Seeking(g, c, orders, {}) :
           /\ end.best = <<>> => end.queue = <<>>
           /\ end.best = FindPath([group |-> g, order |-> orders, target |-> Greater(c)],
                                  Candidate(c))
    BY SearchEnds
  <1> DEFINE X == OfOrder(g, orders, Lesser(c))
             S == Met(c, end) \cap X
  <1>2. SUFFICES ASSUME end.best = <<>>
                 PROVE  FALSE
    BY <1>1
  <1>3. /\ Greater(c) \notin Met(c, end)
        /\ \A x \in Met(c, end) : Followed(g, c, orders, end, x)
    <2>1. end.queue = <<>>
      BY <1>1, <1>2
    <2>2. \A x : ~Awaited(end, x)
      BY <2>1 DEF Awaited
    <2>3. QED
      BY <1>2, <2>2 DEF Seeking
  <1>4. Lesser(c) \in X
    BY DEF Reaches
  <1>5. Lesser(c) \in S
    BY <1>4 DEF Met
  <1>6. ASSUME NEW x \in S, NEW y \in Below(g, {x}) \cap X
        PROVE  y \in S
    <2>1. orders[y] = orders[Greater(c)]
      BY <1>6 DEF OfOrder
    <2>2. Followed(g, c, orders, end, x)
      BY <1>3, <1>6
    <2>3. y \in Met(c, end)
      BY <1>6, <2>1, <2>2 DEF Followed
    <2>4. QED
      BY <1>6, <2>3
  <1>7. Greater(c) \in S
    <2> HIDE DEF X, S
    <2>1. S \in SUBSET X
      BY DEF S
    <2>2. Reaches(g, X, Lesser(c), Greater(c))
      BY DEF X
    <2>3. \A x \in S : Below(g, {x}) \cap X \subseteq S
      BY <1>6
    <2>4. QED
      BY <1>5, <2>1, <2>2, <2>3 DEF Reaches
  <1>8. QED
    BY <1>3, <1>7

-----------------------------------------------------------------------------
(* What follows for the verdict.                                           *)

\* Lifetimes of one order reach each other among the lifetimes of that order.
Linked(g, orders) ==
    \A a, b \in Ids(g) :
        orders[a] = orders[b] => Reaches(g, OfOrder(g, orders, a), a, b)

\* No order rises along a constraint.
Falling(g, orders) == \A x \in Ids(g) : \A y \in Below(g, {x}) : orders[y] <= orders[x]

\* A constraint that is violated between lifetimes of one order is strict,
\* and has two ends: what an expression requires is not strict, and the others
\* lead down.
LEMMA ViolatedHasTwoEnds ==
    ASSUME NEW g, Referring(g), WellConstrained(g), NEW orders \in [Ids(g) -> Nat],
           NEW c \in Stated(g), Violated(orders, c), orders[c.left] = orders[c.right]
    PROVE  Lesser(c) # Greater(c)
  <1>1. PICK i \in DOMAIN g.constraints : c = g.constraints[i]
    BY StatedConstraints
  <1>2. c.left \in Ids(g) /\ c.right \in Ids(g) /\ Placed(g, c)
    BY <1>1, EndsAreLifetimes DEF WellConstrained
  <1>3. orders[c.left] \in Nat /\ orders[c.right] \in Nat
    BY <1>2
  <1>4. c.rel \in {">", "<"}
    BY <1>3 DEF Violated
  <1>5. c.at = NoLocation
    BY <1>2, <1>4 DEF Placed
  <1>6. c.rel = ">" /\ Depth(g, c.left) < Depth(g, c.right)
    BY <1>2, <1>5 DEF Placed, Descends
  <1>7. Depth(g, c.left) \in Nat /\ Depth(g, c.right) \in Nat
    BY <1>2, DepthsAreNumbers
  <1>8. c.left # c.right
    BY <1>6, <1>7
  <1>9. QED
    BY <1>6, <1>8 DEF Lesser, Greater

LEMMA CounterexampleFound ==
    ASSUME NEW g, Referring(g), WellConstrained(g), NEW orders \in [Ids(g) -> Nat],
           Linked(g, orders), NEW c \in Stated(g),
           Violated(orders, c), orders[c.left] = orders[c.right]
    PROVE  Counterexample(g, orders, c) # <<>>
  <1> DEFINE path == FindPath([group |-> g, order |-> orders, target |-> Greater(c)],
                              Candidate(c))
  <1>1. Lesser(c) # Greater(c)
    BY ViolatedHasTwoEnds
  <1>2. c.rel # "="
    BY DEF Violated
  <1>3. Lesser(c) \in Ids(g) /\ Greater(c) \in Ids(g)
    BY StatedConstraints, EndsAreLifetimes
  <1>4. orders[Lesser(c)] = orders[Greater(c)]
    BY DEF Lesser, Greater
  <1>5. Reaches(g, OfOrder(g, orders, Lesser(c)), Lesser(c), Greater(c))
    BY <1>3, <1>4 DEF Linked
  <1>6. path # <<>>
    BY <1>1, <1>2, <1>4, <1>5, FoundSome
  <1>7. path \in Circles(g, c) \cup {<<>>}
    BY <1>2, FoundCircle
  <1>8. Counterexample(g, orders, c) = Rotate(path)
    BY DEF Counterexample
  <1> HIDE DEF path
  <1>9. path \in Seq(Stated(g))
    BY <1>6, <1>7 DEF Circles
  <1>10. Len(Rotate(path)) = Len(path)
    BY <1>9, RotateKeepsLength
  <1>11. Len(path) # 0 /\ Len(<<>>) = 0
    BY <1>6, <1>9
  <1> HIDE DEF Counterexample
  <1>12. QED
    BY <1>8, <1>10, <1>11

\* Where the orders fall, a violated constraint lies between lifetimes of one
\* order.
LEMMA ViolatedWithin ==
    ASSUME NEW g, Referring(g), NEW orders \in [Ids(g) -> Nat], Falling(g, orders),
           NEW c \in Stated(g), Violated(orders, c)
    PROVE  orders[c.left] = orders[c.right]
  <1>1. PICK i \in DOMAIN g.constraints : c = g.constraints[i]
    BY StatedConstraints
  <1>2. /\ c.left \in Ids(g) /\ c.right \in Ids(g)
        /\ Lesser(c) \in Ids(g) /\ Greater(c) \in Ids(g)
    BY <1>1, EndsAreLifetimes
  <1>3. orders[c.left] \in Nat /\ orders[c.right] \in Nat
    BY <1>2
  <1>4. c.rel \in {">", ">=", "<", "<="}
    BY DEF Violated
  <1>5. Outlives(c, Greater(c))
    BY <1>4 DEF Outlives
  <1>6. Lesser(c) \in Below(g, {Greater(c)})
    BY <1>1, <1>2, <1>5, BelowMeans
  <1>7. orders[Lesser(c)] <= orders[Greater(c)]
    BY <1>2, <1>6 DEF Falling
  <1>8. QED
    BY <1>3, <1>4, <1>7 DEF Violated, Lesser, Greater

LEMMA ConflictsTold ==
    ASSUME NEW g, Referring(g), WellConstrained(g), NEW orders \in [Ids(g) -> Nat],
           Linked(g, orders)
    PROVE  /\ DetectAllConflicts(g, orders).threw # "no path"
           /\ Falling(g, orders) => DetectAllConflicts(g, orders).threw = "nothing"
  <1> DEFINE N == Len(g.constraints)
             in == [group |-> g, order |-> orders]
             start == [threw |-> "nothing", candidates |-> NoErrors]
             Calm(s) == s.threw # "no path" /\ (Falling(g, orders) => s.threw = "nothing")
             W == [n \in 0 .. N |-> {s \in Findings(g, orders, n) : Calm(s)}]
             found == Checking!Loop(in, start, g.constraints)
  <1>1. N \in Nat /\ DOMAIN g.constraints = 1 .. N
    BY IdsAreNumbers
  <1> HIDE DEF N
  <1>2. \A n \in 1 .. N : n - 1 \in 0 .. N /\ n \in 0 .. N
    BY <1>1
  <1>3. W[N] = {s \in Findings(g, orders, N) : Calm(s)}
    BY <1>1
  <1>4. start \in W[0]
    <2>1. start \in Findings(g, orders, 0)
      <3>1. DOMAIN NoErrors = {}
            /\ NoErrors \in [{} -> [of : Stated(g), path : Seq(Stated(g))]]
        BY DEF NoErrors
      <3>2. NoErrors \in Errors(g)
        <4>1. {} \in SUBSET Places
          OBVIOUS
        <4>2. QED
          BY <3>1, <4>1 DEF Errors
      <3> HIDE DEF start
      <3>3. start.threw = "nothing" /\ start.candidates = NoErrors
            /\ start \in [threw : {"nothing", "orders differ", "no path"}, candidates : Errors(g)]
        BY <3>2 DEF start
      <3>4. DOMAIN start.candidates = {}
        BY <3>1, <3>3
      <3>5. \A j \in 1 .. 0 : FALSE
        OBVIOUS
      <3>6. QED
        BY <3>3, <3>4, <3>5 DEF Findings
    <2>2. Calm(start)
      OBVIOUS
    <2> HIDE DEF start, Calm
    <2>3. QED
      BY <1>1, <2>1, <2>2
  <1>5. ASSUME NEW n \in 1 .. N, NEW s \in W[n - 1]
        PROVE  CheckConflict(in, s, g.constraints[n]) \in W[n]
    <2> DEFINE c == g.constraints[n]
               next == CheckConflict(in, s, c)
    <2>1. n - 1 \in 0 .. N /\ n \in 0 .. N /\ n \in DOMAIN g.constraints
      BY <1>1, <1>2
    <2>2. s \in Findings(g, orders, n - 1) /\ Calm(s)
      BY <2>1
    <2>3. next \in Findings(g, orders, n)
      BY <2>1, <2>2, CheckConflictKeeps
    <2>4. c \in Stated(g)
      BY <2>1, StatedConstraints
    <2>5. s \in [threw : {"nothing", "orders differ", "no path"}, candidates : Errors(g)]
      BY <2>2 DEF Findings
    <2> HIDE DEF c
    <2>6. CASE s.threw # "nothing" \/ ~Violated(orders, c)
      <3>1. next = s
        BY <2>6 DEF CheckConflict
      <3>2. QED
        BY <2>1, <2>2, <2>3, <3>1 DEF c
    <2>7. CASE s.threw = "nothing" /\ Violated(orders, c) /\ orders[c.left] # orders[c.right]
      <3>1. next = [s EXCEPT !.threw = "orders differ"]
        BY <2>7 DEF CheckConflict
      <3>2. ~Falling(g, orders)
        BY <2>4, <2>7, ViolatedWithin
      <3>3. next.threw = "orders differ"
        BY <2>5, <3>1
      <3> HIDE DEF next
      <3>4. Calm(next)
        BY <3>2, <3>3
      <3>5. QED
        BY <2>1, <2>3, <3>4 DEF next, c
    <2>8. CASE s.threw = "nothing" /\ Violated(orders, c) /\ orders[c.left] = orders[c.right]
      <3> DEFINE path == Counterexample(g, orders, c)
      <3>1. path # <<>>
        BY <2>4, <2>8, CounterexampleFound
      <3> HIDE DEF path
      <3>2. next = [s EXCEPT !.candidates = QueueError(@, c, path)]
        BY <2>8, <3>1 DEF CheckConflict, path
      <3>3. next.threw = "nothing"
        BY <2>5, <2>8, <3>2
      <3> HIDE DEF next
      <3>4. Calm(next)
        BY <3>3
      <3>5. QED
        BY <2>1, <2>3, <3>4 DEF next, c
    <2>9. QED
      BY <2>6, <2>7, <2>8
  <1> HIDE DEF W, in, start
  <1>6. found \in W[N]
    BY <1>1, <1>4, <1>5, Checking!LoopInvariant DEF N
  <1> HIDE DEF found, Calm
  <1>7. Calm(found)
    BY <1>3, <1>6
  <1>8. QED
    BY <1>7 DEF DetectAllConflicts, Calm, found, in, start

\* The orders are those of the cover relation.
LEMMA OrdersAreExact ==
    ASSUME NEW g, Referring(g), NEW orders \in [Ids(g) -> Nat],
           Linked(g, orders), Falling(g, orders), NEW a \in Ids(g), NEW b \in Ids(g)
    PROVE  /\ <<a, b>> \in Covers(g) => orders[a] >= orders[b]
           /\ orders[a] = orders[b] <=> {<<a, b>>, <<b, a>>} \subseteq Covers(g)
  <1>1. ASSUME NEW x \in Ids(g), NEW y \in Ids(g), <<x, y>> \in Covers(g)
        PROVE  orders[y] <= orders[x]
    <2> DEFINE S == {z \in Ids(g) : orders[z] <= orders[x]}
    <2>1. x \in S
      OBVIOUS
    <2>2. ASSUME NEW z \in S, NEW w \in Below(g, {z})
          PROVE  w \in S
      <3>1. w \in Ids(g) /\ orders[w] <= orders[z]
        BY <2>2, BelowLifetimes DEF Falling
      <3>2. orders[w] \in Nat /\ orders[z] \in Nat /\ orders[x] \in Nat /\ orders[z] <= orders[x]
        BY <2>2, <3>1
      <3>3. QED
        BY <3>1, <3>2
    <2>3. y \in S
      <3> HIDE DEF S
      <3>1. S \in SUBSET Ids(g)
        BY DEF S
      <3>2. QED
        BY <1>1, <2>1, <2>2, <3>1, CoversStays
    <2>4. QED
      BY <2>3
  <1>2. ASSUME NEW x \in Ids(g), NEW y \in Ids(g), orders[x] = orders[y]
        PROVE  <<x, y>> \in Covers(g)
    <2> DEFINE X == OfOrder(g, orders, x)
               S == {z \in X : <<x, z>> \in Covers(g)}
    <2>1. Reaches(g, X, x, y) /\ x \in X
      BY <1>2 DEF Linked, Reaches
    <2>2. x \in S
      BY <2>1, CoversChains
    <2>3. ASSUME NEW z \in S, NEW w \in Below(g, {z}) \cap X
          PROVE  w \in S
      <3>1. z \in Ids(g) /\ <<x, z>> \in Covers(g)
        BY <2>3 DEF OfOrder
      <3>2. <<x, w>> \in Covers(g)
        BY <2>3, <3>1, CoversChains
      <3>3. QED
        BY <2>3, <3>2
    <2>4. y \in S
      <3> HIDE DEF X, S
      <3>1. S \in SUBSET X
        BY DEF S
      <3>2. \A z \in S : Below(g, {z}) \cap X \subseteq S
        BY <2>3
      <3>3. QED
        BY <2>1, <2>2, <3>1, <3>2 DEF Reaches
    <2>5. QED
      BY <2>4
  <1>3. orders[a] \in Nat /\ orders[b] \in Nat
    OBVIOUS
  <1>4. QED
    BY <1>1, <1>2, <1>3

\* What the orders mean that SccSolver builds for any group: lifetimes of one
\* order reach each other by constraints between lifetimes of that order, and
\* where nothing must match no constraint leads to a higher order.
THEOREM BuildOrders ==
    ASSUME SolverUnfolds, NEW g \in Group, Referring(g)
    PROVE  /\ Build(g) \in [Ids(g) -> Nat]
           /\ Linked(g, Build(g))
           /\ ~HasEquality(g) => Falling(g, Build(g))
  <1>1. Build(g) \in [Ids(g) -> Nat]
    BY BuildMatches
  <1>2. Linked(g, Build(g))
    BY BuildConnects DEF Linked
  <1>3. ~HasEquality(g) => Falling(g, Build(g))
    BY BuildDescends DEF Falling
  <1>4. QED
    BY <1>1, <1>2, <1>3

\* report_unsatisfied_outlives never ends in "No path found", whatever must
\* match; and as long as nothing must match, the solver does not give up and
\* its orders are exactly those that the constraints imply.
THEOREM CheckOrdersSuffice ==
    ASSUME SolverUnfolds
    PROVE  CheckSpec => []OrdersSuffice
<1>1. CheckInvariant => OrdersSuffice
  <2> SUFFICES ASSUME CheckInvariant, Solved
               PROVE  /\ threw # "no path"
                      /\ ~HasEquality(group) => threw = "nothing" /\ OrdersExact
    BY DEF OrdersSuffice
  <2> DEFINE orders == Build(group)
             found == DetectAllConflicts(group, orders)
  <2>1. group \in Group /\ Referring(group) /\ WellConstrained(group)
    BY CollectedGroupRefers DEF CheckInvariant, TableInvariant
  <2>2. /\ orders \in [Ids(group) -> Nat]
        /\ Linked(group, orders)
        /\ ~HasEquality(group) => Falling(group, orders)
    BY <2>1, BuildOrders
  <2>3. threw = found.threw /\ order = orders
    BY DEF CheckInvariant, Solve, threw, order
  <2> HIDE DEF orders, found
  <2>4. /\ found.threw # "no path"
        /\ Falling(group, orders) => found.threw = "nothing"
    BY <2>1, <2>2, ConflictsTold DEF found
  <2>5. ASSUME Falling(group, orders)
        PROVE  OrdersExact
    <3>1. ASSUME NEW a \in Ids(group), NEW b \in Ids(group)
          PROVE  /\ <<a, b>> \in Covers(group) => orders[a] >= orders[b]
                 /\ orders[a] = orders[b] <=> {<<a, b>>, <<b, a>>} \subseteq Covers(group)
      BY <2>1, <2>2, <2>5, OrdersAreExact
    <3>2. QED
      BY <2>3, <3>1 DEF OrdersExact
  <2>6. QED
    BY <2>2, <2>3, <2>4, <2>5
<1>2. QED
  BY <1>1, CheckIsInvariant, PTL

=============================================================================
