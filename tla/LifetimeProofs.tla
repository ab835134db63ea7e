---------------------------- MODULE LifetimeProofs ----------------------------
(***************************************************************************)
(* The lifetimes of a function, collected and solved, for any signatures   *)
(* and any bounds.                                                         *)
(*                                                                         *)
(* LifetimeTable: whatever the function declares, opens, calls, casts and  *)
(* assigns, its constraints refer to lifetimes of its group, those the     *)
(* compiler adds never contradict each other, and `*stack` and `*arena`    *)
(* mean the innermost open scopes, or in casts the function's own.         *)
(*                                                                         *)
(* LifetimeSolver: lifetimes that must match get one order, what is        *)
(* reported cannot be met and the other way around, and every error is     *)
(* told with a circle of constraints, a shortest one.  These theorems rest *)
(* on SolverUnfolds: the constants InnerUnion and InnerProcess are the     *)
(* functions they stand for, as MCLifetimeCheck gives them.  There are     *)
(* such operators: the functions call themselves only for a lifetime that  *)
(* was not indexed, and index it, so that they are defined by recursion on *)
(* the number of those that are not; and this is asked of no more than the *)
(* states a solver can be in.                                              *)
(***************************************************************************)
EXTENDS LifetimeCheck, FiniteSetTheorems, SequenceTheorems,
        WellFoundedInduction, TLAPS

(* What holds of the group at all times: the function's own stack is the   *)
(* first lifetime after the predefined ones.                               *)
WellShaped(g) ==
    /\ g \in Group
    /\ MaxId(g) > Ctx
    /\ g.lifetimes[Ctx + 1] = "stack"
    /\ \A id \in 1 .. Ctx : g.lifetimes[id] # "stack"

(* What is fixed leads down; what an expression requires is not strict.    *)
Placed(g, c) ==
    /\ Descends(g, c)
    /\ c.at # NoLocation => c.rel \in {"<=", "="}

WellConstrained(g) ==
    \A i \in DOMAIN g.constraints :
        Refers(g, g.constraints[i]) /\ Placed(g, g.constraints[i])

(* A scope's lifetime is no predefined one but the caller's arena.         *)
ScopeIds(g) == Ctx .. MaxId(g)

GuardsRefer ==
    stage # "signature" =>
        \A i \in DOMAIN guards :
            guards[i].arena \in ScopeIds(group) /\ guards[i].stack \in ScopeIds(group)

\* Every variable keeps to its type; of the constraints WellConstrained says
\* more.
TypedTable ==
    /\ stage \in Stages
    /\ group \in Group
    /\ current_arena_id \in Ids(group)
    /\ current_stack_id \in Ids(group)
    /\ guards \in Seq(Guard)
    /\ public_inferred_id \in Ids(group) \cup {NoLifetime}
    /\ blocks \subseteq Guard
    /\ checks \in Nat

\* What is open is a block of the tree.
ScopesAreBlocks ==
    stage = "body" => \A i \in 1 .. Len(guards) + 1 : Scopes[i] \in blocks

TableInvariant ==
    /\ TypedTable
    /\ ScopesAreBlocks
    /\ WellShaped(group)
    /\ WellConstrained(group)
    /\ current_arena_id \in ScopeIds(group)
    /\ current_stack_id \in ScopeIds(group)
    /\ GuardsRefer
    /\ ScopesNest

-----------------------------------------------------------------------------
(* How groups grow.                                                        *)

Grows(g, h) ==
    /\ MaxId(g) <= MaxId(h)
    /\ \A id \in Ids(g) : h.lifetimes[id] = g.lifetimes[id]
    /\ Len(g.constraints) <= Len(h.constraints)
    /\ \A i \in DOMAIN g.constraints : h.constraints[i] = g.constraints[i]

NewConstraints(g, h) == Len(g.constraints) + 1 .. Len(h.constraints)

\* The first stack of a group is its sixth lifetime.
LEMMA StackRootIsSixth ==
    ASSUME NEW g, WellShaped(g)
    PROVE  StackRoot(g) = Ctx + 1
<1> DEFINE stacks == {id \in Ids(g) : g.lifetimes[id] = "stack"}
<1>1. /\ Ids(g) = 1 .. MaxId(g)
      /\ MaxId(g) \in Nat
  BY DEF WellShaped, Group, Ids, MaxId
<1>2. Ctx + 1 \in stacks
  BY <1>1 DEF WellShaped, Ctx
<1>3. \A other \in stacks : Ctx + 1 <= other
  BY <1>1 DEF WellShaped, Ctx
<1>4. \A id \in stacks : (\A other \in stacks : id <= other) => id = Ctx + 1
  BY <1>1, <1>2, <1>3 DEF Ctx
<1>5. (CHOOSE id \in stacks : \A other \in stacks : id <= other) = Ctx + 1
  BY <1>2, <1>3, <1>4
<1> QED
  BY <1>2, <1>5 DEF StackRoot

\* A group that grows keeps its shape, and its constraints stay good if the
\* new ones are: `any` moves inwards with every lifetime that is added.
LEMMA GrowthIsGood ==
    ASSUME NEW g, NEW h, WellShaped(g), WellConstrained(g), h \in Group,
           Grows(g, h),
           \A i \in NewConstraints(g, h) :
              Refers(h, h.constraints[i]) /\ Placed(h, h.constraints[i])
    PROVE  WellShaped(h) /\ WellConstrained(h)
<1>1. /\ Ids(g) = 1 .. MaxId(g) /\ MaxId(g) \in Nat
      /\ Ids(h) = 1 .. MaxId(h) /\ MaxId(h) \in Nat
      /\ DOMAIN g.constraints = 1 .. Len(g.constraints)
      /\ DOMAIN h.constraints = 1 .. Len(h.constraints)
      /\ Len(g.constraints) \in Nat /\ Len(h.constraints) \in Nat
      /\ \A i \in DOMAIN g.constraints : g.constraints[i] \in Constraint
  BY DEF WellShaped, Group, Ids, MaxId
<1>2. WellShaped(h)
  BY <1>1, SMTT(30) DEF WellShaped, Grows, Ctx
<1>3. ASSUME NEW i \in DOMAIN g.constraints
      PROVE  Refers(h, g.constraints[i]) /\ Placed(h, g.constraints[i])
  <2> DEFINE c == g.constraints[i]
  <2>1. c.left \in Ids(g) /\ c.right \in Ids(g)
    BY DEF WellConstrained, Refers
  <2>2. Refers(h, c)
    BY <1>1, <2>1 DEF Refers, Grows
  <2>3. c.at = NoLocation => c.rel = ">" /\ Depth(g, c.left) < Depth(g, c.right)
    BY DEF WellConstrained, Placed, Descends
  <2>4. Depth(g, c.left) < Depth(g, c.right) => Depth(h, c.left) < Depth(h, c.right)
    BY <1>1, <2>1 DEF Depth, Grows, AnyLifetime
  <2>5. c.at # NoLocation => c.rel \in {"<=", "="}
    BY DEF WellConstrained, Placed
  <2> HIDE DEF c
  <2>6. Placed(h, c)
    BY <2>3, <2>4, <2>5 DEF Placed, Descends
  <2> QED
    BY <2>2, <2>6 DEF c
<1>4. ASSUME NEW i \in DOMAIN h.constraints
      PROVE  Refers(h, h.constraints[i]) /\ Placed(h, h.constraints[i])
  <2>1. CASE i \in DOMAIN g.constraints
    BY <2>1, <1>3 DEF Grows
  <2>2. CASE i \notin DOMAIN g.constraints
    BY <2>2, <1>1 DEF NewConstraints
  <2> QED
    BY <2>1, <2>2
<1> QED
  BY <1>2, <1>4 DEF WellConstrained

\* A lifetime added at the end leaves everything else in place.
LEMMA AddLifetimeGrows ==
    ASSUME NEW g \in Group, NEW lifetime \in Kinds \cup Names
    PROVE  /\ AddLifetime(g, lifetime) \in Group
           /\ MaxId(AddLifetime(g, lifetime)) = MaxId(g) + 1
           /\ AddLifetime(g, lifetime).lifetimes[MaxId(g) + 1] = lifetime
           /\ \A id \in Ids(g) :
                AddLifetime(g, lifetime).lifetimes[id] = g.lifetimes[id]
           /\ AddLifetime(g, lifetime).constraints = g.constraints
BY DEF AddLifetime, Group, Ids, MaxId

\* Constraints added at the end leave everything else in place.
LEMMA AddConstraintsGrows ==
    ASSUME NEW g \in Group, NEW more \in Seq(Constraint)
    PROVE  /\ AddConstraints(g, more) \in Group
           /\ AddConstraints(g, more).lifetimes = g.lifetimes
           /\ Len(AddConstraints(g, more).constraints)
                = Len(g.constraints) + Len(more)
           /\ \A i \in DOMAIN g.constraints :
                AddConstraints(g, more).constraints[i] = g.constraints[i]
           /\ \A i \in DOMAIN more :
                AddConstraints(g, more).constraints[Len(g.constraints) + i] = more[i]
<1> DEFINE all == g.constraints \o more
<1>1. g.constraints \in Seq(Constraint) /\ g.lifetimes \in Seq(Kinds \cup Names)
  BY DEF Group
<1>2. /\ all \in Seq(Constraint)
      /\ Len(all) = Len(g.constraints) + Len(more)
      /\ \A i \in 1 .. Len(g.constraints) + Len(more) :
            all[i] = IF i <= Len(g.constraints) THEN g.constraints[i]
                     ELSE more[i - Len(g.constraints)]
  BY <1>1, ConcatProperties
<1>3. /\ DOMAIN g.constraints = 1 .. Len(g.constraints)
      /\ Len(g.constraints) \in Nat /\ Len(more) \in Nat
      /\ DOMAIN more = 1 .. Len(more)
  BY <1>1
<1>4. \A i \in DOMAIN more : all[Len(g.constraints) + i] = more[i]
  BY <1>2, <1>3
<1>5. /\ AddConstraints(g, more).lifetimes = g.lifetimes
      /\ AddConstraints(g, more).constraints = all
  BY DEF AddConstraints, Group
<1>6. AddConstraints(g, more) \in Group
  BY <1>2 DEF AddConstraints, Group
<1> HIDE DEF all
<1>7. \A i \in DOMAIN g.constraints : all[i] = g.constraints[i]
  BY <1>2, <1>3
<1> QED
  BY <1>2, <1>4, <1>5, <1>6, <1>7

\* A fixed constraint is a constraint.
LEMMA FixedConstraintType ==
    ASSUME NEW greater \in Nat, NEW lesser \in Nat
    PROVE  FixedConstraint(greater, lesser) \in Constraint
BY DEF FixedConstraint, Constraint, Relations

\* The steps of push_arena and push_stack: a lifetime and constraints that
\* lead down from and to it.
LEMMA GrowthByScope ==
    ASSUME NEW g, WellShaped(g), WellConstrained(g),
           NEW kind \in Kinds,
           NEW more \in Seq(Constraint),
           \A i \in DOMAIN more :
              \E greater, lesser \in 1 .. MaxId(g) + 1 :
                 /\ more[i] = FixedConstraint(greater, lesser)
                 /\ greater # AnyLifetime
                 /\ lesser = AnyLifetime \/ greater < lesser
    PROVE  LET h == AddConstraints(AddLifetime(g, kind), more)
           IN  /\ WellShaped(h) /\ WellConstrained(h) /\ h \in Group
               /\ Grows(g, h)
               /\ MaxId(h) = MaxId(g) + 1
               /\ \A i \in DOMAIN more :
                    \E j \in DOMAIN h.constraints : h.constraints[j] = more[i]
<1> DEFINE a == AddLifetime(g, kind)
           h == AddConstraints(a, more)
<1>1. g \in Group /\ MaxId(g) \in Nat /\ MaxId(g) > Ctx
  BY DEF WellShaped, Group, MaxId
<1>2. /\ a \in Group
      /\ MaxId(a) = MaxId(g) + 1
      /\ \A id \in Ids(g) : a.lifetimes[id] = g.lifetimes[id]
      /\ a.constraints = g.constraints
  BY <1>1, AddLifetimeGrows
<1> HIDE DEF a
<1>3. /\ h \in Group
      /\ h.lifetimes = a.lifetimes
      /\ Len(h.constraints) = Len(a.constraints) + Len(more)
      /\ \A i \in DOMAIN a.constraints : h.constraints[i] = a.constraints[i]
      /\ \A i \in DOMAIN more : h.constraints[Len(a.constraints) + i] = more[i]
  BY <1>2, AddConstraintsGrows
<1> HIDE DEF h
<1>4. /\ Len(g.constraints) \in Nat /\ Len(more) \in Nat
      /\ DOMAIN more = 1 .. Len(more)
      /\ DOMAIN h.constraints = 1 .. Len(h.constraints)
      /\ MaxId(h) = MaxId(g) + 1
      /\ Ids(h) = 1 .. MaxId(h)
  BY <1>1, <1>2, <1>3 DEF Group, MaxId, Ids
<1>5. Grows(g, h)
  BY <1>1, <1>2, <1>3, <1>4 DEF Grows
<1>6. ASSUME NEW i \in NewConstraints(g, h)
      PROVE  Refers(h, h.constraints[i]) /\ Placed(h, h.constraints[i])
  <2> DEFINE n == i - Len(g.constraints)
  <2>1. n \in DOMAIN more /\ Len(g.constraints) + n = i
    BY <1>2, <1>3, <1>4 DEF NewConstraints
  <2>2. n \in DOMAIN more /\ h.constraints[i] = more[n]
    BY <1>2, <1>3, <2>1
  <2>3. PICK greater \in 1 .. MaxId(g) + 1, lesser \in 1 .. MaxId(g) + 1 :
            /\ more[n] = FixedConstraint(greater, lesser)
            /\ greater # AnyLifetime
            /\ lesser = AnyLifetime \/ greater < lesser
    BY <2>2
  <2>4. /\ h.constraints[i].left = greater
        /\ h.constraints[i].right = lesser
        /\ h.constraints[i].rel = ">"
        /\ h.constraints[i].at = NoLocation
    BY <2>2, <2>3 DEF FixedConstraint
  <2>5. Depth(h, greater) < Depth(h, lesser)
    BY <2>3, <1>1, <1>4 DEF Depth
  <2> QED
    BY <2>3, <2>4, <2>5, <1>4 DEF Refers, Placed, Descends
<1>7. WellShaped(h) /\ WellConstrained(h)
  BY <1>3, <1>5, <1>6, GrowthIsGood
<1>8. \A i \in DOMAIN more : \E j \in DOMAIN h.constraints : h.constraints[j] = more[i]
  <2> TAKE i \in DOMAIN more
  <2>1. Len(g.constraints) + i \in DOMAIN h.constraints
    BY <1>2, <1>3, <1>4
  <2> QED
    BY <1>2, <1>3, <2>1
<1> QED
  BY <1>3, <1>4, <1>5, <1>7, <1>8 DEF h, a

\* push_arena and push_stack place the new scope below the enclosing one.
LEMMA PushedScopes ==
    ASSUME NEW g, WellShaped(g), WellConstrained(g),
           NEW outer \in ScopeIds(g),
           NEW h \in {PushArena(g, outer), PushStack(g, outer)}
    PROVE  /\ WellShaped(h) /\ WellConstrained(h) /\ h \in Group
           /\ Grows(g, h)
           /\ MaxId(h) = MaxId(g) + 1
           /\ \E j \in DOMAIN h.constraints :
                h.constraints[j] = FixedConstraint(outer, MaxId(g) + 1)
<1> DEFINE inner == MaxId(g) + 1
           arena_more == <<FixedConstraint(outer, inner),
                           FixedConstraint(inner, AnyLifetime)>>
           stack_more == <<FixedConstraint(outer, inner),
                           FixedConstraint(Static, inner),
                           FixedConstraint(inner, AnyLifetime)>>
<1>1. MaxId(g) \in Nat /\ MaxId(g) > 5 /\ outer \in 5 .. MaxId(g)
  BY DEF WellShaped, Group, MaxId, ScopeIds, Ctx
<1>2. /\ FixedConstraint(outer, inner) \in Constraint
      /\ FixedConstraint(Static, inner) \in Constraint
      /\ FixedConstraint(inner, AnyLifetime) \in Constraint
  BY <1>1, FixedConstraintType DEF Static, AnyLifetime
<1>3. CASE h = PushArena(g, outer)
  <2>1. h = AddConstraints(AddLifetime(g, "arena"), arena_more)
    BY <1>3 DEF PushArena
  <2>2. arena_more \in Seq(Constraint) /\ DOMAIN arena_more = 1 .. 2
    BY <1>2
  <2>3. \A i \in DOMAIN arena_more :
            \E greater, lesser \in 1 .. MaxId(g) + 1 :
               /\ arena_more[i] = FixedConstraint(greater, lesser)
               /\ greater # AnyLifetime
               /\ lesser = AnyLifetime \/ greater < lesser
    BY <1>1, <2>2 DEF AnyLifetime
  <2>4. 1 \in DOMAIN arena_more /\ arena_more[1] = FixedConstraint(outer, inner)
    BY <2>2
  <2>5. "arena" \in Kinds
    BY DEF Kinds
  <2> HIDE DEF arena_more
  <2> QED
    BY <2>1, <2>2, <2>3, <2>4, <2>5, GrowthByScope
<1>4. CASE h = PushStack(g, outer)
  <2>1. outer # NoLifetime
    BY <1>1, GroupAssumption
  <2>2. h = AddConstraints(AddLifetime(g, "stack"), stack_more)
    BY <1>4, <2>1 DEF PushStack
  <2>3. stack_more \in Seq(Constraint) /\ DOMAIN stack_more = 1 .. 3
    BY <1>2
  <2>4. \A i \in DOMAIN stack_more :
            \E greater, lesser \in 1 .. MaxId(g) + 1 :
               /\ stack_more[i] = FixedConstraint(greater, lesser)
               /\ greater # AnyLifetime
               /\ lesser = AnyLifetime \/ greater < lesser
    BY <1>1, <2>3 DEF AnyLifetime, Static
  <2>5. 1 \in DOMAIN stack_more /\ stack_more[1] = FixedConstraint(outer, inner)
    BY <2>3
  <2>6. "stack" \in Kinds
    BY DEF Kinds
  <2> HIDE DEF stack_more
  <2> QED
    BY <2>2, <2>3, <2>4, <2>5, <2>6, GrowthByScope
<1> QED
  BY <1>3, <1>4

LeadsDown(c, greater, lesser) ==
    /\ c \in Constraint /\ c.left = greater /\ c.rel = ">" /\ c.right = lesser
    /\ c.at = NoLocation

\* The constraints of the predefined lifetimes are imported as they are.
LEMMA BaseImported ==
    ASSUME NEW g, NEW greater \in 1 .. 5, NEW lesser \in 1 .. 5
    PROVE  LeadsDown(ImportConstraint(g, FixedConstraint(greater, lesser)), greater, lesser)
<1> DEFINE c == FixedConstraint(greater, lesser)
<1>1. Imported(g, greater) = greater /\ Imported(g, lesser) = lesser
  BY DEF Imported, Ctx
<1>2. /\ c \in Constraint
      /\ c.left = greater /\ c.right = lesser /\ c.rel = ">" /\ c.at = NoLocation
  BY FixedConstraintType DEF FixedConstraint
<1> HIDE DEF c
<1>3. LeadsDown(ImportConstraint(g, c), greater, lesser)
  BY <1>1, <1>2 DEF ImportConstraint, LeadsDown, Constraint
<1> QED
  BY <1>3 DEF c

\* A call adds the signature's own lifetimes and repeats the constraints
\* between the predefined ones.
LEMMA ImportIsGood ==
    ASSUME NEW g, WellShaped(g), WellConstrained(g), NEW s \in Signatures
    PROVE  LET h == Import(g, s)
           IN  h \in Group /\ Grows(g, h) /\ WellShaped(h) /\ WellConstrained(h)
<1> DEFINE fresh == FreshLifetimes(s)
           more == [i \in DOMAIN s.constraints |-> ImportConstraint(g, s.constraints[i])]
           h == Import(g, s)
<1>1. /\ g \in Group /\ MaxId(g) \in Nat /\ MaxId(g) > 5
      /\ g.lifetimes \in Seq(Kinds \cup Names)
      /\ g.constraints \in Seq(Constraint)
      /\ Ids(g) = 1 .. MaxId(g)
      /\ DOMAIN g.constraints = 1 .. Len(g.constraints)
      /\ Len(g.constraints) \in Nat
  BY DEF WellShaped, Group, MaxId, Ctx, Ids
<1>2. fresh \in Seq(Kinds \cup Names) /\ Len(fresh) \in Nat
  <2>1. /\ s.lifetimes \in Seq(Kinds \cup Names)
        /\ MaxId(s) \in Nat
        /\ \A id \in Ctx + 1 .. MaxId(s) : s.lifetimes[id] \in Kinds \cup Names
    BY TableAssumption DEF Group, MaxId, Ctx
  <2>2. fresh \in Seq(Kinds \cup Names)
    BY <2>1, SubSeqProperties DEF FreshLifetimes, Ctx
  <2> QED
    BY <2>2
<1>3. /\ DOMAIN more = 1 .. 4 /\ Len(more) = 4
      /\ LeadsDown(more[1], 1, 3)
      /\ LeadsDown(more[2], 1, 4)
      /\ LeadsDown(more[3], 1, 5)
      /\ LeadsDown(more[4], 5, 3)
  <2>1. s.constraints = BaseConstraints
    BY TableAssumption
  <2>2. /\ DOMAIN BaseConstraints = 1 .. 4
        /\ BaseConstraints[1] = FixedConstraint(1, 3)
        /\ BaseConstraints[2] = FixedConstraint(1, 4)
        /\ BaseConstraints[3] = FixedConstraint(1, 5)
        /\ BaseConstraints[4] = FixedConstraint(5, 3)
    BY DEF BaseConstraints, Static, AnyLifetime, My, Ctx
  <2>3. /\ LeadsDown(ImportConstraint(g, FixedConstraint(1, 3)), 1, 3)
        /\ LeadsDown(ImportConstraint(g, FixedConstraint(1, 4)), 1, 4)
        /\ LeadsDown(ImportConstraint(g, FixedConstraint(1, 5)), 1, 5)
        /\ LeadsDown(ImportConstraint(g, FixedConstraint(5, 3)), 5, 3)
    BY BaseImported
  <2> QED
    BY <2>1, <2>2, <2>3
<1>4. more \in Seq(Constraint)
  <2>1. \A i \in 1 .. 4 : more[i] \in Constraint
    BY <1>3 DEF LeadsDown
  <2>2. more = [i \in DOMAIN more |-> more[i]]
    OBVIOUS
  <2> HIDE DEF more
  <2>3. more \in [1 .. 4 -> Constraint]
    BY <1>3, <2>1, <2>2
  <2>4. [1 .. 4 -> Constraint] \subseteq Seq(Constraint)
    OBVIOUS
  <2> QED
    BY <2>3, <2>4
<1> HIDE DEF fresh, more
<1>5. /\ g.lifetimes \o fresh \in Seq(Kinds \cup Names)
      /\ Len(g.lifetimes \o fresh) = MaxId(g) + Len(fresh)
      /\ \A id \in Ids(g) : (g.lifetimes \o fresh)[id] = g.lifetimes[id]
  BY <1>1, <1>2, ConcatProperties DEF MaxId
<1>6. /\ g.constraints \o more \in Seq(Constraint)
      /\ Len(g.constraints \o more) = Len(g.constraints) + 4
      /\ \A i \in DOMAIN g.constraints : (g.constraints \o more)[i] = g.constraints[i]
      /\ \A i \in 1 .. 4 : (g.constraints \o more)[Len(g.constraints) + i] = more[i]
  <2>1. /\ g.constraints \o more \in Seq(Constraint)
        /\ Len(g.constraints \o more) = Len(g.constraints) + Len(more)
        /\ \A i \in 1 .. Len(g.constraints) + Len(more) :
              (g.constraints \o more)[i] =
                  IF i <= Len(g.constraints) THEN g.constraints[i]
                  ELSE more[i - Len(g.constraints)]
    BY <1>1, <1>4, ConcatProperties
  <2> QED
    BY <1>1, <1>3, <2>1
<1>7. /\ h \in Group
      /\ h.lifetimes = g.lifetimes \o fresh
      /\ h.constraints = g.constraints \o more
  BY <1>5, <1>6 DEF Import, Group, fresh, more
<1> HIDE DEF h
<1>8. Grows(g, h)
  <2>1. MaxId(g) \in Nat /\ Len(fresh) \in Nat /\ Len(g.constraints) \in Nat
    BY <1>1, <1>2 DEF MaxId
  <2>2. MaxId(g) <= MaxId(h)
    BY <1>5, <1>7, <2>1 DEF MaxId
  <2>3. \A id \in Ids(g) : h.lifetimes[id] = g.lifetimes[id]
    BY <1>5, <1>7
  <2>4. Len(g.constraints) <= Len(h.constraints)
    BY <1>6, <1>7, <2>1
  <2>5. \A i \in DOMAIN g.constraints : h.constraints[i] = g.constraints[i]
    BY <1>6, <1>7
  <2> QED
    BY <2>2, <2>3, <2>4, <2>5 DEF Grows
<1>9. ASSUME NEW i \in NewConstraints(g, h)
      PROVE  Refers(h, h.constraints[i]) /\ Placed(h, h.constraints[i])
  <2>1. MaxId(h) \in Nat /\ MaxId(h) > 5 /\ Ids(h) = 1 .. MaxId(h)
    BY <1>1, <1>2, <1>5, <1>7 DEF MaxId, Ids
  <2> DEFINE n == i - Len(g.constraints)
  <2>2. Len(h.constraints) = Len(g.constraints) + 4
    BY <1>6, <1>7
  <2>3. n \in 1 .. 4 /\ Len(g.constraints) + n = i
    BY <1>1, <2>2, SMTT(30) DEF NewConstraints
  <2>4. h.constraints[i] = more[n]
    BY <1>6, <1>7, <2>3
  <2>5. PICK greater \in {1, 5}, lesser \in {3, 4, 5} :
            /\ LeadsDown(h.constraints[i], greater, lesser)
            /\ lesser = 3 \/ greater < lesser
    BY <1>3, <2>3, <2>4
  <2> QED
    BY <2>1, <2>5 DEF LeadsDown, Refers, Placed, Descends, Depth, AnyLifetime
<1> QED
  BY <1>7, <1>8, <1>9, GrowthIsGood DEF h

\* An assignment adds constraints that have a location and are not strict.
LEMMA RequirementsAreGood ==
    ASSUME NEW g, WellShaped(g), WellConstrained(g),
           NEW more \in Seq(Constraint),
           \A i \in DOMAIN more :
              /\ Refers(g, more[i])
              /\ more[i].at # NoLocation /\ more[i].rel \in {"<=", "="}
    PROVE  LET h == AddConstraints(g, more)
           IN  h \in Group /\ Grows(g, h) /\ WellShaped(h) /\ WellConstrained(h)
<1> DEFINE h == AddConstraints(g, more)
<1>1. g \in Group
  BY DEF WellShaped
<1>2. /\ h \in Group
      /\ h.lifetimes = g.lifetimes
      /\ Len(h.constraints) = Len(g.constraints) + Len(more)
      /\ \A i \in DOMAIN g.constraints : h.constraints[i] = g.constraints[i]
      /\ \A i \in DOMAIN more : h.constraints[Len(g.constraints) + i] = more[i]
  BY <1>1, AddConstraintsGrows
<1> HIDE DEF h
<1>3. /\ Len(g.constraints) \in Nat /\ Len(more) \in Nat
      /\ DOMAIN more = 1 .. Len(more)
      /\ MaxId(h) = MaxId(g) /\ MaxId(g) \in Nat
      /\ Ids(h) = Ids(g)
  BY <1>1, <1>2 DEF Group, MaxId, Ids
<1>4. Grows(g, h)
  BY <1>2, <1>3 DEF Grows, Ids
<1>5. ASSUME NEW i \in NewConstraints(g, h)
      PROVE  Refers(h, h.constraints[i]) /\ Placed(h, h.constraints[i])
  <2> DEFINE n == i - Len(g.constraints)
  <2>1. n \in DOMAIN more /\ Len(g.constraints) + n = i
    <3>1. i \in Len(g.constraints) + 1 .. Len(g.constraints) + Len(more)
      BY <1>2 DEF NewConstraints
    <3>2. QED
      BY <1>3, <3>1
  <2>2. h.constraints[i] = more[n]
    BY <1>2, <2>1
  <2> QED
    BY <1>3, <2>1, <2>2 DEF Refers, Placed, Descends
<1> QED
  BY <1>2, <1>4, <1>5, GrowthIsGood DEF h

-----------------------------------------------------------------------------
(* The invariant.                                                          *)

LEMMA InitInvariant == Init => TableInvariant
<1> SUFFICES ASSUME Init PROVE TableInvariant
  OBVIOUS
<1> USE DEF Static, AnyLifetime, Ctx
<1> DEFINE base == <<"static", "unsafe", "any", "my", "ctx">>
           more == <<FixedConstraint(5, 6), FixedConstraint(1, 6),
                     FixedConstraint(6, 3)>>
           a == AddLifetime(NewGroup, "stack")
<1>1. /\ NewGroup.lifetimes = base
      /\ NewGroup.constraints = BaseConstraints
      /\ MaxId(NewGroup) = 5 /\ Ids(NewGroup) = 1 .. 5
  BY DEF NewGroup, MaxId, Ids
<1>2. /\ FixedConstraint(1, 3) \in Constraint /\ FixedConstraint(1, 4) \in Constraint
      /\ FixedConstraint(1, 5) \in Constraint /\ FixedConstraint(5, 3) \in Constraint
      /\ FixedConstraint(5, 6) \in Constraint /\ FixedConstraint(1, 6) \in Constraint
      /\ FixedConstraint(6, 3) \in Constraint
  BY FixedConstraintType
<1>3. /\ BaseConstraints \in Seq(Constraint)
      /\ DOMAIN BaseConstraints = 1 .. 4 /\ Len(BaseConstraints) = 4
      /\ BaseConstraints[1] = FixedConstraint(1, 3)
      /\ BaseConstraints[2] = FixedConstraint(1, 4)
      /\ BaseConstraints[3] = FixedConstraint(1, 5)
      /\ BaseConstraints[4] = FixedConstraint(5, 3)
  BY <1>2 DEF BaseConstraints, My
<1>4. /\ more \in Seq(Constraint)
      /\ DOMAIN more = 1 .. 3 /\ Len(more) = 3
      /\ more[1] = FixedConstraint(5, 6)
      /\ more[2] = FixedConstraint(1, 6)
      /\ more[3] = FixedConstraint(6, 3)
  BY <1>2
<1>5. NewGroup \in Group /\ "stack" \in Kinds \cup Names
  <2>1. base \in Seq(Kinds \cup Names)
    BY DEF Kinds
  <2> QED
    BY <1>3, <2>1 DEF NewGroup, Group, Kinds
<1>6. group = AddConstraints(a, more)
  BY <1>1 DEF Init, PushStack
<1> HIDE DEF more
<1>7. /\ a \in Group
      /\ MaxId(a) = 6
      /\ a.lifetimes[6] = "stack"
      /\ \A id \in 1 .. 5 : a.lifetimes[id] = base[id]
      /\ a.constraints = BaseConstraints
  BY <1>1, <1>5, AddLifetimeGrows
<1> HIDE DEF a
<1>8. /\ group \in Group
      /\ group.lifetimes = a.lifetimes
      /\ Len(group.constraints) = 7
      /\ \A i \in 1 .. 4 : group.constraints[i] = BaseConstraints[i]
      /\ \A i \in 1 .. 3 : group.constraints[4 + i] = more[i]
  <2>1. /\ group \in Group
        /\ group.lifetimes = a.lifetimes
        /\ Len(group.constraints) = Len(a.constraints) + Len(more)
        /\ \A i \in DOMAIN a.constraints : group.constraints[i] = a.constraints[i]
        /\ \A i \in DOMAIN more : group.constraints[Len(a.constraints) + i] = more[i]
    BY <1>4, <1>6, <1>7, AddConstraintsGrows
  <2>2. Len(a.constraints) = 4 /\ DOMAIN a.constraints = 1 .. 4
    BY <1>3, <1>7
  <2>3. \A i \in 1 .. 4 : group.constraints[i] = BaseConstraints[i]
    BY <2>1, <2>2, <1>7
  <2>4. \A i \in 1 .. 3 : group.constraints[4 + i] = more[i]
    BY <2>1, <2>2, <1>4
  <2>5. Len(group.constraints) = 7
    BY <2>1, <2>2, <1>4
  <2> QED
    BY <2>1, <2>3, <2>4, <2>5
<1>9. group \in Group
  BY <1>8
<1>10. /\ MaxId(group) = 6 /\ Ids(group) = 1 .. 6
      /\ DOMAIN group.constraints = 1 .. 7
  BY <1>7, <1>8 DEF MaxId, Ids, Group
<1>11. WellShaped(group)
  <2>1. \A id \in 1 .. 5 : base[id] # "stack"
    OBVIOUS
  <2> QED
    BY <1>9, <1>10, <1>7, <1>8, <2>1 DEF WellShaped
<1>12. WellConstrained(group)
  <2>1. ASSUME NEW i \in 1 .. 7
        PROVE  \E greater, lesser \in 1 .. 6 :
                  /\ group.constraints[i] = FixedConstraint(greater, lesser)
                  /\ greater # 3
                  /\ lesser = 3 \/ greater < lesser
    <3>1. CASE i \in 1 .. 4
      BY <1>3, <1>8, <3>1
    <3>2. CASE i \in 5 .. 7
      <4>1. i - 4 \in 1 .. 3 /\ 4 + (i - 4) = i
        BY <3>2
      <4>2. group.constraints[i] = more[i - 4]
        BY <1>8, <4>1
      <4> QED
        BY <1>4, <4>1, <4>2
    <3> QED
      BY <3>1, <3>2
  <2> QED
    BY <1>10, <2>1
    DEF WellConstrained, Refers, Placed, Descends, Depth, FixedConstraint
<1>13. TypedTable
  BY <1>1, <1>9, <1>10 DEF Init, TypedTable, Stages, Guard
<1> QED
  BY <1>1, <1>11, <1>12, <1>10, <1>13
  DEF Init, TableInvariant, ScopeIds, GuardsRefer, ScopesNest, ScopesAreBlocks

(* What the actions leave alone.                                           *)
Undisturbed ==
    /\ UNCHANGED <<stage, current_arena_id, current_stack_id, guards, blocks>>
    /\ Grows(group, group')

\* What stands in a scope still does when the group grows.
LEMMA WithinKept ==
    ASSUME NEW g \in Group, NEW h \in Group, Grows(g, h),
           NEW inner, NEW outer, StandsIn(g, inner, outer)
    PROVE  StandsIn(h, inner, outer)
<1>1. /\ DOMAIN g.constraints = 1 .. Len(g.constraints)
      /\ DOMAIN h.constraints = 1 .. Len(h.constraints)
      /\ Len(g.constraints) \in Nat /\ Len(h.constraints) \in Nat
  BY DEF Group
<1>2. ASSUME NEW greater, NEW lesser, Requires(g, greater, lesser)
      PROVE  Requires(h, greater, lesser)
  BY <1>1, <1>2 DEF Requires, Grows
<1> QED
  BY <1>2 DEF StandsIn

\* Where the group only grows, the open scopes keep their lifetimes.
LEMMA ScopesKept ==
    ASSUME TableInvariant, Undisturbed, WellShaped(group')
    PROVE  /\ current_arena_id' \in ScopeIds(group')
           /\ current_stack_id' \in ScopeIds(group')
           /\ current_arena_id' \in Ids(group') /\ current_stack_id' \in Ids(group')
           /\ GuardsRefer' /\ ScopesNest' /\ ScopesAreBlocks'
<1>1. /\ MaxId(group) \in Nat /\ MaxId(group') \in Nat
      /\ MaxId(group) <= MaxId(group')
      /\ Ids(group') = 1 .. MaxId(group')
  BY DEF TableInvariant, Undisturbed, Grows, WellShaped, Group, MaxId, Ids
<1>2. ScopeIds(group) \subseteq ScopeIds(group') /\ ScopeIds(group') \subseteq Ids(group')
  BY <1>1 DEF ScopeIds, Ctx
<1>3. StackRoot(group') = StackRoot(group)
  BY StackRootIsSixth DEF TableInvariant
<1>4. ASSUME NEW inner, NEW outer, StandsIn(group, inner, outer)
      PROVE  StandsIn(group', inner, outer)
  BY <1>4, WithinKept DEF TableInvariant, Undisturbed, WellShaped
<1>5. GuardsRefer'
  BY <1>2 DEF TableInvariant, Undisturbed, GuardsRefer
<1>6. Scopes' = Scopes /\ Here' = Here /\ OwnBlock' = OwnBlock
  BY <1>3 DEF Scopes, Here, OwnBlock, Undisturbed
<1>7. ScopesNest'
  BY <1>4, <1>6 DEF ScopesNest, TableInvariant, Undisturbed
<1>8. ScopesAreBlocks'
  BY <1>6 DEF ScopesAreBlocks, TableInvariant, Undisturbed
<1> QED
  BY <1>2, <1>5, <1>7, <1>8 DEF TableInvariant, Undisturbed

\* A lifetime that is looked up or inferred is related to no other yet.
LEMMA AddLifetimeIsGood ==
    ASSUME NEW g, WellShaped(g), WellConstrained(g), NEW lifetime \in Kinds \cup Names
    PROVE  LET h == AddLifetime(g, lifetime)
           IN  /\ h \in Group /\ Grows(g, h) /\ WellShaped(h) /\ WellConstrained(h)
               /\ MaxId(h) = MaxId(g) + 1
<1> DEFINE h == AddLifetime(g, lifetime)
<1>1. g \in Group /\ MaxId(g) \in Nat /\ Len(g.constraints) \in Nat
  BY DEF WellShaped, Group, MaxId
<1>2. /\ h \in Group
      /\ MaxId(h) = MaxId(g) + 1
      /\ \A id \in Ids(g) : h.lifetimes[id] = g.lifetimes[id]
      /\ h.constraints = g.constraints
  BY <1>1, AddLifetimeGrows
<1> HIDE DEF h
<1>3. Grows(g, h)
  BY <1>1, <1>2 DEF Grows
<1>4. NewConstraints(g, h) = {}
  BY <1>1, <1>2 DEF NewConstraints
<1> QED
  BY <1>2, <1>3, <1>4, GrowthIsGood DEF h

\* Where only the group grows, and it grows well, the invariant is kept.
LEMMA GrowthKeepsInvariant ==
    ASSUME TableInvariant,
           UNCHANGED <<stage, current_arena_id, current_stack_id, guards, blocks>>,
           group' \in Group, Grows(group, group'),
           WellShaped(group'), WellConstrained(group'),
           public_inferred_id' \in Ids(group') \cup {NoLifetime},
           checks' \in Nat
    PROVE  TableInvariant'
<1>1. /\ current_arena_id' \in ScopeIds(group')
      /\ current_stack_id' \in ScopeIds(group')
      /\ current_arena_id' \in Ids(group') /\ current_stack_id' \in Ids(group')
      /\ GuardsRefer' /\ ScopesNest' /\ ScopesAreBlocks'
  BY ScopesKept DEF Undisturbed
<1>2. stage' \in Stages /\ guards' \in Seq(Guard)
  BY DEF TableInvariant, TypedTable
<1> QED
  BY <1>1, <1>2 DEF TableInvariant, TypedTable

\* The lifetimes of a group stay lifetimes when it grows.
LEMMA IdsGrow ==
    ASSUME NEW g, NEW h, WellShaped(g), WellShaped(h), Grows(g, h)
    PROVE  Ids(g) \subseteq Ids(h)
BY DEF WellShaped, Group, Grows, Ids, MaxId

LEMMA LookupInvariant ==
    ASSUME TableInvariant, NEW name \in Names, Lookup(name)
    PROVE  TableInvariant'
<1>1. /\ group' = AddLifetime(group, name)
      /\ WellShaped(group) /\ WellConstrained(group)
      /\ name \in Kinds \cup Names
  BY DEF Lookup, TableInvariant
<1>2. /\ group' \in Group /\ Grows(group, group')
      /\ WellShaped(group') /\ WellConstrained(group')
  BY <1>1, AddLifetimeIsGood
<1>3. Ids(group) \subseteq Ids(group')
  BY <1>1, <1>2, IdsGrow
<1>4. /\ UNCHANGED <<stage, current_arena_id, current_stack_id, guards, blocks>>
      /\ public_inferred_id' \in Ids(group') \cup {NoLifetime}
      /\ checks' \in Nat
  BY <1>3 DEF Lookup, table, TableInvariant, TypedTable
<1> QED
  BY <1>2, <1>4, GrowthKeepsInvariant

LEMMA InferLifetimeInvariant ==
    ASSUME TableInvariant, InferLifetime
    PROVE  TableInvariant'
<1>1. /\ group' = AddLifetime(group, "free")
      /\ WellShaped(group) /\ WellConstrained(group)
      /\ "free" \in Kinds \cup Names
  BY DEF InferLifetime, TableInvariant, Kinds
<1>2. /\ group' \in Group /\ Grows(group, group')
      /\ WellShaped(group') /\ WellConstrained(group')
      /\ MaxId(group') = MaxId(group) + 1
  BY <1>1, AddLifetimeIsGood
<1>3. Ids(group) \subseteq Ids(group') /\ MaxId(group) + 1 \in Ids(group')
  BY <1>1, <1>2, IdsGrow DEF WellShaped, Group, MaxId, Ids
<1>4. /\ UNCHANGED <<stage, current_arena_id, current_stack_id, guards, blocks>>
      /\ public_inferred_id' \in Ids(group') \cup {NoLifetime}
      /\ checks' \in Nat
  BY <1>3 DEF InferLifetime, TableInvariant, TypedTable
<1> QED
  BY <1>2, <1>4, GrowthKeepsInvariant

LEMMA CallInvariant ==
    ASSUME TableInvariant, NEW signature \in Signatures, Call(signature)
    PROVE  TableInvariant'
<1>1. /\ group' = Import(group, signature)
      /\ WellShaped(group) /\ WellConstrained(group)
  BY DEF Call, TableInvariant
<1>2. /\ group' \in Group /\ Grows(group, group')
      /\ WellShaped(group') /\ WellConstrained(group')
  BY <1>1, ImportIsGood
<1>3. Ids(group) \subseteq Ids(group')
  BY <1>1, <1>2, IdsGrow
<1>4. /\ UNCHANGED <<stage, current_arena_id, current_stack_id, guards, blocks>>
      /\ public_inferred_id' \in Ids(group') \cup {NoLifetime}
      /\ checks' \in Nat
  BY <1>3 DEF Call, Check, table, TableInvariant, TypedTable
<1> QED
  BY <1>2, <1>4, GrowthKeepsInvariant

LEMMA AssignInvariant ==
    ASSUME TableInvariant, NEW levels \in LevelSeqs, NEW at \in Locations,
           Assign(levels, at)
    PROVE  TableInvariant'
<1> DEFINE more == Requirements(levels, at)
<1>1. /\ group' = AddConstraints(group, more)
      /\ WellShaped(group) /\ WellConstrained(group)
  BY DEF Assign, TableInvariant
<1>2. PICK n \in 1 .. MaxLevels : levels \in [1 .. n -> Levels]
  BY DEF LevelSeqs
<1>3. Ids(group) \subseteq Nat /\ n \in Nat
  BY <1>1, TableAssumption DEF WellShaped, Group, Ids
<1>4. ASSUME NEW i \in 1 .. n
      PROVE  /\ Requirement(levels, i, at) \in Constraint
             /\ Refers(group, Requirement(levels, i, at))
             /\ Requirement(levels, i, at).at = at
             /\ Requirement(levels, i, at).rel \in {"<=", "="}
  <2>1. levels[i].left \in Ids(group) /\ levels[i].right \in Ids(group)
    BY <1>2 DEF Levels
  <2> QED
    BY <1>3, <2>1 DEF Requirement, Constraint, Relations, Refers
<1>5. /\ more \in Seq(Constraint)
      /\ \A i \in DOMAIN more :
            /\ Refers(group, more[i])
            /\ more[i].at # NoLocation /\ more[i].rel \in {"<=", "="}
  <2>1. more = [i \in 1 .. n |-> Requirement(levels, i, at)]
    BY <1>2 DEF Requirements
  <2>2. more \in [1 .. n -> Constraint]
    BY <1>4, <2>1
  <2>3. [1 .. n -> Constraint] \subseteq Seq(Constraint)
    BY <1>3
  <2>4. at # NoLocation
    BY GroupAssumption
  <2> HIDE DEF more
  <2> QED
    BY <1>4, <2>1, <2>2, <2>3, <2>4
<1> HIDE DEF more
<1>6. /\ group' \in Group /\ Grows(group, group')
      /\ WellShaped(group') /\ WellConstrained(group')
  BY <1>1, <1>5, RequirementsAreGood
<1>7. Ids(group) \subseteq Ids(group')
  BY <1>1, <1>6, IdsGrow
<1>8. /\ UNCHANGED <<stage, current_arena_id, current_stack_id, guards, blocks>>
      /\ public_inferred_id' \in Ids(group') \cup {NoLifetime}
      /\ checks' \in Nat
  BY <1>7 DEF Assign, Check, table, TableInvariant, TypedTable
<1> QED
  BY <1>6, <1>8, GrowthKeepsInvariant

LEMMA EnterBodyInvariant ==
    ASSUME TableInvariant, EnterBody
    PROVE  TableInvariant'
<1>1. /\ UNCHANGED <<group, checks>>
      /\ stage' = "body"
      /\ current_arena_id' = Ctx
      /\ current_stack_id' = StackRoot(group)
      /\ guards' = <<>>
      /\ public_inferred_id' = NoLifetime
      /\ blocks' = {Here'}
  BY DEF EnterBody
<1>2. StackRoot(group) = 6 /\ StackRoot(group') = 6
  BY <1>1, StackRootIsSixth DEF TableInvariant, Ctx
<1>3. /\ MaxId(group) \in Nat /\ MaxId(group) > 5
      /\ Ids(group) = 1 .. MaxId(group)
  BY DEF TableInvariant, WellShaped, Group, MaxId, Ids, Ctx
<1>4. TypedTable'
  BY <1>1, <1>2, <1>3 DEF TableInvariant, TypedTable, Stages, Ctx, Here, Guard
<1>5. current_arena_id' \in ScopeIds(group') /\ current_stack_id' \in ScopeIds(group')
  BY <1>1, <1>2, <1>3 DEF ScopeIds, Ctx
<1>6. GuardsRefer'
  BY <1>1 DEF GuardsRefer
<1>7. Scopes' = <<Here'>> /\ Here' = OwnBlock'
  BY <1>1 DEF Scopes, Here, OwnBlock
<1>8. ScopesNest'
  BY <1>1, <1>7 DEF ScopesNest
<1>9. ScopesAreBlocks'
  BY <1>1, <1>7 DEF ScopesAreBlocks
<1> QED
  BY <1>1, <1>4, <1>5, <1>6, <1>8, <1>9 DEF TableInvariant

\* A scope that is entered puts the current ids on top of the guards; what
\* is current then must be below them.
LEMMA EnteringKeepsInvariant ==
    ASSUME TableInvariant, EnterScope,
           group' \in Group, Grows(group, group'),
           WellShaped(group'), WellConstrained(group'),
           current_arena_id' \in ScopeIds(group'),
           current_stack_id' \in ScopeIds(group'),
           Requires(group', current_stack_id, current_stack_id'),
           \/ current_arena_id' = current_arena_id
           \/ Requires(group', current_arena_id, current_arena_id'),
           blocks' = blocks \cup {Here'}
    PROVE  TableInvariant'
<1> DEFINE top == Here
           n == Len(guards)
<1>1. /\ stage = "body" /\ stage' = "body"
      /\ guards' = Append(guards, top)
      /\ UNCHANGED <<public_inferred_id, checks>>
  BY DEF EnterScope
<1>2. /\ MaxId(group) \in Nat /\ MaxId(group') \in Nat
      /\ MaxId(group) <= MaxId(group')
      /\ Ids(group) = 1 .. MaxId(group) /\ Ids(group') = 1 .. MaxId(group')
  BY DEF TableInvariant, Grows, WellShaped, Group, MaxId, Ids
<1>3. /\ ScopeIds(group) \subseteq ScopeIds(group')
      /\ ScopeIds(group') \subseteq Ids(group')
      /\ ScopeIds(group) \subseteq Nat /\ ScopeIds(group') \subseteq Nat
  BY <1>2 DEF ScopeIds, Ctx
<1>4. top \in Guard /\ Here' \in Guard
  BY <1>3 DEF TableInvariant, Guard, Here
<1>5. /\ guards \in Seq(Guard) /\ n \in Nat /\ DOMAIN guards = 1 .. n
      /\ guards' \in Seq(Guard) /\ Len(guards') = n + 1
      /\ DOMAIN guards' = 1 .. n + 1
      /\ \A i \in 1 .. n : guards'[i] = guards[i]
      /\ guards'[n + 1] = top
  BY <1>1, <1>4 DEF TableInvariant, TypedTable
<1>6. n \in Nat /\ n = Len(guards)
  BY <1>5
<1> HIDE DEF n
<1>7. TypedTable'
  BY <1>1, <1>2, <1>3, <1>4, <1>5 DEF TableInvariant, TypedTable
<1>8. GuardsRefer'
  <2>1. top.arena \in ScopeIds(group') /\ top.stack \in ScopeIds(group')
    BY <1>3 DEF TableInvariant, Here
  <2>2. \A i \in 1 .. n :
            guards[i].arena \in ScopeIds(group') /\ guards[i].stack \in ScopeIds(group')
    BY <1>1, <1>3, <1>5 DEF TableInvariant, GuardsRefer
  <2>3. \A i \in 1 .. n + 1 :
            guards'[i].arena \in ScopeIds(group') /\ guards'[i].stack \in ScopeIds(group')
    BY <1>5, <2>1, <2>2
  <2> QED
    BY <1>5, <2>3 DEF GuardsRefer
<1>9. /\ \A i \in 1 .. n + 1 : Scopes'[i] = Scopes[i]
      /\ Scopes[n + 1] = Here /\ Scopes'[n + 2] = Here'
      /\ n + 1 + 1 = n + 2 /\ 1 .. n + 1 = (1 .. n) \cup {n + 1} /\ 1 \in 1 .. n + 1
      /\ \A i \in 1 .. n : i + 1 \in 1 .. n + 1
  <2>1. /\ Len(guards) = n /\ Scopes = Append(guards, top)
        /\ Scopes' = Append(guards', Here')
    BY <1>6 DEF Scopes
  <2> HIDE DEF top
  <2>2. /\ \A i \in 1 .. n : Scopes[i] = guards[i]
        /\ Scopes[n + 1] = top
    BY <1>4, <1>5, <2>1
  <2>3. /\ \A i \in 1 .. n + 1 : Scopes'[i] = guards'[i]
        /\ Scopes'[n + 2] = Here'
    BY <1>4, <1>5, <2>1
  <2>4. \A i \in 1 .. n + 1 : Scopes'[i] = Scopes[i]
    BY <1>5, <2>2, <2>3
  <2>5. top = Here
    BY DEF top
  <2> QED
    BY <1>6, <2>2, <2>3, <2>4, <2>5
<1>10. OwnBlock' = OwnBlock
  BY StackRootIsSixth DEF TableInvariant, OwnBlock
<1>11. ASSUME NEW inner, NEW outer, StandsIn(group, inner, outer)
       PROVE  StandsIn(group', inner, outer)
  BY <1>11, WithinKept DEF TableInvariant, WellShaped
<1>12. StandsIn(group', Here', Here)
  BY DEF StandsIn, Here
<1>13. ScopesNest'
  <2>1. Scopes[1] = OwnBlock /\ Scopes[n + 1] \in blocks
    BY <1>1, <1>5, <1>9 DEF TableInvariant, ScopesNest, ScopesAreBlocks
  <2>2. Scopes'[1] = OwnBlock'
    BY <1>9, <1>10, <2>1
  <2>3. ASSUME NEW i \in 1 .. n + 1
        PROVE  StandsIn(group', Scopes'[i + 1], Scopes'[i])
    <3>1. CASE i = n + 1
      BY <1>9, <1>12, <3>1
    <3>2. CASE i \in 1 .. n
      <4>1. StandsIn(group, Scopes[i + 1], Scopes[i])
        BY <1>1, <1>5, <3>2 DEF TableInvariant, ScopesNest
      <4>2. StandsIn(group', Scopes[i + 1], Scopes[i])
        BY <1>11, <4>1
      <4> QED
        BY <1>9, <3>2, <4>2
    <3> QED
      BY <1>9, <3>1, <3>2
  <2>4. ASSUME NEW b \in blocks'
        PROVE  b = OwnBlock' \/ \E outer \in blocks' : StandsIn(group', b, outer)
    <3>1. CASE b = Here'
      BY <1>9, <1>12, <2>1, <3>1
    <3>2. CASE b \in blocks
      BY <1>10, <1>11, <3>2 DEF TableInvariant, ScopesNest
    <3> QED
      BY <2>4, <3>1, <3>2
  <2> QED
    BY <1>1, <1>5, <2>2, <2>3, <2>4 DEF ScopesNest
<1>14. ScopesAreBlocks'
  <2>1. \A i \in 1 .. n + 1 : Scopes'[i] \in blocks'
    BY <1>1, <1>9, <1>5 DEF TableInvariant, ScopesAreBlocks
  <2>2. Len(guards') + 1 = n + 2 /\ 1 .. n + 2 = (1 .. n + 1) \cup {n + 2}
    BY <1>5, <1>6
  <2> QED
    BY <1>9, <2>1, <2>2 DEF ScopesAreBlocks
<1> QED
  BY <1>7, <1>8, <1>13, <1>14 DEF TableInvariant

LEMMA EnterBlockInvariant ==
    ASSUME TableInvariant, EnterBlock
    PROVE  TableInvariant'
<1> DEFINE h == PushStack(group, current_stack_id)
<1>1. /\ EnterScope /\ group' = h
      /\ current_stack_id' = MaxId(group) + 1
      /\ current_arena_id' = current_arena_id
      /\ blocks' = blocks \cup {Here'}
  BY DEF EnterBlock
<1>2. /\ WellShaped(h) /\ WellConstrained(h) /\ h \in Group
      /\ Grows(group, h)
      /\ MaxId(h) = MaxId(group) + 1
      /\ Requires(h, current_stack_id, MaxId(group) + 1)
  BY PushedScopes DEF TableInvariant, Requires
<1>3. MaxId(group) \in Nat /\ MaxId(group) > Ctx
  BY DEF TableInvariant, WellShaped, Group, MaxId
<1>4. current_arena_id' \in ScopeIds(group') /\ current_stack_id' \in ScopeIds(group')
  BY <1>1, <1>2, <1>3 DEF TableInvariant, ScopeIds, Ctx
<1> QED
  BY <1>1, <1>2, <1>4, EnteringKeepsInvariant

LEMMA EnterArenaInvariant ==
    ASSUME TableInvariant, EnterArena
    PROVE  TableInvariant'
<1> DEFINE a == PushArena(group, current_arena_id)
           h == PushStack(a, current_stack_id)
<1>1. /\ EnterScope /\ group' = h
      /\ current_arena_id' = MaxId(group) + 1
      /\ current_stack_id' = MaxId(group) + 2
      /\ blocks' = blocks \cup {Here'}
  BY DEF EnterArena
<1>2. MaxId(group) \in Nat /\ MaxId(group) > Ctx
  BY DEF TableInvariant, WellShaped, Group, MaxId
<1>3. /\ WellShaped(a) /\ WellConstrained(a) /\ a \in Group
      /\ Grows(group, a)
      /\ MaxId(a) = MaxId(group) + 1
      /\ Requires(a, current_arena_id, MaxId(group) + 1)
  BY PushedScopes DEF TableInvariant, Requires
<1>4. current_stack_id \in ScopeIds(a)
  BY <1>2, <1>3 DEF TableInvariant, ScopeIds, Ctx
<1> HIDE DEF a
<1>5. /\ WellShaped(h) /\ WellConstrained(h) /\ h \in Group
      /\ Grows(a, h)
      /\ MaxId(h) = MaxId(a) + 1
      /\ Requires(h, current_stack_id, MaxId(a) + 1)
  BY <1>3, <1>4, PushedScopes DEF Requires
<1> HIDE DEF h
<1>6. /\ DOMAIN group.constraints = 1 .. Len(group.constraints)
      /\ DOMAIN a.constraints = 1 .. Len(a.constraints)
      /\ DOMAIN h.constraints = 1 .. Len(h.constraints)
      /\ Len(group.constraints) \in Nat /\ Len(a.constraints) \in Nat
      /\ Len(h.constraints) \in Nat
      /\ Ids(group) = 1 .. MaxId(group) /\ Ids(a) = 1 .. MaxId(a)
  BY <1>3, <1>5 DEF TableInvariant, WellShaped, Group, Ids, MaxId
<1>7. Grows(group, h)
  BY <1>2, <1>3, <1>5, <1>6 DEF Grows
<1>8. Requires(h, current_arena_id, MaxId(group) + 1)
  BY <1>3, <1>5, <1>6 DEF Requires, Grows
<1>9. current_arena_id' \in ScopeIds(group') /\ current_stack_id' \in ScopeIds(group')
  BY <1>1, <1>2, <1>3, <1>5 DEF ScopeIds, Ctx
<1>10. MaxId(a) + 1 = MaxId(group) + 2
  BY <1>2, <1>3
<1> QED
  BY <1>1, <1>5, <1>7, <1>8, <1>9, <1>10, EnteringKeepsInvariant

LEMMA LeaveScopeInvariant ==
    ASSUME TableInvariant, LeaveScope
    PROVE  TableInvariant'
<1> DEFINE n == Len(guards)
<1>1. /\ stage = "body" /\ guards # <<>>
      /\ current_arena_id' = guards[n].arena
      /\ current_stack_id' = guards[n].stack
      /\ guards' = SubSeq(guards, 1, n - 1)
      /\ UNCHANGED <<stage, group, public_inferred_id, blocks, checks>>
  BY DEF LeaveScope
<1>2. /\ guards \in Seq(Guard) /\ n \in Nat /\ n > 0 /\ DOMAIN guards = 1 .. n
      /\ \A i \in 1 .. n : guards[i] \in Guard
  BY <1>1 DEF TableInvariant, TypedTable
<1>3. /\ guards' \in Seq(Guard)
      /\ Len(guards') = n - 1
      /\ DOMAIN guards' = 1 .. n - 1
      /\ \A i \in 1 .. n - 1 : guards'[i] = guards[i]
  <2>1. /\ SubSeq(guards, 1, n - 1) \in Seq(Guard)
        /\ Len(SubSeq(guards, 1, n - 1)) = IF 1 <= n - 1 THEN n - 1 - 1 + 1 ELSE 0
        /\ \A i \in 1 .. n - 1 - 1 + 1 : SubSeq(guards, 1, n - 1)[i] = guards[1 + i - 1]
    BY <1>2, SubSeqProperties
  <2> QED
    BY <1>1, <1>2, <2>1
<1>4. n \in Nat /\ n > 0 /\ n = Len(guards)
  BY <1>2
<1>5. Len(guards') = n - 1
  BY <1>3
<1> HIDE DEF n
<1>6. \A i \in 1 .. n :
        guards[i].arena \in ScopeIds(group) /\ guards[i].stack \in ScopeIds(group)
  BY <1>1, <1>2 DEF TableInvariant, GuardsRefer
<1>7. current_arena_id' \in ScopeIds(group') /\ current_stack_id' \in ScopeIds(group')
  BY <1>1, <1>2, <1>6
<1>8. ScopeIds(group) \subseteq Ids(group)
  BY DEF TableInvariant, WellShaped, Group, ScopeIds, Ids, MaxId, Ctx
<1>9. TypedTable'
  BY <1>1, <1>3, <1>7, <1>8 DEF TableInvariant, TypedTable
<1>10. GuardsRefer'
  <2>1. \A i \in 1 .. n - 1 : i \in 1 .. n
    BY <1>4
  <2>2. \A i \in 1 .. n - 1 :
            /\ guards'[i].arena \in ScopeIds(group')
            /\ guards'[i].stack \in ScopeIds(group')
    BY <1>1, <1>3, <1>6, <2>1
  <2> QED
    BY <1>3, <2>2 DEF GuardsRefer
<1>11. \A i \in 1 .. n : Scopes'[i] = Scopes[i]
  <2>1. /\ Scopes = Append(guards, Here) /\ Scopes' = Append(guards', Here')
        /\ Len(guards) = n
    BY <1>4 DEF Scopes
  <2>2. \A i \in 1 .. n : Scopes[i] = guards[i]
    BY <1>2, <1>4, <2>1
  <2>3. /\ \A i \in 1 .. n - 1 : Scopes'[i] = guards'[i]
        /\ Scopes'[n - 1 + 1] = Here'
    BY <1>3, <1>4, <2>1
  <2>4. guards[n] \in Guard /\ Here' = guards[n]
    BY <1>1, <1>2, <1>4 DEF Guard, Here
  <2>5. n - 1 + 1 = n
    BY <1>4
  <2>6. \A i \in 1 .. n : i = n \/ i \in 1 .. n - 1
    BY <1>4
  <2> QED
    BY <1>3, <2>2, <2>3, <2>4, <2>5, <2>6
<1>12. \A i \in 1 .. n - 1 : i \in 1 .. n /\ i + 1 \in 1 .. n
  BY <1>4
<1>13. ScopesNest'
  <2>1. Scopes'[1] = OwnBlock'
    BY <1>1, <1>4, <1>11 DEF TableInvariant, ScopesNest, OwnBlock
  <2>2. ASSUME NEW i \in 1 .. n - 1
        PROVE  StandsIn(group', Scopes'[i + 1], Scopes'[i])
    <3>1. i \in 1 .. n /\ i + 1 \in 1 .. n
      BY <1>12
    <3>2. StandsIn(group, Scopes[i + 1], Scopes[i])
      BY <1>1, <1>2, <3>1 DEF TableInvariant, ScopesNest
    <3> QED
      BY <1>1, <1>11, <3>1, <3>2
  <2>3. \A b \in blocks' : b = OwnBlock' \/ \E outer \in blocks' : StandsIn(group', b, outer)
    BY <1>1 DEF TableInvariant, ScopesNest, OwnBlock, StandsIn
  <2> QED
    BY <1>1, <1>3, <2>1, <2>2, <2>3 DEF ScopesNest
<1>14. ScopesAreBlocks'
  <2>1. \A i \in 1 .. n : i \in 1 .. n + 1
    BY <1>4
  <2>2. 1 .. Len(guards') + 1 = 1 .. n
    BY <1>4, <1>5
  <2> QED
    BY <1>1, <1>4, <1>11, <2>1, <2>2 DEF ScopesAreBlocks, TableInvariant
<1> QED
  BY <1>1, <1>7, <1>9, <1>10, <1>13, <1>14 DEF TableInvariant

LEMMA BeginCheckInvariant ==
    ASSUME TableInvariant, BeginCheck
    PROVE  TableInvariant'
<1>1. /\ stage = "body" /\ stage' = "check"
      /\ current_arena_id' = Ctx /\ current_stack_id' = StackRoot(group)
      /\ public_inferred_id' = NoLifetime
      /\ UNCHANGED <<group, guards, blocks, checks>>
  BY DEF BeginCheck
<1>2. StackRoot(group) = 6
  BY StackRootIsSixth DEF TableInvariant, Ctx
<1>3. /\ MaxId(group) \in Nat /\ MaxId(group) > 5
      /\ Ids(group) = 1 .. MaxId(group)
  BY DEF TableInvariant, WellShaped, Group, MaxId, Ids, Ctx
<1>4. /\ current_arena_id' \in ScopeIds(group') /\ current_stack_id' \in ScopeIds(group')
      /\ current_arena_id' \in Ids(group') /\ current_stack_id' \in Ids(group')
  BY <1>1, <1>2, <1>3 DEF ScopeIds, Ctx
<1>5. TypedTable'
  BY <1>1, <1>4 DEF TableInvariant, TypedTable, Stages
<1>6. GuardsRefer'
  BY <1>1 DEF TableInvariant, GuardsRefer
<1>7. ScopesNest'
  BY <1>1 DEF TableInvariant, ScopesNest, Here, OwnBlock, StandsIn
<1>8. ScopesAreBlocks'
  BY <1>1 DEF ScopesAreBlocks
<1> QED
  BY <1>1, <1>4, <1>5, <1>6, <1>7, <1>8 DEF TableInvariant

LEMMA NextInvariant == TableInvariant /\ [Next]_vars => TableInvariant'
<1> SUFFICES ASSUME TableInvariant, [Next]_vars PROVE TableInvariant'
  OBVIOUS
<1>1. CASE \E name \in Names : Lookup(name)
  BY <1>1, LookupInvariant
<1>2. CASE InferLifetime
  BY <1>2, InferLifetimeInvariant
<1>3. CASE EnterBody
  BY <1>3, EnterBodyInvariant
<1>4. CASE EnterBlock
  BY <1>4, EnterBlockInvariant
<1>5. CASE EnterArena
  BY <1>5, EnterArenaInvariant
<1>6. CASE LeaveScope
  BY <1>6, LeaveScopeInvariant
<1>7. CASE BeginCheck
  BY <1>7, BeginCheckInvariant
<1>8. CASE \E signature \in Signatures : Call(signature)
  BY <1>8, CallInvariant
<1>9. CASE \E levels \in LevelSeqs, at \in Locations : Assign(levels, at)
  BY <1>9, AssignInvariant
<1>10. CASE UNCHANGED vars
  BY <1>10
  DEF vars, table, TableInvariant, TypedTable, GuardsRefer, ScopesNest,
      ScopesAreBlocks, Scopes, Here, OwnBlock, StandsIn
<1> QED
  BY <1>1, <1>2, <1>3, <1>4, <1>5, <1>6, <1>7, <1>8, <1>9, <1>10 DEF Next

-----------------------------------------------------------------------------

\* The invariant holds in every behaviour of the table.
THEOREM TableIsInvariant == Spec => []TableInvariant
BY InitInvariant, NextInvariant, PTL DEF Spec

\* Every variable keeps to its type, in particular what `*stack` and `*arena`
\* stand for are always lifetimes of the group.
THEOREM TableTypeCorrect == Spec => []TypeOK
<1>1. TableInvariant => TypeOK
  BY DEF TableInvariant, TypedTable, WellConstrained, TypeOK, ConstraintsRefer
<1> QED
  BY <1>1, TableIsInvariant, PTL

\* add_constraint never indexes past the lifetimes of its group.
THEOREM TableConstraintsRefer == Spec => []ConstraintsRefer
<1>1. TableInvariant => ConstraintsRefer
  BY DEF TableInvariant, WellConstrained, ConstraintsRefer
<1> QED
  BY <1>1, TableIsInvariant, PTL

\* The constraints the compiler adds by itself are never in conflict.
THEOREM TableFixedConstraintsDescend == Spec => []FixedConstraintsDescend
<1>1. TableInvariant => FixedConstraintsDescend
  BY DEF TableInvariant, WellConstrained, Placed, FixedConstraintsDescend
<1> QED
  BY <1>1, TableIsInvariant, PTL

\* While a body is resolved `*stack` and `*arena` mean the innermost open
\* scopes, which are required to outlive each other from the outside inwards.
\* In a cast they mean the function's own, in which every block stands.
THEOREM TableScopesNest == Spec => []ScopesNest
<1>1. TableInvariant => ScopesNest
  BY DEF TableInvariant
<1> QED
  BY <1>1, TableIsInvariant, PTL

-----------------------------------------------------------------------------
(* The solver. *)

(* A group whose constraints refer to its lifetimes.                       *)
Referring(g) == g \in Group /\ \A i \in DOMAIN g.constraints : Refers(g, g.constraints[i])

Solvers(g) ==
    [tarjan : [Ids(g) -> Nat], parent : [Ids(g) -> Ids(g) \cup {None}],
     lowlink : [Ids(g) -> Nat], order : [Ids(g) -> Nat],
     on_stack : SUBSET Ids(g), indexed : Nat, sorted_id : Nat,
     tarjan_stack : Seq(Ids(g)), outlives_stack : Seq(Ids(g))]

(* The parents lead to the root of a class, and never in a circle.         *)
Rooted(g, s, root, rank) ==
    \A id \in Ids(g) :
        IF s.parent[id] = None THEN root[id] = id
        ELSE /\ root[id] = root[s.parent[id]]
             /\ rank[s.parent[id]] < rank[id]
             /\ s.parent[root[id]] = None

Forest(g, s) ==
    \E root \in [Ids(g) -> Ids(g)], rank \in [Ids(g) -> Nat] : Rooted(g, s, root, rank)

Solving(g) == {s \in Solvers(g) : Forest(g, s)}

(* The constants for the functions that call themselves are the functions. *)
SolverUnfolds ==
    \A g \in Group : Referring(g) =>
        \A s \in Solving(g), id \in Ids(g) :
            /\ InnerUnion(g, s, id) = UnionEqualSuccessors(g, s, id)
            /\ InnerProcess(g, s, id) = ProcessNode(g, s, id)

-----------------------------------------------------------------------------
(* Numbers: a smallest counterexample takes the place of induction. *)

LEMMA LeastNumber ==
    ASSUME NEW T, T \subseteq Nat, T # {}
    PROVE  \E n \in T : \A m \in T : n <= m
  <1> DEFINE R == OpToRel(<, Nat)
  <1>1. IsWellFoundedOn(R, Nat)
    BY NatLessThanWellFounded
  <1>2. \E n \in T : \A m \in T : ~(<<m, n>> \in R)
    BY <1>1, WFMin
  <1>3. \A m, n \in Nat : <<m, n>> \in R <=> m < n
    BY SMT DEF OpToRel
  <1>4. PICK n \in T : \A m \in T : ~(<<m, n>> \in R)
    BY <1>2
  <1>5. ASSUME NEW m \in T
        PROVE  n <= m
    <2>1. m \in Nat /\ n \in Nat
      OBVIOUS
    <2>2. ~(<<m, n>> \in R)
      BY <1>4
    <2>3. ~(m < n)
      BY <1>3, <2>1, <2>2
    <2>4. QED
      BY <2>1, <2>3
  <1>6. QED
    BY <1>5

LEMMA StepByStep ==
    ASSUME NEW T, 0 \in T, \A n \in Nat : n \in T => n + 1 \in T
    PROVE  \A n \in Nat : n \in T
  <1> DEFINE B == {n \in Nat : n \notin T}
  <1>1. ASSUME B # {}
        PROVE  FALSE
    <2>1. PICK n \in B : \A m \in B : n <= m
      BY <1>1, LeastNumber
    <2>2. n \in Nat /\ n # 0
      OBVIOUS
    <2>3. n - 1 \in Nat /\ ~(n <= n - 1) /\ (n - 1) + 1 = n
      BY <2>2
    <2>4. n - 1 \in T
      BY <2>1, <2>3
    <2>5. QED
      BY <2>3, <2>4
  <1>2. QED
    BY <1>1

-----------------------------------------------------------------------------
(* Lifetimes and constraints. *)

LEMMA IdsAreNumbers ==
    ASSUME NEW g, Referring(g)
    PROVE  /\ Ids(g) = 1 .. MaxId(g)
           /\ MaxId(g) \in Nat
           /\ Ids(g) \subseteq Nat
           /\ None \notin Ids(g)
           /\ IsFiniteSet(Ids(g))
           /\ Len(g.constraints) \in Nat
           /\ DOMAIN g.constraints = 1 .. Len(g.constraints)
           /\ \A i \in DOMAIN g.constraints : g.constraints[i] \in Constraint
  <1>1. g.lifetimes \in Seq(Kinds \cup Names) /\ g.constraints \in Seq(Constraint)
    BY DEF Referring, Group
  <1>2. Ids(g) = 1 .. MaxId(g) /\ MaxId(g) \in Nat
    BY <1>1 DEF Ids, MaxId
  <1>3. IsFiniteSet(1 .. MaxId(g))
    BY <1>2, FS_Interval
  <1>4. Ids(g) \subseteq Nat /\ None \notin Ids(g)
    BY <1>2 DEF None
  <1>5. /\ Len(g.constraints) \in Nat
        /\ DOMAIN g.constraints = 1 .. Len(g.constraints)
        /\ \A i \in DOMAIN g.constraints : g.constraints[i] \in Constraint
    BY <1>1
  <1>6. QED
    BY <1>2, <1>3, <1>4, <1>5

LEMMA EndsAreLifetimes ==
    ASSUME NEW g, Referring(g), NEW i \in DOMAIN g.constraints
    PROVE  LET c == g.constraints[i]
           IN  /\ c.left \in Ids(g) /\ c.right \in Ids(g)
               /\ Greater(c) \in Ids(g) /\ Lesser(c) \in Ids(g)
               /\ \A id \in Ids(g) : Other(c, id) \in Ids(g)
  BY DEF Referring, Refers, Greater, Lesser, Other

-----------------------------------------------------------------------------
(* The classes: UnionFind and Unify. *)

LEMMA FindsRoot ==
    ASSUME NEW g, Referring(g), NEW s \in Solvers(g),
           NEW root \in [Ids(g) -> Ids(g)], NEW rank \in [Ids(g) -> Nat],
           Rooted(g, s, root, rank)
    PROVE  \A id \in Ids(g) : UnionFind(s, id) = root[id]
  <1> DEFINE Above(f, id) == IF s.parent[id] = None THEN id ELSE f[s.parent[id]]
             found == CHOOSE f : f = [id \in DOMAIN s.parent |-> Above(f, id)]
             B == {id \in Ids(g) : found[id] # root[id]}
             ranks == {rank[id] : id \in B}
  <1>1. \A id : UnionFind(s, id) = found[id]
    BY DEF UnionFind
  <1>2. DOMAIN s.parent = Ids(g) /\ \A id \in Ids(g) : s.parent[id] \in Ids(g) \cup {None}
    BY DEF Solvers
  <1>3. root = [id \in DOMAIN s.parent |-> Above(root, id)]
    <2>1. \A id \in Ids(g) : root[id] = Above(root, id)
      BY DEF Rooted
    <2>2. root = [id \in Ids(g) |-> root[id]]
      OBVIOUS
    <2> HIDE DEF Above
    <2>3. QED
      BY <1>2, <2>1, <2>2
  <1>4. found = [id \in DOMAIN s.parent |-> Above(found, id)]
    <2> HIDE DEF Above
    <2>1. \E f : f = [id \in DOMAIN s.parent |-> Above(f, id)]
      BY <1>3
    <2>2. QED
      BY <2>1
  <1> HIDE DEF found
  <1>5. ASSUME B # {}
        PROVE  FALSE
    <2>1. ranks \subseteq Nat /\ ranks # {}
      BY <1>5
    <2>2. PICK n \in ranks : \A m \in ranks : n <= m
      BY <2>1, LeastNumber
    <2>3. PICK id \in B : n = rank[id]
      BY <2>2
    <2>4. \A other \in B : rank[id] <= rank[other]
      BY <2>2, <2>3
    <2>5. found[id] = Above(found, id)
      BY <1>2, <1>4
    <2>6. CASE s.parent[id] = None
      BY <2>5, <2>6 DEF Rooted
    <2>7. CASE s.parent[id] # None
      <3>1. s.parent[id] \in Ids(g)
        BY <1>2, <2>7
      <3>2. root[id] = root[s.parent[id]] /\ rank[s.parent[id]] < rank[id]
        BY <2>7 DEF Rooted
      <3>3. s.parent[id] \notin B
        BY <2>4, <3>1, <3>2
      <3>4. found[id] = root[id]
        BY <2>5, <2>7, <3>1, <3>2, <3>3
      <3>5. QED
        BY <3>4
    <2>8. QED
      BY <2>6, <2>7
  <1>6. QED
    BY <1>1, <1>5

LEMMA RootsAreLifetimes ==
    ASSUME NEW g, Referring(g), NEW s \in Solving(g), NEW id \in Ids(g)
    PROVE  UnionFind(s, id) \in Ids(g)
  <1>1. PICK root \in [Ids(g) -> Ids(g)], rank \in [Ids(g) -> Nat] : Rooted(g, s, root, rank)
    BY DEF Solving, Forest
  <1>2. UnionFind(s, id) = root[id]
    BY <1>1, FindsRoot DEF Solving
  <1>3. QED
    BY <1>2

\* UnionFind only looks at the parents.
LEMMA SameParents ==
    ASSUME NEW g, NEW s \in Solving(g), NEW t \in Solvers(g), t.parent = s.parent
    PROVE  t \in Solving(g) /\ \A id : UnionFind(t, id) = UnionFind(s, id)
  <1>1. Forest(g, t)
    BY DEF Solving, Forest, Rooted
  <1>2. \A id : UnionFind(t, id) = UnionFind(s, id)
    BY DEF UnionFind
  <1>3. QED
    BY <1>1, <1>2 DEF Solving

LEMMA UnifyJoins ==
    ASSUME NEW g, Referring(g), NEW s \in Solving(g),
           NEW left \in Ids(g), NEW right \in Ids(g)
    PROVE  LET t == Unify(s, left, right)
           IN  /\ t \in Solving(g)
               /\ \A x, y \in Ids(g) :
                     UnionFind(s, x) = UnionFind(s, y) => UnionFind(t, x) = UnionFind(t, y)
               /\ UnionFind(t, left) = UnionFind(t, right)
               /\ \A x \in Ids(g) :
                     UnionFind(t, x) = IF UnionFind(s, x) = UnionFind(s, right)
                                       THEN UnionFind(s, left) ELSE UnionFind(s, x)
               /\ t = [s EXCEPT !.parent = t.parent]
  <1> DEFINE t == Unify(s, left, right)
             joined == UnionFind(s, right)
  <1>1. PICK root \in [Ids(g) -> Ids(g)], rank \in [Ids(g) -> Nat] : Rooted(g, s, root, rank)
    BY DEF Solving, Forest
  <1>2. s \in Solvers(g) /\ \A id \in Ids(g) : UnionFind(s, id) = root[id]
    BY <1>1, FindsRoot DEF Solving
  <1>3. CASE UnionFind(s, left) = joined
    <2>1. t = s
      BY <1>3 DEF Unify
    <2>2. t = [s EXCEPT !.parent = t.parent]
      BY <1>2, <2>1 DEF Solvers
    <2>3. QED
      BY <1>3, <2>1, <2>2
  <1>4. CASE UnionFind(s, left) # joined
    <2> DEFINE newRoot == [id \in Ids(g) |-> IF root[id] = joined THEN root[left] ELSE root[id]]
               newRank == [id \in Ids(g) |->
                              IF root[id] = joined THEN rank[id] + rank[left] + 1 ELSE rank[id]]
    <2>1. t = [s EXCEPT !.parent[joined] = left]
      BY <1>4 DEF Unify
    <2>2. joined \in Ids(g) /\ joined = root[right] /\ root[left] # joined
      BY <1>2, <1>4
    <2>3. t \in Solvers(g)
      <3> DEFINE parent == [s.parent EXCEPT ![joined] = left]
      <3>1. parent \in [Ids(g) -> Ids(g) \cup {None}]
        BY <1>2, <2>2 DEF Solvers
      <3>2. t = [s EXCEPT !.parent = parent]
        BY <2>1
      <3> HIDE DEF parent, t
      <3>3. QED
        BY <1>2, <3>1, <3>2 DEF Solvers
    <2>4. /\ t.parent[joined] = left
          /\ \A id \in Ids(g) : id # joined => t.parent[id] = s.parent[id]
          /\ t = [s EXCEPT !.parent = t.parent]
      BY <1>2, <2>1, <2>2 DEF Solvers
    <2>5. \A id \in Ids(g) : s.parent[id] \in Ids(g) \cup {None}
      BY <1>2 DEF Solvers
    <2>6. newRoot \in [Ids(g) -> Ids(g)] /\ newRank \in [Ids(g) -> Nat]
      OBVIOUS
    <2>7. /\ left # None /\ None \notin Ids(g)
          /\ \A id \in Ids(g) : s.parent[root[id]] = None /\ root[root[id]] = root[id]
      <3>1. left # None /\ None \notin Ids(g)
        BY IdsAreNumbers
      <3>2. ASSUME NEW id \in Ids(g)
            PROVE  s.parent[root[id]] = None
        BY <1>1 DEF Rooted
      <3>3. ASSUME NEW id \in Ids(g)
            PROVE  root[root[id]] = root[id]
        <4>1. root[id] \in Ids(g)
          OBVIOUS
        <4>2. QED
          BY <1>1, <3>2, <4>1 DEF Rooted
      <3>4. QED
        BY <3>1, <3>2, <3>3
    <2>8. Rooted(g, t, newRoot, newRank)
      <3>1. SUFFICES ASSUME NEW id \in Ids(g)
                     PROVE  IF t.parent[id] = None THEN newRoot[id] = id
                            ELSE /\ newRoot[id] = newRoot[t.parent[id]]
                                 /\ newRank[t.parent[id]] < newRank[id]
                                 /\ t.parent[newRoot[id]] = None
        BY DEF Rooted
      <3>2. t.parent[newRoot[id]] = None
        BY <2>2, <2>4, <2>7
      <3>3. CASE id = joined
        <4>1. t.parent[id] = left /\ root[id] = joined
          BY <2>2, <2>4, <2>7, <3>3
        <4>2. newRoot[id] = root[left] /\ newRoot[left] = root[left]
          BY <2>2, <4>1
        <4>3. newRank[left] = rank[left] /\ newRank[id] = rank[id] + rank[left] + 1
          BY <2>2, <4>1
        <4>4. rank[left] \in Nat /\ rank[id] \in Nat
          OBVIOUS
        <4>5. QED
          BY <2>7, <3>2, <4>1, <4>2, <4>3, <4>4
      <3>4. CASE id # joined /\ s.parent[id] = None
        <4>1. root[id] = id /\ t.parent[id] = None
          BY <1>1, <2>4, <3>4 DEF Rooted
        <4>2. QED
          BY <3>4, <4>1
      <3>5. CASE id # joined /\ s.parent[id] # None
        <4> DEFINE p == s.parent[id]
        <4>1. p \in Ids(g) /\ t.parent[id] = p
          BY <2>4, <2>5, <3>5
        <4>2. root[id] = root[p] /\ rank[p] < rank[id]
          BY <1>1, <3>5 DEF Rooted
        <4>3. rank[p] \in Nat /\ rank[id] \in Nat /\ rank[left] \in Nat
          BY <4>1
        <4>4. newRoot[id] = newRoot[p] /\ newRank[p] < newRank[id]
          BY <4>1, <4>2, <4>3
        <4>5. QED
          BY <3>2, <3>5, <4>1, <4>4
      <3>6. QED
        BY <3>3, <3>4, <3>5
    <2>9. \A id \in Ids(g) : UnionFind(t, id) = newRoot[id]
      BY <2>3, <2>6, <2>8, FindsRoot
    <2>10. t \in Solving(g)
      BY <2>3, <2>6, <2>8 DEF Solving, Forest
    <2>11. QED
      BY <1>2, <2>2, <2>4, <2>9, <2>10
  <1>5. QED
    BY <1>3, <1>4

-----------------------------------------------------------------------------
(* What the solver keeps as it goes on. *)

Left(g, s) == Cardinality({id \in Ids(g) : ~IsIndexed(s, id)})

\* Nothing that was indexed or is in one class is not any more, and what lies
\* on Tarjan's stack stays there.
Later(g, s, t) ==
    /\ t \in Solving(g)
    /\ \A id \in Ids(g) : IsIndexed(s, id) => IsIndexed(t, id)
    /\ \A x, y \in Ids(g) :
          UnionFind(s, x) = UnionFind(s, y) => UnionFind(t, x) = UnionFind(t, y)
    /\ Len(s.tarjan_stack) <= Len(t.tarjan_stack)
    /\ \A i \in 1 .. Len(s.tarjan_stack) : t.tarjan_stack[i] = s.tarjan_stack[i]

\* The classes, what is indexed and Tarjan's stack are the same.
Alike(g, s, t) ==
    /\ t \in Solvers(g)
    /\ t.parent = s.parent
    /\ t.tarjan = s.tarjan
    /\ t.tarjan_stack = s.tarjan_stack

LEMMA StackHasLength ==
    ASSUME NEW g, NEW s \in Solvers(g)
    PROVE  Len(s.tarjan_stack) \in Nat
  <1>1. s.tarjan_stack \in Seq(Ids(g))
    BY DEF Solvers
  <1>2. QED
    BY <1>1

LEMMA LaterThanItself ==
    ASSUME NEW g, NEW s \in Solving(g)
    PROVE  Later(g, s, s)
  <1>1. Len(s.tarjan_stack) \in Nat
    BY StackHasLength DEF Solving
  <1>2. QED
    BY <1>1 DEF Later

LEMMA LaterThanLater ==
    ASSUME NEW g, NEW s \in Solving(g), NEW t, NEW u, Later(g, s, t), Later(g, t, u)
    PROVE  Later(g, s, u)
  <1>1. /\ s \in Solvers(g) /\ t \in Solvers(g) /\ u \in Solvers(g)
    BY DEF Later, Solving
  <1>2. /\ Len(s.tarjan_stack) \in Nat /\ Len(t.tarjan_stack) \in Nat
        /\ Len(u.tarjan_stack) \in Nat
    BY <1>1, StackHasLength
  <1>3. /\ Len(s.tarjan_stack) <= Len(u.tarjan_stack)
        /\ \A i \in 1 .. Len(s.tarjan_stack) : u.tarjan_stack[i] = s.tarjan_stack[i]
    BY <1>2 DEF Later
  <1>4. QED
    BY <1>3 DEF Later

LEMMA AlikeIsLater ==
    ASSUME NEW g, NEW s \in Solving(g), NEW t, Alike(g, s, t)
    PROVE  /\ t \in Solving(g)
           /\ Later(g, s, t)
           /\ \A id : IsIndexed(t, id) <=> IsIndexed(s, id)
           /\ \A id : UnionFind(t, id) = UnionFind(s, id)
  <1>1. t \in Solving(g) /\ \A id : UnionFind(t, id) = UnionFind(s, id)
    BY SameParents DEF Alike
  <1>2. \A id : IsIndexed(t, id) <=> IsIndexed(s, id)
    BY DEF Alike, IsIndexed
  <1>3. Len(s.tarjan_stack) \in Nat
    BY StackHasLength DEF Solving
  <1>4. QED
    BY <1>1, <1>2, <1>3 DEF Alike, Later

LEMMA AlikeAsAlike ==
    ASSUME NEW g, NEW s, NEW t, NEW u, Alike(g, s, t), Alike(g, t, u)
    PROVE  Alike(g, s, u)
  BY DEF Alike

LEMMA LowerIsAlike ==
    ASSUME NEW g, NEW s \in Solvers(g), NEW id \in Ids(g), NEW bound \in Nat
    PROVE  Alike(g, s, Lower(s, id, bound))
  <1> DEFINE lowlink == [s.lowlink EXCEPT ![id] = Least(@, bound)]
  <1>1. lowlink \in [Ids(g) -> Nat]
    BY DEF Solvers, Least
  <1>2. Lower(s, id, bound) = [s EXCEPT !.lowlink = lowlink]
    BY DEF Lower
  <1> HIDE DEF lowlink
  <1>3. QED
    BY <1>1, <1>2 DEF Solvers, Alike

LEMMA GetNodeIndexes ==
    ASSUME NEW g, NEW s \in Solving(g), NEW id \in Ids(g)
    PROVE  LET t == GetNode(s, id)
           IN  /\ t \in Solving(g)
               /\ Later(g, s, t)
               /\ t.tarjan_stack = s.tarjan_stack
               /\ \A x \in Ids(g) : IsIndexed(t, x) <=> IsIndexed(s, x) \/ x = id
               /\ \A x \in Ids(g) : UnionFind(t, x) = UnionFind(s, x)
  <1> DEFINE t == GetNode(s, id)
  <1>1. CASE IsIndexed(s, id)
    <2>1. t = s
      BY <1>1 DEF GetNode
    <2>2. QED
      BY <1>1, <2>1, LaterThanItself
  <1>2. CASE ~IsIndexed(s, id)
    <2> DEFINE tarjan == [s.tarjan EXCEPT ![id] = s.indexed + 1]
    <2>1. s \in Solvers(g) /\ s.indexed \in Nat /\ s.tarjan \in [Ids(g) -> Nat]
      BY DEF Solving, Solvers
    <2>2. /\ tarjan \in [Ids(g) -> Nat]
          /\ \A x \in Ids(g) : tarjan[x] # None <=> s.tarjan[x] # None \/ x = id
      BY <2>1 DEF None
    <2>3. t = [s EXCEPT !.tarjan = tarjan, !.indexed = s.indexed + 1]
      BY <1>2 DEF GetNode
    <2> DEFINE indexed == s.indexed + 1
    <2>4. indexed \in Nat
      BY <2>1
    <2>5. t = [s EXCEPT !.tarjan = tarjan, !.indexed = indexed]
      BY <2>3
    <2> HIDE DEF tarjan, indexed, t
    <2>6. t \in Solvers(g) /\ t.parent = s.parent /\ t.tarjan = tarjan
          /\ t.tarjan_stack = s.tarjan_stack
      BY <2>1, <2>2, <2>4, <2>5 DEF Solvers
    <2>7. t \in Solving(g) /\ \A x : UnionFind(t, x) = UnionFind(s, x)
      BY <2>6, SameParents
    <2>8. \A x \in Ids(g) : IsIndexed(t, x) <=> IsIndexed(s, x) \/ x = id
      BY <2>2, <2>6 DEF IsIndexed
    <2>9. Len(s.tarjan_stack) \in Nat
      BY <2>1, StackHasLength
    <2>10. QED
      BY <2>6, <2>7, <2>8, <2>9 DEF Later, t
  <1>3. QED
    BY <1>1, <1>2

LEMMA UnifyIsLater ==
    ASSUME NEW g, Referring(g), NEW s \in Solving(g),
           NEW left \in Ids(g), NEW right \in Ids(g)
    PROVE  LET t == Unify(s, left, right)
           IN  /\ t \in Solving(g)
               /\ Later(g, s, t)
               /\ t.tarjan_stack = s.tarjan_stack
               /\ \A x : IsIndexed(t, x) <=> IsIndexed(s, x)
               /\ UnionFind(t, left) = UnionFind(t, right)
  <1> DEFINE t == Unify(s, left, right)
  <1>1. /\ t \in Solving(g)
        /\ \A x, y \in Ids(g) :
              UnionFind(s, x) = UnionFind(s, y) => UnionFind(t, x) = UnionFind(t, y)
        /\ UnionFind(t, left) = UnionFind(t, right)
        /\ t = [s EXCEPT !.parent = t.parent]
    BY UnifyJoins
  <1> HIDE DEF t
  <1>2. t.tarjan = s.tarjan /\ t.tarjan_stack = s.tarjan_stack
    BY <1>1 DEF Solving, Solvers
  <1>3. \A x : IsIndexed(t, x) <=> IsIndexed(s, x)
    BY <1>2 DEF IsIndexed
  <1>4. Len(s.tarjan_stack) \in Nat
    BY StackHasLength DEF Solving
  <1>5. Later(g, s, t)
    BY <1>1, <1>2, <1>3, <1>4 DEF Later
  <1>6. QED
    BY <1>1, <1>2, <1>3, <1>5 DEF t

\* There is less and less left to index.
LEMMA LeftDescends ==
    ASSUME NEW g, Referring(g), NEW s \in Solving(g), NEW t, Later(g, s, t)
    PROVE  /\ Left(g, s) \in Nat /\ Left(g, t) \in Nat /\ Left(g, t) <= Left(g, s)
           /\ (\E id \in Ids(g) : IsIndexed(t, id) /\ ~IsIndexed(s, id))
                 => Left(g, t) < Left(g, s)
  <1> DEFINE S == {id \in Ids(g) : ~IsIndexed(s, id)}
             T == {id \in Ids(g) : ~IsIndexed(t, id)}
  <1>1. IsFiniteSet(Ids(g)) /\ S \subseteq Ids(g) /\ T \subseteq Ids(g)
    BY IdsAreNumbers
  <1>2. IsFiniteSet(S) /\ IsFiniteSet(T)
    BY <1>1, FS_Subset
  <1>3. T \subseteq S
    BY DEF Later
  <1>4. Cardinality(S) \in Nat /\ Cardinality(T) \in Nat
    BY <1>2, FS_CardinalityType
  <1>5. Cardinality(T) <= Cardinality(S) /\ (Cardinality(T) = Cardinality(S) => S = T)
    BY <1>2, <1>3, FS_Subset
  <1>6. (\E id \in Ids(g) : IsIndexed(t, id) /\ ~IsIndexed(s, id)) => S # T
    OBVIOUS
  <1>7. Left(g, s) = Cardinality(S) /\ Left(g, t) = Cardinality(T)
    BY DEF Left
  <1> HIDE DEF S, T
  <1>8. QED
    BY <1>4, <1>5, <1>6, <1>7

-----------------------------------------------------------------------------
(* UnionEqualSuccessors: what it indexes joins the class it starts from,   *)
(* with everything that must match it.                                     *)

Matched(g, s, id) ==
    \A i \in DOMAIN g.constraints :
        LET c == g.constraints[i]
        IN  Equals(c, id) => IsIndexed(s, Other(c, id))

\* What t indexes and s did not is in the class of id, and whatever must match
\* it is indexed.
Gathered(g, s, t, id) ==
    \A x \in Ids(g) : IsIndexed(t, x) /\ ~IsIndexed(s, x) =>
        UnionFind(t, x) = UnionFind(t, id) /\ Matched(g, t, x)

United(g, s, t, id) ==
    /\ Later(g, s, t)
    /\ t.tarjan_stack = s.tarjan_stack
    /\ Gathered(g, s, t, id)
    /\ Matched(g, t, id)

Absorbed(g, s, id, n) ==
    {t \in Solving(g) :
        /\ Later(g, s, t)
        /\ t.tarjan_stack = s.tarjan_stack
        /\ Gathered(g, s, t, id)
        /\ \A i \in 1 .. n :
              LET c == g.constraints[i]
              IN  Equals(c, id) => IsIndexed(t, Other(c, id))}

LEMMA MatchedLater ==
    ASSUME NEW g, Referring(g), NEW s, NEW t, Later(g, s, t), NEW id \in Ids(g),
           Matched(g, s, id)
    PROVE  Matched(g, t, id)
  <1>1. SUFFICES ASSUME NEW i \in DOMAIN g.constraints, Equals(g.constraints[i], id)
                 PROVE  IsIndexed(t, Other(g.constraints[i], id))
    BY DEF Matched
  <1>2. IsIndexed(s, Other(g.constraints[i], id))
    BY <1>1 DEF Matched
  <1>3. Other(g.constraints[i], id) \in Ids(g)
    BY EndsAreLifetimes
  <1>4. QED
    BY <1>2, <1>3 DEF Later

\* What is united from a later state with what was gathered before.
LEMMA GatheredOn ==
    ASSUME NEW g, Referring(g), NEW s \in Solving(g), NEW t \in Solving(g),
           NEW u, NEW v, NEW id \in Ids(g), NEW equal \in Ids(g),
           Gathered(g, s, t, id),
           Later(g, t, u),
           \A x \in Ids(g) : IsIndexed(u, x) <=> IsIndexed(t, x) \/ x = equal,
           UnionFind(u, id) = UnionFind(u, equal),
           United(g, u, v, equal)
    PROVE  Gathered(g, s, v, id)
  <1>1. u \in Solving(g) /\ Later(g, u, v) /\ v \in Solving(g)
    BY DEF Later, United
  <1>2. Later(g, t, v)
    BY <1>1, LaterThanLater
  <1>3. UnionFind(v, id) = UnionFind(v, equal)
    BY <1>1 DEF Later
  <1>4. SUFFICES ASSUME NEW x \in Ids(g), IsIndexed(v, x), ~IsIndexed(s, x)
                 PROVE  UnionFind(v, x) = UnionFind(v, id) /\ Matched(g, v, x)
    BY DEF Gathered
  <1>5. CASE IsIndexed(t, x)
    <2>1. UnionFind(t, x) = UnionFind(t, id) /\ Matched(g, t, x)
      BY <1>4, <1>5 DEF Gathered
    <2>2. QED
      BY <1>2, <2>1, MatchedLater DEF Later
  <1>6. CASE x = equal
    BY <1>3, <1>6 DEF United
  <1>7. CASE ~IsIndexed(t, x) /\ x # equal
    <2>1. ~IsIndexed(u, x)
      BY <1>7
    <2>2. QED
      BY <1>3, <1>4, <2>1 DEF United, Gathered
  <1>8. QED
    BY <1>5, <1>6, <1>7

LEMMA AbsorbKeeps ==
    ASSUME SolverUnfolds, NEW g \in Group, Referring(g), NEW s \in Solving(g), NEW id \in Ids(g),
           \A u \in Solving(g), x \in Ids(g) :
              Left(g, u) < Left(g, s) => United(g, u, UnionEqualSuccessors(g, u, x), x),
           NEW n \in DOMAIN g.constraints,
           NEW t \in Absorbed(g, s, id, n - 1)
    PROVE  Absorb([group |-> g, id |-> id], t, g.constraints[n]) \in Absorbed(g, s, id, n)
  <1> DEFINE c == g.constraints[n]
             equal == Other(c, id)
             at == [group |-> g, id |-> id]
             made == GetNode(t, equal)
             u == Unify(made, id, equal)
             v == InnerUnion(g, u, equal)
  <1>1. /\ t \in Solving(g) /\ Later(g, s, t) /\ Gathered(g, s, t, id)
        /\ t.tarjan_stack = s.tarjan_stack
        /\ \A i \in 1 .. n - 1 :
              Equals(g.constraints[i], id) => IsIndexed(t, Other(g.constraints[i], id))
    BY DEF Absorbed
  <1>2. equal \in Ids(g)
    BY EndsAreLifetimes
  <1>3. n \in 1 .. Len(g.constraints) /\ Len(g.constraints) \in Nat
    BY IdsAreNumbers
  <1>4. \A i \in 1 .. n : i = n \/ i \in 1 .. n - 1
    BY <1>3
  <1>5. CASE ~Equals(c, id) \/ IsIndexed(t, equal)
    <2>1. Absorb(at, t, c) = t
      BY <1>5 DEF Absorb
    <2>2. \A i \in 1 .. n :
              Equals(g.constraints[i], id) => IsIndexed(t, Other(g.constraints[i], id))
      BY <1>1, <1>4, <1>5
    <2>3. QED
      BY <1>1, <2>1, <2>2 DEF Absorbed
  <1>6. CASE Equals(c, id) /\ ~IsIndexed(t, equal)
    <2>1. Absorb(at, t, c) = v
      BY <1>6 DEF Absorb
    <2>2. /\ made \in Solving(g) /\ Later(g, t, made)
          /\ made.tarjan_stack = t.tarjan_stack
          /\ \A x \in Ids(g) : IsIndexed(made, x) <=> IsIndexed(t, x) \/ x = equal
      BY <1>1, <1>2, GetNodeIndexes
    <2> HIDE DEF made
    <2>3. /\ u \in Solving(g) /\ Later(g, made, u)
          /\ u.tarjan_stack = made.tarjan_stack
          /\ \A x : IsIndexed(u, x) <=> IsIndexed(made, x)
          /\ UnionFind(u, id) = UnionFind(u, equal)
      BY <1>2, <2>2, UnifyIsLater
    <2> HIDE DEF u
    <2>4. /\ Later(g, t, u) /\ Later(g, s, u)
          /\ \A x \in Ids(g) : IsIndexed(u, x) <=> IsIndexed(t, x) \/ x = equal
      <3>1. Later(g, t, u)
        BY <1>1, <2>2, <2>3, LaterThanLater
      <3>2. Later(g, s, u)
        BY <1>1, <3>1, LaterThanLater
      <3>3. QED
        BY <2>2, <2>3, <3>1, <3>2
    <2>5. Left(g, u) < Left(g, s)
      <3>1. Left(g, u) < Left(g, t) /\ Left(g, u) \in Nat /\ Left(g, t) \in Nat
        BY <1>1, <1>2, <1>6, <2>4, LeftDescends
      <3>2. Left(g, t) <= Left(g, s) /\ Left(g, s) \in Nat
        BY <1>1, LeftDescends
      <3>3. QED
        BY <3>1, <3>2
    <2>6. United(g, u, v, equal)
      <3>1. v = UnionEqualSuccessors(g, u, equal)
        BY <1>2, <2>3 DEF SolverUnfolds
      <3>2. QED
        BY <1>2, <2>3, <2>5, <3>1
    <2>7. Later(g, s, v) /\ Later(g, t, v) /\ v \in Solving(g)
          /\ v.tarjan_stack = s.tarjan_stack
      <3>1. Later(g, u, v) /\ v \in Solving(g) /\ v.tarjan_stack = u.tarjan_stack
        BY <2>6 DEF United, Later
      <3>2. Later(g, s, v) /\ Later(g, t, v)
        BY <1>1, <2>4, <3>1, LaterThanLater
      <3>3. QED
        BY <1>1, <2>2, <2>3, <3>1, <3>2
    <2>8. Gathered(g, s, v, id)
      BY <1>1, <1>2, <2>3, <2>4, <2>6, GatheredOn
    <2>9. ASSUME NEW i \in 1 .. n, Equals(g.constraints[i], id)
          PROVE  IsIndexed(v, Other(g.constraints[i], id))
      <3>1. CASE i = n
        <4>1. IsIndexed(u, equal)
          BY <1>2, <2>4
        <4>2. IsIndexed(v, equal)
          BY <1>2, <2>6, <4>1 DEF United, Later
        <4>3. QED
          BY <3>1, <4>2
      <3>2. CASE i \in 1 .. n - 1
        <4>1. i \in DOMAIN g.constraints
          BY <1>3, IdsAreNumbers
        <4>2. Other(g.constraints[i], id) \in Ids(g)
          BY <4>1, EndsAreLifetimes
        <4>3. QED
          BY <1>1, <2>7, <2>9, <3>2, <4>2 DEF Later
      <3>3. QED
        BY <1>4, <3>1, <3>2
    <2>10. v \in Absorbed(g, s, id, n)
      BY <2>7, <2>8, <2>9 DEF Absorbed
    <2>11. QED
      BY <2>1, <2>10
  <1>7. QED
    BY <1>5, <1>6

LEMMA AbsorbingGathers ==
    ASSUME SolverUnfolds, NEW g \in Group, Referring(g), NEW s \in Solving(g), NEW id \in Ids(g),
           \A u \in Solving(g), x \in Ids(g) :
              Left(g, u) < Left(g, s) => United(g, u, UnionEqualSuccessors(g, u, x), x)
    PROVE  United(g, s, Absorbing!Loop([group |-> g, id |-> id], s, g.constraints), id)
  <1> DEFINE at == [group |-> g, id |-> id]
             N == Len(g.constraints)
             W == [n \in 0 .. N |-> Absorbed(g, s, id, n)]
             t == Absorbing!Loop(at, s, g.constraints)
  <1>1. N \in Nat /\ DOMAIN g.constraints = 1 .. N
    BY IdsAreNumbers
  <1>2. s \in W[0]
    <2>1. s \in Absorbed(g, s, id, 0)
      BY LaterThanItself DEF Absorbed, Gathered
    <2>2. QED
      BY <1>1, <2>1
  <1>3. ASSUME NEW n \in 1 .. N, NEW u \in W[n - 1]
        PROVE  Absorb(at, u, g.constraints[n]) \in W[n]
    <2>1. n - 1 \in 0 .. N /\ n \in 0 .. N /\ n \in DOMAIN g.constraints
      BY <1>1
    <2>2. u \in Absorbed(g, s, id, n - 1)
      BY <2>1
    <2>3. Absorb(at, u, g.constraints[n]) \in Absorbed(g, s, id, n)
      BY <2>1, <2>2, AbsorbKeeps
    <2>4. QED
      BY <2>1, <2>3
  <1> HIDE DEF W, at
  <1>4. t \in W[N]
    BY <1>1, <1>2, <1>3, Absorbing!LoopInvariant
  <1>5. t \in Absorbed(g, s, id, N)
    BY <1>1, <1>4 DEF W
  <1>6. Matched(g, t, id)
    BY <1>1, <1>5 DEF Absorbed, Matched
  <1>7. QED
    BY <1>5, <1>6 DEF Absorbed, United, at

LEMMA SeeOutlivedIsAlike ==
    ASSUME NEW g, Referring(g), NEW t \in Solving(g), NEW id \in Ids(g),
           NEW i \in DOMAIN g.constraints
    PROVE  Alike(g, t, SeeOutlived([group |-> g, id |-> id], t, g.constraints[i]))
  <1> DEFINE c == g.constraints[i]
             lesser == Lesser(c)
             at == [group |-> g, id |-> id]
             u == SeeOutlived(at, t, c)
             waiting == Append(t.outlives_stack, lesser)
             bound == t.tarjan[UnionFind(t, lesser)]
  <1>1. lesser \in Ids(g) /\ t \in Solvers(g)
    BY EndsAreLifetimes DEF Solving
  <1>2. Alike(g, t, t)
    BY <1>1 DEF Alike
  <1>3. Alike(g, t, [t EXCEPT !.outlives_stack = waiting])
    <2>1. waiting \in Seq(Ids(g))
      BY <1>1 DEF Solvers
    <2> HIDE DEF waiting
    <2>2. QED
      BY <1>1, <2>1 DEF Solvers, Alike
  <1>4. Alike(g, t, Lower(t, id, bound))
    <2>1. UnionFind(t, lesser) \in Ids(g)
      BY <1>1, RootsAreLifetimes
    <2>2. bound \in Nat
      BY <1>1, <2>1 DEF Solvers
    <2> HIDE DEF bound
    <2>3. QED
      BY <1>1, <2>2, LowerIsAlike
  <1>5. u \in {t, [t EXCEPT !.outlives_stack = waiting], Lower(t, id, bound)}
    BY DEF SeeOutlived
  <1>6. QED
    BY <1>2, <1>3, <1>4, <1>5

LEMMA SeeingIsAlike ==
    ASSUME NEW g, Referring(g), NEW s \in Solving(g), NEW id \in Ids(g)
    PROVE  Alike(g, s, Seeing!Loop([group |-> g, id |-> id], s, g.constraints))
  <1> DEFINE at == [group |-> g, id |-> id]
             N == Len(g.constraints)
             S == {t \in Solving(g) : Alike(g, s, t)}
             W == [n \in 0 .. N |-> S]
  <1>1. N \in Nat /\ DOMAIN g.constraints = 1 .. N
    BY IdsAreNumbers
  <1>2. s \in W[0]
    BY <1>1 DEF Alike, Solving
  <1>3. ASSUME NEW n \in 1 .. N, NEW u \in W[n - 1]
        PROVE  SeeOutlived(at, u, g.constraints[n]) \in W[n]
    <2> DEFINE v == SeeOutlived(at, u, g.constraints[n])
    <2>1. u \in S /\ W[n] = S /\ n \in DOMAIN g.constraints
      BY <1>1
    <2>2. Alike(g, u, v)
      BY <2>1, SeeOutlivedIsAlike
    <2>3. Alike(g, s, v) /\ v \in Solving(g)
      BY <2>1, <2>2, AlikeAsAlike, AlikeIsLater
    <2>4. QED
      BY <2>1, <2>3
  <1> HIDE DEF W, at
  <1>4. Seeing!Loop(at, s, g.constraints) \in W[N]
    BY <1>1, <1>2, <1>3, Seeing!LoopInvariant
  <1>5. QED
    BY <1>1, <1>4 DEF W, at

LEMMA UnitedThenAlike ==
    ASSUME NEW g, Referring(g), NEW s \in Solving(g), NEW t, NEW u, NEW id \in Ids(g),
           United(g, s, t, id), Alike(g, t, u)
    PROVE  United(g, s, u, id)
  <1>1. t \in Solving(g)
    BY DEF United, Later
  <1>2. /\ Later(g, t, u)
        /\ \A x : IsIndexed(u, x) <=> IsIndexed(t, x)
        /\ \A x : UnionFind(u, x) = UnionFind(t, x)
    BY <1>1, AlikeIsLater
  <1>3. Later(g, s, u)
    BY <1>2, LaterThanLater DEF United
  <1>4. \A x \in Ids(g) : Matched(g, t, x) => Matched(g, u, x)
    BY <1>2, MatchedLater
  <1>5. Gathered(g, s, u, id)
    BY <1>2, <1>4 DEF United, Gathered
  <1>6. QED
    BY <1>3, <1>4, <1>5 DEF United, Alike

LEMMA UnionUnites ==
    ASSUME SolverUnfolds, NEW g \in Group, Referring(g), NEW s \in Solving(g), NEW id \in Ids(g)
    PROVE  United(g, s, UnionEqualSuccessors(g, s, id), id)
  <1> DEFINE T == {n \in Nat : \A u \in Solving(g), x \in Ids(g) :
                      Left(g, u) < n => United(g, u, UnionEqualSuccessors(g, u, x), x)}
  <1>1. \A u \in Solving(g) : Left(g, u) \in Nat
    BY LaterThanItself, LeftDescends
  <1>2. 0 \in T
    BY <1>1
  <1>3. ASSUME NEW n \in Nat, n \in T
        PROVE  n + 1 \in T
    <2>1. SUFFICES ASSUME NEW u \in Solving(g), NEW x \in Ids(g), Left(g, u) < n + 1
                   PROVE  United(g, u, UnionEqualSuccessors(g, u, x), x)
      OBVIOUS
    <2> DEFINE at == [group |-> g, id |-> x]
               gathered == Absorbing!Loop(at, u, g.constraints)
               seen == Seeing!Loop(at, gathered, g.constraints)
    <2>2. \A v \in Solving(g), y \in Ids(g) :
             Left(g, v) < Left(g, u) => United(g, v, UnionEqualSuccessors(g, v, y), y)
      <3>1. \A v \in Solving(g) : Left(g, v) < Left(g, u) => Left(g, v) < n
        BY <1>1, <2>1
      <3>2. QED
        BY <1>3, <3>1
    <2>3. United(g, u, gathered, x)
      BY <2>2, AbsorbingGathers
    <2> HIDE DEF gathered
    <2>4. gathered \in Solving(g)
      BY <2>3 DEF United, Later
    <2>5. Alike(g, gathered, seen)
      BY <2>4, SeeingIsAlike
    <2> HIDE DEF seen
    <2>6. United(g, u, seen, x)
      BY <2>3, <2>5, UnitedThenAlike
    <2>7. UnionEqualSuccessors(g, u, x) = seen
      BY DEF UnionEqualSuccessors, seen, gathered
    <2>8. QED
      BY <2>6, <2>7
  <1> HIDE DEF T
  <1>4. \A n \in Nat : n \in T
    BY <1>2, <1>3, StepByStep
  <1>5. Left(g, s) + 1 \in T /\ Left(g, s) < Left(g, s) + 1
    BY <1>1, <1>4
  <1>6. QED
    BY <1>5 DEF T

-----------------------------------------------------------------------------
(* ProcessNode: when it is through, what is indexed is in one class with   *)
(* what must match it.                                                     *)

Closed(g, s) ==
    \A i \in DOMAIN g.constraints :
        LET c == g.constraints[i]
        IN  c.rel = "=" =>
                /\ IsIndexed(s, c.left) <=> IsIndexed(s, c.right)
                /\ IsIndexed(s, c.left) => UnionFind(s, c.left) = UnionFind(s, c.right)

Processed(g, s, t, id) == Later(g, s, t) /\ Closed(g, t) /\ IsIndexed(t, id)

LEMMA ClosedKept ==
    ASSUME NEW g, Referring(g), NEW s, NEW t, Closed(g, s), Later(g, s, t),
           \A id \in Ids(g) : IsIndexed(t, id) <=> IsIndexed(s, id)
    PROVE  Closed(g, t)
  <1>1. SUFFICES ASSUME NEW i \in DOMAIN g.constraints, g.constraints[i].rel = "="
                 PROVE  LET c == g.constraints[i]
                        IN  /\ IsIndexed(t, c.left) <=> IsIndexed(t, c.right)
                            /\ IsIndexed(t, c.left) =>
                                  UnionFind(t, c.left) = UnionFind(t, c.right)
    BY DEF Closed
  <1>2. g.constraints[i].left \in Ids(g) /\ g.constraints[i].right \in Ids(g)
    BY EndsAreLifetimes
  <1>3. QED
    BY <1>1, <1>2 DEF Closed, Later

LEMMA ReversedItems ==
    ASSUME NEW S, NEW items \in Seq(S)
    PROVE  Reverse(items) \in Seq(S)
  BY DEF Reverse

LEMMA DrainingIsAlike ==
    ASSUME NEW g, Referring(g), NEW s \in Solving(g), NEW id \in Ids(g),
           NEW items \in Seq(Ids(g))
    PROVE  Alike(g, s, Draining!Loop([group |-> g, id |-> id], s, items))
  <1> DEFINE at == [group |-> g, id |-> id]
             N == Len(items)
             S == {t \in Solving(g) : Alike(g, s, t)}
             W == [n \in 0 .. N |-> S]
  <1>1. N \in Nat /\ \A n \in 1 .. N : items[n] \in Ids(g)
    OBVIOUS
  <1>2. s \in W[0]
    BY <1>1 DEF Alike, Solving
  <1>3. ASSUME NEW n \in 1 .. N, NEW u \in W[n - 1]
        PROVE  Drain(at, u, items[n]) \in W[n]
    <2> DEFINE v == Drain(at, u, items[n])
               bound == u.tarjan[UnionFind(u, items[n])]
    <2>1. u \in S /\ W[n] = S /\ items[n] \in Ids(g)
      BY <1>1
    <2>2. UnionFind(u, items[n]) \in Ids(g) /\ u \in Solvers(g)
      BY <2>1, RootsAreLifetimes DEF Solving
    <2>3. bound \in Nat
      BY <2>2 DEF Solvers
    <2> HIDE DEF bound
    <2>4. Alike(g, u, Lower(u, id, bound))
      BY <2>2, <2>3, LowerIsAlike
    <2>5. v \in {u, Lower(u, id, bound)}
      BY DEF Drain, bound
    <2>6. Alike(g, s, v)
      BY <2>1, <2>4, <2>5, AlikeAsAlike
    <2>7. v \in Solving(g)
      BY <2>6, AlikeIsLater
    <2>8. QED
      BY <2>1, <2>6, <2>7
  <1> HIDE DEF W, at
  <1>4. Draining!Loop(at, s, items) \in W[N]
    BY <1>1, <1>2, <1>3, Draining!LoopInvariant
  <1>5. QED
    BY <1>1, <1>4 DEF W, at

\* Visiting the successors is processing those that are not indexed.
LEMMA VisitingProcesses ==
    ASSUME SolverUnfolds, NEW g \in Group, Referring(g), NEW s \in Solving(g), Closed(g, s),
           NEW id \in Ids(g), NEW items \in Seq(Ids(g)),
           \A u \in Solving(g), x \in Ids(g) :
              Left(g, u) <= Left(g, s) /\ Closed(g, u) /\ ~IsIndexed(u, x) =>
                  Processed(g, u, ProcessNode(g, u, x), x)
    PROVE  LET t == Visiting!Loop([group |-> g, id |-> id], s, items)
           IN  Later(g, s, t) /\ Closed(g, t)
  <1> DEFINE at == [group |-> g, id |-> id]
             N == Len(items)
             S == {t \in Solving(g) : Later(g, s, t) /\ Closed(g, t)}
             W == [n \in 0 .. N |-> S]
  <1>1. N \in Nat /\ \A n \in 1 .. N : items[n] \in Ids(g)
    OBVIOUS
  <1>2. s \in W[0]
    BY <1>1, LaterThanItself
  <1>3. ASSUME NEW n \in 1 .. N, NEW u \in W[n - 1]
        PROVE  Visit(at, u, items[n]) \in W[n]
    <2> DEFINE x == items[n]
               v == Visit(at, u, x)
               done == InnerProcess(g, u, x)
    <2>1. u \in S /\ W[n] = S /\ x \in Ids(g)
      BY <1>1
    <2>2. CASE IsIndexed(u, x)
      BY <2>1, <2>2 DEF Visit
    <2>3. CASE ~IsIndexed(u, x)
      <3>1. Left(g, u) <= Left(g, s)
        BY <2>1, LeftDescends
      <3>2. done = ProcessNode(g, u, x)
        BY <2>1 DEF SolverUnfolds
      <3>3. Processed(g, u, done, x)
        BY <2>1, <2>3, <3>1, <3>2
      <3> HIDE DEF done
      <3>4. v = Lower(done, id, done.lowlink[x])
        BY <2>3 DEF Visit, done
      <3>5. done \in Solving(g) /\ done \in Solvers(g) /\ Closed(g, done)
        BY <3>3 DEF Processed, Later, Solving
      <3>6. done.lowlink[x] \in Nat
        BY <2>1, <3>5 DEF Solvers
      <3>7. Alike(g, done, v)
        BY <3>4, <3>5, <3>6, LowerIsAlike
      <3> HIDE DEF v
      <3>8. v \in Solving(g) /\ Later(g, done, v)
            /\ \A y : IsIndexed(v, y) <=> IsIndexed(done, y)
        BY <3>5, <3>7, AlikeIsLater
      <3>9. Closed(g, v)
        BY <3>5, <3>8, ClosedKept
      <3>10. Later(g, u, v)
        BY <2>1, <3>3, <3>8, LaterThanLater DEF Processed
      <3>11. Later(g, s, v)
        BY <2>1, <3>10, LaterThanLater
      <3>12. QED
        BY <2>1, <3>8, <3>9, <3>11 DEF v
    <2>4. QED
      BY <2>2, <2>3
  <1> HIDE DEF W, at
  <1>4. Visiting!Loop(at, s, items) \in W[N]
    BY <1>1, <1>2, <1>3, Visiting!LoopInvariant
  <1>5. QED
    BY <1>1, <1>4 DEF W, at

LEMMA LastOccurrence ==
    ASSUME NEW S, NEW stack \in Seq(S), NEW k \in DOMAIN stack
    PROVE  \E i \in DOMAIN stack :
              stack[i] = stack[k] /\ \A j \in DOMAIN stack : j > i => stack[j] # stack[k]
  <1> DEFINE N == Len(stack)
             there == {i \in 1 .. N : stack[i] = stack[k]}
             behind == {N - i : i \in there}
  <1>1. N \in Nat /\ DOMAIN stack = 1 .. N
    OBVIOUS
  <1>2. behind \subseteq Nat /\ behind # {}
    <2>1. k \in there
      BY <1>1
    <2>2. QED
      BY <1>1, <2>1
  <1>3. PICK n \in behind : \A m \in behind : n <= m
    BY <1>2, LeastNumber
  <1>4. PICK i \in there : n = N - i
    BY <1>3
  <1>5. ASSUME NEW j \in 1 .. N, j > i, stack[j] = stack[k]
        PROVE  FALSE
    <2>1. N - j \in behind
      BY <1>5
    <2>2. N - i <= N - j
      BY <1>3, <1>4, <2>1
    <2>3. QED
      BY <1>1, <1>5, <2>2
  <1>6. QED
    BY <1>1, <1>4, <1>5

LEMMA PopKeeps ==
    ASSUME NEW g, Referring(g), NEW s \in Solving(g), NEW id \in Ids(g), NEW top \in Ids(g)
    PROVE  LET t == Pop(id, s, top)
           IN  /\ t \in Solving(g) /\ Later(g, s, t) /\ t.tarjan_stack = s.tarjan_stack
               /\ \A x : IsIndexed(t, x) <=> IsIndexed(s, x)
  <1> DEFINE on_stack == s.on_stack \ {top}
             orders == [s.order EXCEPT ![top] = s.sorted_id]
             marked == [s EXCEPT !.on_stack = on_stack, !.order = orders]
  <1>1. on_stack \in SUBSET Ids(g) /\ orders \in [Ids(g) -> Nat] /\ s \in Solvers(g)
    BY DEF Solving, Solvers
  <1>2. Pop(id, s, top) = Unify(marked, id, top)
    BY DEF Pop
  <1> HIDE DEF on_stack, orders
  <1>3. Alike(g, s, marked)
    BY <1>1 DEF Solvers, Alike
  <1> HIDE DEF marked
  <1>4. /\ marked \in Solving(g) /\ Later(g, s, marked)
        /\ \A x : IsIndexed(marked, x) <=> IsIndexed(s, x)
        /\ marked.tarjan_stack = s.tarjan_stack
    BY <1>3, AlikeIsLater DEF Alike
  <1> DEFINE t == Unify(marked, id, top)
  <1>5. /\ t \in Solving(g) /\ Later(g, marked, t) /\ t.tarjan_stack = marked.tarjan_stack
        /\ \A x : IsIndexed(t, x) <=> IsIndexed(marked, x)
    BY <1>4, UnifyIsLater
  <1> HIDE DEF t
  <1>6. Later(g, s, t)
    BY <1>4, <1>5, LaterThanLater
  <1>7. QED
    BY <1>2, <1>4, <1>5, <1>6 DEF t

LEMMA PoppingKeeps ==
    ASSUME NEW g, Referring(g), NEW s \in Solving(g), NEW id \in Ids(g),
           NEW items \in Seq(Ids(g))
    PROVE  LET t == Popping!Loop(id, s, items)
           IN  /\ t \in Solving(g) /\ Later(g, s, t) /\ t.tarjan_stack = s.tarjan_stack
               /\ \A x : IsIndexed(t, x) <=> IsIndexed(s, x)
  <1> DEFINE N == Len(items)
             S == {t \in Solving(g) :
                      /\ Later(g, s, t) /\ t.tarjan_stack = s.tarjan_stack
                      /\ \A x : IsIndexed(t, x) <=> IsIndexed(s, x)}
             W == [n \in 0 .. N |-> S]
  <1>1. N \in Nat /\ \A n \in 1 .. N : items[n] \in Ids(g)
    OBVIOUS
  <1>2. s \in W[0]
    BY <1>1, LaterThanItself
  <1>3. ASSUME NEW n \in 1 .. N, NEW u \in W[n - 1]
        PROVE  Pop(id, u, items[n]) \in W[n]
    <2> DEFINE v == Pop(id, u, items[n])
    <2>1. u \in S /\ W[n] = S /\ items[n] \in Ids(g)
      BY <1>1
    <2>2. /\ v \in Solving(g) /\ Later(g, u, v) /\ v.tarjan_stack = u.tarjan_stack
          /\ \A x : IsIndexed(v, x) <=> IsIndexed(u, x)
      BY <2>1, PopKeeps
    <2> HIDE DEF v
    <2>3. Later(g, s, v)
      BY <2>1, <2>2, LaterThanLater
    <2>4. v \in S
      BY <2>1, <2>2, <2>3
    <2>5. QED
      BY <2>1, <2>4 DEF v
  <1> HIDE DEF W
  <1>4. Popping!Loop(id, s, items) \in W[N]
    BY <1>1, <1>2, <1>3, Popping!LoopInvariant
  <1>5. QED
    BY <1>1, <1>4 DEF W

\* A component is popped down to its root and no further.
LEMMA ComponentPopped ==
    ASSUME NEW g, Referring(g), NEW s \in Solving(g), NEW id \in Ids(g),
           NEW k \in DOMAIN s.tarjan_stack, s.tarjan_stack[k] = id
    PROVE  LET t == PopComponent(s, id)
           IN  /\ t \in Solving(g)
               /\ \A x : IsIndexed(t, x) <=> IsIndexed(s, x)
               /\ \A x, y \in Ids(g) :
                     UnionFind(s, x) = UnionFind(s, y) => UnionFind(t, x) = UnionFind(t, y)
               /\ k - 1 <= Len(t.tarjan_stack)
               /\ \A i \in 1 .. k - 1 : t.tarjan_stack[i] = s.tarjan_stack[i]
  <1> DEFINE stack == s.tarjan_stack
             from == CHOOSE i \in DOMAIN stack :
                        stack[i] = id /\ \A j \in DOMAIN stack : j > i => stack[j] # id
             items == Reverse(SubSeq(stack, from, Len(stack)))
             popped == Popping!Loop(id, s, items)
             kept == SubSeq(stack, 1, from - 1)
             sorted == popped.sorted_id + 1
             t == PopComponent(s, id)
  <1>1. stack \in Seq(Ids(g)) /\ Len(stack) \in Nat /\ DOMAIN stack = 1 .. Len(stack)
    BY DEF Solving, Solvers
  <1>2. \E i \in DOMAIN stack :
           stack[i] = id /\ \A j \in DOMAIN stack : j > i => stack[j] # id
    BY <1>1, LastOccurrence
  <1>3. from \in 1 .. Len(stack) /\ stack[from] = id
        /\ \A j \in 1 .. Len(stack) : j > from => stack[j] # id
    BY <1>1, <1>2
  <1>4. t = [popped EXCEPT !.tarjan_stack = kept, !.sorted_id = sorted]
    BY DEF PopComponent
  <1> HIDE DEF from
  <1>5. k <= from /\ k \in Nat /\ from \in Nat
    BY <1>1, <1>3
  <1>6. items \in Seq(Ids(g))
    <2>1. SubSeq(stack, from, Len(stack)) \in Seq(Ids(g))
      BY <1>1, <1>3
    <2>2. QED
      BY <2>1, ReversedItems
  <1>7. kept \in Seq(Ids(g)) /\ Len(kept) = from - 1
        /\ \A i \in 1 .. from - 1 : kept[i] = stack[i]
    BY <1>1, <1>3
  <1> HIDE DEF items, kept
  <1>8. /\ popped \in Solving(g) /\ Later(g, s, popped)
        /\ \A x : IsIndexed(popped, x) <=> IsIndexed(s, x)
    BY <1>6, PoppingKeeps
  <1> HIDE DEF popped
  <1>9. popped \in Solvers(g) /\ sorted \in Nat
    <2>1. popped \in Solvers(g)
      BY <1>8 DEF Solving
    <2>2. popped.sorted_id \in Nat
      BY <2>1 DEF Solvers
    <2>3. QED
      BY <2>1, <2>2
  <1> HIDE DEF sorted
  <1>10. t \in Solvers(g) /\ t.parent = popped.parent /\ t.tarjan = popped.tarjan
         /\ t.tarjan_stack = kept
    BY <1>4, <1>7, <1>9 DEF Solvers
  <1> HIDE DEF t
  <1>11. t \in Solving(g) /\ \A x : UnionFind(t, x) = UnionFind(popped, x)
    BY <1>8, <1>10, SameParents
  <1>12. \A x : IsIndexed(t, x) <=> IsIndexed(s, x)
    BY <1>8, <1>10 DEF IsIndexed
  <1>13. \A x, y \in Ids(g) :
            UnionFind(s, x) = UnionFind(s, y) => UnionFind(t, x) = UnionFind(t, y)
    BY <1>8, <1>11 DEF Later
  <1>14. k - 1 <= Len(t.tarjan_stack)
         /\ \A i \in 1 .. k - 1 : t.tarjan_stack[i] = s.tarjan_stack[i]
    BY <1>5, <1>7, <1>10
  <1>15. QED
    BY <1>11, <1>12, <1>13, <1>14 DEF t

\* A node is made, put on the stack and opened.
Opened(s, id) ==
    LET made == GetNode(s, id)
    IN  [made EXCEPT !.lowlink[id] = made.tarjan[id],
                     !.on_stack = @ \cup {id},
                     !.tarjan_stack = Append(@, id)]

LEMMA OpeningIndexes ==
    ASSUME NEW g, Referring(g), NEW s \in Solving(g), NEW id \in Ids(g)
    PROVE  LET t == Opened(s, id)
               k == Len(s.tarjan_stack) + 1
           IN  /\ t \in Solving(g) /\ Later(g, s, t)
               /\ \A x \in Ids(g) : IsIndexed(t, x) <=> IsIndexed(s, x) \/ x = id
               /\ Len(t.tarjan_stack) = k /\ t.tarjan_stack[k] = id
  <1> DEFINE made == GetNode(s, id)
             lowlink == [made.lowlink EXCEPT ![id] = made.tarjan[id]]
             on_stack == made.on_stack \cup {id}
             stack == Append(made.tarjan_stack, id)
             t == Opened(s, id)
  <1>1. /\ made \in Solving(g) /\ Later(g, s, made) /\ made.tarjan_stack = s.tarjan_stack
        /\ \A x \in Ids(g) : IsIndexed(made, x) <=> IsIndexed(s, x) \/ x = id
    BY GetNodeIndexes
  <1>2. t = [made EXCEPT !.lowlink = lowlink, !.on_stack = on_stack, !.tarjan_stack = stack]
    BY DEF Opened
  <1> HIDE DEF made
  <1>3. made \in Solvers(g)
    BY <1>1 DEF Solving
  <1>4. lowlink \in [Ids(g) -> Nat] /\ on_stack \in SUBSET Ids(g)
    BY <1>3 DEF Solvers
  <1>5. made.tarjan_stack \in Seq(Ids(g))
    BY <1>3 DEF Solvers
  <1>6. /\ stack \in Seq(Ids(g)) /\ Len(stack) = Len(made.tarjan_stack) + 1
        /\ stack[Len(made.tarjan_stack) + 1] = id
        /\ Len(made.tarjan_stack) \in Nat
        /\ \A i \in 1 .. Len(made.tarjan_stack) : stack[i] = made.tarjan_stack[i]
    BY <1>5
  <1> HIDE DEF lowlink, on_stack, stack
  <1>7. t \in Solvers(g) /\ t.parent = made.parent /\ t.tarjan = made.tarjan
        /\ t.tarjan_stack = stack
    BY <1>2, <1>3, <1>4, <1>6 DEF Solvers
  <1> HIDE DEF t
  <1>8. t \in Solving(g) /\ \A x : UnionFind(t, x) = UnionFind(made, x)
    BY <1>1, <1>7, SameParents
  <1>9. \A x : IsIndexed(t, x) <=> IsIndexed(made, x)
    BY <1>7 DEF IsIndexed
  <1>10. Later(g, made, t)
    BY <1>6, <1>7, <1>8, <1>9 DEF Later
  <1>11. Later(g, s, t)
    BY <1>1, <1>10, LaterThanLater
  <1>12. QED
    BY <1>1, <1>6, <1>7, <1>8, <1>9, <1>11 DEF t

\* What must match the new node was not indexed before it, and is gathered.
LEMMA UnitedIsClosed ==
    ASSUME NEW g, Referring(g), NEW s \in Solving(g), NEW t \in Solving(g), NEW u,
           NEW id \in Ids(g), ~IsIndexed(s, id), Closed(g, s),
           Later(g, s, t),
           \A x \in Ids(g) : IsIndexed(t, x) <=> IsIndexed(s, x) \/ x = id,
           United(g, t, u, id)
    PROVE  Closed(g, u)
  <1>1. Later(g, s, u)
    BY LaterThanLater DEF United
  <1>2. ASSUME NEW x \in Ids(g), IsIndexed(u, x), ~IsIndexed(s, x)
        PROVE  UnionFind(u, x) = UnionFind(u, id) /\ Matched(g, u, x)
    BY <1>2 DEF United, Gathered
  <1>3. ASSUME NEW i \in DOMAIN g.constraints, g.constraints[i].rel = "=",
               NEW x \in Ids(g), NEW y \in Ids(g),
               \/ x = g.constraints[i].left /\ y = g.constraints[i].right
               \/ x = g.constraints[i].right /\ y = g.constraints[i].left,
               IsIndexed(u, x)
        PROVE  IsIndexed(u, y) /\ UnionFind(u, x) = UnionFind(u, y)
    <2> DEFINE c == g.constraints[i]
    <2>1. Equals(c, x) /\ Other(c, x) = y
      BY <1>3 DEF Equals, Other
    <2>2. /\ IsIndexed(s, x) <=> IsIndexed(s, y)
          /\ IsIndexed(s, x) => UnionFind(s, x) = UnionFind(s, y)
      <3>1. /\ IsIndexed(s, c.left) <=> IsIndexed(s, c.right)
            /\ IsIndexed(s, c.left) => UnionFind(s, c.left) = UnionFind(s, c.right)
        BY <1>3 DEF Closed
      <3>2. (x = c.left /\ y = c.right) \/ (x = c.right /\ y = c.left)
        BY <1>3
      <3>3. QED
        BY <3>1, <3>2
    <2>3. CASE IsIndexed(s, x)
      BY <1>1, <2>2, <2>3 DEF Later
    <2>4. CASE ~IsIndexed(s, x)
      <3>1. UnionFind(u, x) = UnionFind(u, id) /\ Matched(g, u, x)
        BY <1>2, <1>3, <2>4
      <3>2. IsIndexed(u, y)
        BY <2>1, <3>1 DEF Matched
      <3>3. UnionFind(u, y) = UnionFind(u, id)
        BY <1>2, <2>2, <2>4, <3>2
      <3>4. QED
        BY <3>1, <3>2, <3>3
    <2>5. QED
      BY <2>3, <2>4
  <1>4. SUFFICES ASSUME NEW i \in DOMAIN g.constraints, g.constraints[i].rel = "="
                 PROVE  LET c == g.constraints[i]
                        IN  /\ IsIndexed(u, c.left) <=> IsIndexed(u, c.right)
                            /\ IsIndexed(u, c.left) =>
                                  UnionFind(u, c.left) = UnionFind(u, c.right)
    BY DEF Closed
  <1> DEFINE c == g.constraints[i]
  <1>5. c.left \in Ids(g) /\ c.right \in Ids(g)
    BY EndsAreLifetimes
  <1>6. IsIndexed(u, c.left) => IsIndexed(u, c.right) /\ UnionFind(u, c.left) = UnionFind(u, c.right)
    BY <1>3, <1>4, <1>5
  <1>7. IsIndexed(u, c.right) => IsIndexed(u, c.left)
    BY <1>3, <1>4, <1>5
  <1>8. QED
    BY <1>6, <1>7

LEMMA ProcessStep ==
    ASSUME SolverUnfolds, NEW g \in Group, Referring(g), NEW s \in Solving(g), NEW id \in Ids(g),
           ~IsIndexed(s, id), Closed(g, s),
           \A u \in Solving(g), x \in Ids(g) :
              Left(g, u) < Left(g, s) /\ Closed(g, u) /\ ~IsIndexed(u, x) =>
                  Processed(g, u, ProcessNode(g, u, x), x)
    PROVE  Processed(g, s, ProcessNode(g, s, id), id)
  <1> DEFINE at == [group |-> g, id |-> id]
             opened == Opened(s, id)
             united == UnionEqualSuccessors(g, opened, id)
             queued == Reverse(united.outlives_stack)
             emptied == [united EXCEPT !.outlives_stack = <<>>]
             drained == Draining!Loop(at, emptied, queued)
             visited == Visiting!Loop(at, drained, queued)
             popped == PopComponent(visited, id)
             k == Len(s.tarjan_stack) + 1
  <1>1. ProcessNode(g, s, id) \in {visited, popped}
    BY DEF ProcessNode, Opened
  <1>2. /\ opened \in Solving(g) /\ Later(g, s, opened)
        /\ \A x \in Ids(g) : IsIndexed(opened, x) <=> IsIndexed(s, x) \/ x = id
        /\ Len(opened.tarjan_stack) = k /\ opened.tarjan_stack[k] = id
    BY OpeningIndexes
  <1> HIDE DEF opened
  <1>3. United(g, opened, united, id)
    BY <1>2, UnionUnites
  <1> HIDE DEF united
  <1>4. Closed(g, united)
    BY <1>2, <1>3, UnitedIsClosed
  <1>5. united \in Solving(g) /\ united \in Solvers(g) /\ Later(g, opened, united)
    BY <1>3 DEF United, Later, Solving
  <1>6. queued \in Seq(Ids(g))
    <2>1. united.outlives_stack \in Seq(Ids(g))
      BY <1>5 DEF Solvers
    <2>2. QED
      BY <2>1, ReversedItems
  <1>7. Alike(g, united, emptied)
    <2>1. <<>> \in Seq(Ids(g))
      OBVIOUS
    <2>2. QED
      BY <1>5, <2>1 DEF Solvers, Alike
  <1> HIDE DEF queued, emptied
  <1>8. emptied \in Solving(g)
    BY <1>5, <1>7, AlikeIsLater
  <1>9. Alike(g, united, drained)
    <2>1. Alike(g, emptied, drained)
      BY <1>6, <1>8, DrainingIsAlike
    <2>2. QED
      BY <1>7, <2>1, AlikeAsAlike
  <1> HIDE DEF drained
  <1>10. /\ drained \in Solving(g) /\ Later(g, united, drained)
         /\ \A x : IsIndexed(drained, x) <=> IsIndexed(united, x)
    BY <1>5, <1>9, AlikeIsLater
  <1>11. Closed(g, drained)
    BY <1>4, <1>10, ClosedKept
  <1>12. Later(g, opened, drained)
    BY <1>2, <1>5, <1>10, LaterThanLater
  <1>13. Left(g, drained) < Left(g, s)
    <2>1. Left(g, opened) < Left(g, s) /\ Left(g, opened) \in Nat /\ Left(g, s) \in Nat
      BY <1>2, LeftDescends
    <2>2. Left(g, drained) <= Left(g, opened) /\ Left(g, drained) \in Nat
      BY <1>2, <1>12, LeftDescends
    <2>3. QED
      BY <2>1, <2>2
  <1>14. \A u \in Solving(g), x \in Ids(g) :
            Left(g, u) <= Left(g, drained) /\ Closed(g, u) /\ ~IsIndexed(u, x) =>
                Processed(g, u, ProcessNode(g, u, x), x)
    <2>1. \A u \in Solving(g) : Left(g, u) \in Nat
      BY LaterThanItself, LeftDescends
    <2>2. \A u \in Solving(g) : Left(g, u) <= Left(g, drained) => Left(g, u) < Left(g, s)
      BY <1>10, <1>13, <2>1
    <2>3. QED
      BY <2>2
  <1>15. Later(g, drained, visited) /\ Closed(g, visited)
    BY <1>6, <1>10, <1>11, <1>14, VisitingProcesses
  <1> HIDE DEF visited
  <1>16. /\ visited \in Solving(g) /\ visited \in Solvers(g)
         /\ Later(g, opened, visited) /\ Later(g, s, visited)
    <2>1. Later(g, opened, visited)
      BY <1>2, <1>12, <1>15, LaterThanLater
    <2>2. Later(g, s, visited)
      BY <1>2, <2>1, LaterThanLater
    <2>3. QED
      BY <2>1, <2>2 DEF Later, Solving
  <1>17. IsIndexed(visited, id)
    BY <1>2, <1>16 DEF Later
  <1>18. Processed(g, s, visited, id)
    BY <1>15, <1>16, <1>17 DEF Processed
  <1>19. Processed(g, s, popped, id)
    <2>1. k \in Nat /\ k - 1 = Len(s.tarjan_stack) /\ k \in 1 .. Len(opened.tarjan_stack)
      <3>1. Len(s.tarjan_stack) \in Nat
        BY StackHasLength DEF Solving
      <3>2. QED
        BY <1>2, <3>1
    <2>2. Len(visited.tarjan_stack) \in Nat
          /\ DOMAIN visited.tarjan_stack = 1 .. Len(visited.tarjan_stack)
      BY <1>16 DEF Solvers
    <2>3. k \in DOMAIN visited.tarjan_stack /\ visited.tarjan_stack[k] = id
      BY <1>2, <1>16, <2>1, <2>2 DEF Later
    <2>4. /\ popped \in Solving(g)
          /\ \A x : IsIndexed(popped, x) <=> IsIndexed(visited, x)
          /\ \A x, y \in Ids(g) :
                UnionFind(visited, x) = UnionFind(visited, y)
                    => UnionFind(popped, x) = UnionFind(popped, y)
          /\ k - 1 <= Len(popped.tarjan_stack)
          /\ \A i \in 1 .. k - 1 : popped.tarjan_stack[i] = visited.tarjan_stack[i]
      BY <1>16, <2>3, ComponentPopped
    <2> HIDE DEF popped, k
    <2>5. Later(g, s, popped)
      <3>1. Len(s.tarjan_stack) <= Len(popped.tarjan_stack)
        BY <2>1, <2>4
      <3>2. \A i \in 1 .. Len(s.tarjan_stack) : popped.tarjan_stack[i] = s.tarjan_stack[i]
        BY <1>16, <2>1, <2>4 DEF Later
      <3>3. QED
        BY <1>16, <2>4, <3>1, <3>2 DEF Later
    <2>6. Closed(g, popped)
      <3>1. SUFFICES ASSUME NEW i \in DOMAIN g.constraints, g.constraints[i].rel = "="
                     PROVE  LET c == g.constraints[i]
                            IN  /\ IsIndexed(popped, c.left) <=> IsIndexed(popped, c.right)
                                /\ IsIndexed(popped, c.left) =>
                                      UnionFind(popped, c.left) = UnionFind(popped, c.right)
        BY DEF Closed
      <3>2. g.constraints[i].left \in Ids(g) /\ g.constraints[i].right \in Ids(g)
        BY EndsAreLifetimes
      <3>3. QED
        BY <1>15, <2>4, <3>1, <3>2 DEF Closed
    <2>7. QED
      BY <1>17, <2>4, <2>5, <2>6 DEF Processed
  <1>20. QED
    BY <1>1, <1>18, <1>19

LEMMA ProcessProcesses ==
    ASSUME SolverUnfolds, NEW g \in Group, Referring(g), NEW s \in Solving(g), NEW id \in Ids(g),
           ~IsIndexed(s, id), Closed(g, s)
    PROVE  Processed(g, s, ProcessNode(g, s, id), id)
  <1> DEFINE T == {n \in Nat : \A u \in Solving(g), x \in Ids(g) :
                      Left(g, u) < n /\ Closed(g, u) /\ ~IsIndexed(u, x) =>
                          Processed(g, u, ProcessNode(g, u, x), x)}
  <1>1. \A u \in Solving(g) : Left(g, u) \in Nat
    BY LaterThanItself, LeftDescends
  <1>2. 0 \in T
    BY <1>1
  <1>3. ASSUME NEW n \in Nat, n \in T
        PROVE  n + 1 \in T
    <2>1. SUFFICES ASSUME NEW u \in Solving(g), NEW x \in Ids(g),
                          Left(g, u) < n + 1, Closed(g, u), ~IsIndexed(u, x)
                   PROVE  Processed(g, u, ProcessNode(g, u, x), x)
      OBVIOUS
    <2>2. \A v \in Solving(g) : Left(g, v) < Left(g, u) => Left(g, v) < n
      BY <1>1, <2>1
    <2>3. \A v \in Solving(g), y \in Ids(g) :
             Left(g, v) < Left(g, u) /\ Closed(g, v) /\ ~IsIndexed(v, y) =>
                 Processed(g, v, ProcessNode(g, v, y), y)
      BY <1>3, <2>2
    <2>4. QED
      BY <2>1, <2>3, ProcessStep
  <1> HIDE DEF T
  <1>4. \A n \in Nat : n \in T
    BY <1>2, <1>3, StepByStep
  <1>5. Left(g, s) + 1 \in T /\ Left(g, s) < Left(g, s) + 1
    BY <1>1, <1>4
  <1>6. QED
    BY <1>5 DEF T

-----------------------------------------------------------------------------
(* Condensed and Build. *)

LEMMA FreshIsClosed ==
    ASSUME NEW g, Referring(g)
    PROVE  LET s == FreshSolver(g)
           IN  s \in Solving(g) /\ Closed(g, s)
  <1> DEFINE s == FreshSolver(g)
  <1>1. MaxId(g) + 1 \in Nat
    BY IdsAreNumbers
  <1>2. s \in Solvers(g)
    BY <1>1 DEF FreshSolver, Solvers, None, Unbounded
  <1>3. \A id \in Ids(g) : s.parent[id] = None /\ s.tarjan[id] = None
    BY DEF FreshSolver
  <1> HIDE DEF s
  <1>4. Rooted(g, s, [id \in Ids(g) |-> id], [id \in Ids(g) |-> 0])
    BY <1>3 DEF Rooted
  <1>5. Forest(g, s)
    <2>1. [id \in Ids(g) |-> id] \in [Ids(g) -> Ids(g)] /\ [id \in Ids(g) |-> 0] \in [Ids(g) -> Nat]
      OBVIOUS
    <2>2. QED
      BY <1>4, <2>1 DEF Forest
  <1>6. \A i \in DOMAIN g.constraints :
           g.constraints[i].left \in Ids(g) /\ g.constraints[i].right \in Ids(g)
    BY EndsAreLifetimes
  <1>7. Closed(g, s)
    BY <1>3, <1>6 DEF Closed, IsIndexed
  <1>8. QED
    BY <1>2, <1>5, <1>7 DEF Solving, s

LEMMA CondensedIsClosed ==
    ASSUME SolverUnfolds, NEW g \in Group, Referring(g)
    PROVE  /\ Condensed(g) \in Solving(g)
           /\ Closed(g, Condensed(g))
           /\ \A id \in Ids(g) : IsIndexed(Condensed(g), id)
  <1> DEFINE N == MaxId(g)
             items == [id \in Ids(g) |-> id]
             fresh == FreshSolver(g)
             W == [n \in 0 .. N |->
                      {s \in Solving(g) :
                          Closed(g, s) /\ \A id \in Ids(g) : id <= n => IsIndexed(s, id)}]
  <1>1. N \in Nat /\ Ids(g) = 1 .. N
    BY IdsAreNumbers
  <1>2. Len(items) = N /\ \A n \in 1 .. N : items[n] = n
    BY <1>1
  <1>3. fresh \in W[0]
    BY <1>1, FreshIsClosed
  <1>4. ASSUME NEW n \in 1 .. N, NEW s \in W[n - 1]
        PROVE  Start(g, s, items[n]) \in W[n]
    <2> DEFINE t == Start(g, s, n)
    <2>1. n - 1 \in 0 .. N /\ n \in 0 .. N /\ n \in Ids(g)
      BY <1>1
    <2>2. /\ s \in Solving(g) /\ Closed(g, s)
          /\ \A id \in Ids(g) : id <= n - 1 => IsIndexed(s, id)
      BY <2>1
    <2>3. t \in Solving(g) /\ Closed(g, t) /\ IsIndexed(t, n) /\ Later(g, s, t)
      <3>1. CASE IsIndexed(s, n)
        BY <2>2, <3>1, LaterThanItself DEF Start
      <3>2. CASE ~IsIndexed(s, n)
        <4>1. t = ProcessNode(g, s, n)
          BY <3>2 DEF Start
        <4>2. Processed(g, s, t, n)
          BY <2>1, <2>2, <3>2, <4>1, ProcessProcesses
        <4>3. QED
          BY <4>2 DEF Processed, Later
      <3>3. QED
        BY <3>1, <3>2
    <2> HIDE DEF t
    <2>4. ASSUME NEW id \in Ids(g), id <= n
          PROVE  IsIndexed(t, id)
      <3>1. id = n \/ id <= n - 1
        BY <1>1, <2>4
      <3>2. QED
        BY <2>2, <2>3, <3>1 DEF Later
    <2>5. t \in W[n]
      BY <2>1, <2>3, <2>4
    <2>6. QED
      BY <1>2, <2>5 DEF t
  <1> HIDE DEF W, items
  <1>5. Starting!Loop(g, fresh, items) \in W[N]
    BY <1>1, <1>2, <1>3, <1>4, Starting!LoopInvariant
  <1>6. Condensed(g) = Starting!Loop(g, fresh, items)
    BY DEF Condensed, items
  <1>7. /\ Condensed(g) \in Solving(g) /\ Closed(g, Condensed(g))
        /\ \A id \in Ids(g) : id <= N => IsIndexed(Condensed(g), id)
    BY <1>1, <1>5, <1>6 DEF W
  <1>8. QED
    BY <1>1, <1>7

\* Lifetimes that must match get one order.
Matching(g, orders) ==
    \A i \in DOMAIN g.constraints :
        LET c == g.constraints[i]
        IN  c.rel = "=" => orders[c.left] = orders[c.right]

LEMMA BuildMatches ==
    ASSUME SolverUnfolds, NEW g \in Group, Referring(g)
    PROVE  Build(g) \in [Ids(g) -> Nat] /\ Matching(g, Build(g))
  <1> DEFINE done == Condensed(g)
  <1>1. done \in Solving(g) /\ Closed(g, done) /\ \A id \in Ids(g) : IsIndexed(done, id)
    BY CondensedIsClosed
  <1> HIDE DEF done
  <1>2. Build(g) = [id \in Ids(g) |-> done.order[UnionFind(done, id)]]
    BY DEF Build, done
  <1>3. done.order \in [Ids(g) -> Nat]
    BY <1>1 DEF Solving, Solvers
  <1>4. \A id \in Ids(g) : UnionFind(done, id) \in Ids(g)
    BY <1>1, RootsAreLifetimes
  <1>5. Build(g) \in [Ids(g) -> Nat]
    BY <1>2, <1>3, <1>4
  <1>6. ASSUME NEW i \in DOMAIN g.constraints, g.constraints[i].rel = "="
        PROVE  Build(g)[g.constraints[i].left] = Build(g)[g.constraints[i].right]
    <2>1. g.constraints[i].left \in Ids(g) /\ g.constraints[i].right \in Ids(g)
      BY EndsAreLifetimes
    <2>2. UnionFind(done, g.constraints[i].left) = UnionFind(done, g.constraints[i].right)
      BY <1>1, <1>6, <2>1 DEF Closed
    <2>3. QED
      BY <1>2, <2>1, <2>2
  <1>7. QED
    BY <1>5, <1>6 DEF Matching

-----------------------------------------------------------------------------
(* What a lifetime covers. *)

LEMMA BelowMeans ==
    ASSUME NEW g, Referring(g), NEW x \in Ids(g), NEW y
    PROVE  y \in Below(g, {x}) <=>
              \E i \in DOMAIN g.constraints :
                 \/ Outlives(g.constraints[i], x) /\ y = Lesser(g.constraints[i])
                 \/ Equals(g.constraints[i], x) /\ y = Other(g.constraints[i], x)
  <1> DEFINE C == ToSet(g.constraints)
  <1>1. \A c : c \in C <=> \E i \in DOMAIN g.constraints : c = g.constraints[i]
    BY DEF ToSet
  <1> HIDE DEF C
  <1>2. y \in Below(g, {x}) <=>
           \E c \in C : \/ c.rel # "=" /\ Greater(c) = x /\ y = Lesser(c)
                        \/ c.rel = "=" /\ c.left = x /\ y = c.right
                        \/ c.rel = "=" /\ c.right = x /\ y = c.left
    BY DEF Below, C
  <1>3. ASSUME NEW c
        PROVE  (\/ c.rel = "=" /\ c.left = x /\ y = c.right
                \/ c.rel = "=" /\ c.right = x /\ y = c.left)
                  <=> Equals(c, x) /\ y = Other(c, x)
    BY DEF Equals, Other
  <1>4. \A c : c.rel # "=" /\ Greater(c) = x <=> Outlives(c, x)
    BY DEF Outlives
  <1>5. y \in Below(g, {x}) <=>
           \E c \in C : \/ Outlives(c, x) /\ y = Lesser(c)
                        \/ Equals(c, x) /\ y = Other(c, x)
    BY <1>2, <1>3, <1>4
  <1>6. QED
    BY <1>1, <1>5

LEMMA BelowLifetimes ==
    ASSUME NEW g, Referring(g), NEW x \in Ids(g)
    PROVE  Below(g, {x}) \subseteq Ids(g)
  BY BelowMeans, EndsAreLifetimes

Direct(g) == UNION {{a} \X ({a} \cup Below(g, {a})) : a \in Ids(g)}

LEMMA DirectMeans ==
    ASSUME NEW g, Referring(g)
    PROVE  /\ Direct(g) \subseteq Ids(g) \X Ids(g)
           /\ \A a, b \in Ids(g) : <<a, b>> \in Direct(g) <=> b = a \/ b \in Below(g, {a})
  <1>1. \A p : p \in Direct(g) <=>
           \E a \in Ids(g) : p \in {a} \X ({a} \cup Below(g, {a}))
    BY DEF Direct
  <1>2. \A a \in Ids(g) : {a} \X ({a} \cup Below(g, {a})) \subseteq Ids(g) \X Ids(g)
    BY BelowLifetimes
  <1>3. ASSUME NEW a \in Ids(g), NEW b \in Ids(g)
        PROVE  <<a, b>> \in Direct(g) <=> b = a \/ b \in Below(g, {a})
    <2>1. \A x \in Ids(g) :
             <<a, b>> \in {x} \X ({x} \cup Below(g, {x})) <=> a = x /\ b \in {x} \cup Below(g, {x})
      OBVIOUS
    <2>2. QED
      BY <1>1, <2>1
  <1>4. QED
    BY <1>1, <1>2, <1>3

LEMMA ThroughMeans ==
    ASSUME NEW g, NEW pairs \in SUBSET (Ids(g) \X Ids(g)), NEW id \in Ids(g)
    PROVE  /\ Through(g, pairs, id) \in SUBSET (Ids(g) \X Ids(g))
           /\ \A a, b \in Ids(g) :
                 <<a, b>> \in Through(g, pairs, id) <=>
                    <<a, b>> \in pairs \/ (<<a, id>> \in pairs /\ <<id, b>> \in pairs)
  <1> DEFINE starts == {p[1] : p \in {q \in pairs : q[2] = id}}
             ends == Ends(pairs, id)
  <1>1. \A p \in pairs : p = <<p[1], p[2]>> /\ p[1] \in Ids(g) /\ p[2] \in Ids(g)
    OBVIOUS
  <1>2. \A a : a \in starts <=> <<a, id>> \in pairs
    BY <1>1
  <1>3. \A b : b \in ends <=> <<id, b>> \in pairs
    BY <1>1 DEF Ends
  <1>4. Through(g, pairs, id) = pairs \cup (starts \X ends)
    BY DEF Through
  <1> HIDE DEF starts, ends
  <1>5. starts \subseteq Ids(g) /\ ends \subseteq Ids(g)
    <2>1. \A a, b : <<a, b>> \in pairs => a \in Ids(g) /\ b \in Ids(g)
      OBVIOUS
    <2>2. QED
      BY <1>2, <1>3, <2>1
  <1>6. QED
    BY <1>2, <1>3, <1>4, <1>5

\* A relation that is closed under chains through the lifetimes up to n.
ClosedTo(g, pairs, n) ==
    \A a, k, b \in Ids(g) :
        k <= n /\ <<a, k>> \in pairs /\ <<k, b>> \in pairs => <<a, b>> \in pairs

LEMMA ThroughCloses ==
    ASSUME NEW g, Referring(g), NEW pairs \in SUBSET (Ids(g) \X Ids(g)),
           NEW n \in Ids(g), ClosedTo(g, pairs, n - 1)
    PROVE  ClosedTo(g, Through(g, pairs, n), n)
  <1> DEFINE R(a, b) == <<a, b>> \in pairs
             T(a, b) == <<a, b>> \in Through(g, pairs, n)
  <1>1. \A a, b \in Ids(g) : T(a, b) <=> R(a, b) \/ (R(a, n) /\ R(n, b))
    BY ThroughMeans
  <1>2. \A a, k, b \in Ids(g) : k <= n - 1 /\ R(a, k) /\ R(k, b) => R(a, b)
    BY DEF ClosedTo
  <1>3. \A k \in Ids(g) : k <= n => k = n \/ k <= n - 1
    BY IdsAreNumbers
  <1> HIDE DEF R, T
  <1>4. ASSUME NEW a \in Ids(g), NEW k \in Ids(g), NEW b \in Ids(g),
               k <= n, T(a, k), T(k, b)
        PROVE  T(a, b)
    <2>1. CASE k = n
      BY <1>1, <1>4, <2>1
    <2>2. CASE k <= n - 1
      <3>1. CASE R(a, k) /\ R(k, b)
        BY <1>1, <1>2, <2>2, <3>1
      <3>2. CASE R(a, k) /\ R(k, n) /\ R(n, b)
        BY <1>1, <1>2, <2>2, <3>2
      <3>3. CASE R(a, n) /\ R(n, k) /\ R(k, b)
        BY <1>1, <1>2, <2>2, <3>3
      <3>4. CASE R(a, n) /\ R(n, b)
        BY <1>1, <3>4
      <3>5. QED
        BY <1>1, <1>4, <3>1, <3>2, <3>3, <3>4
    <2>3. QED
      BY <1>3, <1>4, <2>1, <2>2
  <1>5. QED
    BY <1>4 DEF ClosedTo, T

\* Covering a lifetime is covering what lies below it.
LEMMA CoversChains ==
    ASSUME NEW g, Referring(g)
    PROVE  /\ Covers(g) \in SUBSET (Ids(g) \X Ids(g))
           /\ \A a \in Ids(g) : <<a, a>> \in Covers(g)
           /\ \A a, b \in Ids(g) :
                 <<a, b>> \in Covers(g) => \A x \in Below(g, {b}) : <<a, x>> \in Covers(g)
  <1> DEFINE N == MaxId(g)
             items == [id \in Ids(g) |-> id]
             W == [n \in 0 .. N |->
                      {pairs \in SUBSET (Ids(g) \X Ids(g)) :
                          Direct(g) \subseteq pairs /\ ClosedTo(g, pairs, n)}]
  <1>1. N \in Nat /\ Ids(g) = 1 .. N
    BY IdsAreNumbers
  <1>2. Len(items) = N /\ \A n \in 1 .. N : items[n] = n
    BY <1>1
  <1>3. Direct(g) \in W[0]
    <2>1. ClosedTo(g, Direct(g), 0)
      BY <1>1 DEF ClosedTo
    <2>2. QED
      BY <1>1, <2>1, DirectMeans
  <1>4. ASSUME NEW n \in 1 .. N, NEW pairs \in W[n - 1]
        PROVE  Through(g, pairs, items[n]) \in W[n]
    <2>1. n - 1 \in 0 .. N /\ n \in 0 .. N /\ n \in Ids(g) /\ items[n] = n
      BY <1>1, <1>2
    <2>2. /\ pairs \in SUBSET (Ids(g) \X Ids(g)) /\ Direct(g) \subseteq pairs
          /\ ClosedTo(g, pairs, n - 1)
      BY <2>1
    <2> HIDE DEF items
    <2>3. Through(g, pairs, n) \in SUBSET (Ids(g) \X Ids(g))
      BY <2>1, <2>2, ThroughMeans
    <2>4. pairs \subseteq Through(g, pairs, n)
      BY DEF Through
    <2>5. ClosedTo(g, Through(g, pairs, n), n)
      BY <2>1, <2>2, ThroughCloses
    <2>6. QED
      BY <2>1, <2>2, <2>3, <2>4, <2>5
  <1> HIDE DEF W, items
  <1>5. Closing!Loop(g, Direct(g), items) \in W[N]
    BY <1>1, <1>2, <1>3, <1>4, Closing!LoopInvariant
  <1>6. Covers(g) = Closing!Loop(g, Direct(g), items)
    BY DEF Covers, Direct, items
  <1>7. /\ Covers(g) \in SUBSET (Ids(g) \X Ids(g)) /\ Direct(g) \subseteq Covers(g)
        /\ ClosedTo(g, Covers(g), N)
    BY <1>1, <1>5, <1>6 DEF W
  <1>8. \A a \in Ids(g) : <<a, a>> \in Covers(g)
    BY <1>7, DirectMeans
  <1>9. ASSUME NEW a \in Ids(g), NEW b \in Ids(g), <<a, b>> \in Covers(g),
               NEW x \in Below(g, {b})
        PROVE  <<a, x>> \in Covers(g)
    <2>1. x \in Ids(g)
      BY BelowLifetimes
    <2>2. <<b, x>> \in Covers(g)
      BY <1>7, <2>1, DirectMeans
    <2>3. b <= N
      BY <1>1
    <2>4. QED
      BY <1>7, <1>9, <2>1, <2>2, <2>3 DEF ClosedTo
  <1>10. QED
    BY <1>7, <1>8, <1>9

\* No chain leaves a set that no constraint leads out of.
LEMMA CoversStays ==
    ASSUME NEW g, Referring(g), NEW X \in SUBSET Ids(g),
           \A x \in X : Below(g, {x}) \subseteq X,
           NEW a \in X, NEW b, <<a, b>> \in Covers(g)
    PROVE  b \in X
  <1> DEFINE N == MaxId(g)
             items == [id \in Ids(g) |-> id]
             S == {pairs \in SUBSET (Ids(g) \X Ids(g)) :
                      \A x, y \in Ids(g) : <<x, y>> \in pairs /\ x \in X => y \in X}
             W == [n \in 0 .. N |-> S]
  <1>1. N \in Nat /\ Ids(g) = 1 .. N
    BY IdsAreNumbers
  <1>2. Len(items) = N /\ \A n \in 1 .. N : items[n] \in Ids(g)
    BY <1>1
  <1>3. Direct(g) \in W[0]
    <2>1. \A x, y \in Ids(g) : <<x, y>> \in Direct(g) /\ x \in X => y \in X
      BY DirectMeans
    <2>2. QED
      BY <1>1, <2>1, DirectMeans
  <1>4. ASSUME NEW n \in 1 .. N, NEW pairs \in W[n - 1]
        PROVE  Through(g, pairs, items[n]) \in W[n]
    <2>1. pairs \in S /\ W[n] = S /\ items[n] \in Ids(g)
      BY <1>1, <1>2
    <2> HIDE DEF items
    <2>2. /\ Through(g, pairs, items[n]) \in SUBSET (Ids(g) \X Ids(g))
          /\ \A x, y \in Ids(g) :
                 <<x, y>> \in Through(g, pairs, items[n]) <=>
                    <<x, y>> \in pairs \/ (<<x, items[n]>> \in pairs /\ <<items[n], y>> \in pairs)
      BY <2>1, ThroughMeans
    <2>3. \A x, y \in Ids(g) :
             <<x, y>> \in Through(g, pairs, items[n]) /\ x \in X => y \in X
      BY <2>1, <2>2
    <2>4. QED
      BY <2>1, <2>2, <2>3
  <1> HIDE DEF W, items
  <1>5. Closing!Loop(g, Direct(g), items) \in W[N]
    BY <1>1, <1>2, <1>3, <1>4, Closing!LoopInvariant
  <1>6. Covers(g) = Closing!Loop(g, Direct(g), items)
    BY DEF Covers, Direct, items
  <1>7. Covers(g) \in S
    BY <1>1, <1>5, <1>6 DEF W
  <1>8. a \in Ids(g) /\ b \in Ids(g)
    <2>1. <<a, b>> \in Ids(g) \X Ids(g)
      BY <1>7
    <2>2. QED
      BY <2>1
  <1>9. QED
    BY <1>7, <1>8

-----------------------------------------------------------------------------
(* OutlivesCounterexample: what is searched for a constraint are chains of *)
(* constraints that begin with it.                                         *)

Leads(c, x, y) ==
    \/ Outlives(c, x) /\ y = Lesser(c)
    \/ Equals(c, x) /\ y = Other(c, x)

\* The lifetimes that a path goes through.
Along(g, path, nodes) ==
    /\ nodes \in [0 .. Len(path) -> Ids(g)]
    /\ \A k \in 1 .. Len(path) : Leads(path[k], nodes[k - 1], nodes[k])

Ring(g, path) == \E nodes : Along(g, path, nodes) /\ nodes[0] = nodes[Len(path)]

Stated(g) == ToSet(g.constraints)

Paths(g, c) ==
    {path \in Seq(Stated(g)) : Len(path) > 0 /\ path[1] = c}

Located(path) == \E j \in DOMAIN path : HasLocation(path[j])

Candidates(g, c) ==
    {candidate \in [path : Paths(g, c), visited : SUBSET Ids(g), location : Ids(g),
                    located : BOOLEAN] :
        /\ <<Lesser(c), candidate.location>> \in Covers(g)
        /\ candidate.located => Located(candidate.path)
        /\ \E nodes : /\ Along(g, candidate.path, nodes)
                      /\ nodes[0] = Greater(c)
                      /\ nodes[Len(candidate.path)] = candidate.location}

\* A circle that can be told from a location, for a constraint that is
\* impossible to meet.
Circles(g, c) ==
    {path \in Seq(Stated(g)) :
        /\ c \in ToSet(path)
        /\ Located(path)
        /\ <<Lesser(c), Greater(c)>> \in Covers(g)
        /\ Ring(g, path)}

Searches(g, c) ==
    [queue : Seq(Candidates(g, c)), reached : SUBSET (Ids(g) \X BOOLEAN),
     best : Circles(g, c) \cup {<<>>}]

LEMMA StatedConstraints ==
    ASSUME NEW g, Referring(g)
    PROVE  /\ \A i \in DOMAIN g.constraints : g.constraints[i] \in Stated(g)
           /\ \A c \in Stated(g) : \E i \in DOMAIN g.constraints : c = g.constraints[i]
           /\ Stated(g) \subseteq Constraint
  <1>1. /\ \A i \in DOMAIN g.constraints : g.constraints[i] \in Stated(g)
        /\ \A c \in Stated(g) : \E i \in DOMAIN g.constraints : c = g.constraints[i]
    BY DEF Stated, ToSet
  <1>2. QED
    BY <1>1, IdsAreNumbers

LEMMA FirstCandidate ==
    ASSUME NEW g, Referring(g), NEW c \in Stated(g), c.rel # "="
    PROVE  Candidate(c) \in Candidates(g, c)
  <1> DEFINE path == <<c>>
             nodes == [k \in 0 .. 1 |-> IF k = 0 THEN Greater(c) ELSE Lesser(c)]
             first == Candidate(c)
  <1>1. Greater(c) \in Ids(g) /\ Lesser(c) \in Ids(g)
    BY StatedConstraints, EndsAreLifetimes
  <1>2. path \in Seq(Stated(g)) /\ Len(path) = 1 /\ path[1] = c /\ DOMAIN path = 1 .. 1
    OBVIOUS
  <1>3. path \in Paths(g, c)
    BY <1>2 DEF Paths
  <1>4. nodes \in [0 .. Len(path) -> Ids(g)] /\ nodes[0] = Greater(c) /\ nodes[1] = Lesser(c)
    BY <1>1, <1>2
  <1> HIDE DEF path, nodes
  <1>5. Leads(c, Greater(c), Lesser(c))
    BY DEF Leads, Outlives
  <1>6. Along(g, path, nodes)
    <2>1. \A k \in 1 .. Len(path) : k = 1 /\ k - 1 = 0
      BY <1>2
    <2>2. QED
      BY <1>2, <1>4, <1>5, <2>1 DEF Along
  <1>7. first = [path |-> path, visited |-> {Lesser(c)}, location |-> Lesser(c),
                 located |-> HasLocation(c)]
    BY DEF Candidate, path
  <1>8. HasLocation(c) \in BOOLEAN
    BY DEF HasLocation
  <1>9. first \in [path : Paths(g, c), visited : SUBSET Ids(g), location : Ids(g),
                   located : BOOLEAN]
    BY <1>1, <1>3, <1>7, <1>8
  <1>10. HasLocation(c) => Located(path)
    BY <1>2 DEF Located
  <1>11. <<Lesser(c), Lesser(c)>> \in Covers(g)
    BY <1>1, CoversChains
  <1>12. QED
    BY <1>2, <1>4, <1>6, <1>7, <1>9, <1>10, <1>11 DEF Candidates

LEMMA StepOn ==
    ASSUME NEW g, Referring(g), NEW c \in Stated(g), NEW candidate \in Candidates(g, c),
           NEW i \in DOMAIN g.constraints, NEW next,
           Leads(g.constraints[i], candidate.location, next)
    PROVE  WithStep(candidate, g.constraints[i], next) \in Candidates(g, c)
  <1> DEFINE d == g.constraints[i]
             path == Append(candidate.path, d)
             N == Len(candidate.path)
             longer == WithStep(candidate, d, next)
  <1>1. /\ candidate.path \in Paths(g, c) /\ candidate.visited \in SUBSET Ids(g)
        /\ candidate.location \in Ids(g) /\ candidate.located \in BOOLEAN
        /\ <<Lesser(c), candidate.location>> \in Covers(g)
        /\ candidate.located => Located(candidate.path)
    BY DEF Candidates
  <1>2. PICK nodes : /\ Along(g, candidate.path, nodes)
                     /\ nodes[0] = Greater(c)
                     /\ nodes[N] = candidate.location
    BY DEF Candidates
  <1>3. d \in Stated(g)
    BY StatedConstraints
  <1>4. /\ candidate.path \in Seq(Stated(g)) /\ N \in Nat /\ N > 0 /\ candidate.path[1] = c
        /\ DOMAIN candidate.path = 1 .. N
    BY <1>1 DEF Paths
  <1>5. /\ path \in Seq(Stated(g)) /\ Len(path) = N + 1 /\ path[N + 1] = d
        /\ DOMAIN path = 1 .. N + 1
        /\ \A k \in 1 .. N : path[k] = candidate.path[k]
    BY <1>3, <1>4
  <1>6. next \in Below(g, {candidate.location})
    BY <1>1, BelowMeans DEF Leads
  <1>7. next \in Ids(g) /\ <<Lesser(c), next>> \in Covers(g)
    <2>1. Lesser(c) \in Ids(g)
      BY StatedConstraints, EndsAreLifetimes
    <2>2. QED
      BY <1>1, <1>6, <2>1, BelowLifetimes, CoversChains
  <1> DEFINE further == [k \in 0 .. N + 1 |-> IF k = N + 1 THEN next ELSE nodes[k]]
  <1>8. nodes \in [0 .. N -> Ids(g)]
        /\ \A k \in 1 .. N : Leads(candidate.path[k], nodes[k - 1], nodes[k])
    BY <1>2 DEF Along
  <1>9. /\ further \in [0 .. N + 1 -> Ids(g)]
        /\ further[0] = Greater(c) /\ further[N + 1] = next /\ further[N] = candidate.location
        /\ \A k \in 0 .. N : further[k] = nodes[k]
    BY <1>2, <1>4, <1>7, <1>8
  <1> HIDE DEF further, path
  <1>10. Along(g, path, further)
    <2>1. ASSUME NEW k \in 1 .. N + 1
          PROVE  Leads(path[k], further[k - 1], further[k])
      <3>1. CASE k = N + 1
        <4>1. k - 1 = N
          BY <1>4, <3>1
        <4>2. QED
          BY <1>5, <1>9, <3>1, <4>1
      <3>2. CASE k \in 1 .. N
        <4>1. k \in 0 .. N /\ k - 1 \in 0 .. N
          BY <3>2
        <4>2. QED
          BY <1>5, <1>8, <1>9, <3>2, <4>1
      <3>3. k = N + 1 \/ k \in 1 .. N
        <4>1. N \in Nat
          BY <1>4
        <4> HIDE DEF N
        <4>2. QED
          BY <4>1
      <3>4. QED
        BY <3>1, <3>2, <3>3
    <2>2. QED
      BY <1>5, <1>9, <2>1 DEF Along
  <1>11. longer = [path |-> path, visited |-> candidate.visited \cup {candidate.location},
                   location |-> next, located |-> candidate.located \/ HasLocation(d)]
    BY DEF WithStep, path
  <1>12. (candidate.located \/ HasLocation(d)) => Located(path)
    <2>1. Located(candidate.path) => Located(path)
      <3>1. ASSUME NEW j \in DOMAIN candidate.path, HasLocation(candidate.path[j])
            PROVE  j \in DOMAIN path /\ HasLocation(path[j])
        BY <1>4, <1>5, <3>1
      <3>2. QED
        BY <3>1 DEF Located
    <2>2. HasLocation(d) => Located(path)
      BY <1>4, <1>5 DEF Located
    <2>3. QED
      BY <1>1, <2>1, <2>2
  <1>13. path \in Paths(g, c)
    BY <1>4, <1>5 DEF Paths
  <1>14. (candidate.located \/ HasLocation(d)) \in BOOLEAN
    OBVIOUS
  <1> HIDE DEF longer, d
  <1>15. longer \in [path : Paths(g, c), visited : SUBSET Ids(g), location : Ids(g),
                     located : BOOLEAN]
    BY <1>1, <1>7, <1>11, <1>13, <1>14
  <1>16. \E walk : /\ Along(g, longer.path, walk) /\ walk[0] = Greater(c)
                   /\ walk[Len(longer.path)] = longer.location
    BY <1>5, <1>9, <1>10, <1>11
  <1>17. <<Lesser(c), longer.location>> \in Covers(g)
         /\ (longer.located => Located(longer.path))
    BY <1>7, <1>11, <1>12
  <1>18. QED
    BY <1>15, <1>16, <1>17 DEF Candidates, longer, d

LEMMA CandidateClosesCircle ==
    ASSUME NEW g, Referring(g), NEW c \in Stated(g), NEW candidate \in Candidates(g, c),
           Completable(candidate, Greater(c))
    PROVE  candidate.path \in Circles(g, c)
  <1> DEFINE path == candidate.path
  <1>1. /\ path \in Paths(g, c) /\ candidate.location = Greater(c) /\ Located(path)
        /\ <<Lesser(c), Greater(c)>> \in Covers(g)
    BY DEF Candidates, Completable
  <1>2. Ring(g, path)
    BY <1>1 DEF Candidates, Ring
  <1>3. path \in Seq(Stated(g)) /\ Len(path) > 0 /\ path[1] = c
    BY <1>1 DEF Paths
  <1>4. c \in ToSet(path)
    <2>1. 1 \in DOMAIN path
      BY <1>3
    <2>2. QED
      BY <1>3, <2>1 DEF ToSet
  <1>5. QED
    BY <1>1, <1>2, <1>3, <1>4 DEF Circles

LEMMA ExploreEdgeKeeps ==
    ASSUME NEW g, Referring(g), NEW c \in Stated(g), NEW candidate \in Candidates(g, c),
           NEW orders, NEW search \in Searches(g, c), NEW i \in DOMAIN g.constraints, NEW next,
           Leads(g.constraints[i], candidate.location, next)
    PROVE  ExploreEdge([candidate |-> candidate, order |-> orders, target |-> Greater(c)],
                       search, g.constraints[i], next) \in Searches(g, c)
  <1> DEFINE d == g.constraints[i]
             from == [candidate |-> candidate, order |-> orders, target |-> Greater(c)]
             extended == WithStep(candidate, d, next)
             reached == search.reached \cup {<<next, extended.located>>}
             queue == Append(search.queue, extended)
             result_ == ExploreEdge(from, search, d, next)
  <1>1. extended \in Candidates(g, c)
    BY StepOn
  <1>2. extended.located \in BOOLEAN /\ candidate.location \in Ids(g)
    BY <1>1 DEF Candidates
  <1>3. next \in Ids(g)
    BY <1>2, EndsAreLifetimes DEF Leads
  <1>4. Completable(extended, Greater(c)) => extended.path \in Circles(g, c)
    BY <1>1, CandidateClosesCircle
  <1>5. result_ \in {search, [search EXCEPT !.reached = reached, !.best = extended.path],
                     [search EXCEPT !.reached = reached, !.queue = queue]}
        /\ (~Completable(extended, Greater(c)) =>
               result_ \in {search, [search EXCEPT !.reached = reached, !.queue = queue]})
    BY DEF ExploreEdge
  <1> HIDE DEF extended, result_
  <1>6. reached \in SUBSET (Ids(g) \X BOOLEAN)
    BY <1>2, <1>3 DEF Searches
  <1>7. queue \in Seq(Candidates(g, c))
    BY <1>1 DEF Searches
  <1> HIDE DEF reached, queue
  <1>8. [search EXCEPT !.reached = reached, !.queue = queue] \in Searches(g, c)
    BY <1>6, <1>7 DEF Searches
  <1>9. CASE Completable(extended, Greater(c))
    <2>1. [search EXCEPT !.reached = reached, !.best = extended.path] \in Searches(g, c)
      BY <1>4, <1>6, <1>9 DEF Searches
    <2>2. QED
      BY <1>5, <1>8, <2>1 DEF result_
  <1>10. CASE ~Completable(extended, Greater(c))
    BY <1>5, <1>8, <1>10 DEF result_
  <1>11. QED
    BY <1>9, <1>10

LEMMA ContinuePathKeeps ==
    ASSUME NEW g, Referring(g), NEW c \in Stated(g), NEW orders,
           NEW search \in Searches(g, c), search.queue # <<>>
    PROVE  ContinuePath([group |-> g, order |-> orders, target |-> Greater(c)], search)
              \in Searches(g, c)
  <1> DEFINE N == Len(g.constraints)
             candidate == Head(search.queue)
             from == [candidate |-> candidate, order |-> orders, target |-> Greater(c)]
             tail == Tail(search.queue)
             rest == [search EXCEPT !.queue = tail]
             down == Descending!Loop(from, rest, g.constraints)
             across == Crossing!Loop(from, down, g.constraints)
             W == [n \in 0 .. N |-> Searches(g, c)]
  <1>1. N \in Nat /\ DOMAIN g.constraints = 1 .. N
    BY IdsAreNumbers
  <1>2. candidate \in Candidates(g, c) /\ tail \in Seq(Candidates(g, c))
    <2>1. search.queue \in Seq(Candidates(g, c))
      BY DEF Searches
    <2>2. QED
      BY <2>1
  <1> HIDE DEF candidate, tail
  <1>3. rest \in Searches(g, c)
    BY <1>2 DEF Searches
  <1>4. candidate.location \in Ids(g)
    BY <1>2 DEF Candidates
  <1>5. ASSUME NEW n \in 1 .. N, NEW s \in W[n - 1]
        PROVE  ExploreOutlived(from, s, g.constraints[n]) \in W[n]
    <2>1. s \in Searches(g, c) /\ W[n] = Searches(g, c) /\ n \in DOMAIN g.constraints
      BY <1>1
    <2>2. CASE ~Outlives(g.constraints[n], candidate.location)
      BY <2>1, <2>2 DEF ExploreOutlived
    <2>3. CASE Outlives(g.constraints[n], candidate.location)
      <3>1. Leads(g.constraints[n], candidate.location, Lesser(g.constraints[n]))
        BY <2>3 DEF Leads
      <3>2. ExploreEdge(from, s, g.constraints[n], Lesser(g.constraints[n])) \in Searches(g, c)
        BY <1>2, <2>1, <3>1, ExploreEdgeKeeps
      <3>3. QED
        BY <2>1, <2>3, <3>2 DEF ExploreOutlived
    <2>4. QED
      BY <2>2, <2>3
  <1>6. ASSUME NEW n \in 1 .. N, NEW s \in W[n - 1]
        PROVE  ExploreEqual(from, s, g.constraints[n]) \in W[n]
    <2> DEFINE next == Other(g.constraints[n], candidate.location)
    <2>1. s \in Searches(g, c) /\ W[n] = Searches(g, c) /\ n \in DOMAIN g.constraints
      BY <1>1
    <2>2. CASE ~Equals(g.constraints[n], candidate.location)
      BY <2>1, <2>2 DEF ExploreEqual
    <2>3. CASE Equals(g.constraints[n], candidate.location)
      <3>1. Leads(g.constraints[n], candidate.location, next)
        BY <2>3 DEF Leads
      <3>2. ExploreEdge(from, s, g.constraints[n], next) \in Searches(g, c)
        BY <1>2, <2>1, <3>1, ExploreEdgeKeeps
      <3>3. QED
        BY <2>1, <2>3, <3>2 DEF ExploreEqual
    <2>4. QED
      BY <2>2, <2>3
  <1>7. W[0] = Searches(g, c) /\ W[N] = Searches(g, c)
    BY <1>1
  <1>8. ContinuePath([group |-> g, order |-> orders, target |-> Greater(c)], search) = across
    BY DEF ContinuePath, candidate, tail
  <1> HIDE DEF W, from, rest
  <1>9. down \in Searches(g, c)
    BY <1>1, <1>3, <1>5, <1>7, Descending!LoopInvariant
  <1> HIDE DEF down
  <1>10. across \in Searches(g, c)
    BY <1>1, <1>6, <1>7, <1>9, Crossing!LoopInvariant
  <1>11. QED
    BY <1>8, <1>10

LEMMA FoundCircle ==
    ASSUME NEW g, Referring(g), NEW c \in Stated(g), c.rel # "=", NEW orders
    PROVE  FindPath([group |-> g, order |-> orders, target |-> Greater(c)], Candidate(c))
              \in Circles(g, c) \cup {<<>>}
  <1> DEFINE in == [group |-> g, order |-> orders, target |-> Greater(c)]
             start == [queue |-> <<Candidate(c)>>, reached |-> {}, best |-> <<>>]
             items == Turns(g)
             N == Len(items)
             W == [n \in 0 .. N |-> Searches(g, c)]
             end == Searching!Loop(in, start, items)
  <1>1. N \in Nat
    BY IdsAreNumbers DEF Turns
  <1>2. start \in Searches(g, c)
    <2>1. <<Candidate(c)>> \in Seq(Candidates(g, c))
      BY FirstCandidate
    <2>2. QED
      BY <2>1 DEF Searches
  <1>3. ASSUME NEW n \in 1 .. N, NEW s \in W[n - 1]
        PROVE  Search(in, s, items[n]) \in W[n]
    <2>1. s \in Searches(g, c) /\ W[n] = Searches(g, c)
      BY <1>1
    <2>2. QED
      BY <2>1, ContinuePathKeeps DEF Search
  <1>4. W[0] = Searches(g, c) /\ W[N] = Searches(g, c)
    BY <1>1
  <1>5. FindPath(in, Candidate(c)) = end.best
    BY DEF FindPath
  <1> HIDE DEF W, in, start, items
  <1>6. end \in Searches(g, c)
    BY <1>1, <1>2, <1>3, <1>4, Searching!LoopInvariant
  <1>7. end.best \in Circles(g, c) \cup {<<>>}
    BY <1>6 DEF Searches
  <1>8. QED
    BY <1>5, <1>7 DEF in

\* A circle that is told from its first constraint.
Told(g, c) ==
    {path \in Seq(Stated(g)) :
        /\ Len(path) > 0 /\ HasLocation(path[1])
        /\ c \in ToSet(path)
        /\ <<Lesser(c), Greater(c)>> \in Covers(g)
        /\ Ring(g, path)}

\* A sequence from some place on, and then from its beginning.
Turned(path, r, p) ==
    /\ Len(r) = Len(path)
    /\ \A k \in 1 .. Len(path) :
          LET M == Len(path) - p + 1
          IN  r[k] = IF k <= M THEN path[p - 1 + k] ELSE path[k - M]

LEMMA Rotated ==
    ASSUME NEW S, NEW path \in Seq(S), NEW p \in 1 .. Len(path)
    PROVE  LET r == SubSeq(path, p, Len(path)) \o SubSeq(path, 1, p - 1)
           IN  r \in Seq(S) /\ Turned(path, r, p) /\ r[1] = path[p] /\ ToSet(r) = ToSet(path)
  <1> DEFINE L == Len(path)
             M == L - p + 1
             front == SubSeq(path, p, L)
             back == SubSeq(path, 1, p - 1)
             r == front \o back
  <1>1. L \in Nat /\ p \in Nat /\ 1 <= p /\ p <= L /\ M \in Nat /\ M >= 1
    OBVIOUS
  <1>2. front \in Seq(S) /\ Len(front) = M /\ \A k \in 1 .. M : front[k] = path[p - 1 + k]
    OBVIOUS
  <1>3. back \in Seq(S) /\ Len(back) = p - 1 /\ \A k \in 1 .. p - 1 : back[k] = path[k]
    OBVIOUS
  <1> HIDE DEF front, back
  <1>4. /\ r \in Seq(S) /\ Len(r) = M + (p - 1)
        /\ \A k \in 1 .. M + (p - 1) : r[k] = IF k <= M THEN front[k] ELSE back[k - M]
    BY <1>1, <1>2, <1>3
  <1> HIDE DEF r
  <1>5. Len(r) = L
    BY <1>1, <1>4
  <1>6. ASSUME NEW k \in 1 .. L
        PROVE  r[k] = IF k <= M THEN path[p - 1 + k] ELSE path[k - M]
    <2>1. k \in 1 .. M + (p - 1)
      BY <1>1
    <2>2. CASE k <= M
      <3>1. k \in 1 .. M
        BY <1>1, <2>2
      <3>2. QED
        BY <1>2, <1>4, <2>1, <2>2, <3>1
    <2>3. CASE ~(k <= M)
      <3>1. k - M \in 1 .. p - 1
        BY <1>1, <2>1, <2>3
      <3>2. QED
        BY <1>3, <1>4, <2>1, <2>3, <3>1
    <2>4. QED
      BY <2>2, <2>3
  <1>7. r[1] = path[p]
    BY <1>1, <1>6
  <1>8. ToSet(r) = ToSet(path)
    <2>1. DOMAIN r = 1 .. L /\ DOMAIN path = 1 .. L
      BY <1>4, <1>5
    <2>2. ASSUME NEW k \in 1 .. L
          PROVE  \E j \in 1 .. L : r[k] = path[j]
      <3>1. CASE k <= M
        <4>1. p - 1 + k \in 1 .. L
          BY <1>1, <3>1
        <4>2. QED
          BY <1>6, <3>1, <4>1
      <3>2. CASE ~(k <= M)
        <4>1. k - M \in 1 .. L
          BY <1>1, <3>2
        <4>2. QED
          BY <1>6, <3>2, <4>1
      <3>3. QED
        BY <3>1, <3>2
    <2>3. ASSUME NEW j \in 1 .. L
          PROVE  \E k \in 1 .. L : path[j] = r[k]
      <3>1. CASE j >= p
        <4> DEFINE k == j - p + 1
        <4>1. k \in 1 .. L /\ k <= M /\ p - 1 + k = j
          BY <1>1, <3>1
        <4>2. path[j] = r[k]
          BY <1>6, <4>1
        <4>3. QED
          BY <4>1, <4>2
      <3>2. CASE ~(j >= p)
        <4> DEFINE k == j + M
        <4>1. k \in 1 .. L /\ ~(k <= M) /\ k - M = j
          BY <1>1, <3>2
        <4>2. path[j] = r[k]
          BY <1>6, <4>1
        <4>3. QED
          BY <4>1, <4>2
      <3>3. QED
        BY <3>1, <3>2
    <2>4. ToSet(r) = {r[k] : k \in 1 .. L} /\ ToSet(path) = {path[k] : k \in 1 .. L}
      BY <2>1 DEF ToSet
    <2>5. QED
      BY <2>2, <2>3, <2>4
  <1>9. QED
    BY <1>4, <1>5, <1>6, <1>7, <1>8 DEF Turned, r, front, back

\* A circle goes on where it began.
LEMMA RotatedRing ==
    ASSUME NEW g, NEW path, NEW r, Len(path) \in Nat, NEW p \in 1 .. Len(path),
           Turned(path, r, p), Ring(g, path)
    PROVE  Ring(g, r)
  <1> DEFINE L == Len(path)
             M == L - p + 1
  <1>1. PICK nodes : Along(g, path, nodes) /\ nodes[0] = nodes[L]
    BY DEF Ring
  <1>2. /\ Len(r) = L
         /\ \A k \in 1 .. L : r[k] = IF k <= M THEN path[p - 1 + k] ELSE path[k - M]
    BY DEF Turned
  <1> DEFINE walk == [k \in 0 .. L |-> IF k <= M THEN nodes[p - 1 + k] ELSE nodes[k - M]]
  <1>3. L \in Nat /\ p \in Nat /\ 1 <= p /\ p <= L /\ M \in Nat /\ M >= 1 /\ M <= L
    OBVIOUS
  <1>4. /\ nodes \in [0 .. L -> Ids(g)]
        /\ \A k \in 1 .. L : Leads(path[k], nodes[k - 1], nodes[k])
    BY <1>1 DEF Along
  <1>5. \A k \in 0 .. L : walk[k] = IF k <= M THEN nodes[p - 1 + k] ELSE nodes[k - M]
    OBVIOUS
  <1>6. walk \in [0 .. L -> Ids(g)]
    <2>1. ASSUME NEW k \in 0 .. L
          PROVE  (IF k <= M THEN nodes[p - 1 + k] ELSE nodes[k - M]) \in Ids(g)
      <3>1. k <= M => p - 1 + k \in 0 .. L
        BY <1>3
      <3>2. ~(k <= M) => k - M \in 0 .. L
        BY <1>3
      <3>3. QED
        BY <1>4, <3>1, <3>2
    <2>2. QED
      BY <2>1
  <1> HIDE DEF walk
  <1>7. ASSUME NEW k \in 1 .. L
        PROVE  Leads(r[k], walk[k - 1], walk[k])
    <2>1. k \in 0 .. L /\ k - 1 \in 0 .. L
      OBVIOUS
    <2>2. CASE k <= M
      <3> DEFINE j == p - 1 + k
      <3>1. j \in 1 .. L /\ k - 1 <= M /\ p - 1 + (k - 1) = j - 1
        BY <1>3, <2>2
      <3>2. r[k] = path[j] /\ walk[k] = nodes[j] /\ walk[k - 1] = nodes[j - 1]
        BY <1>5, <1>2, <2>1, <2>2, <3>1
      <3>3. QED
        BY <1>4, <3>1, <3>2
    <2>3. CASE ~(k <= M)
      <3> DEFINE j == k - M
      <3>1. j \in 1 .. L
        BY <1>3, <2>3
      <3>2. r[k] = path[j] /\ walk[k] = nodes[j]
        BY <1>5, <1>2, <2>1, <2>3
      <3>3. walk[k - 1] = nodes[j - 1]
        <4>1. CASE k - 1 <= M
          <5>1. k - 1 = M /\ p - 1 + M = L /\ j - 1 = 0
            BY <1>3, <2>3, <4>1
          <5>2. walk[k - 1] = nodes[L]
            BY <1>5, <2>1, <4>1, <5>1
          <5>3. QED
            BY <1>1, <5>1, <5>2
        <4>2. CASE ~(k - 1 <= M)
          <5>1. k - 1 - M = j - 1
            BY <1>3
          <5>2. QED
            BY <1>5, <2>1, <4>2, <5>1
        <4>3. QED
          BY <4>1, <4>2
      <3>4. QED
        BY <1>4, <3>1, <3>2, <3>3
    <2>4. QED
      BY <2>2, <2>3
  <1>8. walk[0] = walk[L]
    <2>1. 0 \in 0 .. L /\ L \in 0 .. L
      OBVIOUS
    <2>2. walk[0] = nodes[p - 1]
      <3>1. 0 <= M /\ p - 1 + 0 = p - 1
        BY <1>3
      <3>2. QED
        BY <1>5, <2>1, <3>1
    <2>3. CASE L <= M
      <3>1. p = 1 /\ p - 1 + L = L /\ p - 1 = 0
        BY <1>3, <2>3
      <3>2. walk[L] = nodes[L]
        BY <1>5, <2>1, <2>3, <3>1
      <3>3. QED
        BY <1>1, <2>2, <3>1, <3>2
    <2>4. CASE ~(L <= M)
      <3>1. L - M = p - 1
        BY <1>3
      <3>2. walk[L] = nodes[p - 1]
        BY <1>5, <2>1, <2>4, <3>1
      <3>3. QED
        BY <2>2, <3>2
    <2>5. QED
      BY <2>3, <2>4
  <1>9. Along(g, r, walk)
    BY <1>6, <1>7, <1>2 DEF Along
  <1>10. QED
    BY <1>8, <1>9, <1>2 DEF Ring

LEMMA FirstLocated ==
    ASSUME NEW S, NEW path \in Seq(S), Located(path)
    PROVE  \E i \in DOMAIN path :
              HasLocation(path[i]) /\ \A j \in 1 .. i - 1 : ~HasLocation(path[j])
  <1> DEFINE L == Len(path)
             located == {i \in 1 .. L : HasLocation(path[i])}
  <1>1. L \in Nat /\ DOMAIN path = 1 .. L
    OBVIOUS
  <1>2. located \subseteq Nat /\ located # {}
    BY <1>1 DEF Located
  <1>3. PICK i \in located : \A j \in located : i <= j
    BY <1>2, LeastNumber
  <1>4. ASSUME NEW j \in 1 .. i - 1
        PROVE  ~HasLocation(path[j])
    <2>1. j \in 1 .. L /\ ~(i <= j)
      BY <1>1
    <2>2. QED
      BY <1>3, <2>1
  <1>5. QED
    BY <1>1, <1>3, <1>4

LEMMA RotateTells ==
    ASSUME NEW g, NEW c, NEW path \in Circles(g, c)
    PROVE  Rotate(path) \in Told(g, c)
  <1> DEFINE Pivot(i) == HasLocation(path[i]) /\ \A j \in 1 .. i - 1 : ~HasLocation(path[j])
             pivot == CHOOSE i \in DOMAIN path : Pivot(i)
             L == Len(path)
             r == SubSeq(path, pivot, L) \o SubSeq(path, 1, pivot - 1)
  <1>1. /\ path \in Seq(Stated(g)) /\ c \in ToSet(path) /\ Located(path)
        /\ <<Lesser(c), Greater(c)>> \in Covers(g)
    BY DEF Circles
  <1>2. Ring(g, path)
    BY DEF Circles
  <1>3. L \in Nat /\ DOMAIN path = 1 .. L
    BY <1>1
  <1>4. \E i \in DOMAIN path : Pivot(i)
    BY <1>1, FirstLocated
  <1>5. pivot \in 1 .. L /\ Pivot(pivot)
    BY <1>3, <1>4
  <1>6. Rotate(path) = r
    BY <1>3, <1>5 DEF Rotate
  <1> HIDE DEF pivot
  <1>7. r \in Seq(Stated(g)) /\ Turned(path, r, pivot) /\ r[1] = path[pivot]
        /\ ToSet(r) = ToSet(path)
    BY <1>1, <1>5, Rotated
  <1> HIDE DEF r
  <1>8. Ring(g, r)
    BY <1>2, <1>3, <1>5, <1>7, RotatedRing
  <1>9. Len(r) > 0 /\ HasLocation(r[1])
    BY <1>3, <1>5, <1>7 DEF Turned
  <1>10. r \in Told(g, c)
    BY <1>1, <1>7, <1>8, <1>9 DEF Told
  <1>11. QED
    BY <1>6, <1>10

\* Walking along a path arrives where it leads.
LEMMA WalkingArrives ==
    ASSUME NEW g, Referring(g), NEW path \in Seq(Stated(g)), NEW nodes, Along(g, path, nodes)
    PROVE  nodes[Len(path)] \in Walking!Loop(g, {nodes[0]}, path)
  <1> DEFINE L == Len(path)
             W == [n \in 0 .. L |-> {S \in SUBSET Ids(g) : nodes[n] \in S}]
             start == {nodes[0]}
  <1>1. L \in Nat /\ \A k \in 1 .. L : path[k] \in Stated(g)
    OBVIOUS
  <1>2. /\ \A k \in 0 .. L : nodes[k] \in Ids(g)
        /\ \A k \in 1 .. L : Leads(path[k], nodes[k - 1], nodes[k])
    BY DEF Along
  <1>3. start \in W[0]
    BY <1>1, <1>2
  <1>4. ASSUME NEW n \in 1 .. L, NEW S \in W[n - 1]
        PROVE  Walk(g, S, path[n]) \in W[n]
    <2> DEFINE c == path[n]
               x == nodes[n - 1]
               y == nodes[n]
    <2>1. n - 1 \in 0 .. L /\ n \in 0 .. L
      BY <1>1
    <2>2. S \in SUBSET Ids(g) /\ x \in S
      BY <2>1
    <2>3. c \in Stated(g) /\ Leads(c, x, y) /\ x \in Ids(g) /\ y \in Ids(g)
      BY <1>1, <1>2, <2>1
    <2> HIDE DEF c, x, y
    <2>4. c.left \in Ids(g) /\ c.right \in Ids(g) /\ Lesser(c) \in Ids(g)
      BY <2>3, StatedConstraints, EndsAreLifetimes
    <2>5. Walk(g, S, c) \in SUBSET Ids(g)
      BY <2>4 DEF Walk
    <2>6. ASSUME c.rel = "="
          PROVE  y \in Walk(g, S, c)
      <3>1. Equals(c, x) /\ y = Other(c, x)
        BY <2>3, <2>6 DEF Leads, Outlives
      <3>2. y \in {c.left, c.right} /\ {x, y} = {c.left, c.right}
        <4>1. CASE c.left = x
          BY <3>1, <4>1 DEF Other
        <4>2. CASE c.left # x
          <5>1. c.right = x /\ y = c.left
            BY <3>1, <4>2 DEF Equals, Other
          <5>2. QED
            BY <5>1
        <4>3. QED
          BY <4>1, <4>2
      <3>3. QED
        BY <2>2, <2>6, <3>2 DEF Walk
    <2>7. ASSUME c.rel # "="
          PROVE  y \in Walk(g, S, c)
      <3>1. Greater(c) = x /\ y = Lesser(c)
        BY <2>3, <2>7 DEF Leads, Outlives, Equals
      <3>2. QED
        BY <2>2, <2>7, <3>1 DEF Walk
    <2>8. QED
      BY <2>1, <2>5, <2>6, <2>7 DEF c, y
  <1> HIDE DEF W, start
  <1>5. Walking!Loop(g, start, path) \in W[L]
    BY <1>1, <1>3, <1>4, Walking!LoopInvariant
  <1>6. QED
    BY <1>1, <1>5 DEF W, start

-----------------------------------------------------------------------------
(* ConflictDetector: what it finds, and that it finds everything. *)

Places == Locations \cup {NoLocation}

Errors(g) == UNION {[D -> [of : Stated(g), path : Seq(Stated(g))]] : D \in SUBSET Places}

\* Equal orders where a constraint is violated, and no way to meet it.
Hopeless(g, orders, c) ==
    orders[c.left] = orders[c.right] /\ <<Lesser(c), Greater(c)>> \in Covers(g)

Caused(g, orders, at, error) ==
    /\ Violated(orders, error.of) /\ Hopeless(g, orders, error.of)
    /\ error.path \in Told(g, error.of)
    /\ error.path[1].at = at

Findings(g, orders, n) ==
    {found \in [threw : {"nothing", "orders differ", "no path"}, candidates : Errors(g)] :
        /\ found.threw = "nothing" =>
              \A j \in 1 .. n : LET c == g.constraints[j]
                                IN  Violated(orders, c) =>
                                       /\ Hopeless(g, orders, c)
                                       /\ Counterexample(g, orders, c) # <<>>
        /\ \A at \in DOMAIN found.candidates :
              Caused(g, orders, at, found.candidates[at])}

LEMMA CounterexampleTells ==
    ASSUME NEW g, Referring(g), NEW orders, NEW c \in Stated(g), c.rel # "=",
           Counterexample(g, orders, c) # <<>>
    PROVE  Counterexample(g, orders, c) \in Told(g, c)
  <1> DEFINE found == FindPath([group |-> g, order |-> orders, target |-> Greater(c)],
                               Candidate(c))
  <1>1. found \in Circles(g, c) \cup {<<>>}
    BY FoundCircle
  <1>2. Counterexample(g, orders, c) = Rotate(found)
    BY DEF Counterexample
  <1> HIDE DEF found
  <1>3. found # <<>>
    <2>1. Rotate(<<>>) = <<>>
      BY DEF Rotate
    <2>2. QED
      BY <1>2, <2>1
  <1>4. QED
    BY <1>1, <1>2, <1>3, RotateTells

LEMMA QueueErrorKeeps ==
    ASSUME NEW g, Referring(g), NEW orders, NEW errors \in Errors(g),
           \A at \in DOMAIN errors : Caused(g, orders, at, errors[at]),
           NEW c \in Stated(g), Violated(orders, c), Hopeless(g, orders, c),
           NEW path \in Told(g, c)
    PROVE  LET more == QueueError(errors, c, path)
           IN  more \in Errors(g) /\ \A at \in DOMAIN more : Caused(g, orders, at, more[at])
  <1> DEFINE here == path[1].at
             error == [of |-> c, path |-> path]
             more == QueueError(errors, c, path)
             added == Enter(errors, here, error)
  <1>1. PICK D \in SUBSET Places : errors \in [D -> [of : Stated(g), path : Seq(Stated(g))]]
    BY DEF Errors
  <1>2. path \in Seq(Stated(g)) /\ Len(path) > 0
    BY DEF Told
  <1>3. here \in Places
    <2>1. path[1] \in Constraint
      BY <1>2, StatedConstraints
    <2>2. QED
      BY <2>1 DEF Constraint, Places
  <1>4. error \in [of : Stated(g), path : Seq(Stated(g))]
    BY <1>2
  <1>5. added = [l \in D \cup {here} |-> IF l = here THEN error ELSE errors[l]]
    BY <1>1 DEF Enter
  <1>6. Caused(g, orders, here, error)
    BY DEF Caused
  <1> HIDE DEF error, here
  <1>7. added \in [D \cup {here} -> [of : Stated(g), path : Seq(Stated(g))]]
    BY <1>1, <1>4, <1>5
  <1>8. D \cup {here} \in SUBSET Places
    BY <1>3
  <1>9. added \in Errors(g)
    BY <1>7, <1>8 DEF Errors
  <1>10. \A at \in DOMAIN added : Caused(g, orders, at, added[at])
    BY <1>1, <1>5, <1>6
  <1>11. more \in {errors, added}
    BY DEF QueueError, error, here
  <1>12. QED
    BY <1>9, <1>10, <1>11

LEMMA CheckConflictKeeps ==
    ASSUME NEW g, Referring(g), NEW orders, NEW n \in DOMAIN g.constraints,
           NEW found \in Findings(g, orders, n - 1)
    PROVE  CheckConflict([group |-> g, order |-> orders], found, g.constraints[n])
              \in Findings(g, orders, n)
  <1> DEFINE c == g.constraints[n]
             in == [group |-> g, order |-> orders]
             path == Counterexample(g, orders, c)
             next == CheckConflict(in, found, c)
             Fine(j) == LET d == g.constraints[j]
                        IN  Violated(orders, d) =>
                               Hopeless(g, orders, d) /\ Counterexample(g, orders, d) # <<>>
  <1>1. /\ found \in [threw : {"nothing", "orders differ", "no path"}, candidates : Errors(g)]
        /\ found.threw = "nothing" => \A j \in 1 .. n - 1 : Fine(j)
        /\ \A at \in DOMAIN found.candidates : Caused(g, orders, at, found.candidates[at])
    BY DEF Findings
  <1>2. \A j \in 1 .. n : j = n \/ j \in 1 .. n - 1
    BY IdsAreNumbers
  <1>3. c \in Stated(g)
    BY StatedConstraints
  <1> HIDE DEF path
  <1>4. CASE found.threw # "nothing"
    <2>1. next = found
      BY <1>4 DEF CheckConflict
    <2>2. QED
      BY <1>1, <1>4, <2>1 DEF Findings
  <1>5. CASE found.threw = "nothing" /\ ~Violated(orders, c)
    <2>1. next = found
      BY <1>5 DEF CheckConflict
    <2>2. \A j \in 1 .. n : Fine(j)
      BY <1>1, <1>2, <1>5
    <2>3. QED
      BY <1>1, <2>1, <2>2 DEF Findings
  <1>6. CASE found.threw = "nothing" /\ Violated(orders, c)
             /\ (orders[c.left] # orders[c.right] \/ path = <<>>)
    <2>1. next \in {[found EXCEPT !.threw = "orders differ"], [found EXCEPT !.threw = "no path"]}
      BY <1>6 DEF CheckConflict, path
    <2>2. /\ next \in [threw : {"nothing", "orders differ", "no path"}, candidates : Errors(g)]
          /\ next.threw # "nothing" /\ next.candidates = found.candidates
      BY <1>1, <2>1
    <2> HIDE DEF next
    <2>3. QED
      BY <1>1, <2>2 DEF Findings, next
  <1>7. CASE found.threw = "nothing" /\ Violated(orders, c)
             /\ orders[c.left] = orders[c.right] /\ path # <<>>
    <2> DEFINE errors == QueueError(found.candidates, c, path)
    <2>1. next = [found EXCEPT !.candidates = errors]
      BY <1>7 DEF CheckConflict, path
    <2>2. path \in Told(g, c)
      <3>1. c.rel # "="
        BY <1>7 DEF Violated
      <3>2. QED
        BY <1>3, <1>7, <3>1, CounterexampleTells DEF path
    <2>3. Hopeless(g, orders, c)
      BY <1>7, <2>2 DEF Told, Hopeless
    <2>4. errors \in Errors(g) /\ \A at \in DOMAIN errors : Caused(g, orders, at, errors[at])
      BY <1>1, <1>3, <1>7, <2>2, <2>3, QueueErrorKeeps
    <2> HIDE DEF errors, next
    <2>5. /\ next \in [threw : {"nothing", "orders differ", "no path"}, candidates : Errors(g)]
          /\ next.threw = "nothing" /\ next.candidates = errors
      BY <1>1, <1>7, <2>1, <2>4
    <2>6. \A j \in 1 .. n : Fine(j)
      BY <1>1, <1>2, <1>7, <2>3 DEF path
    <2>7. QED
      BY <2>4, <2>5, <2>6 DEF Findings, next
  <1>8. QED
    BY <1>4, <1>5, <1>6, <1>7

LEMMA ConflictsDetected ==
    ASSUME NEW g, Referring(g), NEW orders
    PROVE  DetectAllConflicts(g, orders) \in Findings(g, orders, Len(g.constraints))
  <1> DEFINE N == Len(g.constraints)
             in == [group |-> g, order |-> orders]
             start == [threw |-> "nothing", candidates |-> NoErrors]
             W == [n \in 0 .. N |-> Findings(g, orders, n)]
             found == Checking!Loop(in, start, g.constraints)
  <1>1. N \in Nat /\ DOMAIN g.constraints = 1 .. N
    BY IdsAreNumbers
  <1>2. start \in W[0]
    <2>1. DOMAIN NoErrors = {} /\ NoErrors \in [{} -> [of : Stated(g), path : Seq(Stated(g))]]
      BY DEF NoErrors
    <2>2. NoErrors \in Errors(g)
      <3>1. {} \in SUBSET Places
        OBVIOUS
      <3>2. QED
        BY <2>1, <3>1 DEF Errors
    <2> HIDE DEF start
    <2>3. start.threw = "nothing" /\ start.candidates = NoErrors
          /\ start \in [threw : {"nothing", "orders differ", "no path"}, candidates : Errors(g)]
      BY <2>2 DEF start
    <2>4. start \in Findings(g, orders, 0)
      <3>1. DOMAIN start.candidates = {}
        BY <2>1, <2>3
      <3>2. \A j \in 1 .. 0 : FALSE
        OBVIOUS
      <3>3. QED
        BY <2>3, <3>1, <3>2 DEF Findings
    <2>5. QED
      BY <1>1, <2>4
  <1>3. ASSUME NEW n \in 1 .. N, NEW s \in W[n - 1]
        PROVE  CheckConflict(in, s, g.constraints[n]) \in W[n]
    <2>1. n - 1 \in 0 .. N /\ n \in 0 .. N /\ n \in DOMAIN g.constraints
      BY <1>1
    <2>2. s \in Findings(g, orders, n - 1)
      BY <2>1
    <2>3. CheckConflict(in, s, g.constraints[n]) \in Findings(g, orders, n)
      BY <2>1, <2>2, CheckConflictKeeps
    <2>4. QED
      BY <2>1, <2>3
  <1> HIDE DEF W, in, start
  <1>4. found \in W[N]
    BY <1>1, <1>2, <1>3, Checking!LoopInvariant
  <1>5. found \in Findings(g, orders, N)
    BY <1>1, <1>4 DEF W
  <1>6. QED
    BY <1>5 DEF DetectAllConflicts, in, start

-----------------------------------------------------------------------------
(* The verdict. *)

LEMMA ImpossibleMeans ==
    ASSUME NEW g, NEW i
    PROVE  i \in Impossible(g) <=>
              /\ i \in DOMAIN g.constraints
              /\ Strict(g.constraints[i])
              /\ <<Lesser(g.constraints[i]), Greater(g.constraints[i])>> \in Covers(g)
  BY DEF Impossible

LEMMA ViolatedIsStrict ==
    ASSUME NEW g, Referring(g), NEW orders \in [Ids(g) -> Nat], NEW i \in DOMAIN g.constraints,
           Violated(orders, g.constraints[i]), Hopeless(g, orders, g.constraints[i])
    PROVE  Strict(g.constraints[i]) /\ i \in Impossible(g)
  <1> DEFINE c == g.constraints[i]
  <1>1. c.left \in Ids(g) /\ c.right \in Ids(g)
    BY EndsAreLifetimes
  <1>2. orders[c.left] \in Nat /\ orders[c.right] \in Nat
    BY <1>1
  <1>3. Strict(c)
    BY <1>2 DEF Violated, Hopeless, Strict
  <1>4. QED
    BY <1>3, ImpossibleMeans DEF Hopeless

\* Along a constraint that is kept, or has its lifetimes in one class, the
\* order does not rise.
LEMMA OrdersDescend ==
    ASSUME NEW g, Referring(g), NEW orders \in [Ids(g) -> Nat], Matching(g, orders),
           \A i \in DOMAIN g.constraints :
              Violated(orders, g.constraints[i]) => Hopeless(g, orders, g.constraints[i]),
           NEW x \in Ids(g), NEW y \in Below(g, {x})
    PROVE  orders[y] <= orders[x]
  <1>1. PICK i \in DOMAIN g.constraints :
           \/ Outlives(g.constraints[i], x) /\ y = Lesser(g.constraints[i])
           \/ Equals(g.constraints[i], x) /\ y = Other(g.constraints[i], x)
    BY BelowMeans
  <1> DEFINE c == g.constraints[i]
  <1>2. c.left \in Ids(g) /\ c.right \in Ids(g) /\ c.rel \in Relations
    BY EndsAreLifetimes, IdsAreNumbers DEF Constraint
  <1>3. orders[c.left] \in Nat /\ orders[c.right] \in Nat
    BY <1>2
  <1>4. CASE Outlives(c, x) /\ y = Lesser(c)
    <2>1. Violated(orders, c) => orders[c.left] = orders[c.right]
      BY DEF Hopeless
    <2>2. orders[Lesser(c)] <= orders[Greater(c)]
      <3>1. c.rel \in {">", ">=", "<=", "<"}
        BY <1>2, <1>4 DEF Outlives, Relations
      <3>2. QED
        BY <1>3, <2>1, <3>1 DEF Violated, Lesser, Greater
    <2>3. QED
      BY <1>4, <2>2 DEF Outlives
  <1>5. CASE Equals(c, x) /\ y = Other(c, x)
    <2>1. orders[c.left] = orders[c.right]
      BY <1>5 DEF Equals, Matching
    <2>2. x \in {c.left, c.right} /\ y \in {c.left, c.right}
      BY <1>5 DEF Equals, Other
    <2>3. QED
      BY <1>3, <2>1, <2>2
  <1>6. QED
    BY <1>1, <1>4, <1>5

LEMMA ImpossibleIsViolated ==
    ASSUME NEW g, Referring(g), NEW orders \in [Ids(g) -> Nat], Matching(g, orders),
           \A i \in DOMAIN g.constraints :
              Violated(orders, g.constraints[i]) => Hopeless(g, orders, g.constraints[i]),
           NEW i \in Impossible(g)
    PROVE  Violated(orders, g.constraints[i])
  <1> DEFINE c == g.constraints[i]
             bound == orders[Lesser(c)]
             X == {x \in Ids(g) : orders[x] <= bound}
  <1>1. /\ i \in DOMAIN g.constraints /\ Strict(c)
        /\ <<Lesser(c), Greater(c)>> \in Covers(g)
    BY ImpossibleMeans
  <1>2. Lesser(c) \in Ids(g) /\ Greater(c) \in Ids(g)
    BY <1>1, EndsAreLifetimes
  <1>3. \A x \in Ids(g) : orders[x] \in Nat
    OBVIOUS
  <1> HIDE DEF c
  <1>4. Lesser(c) \in X
    BY <1>2, <1>3
  <1>5. \A x \in X : Below(g, {x}) \subseteq X
    <2>1. SUFFICES ASSUME NEW x \in X, NEW y \in Below(g, {x})
                   PROVE  y \in X
      OBVIOUS
    <2>2. y \in Ids(g) /\ x \in Ids(g) /\ orders[x] <= bound
      BY BelowLifetimes
    <2>3. orders[y] <= orders[x]
      BY <2>2, OrdersDescend
    <2>4. QED
      BY <1>2, <1>3, <2>2, <2>3
  <1>6. Greater(c) \in X
    BY <1>1, <1>4, <1>5, CoversStays
  <1>7. orders[Greater(c)] <= orders[Lesser(c)]
    BY <1>6
  <1>8. Violated(orders, c)
    BY <1>1, <1>2, <1>3, <1>7 DEF Strict, Violated, Greater, Lesser
  <1>9. QED
    BY <1>8 DEF c

\* The verdict on a group, as the properties state it.
Verdict(g, solved) ==
    IF solved.threw = "nothing"
    THEN Impossible(g) =
            {i \in DOMAIN g.constraints : Violated(solved.order, g.constraints[i])}
    ELSE DOMAIN solved.candidates # {} => ~Satisfiable(g)

CausesTold(g, solved) ==
    \A at \in DOMAIN solved.candidates :
        LET path == solved.candidates[at].path
        IN  /\ path[1].at = at /\ at # NoLocation
            /\ ToSet(path) \subseteq ToSet(g.constraints)
            /\ solved.candidates[at].of \in ToSet(path) /\ Strict(solved.candidates[at].of)
            /\ \E start \in Ids(g) : start \in Walking!Loop(g, {start}, path)

LEMMA SolveIsRight ==
    ASSUME SolverUnfolds, NEW g \in Group, Referring(g)
    PROVE  LET solved == Solve(g)
           IN  /\ solved \in [order : [Ids(g) -> Nat],
                              threw : {"nothing", "orders differ", "no path"},
                              candidates : Errors(g)]
               /\ Matching(g, solved.order)
               /\ Verdict(g, solved)
               /\ CausesTold(g, solved)
  <1> DEFINE orders == Build(g)
             found == DetectAllConflicts(g, orders)
             solved == Solve(g)
             N == Len(g.constraints)
  <1>1. orders \in [Ids(g) -> Nat] /\ Matching(g, orders)
    BY BuildMatches
  <1>2. found \in Findings(g, orders, N)
    BY ConflictsDetected
  <1>3. solved = [order |-> orders, threw |-> found.threw, candidates |-> found.candidates]
    BY DEF Solve
  <1> HIDE DEF orders, found, solved
  <1>4. /\ found.threw \in {"nothing", "orders differ", "no path"}
        /\ found.candidates \in Errors(g)
        /\ \A at \in DOMAIN found.candidates : Caused(g, orders, at, found.candidates[at])
    BY <1>2 DEF Findings
  <1>5. solved.order = orders /\ solved.threw = found.threw
        /\ solved.candidates = found.candidates
    BY <1>3
  <1>6. solved \in [order : [Ids(g) -> Nat], threw : {"nothing", "orders differ", "no path"},
                    candidates : Errors(g)]
    BY <1>1, <1>3, <1>4
  <1>7. ASSUME NEW at \in DOMAIN found.candidates
        PROVE  LET error == found.candidates[at]
               IN  /\ error.of \in Stated(g)
                   /\ Strict(error.of) /\ ~Satisfiable(g)
    <2> DEFINE error == found.candidates[at]
    <2>1. error \in [of : Stated(g), path : Seq(Stated(g))]
      BY <1>4 DEF Errors
    <2>2. PICK i \in DOMAIN g.constraints : error.of = g.constraints[i]
      BY <2>1, StatedConstraints
    <2>3. Violated(orders, error.of) /\ Hopeless(g, orders, error.of)
      BY <1>4 DEF Caused
    <2>4. Strict(error.of) /\ i \in Impossible(g)
      BY <1>1, <2>2, <2>3, ViolatedIsStrict
    <2>5. QED
      BY <2>1, <2>4 DEF Satisfiable
  <1>8. ASSUME solved.threw = "nothing"
        PROVE  Verdict(g, solved)
    <2>1. \A i \in DOMAIN g.constraints :
             Violated(orders, g.constraints[i]) => Hopeless(g, orders, g.constraints[i])
      BY <1>2, <1>5, <1>8, IdsAreNumbers DEF Findings
    <2>2. \A i \in DOMAIN g.constraints :
             Violated(orders, g.constraints[i]) => i \in Impossible(g)
      BY <1>1, <2>1, ViolatedIsStrict
    <2>3. \A i \in Impossible(g) :
             i \in DOMAIN g.constraints /\ Violated(orders, g.constraints[i])
      BY <1>1, <2>1, ImpossibleIsViolated, ImpossibleMeans
    <2>4. Impossible(g) = {i \in DOMAIN g.constraints : Violated(orders, g.constraints[i])}
      BY <2>2, <2>3
    <2>5. QED
      BY <1>5, <1>8, <2>4 DEF Verdict
  <1>9. Verdict(g, solved)
    <2>1. CASE solved.threw # "nothing"
      BY <1>5, <1>7, <2>1 DEF Verdict
    <2>2. QED
      BY <1>8, <2>1
  <1>10. CausesTold(g, solved)
    <2>1. SUFFICES ASSUME NEW at \in DOMAIN found.candidates
                   PROVE  LET path == found.candidates[at].path
                          IN  /\ path[1].at = at /\ at # NoLocation
                              /\ ToSet(path) \subseteq ToSet(g.constraints)
                              /\ found.candidates[at].of \in ToSet(path)
                              /\ Strict(found.candidates[at].of)
                              /\ \E start \in Ids(g) : start \in Walking!Loop(g, {start}, path)
      BY <1>5 DEF CausesTold
    <2> DEFINE c == found.candidates[at].of
               path == found.candidates[at].path
    <2>2. path \in Told(g, c) /\ path[1].at = at
      BY <1>4 DEF Caused
    <2>3. Strict(c)
      BY <1>7
    <2> HIDE DEF c, path
    <2>4. /\ path \in Seq(Stated(g)) /\ HasLocation(path[1]) /\ c \in ToSet(path)
          /\ Ring(g, path)
      BY <2>2 DEF Told
    <2>5. ToSet(path) \subseteq Stated(g)
      BY <2>4 DEF ToSet
    <2>6. PICK nodes : Along(g, path, nodes) /\ nodes[0] = nodes[Len(path)]
      BY <2>4 DEF Ring
    <2>7. nodes[0] \in Ids(g)
      <3>1. Len(path) \in Nat
        BY <2>4
      <3>2. QED
        BY <2>6, <3>1 DEF Along
    <2>8. nodes[0] \in Walking!Loop(g, {nodes[0]}, path)
      BY <2>4, <2>6, WalkingArrives
    <2>9. at # NoLocation
      BY <2>2, <2>4 DEF HasLocation
    <2>10. QED
      BY <2>2, <2>3, <2>4, <2>5, <2>7, <2>8, <2>9 DEF Stated, c, path
  <1>11. QED
    BY <1>1, <1>5, <1>6, <1>9, <1>10 DEF solved

-----------------------------------------------------------------------------
(* Distances: how many constraints it takes from one lifetime to another.  *)

\* Each lifetime but the first is the one before it or lies directly below.
Chain(g, nodes, n) ==
    /\ nodes \in [0 .. n -> Ids(g)]
    /\ \A m \in 1 .. n : nodes[m] = nodes[m - 1] \/ nodes[m] \in Below(g, {nodes[m - 1]})

\* No more than n constraints lead from a to b.
Within(g, a, b, n) == \E nodes : Chain(g, nodes, n) /\ nodes[0] = a /\ nodes[n] = b

LEMMA WithinNothing ==
    ASSUME NEW g, NEW a \in Ids(g), NEW b
    PROVE  Within(g, a, b, 0) <=> a = b
  <1>1. ASSUME a = b
        PROVE  Within(g, a, b, 0)
    <2> DEFINE nodes == [m \in 0 .. 0 |-> a]
    <2>1. nodes[0] = a /\ nodes \in [0 .. 0 -> Ids(g)]
      OBVIOUS
    <2> HIDE DEF nodes
    <2>2. Chain(g, nodes, 0)
      BY <2>1 DEF Chain
    <2>3. QED
      BY <1>1, <2>1, <2>2 DEF Within
  <1>2. QED
    BY <1>1 DEF Within

LEMMA WithinJoined ==
    ASSUME NEW g, NEW a, NEW b, NEW x, NEW m \in Nat, NEW n \in Nat,
           Within(g, a, x, m), Within(g, x, b, n)
    PROVE  Within(g, a, b, m + n)
  <1>1. PICK first : Chain(g, first, m) /\ first[0] = a /\ first[m] = x
    BY DEF Within
  <1>2. PICK second : Chain(g, second, n) /\ second[0] = x /\ second[n] = b
    BY DEF Within
  <1> DEFINE nodes == [i \in 0 .. m + n |-> IF i <= m THEN first[i] ELSE second[i - m]]
  <1>3. /\ \A i \in 0 .. m : first[i] \in Ids(g)
        /\ \A i \in 0 .. n : second[i] \in Ids(g)
    BY <1>1, <1>2 DEF Chain
  <1>4. /\ \A i \in 0 .. m : nodes[i] = first[i]
        /\ \A i \in 0 .. n : nodes[m + i] = second[i]
    <2>1. \A i \in 0 .. m : nodes[i] = first[i]
      OBVIOUS
    <2>2. ASSUME NEW i \in 0 .. n
          PROVE  nodes[m + i] = second[i]
      <3>1. CASE i = 0
        BY <1>1, <1>2, <3>1
      <3>2. CASE i # 0
        <4>1. m + i \in 0 .. m + n /\ ~(m + i <= m) /\ (m + i) - m = i
          BY <3>2
        <4>2. QED
          BY <4>1
      <3>3. QED
        BY <3>1, <3>2
    <2>3. QED
      BY <2>1, <2>2
  <1>5. nodes \in [0 .. m + n -> Ids(g)]
    <2>1. ASSUME NEW i \in 0 .. m + n
          PROVE  nodes[i] \in Ids(g)
      <3>1. CASE i <= m
        <4>1. i \in 0 .. m
          BY <3>1
        <4>2. QED
          BY <1>3, <1>4, <4>1
      <3>2. CASE ~(i <= m)
        <4>1. i - m \in 0 .. n /\ i = m + (i - m)
          BY <3>2
        <4>2. QED
          BY <1>3, <1>4, <4>1
      <3>3. QED
        BY <3>1, <3>2
    <2>2. QED
      BY <2>1
  <1> HIDE DEF nodes
  <1>6. ASSUME NEW i \in 1 .. m + n
        PROVE  nodes[i] = nodes[i - 1] \/ nodes[i] \in Below(g, {nodes[i - 1]})
    <2>1. CASE i <= m
      <3>1. i \in 0 .. m /\ i - 1 \in 0 .. m /\ i \in 1 .. m
        BY <2>1
      <3>2. QED
        BY <1>1, <1>4, <3>1 DEF Chain
    <2>2. CASE ~(i <= m)
      <3>1. PICK j \in 1 .. n : i = m + j
        <4>1. i - m \in 1 .. n /\ i = m + (i - m)
          BY <2>2
        <4>2. QED
          BY <4>1
      <3>2. j \in 0 .. n /\ j - 1 \in 0 .. n /\ i - 1 = m + (j - 1)
        BY <3>1
      <3>3. nodes[i] = second[j] /\ nodes[i - 1] = second[j - 1]
        BY <1>4, <3>1, <3>2
      <3>4. QED
        BY <1>2, <3>1, <3>3 DEF Chain
    <2>3. QED
      BY <2>1, <2>2
  <1>7. nodes[0] = a /\ nodes[m + n] = b
    <2>1. 0 \in 0 .. m /\ n \in 0 .. n
      OBVIOUS
    <2>2. QED
      BY <1>1, <1>2, <1>4, <2>1
  <1>8. QED
    BY <1>5, <1>6, <1>7 DEF Chain, Within

LEMMA WithinParts ==
    ASSUME NEW g, NEW nodes, NEW n \in Nat, Chain(g, nodes, n), NEW i \in 0 .. n
    PROVE  Within(g, nodes[0], nodes[i], i) /\ Within(g, nodes[i], nodes[n], n - i)
  <1> DEFINE front == [j \in 0 .. i |-> nodes[j]]
             back == [j \in 0 .. n - i |-> nodes[i + j]]
  <1>1. /\ \A j \in 0 .. n : nodes[j] \in Ids(g)
        /\ \A m \in 1 .. n : nodes[m] = nodes[m - 1] \/ nodes[m] \in Below(g, {nodes[m - 1]})
    BY DEF Chain
  <1>2. front \in [0 .. i -> Ids(g)] /\ \A j \in 0 .. i : front[j] = nodes[j]
    BY <1>1
  <1>3. back \in [0 .. n - i -> Ids(g)] /\ \A j \in 0 .. n - i : back[j] = nodes[i + j]
    BY <1>1
  <1> HIDE DEF front, back
  <1>4. Chain(g, front, i)
    <2>1. \A m \in 1 .. i : m \in 0 .. i /\ m - 1 \in 0 .. i /\ m \in 1 .. n
      OBVIOUS
    <2>2. QED
      BY <1>1, <1>2, <2>1 DEF Chain
  <1>5. Chain(g, back, n - i)
    <2>1. ASSUME NEW m \in 1 .. n - i
          PROVE  back[m] = back[m - 1] \/ back[m] \in Below(g, {back[m - 1]})
      <3>1. /\ m \in 0 .. n - i /\ m - 1 \in 0 .. n - i
            /\ i + m \in 1 .. n /\ (i + m) - 1 = i + (m - 1)
        OBVIOUS
      <3>2. back[m] = nodes[i + m] /\ back[m - 1] = nodes[(i + m) - 1]
        BY <1>3, <3>1
      <3>3. QED
        BY <1>1, <3>1, <3>2
    <2>2. QED
      BY <1>3, <2>1 DEF Chain
  <1>6. front[0] = nodes[0] /\ front[i] = nodes[i]
    BY <1>2
  <1>7. back[0] = nodes[i] /\ back[n - i] = nodes[n]
    <2>1. 0 \in 0 .. n - i /\ n - i \in 0 .. n - i /\ i + 0 = i /\ i + (n - i) = n
      OBVIOUS
    <2>2. QED
      BY <1>3, <2>1
  <1>8. QED
    BY <1>4, <1>5, <1>6, <1>7 DEF Within

\* One constraint more, or none.
LEMMA WithinOneMore ==
    ASSUME NEW g, Referring(g), NEW a, NEW n \in Nat, NEW b
    PROVE  Within(g, a, b, n + 1) <=>
              \E x \in Ids(g) : Within(g, a, x, n) /\ (b = x \/ b \in Below(g, {x}))
  <1>1. ASSUME Within(g, a, b, n + 1)
        PROVE  \E x \in Ids(g) : Within(g, a, x, n) /\ (b = x \/ b \in Below(g, {x}))
    <2>1. PICK nodes : Chain(g, nodes, n + 1) /\ nodes[0] = a /\ nodes[n + 1] = b
      BY <1>1 DEF Within
    <2>2. n \in 0 .. n + 1 /\ n + 1 \in 1 .. n + 1 /\ (n + 1) - 1 = n
      OBVIOUS
    <2>3. Within(g, a, nodes[n], n)
      BY <2>1, <2>2, WithinParts
    <2>4. nodes[n] \in Ids(g) /\ (b = nodes[n] \/ b \in Below(g, {nodes[n]}))
      BY <2>1, <2>2 DEF Chain
    <2>5. QED
      BY <2>3, <2>4
  <1>2. ASSUME NEW x \in Ids(g), Within(g, a, x, n), b = x \/ b \in Below(g, {x})
        PROVE  Within(g, a, b, n + 1)
    <2> DEFINE step == [m \in 0 .. 1 |-> IF m = 0 THEN x ELSE b]
    <2>1. b \in Ids(g)
      BY <1>2, BelowLifetimes
    <2>2. step \in [0 .. 1 -> Ids(g)] /\ step[0] = x /\ step[1] = b
      BY <2>1
    <2> HIDE DEF step
    <2>3. \A m \in 1 .. 1 : m = 1 /\ m - 1 = 0
      OBVIOUS
    <2>4. Chain(g, step, 1)
      BY <1>2, <2>2, <2>3 DEF Chain
    <2>5. Within(g, x, b, 1)
      BY <2>2, <2>4 DEF Within
    <2>6. QED
      BY <1>2, <2>5, WithinJoined
  <1>3. QED
    BY <1>1, <1>2

LEMMA WithinMore ==
    ASSUME NEW g, Referring(g), NEW a, NEW b, NEW m \in Nat, NEW n \in Nat, m <= n,
           Within(g, a, b, m)
    PROVE  Within(g, a, b, n)
  <1> DEFINE T == {i \in Nat : Within(g, a, b, m + i)}
  <1>1. 0 \in T
    OBVIOUS
  <1>2. ASSUME NEW i \in Nat, i \in T
        PROVE  i + 1 \in T
    <2>1. Within(g, a, b, m + i) /\ m + i \in Nat /\ (m + i) + 1 = m + (i + 1)
      BY <1>2
    <2>2. b \in Ids(g)
      <3>1. PICK nodes : Chain(g, nodes, m) /\ nodes[m] = b
        BY DEF Within
      <3>2. m \in 0 .. m
        OBVIOUS
      <3>3. QED
        BY <3>1, <3>2 DEF Chain
    <2>3. Within(g, a, b, (m + i) + 1)
      BY <2>1, <2>2, WithinOneMore
    <2>4. QED
      BY <2>1, <2>3
  <1> HIDE DEF T
  <1>3. n - m \in T
    <2>1. n - m \in Nat
      OBVIOUS
    <2>2. \A i \in Nat : i \in T
      BY <1>1, <1>2, StepByStep
    <2>3. QED
      BY <2>1, <2>2
  <1>4. m + (n - m) = n
    OBVIOUS
  <1>5. QED
    BY <1>3, <1>4 DEF T

\* No chain leaves a set that no constraint leads out of.
LEMMA WithinStays ==
    ASSUME NEW g, NEW X, \A x \in X : Below(g, {x}) \subseteq X,
           NEW a \in X, NEW b, NEW n \in Nat, Within(g, a, b, n)
    PROVE  b \in X
  <1>1. PICK nodes : Chain(g, nodes, n) /\ nodes[0] = a /\ nodes[n] = b
    BY DEF Within
  <1> DEFINE T == {i \in Nat : i <= n => nodes[i] \in X}
  <1>2. 0 \in T
    BY <1>1
  <1>3. ASSUME NEW i \in Nat, i \in T
        PROVE  i + 1 \in T
    <2>1. SUFFICES ASSUME i + 1 <= n
                   PROVE  nodes[i + 1] \in X
      OBVIOUS
    <2>2. i + 1 \in 1 .. n /\ (i + 1) - 1 = i /\ i <= n
      BY <2>1
    <2>3. nodes[i] \in X
      BY <1>3, <2>2
    <2>4. nodes[i + 1] = nodes[i] \/ nodes[i + 1] \in Below(g, {nodes[i]})
      BY <1>1, <2>2 DEF Chain
    <2>5. QED
      BY <2>3, <2>4
  <1> HIDE DEF T
  <1>4. n \in T
    BY <1>2, <1>3, StepByStep
  <1>5. QED
    BY <1>1, <1>4 DEF T

LEMMA BelowAll ==
    ASSUME NEW g, Referring(g), NEW S \in SUBSET Ids(g)
    PROVE  \A y : y \in Below(g, S) <=> \E x \in S : y \in Below(g, {x})
  <1> DEFINE C == ToSet(g.constraints)
  <1>1. ASSUME NEW y, NEW A
        PROVE  y \in Below(g, A) <=>
                 \E c \in C : \/ c.rel # "=" /\ Greater(c) \in A /\ y = Lesser(c)
                              \/ c.rel = "=" /\ c.left \in A /\ y = c.right
                              \/ c.rel = "=" /\ c.right \in A /\ y = c.left
    BY DEF Below
  <1> HIDE DEF C
  <1>2. ASSUME NEW y, NEW x \in S, y \in Below(g, {x})
        PROVE  y \in Below(g, S)
    <2>1. PICK c \in C : \/ c.rel # "=" /\ Greater(c) \in {x} /\ y = Lesser(c)
                         \/ c.rel = "=" /\ c.left \in {x} /\ y = c.right
                         \/ c.rel = "=" /\ c.right \in {x} /\ y = c.left
      BY <1>1, <1>2
    <2>2. \A z : z \in {x} => z \in S
      OBVIOUS
    <2>3. QED
      BY <1>1, <2>1, <2>2
  <1>3. ASSUME NEW y, y \in Below(g, S)
        PROVE  \E x \in S : y \in Below(g, {x})
    <2>1. PICK c \in C : \/ c.rel # "=" /\ Greater(c) \in S /\ y = Lesser(c)
                         \/ c.rel = "=" /\ c.left \in S /\ y = c.right
                         \/ c.rel = "=" /\ c.right \in S /\ y = c.left
      BY <1>1, <1>3
    <2> DEFINE x == IF c.rel # "=" THEN Greater(c) ELSE IF y = c.right /\ c.left \in S
                    THEN c.left ELSE c.right
    <2>2. /\ x \in S
          /\ \/ c.rel # "=" /\ Greater(c) = x /\ y = Lesser(c)
             \/ c.rel = "=" /\ c.left = x /\ y = c.right
             \/ c.rel = "=" /\ c.right = x /\ y = c.left
      BY <2>1
    <2> HIDE DEF x
    <2>3. y \in Below(g, {x})
      BY <1>1, <2>2
    <2>4. QED
      BY <2>2, <2>3
  <1>4. QED
    BY <1>2, <1>3

\* Distance counts the constraints of a shortest chain.
Approached(g, s, t, n) ==
    {so \in [reached : SUBSET Ids(g), steps : Nat] :
        /\ \A x \in Ids(g) : x \in so.reached <=> Within(g, s, x, so.steps)
        /\ t \in so.reached => so.steps = 0 \/ ~Within(g, s, t, so.steps - 1)
        /\ t \notin so.reached =>
              /\ so.steps = n
              /\ Below(g, so.reached) \subseteq so.reached \/ Cardinality(so.reached) > n}

LEMMA SubsetsOfIds ==
    ASSUME NEW g, Referring(g), NEW S \in SUBSET Ids(g)
    PROVE  IsFiniteSet(S) /\ Cardinality(S) \in Nat /\ Cardinality(S) <= MaxId(g)
  <1>1. MaxId(g) \in Nat /\ Ids(g) = 1 .. MaxId(g)
    BY IdsAreNumbers
  <1>2. IsFiniteSet(Ids(g)) /\ Cardinality(Ids(g)) = MaxId(g)
    BY <1>1, FS_Interval
  <1>3. IsFiniteSet(S) /\ Cardinality(S) <= Cardinality(Ids(g))
    BY <1>2, FS_Subset
  <1>4. Cardinality(S) \in Nat
    BY <1>3, FS_CardinalityType
  <1>5. QED
    BY <1>2, <1>3, <1>4

LEMMA ApproachSteps ==
    ASSUME NEW g, Referring(g), NEW s \in Ids(g), NEW t \in Ids(g), NEW n \in Nat,
           NEW so \in Approached(g, s, t, n), NEW turn
    PROVE  Approach([group |-> g, target |-> t], so, turn) \in Approached(g, s, t, n + 1)
  <1> DEFINE in == [group |-> g, target |-> t]
             more == so.reached \cup Below(g, so.reached)
             after == [reached |-> more, steps |-> so.steps + 1]
  <1>1. /\ so \in [reached : SUBSET Ids(g), steps : Nat]
        /\ \A x \in Ids(g) : x \in so.reached <=> Within(g, s, x, so.steps)
        /\ t \in so.reached => so.steps = 0 \/ ~Within(g, s, t, so.steps - 1)
        /\ t \notin so.reached =>
              /\ so.steps = n
              /\ Below(g, so.reached) \subseteq so.reached \/ Cardinality(so.reached) > n
    BY DEF Approached
  <1>2. so.reached \in SUBSET Ids(g) /\ so.steps \in Nat
    BY <1>1
  <1>3. CASE t \in so.reached
    <2>1. Approach(in, so, turn) = so
      BY <1>3 DEF Approach
    <2>2. QED
      BY <1>1, <1>3, <2>1 DEF Approached
  <1>4. CASE t \notin so.reached
    <2>1. Approach(in, so, turn) = after
      BY <1>4 DEF Approach
    <2>2. more \in SUBSET Ids(g)
      BY <1>2, BelowAll, BelowLifetimes
    <2>3. \A x \in Ids(g) : x \in more <=> Within(g, s, x, so.steps + 1)
      <3>1. ASSUME NEW x \in Ids(g)
            PROVE  x \in more <=> \E y \in so.reached : x = y \/ x \in Below(g, {y})
        BY <1>2, BelowAll
      <3>2. ASSUME NEW x \in Ids(g)
            PROVE  Within(g, s, x, so.steps + 1) <=>
                      \E y \in Ids(g) : Within(g, s, y, so.steps) /\ (x = y \/ x \in Below(g, {y}))
        BY <1>2, WithinOneMore
      <3>3. QED
        BY <1>1, <1>2, <3>1, <3>2
    <2>4. ~Within(g, s, t, so.steps)
      BY <1>1, <1>4
    <2>5. Below(g, more) \subseteq more \/ Cardinality(more) > n + 1
      <3>1. CASE Below(g, so.reached) \subseteq so.reached
        <4>1. more = so.reached
          BY <3>1
        <4>2. QED
          BY <3>1, <4>1
      <3>2. CASE ~(Below(g, so.reached) \subseteq so.reached)
        <4>1. IsFiniteSet(more) /\ Cardinality(more) \in Nat
          BY <2>2, SubsetsOfIds
        <4>2. /\ Cardinality(so.reached) \in Nat
              /\ Cardinality(so.reached) <= Cardinality(more)
              /\ Cardinality(so.reached) # Cardinality(more)
          <5>1. so.reached \in SUBSET more /\ so.reached # more
            BY <3>2
          <5>2. QED
            BY <1>2, <4>1, <5>1, FS_Subset, SubsetsOfIds
        <4>3. Cardinality(so.reached) > n
          BY <1>1, <1>4, <3>2
        <4>4. QED
          BY <4>1, <4>2, <4>3
      <3>3. QED
        BY <3>1, <3>2
    <2> HIDE DEF more
    <2>6. /\ after \in [reached : SUBSET Ids(g), steps : Nat]
          /\ after.reached = more /\ after.steps = so.steps + 1
      BY <1>2, <2>2
    <2> HIDE DEF after
    <2>7. (so.steps + 1) - 1 = so.steps /\ so.steps = n
      BY <1>1, <1>2, <1>4
    <2>8. after \in Approached(g, s, t, n + 1)
      BY <2>3, <2>4, <2>5, <2>6, <2>7 DEF Approached
    <2>9. QED
      BY <2>1, <2>8
  <1>5. QED
    BY <1>3, <1>4

LEMMA DistanceIsLeast ==
    ASSUME NEW g, Referring(g), NEW s \in Ids(g), NEW t \in Ids(g), <<s, t>> \in Covers(g)
    PROVE  LET k == Distance(g, s, t)
           IN  k \in Nat /\ Within(g, s, t, k) /\ (k = 0 \/ ~Within(g, s, t, k - 1))
  <1> DEFINE N == MaxId(g)
             in == [group |-> g, target |-> t]
             start == [reached |-> {s}, steps |-> 0]
             items == [turn \in Ids(g) |-> turn]
             W == [n \in 0 .. N |-> Approached(g, s, t, n)]
             end == Approaching!Loop(in, start, items)
  <1>1. N \in Nat /\ Ids(g) = 1 .. N /\ Len(items) = N
    BY IdsAreNumbers
  <1>2. start \in W[0]
    <2>1. start.reached = {s} /\ start.steps = 0
          /\ start \in [reached : SUBSET Ids(g), steps : Nat]
      OBVIOUS
    <2>2. \A x \in Ids(g) : x \in {s} <=> Within(g, s, x, 0)
      BY WithinNothing
    <2>3. Cardinality({s}) > 0
      BY FS_Singleton
    <2> HIDE DEF start
    <2>4. start \in Approached(g, s, t, 0)
      BY <2>1, <2>2, <2>3 DEF Approached
    <2>5. QED
      BY <1>1, <2>4
  <1>3. ASSUME NEW n \in 1 .. N, NEW so \in W[n - 1]
        PROVE  Approach(in, so, items[n]) \in W[n]
    <2>1. n - 1 \in Nat /\ (n - 1) + 1 = n /\ n - 1 \in 0 .. N /\ n \in 0 .. N
      BY <1>1
    <2>2. so \in Approached(g, s, t, n - 1)
      BY <2>1
    <2>3. Approach(in, so, items[n]) \in Approached(g, s, t, (n - 1) + 1)
      BY <2>1, <2>2, ApproachSteps
    <2>4. QED
      BY <2>1, <2>3
  <1>4. Distance(g, s, t) = end.steps
    BY DEF Distance
  <1> HIDE DEF W, in, start, items
  <1>5. end \in W[N]
    BY <1>1, <1>2, <1>3, Approaching!LoopInvariant
  <1>6. end \in Approached(g, s, t, N)
    BY <1>1, <1>5 DEF W
  <1> HIDE DEF end
  <1>7. /\ end.reached \in SUBSET Ids(g) /\ end.steps \in Nat
        /\ \A x \in Ids(g) : x \in end.reached <=> Within(g, s, x, end.steps)
        /\ t \in end.reached => end.steps = 0 \/ ~Within(g, s, t, end.steps - 1)
        /\ t \notin end.reached =>
              Below(g, end.reached) \subseteq end.reached \/ Cardinality(end.reached) > N
    BY <1>6 DEF Approached
  <1>8. t \in end.reached
    <2>1. SUFFICES ASSUME t \notin end.reached
                   PROVE  FALSE
      OBVIOUS
    <2>2. Cardinality(end.reached) \in Nat /\ Cardinality(end.reached) <= N
      BY <1>7, SubsetsOfIds
    <2>3. Below(g, end.reached) \subseteq end.reached
      BY <1>1, <1>7, <2>1, <2>2
    <2>4. \A x \in end.reached : Below(g, {x}) \subseteq end.reached
      BY <1>7, <2>3, BelowAll
    <2>5. s \in end.reached
      <3>1. Within(g, s, s, 0)
        BY WithinNothing
      <3>2. Within(g, s, s, end.steps)
        BY <1>7, <3>1, WithinMore
      <3>3. QED
        BY <1>7, <3>2
    <2>6. t \in end.reached
      BY <1>7, <2>4, <2>5, CoversStays
    <2>7. QED
      BY <2>1, <2>6
  <1>9. QED
    BY <1>4, <1>7, <1>8 DEF end

(* A shortest chain, as the search has to find it: none of its lifetimes   *)
(* can be reached earlier, and all have the order of the target.           *)
Shortest(g, orders, c, u, k) ==
    /\ k \in Nat /\ u \in [0 .. k -> Ids(g)]
    /\ u[0] = Lesser(c) /\ u[k] = Greater(c)
    /\ \A i \in 0 .. k - 1 : u[i + 1] \in Below(g, {u[i]})
                               /\ ~Within(g, Lesser(c), u[i + 1], i)
    /\ \A i \in 0 .. k : orders[u[i]] = orders[Greater(c)]

LEMMA ShortestChain ==
    ASSUME NEW g, Referring(g), NEW orders \in [Ids(g) -> Nat], Matching(g, orders),
           \A i \in DOMAIN g.constraints :
              Violated(orders, g.constraints[i]) => Hopeless(g, orders, g.constraints[i]),
           NEW c \in Stated(g), Hopeless(g, orders, c)
    PROVE  \E u : Shortest(g, orders, c, u, Distance(g, Lesser(c), Greater(c)))
  <1> DEFINE s == Lesser(c)
             t == Greater(c)
             k == Distance(g, s, t)
  <1>1. s \in Ids(g) /\ t \in Ids(g) /\ orders[s] = orders[t] /\ <<s, t>> \in Covers(g)
    <2>1. s \in Ids(g) /\ t \in Ids(g)
      BY StatedConstraints, EndsAreLifetimes
    <2>2. QED
      BY <2>1 DEF Hopeless, Lesser, Greater
  <1>2. k \in Nat /\ Within(g, s, t, k) /\ (k = 0 \/ ~Within(g, s, t, k - 1))
    BY <1>1, DistanceIsLeast
  <1> HIDE DEF k, s, t
  <1>3. PICK u : Chain(g, u, k) /\ u[0] = s /\ u[k] = t
    BY <1>2 DEF Within
  <1>4. u \in [0 .. k -> Ids(g)]
        /\ \A m \in 1 .. k : u[m] = u[m - 1] \/ u[m] \in Below(g, {u[m - 1]})
    BY <1>3 DEF Chain
  <1>5. \A i \in 0 .. k : Within(g, s, u[i], i) /\ Within(g, u[i], t, k - i)
    BY <1>2, <1>3, WithinParts
  <1>6. ASSUME NEW i \in 0 .. k - 1
        PROVE  u[i + 1] \in Below(g, {u[i]}) /\ ~Within(g, s, u[i + 1], i)
    <2>1. /\ i + 1 \in 0 .. k /\ i + 1 \in 1 .. k /\ (i + 1) - 1 = i /\ i \in Nat /\ i \in 0 .. k
          /\ k - (i + 1) \in Nat /\ i + (k - (i + 1)) = k - 1 /\ k # 0
      BY <1>2
    <2>2. ASSUME Within(g, s, u[i + 1], i)
          PROVE  FALSE
      <3>1. Within(g, u[i + 1], t, k - (i + 1))
        BY <1>5, <2>1
      <3>2. Within(g, s, t, i + (k - (i + 1)))
        BY <2>1, <2>2, <3>1, WithinJoined
      <3>3. QED
        BY <1>2, <2>1, <3>2
    <2>3. u[i + 1] # u[i]
      BY <1>5, <2>1, <2>2
    <2>4. QED
      BY <1>4, <2>1, <2>2, <2>3
  <1>7. ASSUME NEW a \in Ids(g), NEW b \in Ids(g), NEW n \in Nat, Within(g, a, b, n)
        PROVE  orders[b] <= orders[a]
    <2> DEFINE X == {x \in Ids(g) : orders[x] <= orders[a]}
    <2>1. ASSUME NEW x \in X, NEW y \in Below(g, {x})
          PROVE  y \in X
      <3>1. x \in Ids(g) /\ y \in Ids(g) /\ orders[x] <= orders[a]
        BY <2>1, BelowLifetimes
      <3>2. orders[y] <= orders[x]
        BY <2>1, <3>1, OrdersDescend
      <3>3. QED
        BY <3>1, <3>2
    <2>2. a \in X
      OBVIOUS
    <2> HIDE DEF X
    <2>3. b \in X
      BY <1>7, <2>1, <2>2, WithinStays
    <2>4. QED
      BY <2>3 DEF X
  <1>8. ASSUME NEW i \in 0 .. k
        PROVE  orders[u[i]] = orders[t]
    <2>1. i \in Nat /\ k - i \in Nat /\ u[i] \in Ids(g)
      BY <1>2, <1>4
    <2>2. orders[u[i]] <= orders[s] /\ orders[t] <= orders[u[i]]
      BY <1>1, <1>5, <1>7, <2>1
    <2>3. orders[u[i]] \in Nat /\ orders[s] \in Nat /\ orders[t] \in Nat
      BY <1>1, <2>1
    <2>4. QED
      BY <1>1, <2>2, <2>3
  <1>9. Shortest(g, orders, c, u, k)
    BY <1>2, <1>3, <1>4, <1>6, <1>8 DEF Shortest, s, t
  <1>10. QED
    BY <1>9 DEF k, s, t

(* The search meets candidates in the order of the constraints they have   *)
(* passed after the violated one.                                          *)
Steps(candidate) == Len(candidate.path) - 1

\* What is fixed leads down, so that only a candidate with a location can
\* have come back up to the target.
Sought(g, c) ==
    {candidate \in Candidates(g, c) :
        /\ Lesser(c) \in candidate.visited
        /\ \A x \in candidate.visited \cup {candidate.location} :
              Within(g, Lesser(c), x, Steps(candidate))
        /\ ~candidate.located => Depth(g, Greater(c)) < Depth(g, candidate.location)}

Frontier(g, c, d) ==
    {queue \in Seq(Sought(g, c)) :
        /\ \A i \in DOMAIN queue :
              /\ Steps(queue[i]) \in {d, d + 1}
              /\ queue[i].location = Greater(c) => Lesser(c) = Greater(c)
        /\ \A i, j \in DOMAIN queue : i < j => Steps(queue[i]) <= Steps(queue[j])}

\* A candidate on the shortest chain, and not at its end.
OnChain(u, k, candidate) ==
    Steps(candidate) < k /\ candidate.location = u[Steps(candidate)]

\* While nothing is found some candidate is on the shortest chain: one in the
\* queue, or the one at hand as long as its edges are open.
Hunting(g, c, u, k, d, open) ==
    {search \in Searches(g, c) :
        /\ search.best = <<>>
        /\ search.queue \in Frontier(g, c, d)
        /\ \A r \in search.reached :
              \/ Within(g, Lesser(c), r[1], d)
              \/ \E j \in DOMAIN search.queue :
                    search.queue[j].location = r[1] /\ search.queue[j].located = r[2]
        /\ \/ k = 0 \/ open
           \/ \E j \in DOMAIN search.queue : OnChain(u, k, search.queue[j])}

Caught(g, c, k) ==
    {search \in Searches(g, c) :
        Len(search.best) = k + 1 /\ <<Greater(c), TRUE>> \in search.reached}

LEMMA StepsAreNumbers ==
    ASSUME NEW g, NEW c, NEW candidate \in Candidates(g, c)
    PROVE  Steps(candidate) \in Nat /\ Len(candidate.path) = Steps(candidate) + 1
  <1>1. candidate.path \in Seq(Stated(g)) /\ Len(candidate.path) > 0
    BY DEF Candidates, Paths
  <1>2. Len(candidate.path) \in Nat
    BY <1>1
  <1>3. QED
    BY <1>1, <1>2 DEF Steps

LEMMA DepthsAreNumbers ==
    ASSUME NEW g, Referring(g), NEW x \in Ids(g)
    PROVE  Depth(g, x) \in Nat
  BY IdsAreNumbers DEF Depth

LEMMA FirstIsSought ==
    ASSUME NEW g, Referring(g), WellConstrained(g), NEW c \in Stated(g), c.rel # "="
    PROVE  /\ Candidate(c) \in Sought(g, c) /\ Steps(Candidate(c)) = 0
           /\ Candidate(c).location = Lesser(c)
  <1> DEFINE first == Candidate(c)
  <1>1. first \in Candidates(g, c)
    BY FirstCandidate
  <1>2. /\ first.path = <<c>> /\ first.visited = {Lesser(c)} /\ first.location = Lesser(c)
        /\ first.located = HasLocation(c)
    BY DEF Candidate
  <1> HIDE DEF first
  <1>3. Steps(first) = 0
    BY <1>2 DEF Steps
  <1>4. Within(g, Lesser(c), Lesser(c), 0)
    BY StatedConstraints, EndsAreLifetimes, WithinNothing
  <1>5. ~HasLocation(c) => Depth(g, Greater(c)) < Depth(g, Lesser(c))
    <2>1. Placed(g, c)
      BY StatedConstraints DEF WellConstrained
    <2>2. QED
      BY <2>1 DEF Placed, Descends, HasLocation, Greater, Lesser
  <1>6. first \in Sought(g, c)
    BY <1>1, <1>2, <1>3, <1>4, <1>5 DEF Sought
  <1>7. QED
    BY <1>2, <1>3, <1>6 DEF first

LEMMA SoughtOn ==
    ASSUME NEW g, Referring(g), WellConstrained(g), NEW c \in Stated(g),
           NEW candidate \in Sought(g, c), NEW i \in DOMAIN g.constraints, NEW next,
           Leads(g.constraints[i], candidate.location, next)
    PROVE  LET longer == WithStep(candidate, g.constraints[i], next)
           IN  /\ longer \in Sought(g, c) /\ Steps(longer) = Steps(candidate) + 1
               /\ longer.location = next
  <1> DEFINE d == g.constraints[i]
             longer == WithStep(candidate, d, next)
             n == Steps(candidate)
             here == candidate.location
  <1>1. /\ candidate \in Candidates(g, c) /\ Lesser(c) \in candidate.visited
        /\ \A x \in candidate.visited \cup {here} : Within(g, Lesser(c), x, n)
        /\ ~candidate.located => Depth(g, Greater(c)) < Depth(g, here)
    BY DEF Sought
  <1>2. longer \in Candidates(g, c)
    BY <1>1, StepOn
  <1>3. /\ longer.path = Append(candidate.path, d)
        /\ longer.visited = candidate.visited \cup {here}
        /\ longer.location = next
        /\ longer.located = (candidate.located \/ HasLocation(d))
    BY DEF WithStep
  <1>4. here \in Ids(g) /\ next \in Ids(g) /\ candidate.path \in Seq(Stated(g))
    BY <1>1, <1>2, <1>3 DEF Candidates, Paths
  <1>5. n \in Nat /\ Len(candidate.path) = n + 1
    BY <1>1, StepsAreNumbers
  <1>6. Leads(d, here, next)
    OBVIOUS
  <1> HIDE DEF longer, n, here
  <1>7. Steps(longer) = n + 1
    <2>1. Len(longer.path) = Len(candidate.path) + 1
      BY <1>3, <1>4
    <2>2. QED
      BY <1>5, <2>1 DEF Steps
  <1>8. ASSUME NEW x \in longer.visited \cup {longer.location}
        PROVE  Within(g, Lesser(c), x, n + 1)
    <2>1. CASE x = next
      <3>1. next \in Below(g, {here})
        BY <1>4, <1>6, BelowMeans DEF Leads
      <3>2. Within(g, Lesser(c), here, n)
        BY <1>1
      <3>3. QED
        BY <1>4, <1>5, <2>1, <3>1, <3>2, WithinOneMore
    <2>2. CASE x \in candidate.visited \cup {here}
      <3>1. Within(g, Lesser(c), x, n)
        BY <1>1, <2>2
      <3>2. n + 1 \in Nat /\ n <= n + 1
        BY <1>5
      <3>3. QED
        BY <1>5, <3>1, <3>2, WithinMore
    <2>3. QED
      BY <1>3, <2>1, <2>2
  <1>9. ASSUME ~longer.located
        PROVE  Depth(g, Greater(c)) < Depth(g, next)
    <2>1. ~candidate.located /\ ~HasLocation(d)
      BY <1>3, <1>9
    <2>2. Placed(g, d)
      BY DEF WellConstrained
    <2>3. d.rel = ">" /\ Depth(g, d.left) < Depth(g, d.right)
      BY <2>1, <2>2 DEF Placed, Descends, HasLocation
    <2>4. here = d.left /\ next = d.right
      BY <1>6, <2>3 DEF Leads, Outlives, Equals, Greater, Lesser
    <2>5. Depth(g, Greater(c)) \in Nat /\ Depth(g, here) \in Nat /\ Depth(g, next) \in Nat
      BY <1>4, StatedConstraints, EndsAreLifetimes, DepthsAreNumbers
    <2>6. Depth(g, Greater(c)) < Depth(g, here) /\ Depth(g, here) < Depth(g, next)
      BY <1>1, <2>1, <2>3, <2>4
    <2>7. QED
      BY <2>5, <2>6
  <1>10. longer \in Sought(g, c)
    BY <1>1, <1>2, <1>3, <1>7, <1>8, <1>9 DEF Sought
  <1>11. QED
    BY <1>3, <1>7, <1>10 DEF longer, n

LEMMA ShortestIsLeast ==
    ASSUME NEW g, Referring(g), NEW orders, NEW c, NEW u, NEW k, Shortest(g, orders, c, u, k),
           NEW n \in Nat, Within(g, Lesser(c), Greater(c), n)
    PROVE  k <= n
  <1>1. SUFFICES ASSUME ~(k <= n)
                 PROVE  FALSE
    OBVIOUS
  <1>2. k \in Nat /\ u[k] = Greater(c)
        /\ \A i \in 0 .. k - 1 : ~Within(g, Lesser(c), u[i + 1], i)
    BY DEF Shortest
  <1>3. k - 1 \in 0 .. k - 1 /\ (k - 1) + 1 = k /\ n <= k - 1 /\ k - 1 \in Nat
    BY <1>1, <1>2
  <1>4. ~Within(g, Lesser(c), Greater(c), k - 1)
    BY <1>2, <1>3
  <1>5. QED
    BY <1>3, <1>4, WithinMore

\* The edges of a candidate lead to candidates that are one further, behind
\* all others; the one on the shortest chain keeps it in the queue.
LEMMA ExploreEdgeHunts ==
    ASSUME NEW g, Referring(g), WellConstrained(g), NEW c \in Stated(g), NEW orders,
           NEW u, NEW k, Shortest(g, orders, c, u, k),
           NEW candidate \in Sought(g, c), NEW open \in BOOLEAN,
           open => OnChain(u, k, candidate),
           NEW search \in Hunting(g, c, u, k, Steps(candidate), open),
           NEW i \in DOMAIN g.constraints, NEW next,
           Leads(g.constraints[i], candidate.location, next)
    PROVE  ExploreEdge([candidate |-> candidate, order |-> orders, target |-> Greater(c)],
                       search, g.constraints[i], next)
              \in Hunting(g, c, u, k, Steps(candidate),
                          open /\ next # u[Steps(candidate) + 1]) \cup Caught(g, c, k)
  <1> DEFINE e == g.constraints[i]
             s == Lesser(c)
             t == Greater(c)
             n == Steps(candidate)
             from == [candidate |-> candidate, order |-> orders, target |-> t]
             extended == WithStep(candidate, e, next)
             met == <<next, extended.located>>
             after == ExploreEdge(from, search, e, next)
             queue == Append(search.queue, extended)
             marked == search.reached \cup {met}
             skip == orders[next] # orders[t] \/ next \in candidate.visited
                        \/ met \in search.reached
             onward == open /\ next = u[n + 1]
  <1>1. /\ extended \in Sought(g, c) /\ Steps(extended) = n + 1 /\ extended.location = next
        /\ extended.path \in Seq(Stated(g)) /\ Len(extended.path) = n + 2
        /\ extended.located \in BOOLEAN
    <2>1. extended \in Sought(g, c) /\ Steps(extended) = n + 1 /\ extended.location = next
      BY SoughtOn
    <2>2. extended \in Candidates(g, c) /\ candidate \in Candidates(g, c)
      BY <2>1 DEF Sought
    <2>3. n \in Nat /\ Len(extended.path) = Steps(extended) + 1
      BY <2>2, StepsAreNumbers
    <2>4. extended.path \in Seq(Stated(g)) /\ extended.located \in BOOLEAN
      BY <2>2 DEF Candidates, Paths
    <2> HIDE DEF extended, n
    <2>5. QED
      BY <2>1, <2>3, <2>4
  <1>2. after \in Searches(g, c)
    <2>1. candidate \in Candidates(g, c) /\ search \in Searches(g, c)
      BY DEF Sought, Hunting
    <2>2. QED
      BY <2>1, ExploreEdgeKeeps
  <1>3. /\ skip => after = search
        /\ ~skip /\ Completable(extended, t) =>
              after = [search EXCEPT !.reached = marked, !.best = extended.path]
        /\ ~skip /\ ~Completable(extended, t) =>
              after = [search EXCEPT !.reached = marked, !.queue = queue]
    BY DEF ExploreEdge
  <1>4. /\ search \in Searches(g, c) /\ search.best = <<>> /\ search.queue \in Frontier(g, c, n)
        /\ \A r \in search.reached :
              \/ Within(g, s, r[1], n)
              \/ \E j \in DOMAIN search.queue :
                    search.queue[j].location = r[1] /\ search.queue[j].located = r[2]
        /\ \/ k = 0 \/ open
           \/ \E j \in DOMAIN search.queue : OnChain(u, k, search.queue[j])
    BY DEF Hunting
  <1>5. /\ search.queue \in Seq(Sought(g, c))
        /\ \A j \in DOMAIN search.queue :
              /\ Steps(search.queue[j]) \in {n, n + 1}
              /\ search.queue[j].location = t => s = t
        /\ \A a, b \in DOMAIN search.queue :
              a < b => Steps(search.queue[a]) <= Steps(search.queue[b])
    BY <1>4 DEF Frontier
  <1>6. /\ k \in Nat /\ u[0] = s /\ u[k] = t
        /\ \A j \in 0 .. k - 1 : ~Within(g, s, u[j + 1], j)
        /\ \A j \in 0 .. k : orders[u[j]] = orders[t]
    BY DEF Shortest
  <1>7. /\ n \in Nat /\ s \in candidate.visited
        /\ \A x \in candidate.visited : Within(g, s, x, n)
    <2>1. candidate \in Candidates(g, c)
      BY DEF Sought
    <2>2. QED
      BY <2>1, StepsAreNumbers DEF Sought
  <1>8. s \in Ids(g) /\ t \in Ids(g)
    BY StatedConstraints, EndsAreLifetimes
  <1>9. next = t => extended.located
    <2>1. ~extended.located => Depth(g, t) < Depth(g, next)
      BY <1>1 DEF Sought
    <2>2. Depth(g, t) \in Nat
      BY <1>8, DepthsAreNumbers
    <2>3. QED
      BY <2>1, <2>2
  <1>10. Completable(extended, t) <=> next = t
    BY <1>1, <1>9 DEF Completable
  <1>11. open => n < k
    BY DEF OnChain
  <1>12. onward => /\ orders[next] = orders[t] /\ ~Within(g, s, next, n)
                   /\ next \notin candidate.visited /\ s # next
    <2>1. SUFFICES ASSUME onward
                   PROVE  /\ orders[next] = orders[t] /\ ~Within(g, s, next, n)
                          /\ next \notin candidate.visited /\ s # next
      OBVIOUS
    <2>2. n + 1 \in 0 .. k /\ n \in 0 .. k - 1
      <3> HIDE DEF n
      <3>1. QED
        BY <1>6, <1>7, <1>11, <2>1
    <2>3. orders[next] = orders[t] /\ ~Within(g, s, next, n)
      BY <1>6, <2>1, <2>2
    <2>4. QED
      BY <1>7, <2>3
  <1> HIDE DEF e, s, t, n, from, extended, met, after, queue, marked, skip
  <1>13. ASSUME skip
         PROVE  after \in Hunting(g, c, u, k, n, open /\ next # u[n + 1])
    <2>1. after = search
      BY <1>3, <1>13
    <2>2. \/ k = 0 \/ (open /\ next # u[n + 1])
          \/ \E j \in DOMAIN search.queue : OnChain(u, k, search.queue[j])
      <3>1. CASE ~onward
        BY <1>4, <3>1
      <3>2. CASE onward
        <4>1. met \in search.reached
          BY <1>12, <1>13, <3>2 DEF skip
        <4>2. met[1] = next
          BY DEF met
        <4>3. PICK j \in DOMAIN search.queue : search.queue[j].location = next
          BY <1>4, <1>12, <3>2, <4>1, <4>2
        <4>4. search.queue[j] \in Sought(g, c)
          BY <1>5
        <4>5. Within(g, s, next, Steps(search.queue[j]))
          BY <4>3, <4>4 DEF Sought, s
        <4>6. Steps(search.queue[j]) = n + 1
          BY <1>5, <1>12, <3>2, <4>5
        <4>7. next # t
          BY <1>5, <1>12, <3>2, <4>3
        <4>8. n + 1 < k
          <5>1. n + 1 # k
            BY <1>6, <3>2, <4>7
          <5>2. QED
            BY <1>6, <1>7, <1>11, <3>2, <5>1
        <4>9. OnChain(u, k, search.queue[j])
          BY <3>2, <4>3, <4>6, <4>8 DEF OnChain
        <4>10. QED
          BY <4>9
      <3>3. QED
        BY <3>1, <3>2
    <2>3. QED
      BY <1>4, <2>1, <2>2 DEF Hunting, s
  <1>14. ASSUME ~skip, next = t
         PROVE  after \in Caught(g, c, k)
    <2>1. after = [search EXCEPT !.reached = marked, !.best = extended.path]
      BY <1>3, <1>10, <1>14
    <2>2. after.reached = marked /\ after.best = extended.path
      BY <1>4, <2>1 DEF Searches
    <2>3. s # t
      BY <1>7, <1>14 DEF skip
    <2>4. k # 0
      BY <1>6, <2>3
    <2>5. n < k
      <3>1. CASE open
        BY <1>11, <3>1
      <3>2. CASE ~open
        <4>1. PICK j \in DOMAIN search.queue : OnChain(u, k, search.queue[j])
          BY <1>4, <2>4, <3>2
        <4>2. Steps(search.queue[j]) < k /\ Steps(search.queue[j]) \in {n, n + 1}
          BY <1>5, <4>1 DEF OnChain
        <4>3. QED
          BY <1>6, <1>7, <4>2
      <3>3. QED
        BY <3>1, <3>2
    <2>6. k <= n + 1
      <3>1. Within(g, s, next, n + 1)
        BY <1>1 DEF Sought, s
      <3>2. Within(g, Lesser(c), Greater(c), n + 1)
        BY <1>14, <3>1 DEF s, t
      <3>3. n + 1 \in Nat
        BY <1>7
      <3>4. QED
        BY <3>2, <3>3, ShortestIsLeast
    <2>7. Len(after.best) = k + 1
      BY <1>1, <1>6, <1>7, <2>2, <2>5, <2>6
    <2>8. <<t, TRUE>> \in after.reached
      BY <1>1, <1>9, <1>14, <2>2 DEF marked, met
    <2>9. QED
      BY <1>2, <2>7, <2>8 DEF Caught, t
  <1>15. ASSUME ~skip, next # t
         PROVE  after \in Hunting(g, c, u, k, n, open /\ next # u[n + 1])
    <2> DEFINE L == Len(search.queue)
    <2>1. after = [search EXCEPT !.reached = marked, !.queue = queue]
      BY <1>3, <1>10, <1>15
    <2>2. after.reached = marked /\ after.queue = queue /\ after.best = <<>>
      BY <1>4, <2>1 DEF Searches
    <2>3. /\ L \in Nat /\ DOMAIN search.queue = 1 .. L
          /\ queue \in Seq(Sought(g, c)) /\ DOMAIN queue = 1 .. L + 1
          /\ \A j \in 1 .. L : queue[j] = search.queue[j]
          /\ queue[L + 1] = extended
      BY <1>1, <1>5 DEF queue
    <2> HIDE DEF L
    <2>4. \A j \in 1 .. L + 1 : j = L + 1 \/ j \in 1 .. L
      BY <2>3
    <2>5. ASSUME NEW j \in DOMAIN queue
          PROVE  Steps(queue[j]) \in {n, n + 1} /\ (queue[j].location = t => s = t)
      <3>1. CASE j = L + 1
        BY <1>1, <1>15, <2>3, <3>1
      <3>2. CASE j \in 1 .. L
        BY <1>5, <2>3, <3>2
      <3>3. QED
        BY <2>3, <2>4, <3>1, <3>2
    <2>6. ASSUME NEW a \in DOMAIN queue, NEW b \in DOMAIN queue, a < b
          PROVE  Steps(queue[a]) <= Steps(queue[b])
      <3>1. CASE b = L + 1
        <4>1. Steps(queue[b]) = n + 1 /\ Steps(queue[a]) \in {n, n + 1}
          BY <1>1, <2>3, <2>5, <3>1
        <4>2. QED
          BY <1>7, <4>1
      <3>2. CASE b \in 1 .. L
        <4>1. a \in 1 .. L
          BY <2>3, <2>6, <3>2
        <4>2. QED
          BY <1>5, <2>3, <2>6, <3>2, <4>1
      <3>3. QED
        BY <2>3, <2>4, <3>1, <3>2
    <2>7. queue \in Frontier(g, c, n)
      BY <2>3, <2>5, <2>6 DEF Frontier, s, t
    <2>8. ASSUME NEW r \in marked
          PROVE  \/ Within(g, s, r[1], n)
                 \/ \E j \in DOMAIN queue : queue[j].location = r[1] /\ queue[j].located = r[2]
      <3>1. CASE r = met
        <4>1. queue[L + 1].location = r[1] /\ queue[L + 1].located = r[2]
          BY <1>1, <2>3, <3>1 DEF met
        <4>2. L + 1 \in DOMAIN queue
          BY <2>3
        <4>3. QED
          BY <4>1, <4>2
      <3>2. CASE r \in search.reached
        <4>1. CASE Within(g, s, r[1], n)
          BY <4>1
        <4>2. CASE ~Within(g, s, r[1], n)
          <5>1. PICK j \in DOMAIN search.queue :
                   search.queue[j].location = r[1] /\ search.queue[j].located = r[2]
            BY <1>4, <3>2, <4>2
          <5>2. j \in DOMAIN queue /\ queue[j] = search.queue[j]
            BY <2>3
          <5>3. QED
            BY <5>1, <5>2
        <4>3. QED
          BY <4>1, <4>2
      <3>3. QED
        BY <3>1, <3>2 DEF marked
    <2>9. \/ k = 0 \/ (open /\ next # u[n + 1])
          \/ \E j \in DOMAIN queue : OnChain(u, k, queue[j])
      <3>1. CASE onward
        <4>1. n + 1 # k
          BY <1>6, <1>15, <3>1
        <4>2. n + 1 < k
          BY <1>6, <1>7, <1>11, <3>1, <4>1
        <4>3. OnChain(u, k, extended)
          BY <1>1, <3>1, <4>2 DEF OnChain
        <4>4. L + 1 \in DOMAIN queue
          BY <2>3
        <4>5. QED
          BY <2>3, <4>3, <4>4
      <3>2. CASE ~onward
        <4>1. \A j \in DOMAIN search.queue : j \in DOMAIN queue /\ queue[j] = search.queue[j]
          BY <2>3
        <4>2. QED
          BY <1>4, <3>2, <4>1
      <3>3. QED
        BY <3>1, <3>2
    <2>10. QED
      BY <1>2, <2>2, <2>7, <2>8, <2>9 DEF Hunting, s
  <1>16. after \in Hunting(g, c, u, k, n, open /\ next # u[n + 1]) \cup Caught(g, c, k)
    BY <1>13, <1>14, <1>15
  <1>17. QED
    BY <1>16 DEF after, from, n, e, t

LEMMA CaughtKept ==
    ASSUME NEW g, Referring(g), NEW c \in Stated(g), NEW candidate \in Candidates(g, c),
           NEW orders, NEW k, NEW search \in Caught(g, c, k),
           NEW i \in DOMAIN g.constraints, NEW next,
           Leads(g.constraints[i], candidate.location, next)
    PROVE  ExploreEdge([candidate |-> candidate, order |-> orders, target |-> Greater(c)],
                       search, g.constraints[i], next) \in Caught(g, c, k)
  <1> DEFINE e == g.constraints[i]
             t == Greater(c)
             from == [candidate |-> candidate, order |-> orders, target |-> t]
             extended == WithStep(candidate, e, next)
             met == <<next, extended.located>>
             after == ExploreEdge(from, search, e, next)
             queue == Append(search.queue, extended)
             marked == search.reached \cup {met}
  <1>1. /\ search \in Searches(g, c) /\ Len(search.best) = k + 1
        /\ <<t, TRUE>> \in search.reached
    BY DEF Caught
  <1>2. after \in Searches(g, c)
    BY <1>1, ExploreEdgeKeeps
  <1>3. extended \in Candidates(g, c) /\ extended.location = next
    BY StepOn DEF WithStep
  <1>4. extended.located \in BOOLEAN
    BY <1>3 DEF Candidates
  <1>5. \/ after = search
        \/ /\ met \notin search.reached /\ Completable(extended, t)
        \/ after = [search EXCEPT !.reached = marked, !.queue = queue]
    BY DEF ExploreEdge
  <1> HIDE DEF extended, after, queue
  <1>6. Completable(extended, t) => met = <<t, TRUE>>
    BY <1>3, <1>4 DEF Completable
  <1>7. ASSUME after = search
        PROVE  after \in Caught(g, c, k)
    BY <1>7
  <1>8. ASSUME after = [search EXCEPT !.reached = marked, !.queue = queue]
        PROVE  after \in Caught(g, c, k)
    <2>1. after.reached = marked /\ after.best = search.best
      BY <1>1, <1>8 DEF Searches
    <2>2. QED
      BY <1>1, <1>2, <2>1 DEF Caught
  <1>9. QED
    BY <1>1, <1>5, <1>6, <1>7, <1>8 DEF after

LEMMA HuntingOpen ==
    ASSUME NEW g, NEW c, NEW u, NEW k, NEW d, NEW a \in BOOLEAN, NEW b \in BOOLEAN, a => b
    PROVE  Hunting(g, c, u, k, d, a) \subseteq Hunting(g, c, u, k, d, b)
  BY DEF Hunting

\* The candidate that is taken from the queue is one of the nearest.
LEMMA NextHunted ==
    ASSUME NEW g, Referring(g), NEW c, NEW u, NEW k, NEW d \in Nat,
           NEW search \in Hunting(g, c, u, k, d, FALSE), search.queue # <<>>
    PROVE  LET head == Head(search.queue)
               rest == [search EXCEPT !.queue = Tail(@)]
           IN  /\ head \in Sought(g, c)
               /\ rest \in Hunting(g, c, u, k, Steps(head), OnChain(u, k, head))
  <1> DEFINE head == Head(search.queue)
             tail == Tail(search.queue)
             rest == [search EXCEPT !.queue = tail]
             n == Steps(head)
             L == Len(search.queue)
             open == OnChain(u, k, head)
  <1>1. /\ search \in Searches(g, c) /\ search.best = <<>> /\ search.queue \in Frontier(g, c, d)
        /\ \A r \in search.reached :
              \/ Within(g, Lesser(c), r[1], d)
              \/ \E j \in DOMAIN search.queue :
                    search.queue[j].location = r[1] /\ search.queue[j].located = r[2]
        /\ k = 0 \/ \E j \in DOMAIN search.queue : OnChain(u, k, search.queue[j])
    BY DEF Hunting
  <1>2. /\ search.queue \in Seq(Sought(g, c)) /\ search.queue \in Seq(Candidates(g, c))
        /\ \A j \in DOMAIN search.queue :
              /\ Steps(search.queue[j]) \in {d, d + 1}
              /\ search.queue[j].location = Greater(c) => Lesser(c) = Greater(c)
        /\ \A a, b \in DOMAIN search.queue :
              a < b => Steps(search.queue[a]) <= Steps(search.queue[b])
    BY <1>1 DEF Frontier, Searches
  <1>3. /\ L \in Nat /\ L > 0 /\ DOMAIN search.queue = 1 .. L /\ head = search.queue[1]
        /\ tail \in Seq(Sought(g, c)) /\ tail \in Seq(Candidates(g, c))
        /\ DOMAIN tail = 1 .. L - 1
        /\ \A j \in 1 .. L - 1 : tail[j] = search.queue[j + 1]
    BY <1>2
  <1> HIDE DEF head, tail, L
  <1>4. /\ rest.queue = tail /\ rest.reached = search.reached /\ rest.best = <<>>
        /\ rest \in Searches(g, c)
    BY <1>1, <1>3 DEF Searches
  <1> HIDE DEF rest
  <1>5. 1 \in 1 .. L /\ head \in Sought(g, c) /\ n \in {d, d + 1} /\ n \in Nat /\ d <= n
    BY <1>2, <1>3
  <1>6. \A j \in 1 .. L - 1 : j \in Nat /\ j + 1 \in 1 .. L /\ 1 < j + 1
    BY <1>3
  <1>7. ASSUME NEW j \in 1 .. L - 1
        PROVE  /\ Steps(tail[j]) \in {n, n + 1}
               /\ tail[j].location = Greater(c) => Lesser(c) = Greater(c)
    <2>1. j + 1 \in 1 .. L /\ 1 < j + 1 /\ tail[j] = search.queue[j + 1]
      BY <1>3, <1>6
    <2>2. n <= Steps(tail[j])
      BY <1>2, <1>3, <1>5, <2>1
    <2>3. Steps(tail[j]) \in {d, d + 1}
      BY <1>2, <1>3, <2>1
    <2>4. Steps(tail[j]) \in {n, n + 1}
      <3> HIDE DEF n
      <3> QED
        BY <1>5, <2>2, <2>3
    <2>5. tail[j].location = Greater(c) => Lesser(c) = Greater(c)
      BY <1>2, <1>3, <2>1
    <2>6. QED
      BY <2>4, <2>5
  <1>8. ASSUME NEW a \in 1 .. L - 1, NEW b \in 1 .. L - 1, a < b
        PROVE  Steps(tail[a]) <= Steps(tail[b])
    <2>1. a + 1 \in 1 .. L /\ b + 1 \in 1 .. L /\ a + 1 < b + 1
      BY <1>6, <1>8
    <2>2. QED
      BY <1>2, <1>3, <2>1
  <1>9. tail \in Frontier(g, c, n)
    BY <1>3, <1>7, <1>8 DEF Frontier
  <1>10. ASSUME NEW j \in 1 .. L, j # 1
         PROVE  j - 1 \in 1 .. L - 1 /\ tail[j - 1] = search.queue[j]
    <2>1. j - 1 \in 1 .. L - 1 /\ (j - 1) + 1 = j
      BY <1>3, <1>10
    <2>2. QED
      BY <1>3, <2>1
  <1>11. ASSUME NEW r \in search.reached
         PROVE  \/ Within(g, Lesser(c), r[1], n)
                \/ \E j \in DOMAIN tail : tail[j].location = r[1] /\ tail[j].located = r[2]
    <2>1. CASE Within(g, Lesser(c), r[1], d)
      BY <1>5, <2>1, WithinMore
    <2>2. CASE \E j \in DOMAIN search.queue :
                  search.queue[j].location = r[1] /\ search.queue[j].located = r[2]
      <3>1. PICK j \in 1 .. L :
               search.queue[j].location = r[1] /\ search.queue[j].located = r[2]
        BY <1>3, <2>2
      <3>2. CASE j = 1
        <4>1. Within(g, Lesser(c), head.location, n)
          BY <1>5 DEF Sought
        <4>2. QED
          BY <1>3, <3>1, <3>2, <4>1
      <3>3. CASE j # 1
        <4>1. j - 1 \in DOMAIN tail /\ tail[j - 1] = search.queue[j]
          BY <1>3, <1>10, <3>3
        <4>2. QED
          BY <3>1, <4>1
      <3>4. QED
        BY <3>2, <3>3
    <2>3. QED
      BY <1>1, <2>1, <2>2
  <1>12. k = 0 \/ open \/ \E j \in DOMAIN tail : OnChain(u, k, tail[j])
    <2>1. CASE k = 0
      BY <2>1
    <2>2. CASE k # 0
      <3>1. PICK j \in 1 .. L : OnChain(u, k, search.queue[j])
        BY <1>1, <1>3, <2>2
      <3>2. CASE j = 1
        BY <1>3, <3>1, <3>2
      <3>3. CASE j # 1
        <4>1. j - 1 \in DOMAIN tail /\ tail[j - 1] = search.queue[j]
          BY <1>3, <1>10, <3>3
        <4>2. QED
          BY <3>1, <4>1
      <3>4. QED
        BY <3>2, <3>3
    <2>3. QED
      BY <2>1, <2>2
  <1>13. rest \in Hunting(g, c, u, k, n, open)
    BY <1>4, <1>9, <1>11, <1>12 DEF Hunting
  <1>14. QED
    BY <1>5, <1>13 DEF head, rest, tail

LEMMA ContinuePathHunts ==
    ASSUME NEW g, Referring(g), WellConstrained(g), NEW c \in Stated(g), NEW orders,
           NEW u, NEW k, Shortest(g, orders, c, u, k), NEW d \in Nat,
           NEW search \in Hunting(g, c, u, k, d, FALSE), search.queue # <<>>
    PROVE  ContinuePath([group |-> g, order |-> orders, target |-> Greater(c)], search)
              \in Hunting(g, c, u, k, Steps(Head(search.queue)), FALSE) \cup Caught(g, c, k)
  <1> DEFINE N == Len(g.constraints)
             head == Head(search.queue)
             n == Steps(head)
             here == head.location
             open == OnChain(u, k, head)
             from == [candidate |-> head, order |-> orders, target |-> Greater(c)]
             rest == [search EXCEPT !.queue = Tail(@)]
             down == Descending!Loop(from, rest, g.constraints)
             across == Crossing!Loop(from, down, g.constraints)
             H(b) == Hunting(g, c, u, k, n, b) \cup Caught(g, c, k)
  <1>1. N \in Nat /\ DOMAIN g.constraints = 1 .. N
    BY IdsAreNumbers
  <1>2. head \in Sought(g, c) /\ head \in Candidates(g, c)
        /\ rest \in Hunting(g, c, u, k, n, open)
    <2>1. head \in Sought(g, c) /\ rest \in Hunting(g, c, u, k, n, open)
      BY NextHunted
    <2>2. QED
      BY <2>1 DEF Sought
  <1>3. here \in Ids(g) /\ n \in Nat
    BY <1>2, StepsAreNumbers DEF Candidates
  <1>4. open \in BOOLEAN
    BY DEF OnChain
  <1>5. ContinuePath([group |-> g, order |-> orders, target |-> Greater(c)], search) = across
    BY DEF ContinuePath
  <1>6. ASSUME NEW a \in BOOLEAN, NEW b \in BOOLEAN, a => b, NEW s \in H(a)
        PROVE  s \in H(b)
    BY <1>6, HuntingOpen
  <1>7. ASSUME NEW b \in BOOLEAN, b => open, NEW s \in H(b), NEW i \in 1 .. N, NEW next,
               Leads(g.constraints[i], here, next)
        PROVE  ExploreEdge(from, s, g.constraints[i], next) \in H(b /\ next # u[n + 1])
    <2>1. i \in DOMAIN g.constraints /\ Leads(g.constraints[i], head.location, next)
      BY <1>1, <1>7
    <2>2. CASE s \in Caught(g, c, k)
      BY <1>2, <2>1, <2>2, CaughtKept
    <2>3. CASE s \in Hunting(g, c, u, k, n, b)
      BY <1>2, <1>7, <2>1, <2>3, ExploreEdgeHunts
    <2>4. QED
      BY <1>7, <2>2, <2>3
  <1>8. PICK m \in 0 .. N : open => m \in 1 .. N /\ Leads(g.constraints[m], here, u[n + 1])
    <2>1. CASE ~open
      <3>1. 0 \in 0 .. N
        BY <1>1
      <3>2. QED
        BY <2>1, <3>1
    <2>2. CASE open
      <3>1. n < k /\ here = u[n]
        BY <2>2 DEF OnChain
      <3>2. k \in Nat /\ \A i \in 0 .. k - 1 : u[i + 1] \in Below(g, {u[i]})
        BY DEF Shortest
      <3>3. n \in 0 .. k - 1
        <4> HIDE DEF n
        <4> QED
          BY <1>3, <3>1, <3>2
      <3>4. u[n + 1] \in Below(g, {here})
        BY <3>1, <3>2, <3>3
      <3>5. PICK m \in DOMAIN g.constraints : Leads(g.constraints[m], here, u[n + 1])
        BY <1>3, <3>4, BelowMeans DEF Leads
      <3>6. m \in 1 .. N /\ m \in 0 .. N
        BY <1>1, <3>5
      <3>7. QED
        BY <3>5, <3>6
    <2>3. QED
      BY <2>1, <2>2
  <1> DEFINE out == Outlives(g.constraints[m], here)
             D(i) == open /\ ~(out /\ m <= i)
             C(i) == open /\ ~out /\ ~(m <= i)
             W == [i \in 0 .. N |-> H(D(i))]
             V == [i \in 0 .. N |-> H(C(i))]
  <1>9. out \in BOOLEAN /\ \A i \in 0 .. N : D(i) \in BOOLEAN /\ C(i) \in BOOLEAN
    BY <1>4 DEF Outlives
  <1>10. open /\ out => u[n + 1] = Lesser(g.constraints[m])
    BY <1>8 DEF Leads, Outlives, Equals
  <1>11. open /\ ~out => /\ Equals(g.constraints[m], here)
                         /\ u[n + 1] = Other(g.constraints[m], here)
    BY <1>8 DEF Leads
  <1>12. m \in Nat /\ (open => 1 <= m /\ m <= N)
    BY <1>1, <1>8
  <1> HIDE DEF out, n, here, open, from, rest, H, head, N
  <1>13. ASSUME NEW i \in 1 .. N, NEW s \in W[i - 1]
         PROVE  ExploreOutlived(from, s, g.constraints[i]) \in W[i]
    <2>1. i - 1 \in 0 .. N /\ i \in 0 .. N
      BY <1>1
    <2>2. s \in H(D(i - 1)) /\ W[i] = H(D(i))
      BY <2>1
    <2>3. D(i - 1) \in BOOLEAN /\ D(i) \in BOOLEAN /\ (D(i - 1) => open)
      BY <1>9, <2>1
    <2>4. CASE ~Outlives(g.constraints[i], here)
      <3>1. ExploreOutlived(from, s, g.constraints[i]) = s
        BY <2>4 DEF ExploreOutlived, from, here
      <3>2. D(i - 1) => D(i)
        <4>1. SUFFICES ASSUME open, out, m <= i, ~(m <= i - 1)
                       PROVE  FALSE
          OBVIOUS
        <4>2. m = i
          BY <1>12, <4>1
        <4>3. QED
          BY <2>4, <4>1, <4>2 DEF out
      <3>3. QED
        BY <1>6, <2>2, <2>3, <3>1, <3>2
    <2>5. CASE Outlives(g.constraints[i], here)
      <3> DEFINE next == Lesser(g.constraints[i])
                 b == D(i - 1) /\ next # u[n + 1]
      <3>1. ExploreOutlived(from, s, g.constraints[i])
               = ExploreEdge(from, s, g.constraints[i], next)
        BY <2>5 DEF ExploreOutlived, from, here
      <3>2. Leads(g.constraints[i], here, next)
        BY <2>5 DEF Leads
      <3>3. ExploreEdge(from, s, g.constraints[i], next) \in H(b)
        BY <1>7, <2>2, <2>3, <3>2
      <3>4. b => D(i)
        <4>1. SUFFICES ASSUME open, out, m <= i, ~(m <= i - 1), next # u[n + 1]
                       PROVE  FALSE
          OBVIOUS
        <4>2. m = i
          BY <1>12, <4>1
        <4>3. QED
          BY <1>10, <4>1, <4>2
      <3>5. b \in BOOLEAN
        BY <2>3
      <3> HIDE DEF b, D
      <3>6. QED
        BY <1>6, <2>2, <2>3, <3>1, <3>3, <3>4, <3>5
    <2>6. QED
      BY <2>4, <2>5
  <1>14. ASSUME NEW i \in 1 .. N, NEW s \in V[i - 1]
         PROVE  ExploreEqual(from, s, g.constraints[i]) \in V[i]
    <2>1. i - 1 \in 0 .. N /\ i \in 0 .. N
      BY <1>1
    <2>2. s \in H(C(i - 1)) /\ V[i] = H(C(i))
      BY <2>1
    <2>3. C(i - 1) \in BOOLEAN /\ C(i) \in BOOLEAN /\ (C(i - 1) => open)
      BY <1>9, <2>1
    <2>4. CASE ~Equals(g.constraints[i], here)
      <3>1. ExploreEqual(from, s, g.constraints[i]) = s
        BY <2>4 DEF ExploreEqual, from, here
      <3>2. C(i - 1) => C(i)
        <4>1. SUFFICES ASSUME open, ~out, m <= i, ~(m <= i - 1)
                       PROVE  FALSE
          OBVIOUS
        <4>2. m = i
          BY <1>12, <4>1
        <4>3. QED
          BY <1>11, <2>4, <4>1, <4>2
      <3>3. QED
        BY <1>6, <2>2, <2>3, <3>1, <3>2
    <2>5. CASE Equals(g.constraints[i], here)
      <3> DEFINE next == Other(g.constraints[i], here)
                 b == C(i - 1) /\ next # u[n + 1]
      <3>1. ExploreEqual(from, s, g.constraints[i])
               = ExploreEdge(from, s, g.constraints[i], next)
        BY <2>5 DEF ExploreEqual, from, here
      <3>2. Leads(g.constraints[i], here, next)
        BY <2>5 DEF Leads
      <3>3. ExploreEdge(from, s, g.constraints[i], next) \in H(b)
        BY <1>7, <2>2, <2>3, <3>2
      <3>4. b => C(i)
        <4>1. SUFFICES ASSUME open, ~out, m <= i, ~(m <= i - 1), next # u[n + 1]
                       PROVE  FALSE
          OBVIOUS
        <4>2. m = i
          BY <1>12, <4>1
        <4>3. QED
          BY <1>11, <4>1, <4>2
      <3>5. b \in BOOLEAN
        BY <2>3
      <3> HIDE DEF b, C
      <3>6. QED
        BY <1>6, <2>2, <2>3, <3>1, <3>3, <3>4, <3>5
    <2>6. QED
      BY <2>4, <2>5
  <1>15. rest \in W[0]
    <2>1. 0 \in 0 .. N /\ rest \in H(open)
      BY <1>1, <1>2 DEF H, n
    <2>2. open => D(0)
      BY <1>12
    <2>3. D(0) \in BOOLEAN /\ W[0] = H(D(0))
      BY <1>9, <2>1
    <2> HIDE DEF D
    <2>4. QED
      BY <1>4, <1>6, <2>1, <2>2, <2>3
  <1>16. W[N] = H(D(N)) /\ V[0] = H(C(0)) /\ V[N] = H(C(N))
    BY <1>1
  <1>17. D(N) \in BOOLEAN /\ C(0) \in BOOLEAN /\ (D(N) => C(0)) /\ C(N) = FALSE
    BY <1>1, <1>9, <1>12
  <1> HIDE DEF W, V, D, C
  <1>18. down \in W[N]
    BY <1>1, <1>13, <1>15, Descending!LoopInvariant DEF N
  <1> HIDE DEF down
  <1>19. down \in V[0]
    BY <1>6, <1>16, <1>17, <1>18
  <1>20. across \in V[N]
    BY <1>1, <1>14, <1>19, Crossing!LoopInvariant DEF N
  <1> HIDE DEF across
  <1>21. across \in H(FALSE)
    BY <1>16, <1>17, <1>20
  <1>22. QED
    BY <1>5, <1>21 DEF H, n, head

LEMMA FoundShortest ==
    ASSUME NEW g, Referring(g), WellConstrained(g), NEW c \in Stated(g), c.rel # "=",
           NEW orders, NEW u, NEW k, Shortest(g, orders, c, u, k)
    PROVE  LET path == FindPath([group |-> g, order |-> orders, target |-> Greater(c)],
                                Candidate(c))
           IN  path \in Seq(Stated(g)) /\ (path # <<>> => Len(path) = k + 1)
  <1> DEFINE in == [group |-> g, order |-> orders, target |-> Greater(c)]
             first == Candidate(c)
             start == [queue |-> <<first>>, reached |-> {}, best |-> <<>>]
             items == Turns(g)
             N == Len(items)
             S == {s \in Searches(g, c) :
                      s \in Caught(g, c, k) \/ \E d \in Nat : s \in Hunting(g, c, u, k, d, FALSE)}
             W == [n \in 0 .. N |-> S]
             end == Searching!Loop(in, start, items)
  <1>1. N \in Nat
    BY IdsAreNumbers DEF Turns
  <1> HIDE DEF S
  <1>2. \A s : s \in S <=>
           s \in Caught(g, c, k) \/ \E d \in Nat : s \in Hunting(g, c, u, k, d, FALSE)
    BY DEF S, Caught, Hunting
  <1>3. start \in Hunting(g, c, u, k, 0, FALSE)
    <2>1. first \in Sought(g, c) /\ Steps(first) = 0 /\ first.location = Lesser(c)
      BY FirstIsSought
    <2>2. first \in Candidates(g, c)
      BY <2>1 DEF Sought
    <2> HIDE DEF first
    <2>3. /\ <<first>> \in Seq(Sought(g, c)) /\ <<first>> \in Seq(Candidates(g, c))
          /\ DOMAIN <<first>> = {1} /\ <<first>>[1] = first
      BY <2>1, <2>2
    <2>4. <<first>> \in Frontier(g, c, 0)
      BY <2>1, <2>3 DEF Frontier
    <2>5. start.queue = <<first>> /\ start.reached = {} /\ start.best = <<>>
          /\ start \in Searches(g, c)
      BY <2>3 DEF Searches
    <2>6. k = 0 \/ OnChain(u, k, first)
      <3>1. k \in Nat /\ u[0] = Lesser(c)
        BY DEF Shortest
      <3>2. QED
        BY <2>1, <3>1 DEF OnChain
    <2> HIDE DEF start
    <2>7. k = 0 \/ \E j \in DOMAIN start.queue : OnChain(u, k, start.queue[j])
      BY <2>3, <2>5, <2>6
    <2>8. QED
      BY <2>4, <2>5, <2>7 DEF Hunting
  <1>4. ASSUME NEW n \in 1 .. N, NEW s \in W[n - 1]
        PROVE  Search(in, s, items[n]) \in W[n]
    <2>1. s \in S /\ W[n] = S
      BY <1>1
    <2>2. CASE s.queue = <<>> \/ s.best # <<>>
      BY <2>1, <2>2 DEF Search
    <2>3. CASE s.queue # <<>> /\ s.best = <<>>
      <3>1. Search(in, s, items[n]) = ContinuePath(in, s)
        BY <2>3 DEF Search
      <3>2. s \notin Caught(g, c, k)
        <4>1. k \in Nat /\ Len(<<>>) = 0
          BY DEF Shortest
        <4>2. QED
          BY <2>3, <4>1 DEF Caught
      <3>3. PICK d \in Nat : s \in Hunting(g, c, u, k, d, FALSE)
        BY <1>2, <2>1, <3>2
      <3>4. ContinuePath(in, s)
               \in Hunting(g, c, u, k, Steps(Head(s.queue)), FALSE) \cup Caught(g, c, k)
        BY <2>3, <3>3, ContinuePathHunts
      <3>5. Steps(Head(s.queue)) \in Nat
        <4>1. Head(s.queue) \in Sought(g, c)
          BY <2>3, <3>3, NextHunted
        <4>2. QED
          BY <4>1, StepsAreNumbers DEF Sought
      <3> HIDE DEF in, items
      <3>6. ContinuePath(in, s) \in S
        BY <1>2, <3>4, <3>5
      <3>7. QED
        BY <2>1, <3>1, <3>6
    <2>4. QED
      BY <2>2, <2>3
  <1>5. start \in W[0] /\ W[N] = S
    <2>1. W[0] = S /\ W[N] = S
      BY <1>1
    <2> HIDE DEF start, W
    <2>2. start \in S
      BY <1>2, <1>3
    <2>3. QED
      BY <2>1, <2>2
  <1>6. FindPath(in, first) = end.best
    BY DEF FindPath
  <1> HIDE DEF W, in, start, items, first
  <1>7. end \in S
    BY <1>1, <1>4, <1>5, Searching!LoopInvariant
  <1> HIDE DEF end
  <1>8. end.best # <<>> => Len(end.best) = k + 1
    BY <1>2, <1>7 DEF Hunting, Caught
  <1>9. end.best \in Seq(Stated(g))
    <2>1. end \in Searches(g, c)
      BY <1>7 DEF S
    <2>2. <<>> \in Seq(Stated(g))
      OBVIOUS
    <2>3. QED
      BY <2>1, <2>2 DEF Searches, Circles
  <1>10. QED
    BY <1>6, <1>8, <1>9 DEF in, first

LEMMA RotateKeepsLength ==
    ASSUME NEW S, NEW path \in Seq(S)
    PROVE  Len(Rotate(path)) = Len(path)
  <1> DEFINE Pivot(i) == HasLocation(path[i]) /\ \A j \in 1 .. i - 1 : ~HasLocation(path[j])
             pivot == CHOOSE i \in DOMAIN path : Pivot(i)
             r == SubSeq(path, pivot, Len(path)) \o SubSeq(path, 1, pivot - 1)
  <1>1. CASE ~Located(path)
    BY <1>1 DEF Located, Rotate
  <1>2. CASE Located(path)
    <2>1. \E i \in DOMAIN path : Pivot(i)
      BY <1>2, FirstLocated
    <2>2. pivot \in DOMAIN path
      BY <2>1
    <2>3. Rotate(path) = r
      BY <1>2 DEF Located, Rotate
    <2>4. pivot \in 1 .. Len(path)
      BY <2>2
    <2> HIDE DEF pivot
    <2>5. Turned(path, r, pivot)
      BY <2>4, Rotated
    <2>6. QED
      BY <2>3, <2>5 DEF Turned
  <1>3. QED
    BY <1>1, <1>2

\* The causes that are told are as few as there can be.
CausesShort(g, solved) ==
    solved.threw = "nothing" =>
        \A i \in DOMAIN g.constraints :
            LET c == g.constraints[i]
            IN  Violated(solved.order, c) =>
                    Len(Counterexample(g, solved.order, c)) =
                        1 + Distance(g, Lesser(c), Greater(c))

LEMMA SolveIsShort ==
    ASSUME SolverUnfolds, NEW g \in Group, Referring(g), WellConstrained(g)
    PROVE  CausesShort(g, Solve(g))
  <1> DEFINE orders == Build(g)
             found == DetectAllConflicts(g, orders)
             solved == Solve(g)
             N == Len(g.constraints)
  <1>1. orders \in [Ids(g) -> Nat] /\ Matching(g, orders)
    BY BuildMatches
  <1>2. found \in Findings(g, orders, N)
    BY ConflictsDetected
  <1>3. solved = [order |-> orders, threw |-> found.threw, candidates |-> found.candidates]
    BY DEF Solve
  <1> HIDE DEF orders, found, solved
  <1>4. solved.order = orders /\ solved.threw = found.threw
    BY <1>3
  <1>5. SUFFICES ASSUME found.threw = "nothing", NEW i \in DOMAIN g.constraints,
                        Violated(orders, g.constraints[i])
                 PROVE  Len(Counterexample(g, orders, g.constraints[i])) =
                           1 + Distance(g, Lesser(g.constraints[i]), Greater(g.constraints[i]))
    BY <1>4 DEF CausesShort, solved
  <1> DEFINE c == g.constraints[i]
             k == Distance(g, Lesser(c), Greater(c))
             path == FindPath([group |-> g, order |-> orders, target |-> Greater(c)],
                              Candidate(c))
  <1>6. \A j \in DOMAIN g.constraints :
           LET e == g.constraints[j]
           IN  Violated(orders, e) =>
                  Hopeless(g, orders, e) /\ Counterexample(g, orders, e) # <<>>
    BY <1>2, <1>5, IdsAreNumbers DEF Findings
  <1>7. c \in Stated(g) /\ c.rel # "=" /\ Hopeless(g, orders, c)
        /\ Counterexample(g, orders, c) # <<>>
    <2>1. c \in Stated(g)
      BY StatedConstraints
    <2>2. c.rel # "="
      BY <1>5 DEF Violated
    <2>3. QED
      BY <1>5, <1>6, <2>1, <2>2
  <1>8. \A j \in DOMAIN g.constraints :
           Violated(orders, g.constraints[j]) => Hopeless(g, orders, g.constraints[j])
    BY <1>6
  <1> HIDE DEF c
  <1>9. PICK u : Shortest(g, orders, c, u, k)
    BY <1>1, <1>7, <1>8, ShortestChain
  <1> HIDE DEF k
  <1>10. path \in Seq(Stated(g)) /\ (path # <<>> => Len(path) = k + 1)
    BY <1>7, <1>9, FoundShortest
  <1>11. Counterexample(g, orders, c) = Rotate(path)
    BY DEF Counterexample
  <1> HIDE DEF path
  <1>12. path # <<>>
    <2>1. Rotate(<<>>) = <<>>
      BY DEF Rotate
    <2>2. QED
      BY <1>7, <1>11, <2>1
  <1>13. Len(Rotate(path)) = k + 1 /\ k \in Nat
    BY <1>9, <1>10, <1>12, RotateKeepsLength DEF Shortest
  <1>14. Len(Counterexample(g, orders, c)) = 1 + k
    BY <1>11, <1>13
  <1>15. QED
    BY <1>14 DEF k, c

-----------------------------------------------------------------------------
(* The check of a function.                                                *)

(* What is solved is the group as it was collected.                        *)
CheckInvariant == TableInvariant /\ (Solved => result = <<Solve(group)>>)

LEMMA CheckStarts == CheckInit => CheckInvariant
  BY InitInvariant DEF CheckInit, CheckInvariant, Solved

LEMMA CheckSteps == CheckInvariant /\ [CheckNext]_checkVars => CheckInvariant'
<1> SUFFICES ASSUME CheckInvariant, [CheckNext]_checkVars
             PROVE  CheckInvariant'
  OBVIOUS
<1>1. CASE Collect
  <2>1. TableInvariant'
    BY <1>1, NextInvariant DEF CheckInvariant, Collect
  <2>2. ~Solved'
    BY <1>1 DEF Collect, Solved, Unsolved
  <2> QED
    BY <2>1, <2>2 DEF CheckInvariant
<1>2. CASE SolveGroup
  <2>1. TableInvariant'
    BY <1>2, NextInvariant DEF CheckInvariant, SolveGroup
  <2>2. result' = <<Solve(group)>> /\ group' = group
    BY <1>2 DEF SolveGroup, vars
  <2> QED
    BY <2>1, <2>2 DEF CheckInvariant
<1>3. CASE UNCHANGED checkVars
  <2>1. TableInvariant'
    BY <1>3, NextInvariant DEF CheckInvariant, checkVars
  <2>2. result' = result /\ group' = group
    BY <1>3 DEF checkVars, vars
  <2> QED
    BY <2>1, <2>2 DEF CheckInvariant, Solved
<1> QED
  BY <1>1, <1>2, <1>3 DEF CheckNext

\* In every behaviour the table keeps its invariant, and the result is that
\* of solving the group it has collected.
THEOREM CheckIsInvariant == CheckSpec => []CheckInvariant
  BY CheckStarts, CheckSteps, PTL DEF CheckSpec

LEMMA CollectedGroupRefers ==
    ASSUME CheckInvariant
    PROVE  group \in Group /\ Referring(group)
  BY DEF CheckInvariant, TableInvariant, WellShaped, WellConstrained, Referring

LEMMA SolvedIsRight ==
    ASSUME SolverUnfolds, CheckInvariant, Solved
    PROVE  LET solved == result[1]
           IN  Matching(group, solved.order) /\ Verdict(group, solved)
                  /\ CausesTold(group, solved)
<1> DEFINE solved == Solve(group)
<1>1. Matching(group, solved.order) /\ Verdict(group, solved) /\ CausesTold(group, solved)
  BY CollectedGroupRefers, SolveIsRight
<1>2. result[1] = solved
  <2>1. result = <<solved>>
    BY DEF CheckInvariant
  <2> HIDE DEF solved
  <2> QED
    BY <2>1
<1> HIDE DEF solved
<1> QED
  BY <1>1, <1>2

\* Lifetimes that must match get the same order, whatever equals what and in
\* whatever order union_equal_successors meets it: check_conflict may rely
\* on it and never look at an Equals constraint.
THEOREM CheckEqualsKept ==
    ASSUME SolverUnfolds
    PROVE  CheckSpec => []EqualsKept
<1>1. CheckInvariant => EqualsKept
  <2> SUFFICES ASSUME CheckInvariant, Solved
               PROVE  Matching(group, order)
    BY DEF EqualsKept, Matching
  <2> QED
    BY SolvedIsRight DEF order
<1> QED
  BY <1>1, CheckIsInvariant, PTL

\* solve finds exactly the constraints that cannot be met; when it gives up
\* with an exception, the errors it has found before are errors of a function
\* whose lifetimes really cannot be met.
THEOREM CheckVerdictIsRight ==
    ASSUME SolverUnfolds
    PROVE  CheckSpec => []VerdictIsRight
<1>1. CheckInvariant => VerdictIsRight
  <2> SUFFICES ASSUME CheckInvariant, Solved
               PROVE  Verdict(group, result[1])
    BY DEF VerdictIsRight, Verdict, threw, order, candidates
  <2> QED
    BY SolvedIsRight
<1> QED
  BY <1>1, CheckIsInvariant, PTL

\* Each error that is reported comes with constraints of the function that
\* lead in a circle, the violated one among them, told from the place of the
\* error.
THEOREM CheckConflictsHaveACause ==
    ASSUME SolverUnfolds
    PROVE  CheckSpec => []ConflictsHaveACause
<1>1. CheckInvariant => ConflictsHaveACause
  <2> SUFFICES ASSUME CheckInvariant, Solved
               PROVE  CausesTold(group, result[1])
    BY DEF ConflictsHaveACause, CausesTold, candidates, Walks
  <2> QED
    BY SolvedIsRight
<1> QED
  BY <1>1, CheckIsInvariant, PTL

\* report_unsatisfied_outlives tells each conflict with as few causes as
\* there can be, although the search skips every lifetime it has reached
\* before and never looks back at those on its way: no other circle through
\* the violated constraint is shorter than the one it finds.
THEOREM CheckCausesAreShortest ==
    ASSUME SolverUnfolds
    PROVE  CheckSpec => []CausesAreShortest
<1>1. CheckInvariant => CausesAreShortest
  <2> SUFFICES ASSUME CheckInvariant, Solved
               PROVE  CausesShort(group, result[1])
    BY DEF CausesAreShortest, CausesShort, threw, order
  <2> DEFINE solved == Solve(group)
  <2>1. CausesShort(group, solved)
    BY CollectedGroupRefers, SolveIsShort DEF CheckInvariant, TableInvariant
  <2>2. result[1] = solved
    <3>1. result = <<solved>>
      BY DEF CheckInvariant
    <3> HIDE DEF solved
    <3> QED
      BY <3>1
  <2> HIDE DEF solved
  <2> QED
    BY <2>1, <2>2
<1> QED
  BY <1>1, CheckIsInvariant, PTL

=============================================================================
