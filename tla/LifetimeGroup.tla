---------------------------- MODULE LifetimeGroup ----------------------------
(***************************************************************************)
(* LifetimeGroup of signatures/lifetimes.hpp: the lifetimes a declaration  *)
(* speaks of, numbered in the order they were added, and the constraints   *)
(* collected between them.  A group is a record here and its operations    *)
(* return the group they leave.                                            *)
(*                                                                         *)
(* A lifetime's id is its position; ids start at 1.  A lifetime is what    *)
(* its variant holds: a name the user wrote, or one of Kinds.  The cause   *)
(* of a constraint is reduced to its location, NoLocation for the          *)
(* constraints the compiler adds by itself (fixed_constraint).             *)
(***************************************************************************)
EXTENDS Integers, Sequences

CONSTANTS
    Names,          \* what users call lifetimes, the predefined names apart
    Locations,      \* the expressions that are checked
    NoLocation,     \* the missing location of a fixed constraint
    NoLifetime      \* the id static_cast<size_t>(-1)

Kinds == {"static", "unsafe", "any", "my", "ctx", "stack", "arena", "free"}

(* LifetimeRelation: Greater, GreaterEqual, Equals, LessEqual, Less.       *)
Relations == {">", ">=", "=", "<=", "<"}

ASSUME GroupAssumption ==
    /\ NoLocation \notin Locations
    /\ NoLifetime \notin Nat
    /\ Names \cap Kinds = {}

(* The five lifetimes every group starts with.                             *)
Static == 1
Unsafe == 2
AnyLifetime == 3
My == 4
Ctx == 5

Constraint ==
    [left : Nat, rel : Relations, right : Nat,
     at : Locations \cup {NoLocation}]

Group == [lifetimes : Seq(Kinds \cup Names), constraints : Seq(Constraint)]

Ids(group) == DOMAIN group.lifetimes

MaxId(group) == Len(group.lifetimes)

FixedConstraint(greater, lesser) ==
    [left |-> greater, rel |-> ">", right |-> lesser, at |-> NoLocation]

BaseConstraints ==
    <<FixedConstraint(Static, AnyLifetime), FixedConstraint(Static, My),
      FixedConstraint(Static, Ctx), FixedConstraint(Ctx, AnyLifetime)>>

NewGroup ==
    [lifetimes |-> <<"static", "unsafe", "any", "my", "ctx">>,
     constraints |-> BaseConstraints]

AddLifetime(group, lifetime) ==
    [group EXCEPT !.lifetimes = Append(@, lifetime)]

AddConstraints(group, more) ==
    [group EXCEPT !.constraints = @ \o more]

(* lifetimes_by_name: the last lifetime added under a name.                *)
ByName(group, name) ==
    LET named == {id \in Ids(group) : group.lifetimes[id] = name}
    IN  IF named = {} THEN NoLifetime
        ELSE CHOOSE id \in named : \A other \in named : other <= id

\* Mutant: stack_root_lifetime_id is never set.
StackRootForgotten(group) == NoLifetime

(* stack_root_lifetime_id: the first stack lifetime added.                 *)
StackRoot(group) ==
    LET stacks == {id \in Ids(group) : group.lifetimes[id] = "stack"}
    IN  IF stacks = {} THEN NoLifetime
        ELSE CHOOSE id \in stacks : \A other \in stacks : id <= other

-----------------------------------------------------------------------------
(* import: a lifetime of a called function's signature becomes a fresh     *)
(* lifetime of the caller, the predefined ones become the caller's own,    *)
(* and the constraints follow.                                             *)

FreshLifetimes(other) == SubSeq(other.lifetimes, Ctx + 1, MaxId(other))

\* Mutant: the visitor adds every lifetime anew, the predefined ones included,
\* but not to the group.
ImportedAllFresh(group, id) == MaxId(group) + id

(* id_mapping: the base lifetimes stand first in every group, so that the  *)
(* n-th fresh one is the n-th after them.                                  *)
Imported(group, id) == IF id <= Ctx THEN id ELSE MaxId(group) + id - Ctx

ImportConstraint(group, c) ==
    [c EXCEPT !.left = Imported(group, @), !.right = Imported(group, @)]

Import(group, other) ==
    [lifetimes |-> group.lifetimes \o FreshLifetimes(other),
     constraints |->
        group.constraints
            \o [i \in DOMAIN other.constraints |->
                    ImportConstraint(group, other.constraints[i])]]

-----------------------------------------------------------------------------
(* add_constraint also enters the constraint into the adjacency lists of   *)
(* both lifetimes: `outlives` of the greater one, `equals` of both.  They  *)
(* are in the order of the constraints, so that going through one of them  *)
(* is going through the constraints that belong to it.                     *)

Greater(c) == IF c.rel \in {">", ">="} THEN c.left ELSE c.right

Lesser(c) == IF c.rel \in {">", ">="} THEN c.right ELSE c.left

Other(c, id) == IF c.left = id THEN c.right ELSE c.left

Outlives(c, id) == c.rel # "=" /\ Greater(c) = id

Equals(c, id) == c.rel = "=" /\ id \in {c.left, c.right}

=============================================================================
