---------------------------- MODULE LifetimeTable ----------------------------
(***************************************************************************)
(* How the lifetimes and constraints of one function definition come       *)
(* about: LifetimeTable of signatures/lifetimes.hpp as it is driven by     *)
(* resolve/expressions.cpp and types/typecheck.cpp.  In stage "signature"  *)
(* a public table resolves the types of the signature, in stage "body" a   *)
(* local table resolves the types written in nested blocks, in stage       *)
(* "check" the type checker imports the lifetimes of called functions,     *)
(* requires types to be assignable, and resolves the types of casts, each  *)
(* with a fresh local table, for which no block has been entered.          *)
(***************************************************************************)
EXTENDS LifetimeGroup

CONSTANTS
    Signatures,         \* the lifetime groups of the functions that are called
    MaxLifetimes(_),    \* bound: lifetimes in a group, by what is in it
    MaxDepth,           \* bound: blocks open at a time
    MaxChecks,          \* bound: calls and assignments checked
    MaxLevels,          \* bound: pointers to pointers
    Compared(_)         \* bound: the lifetimes of a group that types have

(* FunctionTableBuilder resolves a signature with a public table and pushes *)
(* neither stack nor arena, so that LifetimeImportVisitor never throws.     *)
ASSUME TableAssumption ==
    /\ \A s \in Signatures :
          /\ s \in Group
          /\ Len(s.lifetimes) >= Ctx
          /\ SubSeq(s.lifetimes, 1, Ctx) = NewGroup.lifetimes
          /\ \A id \in Ids(s) : id > Ctx => s.lifetimes[id] \in Names \cup {"free"}
          /\ s.constraints = BaseConstraints
    /\ MaxDepth \in Nat /\ MaxChecks \in Nat /\ MaxLevels \in Nat

VARIABLES
    stage,              \* "signature", "body" or "check"
    group,              \* the LifetimeGroup of the declaration
    current_arena_id,   \* what `*arena` means here
    current_stack_id,   \* what `*stack` means here
    guards,             \* the scope guards that are alive, outermost first
    blocks,             \* of the resolved tree: their stack, and their arena
    public_inferred_id, \* the lifetime shared by pointers that name none
    checks              \* how many expressions were checked

table == <<current_arena_id, current_stack_id, guards, public_inferred_id>>

vars == <<stage, group, table, blocks, checks>>

Stages == {"signature", "body", "check"}

(* The old_ids that the guards of a scope hold.                            *)
Guard == [arena : Nat, stack : Nat \cup {NoLifetime}]

(* The innermost scope.                                                    *)
Here == [arena |-> current_arena_id, stack |-> current_stack_id]

Room == MaxId(group) < MaxLifetimes(group)

-----------------------------------------------------------------------------
(* push_arena and push_stack on a group.                                   *)

\* Mutant: the inner arena is to outlive the outer one.
PushArenaSwapped(g, outer) ==
    LET inner == MaxId(g) + 1
    IN  AddConstraints(AddLifetime(g, "arena"),
            <<FixedConstraint(inner, outer), FixedConstraint(inner, AnyLifetime)>>)

PushArena(g, outer) ==
    LET inner == MaxId(g) + 1
    IN  AddConstraints(AddLifetime(g, "arena"),
            <<FixedConstraint(outer, inner), FixedConstraint(inner, AnyLifetime)>>)

\* The first stack is outlived by the caller's arena, any other by the
\* stack of the enclosing block.
PushStack(g, outer) ==
    LET inner == MaxId(g) + 1
    IN  AddConstraints(AddLifetime(g, "stack"),
            <<FixedConstraint(IF outer = NoLifetime THEN Ctx ELSE outer,
                              inner),
              FixedConstraint(Static, inner),
              FixedConstraint(inner, AnyLifetime)>>)

-----------------------------------------------------------------------------

(* The public table is made before the group has a stack; visiting the     *)
(* FunctionDefinition pushes one around the signature.                     *)
Init ==
    /\ stage = "signature"
    /\ group = PushStack(NewGroup, NoLifetime)
    /\ current_arena_id = Ctx
    /\ current_stack_id = MaxId(NewGroup) + 1
    /\ guards = <<[arena |-> Ctx, stack |-> NoLifetime]>>
    /\ public_inferred_id = NoLifetime
    /\ blocks = {}
    /\ checks = 0

\* lookup of a name seen for the first time, in a cast it may be; any other
\* lookup adds nothing.
Lookup(name) ==
    /\ Room
    /\ ByName(group, name) = NoLifetime
    /\ group' = AddLifetime(group, name)
    /\ UNCHANGED <<stage, table, blocks, checks>>

\* infer_lifetime: a signature has one lifetime for all pointers that name
\* none; in a body, and in a cast, each has its own.
InferLifetime ==
    /\ Room
    /\ \/ /\ stage = "signature"
          /\ public_inferred_id = NoLifetime
          /\ public_inferred_id' = MaxId(group) + 1
       \/ /\ stage \in {"body", "check"}
          /\ UNCHANGED public_inferred_id
    /\ group' = AddLifetime(group, "free")
    /\ UNCHANGED <<stage, current_arena_id, current_stack_id, guards, blocks, checks>>

\* The guard of the signature is gone; the body has a table of its own.
EnterBody ==
    /\ stage = "signature"
    /\ stage' = "body"
    /\ current_arena_id' = Ctx
    /\ current_stack_id' = StackRoot(group)
    /\ guards' = <<>>
    /\ public_inferred_id' = NoLifetime
    /\ blocks' = {Here'}
    /\ UNCHANGED <<group, checks>>

EnterScope ==
    /\ stage = "body"
    /\ Len(guards) < MaxDepth
    /\ guards' = Append(guards, Here)
    /\ UNCHANGED <<stage, public_inferred_id, checks>>

EnterBlock ==
    /\ EnterScope
    /\ Room
    /\ group' = PushStack(group, current_stack_id)
    /\ current_stack_id' = MaxId(group) + 1
    /\ UNCHANGED current_arena_id
    /\ blocks' = blocks \cup {Here'}

\* An arena statement pushes an arena and then visits its block.
EnterArena ==
    /\ EnterScope
    /\ MaxId(group) + 1 < MaxLifetimes(group)
    /\ group' = PushStack(PushArena(group, current_arena_id), current_stack_id)
    /\ current_arena_id' = MaxId(group) + 1
    /\ current_stack_id' = MaxId(group) + 2
    /\ blocks' = blocks \cup {Here'}

\* Mutant: leaving a block puts back the arena, but not the stack.
LeaveScopeOnly ==
    /\ stage = "body"
    /\ guards # <<>>
    /\ current_arena_id' = guards[Len(guards)].arena
    /\ guards' = SubSeq(guards, 1, Len(guards) - 1)
    /\ UNCHANGED <<stage, group, current_stack_id, public_inferred_id, blocks, checks>>

\* The destructors of the guards put back the old ids.
LeaveScope ==
    /\ stage = "body"
    /\ guards # <<>>
    /\ current_arena_id' = guards[Len(guards)].arena
    /\ current_stack_id' = guards[Len(guards)].stack
    /\ guards' = SubSeq(guards, 1, Len(guards) - 1)
    /\ UNCHANGED <<stage, group, public_inferred_id, blocks, checks>>

\* The type checker takes a copy of the group when everything is resolved.
\* From here on the table is the one that get_type makes for a cast, in
\* whichever of the blocks it stands; what it infers goes into the group.
BeginCheck ==
    /\ stage = "body"
    /\ guards = <<>>
    /\ stage' = "check"
    /\ current_arena_id' = Ctx
    /\ current_stack_id' = StackRoot(group)
    /\ public_inferred_id' = NoLifetime
    /\ UNCHANGED <<group, guards, blocks, checks>>

Check ==
    /\ stage = "check"
    /\ checks < MaxChecks
    /\ checks' = checks + 1
    /\ UNCHANGED <<stage, table, blocks>>

\* A call imports the lifetimes of the function that is called.
Call(signature) ==
    /\ Check
    /\ MaxId(group) + MaxId(signature) - Ctx <= MaxLifetimes(group)
    /\ group' = Import(group, signature)

(* require_assignable walks down two pointer types.  Level by level it     *)
(* requires the left lifetime not to outlive the right one if the value is *)
(* const from here on, or if this is the outermost level and the pointee   *)
(* is not lifetime-strict, and to equal it otherwise.                      *)
Requirement(levels, i, at) ==
    [left |-> levels[i].left,
     rel |-> IF \/ levels[i].const
                \/ i = 1 /\ ~levels[i].strict
             THEN "<=" ELSE "=",
     right |-> levels[i].right,
     at |-> at]

Requirements(levels, at) ==
    [i \in DOMAIN levels |-> Requirement(levels, i, at)]

(* Once a value is const it is const all the way down.  Neither a const    *)
(* type nor a pointer to one is lifetime-strict (is_lifetime_strict).      *)
WellFormed(levels) ==
    \A i \in 2 .. Len(levels) :
        IF levels[i - 1].const THEN levels[i].const
        ELSE levels[i].const =>
                \A j \in DOMAIN levels : j \in {i - 1, i - 2} => ~levels[j].strict

\* The lifetimes of a type may be any of the group's: an inferred type takes
\* those of one block to another.
Assign(levels, at) ==
    /\ Check
    /\ WellFormed(levels)
    /\ group' = AddConstraints(group, Requirements(levels, at))

Levels ==
    [left : Ids(group) \cap Compared(group), right : Ids(group) \cap Compared(group),
     const : BOOLEAN, strict : BOOLEAN]

LevelSeqs == UNION {[1 .. n -> Levels] : n \in 1 .. MaxLevels}

Next ==
    \/ \E name \in Names : Lookup(name)
    \/ InferLifetime
    \/ EnterBody
    \/ EnterBlock
    \/ EnterArena
    \/ LeaveScope
    \/ BeginCheck
    \/ \E signature \in Signatures : Call(signature)
    \/ \E levels \in LevelSeqs, at \in Locations : Assign(levels, at)

Spec == Init /\ [][Next]_vars

-----------------------------------------------------------------------------

Refers(g, c) == {c.left, c.right} \subseteq Ids(g)

\* add_constraint indexes the lifetimes with both ids and checks neither.
ConstraintsRefer ==
    \A i \in DOMAIN group.constraints : Refers(group, group.constraints[i])

TypeOK ==
    /\ stage \in Stages
    /\ group \in Group /\ ConstraintsRefer
    /\ current_arena_id \in Ids(group)
    /\ current_stack_id \in Ids(group)
    /\ guards \in Seq(Guard)
    /\ public_inferred_id \in Ids(group) \cup {NoLifetime}
    /\ blocks \subseteq Guard
    /\ checks \in Nat

(* How deep a lifetime's scope lies: within a group an inner scope has the *)
(* greater id, and inside of everything is `any`.                          *)
Depth(g, id) == IF id = AnyLifetime THEN MaxId(g) + 1 ELSE id

Descends(g, c) ==
    c.at = NoLocation => c.rel = ">" /\ Depth(g, c.left) < Depth(g, c.right)

\* The constraints the compiler adds by itself, those that come with a
\* signature included, never contradict each other: all of them lead from an
\* outer to an inner scope.  Any conflict involves an expression that an
\* error can point to; report_unsatisfied_outlives throws if there is none.
FixedConstraintsDescend ==
    \A i \in DOMAIN group.constraints : Descends(group, group.constraints[i])

Requires(g, greater, lesser) ==
    \E i \in DOMAIN g.constraints :
        g.constraints[i] = FixedConstraint(greater, lesser)

\* The open scopes of the body, outermost first.
Scopes == Append(guards, Here)

OwnBlock == [arena |-> Ctx, stack |-> StackRoot(group)]

\* One scope stands directly in the other.
StandsIn(g, inner, outer) ==
    /\ Requires(g, outer.stack, inner.stack)
    /\ inner.arena = outer.arena \/ Requires(g, outer.arena, inner.arena)

\* While the body is resolved, `*stack` and `*arena` mean the lifetimes of
\* the innermost open scopes: the stacks of the open blocks are required to
\* outlive each other from the function's own inwards, and so are the arenas
\* from the caller's inwards.  In a cast they do not mean the innermost scopes
\* (signatures/types.cpp:197, "This won't handle '*stack' or '*arena'
\* lifetimes correctly"): they mean the function's stack and the caller's
\* arena whichever block the cast stands in.  These surround it, because each
\* block stands in another one up to the function's own; so a cast in a block
\* promises more than the block keeps, never less.
ScopesNest ==
    /\ stage = "body" =>
          /\ Scopes[1] = OwnBlock
          /\ \A i \in DOMAIN guards : StandsIn(group, Scopes[i + 1], Scopes[i])
    /\ stage = "check" => Here = OwnBlock
    /\ \A b \in blocks : b = OwnBlock \/ \E outer \in blocks : StandsIn(group, b, outer)

=============================================================================
