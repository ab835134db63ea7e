--------------------------- MODULE CheckedProgram ---------------------------
(***************************************************************************)
(* A function that the type checker accepts, while it runs.  Its variables *)
(* are declared one after the other, and assignments among them are added  *)
(* and executed, each as soon as the checker finds nothing wrong with it;  *)
(* memory holds which variable every pointer points to.  So the reachable  *)
(* states are those of all accepted programs over these variables, and     *)
(* what the types promise can be compared with what memory holds.          *)
(*                                                                         *)
(* A lifetime is the number of the scopes around it, so that 0 lives       *)
(* longest.  The lifetimes in the types are those the solver has found.    *)
(***************************************************************************)
EXTENDS TypeCheck, FiniteSets

CONSTANTS
    Lifetimes,              \* of the scopes of the program
    Variables,              \* in the order of their declaration
    LifetimeOf(_),          \* the scope of a variable
    Declarable(_),          \* bound: the types a variable is declared with
    Assigned(_, _, _),      \* bound: whether programs assign to a type, among
                            \* variables with their types, an expression
    MaxDepartures,          \* bound: departures after which a program ends
    Undefined,              \* what a variable without a value points to
    InnerShape(_),          \* Shape
    InnerSame(_, _),        \* SameUpToConst
    InnerUnmarked(_, _)     \* UnsafeUnmarked

ASSUME LifetimesAssumption == Lifetimes \subseteq Nat /\ {Unsafe, NoLifetime} \cap Lifetimes = {}

\* The variables have different names, and "new" is none of them.  Those of
\* an inner scope are declared after those of the scopes around it.
ASSUME VariablesAssumption ==
    /\ Len(Variables) \in Nat /\ DOMAIN Variables = 1 .. Len(Variables)
    /\ \A i, j \in DOMAIN Variables : Variables[i] = Variables[j] => i = j
    /\ \A i, j \in DOMAIN Variables :
          i < j => LifetimeOf(Variables[i]) <= LifetimeOf(Variables[j])
    /\ \A i \in DOMAIN Variables : /\ Variables[i] \notin {Undefined, "new"}
                                  /\ LifetimeOf(Variables[i]) \in Lifetimes
    /\ LifetimeOf("new") \in Lifetimes

VARIABLES
    types,      \* of the variables declared so far
    memory,     \* the variable that each of them points to
    departures  \* what has been accepted that types do not survive

vars == <<types, memory, departures>>

Scope(declared) ==
    [x \in DOMAIN declared |-> [type |-> declared[x], lifetime |-> LifetimeOf(x)]]

\* What the solver asks of a constraint.
Met(c) ==
    \/ c.left = c.right
    \/ Unsafe \in {c.left, c.right}
    \/ c.rel = "<=" /\ c.left > c.right

Accepted(tc) ==
    /\ tc.errors = <<>>
    /\ \A i \in DOMAIN tc.constraints : Met(tc.constraints[i])

-----------------------------------------------------------------------------
(* Expressions, and what they do when they run.                            *)

Variable(x) == [op |-> "variable", name |-> x, unsafe |-> FALSE]
At(e) == [op |-> ".*", of |-> e, unsafe |-> FALSE]
AddressOf(e) == [op |-> ".&", of |-> e, unsafe |-> FALSE]
Assignment(l, r) == [op |-> "=", left |-> l, right |-> r, unsafe |-> FALSE]

\* The variable that an lvalue stands for, if it has a value: a variable, or
\* what one points to.
Place(m, e) == IF e.op = "variable" THEN e.name ELSE m[e.of.name]

\* What a pointer that is the value of an expression points to.
Pointee(m, e) ==
    IF e.op = ".&" THEN Place(m, e.of)
    ELSE LET place == Place(m, e) IN IF place = Undefined THEN Undefined ELSE m[place]

-----------------------------------------------------------------------------

Init == types = <<>> /\ memory = <<>> /\ departures = {}

Lvalues ==
    LET variables == {Variable(x) : x \in DOMAIN types}
    IN  variables \cup {At(v) : v \in variables}

Operands == Lvalues \cup {AddressOf(e) : e \in Lvalues}

With(f, x, value) == [y \in DOMAIN f \cup {x} |-> IF y = x THEN value ELSE f[y]]

Undeclared == Variables[Cardinality(DOMAIN types) + 1]

TypeOf(e) == CheckExpression(Scope(types), e).type

\* Two types are the same up to where the first is const.
SameUpToConst(to, own) ==
    CASE IsConst(to) -> TRUE
      [] IsPointer(to) -> /\ IsPointer(own) /\ to.lifetime = own.lifetime
                          /\ InnerSame(to.of, own.of)
      [] OTHER -> to = own

(* What is accepted although the value becomes a pointer to something else *)
(* than it was, and may be written through: an address has the type that   *)
(* was expected, not its own (typecheck.cpp:613), and int** is assignable  *)
(* to (const int)**, since anything is to const (operations.cpp:270).      *)
Departure(to, own, e) ==
    LET changes == to # NoType /\ ~IsConst(to) /\ to # own
    IN  {d \in {"address retyped"} : changes /\ e.op = ".&"}
        \cup {d \in {"const assumed"} : changes /\ e.op # ".&" /\ SameUpToConst(to, own)}

Retyped(type, e) == Departure(Dereference(type), Dereference(TypeOf(e)), e)

\* What a pointer to const points to is assigned to: CheckAssignment does
\* not ask whether the lvalue is const.
ConstWritten(l) == {d \in {"const written"} : l.op = ".*" /\ IsConst(TypeOf(l))}

\* let x: type;
Declare(x, type) ==
    /\ types' = With(types, x, type)
    /\ memory' = With(memory, x, Undefined)
    /\ UNCHANGED departures

\* x gets its value, where tc is what the checker makes of the statement.
Initialize(x, e, tc) ==
    /\ Pointee(memory, e) # Undefined
    /\ Accepted(tc)
    /\ types' = With(types, x, tc.scope[x].type)
    /\ memory' = With(memory, x, Pointee(memory, e))
    /\ departures' = departures \cup Retyped(tc.scope[x].type, e)

\* let x: type = e; or, without a type, let x = e;
DeclareInitialized(x, type, e) ==
    Initialize(x, e, CheckLet(Scope(With(types, x, type)), x, e))

\* l = r;
Assign(l, r) ==
    /\ Place(memory, l) # Undefined
    /\ Pointee(memory, r) # Undefined
    /\ Accepted(CheckExpression(Scope(types), Assignment(l, r)))
    /\ memory' = [memory EXCEPT ![Place(memory, l)] = Pointee(memory, r)]
    /\ departures' = departures \cup Retyped(TypeOf(l), r) \cup ConstWritten(l)
    /\ UNCHANGED types

Next ==
    \/ /\ Cardinality(departures) < MaxDepartures
       /\ Cardinality(DOMAIN types) < Len(Variables)
       /\ \E type \in Declarable(Undeclared) :
            \/ Declare(Undeclared, type)
            \/ \E e \in Operands :
                  /\ Assigned(type, types, e)
                  /\ \E declared \in {type, NoType} :
                        DeclareInitialized(Undeclared, declared, e)
    \/ /\ Cardinality(departures) < MaxDepartures
       /\ \E l \in Lvalues, e \in Operands :
            Assigned(TypeOf(l), types, e) /\ Assign(l, e)

Spec == Init /\ [][Next]_vars

-----------------------------------------------------------------------------

(* Properties                                                              *)

Pointing == {x \in DOMAIN types : memory[x] # Undefined}

Bare(type) == IF IsConst(type) THEN type.of ELSE type

\* A type without its qualifiers and lifetimes.
Shape(type) ==
    CASE IsConst(type) -> InnerShape(type.of)
      [] IsPointer(type) -> [is |-> "pointer", of |-> InnerShape(type.of)]
      [] OTHER -> type

(* Only a variable that has the type of a pointer ever holds one, and it   *)
(* points to a value of the type it is a pointer to, also after            *)
(* assignments through pointers to pointers: inference contexts and        *)
(* require_assignable together accept no program in which it does not.     *)
ShapesKept ==
    /\ DOMAIN types = DOMAIN memory
    /\ \A x \in Pointing :
          /\ memory[x] \in DOMAIN types /\ IsPointer(Bare(types[x]))
          /\ Shape(Dereference(types[x])) = Shape(types[memory[x]])

(* A pointer does not outlive what it points to: README.md:219 says so of   *)
(* the arenas that pointers are allocated in.  Where it is violated, the   *)
(* checker has accepted a program that leaves a dangling pointer behind.   *)
NothingDangles == \A x \in Pointing : LifetimeOf(memory[x]) <= LifetimeOf(x)

\* The lifetime in a pointer's type is that of a scope around the pointer.
\* Nothing sees to that: a declaration that names no lifetime gets a free one,
\* and no constraint says where the variable lives.
LabelsSurround ==
    \A x \in DOMAIN types :
        IsPointer(Bare(types[x])) => PointedLifetime(types[x]) <= LifetimeOf(x)

(* Whatever pointer is read, directly or through another one, what it      *)
(* points to lives at least as long as the type it is read with says: the  *)
(* relations that require_assignable records (LessEqual where it may       *)
(* shorten a lifetime, Equals where a shorter one could be smuggled in     *)
(* behind a pointer) suffice for that, until something is retyped or       *)
(* written through a pointer to const.  This keeps a pointer from dangling *)
(* if its type names a lifetime around it, and only then.                  *)
PointersLive ==
    departures = {} =>
        /\ \A e \in Lvalues :
              LET target == Pointee(memory, e)
              IN  target # Undefined => LifetimeOf(target) <= PointedLifetime(TypeOf(e))
        /\ LabelsSurround => NothingDangles

(* "a pointer to a const value cannot be treated is a pointer to a         *)
(* non-const value" (specification/01-assignable.md:14): a variable        *)
(* declared const is only pointed to by pointers to const.                 *)
ConstProtected ==
    \A x \in Pointing : IsConst(types[memory[x]]) => IsConst(Dereference(types[x]))

(* However many pointers, assignments and copies lie in between, a const   *)
(* variable is only pointed to by pointers to const, until something is    *)
(* retyped or written through a pointer to const: strictness               *)
(* (is_const_strict) and the copying context see to everything else.       *)
ConstKept == departures = {} => ConstProtected

\* Bound, for properties of the types alone: the last n variables declared.
Recent(n) ==
    LET declared == Cardinality(DOMAIN types)
    IN  {Variables[i] : i \in {j \in 1 .. declared : j > declared - n}}

\* Whether x = y; is accepted.
Assignable(scope, x, y) ==
    Accepted(CheckExpression(scope, Assignment(Variable(x), Variable(y))))

(* What can be assigned by way of a new variable, of whatever type, can be *)
(* assigned directly: require_assignable is transitive, with its contexts, *)
(* const on either side and lifetime relations.                            *)
WaysAgree ==
    Pointing = {} =>
        \A x, y \in Recent(2) :
        \A type \in UNION {Declarable(Variables[i]) : i \in DOMAIN Variables} :
            LET scope == Scope(With(types, "new", type))
            IN  Assignable(scope, x, "new") /\ Assignable(scope, "new", y)
                    => Assignable(scope, x, y)

(* A type that is inferred for a variable can be written into its          *)
(* declaration.  The inferred type is stored into the variable             *)
(* (constrain_context_type), which outlives the check that inferred it:    *)
(* checking the same statement again must give no new error.               *)
InferredFits ==
    Pointing = {} => \A e \in Operands :
       LET Let(type) == CheckLet(Scope(With(types, "new", type)), "new", e)
           inferred == Let(NoType)
       IN  Accepted(inferred) => Accepted(Let(inferred.scope["new"].type))

Literal == [op |-> "literal", unsafe |-> FALSE]

Computations(bases, operands) ==
    {At(e) : e \in bases}
    \cup [op : {"[]"}, base : bases, offset : operands, unsafe : BOOLEAN]
    \cup [op : {"+"}, left : bases, right : operands, unsafe : BOOLEAN]
    \cup [op : {"+"}, left : operands, right : bases, unsafe : BOOLEAN]

Expressions ==
    LET leaves == {Variable(x) : x \in Recent(1)} \cup {Literal}
        inner == Computations(leaves, leaves)
    IN  inner \cup Computations(inner, {Literal})

OperandsOf(e) ==
    CASE e.op = "[]" -> <<e.base, e.offset>>
      [] e.op = "+" -> <<e.left, e.right>>
      [] e.op = ".*" -> <<e.of>>
      [] OTHER -> <<>>

\* How many operations in e compute with a pointer, or index it, and are not
\* marked @unsafe, among variables with these types.
UnsafeUnmarked(declared, e) ==
    LET operands == OperandsOf(e)
        TypeIn(operand) == CheckExpression(Scope(declared), operand).type
        pointers == {i \in DOMAIN operands : IsPointer(TypeIn(operands[i]))}
        computes == e.op = "+" /\ pointers # {}
        indexes == e.op = "[]" /\ 1 \in pointers
        below(i) == IF i \in DOMAIN operands THEN InnerUnmarked(declared, operands[i]) ELSE 0
    IN  below(1) + below(2) + (IF (computes \/ indexes) /\ ~e.unsafe THEN 1 ELSE 0)

(* Every unmarked operation on a pointer is reported exactly once, and no  *)
(* marked one: the one field that says whether an operation is safe is     *)
(* reset and read in the right order while expressions are nested          *)
(* (resolve_child, verify_safety), so that an annotation covers its own    *)
(* operation and neither its operands nor the operation around it.  The    *)
(* last variable is left out, which has no type that those before cannot   *)
(* have.                                                                   *)
UnsafeReported ==
    Pointing = {} /\ Cardinality(DOMAIN types) < Len(Variables) => \A e \in Expressions :
        LET errors == CheckExpression(Scope(types), e).errors
        IN  Cardinality({i \in DOMAIN errors : errors[i] = "unsafe"}) = UnsafeUnmarked(types, e)

=============================================================================
