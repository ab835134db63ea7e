--------------------------- MODULE NameResolution ---------------------------
(***************************************************************************)
(* From a syntax tree to a resolved tree (resolve/tree.hpp,                *)
(* resolve/expressions.cpp): every identifier becomes the variable or the  *)
(* function it stands for, and every variable of the file gets an id and,  *)
(* where the text names one, a type.                                       *)
(*                                                                         *)
(* The resolver, as it is passed along, is a record of                     *)
(*   functions, types   the names the file can use,                        *)
(*   scopes    the VariableScopes from the function's to the innermost,    *)
(*             each a function from names to ids,                          *)
(*   vars      the VariableRegistry: what is known of each id,             *)
(*   root      whether the function's own block has been entered,          *)
(*   errors    what has been reported, in order,                           *)
(*   v         the resolved node that was made last.                       *)
(* A resolved node is a node with its ResolvedExpressionInfo x.            *)
(***************************************************************************)
EXTENDS Parser, SequencesExt

Builtins == {<<"int">>, <<"uint">>, <<"bool">>}

Unresolved == [is |-> "unresolved"]
VariableInfo(id) == [is |-> "variable", id |-> id]
FunctionInfo(name) == [is |-> "function", name |-> name]

Resolved(n, info, children) == [k |-> n.k, w |-> n.w, c |-> children, x |-> info]
Bare == Resolved(None, Unresolved, <<>>)

-----------------------------------------------------------------------------
\* Scopes.

\* resolve_variable_id
Visible(r, name) == \E s \in DOMAIN r.scopes : name \in DOMAIN r.scopes[s]
Lookup(r, name) == r.scopes[Max({s \in DOMAIN r.scopes : name \in DOMAIN r.scopes[s]})][name]

\* add_variable: an id of its own, in the innermost scope, whatever had the
\* name there.
AddVariable(r, name, type) ==
  LET id == Len(r.vars) + 1
  IN  [r EXCEPT !.vars = Append(@, [name |-> name, type |-> type]),
                !.scopes[Len(r.scopes)] = (name :> id) @@ @]

Push(r) == [r EXCEPT !.scopes = Append(@, <<>>)]

\* Back to the scopes of r.
Pop(r, inner) == [inner EXCEPT !.scopes = r.scopes]

Reporting(r, code, name) == [r EXCEPT !.errors = Append(@, <<code, name>>)]

-----------------------------------------------------------------------------
\* Types.  A type has one name in it: what it points to, or what it has many of.
RECURSIVE NamedIn(_)
NamedIn(type) == IF type.k = "type" THEN type.w ELSE NamedIn(type.c[1])

\* "void" is always there, and is no name.
Known(r, type) == NamedIn(type) \in r.types \cup {<<"void">>}

ErrorSymbol == Node("type", <<"<error>">>, <<>>)
TypeOrError(r, type) == IF Known(r, type) THEN type ELSE ErrorSymbol

References(r, type) ==
  IF Known(r, type) THEN r ELSE Reporting(r, "E_R_TYPE_UNKN", NamedIn(type))

-----------------------------------------------------------------------------
RECURSIVE Walk(_, _)

\* All of a list, one after the other; the resolved nodes are in v.
WalkList(acc, rest, r) ==
  IF rest = <<>> THEN Result(r, acc)
  ELSE LET head == Walk(Head(rest), r)
       IN  Walk([k |-> "list", acc |-> Append(acc, head.v), rest |-> Tail(rest)], head)

All(nodes, r) == Walk([k |-> "list", acc |-> <<>>, rest |-> nodes], r)

\* The children that are expressions or statements; a cast's type is no child.
Children(n) == IF n.k = "cast" THEN <<n.c[1]>> ELSE n.c

WalkId(n, r) ==
  LET variable == Visible(r, n.w)
      function == n.w \in r.functions
  IN  CASE variable /\ function ->
             Result(Reporting(r, "E_R_VAR_AMBG", n.w), Resolved(n, Unresolved, <<>>))
        [] variable /\ ~function ->
             Result(r, Resolved(n, VariableInfo(Lookup(r, n.w)), <<>>))
        [] ~variable /\ function -> Result(r, Resolved(n, FunctionInfo(n.w), <<>>))
        [] OTHER -> Result(Reporting(r, "E_R_ID_UNKN", n.w), Resolved(n, Unresolved, <<>>))

WalkExpression(n, r) ==
  LET q == All(Children(n), r)
  IN  Result(q, Resolved(n, Unresolved, IF n.k = "cast" THEN Append(q.v, n.c[2]) ELSE q.v))

\* Each branch has a scope, whether or not it is a block.
WalkIf(n, r) ==
  LET condition == Walk(n.c[1], r)
      then == Pop(r, Walk(n.c[2], Push(condition)))
      else == IF n.c[3] = None THEN Result(then, Bare)
              ELSE Pop(r, Walk(n.c[3], Push(then)))
  IN  Result(else, Resolved(n, Unresolved, <<condition.v, then.v, else.v>>))

\* A bug to find: a loop's body shares the scope around the loop.
WalkWhileOpen(n, r) ==
  LET condition == Walk(n.c[1], r)
      body == Walk(n.c[2], condition)
  IN  Result(body, Resolved(n, Unresolved, <<condition.v, body.v>>))

WalkWhile(n, r) ==
  LET condition == Walk(n.c[1], r)
      body == Pop(r, Walk(n.c[2], Push(condition)))
  IN  Result(body, Resolved(n, Unresolved, <<condition.v, body.v>>))

\* The variable is there before its initializer is looked at.
WalkLet(n, r) ==
  LET typed == n.c[1] # None
      q == AddVariable(IF typed THEN References(r, n.c[1]) ELSE r, n.w,
                       IF typed THEN TypeOrError(r, n.c[1]) ELSE None)
      init == IF n.c[2] = None THEN Result(q, Bare) ELSE Walk(n.c[2], q)
  IN  Result(init, Resolved(n, VariableInfo(Len(q.vars)), <<n.c[1], init.v>>))

\* The function's own block is the scope that its parameters are in.
WalkBlock(n, r) ==
  LET q == All(n.c, IF r.root THEN Push(r) ELSE [r EXCEPT !.root = TRUE])
  IN  Result(IF r.root THEN Pop(r, q) ELSE q, Resolved(n, Unresolved, q.v))

WalkParam(n, r) ==
  LET q == AddVariable(References(r, n.c[1]), n.w, TypeOrError(r, n.c[1]))
  IN  Result(q, Resolved(n, VariableInfo(Len(q.vars)), n.c))

\* DeclarationVisitor: the return type, then the parameters; then the body.
WalkFunction(n, r) ==
  LET typed == IF n.c[2] = None THEN r ELSE References(r, n.c[2])
      fresh == [typed EXCEPT !.scopes = << <<>> >>, !.root = FALSE]
      params == All(n.c[1].c, fresh)
      body == IF n.c[3] = None THEN Result(params, Bare) ELSE Walk(n.c[3], params)
  IN  Result(body, Resolved(n, Unresolved,
                            <<Resolved(n.c[1], Unresolved, params.v), n.c[2], body.v>>))

WalkField(n, r) == Result(References(r, n.c[1]), Resolved(n, Unresolved, n.c))

WalkStruct(n, r) ==
  LET fields == All(n.c, r) IN Result(fields, Resolved(n, Unresolved, fields.v))

Walk(n, r) ==
  CASE n.k = "list" -> WalkList(n.acc, n.rest, r)
    [] n.k = "id" -> WalkId(n, r)
    [] n.k = "if" -> WalkIf(n, r)
    [] n.k = "while" -> WalkWhile(n, r)
    [] n.k = "let" -> WalkLet(n, r)
    [] n.k = "block" -> WalkBlock(n, r)
    [] n.k = "param" -> WalkParam(n, r)
    [] n.k = "fun" -> WalkFunction(n, r)
    [] n.k = "struct" -> WalkStruct(n, r)
    [] n.k = "field" -> WalkField(n, r)
    [] OTHER -> WalkExpression(n, r)

-----------------------------------------------------------------------------
NamesOf(decls, kinds) == {decls[i].w : i \in {i \in DOMAIN decls : decls[i].k \in kinds}}

\* ExpressionResolver::resolve.  Imports and structs without fields are no
\* declarations to resolve.
Resolve(decls) ==
  LET r == All(SelectSeq(decls, LAMBDA d : d.k \in {"fun", "struct"}),
               [functions |-> NamesOf(decls, {"fun"}),
                types |-> Builtins \cup NamesOf(decls, {"struct", "opaque"}),
                scopes |-> <<>>, vars |-> <<>>, root |-> FALSE, errors |-> <<>>, v |-> None])
  IN  [decls |-> r.v, vars |-> r.vars, types |-> r.types, errors |-> r.errors]
=============================================================================
