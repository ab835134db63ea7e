------------------------------ MODULE CodeGen ------------------------------
(***************************************************************************)
(* The LLVM back end on programs of numbers (LLVMBackendAstVisitor of      *)
(* llvm_backend.cpp): typed trees in, the functions of an LLVM module out. *)
(*                                                                         *)
(* The generator is a record of                                            *)
(*   blocks   the blocks of the function, each its instructions and        *)
(*            whether it has been inserted into the function,              *)
(*   at       the block instructions are appended to,                      *)
(*   variables  the stack slot of each variable (variable_map),            *)
(*   current  the CurrentValue: a register, a constant, a place in memory, *)
(*            or no value at all,                                          *)
(*   exited   has_exited,                                                  *)
(*   functions  what the module declares so far,                           *)
(*   fails    whether the code has thrown, or has used a pointer to        *)
(*            nothing.                                                     *)
(* An instruction is a record of its operation, the type and the register  *)
(* of its result, its operands and the blocks or the function it goes to.  *)
(***************************************************************************)
EXTENDS NumberCheck

-----------------------------------------------------------------------------
\* getLLVMType.  A bool is an integer of one bit; int and uint are the same.
LlvmType(type) ==
  CASE type = Bool -> "bit" [] type = Void -> "void" [] OTHER -> "word"

Bits(llvm) == IF llvm = "bit" THEN 1 ELSE Width

Register(n, type) == [is |-> "register", n |-> n, type |-> type]
Constant(n, type) == [is |-> "constant", n |-> n % 2^Bits(type), type |-> type]
Memory(slot) == [is |-> "memory", n |-> slot.n, type |-> slot.holds]
NoValue == [is |-> "nothing", n |-> 0, type |-> "void"]

Fail(g) == [g EXCEPT !.fails = TRUE]

\* An instruction at the insertion point; what it computes is the current value.
Insert(g, op, type, args, to) ==
  LET n == Len(g.blocks[g.at].code) + 1
      made == Register(<<g.at, n>>, type)
  IN  [g EXCEPT !.blocks[g.at].code =
                   Append(@, [op |-> op, type |-> type, args |-> args, to |-> to]),
                !.current = made,
                !.fails = @ \/ \E i \in DOMAIN args : args[i].is = "nothing"]

\* read_current_value
Read(g) ==
  IF g.current.is # "memory" THEN g
  ELSE Insert(g, "load", g.current.type, <<Register(g.current.n, "pointer")>>, <<>>)

\* A block of its own that is not yet in the function, and Place puts it there.
NewBlock(g) == [g EXCEPT !.blocks = Append(@, [placed |-> FALSE, code |-> <<>>])]
Place(g, b) == [g EXCEPT !.blocks[b].placed = TRUE, !.at = b]
Branch(g, b) == Insert(g, "br", "void", <<>>, <<b>>)

RECURSIVE Emit(_, _)

-----------------------------------------------------------------------------
\* Expressions.
EmitLiteral(n, g) ==
  [g EXCEPT !.current =
     IF IsIntegerText(n.w) THEN Constant(ValueOf(n.w), "word")
     ELSE Constant(IF n.w = <<"true">> THEN 1 ELSE 0, "bit")]

EmitId(n, g) ==
  IF n.x.is = "variable" /\ n.x.id \in DOMAIN g.variables
  THEN [g EXCEPT !.current = Memory(g.variables[n.x.id])]
  ELSE Fail(g)

\* The arguments, read one behind the other.
EmitArgs(acc, rest, g) ==
  IF rest = <<>> THEN [g EXCEPT !.values = acc]
  ELSE LET q == Read(Emit(Head(rest), g))
       IN  Emit([k |-> "args", acc |-> Append(acc, q.current), rest |-> Tail(rest)], q)

\* The arguments, and the call unless it cannot be made.
CallMade(n, g, callable) ==
  LET name == n.c[1].x.name
      q == Emit([k |-> "args", acc |-> <<>>, rest |-> Tail(n.c)], g)
      type == LlvmType(q.signatures[name].ret)
      made == Insert(q, "call", type, q.values, name)
  IN  CASE ~callable -> Fail(q)
        [] callable /\ type = "void" -> [made EXCEPT !.current = NoValue]
        [] OTHER -> made

\* A bug to find: every function of the program is in the module already.
EmitCallAnywhere(n, g) == CallMade(n, g, n.c[1].x.is = "function")

\* The module has the functions declared so far, and no others.
EmitCall(n, g) ==
  CallMade(n, g, n.c[1].x.is = "function" /\ n.c[1].x.name \in g.functions)

EmitAssignment(n, g) ==
  LET left == Emit(n.c[1], g)
      right == Emit(n.c[2], left)
      read == Read(right)
  IN  IF left.current.is # "memory" THEN Fail(left)
      ELSE [Insert(read, "store", "void",
                   <<read.current, Register(left.current.n, "pointer")>>, <<>>)
              EXCEPT !.current = right.current]

\* A bug to find: every division is a signed one.
InstructionSigned(op, type) ==
  CASE op = <<"+">> -> "add" [] op = <<"-">> -> "sub" [] op = <<"*">> -> "mul"
    [] op = <<"/">> -> "sdiv" [] op = <<"%">> -> "srem"
    [] op = <<"=", "=">> -> "eq" [] op = <<"!", "=">> -> "ne"
    [] op = <<"<">> -> "slt" [] op = <<"<", "=">> -> "sle"
    [] op = <<">">> -> "sgt" [] op = <<">", "=">> -> "sge"
    [] OTHER -> "unsupported"

\* What an operator becomes, by the type of the left operand.
Instruction(op, type) ==
  CASE op = <<"+">> -> "add" [] op = <<"-">> -> "sub" [] op = <<"*">> -> "mul"
    [] op = <<"/">> -> IF type = Unsigned THEN "udiv" ELSE "sdiv"
    [] op = <<"%">> -> IF type = Unsigned THEN "urem" ELSE "srem"
    [] op = <<"=", "=">> -> "eq" [] op = <<"!", "=">> -> "ne"
    [] op = <<"<">> -> "slt" [] op = <<"<", "=">> -> "sle"
    [] op = <<">">> -> "sgt" [] op = <<">", "=">> -> "sge"
    [] OTHER -> "unsupported"

Comparisons == {"eq", "ne", "slt", "sle", "sgt", "sge"}

EmitBinary(n, g) ==
  LET left == Read(Emit(n.c[1], g))
      right == Read(Emit(n.c[2], left))
      op == Instruction(n.w, n.c[1].t)
  IN  CASE n.w = <<"=">> -> EmitAssignment(n, g)
        [] n.w # <<"=">> /\ op = "unsupported" -> Fail(right)
        [] OTHER -> Insert(right, op, IF op \in Comparisons THEN "bit" ELSE left.current.type,
                           <<left.current, right.current>>, <<>>)

EmitUnary(n, g) ==
  LET q == Read(Emit(n.c[1], g))
  IN  IF n.w # <<"-">> THEN Fail(g)
      ELSE Insert(q, "sub", q.current.type, <<Constant(0, q.current.type), q.current>>, <<>>)

\* CreateIntCast: nothing to do for a value that has the width already.
IntCast(g, type, signed) ==
  CASE g.current.type = type -> g
    [] g.current.type # type /\ type = "bit" -> Insert(g, "trunc", type, <<g.current>>, <<>>)
    [] OTHER -> Insert(g, IF signed THEN "sext" ELSE "zext", type, <<g.current>>, <<>>)

EmitCast(n, g) ==
  LET q == Emit(n.c[1], g)
      from == n.c[1].t
  IN  IF LlvmType(from) = LlvmType(n.t) THEN q
      ELSE IF Void \in {from, n.t} THEN Fail(q)
      ELSE IntCast(Read(q), LlvmType(n.t), from # Unsigned)

-----------------------------------------------------------------------------
\* Statements.  None but a block's loop is looked at once the function has
\* exited.

\* A bug to find: a branch that has exited jumps to the merge block too.
ClosedTwice(g, b) == Branch(g, b)

\* The end of a branch.
Closed(g, b) == IF g.exited THEN g ELSE Branch(g, b)

EmitIf(n, g) ==
  LET condition == Read(Emit(n.c[1], g))
      first == Len(condition.blocks) + 1       \* true_block
      second == first + 1                      \* false_block
      merge == first + 2                       \* merge_block
      split == Insert(NewBlock(NewBlock(NewBlock(condition))), "condbr", "void",
                      <<condition.current>>, <<first, second>>)
      then == Emit(n.c[2], Place(split, first))
      other == [Place(Closed(then, merge), second) EXCEPT !.exited = FALSE]
      else == IF n.c[3] = Bare THEN other ELSE Emit(n.c[3], other)
      joined == Closed(else, merge)
  IN  IF then.exited /\ else.exited THEN joined
      ELSE Place([joined EXCEPT !.exited = FALSE], merge)

\* A body that exits leaves the insertion point behind its terminator.
EmitWhile(n, g) ==
  LET test == Len(g.blocks) + 1                \* loop_condition
      inside == test + 1                       \* loop_body
      merge == test + 2                        \* merge_block
      entered == Place(Branch(NewBlock(NewBlock(NewBlock(g))), test), test)
      condition == Read(Emit(n.c[1], entered))
      split == Insert(condition, "condbr", "void", <<condition.current>>, <<inside, merge>>)
      body == Emit(n.c[2], Place(split, inside))
  IN  IF body.exited THEN [body EXCEPT !.exited = FALSE]
      ELSE Place(Branch(body, test), merge)

\* A stack slot: the register that points to it, and what it was made for.
Slot(g, type) == [n |-> <<g.at, Len(g.blocks[g.at].code) + 1>>, holds |-> type]
Store(g, slot) ==
  Insert(g, "store", "void", <<g.current, Register(slot.n, "pointer")>>, <<>>)

EmitLet(n, g) ==
  LET type == LlvmType(g.types[n.x.id])
      slot == Slot(g, type)
      known == [Insert(g, "alloca", type, <<>>, <<>>)
                  EXCEPT !.variables = (n.x.id :> slot) @@ @]
      init == Read(Emit(n.c[1], known))
  IN  IF n.c[1] = Bare THEN known ELSE Store(init, slot)

EmitReturn(n, g) ==
  LET value == Read(Emit(n.c[1], g))
      args == IF value.current.is = "nothing" THEN <<>> ELSE <<value.current>>
  IN  [Insert(value, "ret", "void", args, <<>>) EXCEPT !.exited = TRUE]

\* The statements of a block up to one that exits.
EmitAll(rest, g) ==
  IF rest = <<>> \/ g.exited THEN g
  ELSE Emit([k |-> "all", rest |-> Tail(rest)], Emit(Head(rest), g))

Emit(n, g) ==
  CASE n.k = "all" -> EmitAll(n.rest, g)
    [] n.k = "args" -> EmitArgs(n.acc, n.rest, g)
    [] n.k = "lit" -> EmitLiteral(n, g)
    [] n.k = "id" -> EmitId(n, g)
    [] n.k = "call" -> EmitCall(n, g)
    [] n.k = "bin" -> EmitBinary(n, g)
    [] n.k = "un" -> EmitUnary(n, g)
    [] n.k = "cast" -> EmitCast(n, g)
    [] n.k = "block" -> EmitAll(n.c, g)
    [] n.k = "if" -> IF g.exited THEN g ELSE EmitIf(n, g)
    [] n.k = "while" -> IF g.exited THEN g ELSE EmitWhile(n, g)
    [] n.k = "let" -> IF g.exited THEN g ELSE EmitLet(n, g)
    [] n.k = "ret" -> IF g.exited THEN g ELSE EmitReturn(n, g)
    [] n.k = "expr" -> IF g.exited THEN g ELSE Emit(n.c[1], g)
    [] OTHER -> IF g.exited THEN g ELSE Fail(g)      \* an arena block, or an empty copy

-----------------------------------------------------------------------------
\* Declarations.

\* The parameters arrive as registers, and each is given a slot.
RECURSIVE EmitParams(_, _, _)
EmitParams(params, i, g) ==
  IF i > Len(params) THEN g
  ELSE LET type == LlvmType(g.types[params[i].x.id])
           slot == Slot(g, type)
           known == [Insert(g, "alloca", type, <<>>, <<>>)
                       EXCEPT !.variables = (params[i].x.id :> slot) @@ @,
                              !.current = Register(<<0, i>>, type)]
       IN  EmitParams(params, i + 1, Store(known, slot))

\* declare_function, and the body where there is one.
EmitFunction(module, decl, unit) ==
  LET name == decl.w
      g == [blocks |-> << [placed |-> TRUE, code |-> <<>>] >>, at |-> 1,
            variables |-> <<>>, current |-> NoValue, values |-> <<>>, exited |-> FALSE,
            functions |-> DOMAIN module.functions \cup {name}, fails |-> FALSE,
            types |-> unit.types, signatures |-> unit.signatures]
      body == Emit(decl.c[2], EmitParams(decl.c[1].c, 1, g))
      done == IF unit.signatures[name].ret = Void /\ ~body.exited
              THEN Insert(body, "ret", "void", <<>>, <<>>) ELSE body
      made == [params |-> [i \in DOMAIN decl.c[1].c |-> LlvmType(unit.types[decl.c[1].c[i].x.id])],
               variadic |-> unit.signatures[name].variadic,
               ret |-> LlvmType(unit.signatures[name].ret),
               blocks |-> IF decl.c[2] = Bare THEN <<>> ELSE done.blocks]
  IN  [functions |-> (name :> made) @@ module.functions,
       fails |-> module.fails \/ (decl.c[2] # Bare /\ done.fails)]

\* emit_impl, up to the module that is validated: unit has the typed
\* declarations, the types of the variables and the signatures.
Module(unit) ==
  FoldLeft(LAMBDA module, decl : IF module.fails THEN module ELSE EmitFunction(module, decl, unit),
           [functions |-> <<>>, fails |-> FALSE],
           SelectSeq(unit.decls, LAMBDA d : d.k = "fun"))
=============================================================================
