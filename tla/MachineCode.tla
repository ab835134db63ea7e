---------------------------- MODULE MachineCode ----------------------------
(***************************************************************************)
(* What LLVM makes of the modules the back end builds: which ones its      *)
(* verifier takes (verifyModule), and what the others do when they run.    *)
(* LLVM is a library; this is as much of it as the generated code uses.    *)
(*                                                                         *)
(* A machine is a record of the function and the block it is in, the       *)
(* values of the registers, the memory behind the stack slots, the calls   *)
(* of outside functions so far (log), the steps it may still take, and how *)
(* it is: running, returned or undefined.                                  *)
(***************************************************************************)
EXTENDS CodeGen

Terminators == {"br", "condbr", "ret"}
Calculations == {"add", "sub", "mul", "sdiv", "udiv", "srem", "urem"}

-----------------------------------------------------------------------------
\* The verifier.
ArgTypes(instruction) == [i \in DOMAIN instruction.args |-> instruction.args[i].type]

WellTyped(instruction, f, functions) ==
  LET types == ArgTypes(instruction)
  IN  CASE instruction.op \in Calculations \cup Comparisons -> types[1] = types[2]
        [] instruction.op = "condbr" -> types[1] = "bit"
        [] instruction.op = "ret" -> types = IF f.ret = "void" THEN <<>> ELSE <<f.ret>>
        [] instruction.op = "call" ->
             LET params == functions[instruction.to].params
             IN  /\ SubSeq(types, 1, Len(params)) = params
                 /\ Len(types) = Len(params) \/ functions[instruction.to].variadic
        [] OTHER -> TRUE

EndsOnce(code) ==
  \A i \in DOMAIN code : (code[i].op \in Terminators) <=> (i = Len(code))

BlockFits(f, b, functions) ==
  LET code == f.blocks[b].code
  IN  /\ code # <<>> /\ EndsOnce(code)
      /\ \A i \in DOMAIN code :
           /\ WellTyped(code[i], f, functions)
           /\ code[i].op \in {"br", "condbr"} =>
                \A j \in DOMAIN code[i].to : f.blocks[code[i].to[j]].placed

WellFormed(module) ==
  \A name \in DOMAIN module.functions :
    LET f == module.functions[name]
    IN  \A b \in DOMAIN f.blocks : f.blocks[b].placed => BlockFits(f, b, module.functions)

-----------------------------------------------------------------------------
\* Numbers.  A value is kept as its bits; signed operations read them as a
\* number of its width with a sign.
SignedOf(v) == IF v.n >= 2^(Bits(v.type) - 1) THEN v.n - 2^Bits(v.type) ELSE v.n

\* Division rounds towards zero.
AbsOf(n) == IF n < 0 THEN -n ELSE n
Quotient(a, b) == IF (a < 0) = (b < 0) THEN AbsOf(a) \div AbsOf(b) ELSE -(AbsOf(a) \div AbsOf(b))
Remainder(a, b) == a - b * Quotient(a, b)

Calculated(op, a, b) ==
  CASE op = "add" -> a.n + b.n
    [] op = "sub" -> a.n - b.n
    [] op = "mul" -> a.n * b.n
    [] op = "udiv" -> a.n \div b.n
    [] op = "urem" -> a.n % b.n
    [] op = "sdiv" -> Quotient(SignedOf(a), SignedOf(b))
    [] op = "srem" -> Remainder(SignedOf(a), SignedOf(b))

Compared(op, a, b) ==
  CASE op = "eq" -> a.n = b.n
    [] op = "ne" -> a.n # b.n
    [] op = "slt" -> SignedOf(a) < SignedOf(b)
    [] op = "sle" -> SignedOf(a) <= SignedOf(b)
    [] op = "sgt" -> SignedOf(a) > SignedOf(b)
    [] op = "sge" -> SignedOf(a) >= SignedOf(b)

\* Division by nothing, and the one division that does not fit.
DivisionUndefined(op, a, b) ==
  \/ op \in {"sdiv", "udiv", "srem", "urem"} /\ b.n = 0
  \/ op \in {"sdiv", "srem"} /\ SignedOf(b) = -1 /\ SignedOf(a) = -(2^(Width - 1))

Value(n, type) == [n |-> n % 2^Bits(type), type |-> type]

-----------------------------------------------------------------------------
\* The machine.
RECURSIVE Execute(_, _)

Undefined(m) == [m EXCEPT !.how = "undefined"]
Define(m, value) == [m EXCEPT !.registers = (<<m.block, m.at>> :> value) @@ @, !.at = @ + 1]
Goto(m, b) == [m EXCEPT !.block = b, !.at = 1]

Holds(m, arg) == arg.is = "constant" \/ arg.n \in DOMAIN m.registers
Operand(m, arg) ==
  IF arg.is = "constant" THEN [n |-> arg.n, type |-> arg.type] ELSE m.registers[arg.n]

\* An outside function returns the number behind its first argument.
Outside(m, name, args, type) ==
  Define([m EXCEPT !.log = Append(@, <<name, [i \in DOMAIN args |-> args[i].n]>>)],
         Value(args[1].n + 1, type))

Entered(f, args, m) ==
  [m EXCEPT !.block = 1, !.at = 1, !.how = "running", !.slots = <<>>,
            !.registers = [r \in {<<0, i>> : i \in DOMAIN args} |-> args[r[2]]]]

\* A call runs with registers and slots of its own; the log and the steps go on.
Called(m, module, name, args, type) ==
  LET f == module.functions[name]
      inner == Execute(module, [Entered(f, args, m) EXCEPT !.function = name])
      back == [m EXCEPT !.log = inner.log, !.steps = inner.steps]
  IN  CASE f.blocks = <<>> -> Outside(m, name, args, type)
        [] f.blocks # <<>> /\ inner.how = "returned" -> Define(back, inner.value)
        [] OTHER -> Undefined(back)

Perform(module, m, instruction) ==
  LET op == instruction.op
      args == [i \in DOMAIN instruction.args |-> Operand(m, instruction.args[i])]
      slot == instruction.args[Len(instruction.args)].n
  IN  CASE op = "alloca" -> Define(m, Value(0, "pointer"))
        [] op = "store" -> [m EXCEPT !.slots = (slot :> args[1]) @@ @, !.at = @ + 1]
        [] op = "load" ->
             IF slot \in DOMAIN m.slots /\ m.slots[slot].type = instruction.type
             THEN Define(m, m.slots[slot]) ELSE Undefined(m)
        [] op \in Calculations ->
             IF DivisionUndefined(op, args[1], args[2]) THEN Undefined(m)
             ELSE Define(m, Value(Calculated(op, args[1], args[2]), instruction.type))
        [] op \in Comparisons ->
             Define(m, Value(IF Compared(op, args[1], args[2]) THEN 1 ELSE 0, "bit"))
        [] op \in {"trunc", "zext"} -> Define(m, Value(args[1].n, instruction.type))
        [] op = "sext" -> Define(m, Value(SignedOf(args[1]), instruction.type))
        [] op = "call" -> Called(m, module, instruction.to, args, instruction.type)
        [] op = "br" -> Goto(m, instruction.to[1])
        [] op = "condbr" -> Goto(m, instruction.to[IF args[1].n = 1 THEN 1 ELSE 2])
        [] op = "ret" -> [m EXCEPT !.how = "returned",
                                   !.value = IF args = <<>> THEN Value(0, "void") ELSE args[1]]

Execute(module, m) ==
  LET instruction == module.functions[m.function].blocks[m.block].code[m.at]
      ready == \A i \in DOMAIN instruction.args : Holds(m, instruction.args[i])
  IN  IF m.how # "running" THEN m
      ELSE IF m.steps = 0 \/ ~ready THEN Undefined(m)
      ELSE Execute(module, Perform(module, [m EXCEPT !.steps = @ - 1], instruction))

\* What a well-formed module does when its function main is called.
Run(module, steps) ==
  LET m == Execute(module,
                   [function |-> <<"main">>, block |-> 1, at |-> 1, registers |-> <<>>,
                    slots |-> <<>>, log |-> <<>>, steps |-> steps, how |-> "running",
                    value |-> Value(0, "void")])
  IN  [how |-> m.how, value |-> m.value, log |-> m.log]
=============================================================================
