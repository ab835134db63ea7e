-------------------------- MODULE CompilerSession --------------------------
(***************************************************************************)
(* The driver with the compiler: what the front end finds in a text, what  *)
(* the back end makes of it, and how the program that runs behaves.        *)
(***************************************************************************)
EXTENDS Driver, CompilerReference

CONSTANTS
  Library,      \* the names the linker knows
  Steps         \* bound: the steps a program is followed in its source

ASSUME SessionAssumption == Steps \in Nat

\* What may be in a file: the texts of syntax trees, and other texts.
FilesOf(programs, texts) ==
  {[text |-> TextOf(ProgramWords(p)), intent |-> p] : p \in programs}
    \cup {[text |-> t, intent |-> <<>>] : t \in texts}

-----------------------------------------------------------------------------
\* The front end on a text.  The type checker is followed on programs of
\* numbers.
NumberKinds ==
  {"none", "type", "lit", "id", "call", "bin", "un", "cast", "if", "while", "let", "ret",
   "block", "arena", "expr", "fun", "params", "param"}

RECURSIVE OfNumbers(_)
OfNumbers(n) ==
  /\ n.k \in NumberKinds
  /\ n.k = "call" => n.c[1].k = "id"
  /\ n.k = "type" => n.c = <<>>
  /\ \A i \in DOMAIN n.c : OfNumbers(n.c[i])

Followed(parsed) ==
  parsed.how = "" /\ parsed.errors = <<>>
    /\ \A i \in DOMAIN parsed.decls : OfNumbers(parsed.decls[i])

Unfollowed == [errors |-> <<>>, throws |-> FALSE, decls |-> <<>>, types |-> <<>>]

\* Behind ParseQuery: ResolvedCallsQuery and TypecheckedFileQuery.
Found(text, parsed) ==
  LET resolved == IF parsed.how = "" THEN Resolve(parsed.decls) ELSE Resolve(<<>>)
  IN  [text |-> text, parsed |-> parsed, resolved |-> resolved,
       typed |-> IF Followed(parsed) THEN TypeChecked(resolved) ELSE Unfollowed]

Analysis(text) == Found(text, Parse(text))

\* An error of the parser points into the text.  One of the resolver may be at a
\* name that the parser made up, which has no place in the text.
Errors(found) ==
  Len(found.parsed.errors) + Len(found.resolved.errors) + Len(found.typed.errors)
Placeless(found) ==
  \E i \in DOMAIN found.resolved.errors : found.resolved.errors[i][2] = <<>>
OutOfBounds(found) ==
  \E i \in DOMAIN found.parsed.errors : ~Rendered(found.text, found.parsed.errors[i])

Faultless(found) == Followed(found.parsed) /\ Errors(found) = 0 /\ ~found.typed.throws

\* How the query of the rendered errors ends if there are any.
Verdicts(found) ==
  CASE found.parsed.how = "hangs" -> {"hangs"}
    [] found.parsed.how \in {"aborts", "crashes"} \/ found.typed.throws \/ OutOfBounds(found) ->
         {"terminated"}
    [] found.parsed.how = "" /\ Placeless(found) -> {"reported", "hangs", "terminated"}
    [] found.parsed.errors # <<>> -> {"reported", "terminated"}
    [] ~Followed(found.parsed) /\ found.resolved.errors = <<>> -> {"not followed"}
    [] OTHER -> {"reported"}

\* How TypecheckedFileQuery ends, and the queries of the tables.
TypedNext(found) ==
  CASE found.parsed.how = "hangs" -> {"hangs"}
    [] found.parsed.how \in {"aborts", "crashes"} \/ found.typed.throws -> {"terminated"}
    [] found.parsed.how = "" /\ ~Followed(found.parsed) -> {"tables", "terminated"}
    [] OTHER -> {"tables"}

TabledNext(found) ==
  CASE found.parsed.how = "" -> {"emit"}
    [] found.parsed.how = "hangs" -> {"hangs"}
    [] OTHER -> {"terminated"}

Tables(found) ==
  Signatures(found.resolved.decls, found.resolved.types \cup {<<"void">>})

-----------------------------------------------------------------------------
\* cc: a program has a function main, and its outside functions are known.
Linkable(m) ==
  /\ <<"main">> \in DOMAIN m.functions
  /\ \A name \in DOMAIN m.functions :
       m.functions[name].blocks = <<>> => name \in Library

Execution(m) == Run(m, 3 * Steps)

-----------------------------------------------------------------------------
\* Properties.

\* The parser returns the tree that a text was written from, without errors,
\* although the text has only the parentheses that precedence and associativity
\* ask for.
ParseInverts ==
  (UpToDate /\ file.intent # <<>>) =>
    front.parsed = [decls |-> file.intent, errors |-> <<>>, how |-> ""]

\* A text in which the parser finds no error is in the tree, word for word: the
\* parser skips nothing without a report.  And it does not get stuck but on a
\* text with an error.
WordsIn(text) ==
  LET ts == Tokens(text) IN [i \in 1..(Len(ts) - 1) |-> ts[i].text]

NothingDropped ==
  front # NoFront =>
    /\ front.parsed.how # "" => front.parsed.errors # <<>>
    /\ front.parsed.errors = <<>> =>
         Unpunctuated(ProgramWords(front.parsed.decls)) = Unpunctuated(WordsIn(front.text))

\* A comment is white space: code that is commented out, with the comments that
\* are in it, is as good as not there.
CommentsAreSpace ==
  front # NoFront =>
    front.parsed.decls = Parse(Uncommented(front.text, 1, 0)).decls

\* The place an error is reported at is the place it is at, but for an error at
\* the first symbol of a line: that is reported behind the line in front, and
\* has no place on the first line of the text.
CursorFits(text, offset) ==
  LET cursor == OffsetToCursor(text, offset)
  IN  CASE offset = 0 -> cursor = NoCursor
        [] offset # 0 /\ text[offset] = "nl" ->
             cursor = [PlaceOf(text, offset - 1) EXCEPT !.column = @ + 1]
        [] OTHER -> cursor = PlaceOf(text, offset)

CursorIsRight ==
  front # NoFront =>
    \A i \in DOMAIN front.parsed.errors : \A j \in {1, 2} :
      CursorFits(front.text, front.parsed.errors[i][j])

\* Every name is bound to the last declaration in front of it in a scope that
\* encloses it, whether or not the text is otherwise in order, and is reported
\* exactly if there is none or a function has the name too.
UsesAreBound ==
  (front # NoFront /\ front.parsed.how = "") =>
    LET decls == front.resolved.decls
        functions == NamesOf(decls, {"fun"})
        reports == SelectSeq(front.resolved.errors, LAMBDA e : e[1] # "E_R_TYPE_UNKN")
    IN  /\ \A d \in DOMAIN decls : NamesBound(NodesUnder(<<>>, <<>>, decls[d]), functions)
        /\ Len(reports) =
             FoldFunction(LAMBDA d, n : n + NamesUnbound(NodesUnder(<<>>, <<>>, d)), 0, decls)

\* A module is made of exactly the programs without errors in which no code that
\* is reached asks for what the back end leaves out.
Emitted == module # NoModule /\ unit.clean /\ unit.text = unit.tables

FailsWhereUnsupported == Emitted => (module.fails <=> ~Emittable(unit.decls))

\* LLVM takes exactly the modules of the programs in which every function with a
\* result ends in a return, every condition is a truth value, and no == or != of
\* numbers meets a number.  Of loops whose bodies always return, the next
\* property speaks.
CodeIsWellFormed ==
  (Emitted /\ ~module.fails /\ ~LoopsReturn(unit.decls)) =>
    (WellFormed(module) <=> Verifiable(unit.decls, unit.signatures))

\* The same of a loop whose body always returns, which "does not unconditionally
\* exit" and "doesn't jump to the merge block after the block terminator"
\* (llvm_backend.cpp:273-279): what is behind the loop is compiled like anything
\* else.
LoopsMayReturn ==
  (Emitted /\ ~module.fails /\ LoopsReturn(unit.decls)) =>
    (WellFormed(module) <=> Verifiable(unit.decls, unit.signatures))

\* A program that has been compiled does what its text means, if that means
\* something, unless it compares numbers without sign across the sign bit or
\* counts with the outcome of an == of numbers.
CodeBehaves ==
  (stage = "ran" /\ ran # Nothing /\ ran.text = front.text /\ ran.result # Garbage) =>
    LET meaning == Meaning(front.parsed.decls, Steps)
    IN  (meaning.how # "undefined" /\ ~meaning.odd) =>
          /\ ran.result.how = "returned" /\ ran.result.log = meaning.log
          /\ meaning.how = "returned" =>
               ran.result.value.n = meaning.value.n % 2^Bits(ran.result.value.type)
=============================================================================
