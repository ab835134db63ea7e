------------------------------- MODULE Driver -------------------------------
(***************************************************************************)
(* `arena run` on one source file (command_run of main.cpp): the check,    *)
(* the queries the driver makes one by one, the emission of a module, the  *)
(* linker and the program.  The user may change the file at any moment and *)
(* may run the command again; the object and the binary in the cache       *)
(* directory stay from one command to the next.                            *)
(*                                                                         *)
(* Each query is answered for the text the file has when the query is      *)
(* made.  Load stands for what the query engine then does.  What the       *)
(* queries find in a text, what the back end makes of the results and what *)
(* LLVM, the linker and the program do are parameters here: the driver     *)
(* passes on what it gets.                                                 *)
(***************************************************************************)
EXTENDS Naturals

CONSTANTS
  Files,         \* what may be in the file: a text, and what it was made from
  Edited,        \* the texts that may be changed, each into any other of them
  NoText,        \* no text
  MaxEdits,      \* bound: how often the file is changed
  MaxCommands,   \* bound: how often the command is given
  Analysed(_),   \* what the queries of the front end find in a text
  Clean(_),      \* they find nothing wrong
  Complaints(_), \* how the check may end when they do
  Typechecks(_), \* how TypecheckedFileQuery may go on, or end
  Tabulates(_),  \* how the queries of the tables may go on, or end
  Exported(_),   \* the tables
  Compiled(_),   \* the module made of a unit
  Verified(_),   \* llvm::verifyModule finds nothing in it
  Linked(_),     \* cc makes a program of it
  Executed(_)    \* what the program does

FileTexts == {f.text : f \in Files}
EditedFiles == {f \in Files : f.text \in Edited}
OtherFiles == Files \ EditedFiles

Failed == {"reported", "terminated", "hangs", "not followed"}
Ended == Failed \cup {"ran"}
Stages == Ended \cup {"check", "fetch", "tables", "emit", "write", "link", "run"}

\* A ResolvedCompilationUnit: what TypecheckedFileQuery puts into it, and the
\* tables, which come from queries of their own.
TypedUnit(found) ==
  [text |-> found.text, clean |-> Clean(found),
   decls |-> found.typed.decls, types |-> found.typed.types,
   tables |-> NoText, signatures |-> <<>>]

WithTables(u, found) ==
  [u EXCEPT !.tables = found.text, !.signatures = Exported(found)]

UnitOf(text) == WithTables(TypedUnit(Analysed(text)), Analysed(text))

\* A module of which nothing is known: two texts have been mixed, or LLVM has
\* been given what it does not take.
Garbage == [fails |-> FALSE, functions |-> [name \in {<<"garbage">>} |-> <<>>]]

ASSUME DriverAssumption ==
  /\ MaxEdits \in Nat /\ MaxCommands \in Nat \ {0}
  /\ NoText \notin FileTexts
  /\ \A text \in FileTexts :
       LET found == Analysed(text)
       IN  /\ found.text = text
           /\ Complaints(found) \subseteq Failed
           /\ Typechecks(found) \subseteq Failed \cup {"tables"}
           /\ Tabulates(found) \subseteq Failed \cup {"emit"}
           /\ Clean(found) => Compiled(UnitOf(text)) # Garbage

VARIABLES
  file,         \* what is in the file
  stage,        \* what the driver does next, or how it ended
  front,        \* the front end's results and the text they are of
  checked,      \* the text that was found free of errors
  unit,         \* the ResolvedCompilationUnit
  module,       \* the LLVM module
  validate,     \* --validate-ir
  object,       \* arena-bin.o: the text and the module it was made from
  binary,       \* arena-bin, likewise
  ran,          \* what has been run, and with which result
  edits, commands

vars == <<file, stage, front, checked, unit, module, validate, object, binary, ran,
          edits, commands>>

NoFront == [text |-> NoText]
NoUnit == [text |-> NoText]
NoModule == [fails |-> FALSE, functions |-> <<>>]
Nothing == [text |-> NoText]

-----------------------------------------------------------------------------
\* The queries.
Load ==
  /\ stage \in {"check", "fetch", "tables"} /\ front.text # file.text
  /\ front' = Analysed(file.text)
  /\ UNCHANGED <<file, stage, checked, unit, module, validate, object, binary, ran, edits, commands>>

UpToDate == front.text = file.text

\* A bug to find: the verdict of an earlier check stays.
CheckFileForgets ==
  /\ stage = "check" /\ UpToDate
  /\ stage' \in IF Clean(front) THEN {"fetch"} ELSE Complaints(front)
  /\ UNCHANGED <<file, front, checked, unit, module, validate, object, binary, ran, edits, commands>>

\* RenderedErrorsQuery: the driver goes on only if there are none.
CheckFile ==
  /\ stage = "check" /\ UpToDate
  /\ \/ /\ Clean(front)
        /\ stage' = "fetch" /\ checked' = file.text
     \/ /\ ~Clean(front)
        /\ stage' \in Complaints(front) /\ checked' = NoText
  /\ UNCHANGED <<file, front, unit, module, validate, object, binary, ran, edits, commands>>

\* TypecheckedFileQuery, for whatever the file has now.
FetchTypechecked ==
  /\ stage = "fetch" /\ UpToDate
  /\ stage' \in Typechecks(front)
  /\ unit' = IF stage' # "tables" THEN unit ELSE TypedUnit(front)
  /\ UNCHANGED <<file, front, checked, module, validate, object, binary, ran, edits, commands>>

\* AvailableFunctionsTableQuery and AvailableTypesTableQuery.  (They need the
\* parser, but neither the resolver of expressions nor the type checker.)
FetchTables ==
  /\ stage = "tables" /\ UpToDate
  /\ stage' \in Tabulates(front)
  /\ unit' = IF stage' # "emit" THEN unit ELSE WithTables(unit, front)
  /\ UNCHANGED <<file, front, checked, module, validate, object, binary, ran, edits, commands>>

-----------------------------------------------------------------------------
\* The back end.

\* emit_impl up to the module.  The ids in the tree of one text mean anything in
\* the tables of another.
Modules ==
  IF unit.clean /\ unit.text = unit.tables THEN {Compiled(unit)}
  ELSE {Garbage, [Garbage EXCEPT !.fails = TRUE]}

EmitModule ==
  /\ stage = "emit"
  /\ \E m \in Modules :
       /\ module' = m
       /\ stage' = IF m.fails THEN "terminated" ELSE "write"
  /\ UNCHANGED <<file, front, checked, unit, validate, object, binary, ran, edits, commands>>

\* The rest of emit_impl: a module that is not valid is not written, and nobody
\* is told.  What LLVM makes of one that is not validated is anything.
Valid(m) == m # Garbage /\ Verified(m)

Written(m) == [text |-> unit.text, module |-> m]

\* A bug to find: an object that is there is taken for up to date.
WriteObjectOnce ==
  /\ stage = "write" /\ Valid(module)
  /\ object' = IF object = Nothing THEN Written(module) ELSE object
  /\ stage' = "link"
  /\ UNCHANGED <<file, front, checked, unit, module, validate, binary, ran, edits, commands>>

WriteObject ==
  /\ stage = "write"
  /\ \/ /\ Valid(module)
        /\ object' = Written(module) /\ stage' = "link"
     \/ /\ ~Valid(module) /\ validate
        /\ stage' = "link" /\ UNCHANGED object
     \/ /\ ~Valid(module) /\ (~validate \/ module = Garbage)
        /\ \/ object' = Written(Garbage) /\ stage' = "link"
           \/ stage' = "terminated" /\ UNCHANGED object
  /\ UNCHANGED <<file, front, checked, unit, module, validate, binary, ran, edits, commands>>

Links(m) == m = Garbage \/ Linked(m)

\* Whether the linker has succeeded is not asked.
Link ==
  /\ stage = "link" /\ stage' = "run"
  /\ binary' = IF object # Nothing /\ Links(object.module) THEN object ELSE binary
  /\ UNCHANGED <<file, front, checked, unit, module, validate, object, ran, edits, commands>>

\* The binary that is there; the shell's complaint if there is none.
RunBinary ==
  /\ stage = "run" /\ stage' = "ran"
  /\ ran' = IF binary = Nothing THEN Nothing
            ELSE [text |-> binary.text,
                  result |-> IF binary.module = Garbage THEN Garbage
                             ELSE Executed(binary.module)]
  /\ UNCHANGED <<file, front, checked, unit, module, validate, object, binary, edits, commands>>

-----------------------------------------------------------------------------
\* The user.
Edit ==
  /\ edits < MaxEdits /\ file.text \in Edited
  /\ file' \in EditedFiles \ {file}
  /\ edits' = edits + 1
  /\ UNCHANGED <<stage, front, checked, unit, module, validate, object, binary, ran, commands>>

\* The command again, in a process of its own.
Again ==
  /\ stage \in Ended \ {"not followed"} /\ commands < MaxCommands /\ file.text \in Edited
  /\ stage' = "check" /\ front' = NoFront /\ checked' = NoText
  /\ unit' = NoUnit /\ module' = NoModule /\ ran' = Nothing
  /\ commands' = commands + 1
  /\ UNCHANGED <<file, validate, object, binary, edits>>

-----------------------------------------------------------------------------
Init ==
  /\ file \in Files
  /\ validate \in IF file.text \in Edited THEN BOOLEAN ELSE {TRUE}
  /\ stage = "check" /\ front = NoFront /\ checked = NoText
  /\ unit = NoUnit /\ module = NoModule
  /\ object = Nothing /\ binary = Nothing /\ ran = Nothing
  /\ edits = 0 /\ commands = 1

Next ==
  \/ Load \/ CheckFile \/ FetchTypechecked \/ FetchTables \/ EmitModule
  \/ WriteObject \/ Link \/ RunBinary \/ Edit \/ Again

Spec == Init /\ [][Next]_vars

-----------------------------------------------------------------------------
\* Properties.

\* Every variable has its type, and a later stage is reached with what the
\* earlier ones made.
TypeOK ==
  /\ file \in EditedFiles \cup OtherFiles /\ stage \in Stages /\ validate \in BOOLEAN
  /\ edits \in 0..MaxEdits /\ commands \in 1..MaxCommands
  /\ \A text \in {front.text, checked, unit.text, object.text, binary.text, ran.text} :
       text = NoText \/ text \in FileTexts
  /\ stage \in {"fetch", "tables", "emit", "write", "link", "run", "ran"} => checked # NoText
  /\ stage \in {"emit", "write", "link", "run", "ran"} => unit.tables # NoText
  /\ stage \in {"write", "link", "run", "ran"} => ~module.fails

\* What runs is the text that was found free of errors, unless the file was
\* changed between the check and the last query, the module was not valid and
\* therefore not written, or the linker failed.
RunsWhatWasChecked ==
  (stage = "ran" /\ ran.text # checked) =>
    \/ unit.text # checked \/ unit.tables # checked
    \/ validate /\ ~Verified(module)
    \/ object # Nothing /\ ~Links(object.module)
=============================================================================
