----------------------------- MODULE ArenaQueries -----------------------------
(***************************************************************************)
(* The queries that the Arena compiler runs on its engine: what each of    *)
(* the eighteen kinds of query/queries.hpp runs, in which order, and what  *)
(* it returns (query/queries.cpp), and how the engine tells its results    *)
(* apart (the operator== of the result types).                             *)
(*                                                                         *)
(* A source text is abstracted to what the queries extract from it: its    *)
(* layout, its imports, its functions, its structs, and what the bodies of *)
(* its functions use.  A function is the id its name is interned to, the   *)
(* number of its parameters, the type it returns, and whether it is        *)
(* variadic; a struct is a name and its member names.                      *)
(***************************************************************************)
EXTENDS QueryEngine, SequencesExt, FiniteSets

CONSTANT File    \* the paths of the program's source files

\* A sequence.
IsList(s) == s \in Seq(ToSet(s))

\* What the queries extract from a text comes in lists.
ASSUME TextsAreLists ==
    \A text \in Contents :
        /\ text.imports \in Seq(File)
        /\ IsList(text.functions) /\ IsList(text.structs)
        /\ IsList(text.calls) /\ IsList(text.accesses)

\* The signatures, types and structs of one file and of all it imports.
Gathered == [AvailableFunctionIds |-> "FunctionIds",
             AvailableTypeIds |-> "TypeIds",
             AvailableFunctionsTable |-> "FunctionTable",
             AvailableTypesTable |-> "TypeTable",
             AvailableStructsTable |-> "StructTable"]

\* The queries that take one reading of one other query.
Derived == [LineEndings |-> "SourceContents",
            Parse |-> "SourceContents",
            ImportedPaths |-> "Parse",
            FunctionTable |-> "Parse",
            TypeTable |-> "Parse",
            StructTable |-> "Parse",
            FunctionIds |-> "FunctionTable",
            TypeIds |-> "TypeTable"]

\* Mutant: the type checker sees the structs of its own file only.
AnalysisOfOwnStructs ==
    [ResolvedCalls |-> <<"FunctionTable", "AvailableFunctionIds",
                         "AvailableTypeIds", "Parse">>,
     TypecheckedFile |-> <<"AvailableFunctionsTable", "AvailableTypesTable",
                           "ResolvedCalls", "StructTable", "Parse">>,
     Errors |-> <<"TypecheckedFile", "ResolvedCalls", "Parse">>]

\* The analyses of one file that read several queries about it.
Analysis ==
    [ResolvedCalls |-> <<"FunctionTable", "AvailableFunctionIds",
                         "AvailableTypeIds", "Parse">>,
     TypecheckedFile |-> <<"AvailableFunctionsTable", "AvailableTypesTable",
                           "ResolvedCalls", "AvailableStructsTable", "Parse">>,
     Errors |-> <<"TypecheckedFile", "ResolvedCalls", "Parse">>]

Kind == {"SourceContents", "RenderedErrors"} \cup DOMAIN Derived
            \cup DOMAIN Gathered \cup DOMAIN Analysis

ArenaQuery == Kind \X File
ArenaSource == {"SourceContents"} \X File

-----------------------------------------------------------------------------
(* Which queries a query runs. *)

About(f, kinds) == [i \in DOMAIN kinds |-> <<kinds[i], f>>]

\* The queries that q runs, in order, as far as its reads decide.
RunList(q, reads) ==
    LET kind == q[1]
        f == q[2]
    IN  CASE kind \in DOMAIN Derived -> <<<<Derived[kind], f>>>>
          [] kind \in DOMAIN Gathered ->
                <<<<"ImportedPaths", f>>>>
                \o (IF reads = <<>> THEN <<>>
                    ELSE [i \in DOMAIN reads[1] |->
                             <<Gathered[kind], reads[1][i]>>])
                \o <<<<Gathered[kind], f>>>>
          [] kind \in DOMAIN Analysis -> About(f, Analysis[kind])
          [] kind = "RenderedErrors" ->
                \* The renderer asks again for each error it renders.
                <<<<"Errors", f>>>>
                \o (IF reads = <<>> THEN <<>>
                    ELSE FlattenSeq([i \in DOMAIN reads[1] |->
                             About(f, <<"SourceContents", "LineEndings">>)]))

ArenaDemand(q, reads) ==
    LET list == RunList(q, reads)
    IN  IF Len(reads) < Len(list) THEN list[Len(reads) + 1] ELSE Done

\* The queries that q may run, whatever the files contain.
ArenaUses ==
    [q \in ArenaQuery |->
        LET kind == q[1]
            f == q[2]
        IN  CASE kind = "SourceContents" -> {}
              [] kind \in DOMAIN Derived -> {<<Derived[kind], f>>}
              [] kind \in DOMAIN Gathered ->
                    {<<"ImportedPaths", f>>} \cup ({Gathered[kind]} \X File)
              [] kind \in DOMAIN Analysis -> ToSet(About(f, Analysis[kind]))
              [] kind = "RenderedErrors" ->
                    {"Errors", "SourceContents", "LineEndings"} \X {f}]

\* Imports are not followed transitively, so the kinds alone are acyclic.
ArenaRank ==
    [q \in ArenaQuery |->
        CASE q[1] = "SourceContents" -> 0
          [] q[1] \in {"LineEndings", "Parse"} -> 1
          [] q[1] \in {"FunctionIds", "TypeIds"} -> 3
          [] q[1] \in DOMAIN Derived \ {"LineEndings", "Parse", "FunctionIds",
                                        "TypeIds"} -> 2
          [] q[1] \in DOMAIN Gathered -> 4
          [] q[1] = "ResolvedCalls" -> 5
          [] q[1] = "TypecheckedFile" -> 6
          [] q[1] = "Errors" -> 7
          [] q[1] = "RenderedErrors" -> 8]

-----------------------------------------------------------------------------
(* What a query returns. *)

\* The last entry of a name in a table: a later insertion replaces it.
Entry(table, name) ==
    LET last == CHOOSE i \in DOMAIN table :
                    /\ table[i].name = name
                    /\ \A j \in DOMAIN table : table[j].name = name => j <= i
    IN  table[last]

Names(table) == {table[i].name : i \in DOMAIN table}

\* FunctionTable::import and StructTable::import copy one entry for each name.
Imported(table) == SetToSeq({Entry(table, name) : name \in Names(table)})

\* A call of an unknown function is an error of the resolver; a call with the
\* wrong number of arguments is an error of the type checker.
CallFails(function, arguments) ==
    IF function.variadic THEN arguments < function.params
    ELSE arguments # function.params

\* The places that are wrong, in their order.
Marked(places, Wrong(_)) ==
    FlattenSeq([i \in DOMAIN places |->
                   IF Wrong(places[i]) THEN <<places[i]>> ELSE <<>>])

Errors(kind, places) == [i \in DOMAIN places |-> <<kind, places[i]>>]

UnknownCalls(ast, ids) ==
    Errors("unknown", Marked(ast.calls, LAMBDA c : c.name \notin DOMAIN ids))

WrongCalls(ast, ftable) ==
    Errors("call", Marked(ast.calls, LAMBDA c :
        /\ c.name \in Names(ftable)
        /\ CallFails(Entry(ftable, c.name), c.arguments)))

\* A variable of a type that is not declared is an error of the resolver, and
\* the type checker says no more of it.
UnknownTypes(ast, ids) ==
    Errors("type", Marked(ast.accesses, LAMBDA a : a.name \notin DOMAIN ids))

\* A member that the struct does not have; or the struct is not in the table.
WrongMembers(resolved, stable) ==
    Errors("member", Marked(resolved.ast.accesses, LAMBDA a :
        /\ <<"type", a>> \notin ToSet(resolved.errors)
        /\ a.name \in Names(stable) =>
              a.member \notin ToSet(Entry(stable, a.name).members)))

\* The types that every type table begins with, as one.
Builtin == {"int"}

\* How often a name stands in the sorted ids of a symbol set: its import adds
\* every id again, also one that is there.
Counted(sets) ==
    [name \in UNION ToSet(sets) |->
        Cardinality({i \in DOMAIN sets : name \in sets[i]})]

ArenaResult(q, reads) ==
    LET kind == q[1]
        first == reads[1]
    IN  CASE kind = "LineEndings" -> first.layout
          [] kind = "Parse" -> first
          [] kind = "ImportedPaths" -> first.imports
          [] kind = "FunctionTable" -> first.functions
          [] kind = "StructTable" -> first.structs
          [] kind = "TypeTable" ->
                [i \in DOMAIN first.structs |->
                    [name |-> first.structs[i].name]]
          [] kind = "FunctionIds" -> Names(first)
          [] kind = "TypeIds" -> Builtin \cup Names(first)
          [] kind \in {"AvailableFunctionsTable", "AvailableStructsTable"} ->
                FlattenSeq([i \in DOMAIN Tail(reads) |->
                               Imported(reads[i + 1])])
          [] kind \in {"AvailableFunctionIds", "AvailableTypeIds"} ->
                Counted(Tail(reads))
          [] kind = "AvailableTypesTable" ->
                UNION {Names(table) : table \in ToSet(Tail(reads))}
          [] kind = "ResolvedCalls" ->
                [ast |-> reads[4], errors |-> UnknownCalls(reads[4], reads[2])
                                        \o UnknownTypes(reads[4], reads[3])]
          [] kind = "TypecheckedFile" ->
                [ast |-> reads[3].ast,
                 errors |-> WrongCalls(reads[3].ast, reads[1])
                                \o WrongMembers(reads[3], reads[4])]
          [] kind = "Errors" -> reads[2].errors \o first.errors
          [] kind = "RenderedErrors" ->
                [i \in DOMAIN first |-> <<first[i], reads[3]>>]

-----------------------------------------------------------------------------
(* When the engine takes a result for unchanged: what operator== may find. *)

\* ResolvedFunction::operator== leaves out is_variadic (and lifetimes).
SameFunction(f, g) ==
    /\ f.name = g.name
    /\ f.params = g.params
    /\ f.returns = g.returns

\* Mutant: tables of as many functions are the same.
SameFunctionTableByCount(previous, result) ==
    {Cardinality(Names(previous)) = Cardinality(Names(result))}

\* FunctionTable::operator== compares the numbers of names, then every entry of
\* the left function_list, sorted by id, with the right one's.  Entries that
\* only the right list has are not looked at; entries that only the left list
\* has are compared with what lies behind the right one.
SameFunctionTable(previous, result) ==
    LET ById(table) ==
            LET ids == SetToSortSeq(Names(table), <)
            IN  FlattenSeq([i \in DOMAIN ids |->
                    SelectSeq(table, LAMBDA f : f.name = ids[i])])
        ours == ById(previous)
        theirs == ById(result)
    IN  IF \/ Cardinality(Names(previous)) # Cardinality(Names(result))
           \/ \E i \in DOMAIN ours \cap DOMAIN theirs :
                 ~SameFunction(ours[i], theirs[i])
        THEN {FALSE}
        ELSE IF Len(ours) <= Len(theirs) THEN {TRUE} ELSE BOOLEAN

\* CompleteStructInfo::operator== compares as many members as the left one has,
\* whatever the right one has.
MaySameStruct(s, t) ==
    \A i \in DOMAIN s.members \cap DOMAIN t.members :
        s.members[i] = t.members[i]

\* The names of the left table lie in a text that was replaced, and the members
\* of an imported struct in a table that may be: they may be found to differ.
SameStructTable(previous, result) ==
    {FALSE} \cup
    {Names(previous) = Names(result)
        /\ \A name \in Names(previous) :
              MaySameStruct(Entry(previous, name), Entry(result, name))}

\* TypeTable::operator== compares the sorted ids of the structs declared.
SameTypeTable(previous, result) ==
    {\A name \in Names(previous) \cup Names(result) :
        Len(SelectSeq(previous, LAMBDA s : s.name = name))
            = Len(SelectSeq(result, LAMBDA s : s.name = name))}

\* Two errors at the same place are the same if their texts are, and places are
\* addresses of tokens, which a later text may reuse.
SameErrors(previous, result) ==
    IF previous = <<>> THEN {result = <<>>} ELSE {FALSE, previous = result}

\* Declarations are compared by address: two analyses of a file that declares
\* something always differ, and so do two errors that have a location.
SameAnalysis(previous, result) ==
    {/\ previous.ast.functions \o previous.ast.structs = <<>>
     /\ result.ast.functions \o result.ast.structs = <<>>
     /\ previous.errors = result.errors}

ArenaSame(q, previous, result) ==
    CASE q[1] = "Parse" -> {FALSE}
      [] q[1] \in {"FunctionTable", "AvailableFunctionsTable"} ->
            SameFunctionTable(previous, result)
      [] q[1] \in {"StructTable", "AvailableStructsTable"} ->
            SameStructTable(previous, result)
      [] q[1] \in {"ResolvedCalls", "TypecheckedFile"} ->
            SameAnalysis(previous, result)
      [] q[1] = "TypeTable" -> SameTypeTable(previous, result)
      [] q[1] = "Errors" -> SameErrors(previous, result)
      [] OTHER -> {previous = result}

-----------------------------------------------------------------------------
(* Properties. *)

\* What a name stands for in the last of the tables that define it.
Latest(declared, name) ==
    LET definers == {i \in DOMAIN declared : name \in Names(declared[i])}
    IN  {Entry(declared[i], name) :
            i \in {j \in definers : \A k \in definers : k <= j}}

\* The faults of f as its text and those of its imports say them, with no
\* query between: a call of a function that none of them defines, or that the
\* last of them to define it (f itself if it does) does not accept; an access
\* to a type that none declares and that is not built in, or to a member that
\* it, or the last struct of its name to be declared, does not have.
Faults(f, text) ==
    LET ast == text[f]
        visible == Append(ast.imports, f)
        functions == [i \in DOMAIN visible |-> text[visible[i]].functions]
        structs == [i \in DOMAIN visible |-> text[visible[i]].structs]
    IN  {<<"unknown", c>> : c \in {c \in ToSet(ast.calls) :
             Latest(functions, c.name) = {}}}
        \cup {<<"call", c>> : c \in {c \in ToSet(ast.calls) :
             \E g \in Latest(functions, c.name) : CallFails(g, c.arguments)}}
        \cup {<<"type", a>> : a \in {a \in ToSet(ast.accesses) :
             a.name \notin Builtin /\ Latest(structs, a.name) = {}}}
        \cup {<<"member", a>> : a \in {a \in ToSet(ast.accesses) :
             /\ a.name \in Builtin \/ Latest(structs, a.name) # {}
             /\ \A s \in Latest(structs, a.name) :
                   a.member \notin ToSet(s.members)}}

\* What "check" shows for a file is exactly its faults, on the lines of its
\* own text, by the texts that were read for this request.
ReportIsRight ==
    \A f \in File :
        outcome = "answered" /\ target = <<"RenderedErrors", f>> =>
            LET text == [g \in {g \in File :
                            <<"SourceContents", g>> \in DOMAIN seen} |->
                                seen[<<"SourceContents", g>>]]
            IN  ToSet(query_cache[target]) =
                    {<<fault, text[f].layout>> : fault \in Faults(f, text)}
=============================================================================
