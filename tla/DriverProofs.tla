---------------------------- MODULE DriverProofs ----------------------------
(***************************************************************************)
(* What the driver promises whatever the compiler, LLVM, the linker and    *)
(* the program do: the program that runs is made of the text that was      *)
(* checked, but for the exceptions RunsWhatWasChecked names.               *)
(***************************************************************************)
EXTENDS Driver, TLAPS

\* TypeOK in its parts.
Ranges ==
  /\ file \in Files /\ validate \in BOOLEAN
  /\ edits \in 0..MaxEdits /\ commands \in 1..MaxCommands

StageKnown == stage \in Stages

TextsKnown ==
  LET known(text) == text = NoText \/ text \in FileTexts
  IN  /\ known(front.text) /\ known(checked) /\ known(unit.text)
      /\ known(object.text) /\ known(binary.text) /\ known(ran.text)

StagesReached ==
  /\ stage \in {"fetch", "tables", "emit", "write", "link", "run", "ran"} => checked # NoText
  /\ stage \in {"emit", "write", "link", "run", "ran"} => unit.tables # NoText
  /\ stage \in {"write", "link", "run", "ran"} => ~module.fails

\* What the front end has found it has found in some text of the file.
FrontIsOfItsText ==
  front = NoFront \/ (front.text \in FileTexts /\ front = Analysed(front.text))

\* The driver has gone on only with a text that is free of errors.
CheckedIsClean ==
  checked # NoText => checked \in FileTexts /\ Clean(Analysed(checked))

\* The unit is of one text as far as TypecheckedFileQuery goes, and of one, not
\* always the same, as far as its tables do.
UnitIsOfItsTexts ==
  /\ stage = "tables" => unit.text \in FileTexts /\ unit = TypedUnit(Analysed(unit.text))
  /\ stage \in {"emit", "write", "link", "run", "ran"} =>
       /\ unit.text \in FileTexts /\ unit.tables \in FileTexts
       /\ unit = WithTables(TypedUnit(Analysed(unit.text)), Analysed(unit.tables))

ModuleIsOfUnit ==
  stage \in {"write", "link", "run", "ran"} =>
    (unit.clean /\ unit.text = unit.tables => module = Compiled(unit))

\* Once the object should be there it is that of the unit, or the module was
\* not valid: then it is the one of an earlier command, or none.
ObjectIsOfUnit ==
  stage \in {"link", "run", "ran"} =>
    \/ Valid(module) /\ object = Written(module)
    \/ ~Valid(module) /\ object = Written(Garbage)
    \/ ~Valid(module) /\ validate

\* Likewise the binary is that of the object, or the linker failed.
BinaryIsOfObject ==
  stage \in {"run", "ran"} => (object # Nothing /\ Links(object.module) => binary = object)

RanIsOfBinary ==
  (stage = "ran" /\ binary # Nothing) =>
    ran = [text |-> binary.text,
           result |-> IF binary.module = Garbage THEN Garbage ELSE Executed(binary.module)]

DriverInvariant ==
  /\ Ranges
  /\ StageKnown
  /\ TextsKnown
  /\ StagesReached
  /\ FrontIsOfItsText
  /\ CheckedIsClean
  /\ UnitIsOfItsTexts
  /\ ModuleIsOfUnit
  /\ ObjectIsOfUnit
  /\ BinaryIsOfObject
  /\ RanIsOfBinary

-----------------------------------------------------------------------------
\* What is found in a text of the file is of that text, and the queries end, or
\* go on, as the stages say.
LEMMA WhatIsFound ==
  ASSUME NEW text \in FileTexts
  PROVE  /\ Analysed(text).text = text
         /\ Complaints(Analysed(text)) \subseteq Failed
         /\ Typechecks(Analysed(text)) \subseteq Failed \cup {"tables"}
         /\ Tabulates(Analysed(text)) \subseteq Failed \cup {"emit"}
         /\ Clean(Analysed(text)) => Compiled(UnitOf(text)) # Garbage
         /\ text # NoText
  BY DriverAssumption

LEMMA TypedUnitParts ==
  ASSUME NEW found
  PROVE  TypedUnit(found).text = found.text
  BY DEF TypedUnit

LEMMA UnitParts ==
  ASSUME NEW found, NEW tabled
  PROVE  LET u == WithTables(TypedUnit(found), tabled)
         IN  u.text = found.text /\ u.clean = Clean(found) /\ u.tables = tabled.text
  BY DEF TypedUnit, WithTables

-----------------------------------------------------------------------------
\* The parts make up TypeOK.
LEMMA DriverTypes == DriverInvariant => TypeOK
  BY DEF DriverInvariant, Ranges, StageKnown, TextsKnown, StagesReached, TypeOK, EditedFiles, OtherFiles

\* Initially nothing has been found, made or run.
LEMMA DriverInit == Init => DriverInvariant
<1> SUFFICES ASSUME Init PROVE DriverInvariant
  OBVIOUS
<1> USE DEF Init, NoFront, NoUnit, NoModule, Nothing
<1>1. Ranges
  <2>1. 0 \in 0..MaxEdits /\ 1 \in 1..MaxCommands
    BY DriverAssumption
  <2>2. QED
    BY <2>1 DEF Ranges
<1>2. StageKnown /\ TextsKnown /\ StagesReached
  BY DEF StageKnown, TextsKnown, StagesReached, Stages
<1>3. FrontIsOfItsText /\ CheckedIsClean /\ UnitIsOfItsTexts /\ ModuleIsOfUnit
        /\ ObjectIsOfUnit /\ BinaryIsOfObject /\ RanIsOfBinary
  BY DEF FrontIsOfItsText, CheckedIsClean, UnitIsOfItsTexts, ModuleIsOfUnit, ObjectIsOfUnit,
         BinaryIsOfObject, RanIsOfBinary
<1> QED
  BY <1>1, <1>2, <1>3 DEF DriverInvariant

\* Every step keeps the invariant.
LEMMA DriverStep == DriverInvariant /\ [Next]_vars => DriverInvariant'
<1> SUFFICES ASSUME DriverInvariant, [Next]_vars PROVE DriverInvariant'
  OBVIOUS
<1> USE DEF DriverInvariant
<1>1. file.text \in FileTexts /\ file.text # NoText
  BY DriverAssumption DEF FileTexts, Ranges
<1>2. CASE Load
  <2>1. Analysed(file.text).text = file.text
    BY <1>1, WhatIsFound
  <2>2. TextsKnown' /\ FrontIsOfItsText'
    BY <1>1, <1>2, <2>1 DEF Load, TextsKnown, FrontIsOfItsText
  <2>3. Ranges' /\ StageKnown' /\ StagesReached' /\ CheckedIsClean' /\ UnitIsOfItsTexts'
        /\ ModuleIsOfUnit'
    BY <1>2 DEF Load, Ranges, StageKnown, StagesReached, CheckedIsClean, UnitIsOfItsTexts,
                ModuleIsOfUnit
  <2>4. ObjectIsOfUnit' /\ BinaryIsOfObject' /\ RanIsOfBinary'
    BY <1>2 DEF Load, ObjectIsOfUnit, Valid, Written, BinaryIsOfObject, RanIsOfBinary
  <2>5. QED
    BY <2>2, <2>3, <2>4
<1>3. CASE CheckFile
  <2>1. front = Analysed(file.text)
    BY <1>1, <1>3 DEF CheckFile, UpToDate, FrontIsOfItsText, NoFront
  <2>2. \/ stage' = "fetch" /\ checked' = file.text /\ Clean(Analysed(file.text))
        \/ stage' \in Failed /\ checked' = NoText
    BY <1>1, <1>3, <2>1, WhatIsFound DEF CheckFile
  <2>3. StageKnown' /\ TextsKnown' /\ StagesReached' /\ CheckedIsClean'
    BY <1>1, <1>3, <2>2 DEF CheckFile, Failed, Ended, Stages, StageKnown, TextsKnown, StagesReached,
                          CheckedIsClean
  <2>4. Ranges' /\ FrontIsOfItsText' /\ UnitIsOfItsTexts' /\ ModuleIsOfUnit'
    BY <1>3, <2>2 DEF CheckFile, Failed, Ranges, FrontIsOfItsText, UnitIsOfItsTexts, ModuleIsOfUnit
  <2>5. ObjectIsOfUnit' /\ BinaryIsOfObject' /\ RanIsOfBinary'
    BY <1>3, <2>2 DEF CheckFile, Failed, ObjectIsOfUnit, BinaryIsOfObject, RanIsOfBinary
  <2>6. QED
    BY <2>3, <2>4, <2>5
<1>4. CASE FetchTypechecked
  <2>1. front = Analysed(file.text)
    BY <1>1, <1>4 DEF FetchTypechecked, UpToDate, FrontIsOfItsText, NoFront
  <2>2. \/ stage' = "tables" /\ unit' = TypedUnit(Analysed(file.text)) /\ unit'.text = file.text
        \/ stage' \in Failed /\ unit' = unit
    BY <1>1, <1>4, <2>1, WhatIsFound, TypedUnitParts DEF FetchTypechecked, Failed
  <2>3. StageKnown' /\ TextsKnown' /\ StagesReached' /\ UnitIsOfItsTexts'
    BY <1>1, <1>4, <2>2 DEF FetchTypechecked, Failed, Ended, Stages, StageKnown, TextsKnown,
                          StagesReached, UnitIsOfItsTexts
  <2>4. Ranges' /\ FrontIsOfItsText' /\ CheckedIsClean' /\ ModuleIsOfUnit'
    BY <1>4, <2>2 DEF FetchTypechecked, Failed, Ranges, FrontIsOfItsText, CheckedIsClean,
                     ModuleIsOfUnit
  <2>5. ObjectIsOfUnit' /\ BinaryIsOfObject' /\ RanIsOfBinary'
    BY <1>4, <2>2 DEF FetchTypechecked, Failed, ObjectIsOfUnit, BinaryIsOfObject, RanIsOfBinary
  <2>6. QED
    BY <2>3, <2>4, <2>5
<1>5. CASE FetchTables
  <2>1. front = Analysed(file.text)
    BY <1>1, <1>5 DEF FetchTables, UpToDate, FrontIsOfItsText, NoFront
  <2>2. \/ stage' = "emit" /\ unit' = WithTables(unit, Analysed(file.text))
        \/ stage' \in Failed /\ unit' = unit
    BY <1>1, <1>5, <2>1, WhatIsFound DEF FetchTables, Failed
  <2>3. unit.text \in FileTexts /\ unit = TypedUnit(Analysed(unit.text))
    BY <1>5 DEF FetchTables, UnitIsOfItsTexts
  <2>4. stage' = "emit" =>
          /\ unit' = WithTables(TypedUnit(Analysed(unit.text)), Analysed(file.text))
          /\ unit'.text = unit.text /\ unit'.tables = file.text
    <3> DEFINE u == WithTables(TypedUnit(Analysed(unit.text)), Analysed(file.text))
    <3>1. u.text = Analysed(unit.text).text /\ u.tables = Analysed(file.text).text
      BY UnitParts
    <3>2. u.text = unit.text /\ u.tables = file.text
      BY <1>1, <2>3, <3>1, WhatIsFound
    <3>3. QED
      BY <2>2, <2>3, <3>2 DEF Failed
  <2>5. StageKnown' /\ TextsKnown' /\ StagesReached' /\ UnitIsOfItsTexts'
    BY <1>1, <1>5, <2>2, <2>3, <2>4 DEF FetchTables, Failed, Ended, Stages, StageKnown, TextsKnown,
                                      StagesReached, UnitIsOfItsTexts
  <2>6. Ranges' /\ FrontIsOfItsText' /\ CheckedIsClean' /\ ModuleIsOfUnit'
    BY <1>5, <2>2 DEF FetchTables, Failed, Ranges, FrontIsOfItsText, CheckedIsClean, ModuleIsOfUnit
  <2>7. ObjectIsOfUnit' /\ BinaryIsOfObject' /\ RanIsOfBinary'
    BY <1>5, <2>2 DEF FetchTables, Failed, ObjectIsOfUnit, BinaryIsOfObject, RanIsOfBinary
  <2>8. QED
    BY <2>5, <2>6, <2>7
<1>6. CASE EmitModule
  <2>1. ModuleIsOfUnit' /\ StageKnown' /\ StagesReached'
    BY <1>6 DEF EmitModule, Modules, ModuleIsOfUnit, StageKnown, Stages, Ended, Failed, StagesReached
  <2>2. Ranges' /\ TextsKnown' /\ FrontIsOfItsText' /\ CheckedIsClean' /\ UnitIsOfItsTexts'
    BY <1>6 DEF EmitModule, Ranges, TextsKnown, FrontIsOfItsText, CheckedIsClean, UnitIsOfItsTexts
  <2>3. ObjectIsOfUnit' /\ BinaryIsOfObject' /\ RanIsOfBinary'
    BY <1>6 DEF EmitModule, ObjectIsOfUnit, BinaryIsOfObject, RanIsOfBinary
  <2>4. QED
    BY <2>1, <2>2, <2>3
<1>7. CASE WriteObject
  <2>1. stage' \in {"link", "terminated"} /\ object'.text \in {unit.text, object.text}
    BY <1>7 DEF WriteObject, Written
  <2>2. ObjectIsOfUnit'
    BY <1>7 DEF WriteObject, ObjectIsOfUnit, Valid, Written
  <2>3. TextsKnown' /\ StageKnown' /\ StagesReached'
    BY <1>7, <2>1 DEF WriteObject, TextsKnown, StageKnown, Stages, Ended, Failed, StagesReached
  <2>4. Ranges' /\ FrontIsOfItsText' /\ CheckedIsClean' /\ UnitIsOfItsTexts'
        /\ ModuleIsOfUnit' /\ BinaryIsOfObject' /\ RanIsOfBinary'
    BY <1>7 DEF WriteObject, Ranges, FrontIsOfItsText, CheckedIsClean, UnitIsOfItsTexts,
                ModuleIsOfUnit, BinaryIsOfObject, RanIsOfBinary
  <2>5. QED
    BY <2>2, <2>3, <2>4
<1>8. CASE Link
  <2>1. BinaryIsOfObject' /\ TextsKnown' /\ StageKnown' /\ StagesReached'
    BY <1>8 DEF Link, BinaryIsOfObject, TextsKnown, StageKnown, Stages, Ended, Failed, StagesReached
  <2>2. Ranges' /\ FrontIsOfItsText' /\ CheckedIsClean' /\ UnitIsOfItsTexts'
        /\ ModuleIsOfUnit'
    BY <1>8 DEF Link, Ranges, FrontIsOfItsText, CheckedIsClean, UnitIsOfItsTexts, ModuleIsOfUnit
  <2>3. ObjectIsOfUnit' /\ RanIsOfBinary'
    BY <1>8 DEF Link, ObjectIsOfUnit, Valid, Written, RanIsOfBinary
  <2>4. QED
    BY <2>1, <2>2, <2>3
<1>9. CASE RunBinary
  <2>1. RanIsOfBinary'
    BY <1>9 DEF RunBinary, RanIsOfBinary
  <2>2. TextsKnown' /\ StageKnown' /\ StagesReached'
    BY <1>9 DEF RunBinary, Nothing, TextsKnown, StageKnown, Stages, Ended, Failed, StagesReached
  <2>3. Ranges' /\ FrontIsOfItsText' /\ CheckedIsClean' /\ UnitIsOfItsTexts'
        /\ ModuleIsOfUnit'
    BY <1>9 DEF RunBinary, Ranges, FrontIsOfItsText, CheckedIsClean, UnitIsOfItsTexts, ModuleIsOfUnit
  <2>4. ObjectIsOfUnit' /\ BinaryIsOfObject'
    BY <1>9 DEF RunBinary, ObjectIsOfUnit, Valid, Written, BinaryIsOfObject
  <2>5. QED
    BY <2>1, <2>2, <2>3, <2>4
<1>10. CASE Edit
  <2>1. Ranges'
    BY <1>10, DriverAssumption DEF Edit, EditedFiles, Ranges
  <2>2. StageKnown' /\ TextsKnown' /\ StagesReached' /\ FrontIsOfItsText' /\ CheckedIsClean'
        /\ UnitIsOfItsTexts' /\ ModuleIsOfUnit'
    BY <1>10 DEF Edit, StageKnown, TextsKnown, StagesReached, FrontIsOfItsText, CheckedIsClean,
                 UnitIsOfItsTexts, ModuleIsOfUnit
  <2>3. ObjectIsOfUnit' /\ BinaryIsOfObject' /\ RanIsOfBinary'
    BY <1>10 DEF Edit, ObjectIsOfUnit, Valid, Written, BinaryIsOfObject, RanIsOfBinary
  <2>4. QED
    BY <2>1, <2>2, <2>3
<1>11. CASE Again
  <2>1. commands < MaxCommands /\ commands' = commands + 1 /\ UNCHANGED <<file, validate, edits>>
    BY <1>11 DEF Again
  <2>2. Ranges'
    BY <2>1, DriverAssumption DEF Ranges
  <2>3. StageKnown' /\ TextsKnown' /\ StagesReached' /\ FrontIsOfItsText' /\ CheckedIsClean'
    BY <1>11 DEF Again, NoFront, NoUnit, Nothing, StageKnown, Stages, TextsKnown, StagesReached,
                 FrontIsOfItsText, CheckedIsClean
  <2>4. UnitIsOfItsTexts' /\ ModuleIsOfUnit' /\ ObjectIsOfUnit' /\ BinaryIsOfObject'
        /\ RanIsOfBinary'
    BY <1>11 DEF Again, UnitIsOfItsTexts, ModuleIsOfUnit, ObjectIsOfUnit, BinaryIsOfObject,
                 RanIsOfBinary
  <2>5. QED
    BY <2>2, <2>3, <2>4
<1>12. CASE UNCHANGED vars
  <2>1. Ranges' /\ StageKnown' /\ TextsKnown' /\ StagesReached' /\ FrontIsOfItsText'
        /\ CheckedIsClean' /\ UnitIsOfItsTexts'
    BY <1>12 DEF vars, Ranges, StageKnown, TextsKnown, StagesReached, FrontIsOfItsText, CheckedIsClean,
                 UnitIsOfItsTexts
  <2>2. ModuleIsOfUnit' /\ ObjectIsOfUnit' /\ BinaryIsOfObject' /\ RanIsOfBinary'
    BY <1>12 DEF vars, ModuleIsOfUnit, ObjectIsOfUnit, Valid, Written, BinaryIsOfObject, RanIsOfBinary
  <2>3. QED
    BY <2>1, <2>2
<1>13. QED
  BY <1>2, <1>3, <1>4, <1>5, <1>6, <1>7, <1>8, <1>9, <1>10, <1>11, <1>12 DEF Next

-----------------------------------------------------------------------------
\* Every reachable state satisfies the invariant.
THEOREM DriverAlways == Spec => []DriverInvariant
<1>1. Init => DriverInvariant
  BY DriverInit
<1>2. DriverInvariant /\ [Next]_vars => DriverInvariant'
  BY DriverStep
<1>3. QED
  BY <1>1, <1>2, PTL DEF Spec

\* Every variable of the driver keeps its type, and a later stage is reached
\* only with what the earlier ones made.
THEOREM DriverTypeCorrect == Spec => []TypeOK
<1>1. DriverInvariant => TypeOK
  BY DriverTypes
<1>2. QED
  BY <1>1, DriverAlways, PTL

\* The module of a text that was checked, and that the unit and its tables are
\* of, is what the back end makes of that text: no two texts have been mixed.
LEMMA CheckedModule ==
  ASSUME DriverInvariant, stage = "ran", unit.text = checked, unit.tables = checked
  PROVE  /\ checked \in FileTexts /\ unit = UnitOf(checked)
         /\ module = Compiled(UnitOf(checked)) /\ module # Garbage
<1> USE DEF DriverInvariant
<1>1. checked \in FileTexts /\ Clean(Analysed(checked))
  BY DEF StagesReached, CheckedIsClean
<1>2. unit = UnitOf(checked)
  BY DEF UnitIsOfItsTexts, UnitOf
<1>3. unit.clean
  BY <1>1, <1>2, UnitParts DEF UnitOf
<1>4. module = Compiled(UnitOf(checked))
  BY <1>2, <1>3 DEF ModuleIsOfUnit
<1>5. QED
  BY <1>1, <1>2, <1>4, WhatIsFound

\* What runs is the text that was found free of errors, but for the exceptions
\* that RunsWhatWasChecked names: the driver keeps no object and no binary of
\* another text that it could run in its place.
THEOREM RunsChecked == Spec => []RunsWhatWasChecked
<1>1. DriverInvariant => RunsWhatWasChecked
  <2> SUFFICES ASSUME DriverInvariant, stage = "ran",
                      unit.text = checked, unit.tables = checked,
                      ~(validate /\ ~Verified(module)),
                      ~(object # Nothing /\ ~Links(object.module))
               PROVE  ran.text = checked
    BY DEF RunsWhatWasChecked
  <2>1. checked \in FileTexts /\ module # Garbage
    BY CheckedModule
  <2>2. object.text = checked /\ object # Nothing
    BY <2>1, DriverAssumption DEF DriverInvariant, ObjectIsOfUnit, Valid, Written, Nothing
  <2>3. binary = object
    BY <2>2 DEF DriverInvariant, BinaryIsOfObject
  <2>4. QED
    BY <2>2, <2>3 DEF DriverInvariant, RanIsOfBinary
<1>2. QED
  BY <1>1, DriverAlways, PTL

\* The module is of the checked text, LLVM verifies it and the linker takes it.
Undisturbed ==
  /\ stage = "ran" /\ unit.text = checked /\ unit.tables = checked
  /\ Verified(module) /\ Links(module)

\* And what runs is what the back end makes of the text.
RunsCompiled ==
  Undisturbed => ran = [text |-> checked, result |-> Executed(Compiled(UnitOf(checked)))]

\* Whatever is left in the cache directory by earlier commands, the command
\* ends in the run of what the back end makes of the text that was checked, if
\* nobody changes the file meanwhile and LLVM and the linker take the module.
THEOREM RunsCompilation == Spec => []RunsCompiled
<1>1. DriverInvariant => RunsCompiled
  <2> SUFFICES ASSUME DriverInvariant, Undisturbed
               PROVE  ran = [text |-> checked,
                             result |-> Executed(Compiled(UnitOf(checked)))]
    BY DEF RunsCompiled
  <2> USE DEF Undisturbed
  <2>1. checked \in FileTexts /\ module = Compiled(UnitOf(checked)) /\ module # Garbage
    BY CheckedModule
  <2>2. object = [text |-> checked, module |-> module] /\ object # Nothing
    <3>1. object = Written(module)
      BY <2>1 DEF DriverInvariant, ObjectIsOfUnit, Valid
    <3>2. object.text = checked /\ checked # NoText
      BY <2>1, <3>1, DriverAssumption DEF Written
    <3>3. QED
      BY <3>1, <3>2 DEF Written, Nothing
  <2>3. binary = object
    BY <2>2 DEF DriverInvariant, BinaryIsOfObject
  <2>4. QED
    BY <2>1, <2>2, <2>3 DEF DriverInvariant, RanIsOfBinary
<1>2. QED
  BY <1>1, DriverAlways, PTL
=============================================================================
