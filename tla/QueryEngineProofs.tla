-------------------------- MODULE QueryEngineProofs --------------------------
(***************************************************************************)
(* Theorems about QueryEngine for every set of queries, every behaviour of *)
(* their computations, every edit of the files and every number of         *)
(* requests.                                                               *)
(*                                                                         *)
(* Activations of execute and is_query_out_of_date do not get in each      *)
(* other's way, whatever operator== finds.  The cache is right: what the   *)
(* engine skips, it would have computed in the same way.  And the engine   *)
(* implements FreshEvaluator: a request is answered, and throws, as an     *)
(* evaluation with no memory would, and the files are opened in the same   *)
(* order.  The last two hold as long as no result that differs from the    *)
(* cached one is taken for unchanged; so they hold if operator== of every  *)
(* result type compares all of it.                                         *)
(***************************************************************************)
EXTENDS QueryRefinement, SequenceTheorems, WellFoundedInduction, TLAPS

-----------------------------------------------------------------------------
(* Sequences used as stacks, top last. *)

LEMMA NonEmptySeq ==
    ASSUME NEW S, NEW s \in Seq(S), s # <<>>
    PROVE  /\ Len(s) \in Nat \ {0}
           /\ s[Len(s)] \in S
           /\ \A i \in 1..Len(s) : s[i] \in S
  <1>1. Len(s) \in Nat \ {0}
    BY EmptySeq
  <1>2. QED
    BY <1>1, ElementOfSeq

LEMMA PoppedSeq ==
    ASSUME NEW S, NEW s \in Seq(S), s # <<>>
    PROVE  /\ SubSeq(s, 1, Len(s) - 1) \in Seq(S)
           /\ Len(SubSeq(s, 1, Len(s) - 1)) = Len(s) - 1
           /\ \A i \in 1..(Len(s) - 1) : SubSeq(s, 1, Len(s) - 1)[i] = s[i]
  <1> DEFINE n == Len(s) - 1
             t == SubSeq(s, 1, n)
  <1>1. Len(s) \in Nat \ {0} /\ n \in Nat /\ \A i \in 1..n : s[i] \in S
    BY NonEmptySeq
  <1> HIDE DEF n
  <1>2. /\ t \in Seq(S)
        /\ Len(t) = IF 1 <= n THEN n - 1 + 1 ELSE 0
        /\ \A i \in 1..(n - 1 + 1) : t[i] = s[1 + i - 1]
    BY <1>1, SubSeqProperties
  <1> HIDE DEF t
  <1>3. /\ t \in Seq(S)
        /\ Len(t) = n
        /\ \A i \in 1..n : t[i] = s[i]
    BY <1>1, <1>2
  <1>4. QED
    BY <1>3 DEF n, t

LEMMA PushedSeq ==
    ASSUME NEW S, NEW s \in Seq(S), NEW e \in S
    PROVE  /\ Append(s, e) \in Seq(S)
           /\ Append(s, e) # <<>>
           /\ Len(Append(s, e)) = Len(s) + 1
           /\ \A i \in 1..Len(s) : Append(s, e)[i] = s[i]
           /\ Append(s, e)[Len(s) + 1] = e
  OBVIOUS

LEMMA ReplacedTop ==
    ASSUME NEW S, NEW s \in Seq(S), s # <<>>, NEW e \in S
    PROVE  /\ [s EXCEPT ![Len(s)] = e] \in Seq(S)
           /\ [s EXCEPT ![Len(s)] = e] # <<>>
           /\ Len([s EXCEPT ![Len(s)] = e]) = Len(s)
           /\ \A i \in 1..(Len(s) - 1) : [s EXCEPT ![Len(s)] = e][i] = s[i]
           /\ [s EXCEPT ![Len(s)] = e][Len(s)] = e
  <1> DEFINE t == [s EXCEPT ![Len(s)] = e]
  <1>1. Len(s) \in Nat \ {0} /\ Len(s) \in 1..Len(s)
    BY NonEmptySeq
  <1>2. /\ t \in Seq(S)
        /\ Len(t) = Len(s)
        /\ \A j \in 1..Len(s) : t[j] = IF j = Len(s) THEN e ELSE s[j]
    BY <1>1, ExceptSeq
  <1> HIDE DEF t
  <1>3. /\ t # <<>>
        /\ \A j \in 1..(Len(s) - 1) : t[j] = s[j]
        /\ t[Len(s)] = e
    BY <1>1, <1>2
  <1>4. QED
    BY <1>2, <1>3 DEF t


-----------------------------------------------------------------------------
(* The call stack. *)

\* The innermost call.
LEMMA TopIsFrame ==
    ASSUME TypeOK, stack # <<>>
    PROVE  /\ stack \in Seq(Frame)
           /\ Len(stack) \in Nat \ {0}
           /\ \A i \in 1..Len(stack) : stack[i] \in Frame
           /\ top \in Frame /\ top = stack[Len(stack)]
           /\ top.pc \in ExecutePoints \cup CheckPoints
           /\ top.query \in Query
           /\ top.parent \in Query \cup {NoQuery}
           /\ top.at \in Nat
  <1>1. stack \in Seq(Frame)
    BY DEF TypeOK
  <1>2. /\ Len(stack) \in Nat \ {0}
        /\ \A i \in 1..Len(stack) : stack[i] \in Frame
        /\ top \in Frame /\ top = stack[Len(stack)]
    BY <1>1, NonEmptySeq DEF top
  <1>3. QED
    BY <1>1, <1>2 DEF Frame

\* What is left of the stack when the innermost call returns.
LEMMA CallersFacts ==
    ASSUME TypeOK, stack # <<>>
    PROVE  /\ callers \in Seq(Frame)
           /\ Len(callers) = Len(stack) - 1
           /\ \A i \in 1..(Len(stack) - 1) : callers[i] = stack[i]
           /\ callers = <<>> <=> Len(stack) = 1
  <1>1. stack \in Seq(Frame) /\ Len(stack) \in Nat \ {0}
    BY TopIsFrame
  <1>2. /\ callers \in Seq(Frame)
        /\ Len(callers) = Len(stack) - 1
        /\ \A i \in 1..(Len(stack) - 1) : callers[i] = stack[i]
    BY <1>1, PoppedSeq DEF callers
  <1>3. QED
    BY <1>1, <1>2

\* Moving the innermost call to another point of the same function.
LEMMA GoToFacts ==
    ASSUME TypeOK, stack # <<>>, NEW pc \in ExecutePoints \cup CheckPoints
    PROVE  /\ GoTo(pc) \in Seq(Frame)
           /\ GoTo(pc) # <<>>
           /\ Len(GoTo(pc)) = Len(stack)
           /\ \A i \in 1..(Len(stack) - 1) : GoTo(pc)[i] = stack[i]
           /\ GoTo(pc)[Len(stack)] = [top EXCEPT !.pc = pc]
  <1>1. stack \in Seq(Frame) /\ top \in Frame
    BY TopIsFrame
  <1>2. [top EXCEPT !.pc = pc] \in Frame
    BY <1>1 DEF Frame
  <1>3. GoTo(pc) = [stack EXCEPT ![Len(stack)] = [top EXCEPT !.pc = pc]]
    BY DEF GoTo, top
  <1>4. QED
    BY <1>1, <1>2, <1>3, ReplacedTop

\* The innermost call moves on to its next dependency.
LEMMA NextDependencyFacts ==
    ASSUME TypeOK, stack # <<>>, NextDependency
    PROVE  /\ stack' \in Seq(Frame)
           /\ stack' # <<>>
           /\ Len(stack') = Len(stack)
           /\ \A i \in 1..(Len(stack) - 1) : stack'[i] = stack[i]
           /\ stack'[Len(stack)] =
                 [top EXCEPT !.pc = "scan", !.at = top.at + 1]
           /\ out_of_date' = "unknown"
  <1> DEFINE moved == [top EXCEPT !.pc = "scan", !.at = top.at + 1]
  <1>1. stack \in Seq(Frame) /\ top \in Frame /\ top.at + 1 \in Nat
    BY TopIsFrame
  <1>2. [top EXCEPT !.pc = "scan"] \in Frame
    BY <1>1 DEF Frame, CheckPoints
  <1>3. moved \in Frame
    BY <1>1, <1>2 DEF Frame
  <1>4. stack' = [stack EXCEPT ![Len(stack)] = moved]
    BY DEF NextDependency, top
  <1> HIDE DEF moved
  <1>5. /\ stack' \in Seq(Frame)
        /\ stack' # <<>>
        /\ Len(stack') = Len(stack)
        /\ \A i \in 1..(Len(stack) - 1) : stack'[i] = stack[i]
        /\ stack'[Len(stack)] = moved
    BY <1>1, <1>3, <1>4, ReplacedTop
  <1>6. QED
    BY <1>5 DEF NextDependency, moved

\* Calling another function from the innermost call.
LEMMA InvokeFacts ==
    ASSUME TypeOK, stack # <<>>, NEW pc \in ExecutePoints \cup CheckPoints,
           NEW frame \in Frame
    PROVE  /\ Invoke(pc, frame) \in Seq(Frame)
           /\ Invoke(pc, frame) # <<>>
           /\ Len(Invoke(pc, frame)) = Len(stack) + 1
           /\ \A i \in 1..(Len(stack) - 1) : Invoke(pc, frame)[i] = stack[i]
           /\ Invoke(pc, frame)[Len(stack)] = [top EXCEPT !.pc = pc]
           /\ Invoke(pc, frame)[Len(stack) + 1] = frame
  <1> DEFINE moved == GoTo(pc)
  <1>1. /\ moved \in Seq(Frame)
        /\ Len(moved) = Len(stack)
        /\ \A i \in 1..(Len(stack) - 1) : moved[i] = stack[i]
        /\ moved[Len(stack)] = [top EXCEPT !.pc = pc]
        /\ Len(stack) \in Nat \ {0}
    BY GoToFacts, TopIsFrame
  <1> HIDE DEF moved
  <1>2. /\ Append(moved, frame) \in Seq(Frame)
        /\ Append(moved, frame) # <<>>
        /\ Len(Append(moved, frame)) = Len(moved) + 1
        /\ \A i \in 1..Len(moved) : Append(moved, frame)[i] = moved[i]
        /\ Append(moved, frame)[Len(moved) + 1] = frame
    BY <1>1, PushedSeq
  <1>3. Invoke(pc, frame) = Append(moved, frame)
    BY DEF Invoke, moved
  <1> HIDE DEF Invoke
  <1>4. QED
    BY <1>1, <1>2, <1>3

LEMMA FrameTypes ==
    ASSUME NEW q \in Query, NEW parent \in Query \cup {NoQuery}
    PROVE  CheckFrame(q) \in Frame /\ ExecuteFrame(q, parent) \in Frame
  BY DEF CheckFrame, ExecuteFrame, Frame, ExecutePoints, CheckPoints

\* The dependency that the innermost call is scanning.
LEMMA ScannedFacts ==
    ASSUME TypeOK, ScansOK, stack # <<>>,
           top.pc \in {"scan", "verify", "refresh"},
           top.at <= Len(query_dependencies[top.query])
    PROVE  /\ top.at \in DOMAIN query_dependencies[top.query]
           /\ scanned(top.query) = query_dependencies[top.query][top.at]
           /\ scanned(top.query) \in Query
  <1> DEFINE deps == query_dependencies[top.query]
  <1>1. deps \in Seq(Query)
    BY TopIsFrame DEF TypeOK
  <1>2. top.at \in 1..(Len(deps) + 1)
    BY TopIsFrame DEF ScansOK, ScanOK, Frames
  <1> HIDE DEF deps
  <1>3. top.at \in 1..Len(deps) /\ DOMAIN deps = 1..Len(deps)
    BY <1>1, <1>2 DEF deps
  <1>4. deps[top.at] \in Query
    BY <1>1, <1>3
  <1>5. QED
    BY <1>3, <1>4 DEF deps, scanned

-----------------------------------------------------------------------------
(* Type correctness. *)

\* The part of TypeOK about the call stack, with what keeps it inductive.
CallsTyped ==
    /\ stack \in Seq(Frame)
    /\ out_of_date \in {"unknown", "yes", "no"}
    /\ outcome \in {"none", "running", "answered", "threw"}
    /\ outcome = "running" <=> stack # <<>>
    /\ RequestAtBottom

\* The part of TypeOK about the tables of the engine.
TableTypes ==
    /\ changed \in [Query -> Nat]
    /\ verified \in [Query -> Nat]
    /\ query_dependencies \in [Query -> Seq(Query)]
    /\ query_cache = [q \in Cached |-> query_cache[q]]
    /\ Cached \subseteq Query

\* The part of TypeOK about the request and the user.
WorldTypes ==
    /\ files \in [Source -> Contents \cup {Missing}]
    /\ edits \in 0..MaxEdits
    /\ revision \in 0..MaxRevision
    /\ target \in Query \cup {NoQuery}
    /\ DOMAIN seen \subseteq Source

LEMMA TypeParts ==
    TypeOK /\ RequestAtBottom <=> CallsTyped /\ TableTypes /\ WorldTypes
  BY Zenon DEF TypeOK, CallsTyped, TableTypes, WorldTypes

\* The innermost call returns to its caller.
LEMMA ReturnCalls ==
    ASSUME TypeOK, RequestAtBottom, stack # <<>>, UNCHANGED revision,
           NEW answer \in {"unknown", "yes", "no"}, Return(answer),
           \/ ReturnResult
           \/ top.pc \in CheckPoints /\ UNCHANGED outcome
    PROVE  CallsTyped'
  <1>1. /\ stack' \in Seq(Frame)
        /\ Len(stack') = Len(stack) - 1
        /\ \A i \in 1..(Len(stack) - 1) : stack'[i] = stack[i]
        /\ stack' = <<>> <=> Len(stack) = 1
        /\ out_of_date' = answer
    BY CallersFacts DEF Return
  <1>2. Len(stack) \in Nat \ {0} /\ top = stack[Len(stack)]
    BY TopIsFrame
  <1>3. outcome = "running"
    BY DEF TypeOK
  <1>4. RequestAtBottom'
    BY <1>1, <1>2 DEF RequestAtBottom
  <1>5. /\ outcome' \in {"none", "running", "answered", "threw"}
        /\ outcome' = "running" <=> stack' # <<>>
    <2>1. CASE ReturnResult
      BY <2>1, <1>1, <1>3 DEF ReturnResult
    <2>2. CASE top.pc \in CheckPoints /\ UNCHANGED outcome
      <3>1. Len(stack) # 1
        BY <2>2, <1>2 DEF RequestAtBottom, ExecutePoints, CheckPoints
      <3>2. QED
        BY <3>1, <2>2, <1>1, <1>3
    <2>3. QED
      BY <2>1, <2>2
  <1>6. QED
    BY <1>1, <1>4, <1>5 DEF CallsTyped

\* The innermost call moves on, or makes a call of its own.
LEMMA ContinueCalls ==
    ASSUME TypeOK, RequestAtBottom, stack # <<>>,
           UNCHANGED <<revision, outcome>>,
           out_of_date' \in {"unknown", "yes", "no"},
           stack' \in Seq(Frame), Len(stack') \in {Len(stack), Len(stack) + 1},
           \A i \in 1..(Len(stack) - 1) : stack'[i] = stack[i],
           top.pc \in ExecutePoints => stack'[Len(stack)].pc \in ExecutePoints,
           stack'[Len(stack)].parent = top.parent
    PROVE  CallsTyped'
  <1>1. Len(stack) \in Nat \ {0} /\ top = stack[Len(stack)]
    BY TopIsFrame
  <1>2. stack' # <<>>
    BY <1>1, EmptySeq
  <1>3. RequestAtBottom'
    <2>1. CASE Len(stack) = 1
      BY <2>1, <1>1 DEF RequestAtBottom
    <2>2. CASE Len(stack) # 1
      BY <2>2, <1>1 DEF RequestAtBottom
    <2>3. QED
      BY <2>1, <2>2
  <1>4. QED
    BY <1>2, <1>3 DEF CallsTyped, TypeOK

LEMMA GoToCalls ==
    ASSUME TypeOK, RequestAtBottom, stack # <<>>,
           UNCHANGED <<revision, outcome>>,
           out_of_date' \in {"unknown", "yes", "no"},
           NEW pc \in ExecutePoints \cup CheckPoints,
           top.pc \in ExecutePoints => pc \in ExecutePoints,
           stack' = GoTo(pc)
    PROVE  CallsTyped'
  <1>1. [top EXCEPT !.pc = pc].pc = pc
        /\ [top EXCEPT !.pc = pc].parent = top.parent
    BY TopIsFrame DEF Frame
  <1>2. QED
    BY <1>1, GoToFacts, ContinueCalls

LEMMA InvokeCalls ==
    ASSUME TypeOK, RequestAtBottom, stack # <<>>,
           UNCHANGED <<revision, outcome>>,
           out_of_date' \in {"unknown", "yes", "no"},
           NEW pc \in ExecutePoints \cup CheckPoints, NEW frame \in Frame,
           top.pc \in ExecutePoints => pc \in ExecutePoints,
           stack' = Invoke(pc, frame)
    PROVE  CallsTyped'
  <1>1. [top EXCEPT !.pc = pc].pc = pc
        /\ [top EXCEPT !.pc = pc].parent = top.parent
    BY TopIsFrame DEF Frame
  <1> DEFINE after == Invoke(pc, frame)
  <1>2. /\ after \in Seq(Frame)
        /\ Len(after) = Len(stack) + 1
        /\ \A i \in 1..(Len(stack) - 1) : after[i] = stack[i]
        /\ after[Len(stack)] = [top EXCEPT !.pc = pc]
    BY InvokeFacts
  <1>3. stack' = after
    OBVIOUS
  <1> HIDE DEF after
  <1>4. QED
    BY <1>1, <1>2, <1>3, ContinueCalls

LEMMA NextDependencyCalls ==
    ASSUME TypeOK, RequestAtBottom, stack # <<>>,
           UNCHANGED <<revision, outcome>>,
           top.pc \in CheckPoints, NextDependency
    PROVE  CallsTyped'
  <1>1. [top EXCEPT !.pc = "scan", !.at = top.at + 1].parent = top.parent
    BY TopIsFrame DEF Frame
  <1>2. ~(top.pc \in ExecutePoints)
    BY DEF ExecutePoints, CheckPoints
  <1>3. QED
    BY <1>1, <1>2, NextDependencyFacts, ContinueCalls

\* Storing a result, or keeping the previous one.
LEMMA SettleTypes ==
    ASSUME TypeOK, RequestAtBottom, stack # <<>>, UNCHANGED revision,
           NEW q \in Query, NEW result, Settle(q, result)
    PROVE  CallsTyped' /\ TableTypes'
  <1>1. revision \in Nat
    BY QueryAssumption DEF TypeOK
  <1>2. CallsTyped'
    BY ReturnCalls DEF Settle, ReturnResult
  <1>3. /\ changed' \in [Query -> Nat]
        /\ verified' \in [Query -> Nat]
        /\ query_dependencies' \in [Query -> Seq(Query)]
    BY <1>1 DEF Settle, TypeOK
  <1>4. /\ query_cache' = [x \in Cached' |-> query_cache'[x]]
        /\ Cached' \subseteq Query
    <2>1. CASE UNCHANGED query_cache
      BY <2>1 DEF TypeOK, Cached
    <2>2. CASE query_cache' = Store(q, result)
      <3>1. Cached' = Cached \cup {q}
        BY <2>2 DEF Store, Cached
      <3>2. QED
        BY <2>2, <3>1 DEF Store, TypeOK
    <2>3. QED
      BY <2>1, <2>2 DEF Settle
  <1>5. QED
    BY <1>2, <1>3, <1>4 DEF TableTypes

\* Every operation keeps the types, and the request at the bottom of the stack.
LEMMA NextTypes ==
    ASSUME TypeOK, StackInvariant, [Next]_vars
    PROVE  TypeOK' /\ RequestAtBottom'
  <1> SUFFICES CallsTyped' /\ TableTypes' /\ WorldTypes'
    BY TypeParts, PTL
  <1> USE DEF world, tables, request
  <1>0. CallsTyped /\ TableTypes /\ WorldTypes /\ RequestAtBottom /\ ScansOK
    BY TypeParts DEF StackInvariant
  <1>1. CASE UNCHANGED vars
    BY <1>0, <1>1 DEF vars, CallsTyped, TableTypes, WorldTypes,
                       RequestAtBottom, Cached
  <1>2. ASSUME NEW s \in Source, NEW contents \in Contents \cup {Missing},
               Edit(s, contents)
        PROVE  CallsTyped' /\ TableTypes' /\ WorldTypes'
    <2>1. CallsTyped' /\ TableTypes'
      BY <1>0, <1>2 DEF Edit, CallsTyped, TableTypes, RequestAtBottom, Cached
    <2>2. edits' \in 0..MaxEdits
      BY <1>2, QueryAssumption DEF Edit, TypeOK
    <2>3. QED
      BY <1>2, <2>1, <2>2 DEF Edit, WorldTypes, TypeOK
  <1>3. ASSUME NEW q \in Requested, Execute(q)
        PROVE  CallsTyped' /\ TableTypes' /\ WorldTypes'
    <2>1. revision' \in 1..MaxRevision
      BY <1>3, QueryAssumption DEF Execute, TypeOK
    <2>2. q \in Query /\ ExecuteFrame(q, NoQuery) \in Frame
      BY QueryAssumption, FrameTypes
    <2>3. stack' \in Seq(Frame) /\ stack' # <<>>
      BY <1>3, <2>2 DEF Execute
    <2>4. stack'[1].pc \in ExecutePoints /\ stack'[1].parent = NoQuery
      BY <1>3 DEF Execute, ExecuteFrame, ExecutePoints
    <2>5. QED
      BY <1>0, <1>3, <2>1, <2>2, <2>3, <2>4, SMTT(30)
         DEF Execute, CallsTyped, TableTypes, WorldTypes, RequestAtBottom,
             Cached
  <1>4. ASSUME NEW q \in Query, Lookup(q)
        PROVE  CallsTyped' /\ TableTypes' /\ WorldTypes'
    <2>1. stack # <<>> /\ top.pc = "lookup" /\ top.query = q
      BY <1>4 DEF Lookup, At
    <2>2. CheckFrame(q) \in Frame /\ "decide" \in ExecutePoints
      BY FrameTypes, QueryAssumption DEF ExecutePoints
    <2>3. stack' = Invoke("decide", CheckFrame(q))
      BY <1>4 DEF Lookup
    <2>4. CallsTyped'
      BY <1>0, <1>4, <2>1, <2>2, <2>3, InvokeCalls DEF Lookup, TypeOK
    <2>5. top.parent \in Query \cup {NoQuery}
      BY <2>1, TopIsFrame
    <2>6. query_dependencies' \in [Query -> Seq(Query)]
      BY <1>4, <2>5 DEF Lookup, TypeOK
    <2>7. QED
      BY <1>0, <1>4, <2>4, <2>6
         DEF Lookup, TableTypes, WorldTypes, Cached
  <1>5. ASSUME NEW q \in Query, UseCached(q)
        PROVE  CallsTyped' /\ TableTypes' /\ WorldTypes'
    <2>1. CallsTyped'
      BY <1>0, <1>5, ReturnCalls DEF UseCached, At, ReturnResult
    <2>2. verified' \in [Query -> Nat]
      BY <1>5, QueryAssumption DEF UseCached, TypeOK
    <2>3. QED
      BY <1>0, <1>5, <2>1, <2>2
         DEF UseCached, TableTypes, WorldTypes, Cached
  <1>6. ASSUME NEW q \in Query, Recompute(q)
        PROVE  CallsTyped' /\ TableTypes' /\ WorldTypes'
    <2>1. CallsTyped'
      BY <1>0, <1>6, GoToCalls DEF Recompute, At, ExecutePoints
    <2>2. query_dependencies' \in [Query -> Seq(Query)]
      BY <1>6 DEF Recompute, TypeOK
    <2>3. QED
      BY <1>0, <1>6, <2>1, <2>2
         DEF Recompute, TableTypes, WorldTypes, Cached
  <1>7. ASSUME NEW q \in Query, ReadSource(q)
        PROVE  CallsTyped' /\ TableTypes' /\ WorldTypes'
    <2>1. stack # <<>> /\ q \in Source /\ UNCHANGED <<world, request>>
      BY <1>7 DEF ReadSource, At
    <2>2. ASSUME Settle(q, files[q])
          PROVE  CallsTyped' /\ TableTypes'
      BY <1>0, <2>1, <2>2, SettleTypes
    <2>3. ASSUME Throw, UNCHANGED tables
          PROVE  CallsTyped' /\ TableTypes'
      <3>1. CallsTyped'
        BY <2>3 DEF Throw, CallsTyped, RequestAtBottom
      <3>2. QED
        BY <1>0, <2>3, <3>1 DEF TableTypes, Cached
    <2>4. CallsTyped' /\ TableTypes'
      BY <1>7, <2>2, <2>3 DEF ReadSource
    <2>5. DOMAIN seen' \subseteq Source
      BY <1>7, <2>1 DEF ReadSource, TypeOK
    <2>6. QED
      BY <1>0, <2>1, <2>4, <2>5 DEF WorldTypes
  <1>8. ASSUME NEW q \in Query, RunQuery(q)
        PROVE  CallsTyped' /\ TableTypes' /\ WorldTypes'
    <2>1. stack # <<>> /\ stack \in Seq(Frame)
      BY <1>8 DEF RunQuery, At, TypeOK
    <2>2. PICK d \in Uses[q] : stack' = Append(stack, ExecuteFrame(d, q))
      BY <1>8 DEF RunQuery
    <2>3. ExecuteFrame(d, q) \in Frame
      BY FrameTypes, QueryAssumption
    <2>4. CallsTyped'
      <3>1. /\ stack' \in Seq(Frame)
            /\ Len(stack') = Len(stack) + 1
            /\ \A i \in 1..Len(stack) : stack'[i] = stack[i]
        BY <2>1, <2>2, <2>3, PushedSeq
      <3>2. stack'[Len(stack)] = top
        BY <2>1, <3>1, TopIsFrame
      <3>3. \A i \in 1..(Len(stack) - 1) : stack'[i] = stack[i]
        BY <2>1, <3>1, TopIsFrame
      <3>4. QED
        BY <1>0, <1>8, <2>1, <3>1, <3>2, <3>3, ContinueCalls DEF RunQuery, TypeOK
    <2>5. QED
      BY <1>0, <1>8, <2>4 DEF RunQuery, TableTypes, WorldTypes, Cached
  <1>9. ASSUME NEW q \in Query, Finish(q)
        PROVE  CallsTyped' /\ TableTypes' /\ WorldTypes'
    <2>1. CallsTyped' /\ TableTypes'
      BY <1>0, <1>9, SettleTypes DEF Finish, At
    <2>2. QED
      BY <1>0, <1>9, <2>1 DEF Finish, WorldTypes
  <1>10. ASSUME NEW q \in Query, CheckRevision(q)
         PROVE  CallsTyped' /\ TableTypes' /\ WorldTypes'
    <2>1. /\ stack # <<>> /\ top.pc = "check" /\ "scan" \in CheckPoints
          /\ top.pc \in CheckPoints /\ ~(top.pc \in ExecutePoints)
          /\ UNCHANGED <<world, tables, request, outcome, seen>>
      BY <1>10 DEF CheckRevision, At, CheckPoints, ExecutePoints
    <2>2. \/ Return("yes")
          \/ Return("no")
          \/ stack' = GoTo("scan") /\ UNCHANGED out_of_date
      BY <1>10 DEF CheckRevision
    <2>3. CallsTyped'
      BY <1>0, <2>1, <2>2, GoToCalls, ReturnCalls DEF TypeOK
    <2>4. QED
      BY <1>0, <2>1, <2>3 DEF TableTypes, WorldTypes, Cached
  <1>11. ASSUME NEW q \in Query, ScanDependency(q)
         PROVE  CallsTyped' /\ TableTypes' /\ WorldTypes'
    <2>1. /\ stack # <<>> /\ top.pc = "scan" /\ top.query = q
          /\ "verify" \in CheckPoints
          /\ top.pc \in CheckPoints /\ ~(top.pc \in ExecutePoints)
          /\ UNCHANGED <<world, tables, request, outcome, seen>>
      BY <1>11 DEF ScanDependency, At, CheckPoints, ExecutePoints
    <2>2. \/ Return("yes")
          \/ NextDependency
          \/ /\ stack' = Invoke("verify", CheckFrame(scanned(q)))
             /\ UNCHANGED out_of_date
      BY <1>11 DEF ScanDependency
    <2>3. CheckFrame(scanned(q)) \in Frame
      BY <1>0, <1>11, <2>1, ScannedFacts, FrameTypes, QueryAssumption
         DEF ScanDependency
    <2>4. CallsTyped'
      BY <1>0, <2>1, <2>2, <2>3, InvokeCalls, NextDependencyCalls, ReturnCalls
         DEF TypeOK
    <2>5. QED
      BY <1>0, <2>1, <2>4 DEF TableTypes, WorldTypes, Cached
  <1>12. ASSUME NEW q \in Query, RefreshDependency(q)
         PROVE  CallsTyped' /\ TableTypes' /\ WorldTypes'
    <2>1. /\ stack # <<>> /\ top.pc = "verify" /\ top.query = q
          /\ "refresh" \in CheckPoints /\ ~(top.pc \in ExecutePoints)
          /\ UNCHANGED <<world, tables, request, outcome, seen>>
      BY <1>12 DEF RefreshDependency, At, CheckPoints, ExecutePoints
    <2>2. top.at <= Len(query_dependencies[q])
      BY <1>0, <2>1, TopIsFrame DEF ScansOK, ScanOK, Frames
    <2>3. ExecuteFrame(scanned(q), NoQuery) \in Frame
      BY <1>0, <2>1, <2>2, ScannedFacts, FrameTypes
    <2>4. CallsTyped'
      BY <1>0, <1>12, <2>1, <2>3, InvokeCalls DEF RefreshDependency
    <2>5. QED
      BY <1>0, <2>1, <2>4 DEF TableTypes, WorldTypes, Cached
  <1>13. ASSUME NEW q \in Query, TrustDependency(q)
         PROVE  CallsTyped' /\ TableTypes' /\ WorldTypes'
    <2>1. /\ stack # <<>> /\ top.pc \in CheckPoints
          /\ UNCHANGED <<world, tables, request, outcome, seen>>
      BY <1>13 DEF TrustDependency, At, CheckPoints
    <2>2. Return("yes") \/ NextDependency
      BY <1>13 DEF TrustDependency
    <2>3. CallsTyped'
      BY <1>0, <2>1, <2>2, NextDependencyCalls, ReturnCalls
         DEF NextDependency
    <2>4. QED
      BY <1>0, <2>1, <2>3 DEF TableTypes, WorldTypes, Cached
  <1>14. ASSUME NEW q \in Query, AllVerified(q)
         PROVE  CallsTyped' /\ TableTypes' /\ WorldTypes'
    <2>1. stack # <<>> /\ top.pc \in CheckPoints
      BY <1>14 DEF AllVerified, At, CheckPoints
    <2>2. CallsTyped'
      BY <1>0, <1>14, <2>1, ReturnCalls DEF AllVerified
    <2>3. verified' \in [Query -> Nat]
      BY <1>14, QueryAssumption DEF AllVerified, TypeOK
    <2>4. QED
      BY <1>0, <1>14, <2>2, <2>3
         DEF AllVerified, TableTypes, WorldTypes, Cached
  <1>15. QED
    <2>1. CASE UserStep
      BY <2>1, <1>2, <1>3 DEF UserStep
    <2>2. CASE EngineStep
      BY <2>2, <1>4, <1>5, <1>6, <1>7, <1>8, <1>9, <1>10, <1>11, <1>12,
         <1>13, <1>14
         DEF EngineStep
    <2>3. QED
      BY <1>1, <2>1, <2>2 DEF Next

-----------------------------------------------------------------------------
(* The stack invariant.  A step pops the innermost call, moves it on, or     *)
(* pushes a call of its own; the calls below it keep what they rely on,      *)
(* because they are for queries of higher rank.                              *)

\* Nothing below the innermost call is scanning or computing its query.
LEMMA LowerCallsDiffer ==
    ASSUME TypeOK, RanksDescend, stack # <<>>,
           NEW i \in 1..(Len(stack) - 1), stack[i].pc # "decide"
    PROVE  stack[i].query # top.query
  <1>1. /\ Len(stack) \in Nat \ {0} /\ top = stack[Len(stack)]
        /\ stack[i] \in Frame /\ top.query \in Query
    BY TopIsFrame
  <1>2. Rank[top.query] < Rank[stack[i].query]
    BY <1>1 DEF RanksDescend, Frames
  <1>3. Rank[top.query] \in Nat
    BY <1>1, QueryAssumption
  <1>4. QED
    BY <1>2, <1>3

\* The tables change in no more than the verification of the query x.
VerifyOnly(x) ==
    /\ UNCHANGED <<revision, query_dependencies>>
    /\ verified' \in {verified, [verified EXCEPT ![x] = revision]}

\* Verifying a query whose dependencies are verified.
LEMMA VerifyTogether ==
    ASSUME TypeOK, VerifiedTogether, NEW x \in Query, VerifyOnly(x),
           verified'[x] = revision =>
               \A i \in DOMAIN query_dependencies[x] :
                   verified'[query_dependencies[x][i]] = revision
    PROVE  VerifiedTogether'
  <1> SUFFICES ASSUME NEW q \in Query, verified'[q] = revision, revision # 0,
                      NEW i \in DOMAIN query_dependencies[q]
               PROVE  verified'[query_dependencies[q][i]] = revision
    BY DEF VerifiedTogether, VerifyOnly
  <1>1. CASE q = x
    BY <1>1
  <1>2. CASE q # x
    <2>1. query_dependencies[q][i] \in Query
      BY ElementOfSeq DEF TypeOK
    <2>2. verified[q] = revision
      BY <1>2 DEF VerifyOnly, TypeOK
    <2>3. verified[query_dependencies[q][i]] = revision
      BY <2>2 DEF VerifiedTogether
    <2>4. QED
      BY <2>1, <2>3 DEF VerifyOnly, TypeOK
  <1>3. QED
    BY <1>1, <1>2

\* What a step leaves alone for the calls below the innermost one: nothing
\* becomes unverified, and the tables are as they were for what is scanned.
LowerTables ==
    /\ revision' = revision
    /\ \A q \in Query : verified[q] = revision => verified'[q] = revision
    /\ \A i \in 1..(Len(stack) - 1) :
          stack[i].pc \in CheckPoints =>
              /\ query_dependencies'[stack[i].query] =
                    query_dependencies[stack[i].query]
              /\ verified'[stack[i].query] = verified[stack[i].query]

\* The tables change for the query of the innermost call at most.
TopTables ==
    /\ revision' = revision
    /\ \A q \in Query : verified[q] = revision => verified'[q] = revision
    /\ \A q \in Query : q # top.query =>
          /\ query_dependencies'[q] = query_dependencies[q]
          /\ verified'[q] = verified[q]

LowerCalls ==
    /\ stack # <<>>
    /\ stack' \in Seq(Frame)
    /\ Len(stack') >= Len(stack) - 1
    /\ \A i \in 1..(Len(stack) - 1) : stack'[i] = stack[i]

LEMMA TopTablesLower ==
    ASSUME TypeOK, RanksDescend, stack # <<>>, TopTables
    PROVE  LowerTables
  <1> SUFFICES ASSUME NEW i \in 1..(Len(stack) - 1), stack[i].pc \in CheckPoints
               PROVE  /\ query_dependencies'[stack[i].query] =
                            query_dependencies[stack[i].query]
                      /\ verified'[stack[i].query] = verified[stack[i].query]
    BY DEF LowerTables, TopTables
  <1>1. stack[i].query # top.query
    BY LowerCallsDiffer DEF CheckPoints
  <1>2. stack[i].query \in Query
    BY TopIsFrame DEF Frame
  <1>3. QED
    BY <1>1, <1>2 DEF TopTables

LEMMA LowerScans ==
    ASSUME TypeOK, RanksDescend, ScansOK, LowerTables, LowerCalls,
           NEW i \in 1..(Len(stack) - 1)
    PROVE  ScanOK(stack[i])'
  <1> DEFINE f == stack[i]
             q == f.query
             deps == query_dependencies[q]
  <1>1. f \in Frame /\ Len(stack) \in Nat \ {0} /\ i \in Frames
        /\ stack'[i] = f
    BY TopIsFrame DEF Frames, LowerCalls
  <1>2. q \in Query /\ f.at \in Nat
    BY <1>1 DEF Frame
  <1>3. ScanOK(f)
    BY <1>1 DEF ScansOK
  <1>4. deps \in Seq(Query)
    BY <1>2 DEF TypeOK
  <1> HIDE DEF f, deps
  <1>5. CASE f.pc \in {"check", "scan", "verify", "refresh"}
    <2>2. query_dependencies'[q] = deps /\ verified'[q] = verified[q]
      BY <1>5 DEF LowerTables, CheckPoints, f, deps
    <2>3. ASSUME f.pc # "check", NEW j \in 1..(f.at - 1)
          PROVE  verified'[deps[j]] = revision
      <3>1. f.at \in 1..(Len(deps) + 1) /\ verified[deps[j]] = revision
        BY <1>3, <1>5, <2>3 DEF ScanOK, deps
      <3>2. j \in 1..Len(deps)
        BY <1>2, <1>4, <3>1
      <3>3. deps[j] \in Query
        BY <1>4, <3>2
      <3>4. QED
        BY <3>1, <3>3 DEF LowerTables
    <2>4. QED
      BY <1>1, <1>3, <1>5, <2>2, <2>3 DEF ScanOK, LowerTables, deps
  <1>6. CASE f.pc \notin {"check", "scan", "verify", "refresh"}
    BY <1>1, <1>6 DEF ScanOK
  <1>7. QED
    BY <1>5, <1>6

\* The calls below the innermost one are still nested, and so is the
\* innermost one (at position i of the new stack) while it stays the same call.
LEMMA LowerNested ==
    ASSUME TypeOK, RanksDescend, CallsNested, LowerTables, LowerCalls,
           NEW i \in 2..Len(stack), i <= Len(stack'),
           i = Len(stack) =>
               /\ stack'[i].query = top.query
               /\ stack'[i].parent = top.parent
               /\ stack'[i].pc \in ExecutePoints <=> top.pc \in ExecutePoints
               /\ stack'[i].pc \in CheckPoints <=> top.pc \in CheckPoints
    PROVE  Nested(stack[i - 1], stack[i])'
  <1> DEFINE f == stack[i - 1]
             g == stack[i]
             h == stack'[i]
  <1>1. /\ Len(stack) \in Nat \ {0} /\ top = stack[Len(stack)]
        /\ i - 1 \in 1..(Len(stack) - 1)
        /\ f \in Frame /\ g \in Frame
    BY TopIsFrame DEF LowerCalls
  <1>2. stack'[i - 1] = f
    BY <1>1 DEF LowerCalls
  <1>3. Nested(f, g)
    BY <1>1 DEF CallsNested, Frames
  <1>4. /\ h.query = g.query /\ h.parent = g.parent
        /\ h.pc \in ExecutePoints <=> g.pc \in ExecutePoints
        /\ h.pc \in CheckPoints <=> g.pc \in CheckPoints
    <2>1. CASE i = Len(stack)
      BY <1>1, <2>1
    <2>2. CASE i # Len(stack)
      BY <1>1, <2>2 DEF LowerCalls
    <2>3. QED
      BY <2>1, <2>2
  <1>5. f.pc \in {"verify", "refresh"} =>
            query_dependencies'[f.query] = query_dependencies[f.query]
    BY <1>1 DEF LowerTables, CheckPoints
  <1>6. stack'[i] = h
    OBVIOUS
  <1> HIDE DEF f, g, h
  <1>7. QED
    BY <1>2, <1>3, <1>4, <1>5, <1>6 DEF Nested

\* What the computation of a lower call has read is still verified, except
\* perhaps for the query whose call is directly above it.
LEMMA LowerComputations ==
    ASSUME TypeOK, RanksDescend, ComputationsOK, TopTables, LowerCalls,
           NEW i \in 1..(Len(stack) - 1), stack[i].pc = "compute"
    PROVE  /\ query_dependencies'[stack[i].query] =
                 query_dependencies[stack[i].query]
           /\ verified'[stack[i].query] # revision'
           /\ \A j \in DOMAIN query_dependencies[stack[i].query] :
                 \/ verified'[query_dependencies[stack[i].query][j]] = revision'
                 \/ Running(i, j)
  <1> DEFINE q == stack[i].query
             deps == query_dependencies[q]
  <1>1. /\ stack[i] \in Frame /\ Len(stack) \in Nat \ {0} /\ i \in Frames
        /\ q \in Query /\ q # top.query
    BY TopIsFrame, LowerCallsDiffer DEF Frames, LowerCalls, Frame
  <1>2. /\ deps \in Seq(Query)
        /\ query_dependencies'[q] = deps /\ verified'[q] = verified[q]
    BY <1>1 DEF TopTables, TypeOK
  <1>3. verified[q] # revision
    BY <1>1 DEF ComputationsOK
  <1>4. ASSUME NEW j \in DOMAIN deps
        PROVE  verified'[deps[j]] = revision' \/ Running(i, j)
    <2>1. verified[deps[j]] = revision \/ Running(i, j)
      BY <1>1 DEF ComputationsOK
    <2>2. deps[j] \in Query
      BY <1>2, ElementOfSeq
    <2>3. QED
      BY <2>1, <2>2 DEF TopTables
  <1>5. QED
    BY <1>2, <1>3, <1>4 DEF TopTables

\* The innermost call returns.
LEMMA PopInvariant ==
    ASSUME TypeOK, StackInvariant, CallsTyped',
           LowerCalls, Len(stack') = Len(stack) - 1, VerifyOnly(top.query),
           top.pc \in ExecutePoints =>
               top.pc # "lookup" /\ verified'[top.query] = revision,
           top.pc \in CheckPoints =>
               /\ out_of_date' = "no" => verified'[top.query] = revision
               /\ out_of_date' = "yes" => verified'[top.query] # revision
    PROVE  StackInvariant'
  <1>0. /\ RequestAtBottom /\ DependenciesUsed /\ RanksDescend
        /\ CallsNested /\ ScansOK /\ ComputationsOK /\ AnswerOK
    BY DEF StackInvariant
  <1>1. /\ stack \in Seq(Frame) /\ Len(stack) \in Nat \ {0}
        /\ top = stack[Len(stack)] /\ top \in Frame /\ top.query \in Query
        /\ revision \in Nat
    BY TopIsFrame DEF TypeOK, LowerCalls
  <1>2. /\ stack' \in Seq(Frame) /\ stack # <<>>
        /\ \A i \in 1..(Len(stack) - 1) : stack'[i] = stack[i]
    BY DEF LowerCalls
  <1>3. TopTables
    BY <1>1 DEF TopTables, VerifyOnly, TypeOK
  <1>4. LowerTables
    BY <1>0, <1>2, <1>3, TopTablesLower
  <1>5. RequestAtBottom'
    BY DEF CallsTyped
  <1>6. DependenciesUsed'
    BY <1>0 DEF DependenciesUsed, VerifyOnly
  <1>7. RanksDescend'
    <2> SUFFICES ASSUME NEW i \in Frames', NEW k \in Frames', i < k
                 PROVE  /\ Rank[stack'[k].query] <= Rank[stack'[i].query]
                        /\ stack'[i].pc # "decide" =>
                              Rank[stack'[k].query] < Rank[stack'[i].query]
      BY DEF RanksDescend
    <2>1. i \in Frames /\ k \in Frames
      BY <1>1 DEF Frames
    <2>2. stack'[i] = stack[i] /\ stack'[k] = stack[k]
      BY <1>1, <1>2 DEF Frames
    <2>3. QED
      BY <1>0, <2>1, <2>2 DEF RanksDescend
  <1>8. CallsNested'
    <2> SUFFICES ASSUME NEW i \in Frames', i > 1
                 PROVE  Nested(stack[i - 1], stack[i])'
      BY DEF CallsNested
    <2>1. i \in 2..Len(stack) /\ i # Len(stack) /\ i <= Len(stack')
      BY <1>1 DEF Frames
    <2>2. QED
      BY <1>0, <1>2, <1>4, <2>1, LowerNested
  <1>9. ScansOK'
    BY <1>0, <1>1, <1>2, <1>4, LowerScans DEF ScansOK, Frames
  <1>10. Len(stack) > 1 => Nested(stack[Len(stack) - 1], top)
    <2> SUFFICES ASSUME Len(stack) > 1
                 PROVE  Nested(stack[Len(stack) - 1], top)
      OBVIOUS
    <2>1. Len(stack) \in Frames /\ Len(stack) > 1
      BY <1>1 DEF Frames
    <2>2. \A i \in Frames : i > 1 => Nested(stack[i - 1], stack[i])
      BY <1>0 DEF CallsNested
    <2>3. Nested(stack[Len(stack) - 1], stack[Len(stack)])
      BY <2>1, <2>2, Zenon
    <2>4. QED
      BY <1>1, <2>3, Zenon
  <1>11. ASSUME NEW i \in 1..(Len(stack) - 1), stack[i].pc = "compute",
                NEW j, Running(i, j), i = Len(stack) - 1
         PROVE  verified'[query_dependencies[stack[i].query][j]] = revision'
    <2>1. query_dependencies[stack[i].query][j] = top.query
      BY <1>1, <1>11 DEF Running
    <2>2. top.pc \in ExecutePoints
      BY <1>1, <1>10, <1>11 DEF Nested
    <2>3. QED
      BY <2>1, <2>2 DEF VerifyOnly
  <1>12. ComputationsOK'
    <2> SUFFICES ASSUME NEW i \in Frames', stack'[i].pc = "compute"
                 PROVE  /\ verified'[stack'[i].query] # revision'
                        /\ \A j \in DOMAIN query_dependencies'[stack'[i].query] :
                              \/ verified'[query_dependencies'[stack'[i].query][j]]
                                       = revision'
                              \/ Running(i, j)'
      BY DEF ComputationsOK
    <2> DEFINE q == stack[i].query
               deps == query_dependencies[q]
    <2>1. i \in 1..(Len(stack) - 1) /\ stack'[i] = stack[i]
      BY <1>1, <1>2 DEF Frames
    <2>2. i < Len(stack) - 1 => stack'[i + 1] = stack[i + 1]
      BY <1>1, <1>2, <2>1
    <2>3. /\ query_dependencies'[q] = deps
          /\ verified'[q] # revision'
          /\ \A j \in DOMAIN deps :
                verified'[deps[j]] = revision' \/ Running(i, j)
      BY <1>0, <1>2, <1>3, <2>1, LowerComputations
    <2>4. ASSUME NEW j \in DOMAIN deps, Running(i, j)
          PROVE  verified'[deps[j]] = revision' \/ Running(i, j)'
      <3>1. CASE i = Len(stack) - 1
        BY <1>11, <2>1, <2>4, <3>1
      <3>2. CASE i < Len(stack) - 1
        BY <1>1, <2>1, <2>2, <2>3, <2>4, <3>2 DEF Running
      <3>3. QED
        BY <1>1, <2>1, <3>1, <3>2
    <2>5. QED
      BY <2>1, <2>3, <2>4
  <1>13. AnswerOK'
    <2>1. CASE Len(stack) = 1
      BY <1>2, <2>1 DEF AnswerOK
    <2>2. CASE Len(stack) > 1
      <3> DEFINE f == stack[Len(stack) - 1]
      <3>1. top' = f /\ stack' # <<>> /\ f \in Frame
        BY <1>1, <1>2, <2>2, TopIsFrame DEF top
      <3>2. Nested(f, top)
        BY <1>10, <2>2
      <3>3. f.pc # "decide" =>
               query_dependencies'[f.query] = query_dependencies[f.query]
        BY DEF VerifyOnly
      <3> HIDE DEF f
      <3>4. QED
        BY <3>1, <3>2, <3>3 DEF AnswerOK, Nested, scanned, VerifyOnly,
                                ExecutePoints, CheckPoints
    <2>3. QED
      BY <1>1, <2>1, <2>2
  <1>14. QED
    BY <1>5, <1>6, <1>7, <1>8, <1>9, <1>12, <1>13 DEF StackInvariant

\* The innermost call moves on.
LEMMA MoveInvariant ==
    ASSUME TypeOK, StackInvariant, CallsTyped',
           LowerCalls, Len(stack') = Len(stack), TopTables,
           UNCHANGED verified, DependenciesUsed',
           top'.query = top.query, top'.parent = top.parent,
           top'.pc \in ExecutePoints <=> top.pc \in ExecutePoints,
           top'.pc \in CheckPoints <=> top.pc \in CheckPoints,
           top.pc # "lookup", top'.pc # "lookup",
           top'.pc = "compute" =>
               /\ verified[top.query] # revision
               /\ query_dependencies'[top.query] = <<>>,
           ScanOK(top)', AnswerOK'
    PROVE  StackInvariant'
  <1>0. /\ RequestAtBottom /\ DependenciesUsed /\ RanksDescend
        /\ CallsNested /\ ScansOK /\ ComputationsOK /\ AnswerOK
    BY DEF StackInvariant
  <1>1. /\ Len(stack) \in Nat \ {0} /\ top = stack[Len(stack)]
        /\ top' = stack'[Len(stack)]
        /\ top \in Frame /\ top.query \in Query
    BY TopIsFrame DEF LowerCalls, top
  <1>2. /\ stack' \in Seq(Frame) /\ stack # <<>>
        /\ \A i \in 1..(Len(stack) - 1) : stack'[i] = stack[i]
    BY DEF LowerCalls
  <1>3. LowerTables
    BY <1>0, <1>2, TopTablesLower
  <1>4. \A i \in 1..Len(stack) : stack'[i].query = stack[i].query
    BY <1>1, <1>2
  <1>5. RequestAtBottom'
    BY DEF CallsTyped
  <1>6. RanksDescend'
    <2> SUFFICES ASSUME NEW i \in Frames', NEW k \in Frames', i < k
                 PROVE  /\ Rank[stack'[k].query] <= Rank[stack'[i].query]
                        /\ stack'[i].pc # "decide" =>
                              Rank[stack'[k].query] < Rank[stack'[i].query]
      BY DEF RanksDescend
    <2>1. i \in Frames /\ k \in Frames /\ stack'[i] = stack[i]
          /\ stack'[k].query = stack[k].query
      BY <1>1, <1>2, <1>4 DEF Frames
    <2>2. QED
      BY <1>0, <2>1 DEF RanksDescend
  <1>7. CallsNested'
    <2> SUFFICES ASSUME NEW i \in Frames', i > 1
                 PROVE  Nested(stack[i - 1], stack[i])'
      BY DEF CallsNested
    <2>1. i \in 2..Len(stack) /\ i <= Len(stack')
      BY <1>1 DEF Frames
    <2>2. QED
      BY <1>0, <1>1, <1>3, <2>1, LowerNested
  <1>8. ScansOK'
    <2> SUFFICES ASSUME NEW i \in Frames'
                 PROVE  ScanOK(stack[i])'
      BY DEF ScansOK
    <2>1. CASE i = Len(stack)
      BY <1>1, <2>1 DEF ScanOK
    <2>2. CASE i # Len(stack)
      <3>1. i \in 1..(Len(stack) - 1)
        BY <1>1, <2>2 DEF Frames
      <3>2. QED
        BY <1>0, <1>3, <3>1, LowerScans
    <2>3. QED
      BY <2>1, <2>2
  <1>9. ComputationsOK'
    <2> SUFFICES ASSUME NEW i \in Frames', stack'[i].pc = "compute"
                 PROVE  /\ verified'[stack'[i].query] # revision'
                        /\ \A j \in DOMAIN query_dependencies'[stack'[i].query] :
                              \/ verified'[query_dependencies'[stack'[i].query][j]]
                                       = revision'
                              \/ Running(i, j)'
      BY DEF ComputationsOK
    <2>1. CASE i = Len(stack)
      BY <1>1, <2>1 DEF TopTables
    <2>2. CASE i # Len(stack)
      <3> DEFINE q == stack[i].query
                 deps == query_dependencies[q]
      <3>1. i \in 1..(Len(stack) - 1) /\ stack'[i] = stack[i]
        BY <1>1, <1>2, <2>2 DEF Frames
      <3>2. /\ query_dependencies'[q] = deps
            /\ verified'[q] # revision'
            /\ \A j \in DOMAIN deps :
                  verified'[deps[j]] = revision' \/ Running(i, j)
        BY <1>0, <3>1, LowerComputations
      <3>3. /\ stack'[i + 1].query = stack[i + 1].query
            /\ stack[i + 1].pc # "lookup" => stack'[i + 1].pc # "lookup"
        BY <1>1, <1>2, <1>4, <3>1
      <3>4. ASSUME NEW j \in DOMAIN deps, Running(i, j)
            PROVE  Running(i, j)'
        BY <3>1, <3>2, <3>3, <3>4 DEF Running
      <3>5. QED
        BY <3>1, <3>2, <3>4
    <2>3. QED
      BY <2>1, <2>2
  <1>10. QED
    BY <1>5, <1>6, <1>7, <1>8, <1>9 DEF StackInvariant

\* The innermost call, which moves on to "caller", makes the call top'.
Push(caller) ==
    /\ LowerCalls
    /\ Len(stack') = Len(stack) + 1
    /\ stack'[Len(stack)] = caller
    /\ caller.query = top.query /\ caller.parent = top.parent
    /\ caller.pc \in ExecutePoints <=> top.pc \in ExecutePoints
    /\ caller.pc \in CheckPoints <=> top.pc \in CheckPoints
    /\ caller.pc # "lookup"

LEMMA PushInvariant ==
    ASSUME TypeOK, StackInvariant, CallsTyped', NEW caller, Push(caller),
           LowerTables, UNCHANGED verified, DependenciesUsed',
           ComputationsOK',
           Nested(stack[Len(stack) - 1], stack[Len(stack)])',
           Rank[top'.query] <= Rank[top.query],
           caller.pc # "decide" => Rank[top'.query] < Rank[top.query],
           ScanOK(stack[Len(stack) - 1])',
           top'.pc \in {"lookup", "check"}, top'.pc = "check" => top'.at = 1
    PROVE  StackInvariant'
  <1>0. /\ RequestAtBottom /\ DependenciesUsed /\ RanksDescend
        /\ CallsNested /\ ScansOK /\ ComputationsOK /\ AnswerOK
    BY DEF StackInvariant
  <1> DEFINE n == Len(stack)
  <1>1. /\ n \in Nat \ {0} /\ top = stack[n]
        /\ Len(stack') = n + 1 /\ top' = stack'[n + 1]
        /\ stack'[n] = caller /\ caller.query = top.query
        /\ top.query \in Query
    BY TopIsFrame DEF LowerCalls, Push, top
  <1>2. /\ stack' \in Seq(Frame) /\ stack # <<>> /\ LowerCalls
        /\ \A i \in 1..(n - 1) : stack'[i] = stack[i]
    BY DEF LowerCalls, Push
  <1>3. top'.query \in Query
    <2>1. stack'[n + 1] \in Frame
      BY <1>1, <1>2, ElementOfSeq
    <2>2. QED
      BY <1>1, <2>1 DEF Frame
  <1> HIDE DEF n
  <1>4. \A i \in 1..n : stack'[i].query = stack[i].query
    BY <1>1, <1>2
  <1>5. RequestAtBottom'
    BY DEF CallsTyped
  <1>6. RanksDescend'
    <2> SUFFICES ASSUME NEW i \in Frames', NEW k \in Frames', i < k
                 PROVE  /\ Rank[stack'[k].query] <= Rank[stack'[i].query]
                        /\ stack'[i].pc # "decide" =>
                              Rank[stack'[k].query] < Rank[stack'[i].query]
      BY DEF RanksDescend
    <2>1. /\ i \in 1..n /\ stack'[i].query = stack[i].query
          /\ i # n => stack'[i] = stack[i]
      BY <1>1, <1>2, <1>4 DEF Frames
    <2>2. CASE k # n + 1
      <3>1. k \in 1..n /\ i # n /\ stack'[k].query = stack[k].query
        BY <1>1, <1>4, <2>1, <2>2 DEF Frames
      <3>2. i \in Frames /\ k \in Frames
        BY <2>1, <3>1 DEF Frames, n
      <3>3. QED
        BY <1>0, <2>1, <3>1, <3>2 DEF RanksDescend
    <2>3. CASE k = n + 1
      <3>1. stack'[k] = top'
        BY <1>1, <2>3
      <3>2. CASE i = n
        BY <1>1, <2>1, <3>1, <3>2
      <3>3. CASE i # n
        <4>1. /\ Rank[top.query] <= Rank[stack[i].query]
              /\ stack[i].pc # "decide" =>
                    Rank[top.query] < Rank[stack[i].query]
          BY <1>0, <1>1, <2>1, <3>3 DEF RanksDescend, Frames, n
        <4>2. stack[i].query \in Query
          <5>1. stack[i] \in Frame
            BY <1>2, <2>1, TopIsFrame DEF n
          <5>2. QED
            BY <5>1 DEF Frame
        <4>3. /\ Rank[stack[i].query] \in Nat /\ Rank[top.query] \in Nat
              /\ Rank[top'.query] \in Nat
          BY <1>1, <1>3, <4>2, QueryAssumption
        <4>4. /\ Rank[top'.query] <= Rank[stack[i].query]
              /\ stack[i].pc # "decide" =>
                    Rank[top'.query] < Rank[stack[i].query]
          BY <4>1, <4>3
        <4>5. QED
          BY <2>1, <3>1, <3>3, <4>4
      <3>4. QED
        BY <3>2, <3>3
    <2>4. QED
      BY <2>2, <2>3
  <1>7. CallsNested'
    <2> SUFFICES ASSUME NEW i \in Frames', i > 1
                 PROVE  Nested(stack[i - 1], stack[i])'
      BY DEF CallsNested
    <2>1. CASE i = n + 1
      BY <1>1, <2>1 DEF Nested
    <2>2. CASE i # n + 1
      <3>1. i \in 2..Len(stack) /\ i <= Len(stack')
        BY <1>1, <2>2 DEF Frames, n
      <3>2. QED
        BY <1>0, <1>1, <1>2, <3>1, LowerNested DEF n, Push
    <2>3. QED
      BY <2>1, <2>2
  <1>8. ScansOK'
    <2> SUFFICES ASSUME NEW i \in Frames'
                 PROVE  ScanOK(stack[i])'
      BY DEF ScansOK
    <2>1. CASE i = n + 1
      BY <1>1, <2>1 DEF ScanOK
    <2>2. CASE i = n
      BY <1>1, <2>2 DEF ScanOK
    <2>3. CASE i \in 1..(n - 1)
      BY <1>0, <1>2, <2>3, LowerScans DEF n
    <2>4. QED
      BY <1>1, <2>1, <2>2, <2>3 DEF Frames
  <1>9. AnswerOK'
    BY DEF AnswerOK
  <1>10. QED
    BY <1>5, <1>6, <1>7, <1>8, <1>9 DEF StackInvariant

\* Making a call leaves the computations as they are.
LEMMA PushComputations ==
    ASSUME TypeOK, RanksDescend, ComputationsOK, NEW caller, Push(caller),
           UNCHANGED <<revision, verified, query_dependencies>>,
           caller.pc = "compute" => top.pc = "compute",
           top'.pc # "compute"
    PROVE  ComputationsOK'
  <1> SUFFICES ASSUME NEW i \in Frames', stack'[i].pc = "compute"
               PROVE  /\ verified[stack'[i].query] # revision
                      /\ \A j \in DOMAIN query_dependencies[stack'[i].query] :
                            \/ verified[query_dependencies[stack'[i].query][j]]
                                     = revision
                            \/ Running(i, j)'
    BY DEF ComputationsOK
  <1>1. /\ Len(stack) \in Nat \ {0} /\ top = stack[Len(stack)]
        /\ Len(stack') = Len(stack) + 1 /\ top' = stack'[Len(stack) + 1]
        /\ stack'[Len(stack)] = caller /\ caller.query = top.query
        /\ caller.pc # "lookup"
    BY TopIsFrame DEF LowerCalls, Push, top
  <1>2. \A k \in 1..(Len(stack) - 1) : stack'[k] = stack[k]
    BY DEF LowerCalls, Push
  <1>3. CASE i = Len(stack) + 1
    BY <1>1, <1>3
  <1>4. CASE i \in Frames
    <2> DEFINE deps == query_dependencies[stack[i].query]
    <2>1. stack'[i].query = stack[i].query /\ stack[i].pc = "compute"
      BY <1>1, <1>2, <1>4 DEF Frames
    <2>2. /\ verified[stack[i].query] # revision
          /\ \A j \in DOMAIN deps :
                verified[deps[j]] = revision \/ Running(i, j)
      BY <1>4, <2>1 DEF ComputationsOK
    <2>3. ASSUME NEW j \in DOMAIN deps, Running(i, j)
          PROVE  Running(i, j)'
      <3>1. i < Len(stack)
        BY <2>3 DEF Running
      <3>2. /\ stack'[i + 1].query = stack[i + 1].query
            /\ stack'[i + 1].pc # "lookup" \/ stack'[i + 1] = stack[i + 1]
        BY <1>1, <1>2, <1>4, <3>1 DEF Frames
      <3>3. /\ stack[i + 1].pc # "lookup"
            /\ j = Len(deps) /\ deps[j] = stack[i + 1].query
        BY <2>3 DEF Running
      <3>4. i < Len(stack') /\ stack'[i + 1].pc # "lookup"
        BY <1>1, <1>4, <3>1, <3>2, <3>3 DEF Frames
      <3>5. query_dependencies'[stack'[i].query] = deps
        BY <2>1
      <3>6. QED
        BY <3>2, <3>3, <3>4, <3>5 DEF Running
    <2>4. QED
      BY <2>1, <2>2, <2>3
  <1>5. QED
    BY <1>1, <1>3, <1>4 DEF Frames

-----------------------------------------------------------------------------
(* Each operation keeps the engine's invariant. *)

\* What the other parts of the invariant say about the innermost call.
LEMMA AtFacts ==
    ASSUME EngineInvariant, NEW q \in Query, NEW pc, At(pc, q)
    PROVE  /\ TypeOK /\ RevisionsOrdered /\ VerifiedTogether
           /\ RequestAtBottom /\ DependenciesUsed /\ RanksDescend
           /\ CallsNested /\ ScansOK /\ ComputationsOK /\ AnswerOK
           /\ StackInvariant
           /\ stack # <<>> /\ stack \in Seq(Frame) /\ top \in Frame
           /\ Len(stack) \in Nat \ {0} /\ top = stack[Len(stack)]
           /\ top.pc = pc /\ top.query = q
           /\ ScanOK(top)
           /\ revision \in Nat \ {0}
           /\ verified \in [Query -> Nat]
           /\ query_dependencies \in [Query -> Seq(Query)]
  <1>1. TypeOK /\ StackInvariant /\ stack # <<>> /\ top.pc = pc
        /\ top.query = q
    BY DEF EngineInvariant, At
  <1>2. Len(stack) \in Nat \ {0} /\ top = stack[Len(stack)]
        /\ top \in Frame /\ stack \in Seq(Frame)
    BY <1>1, TopIsFrame
  <1>3. RequestAtBottom /\ ScansOK
    BY <1>1 DEF StackInvariant
  <1>4. ScanOK(top)
    BY <1>2, <1>3 DEF ScansOK, Frames
  <1>5. /\ revision \in Nat \ {0}
        /\ verified \in [Query -> Nat]
        /\ query_dependencies \in [Query -> Seq(Query)]
    BY <1>1, <1>3, QueryAssumption DEF TypeOK, RequestAtBottom
  <1>6. QED
    BY <1>1, <1>2, <1>3, <1>4, <1>5 DEF EngineInvariant, StackInvariant

\* The part of the invariant that is about the tables alone.
TablesOK == RevisionsOrdered /\ VerifiedTogether

LEMMA TablesKept ==
    ASSUME TablesOK,
           UNCHANGED <<revision, changed, verified, query_dependencies,
                       query_cache>>
    PROVE  TablesOK'
  BY DEF TablesOK, RevisionsOrdered, VerifiedTogether, Cached

\* Recording a dependency of a computation, or forgetting those of a query
\* that is to be computed again.
LEMMA DependenciesOfUnverified ==
    ASSUME TablesOK, NEW x \in Query, verified[x] # revision,
           UNCHANGED <<revision, changed, verified, query_cache>>,
           \A q \in Query : q # x =>
               query_dependencies'[q] = query_dependencies[q]
    PROVE  TablesOK'
  <1>1. RevisionsOrdered'
    BY DEF TablesOK, RevisionsOrdered, Cached
  <1>2. VerifiedTogether'
    <2> SUFFICES ASSUME NEW q \in Query, verified[q] = revision, revision # 0,
                        NEW i \in DOMAIN query_dependencies'[q]
                 PROVE  verified[query_dependencies'[q][i]] = revision
      BY DEF VerifiedTogether
    <2>1. query_dependencies'[q] = query_dependencies[q]
      OBVIOUS
    <2>2. QED
      BY <2>1 DEF TablesOK, VerifiedTogether
  <1>3. QED
    BY <1>1, <1>2 DEF TablesOK

\* Verifying a query that has a cached result.
LEMMA VerifyTables ==
    ASSUME TypeOK, TablesOK, NEW x \in Cached, VerifyOnly(x),
           UNCHANGED <<changed, query_cache>>,
           verified'[x] = revision =>
               \A i \in DOMAIN query_dependencies[x] :
                   verified[query_dependencies[x][i]] = revision
    PROVE  TablesOK'
  <1>1. x \in Query /\ revision \in Nat /\ verified \in [Query -> Nat]
        /\ changed \in [Query -> Nat]
        /\ query_dependencies \in [Query -> Seq(Query)]
    BY QueryAssumption DEF TypeOK
  <1>2. RevisionsOrdered'
    BY <1>1 DEF TablesOK, RevisionsOrdered, VerifyOnly, Cached
  <1>3. \A q \in Query : verified[q] = revision => verified'[q] = revision
    BY <1>1 DEF VerifyOnly
  <1>4. \A i \in DOMAIN query_dependencies[x] :
            query_dependencies[x][i] \in Query
    BY <1>1
  <1>5. VerifiedTogether'
    BY <1>1, <1>3, <1>4, VerifyTogether DEF TablesOK
  <1>6. QED
    BY <1>2, <1>5 DEF TablesOK

LEMMA EditInvariant ==
    ASSUME EngineInvariant, NEW s, NEW contents, Edit(s, contents)
    PROVE  StackInvariant' /\ TablesOK'
  <1>1. UNCHANGED <<revision, changed, verified, query_dependencies,
                    query_cache, stack, out_of_date>>
    BY DEF Edit, tables, request
  <1>2. QED
    BY <1>1, TablesKept, SMTT(30)
       DEF EngineInvariant, TablesOK, StackInvariant, RequestAtBottom,
           DependenciesUsed, RanksDescend, CallsNested, Nested, ScansOK,
           ScanOK, ComputationsOK, Running, AnswerOK, Frames, top, scanned

LEMMA ExecuteInvariant ==
    ASSUME EngineInvariant, NEW q \in Query, Execute(q)
    PROVE  StackInvariant' /\ TablesOK'
  <1>1. /\ revision' = revision + 1 /\ revision \in Nat
        /\ UNCHANGED <<changed, verified, query_dependencies, query_cache>>
        /\ stack' = <<ExecuteFrame(q, NoQuery)>>
        /\ verified \in [Query -> Nat]
    BY QueryAssumption DEF Execute, tables, EngineInvariant, TypeOK
  <1>2. /\ stack'[1].pc = "lookup" /\ stack'[1].parent = NoQuery
        /\ Len(stack') = 1 /\ Frames' = {1} /\ top' = stack'[1]
    BY <1>1 DEF ExecuteFrame, Frames, top
  <1>3. \A x \in Query : verified[x] # revision'
    BY <1>1 DEF EngineInvariant, RevisionsOrdered
  <1>4. TablesOK'
    BY <1>1, <1>3
       DEF EngineInvariant, TablesOK, RevisionsOrdered, VerifiedTogether,
           Cached
  <1>5. RequestAtBottom' /\ DependenciesUsed'
    BY <1>1, <1>2 DEF RequestAtBottom, ExecutePoints, EngineInvariant,
                      StackInvariant, DependenciesUsed
  <1>6. RanksDescend' /\ CallsNested' /\ ScansOK' /\ ComputationsOK'
        /\ AnswerOK'
    BY <1>2 DEF RanksDescend, CallsNested, ScansOK, ScanOK, ComputationsOK,
                AnswerOK
  <1>7. QED
    BY <1>4, <1>5, <1>6 DEF StackInvariant

\* The innermost call returns with an answer.
LEMMA ReturnInvariant ==
    ASSUME EngineInvariant, NEW q \in Query, NEW pc, At(pc, q),
           CallsTyped', NEW answer, Return(answer), VerifyOnly(q),
           pc \in ExecutePoints => pc # "lookup" /\ verified'[q] = revision,
           pc \in CheckPoints =>
               /\ answer = "no" => verified'[q] = revision
               /\ answer = "yes" => verified'[q] # revision
    PROVE  StackInvariant'
  <1>1. /\ TypeOK /\ StackInvariant /\ stack # <<>>
        /\ top.pc = pc /\ top.query = q /\ Len(stack) \in Nat \ {0}
    BY AtFacts
  <1>2. LowerCalls /\ Len(stack') = Len(stack) - 1
    BY <1>1, CallersFacts DEF LowerCalls, Return
  <1>3. out_of_date' = answer
    BY DEF Return
  <1>4. QED
    BY <1>1, <1>2, <1>3, PopInvariant

LEMMA UseCachedInvariant ==
    ASSUME EngineInvariant, CallsTyped', NEW q \in Query, UseCached(q)
    PROVE  StackInvariant' /\ TablesOK'
  <1>1. /\ At("decide", q) /\ out_of_date = "no" /\ q \in Cached
        /\ verified' = [verified EXCEPT ![q] = revision]
        /\ Return("unknown")
        /\ UNCHANGED <<revision, changed, query_dependencies, query_cache>>
    BY DEF UseCached, ReturnResult, request
  <1>2. VerifyOnly(q) /\ verified[q] = revision /\ verified'[q] = revision
        /\ "decide" \notin CheckPoints
    BY <1>1, AtFacts DEF VerifyOnly, AnswerOK, CheckPoints
  <1>3. StackInvariant'
    BY <1>1, <1>2, ReturnInvariant
  <1>4. \A i \in DOMAIN query_dependencies[q] :
            verified[query_dependencies[q][i]] = revision
    BY <1>1, <1>2, AtFacts DEF VerifiedTogether
  <1>5. TablesOK'
    BY <1>1, <1>2, <1>4, AtFacts, VerifyTables DEF TablesOK
  <1>6. QED
    BY <1>3, <1>5

LEMMA AllVerifiedInvariant ==
    ASSUME EngineInvariant, CallsTyped', NEW q \in Query, AllVerified(q)
    PROVE  StackInvariant' /\ TablesOK'
  <1>1. /\ At("scan", q) /\ top.at > Len(query_dependencies[q])
        /\ verified' = [verified EXCEPT ![q] = revision]
        /\ Return("no")
        /\ UNCHANGED <<revision, changed, query_dependencies, query_cache>>
    BY DEF AllVerified, request
  <1>2. /\ VerifyOnly(q) /\ verified'[q] = revision
        /\ "scan" \in CheckPoints /\ "scan" \notin ExecutePoints
    BY <1>1, AtFacts DEF VerifyOnly, CheckPoints, ExecutePoints
  <1>3. StackInvariant'
    BY <1>1, <1>2, ReturnInvariant
  <1>4. /\ verified[q] # 0 /\ q \in Cached
        /\ top.at \in 1..(Len(query_dependencies[q]) + 1)
        /\ \A j \in 1..(top.at - 1) :
              verified[query_dependencies[q][j]] = revision
    BY <1>1, AtFacts DEF ScanOK, RevisionsOrdered
  <1>5. \A i \in DOMAIN query_dependencies[q] :
            verified[query_dependencies[q][i]] = revision
    <2>1. query_dependencies[q] \in Seq(Query)
      BY <1>1, AtFacts
    <2>2. Len(query_dependencies[q]) \in Nat
          /\ DOMAIN query_dependencies[q] = 1..Len(query_dependencies[q])
      BY <2>1, LenProperties
    <2>3. QED
      BY <1>1, <1>4, <2>2
  <1>6. TablesOK'
    BY <1>1, <1>2, <1>4, <1>5, AtFacts, VerifyTables DEF TablesOK
  <1>7. QED
    BY <1>3, <1>6

\* A computation returns its result.
LEMMA SettleInvariant ==
    ASSUME EngineInvariant, CallsTyped', NEW q \in Query, At("compute", q),
           NEW result, Settle(q, result), UNCHANGED revision
    PROVE  StackInvariant' /\ TablesOK'
  <1>1. /\ verified' = [verified EXCEPT ![q] = revision]
        /\ Return("unknown")
        /\ UNCHANGED query_dependencies
        /\ \/ UNCHANGED <<changed, query_cache>> /\ q \in Cached
           \/ /\ changed' = [changed EXCEPT ![q] = revision]
              /\ query_cache' = Store(q, result)
    BY DEF Settle, ReturnResult
  <1>2. VerifyOnly(q) /\ verified'[q] = revision
        /\ "compute" \notin CheckPoints
    BY <1>1, AtFacts DEF VerifyOnly, CheckPoints
  <1>3. StackInvariant'
    BY <1>1, <1>2, ReturnInvariant
  <1>4. \A i \in DOMAIN query_dependencies[q] :
            verified[query_dependencies[q][i]] = revision
    <2>1. /\ ComputationsOK /\ Len(stack) \in Nat \ {0}
          /\ stack[Len(stack)].pc = "compute"
          /\ stack[Len(stack)].query = q
      BY AtFacts
    <2>2. ~ \E j : Running(Len(stack), j)
      BY <2>1 DEF Running
    <2>3. QED
      BY <2>1, <2>2 DEF ComputationsOK, Frames
  <1>5. Cached' = Cached \cup {q}
    BY <1>1 DEF Store, Cached
  <1>6. RevisionsOrdered'
    <2>1. /\ TypeOK /\ RevisionsOrdered /\ revision \in Nat \ {0}
          /\ verified \in [Query -> Nat]
      BY AtFacts
    <2>2. changed \in [Query -> Nat]
      BY <2>1 DEF TypeOK
    <2>3. QED
      BY <1>1, <1>5, <2>1, <2>2 DEF RevisionsOrdered
  <1>7. VerifiedTogether'
    <2>1. /\ TypeOK /\ VerifiedTogether /\ verified \in [Query -> Nat]
          /\ query_dependencies \in [Query -> Seq(Query)]
      BY AtFacts
    <2>2. \A i \in DOMAIN query_dependencies[q] :
              verified'[query_dependencies[q][i]] = revision
      BY <1>1, <1>4, <2>1
    <2>3. QED
      BY <1>2, <2>1, <2>2, VerifyTogether
  <1>8. QED
    BY <1>3, <1>6, <1>7 DEF TablesOK

LEMMA ReadSourceInvariant ==
    ASSUME EngineInvariant, CallsTyped', NEW q \in Query, ReadSource(q)
    PROVE  StackInvariant' /\ TablesOK'
  <1>1. At("compute", q) /\ UNCHANGED revision
    BY DEF ReadSource, request
  <1>2. CASE Settle(q, files[q])
    BY <1>1, <1>2, SettleInvariant
  <1>3. CASE Throw /\ UNCHANGED tables
    <2>1. stack' = <<>> /\ Frames' = {}
      BY <1>3 DEF Throw, Frames
    <2>2. StackInvariant'
      BY <1>1, <1>3, <2>1, AtFacts
         DEF StackInvariant, RequestAtBottom, DependenciesUsed, RanksDescend,
             CallsNested, ScansOK, ComputationsOK, AnswerOK, tables
    <2>3. QED
      BY <1>1, <1>3, <2>2, AtFacts, TablesKept DEF TablesOK, tables
  <1>4. QED
    BY <1>2, <1>3 DEF ReadSource

LEMMA FinishInvariant ==
    ASSUME EngineInvariant, CallsTyped', NEW q \in Query, Finish(q)
    PROVE  StackInvariant' /\ TablesOK'
  BY SettleInvariant DEF Finish, request

\* Steps that change no table, and move the innermost call on.
LEMMA MoveOnInvariant ==
    ASSUME EngineInvariant, CallsTyped', NEW q \in Query, NEW pc, At(pc, q),
           pc \in CheckPoints, LowerCalls, Len(stack') = Len(stack),
           UNCHANGED <<revision, verified, query_dependencies>>,
           top'.query = q, top'.parent = top.parent, top'.pc = "scan",
           ScanOK(top)'
    PROVE  StackInvariant'
  <1>1. /\ TypeOK /\ StackInvariant /\ DependenciesUsed /\ stack # <<>>
        /\ top.pc = pc /\ top.query = q
    BY AtFacts
  <1>2. TopTables
    BY DEF TopTables
  <1>3. DependenciesUsed'
    BY <1>1 DEF DependenciesUsed
  <1>4. /\ pc # "lookup" /\ "scan" \in CheckPoints
        /\ pc \notin ExecutePoints /\ "scan" \notin ExecutePoints
    BY DEF CheckPoints, ExecutePoints
  <1>5. AnswerOK'
    BY DEF AnswerOK
  <1>6. QED
    BY <1>1, <1>2, <1>3, <1>4, <1>5, MoveInvariant

\* Having seen that its dependency is verified, the scan takes the next one.
LEMMA NextDependencyInvariant ==
    ASSUME EngineInvariant, CallsTyped', NEW q \in Query, NEW pc, At(pc, q),
           pc \in {"scan", "verify", "refresh"},
           top.at <= Len(query_dependencies[q]),
           verified[scanned(q)] = revision, NextDependency,
           UNCHANGED <<revision, verified, query_dependencies>>
    PROVE  StackInvariant'
  <1> DEFINE deps == query_dependencies[q]
             next == [top EXCEPT !.pc = "scan", !.at = top.at + 1]
  <1>1. /\ TypeOK /\ stack # <<>> /\ top \in Frame
        /\ top.pc = pc /\ top.query = q /\ ScanOK(top)
        /\ deps \in Seq(Query)
    BY AtFacts
  <1>2. LowerCalls /\ Len(stack') = Len(stack) /\ top' = next
    BY <1>1, NextDependencyFacts, TopIsFrame DEF LowerCalls, top
  <1>3. /\ next.query = q /\ next.parent = top.parent
        /\ next.pc = "scan" /\ next.at = top.at + 1
    BY <1>1 DEF Frame
  <1>4. /\ verified[q] \notin {0, revision}
        /\ top.at \in 1..Len(deps)
        /\ \A j \in 1..(top.at - 1) : verified[deps[j]] = revision
        /\ verified[deps[top.at]] = revision
        /\ Len(deps) \in Nat
    BY <1>1, LenProperties DEF ScanOK, scanned
  <1> HIDE DEF next
  <1>5. ScanOK(top)'
    <2>1. \A j \in 1..(top.at + 1 - 1) : verified[deps[j]] = revision
      BY <1>4
    <2>2. top.at + 1 \in 1..(Len(deps) + 1)
      BY <1>4
    <2>3. QED
      BY <1>2, <1>3, <1>4, <2>1, <2>2, SMTT(30) DEF ScanOK
  <1>6. pc \in CheckPoints
    BY DEF CheckPoints
  <1>7. QED
    BY <1>2, <1>3, <1>5, <1>6, MoveOnInvariant

LEMMA CheckRevisionInvariant ==
    ASSUME EngineInvariant, CallsTyped', NEW q \in Query, CheckRevision(q)
    PROVE  StackInvariant' /\ TablesOK'
  <1>1. /\ At("check", q) /\ "check" \in CheckPoints
        /\ "check" \notin ExecutePoints
        /\ UNCHANGED <<revision, changed, verified, query_dependencies,
                       query_cache>>
    BY DEF CheckRevision, request, tables, CheckPoints, ExecutePoints
  <1>2. TablesOK'
    BY <1>1, AtFacts, TablesKept DEF TablesOK
  <1>3. VerifyOnly(q)
    BY <1>1 DEF VerifyOnly
  <1>4. CASE verified[q] = revision /\ Return("no")
    BY <1>1, <1>2, <1>3, <1>4, ReturnInvariant
  <1>5. CASE verified[q] # revision /\ Return("yes")
    BY <1>1, <1>2, <1>3, <1>5, ReturnInvariant
  <1>6. CASE verified[q] \notin {0, revision} /\ stack' = GoTo("scan")
    <2> DEFINE f == [top EXCEPT !.pc = "scan"]
    <2>1. /\ TypeOK /\ stack # <<>> /\ top \in Frame /\ top.query = q
          /\ ScanOK(top) /\ top.pc = "check"
          /\ query_dependencies \in [Query -> Seq(Query)]
      BY <1>1, AtFacts
    <2>2. "scan" \in ExecutePoints \cup CheckPoints
      BY DEF CheckPoints
    <2>3. LowerCalls /\ Len(stack') = Len(stack) /\ top' = f
      BY <1>6, <2>1, <2>2, GoToFacts, TopIsFrame DEF LowerCalls, top
    <2>4. /\ f.query = q /\ f.parent = top.parent /\ f.pc = "scan"
          /\ f.at = 1
      BY <2>1 DEF Frame, ScanOK
    <2> HIDE DEF f
    <2>5. ScanOK(top)'
      <3>1. 1 \in 1..(Len(query_dependencies[q]) + 1)
        BY <2>1, LenProperties
      <3>2. QED
        BY <1>1, <1>6, <2>3, <2>4, <3>1 DEF ScanOK
    <2>6. StackInvariant'
      BY <1>1, <2>1, <2>3, <2>4, <2>5, MoveOnInvariant
    <2>7. QED
      BY <1>2, <2>6
  <1>7. QED
    BY <1>4, <1>5, <1>6 DEF CheckRevision

LEMMA RecomputeInvariant ==
    ASSUME EngineInvariant, CallsTyped', NEW q \in Query, Recompute(q)
    PROVE  StackInvariant' /\ TablesOK'
  <1> DEFINE f == [top EXCEPT !.pc = "compute"]
  <1>1. /\ At("decide", q) /\ out_of_date = "yes"
        /\ query_dependencies' = [query_dependencies EXCEPT ![q] = <<>>]
        /\ stack' = GoTo("compute")
        /\ UNCHANGED <<revision, changed, verified, query_cache>>
    BY DEF Recompute, request
  <1>2. /\ TypeOK /\ StackInvariant /\ DependenciesUsed
        /\ stack # <<>> /\ top \in Frame /\ top.query = q
        /\ top.pc = "decide"
        /\ query_dependencies \in [Query -> Seq(Query)]
        /\ verified[q] # revision
    BY <1>1, AtFacts DEF AnswerOK
  <1>3. "compute" \in ExecutePoints /\ "decide" \in ExecutePoints
        /\ "compute" \notin CheckPoints /\ "decide" \notin CheckPoints
    BY DEF CheckPoints, ExecutePoints
  <1>4. LowerCalls /\ Len(stack') = Len(stack) /\ top' = f
    BY <1>1, <1>2, <1>3, GoToFacts, TopIsFrame DEF LowerCalls, top
  <1>5. f.query = q /\ f.parent = top.parent /\ f.pc = "compute"
    BY <1>2 DEF Frame
  <1> HIDE DEF f
  <1>6. TopTables /\ query_dependencies'[q] = <<>>
    BY <1>1, <1>2 DEF TopTables
  <1>7. DependenciesUsed'
    BY <1>1, <1>2 DEF DependenciesUsed
  <1>8. ScanOK(top)' /\ AnswerOK'
    BY <1>4, <1>5 DEF ScanOK, AnswerOK
  <1>9. StackInvariant'
    BY <1>1, <1>2, <1>3, <1>4, <1>5, <1>6, <1>7, <1>8, MoveInvariant
  <1>10. TablesOK'
    BY <1>1, <1>2, <1>6, AtFacts, DependenciesOfUnverified
       DEF TablesOK, TopTables
  <1>11. QED
    BY <1>9, <1>10

LEMMA TrustDependencyInvariant ==
    ASSUME EngineInvariant, CallsTyped', NEW q \in Query, TrustDependency(q)
    PROVE  StackInvariant' /\ TablesOK'
  <1>1. PICK pc \in {"verify", "refresh"} :
            /\ At(pc, q)
            /\ pc = "verify" => out_of_date = "no"
    BY DEF TrustDependency
  <1>2. /\ pc \in CheckPoints /\ pc \notin ExecutePoints
        /\ UNCHANGED <<revision, changed, verified, query_dependencies,
                       query_cache>>
    BY DEF TrustDependency, request, tables, CheckPoints, ExecutePoints
  <1>3. TablesOK'
    BY <1>1, <1>2, AtFacts, TablesKept DEF TablesOK
  <1>4. /\ verified[q] # revision
        /\ top.at <= Len(query_dependencies[q])
        /\ verified[scanned(q)] = revision
    <2>1. /\ ScanOK(top) /\ AnswerOK /\ stack # <<>>
          /\ top.pc = pc /\ top.query = q
      BY <1>1, AtFacts
    <2>2. /\ verified[q] # revision
          /\ top.at <= Len(query_dependencies[q])
      BY <2>1 DEF ScanOK
    <2>3. verified[scanned(q)] = revision
      BY <1>1, <2>1 DEF AnswerOK
    <2>4. QED
      BY <2>2, <2>3
  <1>5. CASE Return("yes")
    BY <1>1, <1>2, <1>3, <1>4, <1>5, ReturnInvariant DEF VerifyOnly
  <1>6. CASE NextDependency
    BY <1>1, <1>2, <1>3, <1>4, <1>6, NextDependencyInvariant
  <1>7. QED
    BY <1>5, <1>6 DEF TrustDependency

\* A call made without recording anything: of a dependency, or by a
\* computation.
LEMMA CallInvariant ==
    ASSUME EngineInvariant, CallsTyped', NEW q \in Query, NEW pc, At(pc, q),
           NEW caller, Push(caller),
           UNCHANGED <<revision, verified, query_dependencies>>,
           caller.pc = "compute" => top.pc = "compute",
           Nested(stack[Len(stack) - 1], stack[Len(stack)])',
           Rank[top'.query] <= Rank[q],
           caller.pc # "decide" => Rank[top'.query] < Rank[q],
           ScanOK(stack[Len(stack) - 1])',
           top'.pc \in {"lookup", "check"}, top'.pc = "check" => top'.at = 1
    PROVE  StackInvariant'
  <1>1. /\ TypeOK /\ StackInvariant /\ DependenciesUsed /\ RanksDescend
        /\ ComputationsOK /\ stack # <<>> /\ top.query = q
    BY AtFacts
  <1>2. LowerTables /\ DependenciesUsed'
    BY <1>1 DEF LowerTables, DependenciesUsed
  <1>3. ComputationsOK'
    BY <1>1, PushComputations
  <1>4. QED
    BY <1>1, <1>2, <1>3, PushInvariant

LEMMA RunQueryInvariant ==
    ASSUME EngineInvariant, CallsTyped', NEW q \in Query, RunQuery(q)
    PROVE  StackInvariant' /\ TablesOK'
  <1>1. PICK d \in Uses[q] : stack' = Append(stack, ExecuteFrame(d, q))
    BY DEF RunQuery
  <1>2. /\ At("compute", q)
        /\ UNCHANGED <<revision, changed, verified, query_dependencies,
                       query_cache>>
    BY DEF RunQuery, request, tables
  <1>3. TablesOK'
    BY <1>2, AtFacts, TablesKept DEF TablesOK
  <1>4. /\ stack # <<>> /\ stack \in Seq(Frame) /\ top \in Frame
        /\ Len(stack) \in Nat \ {0} /\ top = stack[Len(stack)]
        /\ top.pc = "compute" /\ top.query = q
    BY <1>2, AtFacts
  <1>5. /\ d \in Query /\ ExecuteFrame(d, q) \in Frame
        /\ Rank[d] < Rank[q] /\ Rank[d] \in Nat /\ Rank[q] \in Nat
    BY FrameTypes, QueryAssumption
  <1> DEFINE g == ExecuteFrame(d, q)
  <1>6. g.pc = "lookup" /\ g.query = d /\ g.parent = q
    BY DEF ExecuteFrame
  <1> HIDE DEF g
  <1>7. /\ stack' \in Seq(Frame) /\ Len(stack') = Len(stack) + 1
        /\ \A i \in 1..Len(stack) : stack'[i] = stack[i]
        /\ top' = g
    <2>1. stack' = Append(stack, g) /\ g \in Frame
      BY <1>1, <1>5 DEF g
    <2>2. QED
      BY <1>4, <2>1, PushedSeq DEF top
  <1>8. Push(top) /\ LowerCalls
    BY <1>4, <1>7 DEF Push, LowerCalls
  <1>9. Nested(stack[Len(stack) - 1], stack[Len(stack)])'
    BY <1>4, <1>6, <1>7 DEF Nested, ExecutePoints, top
  <1>10. ScanOK(stack[Len(stack) - 1])'
    BY <1>4, <1>7 DEF ScanOK
  <1>11. StackInvariant'
    BY <1>2, <1>4, <1>5, <1>6, <1>7, <1>8, <1>9, <1>10, CallInvariant
  <1>12. QED
    BY <1>3, <1>11

\* A scan that asks about the dependency it is looking at.
LEMMA AskInvariant ==
    ASSUME EngineInvariant, CallsTyped', NEW q \in Query, NEW pc, At(pc, q),
           pc \in {"scan", "verify"}, NEW next \in {"verify", "refresh"},
           top.at <= Len(query_dependencies[q]),
           UNCHANGED <<revision, verified, query_dependencies>>,
           NEW g \in Frame, stack' = Invoke(next, g),
           g.query = scanned(q), g.parent = NoQuery,
           \/ next = "verify" /\ g.pc = "check" /\ g.at = 1
           \/ next = "refresh" /\ g.pc = "lookup"
    PROVE  StackInvariant'
  <1> DEFINE f == [top EXCEPT !.pc = next]
  <1>1. /\ TypeOK /\ DependenciesUsed /\ ScansOK
        /\ stack # <<>> /\ top \in Frame
        /\ Len(stack) \in Nat \ {0} /\ top.pc = pc /\ top.query = q
        /\ ScanOK(top) /\ query_dependencies[q] \in Seq(Query)
    BY AtFacts
  <1>2. /\ top.at \in DOMAIN query_dependencies[q]
        /\ scanned(q) = query_dependencies[q][top.at]
        /\ scanned(q) \in Uses[q]
    BY <1>1, ScannedFacts DEF DependenciesUsed
  <1>3. Rank[g.query] < Rank[q] /\ Rank[g.query] \in Nat /\ Rank[q] \in Nat
    BY <1>2, QueryAssumption
  <1>4. /\ next \in CheckPoints /\ next \notin ExecutePoints
        /\ pc \in CheckPoints /\ pc \notin ExecutePoints
    BY DEF CheckPoints, ExecutePoints
  <1>5. /\ f.query = q /\ f.parent = top.parent /\ f.pc = next
        /\ f.at = top.at
    BY <1>1 DEF Frame
  <1>6. /\ stack' \in Seq(Frame) /\ Len(stack') = Len(stack) + 1
        /\ \A i \in 1..(Len(stack) - 1) : stack'[i] = stack[i]
        /\ stack'[Len(stack)] = f /\ top' = g
    <2> DEFINE after == Invoke(next, g)
    <2>1. /\ after \in Seq(Frame) /\ Len(after) = Len(stack) + 1
          /\ \A i \in 1..(Len(stack) - 1) : after[i] = stack[i]
          /\ after[Len(stack)] = f
          /\ after[Len(stack) + 1] = g
      <3>1. next \in ExecutePoints \cup CheckPoints
        BY <1>4
      <3>2. QED
        BY <1>1, <3>1, InvokeFacts
    <2>2. stack' = after
      OBVIOUS
    <2> HIDE DEF after, f
    <2>3. QED
      BY <2>1, <2>2 DEF top
  <1> HIDE DEF f
  <1>7. Push(f) /\ LowerCalls
    BY <1>1, <1>4, <1>5, <1>6 DEF Push, LowerCalls
  <1>8. Nested(stack[Len(stack) - 1], stack[Len(stack)])'
    BY <1>1, <1>2, <1>5, <1>6
       DEF Nested, ExecutePoints, CheckPoints, top
  <1>9. ScanOK(stack[Len(stack) - 1])'
    <2>1. /\ stack'[Len(stack') - 1] = f
          /\ query_dependencies' = query_dependencies
          /\ verified' = verified /\ revision' = revision
      BY <1>1, <1>6
    <2>2. /\ verified[q] \notin {0, revision}
          /\ top.at \in 1..(Len(query_dependencies[q]) + 1)
          /\ \A j \in 1..(top.at - 1) :
                verified[query_dependencies[q][j]] = revision
      BY <1>1 DEF ScanOK
    <2>3. QED
      BY <1>5, <2>1, <2>2 DEF ScanOK
  <1>10. QED
    BY <1>1, <1>3, <1>5, <1>6, <1>7, <1>8, <1>9, CallInvariant

LEMMA ScanDependencyInvariant ==
    ASSUME EngineInvariant, CallsTyped', NEW q \in Query, ScanDependency(q)
    PROVE  StackInvariant' /\ TablesOK'
  <1>1. /\ At("scan", q) /\ "scan" \in CheckPoints
        /\ "scan" \notin ExecutePoints
        /\ top.at <= Len(query_dependencies[q])
        /\ UNCHANGED <<revision, changed, verified, query_dependencies,
                       query_cache>>
    BY DEF ScanDependency, request, tables, CheckPoints, ExecutePoints
  <1>2. TablesOK'
    BY <1>1, AtFacts, TablesKept DEF TablesOK
  <1>3. CASE Return("yes")
    <2>1. verified[q] # revision
      BY <1>1, AtFacts DEF ScanOK
    <2>2. QED
      BY <1>1, <1>2, <1>3, <2>1, ReturnInvariant DEF VerifyOnly
  <1>4. CASE verified[scanned(q)] = revision /\ NextDependency
    BY <1>1, <1>2, <1>4, NextDependencyInvariant
  <1>5. CASE stack' = Invoke("verify", CheckFrame(scanned(q)))
    <2> DEFINE g == CheckFrame(scanned(q))
    <2>1. scanned(q) \in Query
      BY <1>1, AtFacts, ScannedFacts
    <2>2. /\ g \in Frame /\ g.query = scanned(q) /\ g.parent = NoQuery
          /\ g.pc = "check" /\ g.at = 1
      BY <2>1, FrameTypes, QueryAssumption DEF CheckFrame
    <2> HIDE DEF g
    <2>3. stack' = Invoke("verify", g)
      BY <1>5 DEF g
    <2>4. StackInvariant'
      BY <1>1, <2>2, <2>3, AskInvariant
    <2>5. QED
      BY <1>2, <2>4
  <1>6. QED
    BY <1>3, <1>4, <1>5 DEF ScanDependency

LEMMA RefreshDependencyInvariant ==
    ASSUME EngineInvariant, CallsTyped', NEW q \in Query, RefreshDependency(q)
    PROVE  StackInvariant' /\ TablesOK'
  <1> DEFINE g == ExecuteFrame(scanned(q), NoQuery)
  <1>1. /\ At("verify", q)
        /\ stack' = Invoke("refresh", g)
        /\ UNCHANGED <<revision, changed, verified, query_dependencies,
                       query_cache>>
    BY DEF RefreshDependency, request, tables
  <1>2. TablesOK'
    BY <1>1, AtFacts, TablesKept DEF TablesOK
  <1>3. top.at <= Len(query_dependencies[q])
    BY <1>1, AtFacts DEF ScanOK
  <1>4. scanned(q) \in Query
    BY <1>1, <1>3, AtFacts, ScannedFacts
  <1>5. /\ g \in Frame /\ g.query = scanned(q) /\ g.parent = NoQuery
        /\ g.pc = "lookup"
    BY <1>4, FrameTypes DEF ExecuteFrame
  <1> HIDE DEF g
  <1>6. StackInvariant'
    BY <1>1, <1>3, <1>5, AskInvariant
  <1>7. QED
    BY <1>2, <1>6

\* A query run by a computation is recorded in the frame below.
LEMMA RecordingCaller ==
    ASSUME EngineInvariant, NEW q \in Query, At("lookup", q),
           top.parent # NoQuery
    PROVE  LET n == Len(stack)
           IN  /\ n - 1 \in 1..(n - 1)
               /\ stack[n - 1].pc = "compute"
               /\ stack[n - 1].query = top.parent
               /\ top.parent \in Query
               /\ q \in Uses[top.parent]
               /\ verified[top.parent] # revision
               /\ \A i \in 1..(n - 2) :
                     stack[i].pc # "decide" => stack[i].query # top.parent
  <1> DEFINE n == Len(stack)
             p == top.parent
  <1>1. /\ RequestAtBottom /\ CallsNested /\ ComputationsOK /\ RanksDescend
        /\ TypeOK /\ stack # <<>> /\ n \in Nat \ {0} /\ top = stack[n]
        /\ top \in Frame /\ top.pc = "lookup" /\ top.query = q
    BY AtFacts
  <1>2. n # 1
    BY <1>1 DEF RequestAtBottom
  <1>3. n - 1 \in 1..(n - 1) /\ n - 1 \in Frames /\ n \in Frames /\ n > 1
    <2>1. Frames = 1..n /\ n \in Nat \ {0} /\ n # 1
      BY <1>1, <1>2 DEF Frames
    <2> HIDE DEF n
    <2>2. QED
      BY <2>1
  <1>4. Nested(stack[n - 1], top)
    BY <1>1, <1>3 DEF CallsNested
  <1>5. /\ stack[n - 1].pc = "compute" /\ stack[n - 1].query = p
        /\ q \in Uses[p]
    BY <1>1, <1>4 DEF Nested, CheckPoints
  <1>6. p \in Query
    BY <1>1 DEF Frame
  <1>7. verified[p] # revision
    BY <1>3, <1>5 , <1>1 DEF ComputationsOK
  <1>8. ASSUME NEW i \in 1..(n - 2), stack[i].pc # "decide"
        PROVE  stack[i].query # p
    <2>1. i \in Frames /\ i < n - 1
      BY <1>1, <1>3 DEF Frames
    <2>2. Rank[stack[n - 1].query] < Rank[stack[i].query]
      BY <1>1, <1>3, <1>8, <2>1 DEF RanksDescend
    <2>3. Rank[p] \in Nat
      BY <1>6, QueryAssumption
    <2>4. QED
      BY <1>5, <2>2, <2>3
  <1>9. QED
    BY <1>3, <1>5, <1>6, <1>7, <1>8

LEMMA LookupInvariant ==
    ASSUME EngineInvariant, CallsTyped', NEW q \in Query, Lookup(q)
    PROVE  StackInvariant' /\ TablesOK'
  <1> DEFINE n == Len(stack)
             f == [top EXCEPT !.pc = "decide"]
             g == CheckFrame(q)
             p == top.parent
  <1>1. /\ At("lookup", q)
        /\ stack' = Invoke("decide", g)
        /\ query_dependencies' =
              IF p = NoQuery THEN query_dependencies
              ELSE [query_dependencies EXCEPT ![p] = Append(@, q)]
        /\ UNCHANGED <<revision, changed, verified, query_cache>>
    BY DEF Lookup, request
  <1>2. /\ TypeOK /\ StackInvariant /\ DependenciesUsed /\ TablesOK
        /\ ComputationsOK
        /\ stack # <<>> /\ top \in Frame /\ n \in Nat \ {0}
        /\ top = stack[n] /\ top.pc = "lookup" /\ top.query = q
        /\ query_dependencies \in [Query -> Seq(Query)]
    BY <1>1, AtFacts DEF TablesOK
  <1>3. /\ "decide" \in ExecutePoints /\ "decide" \notin CheckPoints
        /\ "lookup" \in ExecutePoints /\ "lookup" \notin CheckPoints
        /\ "check" \in CheckPoints
    BY DEF CheckPoints, ExecutePoints
  <1>4. /\ g \in Frame /\ g.query = q /\ g.parent = NoQuery
        /\ g.pc = "check" /\ g.at = 1
    BY FrameTypes, QueryAssumption DEF CheckFrame
  <1>5. f.query = q /\ f.parent = p /\ f.pc = "decide"
    BY <1>2 DEF Frame
  <1>6. /\ stack' \in Seq(Frame) /\ Len(stack') = n + 1
        /\ \A i \in 1..(n - 1) : stack'[i] = stack[i]
        /\ stack'[n] = f /\ top' = g
    <2> DEFINE after == Invoke("decide", g)
    <2> HIDE DEF g, f
    <2>1. /\ after \in Seq(Frame) /\ Len(after) = n + 1
          /\ \A i \in 1..(n - 1) : after[i] = stack[i]
          /\ after[n] = f
          /\ after[n + 1] = g
      BY <1>2, <1>3, <1>4, InvokeFacts DEF f
    <2>2. stack' = after
      BY <1>1
    <2> HIDE DEF after
    <2>3. QED
      BY <2>1, <2>2 DEF top
  <1> HIDE DEF f, g
  <1>7. Push(f) /\ LowerCalls
    <2>1. LowerCalls
      BY <1>2, <1>6 DEF LowerCalls
    <2>2. /\ f.pc \in ExecutePoints <=> top.pc \in ExecutePoints
          /\ f.pc \in CheckPoints <=> top.pc \in CheckPoints
          /\ f.pc # "lookup"
      BY <1>2, <1>3, <1>5
    <2>3. QED
      BY <1>2, <1>5, <1>6, <2>1, <2>2 DEF Push
  <1>8. Nested(stack[Len(stack) - 1], stack[Len(stack)])'
    BY <1>2, <1>3, <1>4, <1>5, <1>6 DEF Nested, top
  <1>9. ScanOK(stack[Len(stack) - 1])'
    BY <1>2, <1>5, <1>6 DEF ScanOK
  <1>10. Rank[top'.query] <= Rank[q]
    <2>1. Rank[q] \in Nat
      BY QueryAssumption
    <2>2. QED
      BY <1>4, <1>6, <2>1
  <1>11. CASE p = NoQuery
    <2>1. UNCHANGED query_dependencies
      BY <1>1, <1>11
    <2>2. StackInvariant'
      BY <1>1, <1>2, <1>4, <1>5, <1>6, <1>7, <1>8, <1>9, <1>10, <2>1,
         CallInvariant
    <2>3. QED
      BY <1>1, <1>2, <2>1, <2>2, TablesKept
  <1>12. CASE p # NoQuery
    <2>1. /\ n - 1 \in 1..(n - 1) /\ p \in Query
          /\ stack[n - 1].pc = "compute" /\ stack[n - 1].query = p
          /\ q \in Uses[p] /\ verified[p] # revision
          /\ \A i \in 1..(n - 2) :
                stack[i].pc # "decide" => stack[i].query # p
      BY <1>1, <1>12, RecordingCaller
    <2> DEFINE deps == query_dependencies[p]
    <2>2. /\ query_dependencies' \in [Query -> Seq(Query)]
          /\ query_dependencies'[p] = Append(deps, q)
          /\ \A x \in Query : x # p =>
                query_dependencies'[x] = query_dependencies[x]
          /\ deps \in Seq(Query)
      BY <1>1, <1>2, <1>12, <2>1
    <2>3. /\ Len(deps) \in Nat
          /\ DOMAIN query_dependencies'[p] = 1..(Len(deps) + 1)
          /\ DOMAIN deps = 1..Len(deps)
          /\ Len(query_dependencies'[p]) = Len(deps) + 1
          /\ \A j \in 1..Len(deps) : query_dependencies'[p][j] = deps[j]
          /\ query_dependencies'[p][Len(deps) + 1] = q
      BY <2>2
    <2>4. TablesOK'
      BY <1>1, <1>2, <2>1, <2>2, DependenciesOfUnverified
    <2>5. DependenciesUsed'
      <3> SUFFICES ASSUME NEW x \in Query,
                          NEW i \in DOMAIN query_dependencies'[x]
                   PROVE  query_dependencies'[x][i] \in Uses[x]
        BY DEF DependenciesUsed
      <3>1. CASE x # p
        BY <1>2, <2>2, <3>1 DEF DependenciesUsed
      <3>2. CASE x = p
        <4>1. \A j \in 1..Len(deps) : deps[j] \in Uses[p]
          BY <1>2, <2>1, <2>3 DEF DependenciesUsed
        <4>2. i \in 1..Len(deps) \/ i = Len(deps) + 1
          BY <2>3, <3>2
        <4> HIDE DEF deps
        <4>3. QED
          BY <2>1, <2>3, <3>2, <4>1, <4>2
      <3>3. QED
        BY <3>1, <3>2
    <2>6. LowerTables
      <3> SUFFICES ASSUME NEW i \in 1..(n - 1), stack[i].pc \in CheckPoints
                   PROVE  query_dependencies'[stack[i].query] =
                             query_dependencies[stack[i].query]
        BY <1>1 DEF LowerTables
      <3>1. i # n - 1 /\ stack[i].pc # "decide" /\ stack[i] \in Frame
        BY <1>2, <2>1, TopIsFrame DEF CheckPoints
      <3>2. i \in 1..(n - 2)
        BY <1>2, <3>1
      <3>3. stack[i].query # p /\ stack[i].query \in Query
        BY <2>1, <3>1, <3>2 DEF Frame
      <3>4. QED
        BY <2>2, <3>3
    <2>7. ComputationsOK'
      <3> SUFFICES ASSUME NEW i \in Frames', stack'[i].pc = "compute"
                   PROVE  /\ verified[stack'[i].query] # revision
                          /\ \A j \in DOMAIN query_dependencies'[stack'[i].query] :
                                \/ verified[query_dependencies'[stack'[i].query][j]]
                                         = revision
                                \/ Running(i, j)'
        BY <1>1 DEF ComputationsOK
      <3>1. i \in 1..(n - 1) /\ stack'[i] = stack[i] /\ stack[i].pc = "compute"
        <4>1. i \in 1..(n + 1) /\ stack'[n + 1].pc = "check"
              /\ stack'[n].pc = "decide"
          BY <1>4, <1>5, <1>6 DEF Frames, top
        <4>2. i # n + 1 /\ i # n
          BY <4>1
        <4>3. i \in 1..(n - 1)
          <5>1. n \in Nat
            BY <1>2
          <5> HIDE DEF n
          <5>2. QED
            BY <4>1, <4>2, <5>1
        <4>4. QED
          BY <1>6, <4>3
      <3>2. /\ verified[stack[i].query] # revision
            /\ \A j \in DOMAIN query_dependencies[stack[i].query] :
                  \/ verified[query_dependencies[stack[i].query][j]] = revision
                  \/ Running(i, j)
        BY <1>2, <3>1 DEF ComputationsOK, Frames
      <3>3. CASE i = n - 1
        <4>1. ~ \E j : Running(i, j)
          BY <1>2, <3>3 DEF Running
        <4>2. stack[i].query = p
          BY <2>1, <3>3
        <4>3. \A j \in 1..Len(deps) : verified[deps[j]] = revision
          BY <2>3, <3>2, <4>1, <4>2
        <4>4. ASSUME NEW j, j = Len(deps) + 1
              PROVE  Running(i, j)'
          <5>1. i + 1 = n /\ i < n + 1
            BY <1>2, <3>3
          <5>2. stack'[i + 1] = f /\ i < Len(stack')
            BY <1>6, <5>1
          <5>3. stack'[i].query = p
            BY <3>1, <4>2
          <5> HIDE DEF n, deps, p
          <5>4. QED
            BY <1>5, <2>3, <4>4, <5>2, <5>3 DEF Running
        <4>5. ASSUME NEW j \in DOMAIN query_dependencies'[p]
              PROVE  \/ verified[query_dependencies'[p][j]] = revision
                     \/ Running(i, j)'
          <5>1. j \in 1..Len(deps) \/ j = Len(deps) + 1
            BY <2>3
          <5>2. CASE j \in 1..Len(deps)
            BY <2>3, <4>3, <5>2
          <5>3. CASE j = Len(deps) + 1
            BY <4>4, <5>3
          <5>4. QED
            BY <5>1, <5>2, <5>3
        <4>6. QED
          BY <2>1, <3>1, <4>2, <4>5
      <3>4. CASE i # n - 1
        <4>1. i \in 1..(n - 2)
          BY <1>2, <3>1, <3>4
        <4>2. stack[i].query # p /\ stack[i].query \in Query
          <5>1. stack[i] \in Frame
            BY <1>2, <3>1, TopIsFrame
          <5>2. QED
            BY <2>1, <3>1, <4>1, <5>1 DEF Frame
        <4>3. query_dependencies'[stack[i].query] =
                 query_dependencies[stack[i].query]
          BY <2>2, <4>2
        <4>4. stack'[i + 1] = stack[i + 1] /\ i < Len(stack')
          <5>1. i + 1 \in 1..(n - 1) /\ i < n + 1
            BY <1>2, <4>1
          <5>2. QED
            BY <1>6, <5>1
        <4>5. ASSUME NEW j, Running(i, j)
              PROVE  Running(i, j)'
          BY <3>1, <4>3, <4>4, <4>5 DEF Running
        <4>6. QED
          BY <3>1, <3>2, <4>3, <4>5
      <3>5. QED
        BY <3>3, <3>4
    <2>8. StackInvariant'
      BY <1>1, <1>2, <1>4, <1>5, <1>6, <1>7, <1>8, <1>9, <1>10,
         <2>5, <2>6, <2>7, PushInvariant
    <2>9. QED
      BY <2>4, <2>8
  <1>13. QED
    BY <1>11, <1>12

-----------------------------------------------------------------------------
(* The theorems. *)

LEMMA InitInvariant == Init => EngineInvariant
  <1> SUFFICES ASSUME Init PROVE EngineInvariant
    OBVIOUS
  <1>1. stack = <<>> /\ Len(stack) = 0 /\ Frames = {} /\ revision = 0
        /\ Cached = {}
    BY DEF Init, Frames, Cached
  <1>2. /\ changed = [q \in Query |-> 0] /\ verified = [q \in Query |-> 0]
        /\ query_dependencies = [q \in Query |-> <<>>]
    BY DEF Init
  <1>3. /\ changed \in [Query -> Nat] /\ verified \in [Query -> Nat]
        /\ query_dependencies \in [Query -> Seq(Query)]
        /\ \A q \in Query : DOMAIN query_dependencies[q] = {}
    BY <1>2
  <1>4. TypeOK
    <2>1. stack \in Seq(Frame)
      BY <1>1
    <2>2. query_cache = [q \in Cached |-> query_cache[q]]
          /\ DOMAIN seen \subseteq Source
      BY <1>1 DEF Init
    <2>3. edits \in 0..MaxEdits /\ revision \in 0..MaxRevision
      BY QueryAssumption DEF Init
    <2>4. QED
      BY <1>1, <1>3, <2>1, <2>2, <2>3 DEF Init, TypeOK
  <1>5. RevisionsOrdered /\ VerifiedTogether
    BY <1>1, <1>2 DEF RevisionsOrdered, VerifiedTogether
  <1>6. StackInvariant
    BY <1>1, <1>3 DEF StackInvariant, RequestAtBottom, DependenciesUsed,
        RanksDescend, CallsNested, ScansOK, ComputationsOK, AnswerOK
  <1>7. QED
    BY <1>4, <1>5, <1>6 DEF EngineInvariant

LEMMA NextInvariant == EngineInvariant /\ [Next]_vars => EngineInvariant'
  <1> SUFFICES ASSUME EngineInvariant, [Next]_vars
               PROVE  EngineInvariant'
    OBVIOUS
  <1>1. TypeOK /\ StackInvariant /\ TablesOK
    BY DEF EngineInvariant, TablesOK
  <1>2. TypeOK' /\ CallsTyped'
    <2>1. TypeOK' /\ RequestAtBottom'
      BY <1>1, NextTypes
    <2>2. QED
      BY <2>1 DEF CallsTyped, TypeOK
  <1>3. StackInvariant' /\ TablesOK'
    <2>1. CASE UNCHANGED vars
      BY <1>1, <2>1, TablesKept, SMTT(30)
         DEF vars, StackInvariant, RequestAtBottom, DependenciesUsed,
             RanksDescend, CallsNested, Nested, ScansOK, ScanOK,
             ComputationsOK, Running, AnswerOK, Frames, top, scanned
    <2>2. CASE UserStep
      BY <2>2, EditInvariant, ExecuteInvariant, QueryAssumption DEF UserStep
    <2>3. CASE EngineStep
      <3>1. PICK q \in Query :
                \/ Lookup(q) \/ UseCached(q) \/ Recompute(q)
                \/ ReadSource(q) \/ RunQuery(q) \/ Finish(q)
                \/ CheckRevision(q) \/ ScanDependency(q)
                \/ RefreshDependency(q) \/ TrustDependency(q)
                \/ AllVerified(q)
        BY <2>3, Zenon DEF EngineStep
      <3>2. QED
        BY <1>2, <3>1, LookupInvariant, UseCachedInvariant,
           RecomputeInvariant, ReadSourceInvariant, RunQueryInvariant,
           FinishInvariant, CheckRevisionInvariant, ScanDependencyInvariant,
           RefreshDependencyInvariant, TrustDependencyInvariant,
           AllVerifiedInvariant
    <2>4. QED
      BY <2>1, <2>2, <2>3 DEF Next
  <1>4. QED
    BY <1>2, <1>3 DEF EngineInvariant, TablesOK

\* The engine's tables and its call stack keep their invariant through every
\* operation, edit and exception.
THEOREM EngineKeepsInvariant == Spec => []EngineInvariant
  BY InitInvariant, NextInvariant, PTL DEF Spec

\* The variables have their types.
THEOREM TypeCorrect == Spec => []TypeOK
  <1>1. EngineInvariant => TypeOK
    BY DEF EngineInvariant
  <1>2. QED
    BY <1>1, EngineKeepsInvariant, PTL

\* Changed never passes verified, nor verified the revision, and a query that
\* was verified has a cached result: execute's sanity check never fails.
THEOREM RevisionsStayOrdered == Spec => []RevisionsOrdered
  <1>1. EngineInvariant => RevisionsOrdered
    BY DEF EngineInvariant
  <1>2. QED
    BY <1>1, EngineKeepsInvariant, PTL

\* A query is verified at a revision only with everything it ran.
THEOREM DependenciesVerifiedTogether == Spec => []VerifiedTogether
  <1>1. EngineInvariant => VerifiedTogether
    BY DEF EngineInvariant
  <1>2. QED
    BY <1>1, EngineKeepsInvariant, PTL

\* The activations on the call stack do not get in each other's way.
THEOREM StackStaysConsistent == Spec => []StackInvariant
  <1>1. EngineInvariant => StackInvariant
    BY DEF EngineInvariant
  <1>2. QED
    BY <1>1, EngineKeepsInvariant, PTL

\* Only the query of the innermost call, or the one whose computation made
\* that call, is touched, and neither is verified then.
LEMMA StepLeavesVerified ==
    ASSUME EngineInvariant, [Next]_vars, NEW q \in Query
    PROVE  LeavesVerified(q)
  <1> SUFFICES ASSUME verified[q] = revision, revision # 0,
                      revision' = revision
               PROVE  /\ verified'[q] = revision
                      /\ changed'[q] = changed[q]
                      /\ query_dependencies'[q] = query_dependencies[q]
                      /\ q \in Cached /\ query_cache'[q] = query_cache[q]
    BY DEF LeavesVerified
  <1> USE DEF tables, request
  <1>1. /\ TypeOK /\ q \in Cached /\ revision \in Nat
        /\ changed \in [Query -> Nat] /\ verified \in [Query -> Nat]
        /\ query_dependencies \in [Query -> Seq(Query)]
    BY QueryAssumption DEF EngineInvariant, RevisionsOrdered, TypeOK
  <1>2. CASE UNCHANGED <<changed, verified, query_dependencies, query_cache>>
    BY <1>1, <1>2
  <1>3. ASSUME NEW x \in Query, Lookup(x)
        PROVE  query_dependencies'[q] = query_dependencies[q]
    <2>1. At("lookup", x)
      BY <1>3 DEF Lookup
    <2>2. CASE top.parent = NoQuery
      BY <1>3, <2>2 DEF Lookup
    <2>3. CASE top.parent # NoQuery
      <3>1. top.parent # q
        BY <2>1, <2>3, RecordingCaller
      <3>2. QED
        BY <1>1, <1>3, <3>1 DEF Lookup
    <2>4. QED
      BY <2>2, <2>3
  <1>4. ASSUME NEW x \in Query, UseCached(x) \/ AllVerified(x)
        PROVE  verified'[q] = revision
    BY <1>1, <1>4 DEF UseCached, AllVerified
  <1>5. ASSUME NEW x \in Query, Recompute(x)
        PROVE  query_dependencies'[q] = query_dependencies[q]
    <2>1. At("decide", x) /\ out_of_date = "yes"
      BY <1>5 DEF Recompute
    <2>2. verified[x] # revision
      BY <2>1, AtFacts DEF AnswerOK
    <2>3. QED
      BY <1>1, <1>5, <2>2 DEF Recompute
  <1>6. ASSUME NEW x \in Query, NEW result, At("compute", x),
               Settle(x, result)
        PROVE  /\ verified'[q] = revision
               /\ changed'[q] = changed[q]
               /\ query_dependencies'[q] = query_dependencies[q]
               /\ query_cache'[q] = query_cache[q]
    <2>1. verified[x] # revision
      <3>1. /\ ComputationsOK /\ Len(stack) \in Nat \ {0}
            /\ stack[Len(stack)].pc = "compute"
            /\ stack[Len(stack)].query = x
        BY <1>6, AtFacts
      <3>2. QED
        BY <3>1 DEF ComputationsOK, Frames
    <2>2. q # x
      BY <2>1
    <2>3. QED
      BY <1>1, <1>6, <2>2 DEF Settle, Store
  <1>7. CASE UserStep
    BY <1>1, <1>2, <1>7 DEF UserStep, Edit, Execute
  <1>8. CASE EngineStep
    <2>1. PICK x \in Query :
              \/ Lookup(x) \/ UseCached(x) \/ Recompute(x)
              \/ ReadSource(x) \/ RunQuery(x) \/ Finish(x)
              \/ CheckRevision(x) \/ ScanDependency(x)
              \/ RefreshDependency(x) \/ TrustDependency(x)
              \/ AllVerified(x)
      BY <1>8, Zenon DEF EngineStep
    <2>2. CASE Lookup(x)
      BY <1>1, <1>3, <2>2 DEF Lookup
    <2>3. CASE UseCached(x) \/ AllVerified(x)
      BY <1>1, <1>4, <2>3 DEF UseCached, AllVerified
    <2>4. CASE Recompute(x)
      BY <1>1, <1>5, <2>4 DEF Recompute
    <2>5. CASE ReadSource(x)
      BY <1>1, <1>2, <1>6, <2>5 DEF ReadSource
    <2>6. CASE Finish(x)
      BY <1>1, <1>6, <2>6 DEF Finish
    <2>7. CASE \/ RunQuery(x) \/ CheckRevision(x) \/ ScanDependency(x)
               \/ RefreshDependency(x) \/ TrustDependency(x)
      BY <1>2, <2>7 DEF RunQuery, CheckRevision, ScanDependency,
                        RefreshDependency, TrustDependency
    <2>8. QED
      BY <2>1, <2>2, <2>3, <2>4, <2>5, <2>6, <2>7
  <1>9. QED
    BY <1>2, <1>7, <1>8 DEF Next, vars

\* A reference that run_query has handed out stays good for the request.
THEOREM ReferencesStayStable == Spec => ReferencesStable
  <1>1. EngineInvariant /\ [Next]_vars =>
            [\A q \in Query : LeavesVerified(q)]_vars
    BY StepLeavesVerified
  <1>2. QED
    BY <1>1, EngineKeepsInvariant, PTL DEF Spec, ReferencesStable

-----------------------------------------------------------------------------
(* What a computation has read. *)

LEMMA SameValues ==
    ASSUME NEW c, NEW d, NEW list, NEW n,
           \A i \in 1..n : c[list[i]] = d[list[i]]
    PROVE  Values(c, list, n) = Values(d, list, n)
  BY DEF Values

LEMMA SameQueries ==
    ASSUME NEW c, NEW list, NEW other, NEW n,
           \A i \in 1..n : list[i] = other[i]
    PROVE  Values(c, list, n) = Values(c, other, n)
  BY DEF Values

\* Reads is what all recorded dependencies have returned.
LEMMA ReadsAreValues ==
    ASSUME TypeOK, NEW q \in Query
    PROVE  /\ Reads(q) = Values(query_cache, query_dependencies[q],
                                Len(query_dependencies[q]))
           /\ \A n \in 0..Len(query_dependencies[q]) :
                 SubSeq(Reads(q), 1, n) =
                     Values(query_cache, query_dependencies[q], n)
  <1> DEFINE deps == query_dependencies[q]
  <1>1. /\ deps \in Seq(Query) /\ Len(deps) \in Nat
        /\ DOMAIN deps = 1..Len(deps)
    BY LenProperties DEF TypeOK
  <1> HIDE DEF deps
  <1> DEFINE values == Values(query_cache, deps, Len(deps))
  <1>2. Reads(q) = values
    BY <1>1 DEF Reads, Values, deps
  <1>3. values \in Seq({values[i] : i \in 1..Len(deps)}) /\ Len(values) = Len(deps)
    BY <1>1 DEF Values
  <1>4. ASSUME NEW n \in 0..Len(deps)
        PROVE  SubSeq(values, 1, n) = Values(query_cache, deps, n)
    <2>1. \A i \in 1..n : values[i] = query_cache[deps[i]]
      BY <1>1 DEF Values
    <2>2. SubSeq(values, 1, n) = [i \in 1..n |-> values[i]]
      BY <1>1, <1>3
    <2>3. QED
      BY <2>1, <2>2 DEF Values
  <1>5. QED
    BY <1>2, <1>4 DEF deps

-----------------------------------------------------------------------------
(* What a step of the engine leaves alone. *)

\* Nothing that is verified changes, and nothing changes at an earlier revision.
Stable ==
    /\ revision' = revision
    /\ \A d \in Query : changed'[d] \in Nat /\ changed[d] <= changed'[d]
    /\ \A d \in Query : verified[d] = revision =>
          /\ verified'[d] = revision /\ changed'[d] = changed[d]
          /\ query_cache'[d] = query_cache[d]

LEMMA EngineIsStable ==
    ASSUME EngineInvariant, EngineStep
    PROVE  Stable
  <1>1. [Next]_vars
    BY DEF Next
  <1>2. PICK x \in Query :
            \/ Lookup(x) \/ UseCached(x) \/ Recompute(x)
            \/ ReadSource(x) \/ RunQuery(x) \/ Finish(x)
            \/ CheckRevision(x) \/ ScanDependency(x)
            \/ RefreshDependency(x) \/ TrustDependency(x)
            \/ AllVerified(x)
    BY Zenon DEF EngineStep
  <1>3. /\ revision \in Nat \ {0} /\ changed \in [Query -> Nat]
        /\ \A d \in Query : changed[d] <= revision
    <2>1. stack # <<>>
      BY <1>2 DEF Lookup, UseCached, Recompute, ReadSource, RunQuery, Finish,
                  CheckRevision, ScanDependency, RefreshDependency,
                  TrustDependency, AllVerified, At
    <2>2. TypeOK /\ RequestAtBottom /\ RevisionsOrdered
      BY DEF EngineInvariant, StackInvariant
    <2>3. /\ revision \in Nat \ {0} /\ changed \in [Query -> Nat]
          /\ verified \in [Query -> Nat]
      BY <2>1, <2>2, QueryAssumption DEF TypeOK, RequestAtBottom
    <2>4. QED
      BY <2>2, <2>3 DEF RevisionsOrdered
  <1>4. revision' = revision
    BY <1>2 DEF Lookup, UseCached, Recompute, ReadSource, RunQuery, Finish,
                CheckRevision, ScanDependency, RefreshDependency,
                TrustDependency, AllVerified, request
  <1>5. \A d \in Query : verified[d] = revision =>
            /\ verified'[d] = revision /\ changed'[d] = changed[d]
            /\ query_cache'[d] = query_cache[d]
    BY <1>1, <1>3, <1>4, StepLeavesVerified DEF LeavesVerified
  <1>6. changed' = changed \/ changed' = [changed EXCEPT ![x] = revision]
    BY <1>2 DEF Lookup, UseCached, Recompute, ReadSource, RunQuery, Finish,
                CheckRevision, ScanDependency, RefreshDependency,
                TrustDependency, AllVerified, Settle, tables
  <1>7. \A d \in Query : changed'[d] \in Nat /\ changed[d] <= changed'[d]
    BY <1>3, <1>6
  <1>8. QED
    BY <1>4, <1>5, <1>7 DEF Stable

\* The computation that frame i stands for.
LEMMA ComputationFacts ==
    ASSUME EngineInvariant, NEW i \in Frames, stack[i].pc = "compute"
    PROVE  LET deps == query_dependencies[stack[i].query]
           IN  /\ stack[i].query \in Query
               /\ verified[stack[i].query] # revision
               /\ deps \in Seq(Query) /\ Len(deps) \in Nat
               /\ \A j \in 1..Len(deps) : deps[j] \in Query
               /\ \A j \in 1..(Len(deps) - 1) : verified[deps[j]] = revision
               /\ i = Len(stack) \/ stack[i + 1].pc = "lookup" =>
                     \A j \in 1..Len(deps) : verified[deps[j]] = revision
  <1> DEFINE q == stack[i].query
             deps == query_dependencies[q]
  <1>1. /\ TypeOK /\ ComputationsOK
        /\ Len(stack) \in Nat /\ stack \in Seq(Frame)
    BY DEF EngineInvariant, StackInvariant, TypeOK
  <1>2. stack[i] \in Frame
    BY <1>1 DEF Frames
  <1>3. q \in Query
    BY <1>2 DEF Frame
  <1>4. deps \in Seq(Query)
    BY <1>1, <1>3 DEF TypeOK
  <1>5. /\ Len(deps) \in Nat /\ DOMAIN deps = 1..Len(deps)
        /\ \A j \in 1..Len(deps) : deps[j] \in Query
    BY <1>4, LenProperties
  <1>6. /\ verified[q] # revision
        /\ \A j \in 1..Len(deps) : verified[deps[j]] = revision \/ Running(i, j)
    BY <1>1, <1>5 DEF ComputationsOK
  <1>7. \A j : Running(i, j) =>
            j = Len(deps) /\ i < Len(stack) /\ stack[i + 1].pc # "lookup"
    BY DEF Running
  <1> HIDE DEF deps
  <1>8. /\ \A j \in 1..(Len(deps) - 1) : verified[deps[j]] = revision
        /\ i = Len(stack) \/ stack[i + 1].pc = "lookup" =>
              \A j \in 1..Len(deps) : verified[deps[j]] = revision
    BY <1>1, <1>5, <1>6, <1>7
  <1>9. QED
    BY <1>3, <1>4, <1>5, <1>6, <1>8 DEF deps

LEMMA FollowingKept ==
    ASSUME EngineInvariant, Stable, NEW p \in Query, Following(p),
           query_dependencies'[p] = query_dependencies[p],
           \A j \in 1..(Len(query_dependencies[p]) - 1) :
               verified[query_dependencies[p][j]] = revision
    PROVE  Following(p)'
  <1> DEFINE deps == query_dependencies[p]
  <1>1. /\ deps \in Seq(Query) /\ Len(deps) \in Nat
        /\ \A j \in 1..Len(deps) : deps[j] \in Query
    BY LenProperties DEF EngineInvariant, TypeOK
  <1> HIDE DEF deps
  <1>2. ASSUME NEW n \in 1..Len(deps)
        PROVE  Demand(p, Values(query_cache', deps, n - 1)) = deps[n]
    <2>1. \A i \in 1..(n - 1) : query_cache'[deps[i]] = query_cache[deps[i]]
      BY <1>1, <1>2 DEF Stable, deps
    <2>2. Values(query_cache', deps, n - 1) = Values(query_cache, deps, n - 1)
      BY <2>1, SameValues
    <2>3. Demand(p, Values(query_cache, deps, n - 1)) = deps[n]
      BY <1>2 DEF Following, deps
    <2>4. QED
      BY <2>2, <2>3
  <1>3. QED
    BY <1>2 DEF Following, deps

LEMMA ChangeAheadKept ==
    ASSUME EngineInvariant, Stable, NEW p \in Query, ChangeAhead(p),
           query_dependencies'[p] = query_dependencies[p],
           verified'[p] = verified[p]
    PROVE  ChangeAhead(p)'
  <1> DEFINE deps == query_dependencies[p]
  <1>1. PICK old \in Seq(Query) : \E k \in 1..Len(old) :
            /\ changed[old[k]] > verified[p]
            /\ \A j \in 1..(k - 1) : verified[old[j]] = revision
            /\ \A j \in 1..k :
                  /\ Demand(p, Values(query_cache, old, j - 1)) = old[j]
                  /\ j <= Len(deps) => deps[j] = old[j]
    BY DEF ChangeAhead
  <1>2. PICK k \in 1..Len(old) :
            /\ changed[old[k]] > verified[p]
            /\ \A j \in 1..(k - 1) : verified[old[j]] = revision
            /\ \A j \in 1..k :
                  /\ Demand(p, Values(query_cache, old, j - 1)) = old[j]
                  /\ j <= Len(deps) => deps[j] = old[j]
    BY <1>1
  <1> HIDE DEF deps
  <1>3. /\ Len(old) \in Nat /\ k \in Nat
        /\ \A j \in 1..Len(old) : old[j] \in Query
    BY LenProperties
  <1>4. changed'[old[k]] > verified[p]
    <2>1. old[k] \in Query /\ changed \in [Query -> Nat] /\ verified[p] \in Nat
      BY <1>3 DEF EngineInvariant, TypeOK
    <2>2. QED
      BY <1>2, <2>1 DEF Stable
  <1>5. ASSUME NEW j \in 1..(k - 1)
        PROVE  /\ verified'[old[j]] = revision
               /\ query_cache'[old[j]] = query_cache[old[j]]
    <2>1. old[j] \in Query
      BY <1>3
    <2>2. verified[old[j]] = revision
      BY <1>2
    <2>3. QED
      BY <2>1, <2>2 DEF Stable
  <1>6. ASSUME NEW j \in 1..k
        PROVE  Demand(p, Values(query_cache', old, j - 1)) = old[j]
    <2>1. \A i \in 1..(j - 1) : query_cache'[old[i]] = query_cache[old[i]]
      BY <1>3, <1>5
    <2>2. Values(query_cache', old, j - 1) = Values(query_cache, old, j - 1)
      BY <2>1, SameValues
    <2>3. Demand(p, Values(query_cache, old, j - 1)) = old[j]
      BY <1>2
    <2>4. QED
      BY <2>2, <2>3
  <1>7. /\ revision' = revision /\ verified'[p] = verified[p]
        /\ query_dependencies'[p] = deps
    BY DEF Stable, deps
  <1>8. /\ changed'[old[k]] > verified'[p]
        /\ \A j \in 1..(k - 1) : verified'[old[j]] = revision'
        /\ \A j \in 1..k :
              /\ Demand(p, Values(query_cache', old, j - 1)) = old[j]
              /\ j <= Len(query_dependencies'[p]) =>
                    query_dependencies'[p][j] = old[j]
    BY <1>2, <1>4, <1>5, <1>6, <1>7
  <1>9. QED
    BY <1>8 DEF ChangeAhead

\* A result is kept while it, and what it depends on, stays what it was; a
\* dependency may become another if it changes after p was verified.
LEMMA KeptStays ==
    ASSUME EngineInvariant, NEW p \in Query, Kept(p),
           query_dependencies'[p] = query_dependencies[p],
           verified'[p] = verified[p],
           query_cache'[p] = query_cache[p],
           Cached \subseteq Cached',
           \A j \in 1..Len(query_dependencies[p]) :
               \A d \in {query_dependencies[p][j]} :
                   changed'[d] <= verified[p] =>
                       /\ changed[d] <= verified[p]
                       /\ d \in Cached => query_cache'[d] = query_cache[d]
    PROVE  Kept(p)'
  <1> DEFINE deps == query_dependencies[p]
  <1>1. /\ deps \in Seq(Query) /\ Len(deps) \in Nat
        /\ \A j \in 1..Len(deps) : deps[j] \in Query
    BY LenProperties DEF EngineInvariant, TypeOK
  <1>2. \A j \in 1..Len(deps) : changed'[deps[j]] <= verified[p] =>
            /\ changed[deps[j]] <= verified[p]
            /\ deps[j] \in Cached => query_cache'[deps[j]] = query_cache[deps[j]]
    OBVIOUS
  <1> HIDE DEF deps
  <1>3. ASSUME NEW n \in 0..Len(deps),
               \A i \in 1..n : changed'[deps[i]] <= verified[p]
        PROVE  /\ \A i \in 1..n : deps[i] \in Cached'
               /\ n < Len(deps) =>
                     Demand(p, Values(query_cache', deps, n)) = deps[n + 1]
               /\ n = Len(deps) =>
                     /\ Demand(p, Values(query_cache', deps, n)) = Done
                     /\ query_cache'[p] = Result(p, Values(query_cache', deps, n))
    <2>1. \A i \in 1..n : i \in 1..Len(deps)
      BY <1>1
    <2>2. \A i \in 1..n : changed[deps[i]] <= verified[p]
      BY <1>2, <1>3, <2>1
    <2>3. Founded(p, n)
      BY <2>2 DEF Kept, deps
    <2>4. \A i \in 1..n : deps[i] \in Cached
      BY <2>3 DEF Founded, deps
    <2>5. \A i \in 1..n : query_cache'[deps[i]] = query_cache[deps[i]]
      BY <1>2, <1>3, <2>1, <2>4
    <2>6. Values(query_cache', deps, n) = Values(query_cache, deps, n)
      BY <2>5, SameValues
    <2>7. QED
      BY <2>3, <2>4, <2>6 DEF Founded, deps
  <1>4. QED
    BY <1>3 DEF Kept, Founded, deps

-----------------------------------------------------------------------------
(* The calls on the stack, below the one that a step is made in. *)

FramesFresh == ComputationsFollow /\ CallsRecorded /\ ScansUnchanged

LEMMA FollowsOnKept ==
    ASSUME EngineInvariant, ComputationsFollow, Stable,
           NEW i \in Frames, stack[i].pc = "compute",
           NEW q, q = stack[i].query, q \notin Source,
           query_dependencies'[q] = query_dependencies[q],
           verified'[q] = verified[q]
    PROVE  FollowsOn(q)'
  <1>1. /\ q \in Query
        /\ \A j \in 1..(Len(query_dependencies[q]) - 1) :
              verified[query_dependencies[q][j]] = revision
    BY ComputationFacts
  <1>2. FollowsOn(q)
    BY DEF ComputationsFollow
  <1>3. Following(q)'
    BY <1>1, <1>2, FollowingKept DEF FollowsOn
  <1>4. verified'[q] # 0 => ChangeAhead(q)'
    BY <1>1, <1>2, ChangeAheadKept DEF FollowsOn
  <1>5. QED
    BY <1>3, <1>4 DEF FollowsOn

LEMMA UnchangedKept ==
    ASSUME EngineInvariant, ScansUnchanged, Stable,
           NEW i \in Frames, NEW f, f = stack[i],
           f.pc \in {"scan", "verify", "refresh"} =>
               /\ query_dependencies'[f.query] = query_dependencies[f.query]
               /\ verified'[f.query] = verified[f.query]
    PROVE  Unchanged(f)'
  <1> SUFFICES ASSUME f.pc \in {"scan", "verify", "refresh"}
               PROVE  Unchanged(f)'
    BY DEF Unchanged
  <1> DEFINE deps == query_dependencies[f.query]
  <1>1. /\ TypeOK /\ ScanOK(f) /\ Unchanged(f) /\ f \in Frame
    BY DEF EngineInvariant, StackInvariant, ScansOK, ScansUnchanged, TypeOK,
           Frames
  <1>2. deps \in Seq(Query)
    BY <1>1 DEF TypeOK, Frame
  <1>3. /\ Len(deps) \in Nat
        /\ \A j \in 1..Len(deps) : deps[j] \in Query
    BY <1>2, LenProperties
  <1>4. /\ f.at \in 1..(Len(deps) + 1)
        /\ \A j \in 1..(f.at - 1) : verified[deps[j]] = revision
    BY <1>1 DEF ScanOK
  <1>5. /\ f.query \notin Source
        /\ \A j \in 1..(f.at - 1) : changed[deps[j]] <= verified[f.query]
    BY <1>1 DEF Unchanged
  <1>6. /\ query_dependencies'[f.query] = deps
        /\ verified'[f.query] = verified[f.query]
    OBVIOUS
  <1> HIDE DEF deps
  <1>7. ASSUME NEW j \in 1..(f.at - 1)
        PROVE  changed'[deps[j]] <= verified[f.query]
    <2>1. deps[j] \in Query
      BY <1>3, <1>4
    <2>2. verified[deps[j]] = revision /\ changed[deps[j]] <= verified[f.query]
      BY <1>4, <1>5
    <2>3. changed'[deps[j]] = changed[deps[j]]
      BY <2>1, <2>2 DEF Stable
    <2>4. QED
      BY <2>2, <2>3
  <1>8. QED
    BY <1>5, <1>6, <1>7 DEF Unchanged

LEMMA RecordedKept ==
    ASSUME EngineInvariant, CallsRecorded, Stable,
           NEW i \in Frames, i > 1, stack[i - 1].pc = "compute",
           NEW f, f = stack[i - 1], NEW g, g = stack[i],
           query_dependencies'[f.query] = query_dependencies[f.query]
    PROVE  Recorded(f, g)'
  <1> DEFINE deps == query_dependencies[f.query]
  <1>1. /\ Recorded(f, g) /\ i - 1 \in Frames
        /\ (i - 1) + 1 = i
    <2>1. Len(stack) \in Nat
      BY DEF EngineInvariant, TypeOK
    <2>2. QED
      BY <2>1 DEF CallsRecorded, Frames
  <1>2. /\ Len(deps) \in Nat /\ \A j \in 1..Len(deps) : deps[j] \in Query
        /\ g.pc = "lookup" => \A j \in 1..Len(deps) : verified[deps[j]] = revision
    BY <1>1, ComputationFacts
  <1>3. query_dependencies'[f.query] = deps
    OBVIOUS
  <1>4. CASE g.pc = "lookup"
    <2>1. \A j \in 1..Len(deps) : query_cache'[deps[j]] = query_cache[deps[j]]
      BY <1>2, <1>4 DEF Stable
    <2>2. Values(query_cache', deps, Len(deps)) = Values(query_cache, deps, Len(deps))
      BY <2>1, SameValues
    <2>3. QED
      BY <1>1, <1>3, <1>4, <2>2 DEF Recorded
  <1>5. CASE g.pc # "lookup"
    BY <1>1, <1>3, <1>5 DEF Recorded
  <1>6. QED
    BY <1>4, <1>5

\* A frame below the innermost call, when the tables change for the query of
\* the innermost call only.
LEMMA LowerFrames ==
    ASSUME EngineInvariant, FramesFresh, Stable, TopTables, LowerCalls,
           NEW i \in 1..(Len(stack) - 1)
    PROVE  /\ stack'[i] = stack[i] /\ i \in Frames
           /\ \A q : stack[i].pc = "compute" /\ q = stack[i].query /\ q \notin Source
                       => FollowsOn(q)'
           /\ \A f : f = stack[i] => Unchanged(f)'
           /\ \A f, g : stack[i].pc = "compute" /\ f = stack[i] /\ g = stack[i + 1]
                          => Recorded(f, g)'
  <1>1. /\ TypeOK /\ RanksDescend /\ Len(stack) \in Nat
        /\ stack # <<>> /\ stack'[i] = stack[i]
    <2>1. TypeOK /\ RanksDescend
      BY DEF EngineInvariant, StackInvariant
    <2>2. stack # <<>> /\ stack'[i] = stack[i]
      BY DEF LowerCalls
    <2>3. QED
      BY <2>1, <2>2, TopIsFrame
  <1>2. i \in Frames /\ i + 1 \in Frames /\ i + 1 > 1 /\ (i + 1) - 1 = i
    BY <1>1 DEF Frames
  <1>3. stack[i] \in Frame /\ stack[i].query \in Query
    BY <1>1, <1>2, TopIsFrame DEF Frames, Frame
  <1>4. stack[i].pc # "decide" =>
            /\ query_dependencies'[stack[i].query] = query_dependencies[stack[i].query]
            /\ verified'[stack[i].query] = verified[stack[i].query]
    BY <1>1, <1>3, LowerCallsDiffer DEF TopTables
  <1>5. ASSUME NEW q, stack[i].pc = "compute", q = stack[i].query, q \notin Source
        PROVE  FollowsOn(q)'
    BY <1>2, <1>4, <1>5, FollowsOnKept DEF FramesFresh
  <1>6. ASSUME NEW f, f = stack[i]
        PROVE  Unchanged(f)'
    BY <1>2, <1>4, <1>6, UnchangedKept DEF FramesFresh
  <1>7. ASSUME NEW f, NEW g, stack[i].pc = "compute", f = stack[i],
               g = stack[i + 1]
        PROVE  Recorded(f, g)'
    BY <1>2, <1>4, <1>7, RecordedKept DEF FramesFresh
  <1>8. QED
    BY <1>1, <1>2, <1>5, <1>6, <1>7

\* The innermost call returns.
LEMMA PopFrames ==
    ASSUME EngineInvariant, FramesFresh, Stable, TopTables, LowerCalls,
           Len(stack') = Len(stack) - 1
    PROVE  FramesFresh'
  <1>1. Len(stack) \in Nat \ {0}
    BY TopIsFrame DEF EngineInvariant, LowerCalls
  <1>2. Frames' = 1..(Len(stack) - 1)
    BY DEF Frames
  <1>3. ComputationsFollow'
    <2> SUFFICES ASSUME NEW i \in Frames', stack'[i].pc = "compute",
                        stack'[i].query \notin Source
                 PROVE  FollowsOn(stack[i].query)'
      BY DEF ComputationsFollow
    <2>1. stack'[i] = stack[i] /\ i \in 1..(Len(stack) - 1)
      BY <1>2, LowerFrames
    <2>2. QED
      BY <2>1, LowerFrames
  <1>4. CallsRecorded'
    <2> SUFFICES ASSUME NEW i \in Frames', i > 1, stack'[i - 1].pc = "compute"
                 PROVE  Recorded(stack[i - 1], stack[i])'
      BY DEF CallsRecorded
    <2>1. /\ i \in 1..(Len(stack) - 1) /\ i - 1 \in 1..(Len(stack) - 1)
          /\ (i - 1) + 1 = i
      BY <1>1, <1>2
    <2>2. stack'[i] = stack[i] /\ stack'[i - 1] = stack[i - 1]
      BY <2>1, LowerFrames
    <2>3. QED
      BY <2>1, <2>2, LowerFrames
  <1>5. ScansUnchanged'
    <2> SUFFICES ASSUME NEW i \in Frames'
                 PROVE  Unchanged(stack[i])'
      BY DEF ScansUnchanged
    <2>1. stack'[i] = stack[i] /\ i \in 1..(Len(stack) - 1)
      BY <1>2, LowerFrames
    <2>2. QED
      BY <2>1, LowerFrames
  <1>6. QED
    BY <1>3, <1>4, <1>5 DEF FramesFresh

\* The innermost call moves on, and perhaps makes a call (g).
LEMMA MoveFrames ==
    ASSUME EngineInvariant, FramesFresh, Stable, TopTables, LowerCalls,
           Len(stack') \in {Len(stack), Len(stack) + 1},
           Len(stack) > 1 /\ stack[Len(stack) - 1].pc = "compute" =>
               top.pc # "lookup",
           NEW f, stack'[Len(stack)] = f, f.query = top.query, f.pc # "lookup",
           f.pc = "compute" /\ f.query \notin Source => FollowsOn(f.query)',
           Unchanged(f)',
           NEW g, g = stack'[Len(stack) + 1],
           Len(stack') = Len(stack) + 1 => g.pc \in {"lookup", "check"},
           f.pc = "compute" /\ Len(stack') = Len(stack) + 1 => Recorded(f, g)'
    PROVE  FramesFresh'
  <1> DEFINE n == Len(stack)
  <1>1. n \in Nat \ {0} /\ top = stack[n] /\ n \in Frames
    BY TopIsFrame DEF EngineInvariant, LowerCalls, Frames
  <1>2. Frames' = 1..Len(stack') /\ stack'[n] = f /\ g = stack'[n + 1]
        /\ Len(stack') \in {n, n + 1} /\ top.pc = stack[n].pc
    BY <1>1 DEF Frames
  <1>3. ComputationsFollow'
    <2> SUFFICES ASSUME NEW i \in Frames', stack'[i].pc = "compute",
                        stack'[i].query \notin Source
                 PROVE  FollowsOn(stack[i].query)'
      BY DEF ComputationsFollow
    <2>1. CASE i \in 1..(n - 1)
      <3>1. stack'[i] = stack[i]
        BY <2>1, LowerFrames
      <3>2. QED
        BY <2>1, <3>1, LowerFrames
    <2>2. CASE i = n
      BY <1>2, <2>2
    <2>3. CASE i = n + 1
      BY <1>2, <2>3
    <2> HIDE DEF n
    <2>4. QED
      BY <1>1, <1>2, <2>1, <2>2, <2>3
  <1>4. CallsRecorded'
    <2> SUFFICES ASSUME NEW i \in Frames', i > 1, stack'[i - 1].pc = "compute"
                 PROVE  Recorded(stack[i - 1], stack[i])'
      BY DEF CallsRecorded
    <2>1. CASE i \in 1..(n - 1)
      <3>1. i - 1 \in 1..(n - 1) /\ (i - 1) + 1 = i
        BY <2>1
      <3>2. stack'[i] = stack[i] /\ stack'[i - 1] = stack[i - 1]
        BY <2>1, <3>1, LowerFrames
      <3>3. QED
        BY <3>1, <3>2, LowerFrames
    <2>2. CASE i = n
      <3>1. n - 1 \in 1..(n - 1) /\ (n - 1) + 1 = n
        BY <1>1, <2>2
      <3>2. stack'[n - 1] = stack[n - 1] /\ stack[n - 1].pc = "compute"
        BY <2>2, <3>1, LowerFrames
      <3>3. Recorded(stack[n - 1], stack[n])
        BY <1>1, <2>2, <3>2 DEF FramesFresh, CallsRecorded
      <3>4. \A h, e : h = stack[n - 1] /\ e = stack[n] => Recorded(h, e)'
        BY <3>1, <3>2, LowerFrames
      <3>5. stack[n].pc # "lookup"
        BY <1>1, <2>2, <3>2
      <3>6. \A h : h = stack[n - 1] => Recorded(h, f)'
        BY <1>1, <1>2, <3>4, <3>5 DEF Recorded
      <3>7. QED
        BY <1>2, <2>2, <3>2, <3>6
    <2>3. CASE i = n + 1
      <3>1. i - 1 = n /\ Len(stack') = n + 1
        BY <1>1, <1>2, <2>3
      <3>2. stack'[i - 1] = f /\ stack'[i] = g
        BY <1>2, <2>3, <3>1
      <3>3. QED
        BY <3>1, <3>2
    <2> HIDE DEF n
    <2>4. QED
      BY <1>1, <1>2, <2>1, <2>2, <2>3
  <1>5. ScansUnchanged'
    <2> SUFFICES ASSUME NEW i \in Frames'
                 PROVE  Unchanged(stack[i])'
      BY DEF ScansUnchanged
    <2>1. CASE i \in 1..(n - 1)
      <3>1. stack'[i] = stack[i]
        BY <2>1, LowerFrames
      <3>2. QED
        BY <2>1, <3>1, LowerFrames
    <2>2. CASE i = n
      BY <1>2, <2>2
    <2>3. CASE i = n + 1
      BY <1>2, <2>3 DEF Unchanged
    <2> HIDE DEF n
    <2>4. QED
      BY <1>1, <1>2, <2>1, <2>2, <2>3
  <1>6. QED
    BY <1>3, <1>4, <1>5 DEF FramesFresh

-----------------------------------------------------------------------------
(* Steps that leave the tables as they are. *)

TablesSame ==
    UNCHANGED <<revision, changed, verified, query_dependencies, query_cache, seen>>

LEMMA TablesSameFacts ==
    ASSUME EngineInvariant, TablesSame
    PROVE  Stable /\ TopTables
  <1>1. changed \in [Query -> Nat]
    BY DEF EngineInvariant, TypeOK
  <1>2. \A d \in Query : changed[d] \in Nat /\ changed[d] <= changed[d]
    BY <1>1
  <1>3. QED
    BY <1>2 DEF TablesSame, Stable, TopTables

\* A computation goes on unless it is the innermost call and returns.
LEMMA ComputingStays ==
    ASSUME EngineInvariant, LowerCalls, NEW q, Computing(q),
           top.pc = "compute" /\ top.query = q =>
               /\ Len(stack') >= Len(stack)
               /\ stack'[Len(stack)].pc = "compute"
               /\ stack'[Len(stack)].query = q
    PROVE  Computing(q)'
  <1>1. PICK i \in Frames : stack[i].pc = "compute" /\ stack[i].query = q
    BY DEF Computing
  <1>2. /\ Len(stack) \in Nat \ {0} /\ top = stack[Len(stack)]
        /\ Len(stack') \in Nat /\ Len(stack') >= Len(stack) - 1
        /\ \A k \in 1..(Len(stack) - 1) : stack'[k] = stack[k]
    BY TopIsFrame, LenProperties DEF EngineInvariant, LowerCalls
  <1>3. CASE i = Len(stack)
    <2>1. i \in Frames'
      BY <1>1, <1>2, <1>3 DEF Frames
    <2>2. QED
      BY <1>1, <1>2, <1>3, <2>1 DEF Computing
  <1>4. CASE i # Len(stack)
    <2>1. i \in 1..(Len(stack) - 1) /\ i \in Frames'
      BY <1>1, <1>2, <1>4 DEF Frames
    <2>2. stack'[i] = stack[i]
      BY <1>2, <2>1
    <2>3. QED
      BY <1>1, <2>1, <2>2 DEF Computing
  <1>5. QED
    BY <1>3, <1>4

LEMMA QuietStep ==
    ASSUME EngineInvariant, FreshnessInvariant, LowerCalls, TablesSame,
           top.pc = "compute" =>
               /\ Len(stack') >= Len(stack)
               /\ stack'[Len(stack)].pc = "compute"
               /\ stack'[Len(stack)].query = top.query,
           FramesFresh', AnswersGrounded'
    PROVE  FreshnessInvariant'
  <1>1. ResultsKept'
    <2> SUFFICES ASSUME NEW q \in Query \ Source, verified'[q] # 0,
                        ~Computing(q)'
                 PROVE  Kept(q)'
      BY DEF ResultsKept
    <2>1. ~Computing(q)
      BY ComputingStays
    <2>2. Kept(q)
      BY <2>1 DEF FreshnessInvariant, ResultsKept, TablesSame
    <2>3. QED
      BY <2>2, KeptStays DEF TablesSame, Cached
  <1>2. SourcesSeen'
    BY DEF FreshnessInvariant, SourcesSeen, TablesSame
  <1>3. QED
    BY <1>1, <1>2 DEF FramesFresh, FreshnessInvariant

\* The innermost call returns, and says of its query that it is out of date
\* only if it is.
LEMMA ReturnFresh ==
    ASSUME EngineInvariant, FreshnessInvariant, TablesSame,
           NEW q \in Query, NEW pc, At(pc, q), pc # "compute",
           NEW answer, Return(answer),
           answer = "yes" =>
               pc \in CheckPoints /\ (q \in Source \/ verified[q] = 0 \/ Stale(q))
    PROVE  FreshnessInvariant'
  <1>1. /\ TypeOK /\ CallsNested /\ stack # <<>> /\ top.pc = pc
        /\ top.query = q /\ Len(stack) \in Nat \ {0}
        /\ top = stack[Len(stack)]
    BY AtFacts
  <1>2. /\ LowerCalls /\ Len(stack') = Len(stack) - 1
        /\ \A i \in 1..(Len(stack) - 1) : stack'[i] = stack[i]
        /\ out_of_date' = answer
    BY <1>1, CallersFacts DEF LowerCalls, Return
  <1>3. FramesFresh'
    BY <1>2, PopFrames, TablesSameFacts DEF FramesFresh, FreshnessInvariant
  <1>4. AnswersGrounded'
    <2> SUFFICES ASSUME stack' # <<>>, top'.pc = "decide", out_of_date' = "yes",
                        top'.query \notin Source, verified'[top'.query] # 0
                 PROVE  Stale(top.query)'
      BY DEF AnswersGrounded
    <2>1. Len(stack) > 1
      BY <1>1, <1>2, EmptySeq DEF LowerCalls
    <2>2. top' = stack[Len(stack) - 1] /\ Len(stack) \in Frames
      BY <1>1, <1>2, <2>1 DEF top, Frames
    <2>3. Nested(stack[Len(stack) - 1], stack[Len(stack)])
      BY <1>1, <2>1, <2>2 DEF CallsNested
    <2>4. top'.query = q
      BY <1>1, <2>2, <2>3 DEF Nested
    <2>5. Stale(q)
      BY <1>2, <2>4 DEF TablesSame
    <2>6. QED
      BY <2>4, <2>5 DEF Stale, TablesSame
  <1>5. QED
    BY <1>1, <1>2, <1>3, <1>4, QuietStep

\* The innermost call moves on, and perhaps makes a call (g).
LEMMA MoveFresh ==
    ASSUME EngineInvariant, FreshnessInvariant, TablesSame,
           NEW q \in Query, NEW pc, At(pc, q),
           pc = "lookup" => top.parent = NoQuery,
           stack' \in Seq(Frame),
           Len(stack') \in {Len(stack), Len(stack) + 1},
           \A i \in 1..(Len(stack) - 1) : stack'[i] = stack[i],
           NEW f, stack'[Len(stack)] = f, f.query = q, f.pc # "lookup",
           f.pc = "compute" <=> pc = "compute",
           f.pc = "decide" => Len(stack') = Len(stack) + 1,
           Unchanged(f)',
           NEW g, g = stack'[Len(stack) + 1],
           Len(stack') = Len(stack) + 1 => g.pc \in {"lookup", "check"},
           f.pc = "compute" /\ Len(stack') = Len(stack) + 1 => Recorded(f, g)'
    PROVE  FreshnessInvariant'
  <1>1. /\ TypeOK /\ stack # <<>> /\ top.pc = pc
        /\ top.query = q /\ Len(stack) \in Nat \ {0}
        /\ top = stack[Len(stack)] /\ Len(stack) \in Frames
    BY AtFacts DEF Frames
  <1>2. LowerCalls
    BY <1>1 DEF LowerCalls
  <1>3. f.pc = "compute" /\ f.query \notin Source => FollowsOn(f.query)'
    BY <1>1, FollowsOnKept, TablesSameFacts
       DEF FreshnessInvariant, TablesSame
  <1>4. ASSUME Len(stack) > 1, stack[Len(stack) - 1].pc = "compute"
        PROVE  top.pc # "lookup"
    <2>1. Nested(stack[Len(stack) - 1], top) /\ CallsNested
      BY <1>1, <1>4, AtFacts DEF CallsNested
    <2>2. top.parent = stack[Len(stack) - 1].query
      BY <1>4, <2>1 DEF Nested
    <2>3. Len(stack) - 1 \in 1..Len(stack)
      BY <1>1, <1>4
    <2>4. stack[Len(stack) - 1] \in Frame
      BY <1>1, <2>3, TopIsFrame
    <2>5. top.parent \in Query
      BY <2>2, <2>4 DEF Frame
    <2>6. QED
      BY <1>1, <2>5, QueryAssumption
  <1>5. FramesFresh'
    BY <1>1, <1>2, <1>3, <1>4, MoveFrames, TablesSameFacts
       DEF FramesFresh, FreshnessInvariant
  <1>6. AnswersGrounded'
    <2>1. top'.pc # "decide"
      BY <1>1 DEF top
    <2>2. QED
      BY <2>1 DEF AnswersGrounded
  <1>7. QED
    BY <1>1, <1>2, <1>5, <1>6, QuietStep

-----------------------------------------------------------------------------
(* is_query_out_of_date *)

\* What a scan knows of the dependencies up to the one it looks at.
LEMMA ScanFacts ==
    ASSUME EngineInvariant, FreshnessInvariant, NEW q \in Query, NEW pc,
           At(pc, q), pc \in {"scan", "verify", "refresh"}
    PROVE  /\ q \notin Source
           /\ \A j \in 1..(top.at - 1) :
                 /\ verified[query_dependencies[q][j]] = revision
                 /\ changed[query_dependencies[q][j]] <= verified[q]
           /\ top.at <= Len(query_dependencies[q]) =>
                 /\ scanned(q) = query_dependencies[q][top.at]
                 /\ changed[scanned(q)] > verified[q] => Stale(q)
  <1>1. /\ TypeOK /\ ScansOK /\ ScanOK(top) /\ top.pc = pc /\ top.query = q
        /\ stack # <<>> /\ top = stack[Len(stack)] /\ Len(stack) \in Frames
    BY AtFacts DEF Frames
  <1>2. Unchanged(top)
    BY <1>1 DEF FreshnessInvariant, ScansUnchanged
  <1>3. /\ q \notin Source
        /\ \A j \in 1..(top.at - 1) :
              /\ verified[query_dependencies[q][j]] = revision
              /\ changed[query_dependencies[q][j]] <= verified[q]
    BY <1>1, <1>2 DEF ScanOK, Unchanged
  <1>4. ASSUME top.at <= Len(query_dependencies[q])
        PROVE  /\ scanned(q) = query_dependencies[q][top.at]
               /\ changed[scanned(q)] > verified[q] => Stale(q)
    BY <1>1, <1>3, <1>4, ScannedFacts DEF Stale
  <1>5. QED
    BY <1>3, <1>4

LEMMA NextFresh ==
    ASSUME EngineInvariant, FreshnessInvariant, TablesSame,
           NEW q \in Query, NEW pc, At(pc, q),
           pc \in {"scan", "verify", "refresh"}, NextDependency,
           top.at <= Len(query_dependencies[q]),
           changed[scanned(q)] <= verified[q]
    PROVE  FreshnessInvariant'
  <1> DEFINE f == [top EXCEPT !.pc = "scan", !.at = top.at + 1]
  <1>1. /\ TypeOK /\ stack # <<>> /\ top \in Frame /\ top.pc = pc
        /\ top.query = q /\ Len(stack) \in Nat \ {0} /\ top.at \in Nat
    BY AtFacts, TopIsFrame
  <1>2. /\ stack' \in Seq(Frame) /\ Len(stack') = Len(stack)
        /\ \A i \in 1..(Len(stack) - 1) : stack'[i] = stack[i]
        /\ stack'[Len(stack)] = f
    BY <1>1, NextDependencyFacts
  <1>3. f.query = q /\ f.pc = "scan" /\ f.at = top.at + 1
    BY <1>1 DEF Frame
  <1> HIDE DEF f
  <1>4. \A h : h = f => Unchanged(h)'
    <2>1. /\ q \notin Source
          /\ \A j \in 1..(top.at - 1) :
                changed[query_dependencies[q][j]] <= verified[q]
          /\ changed[query_dependencies[q][top.at]] <= verified[q]
      BY ScanFacts
    <2>2. \A j \in 1..(f.at - 1) : j \in 1..(top.at - 1) \/ j = top.at
      BY <1>1, <1>3
    <2>3. \A j \in 1..(f.at - 1) : changed[query_dependencies[q][j]] <= verified[q]
      BY <2>1, <2>2
    <2>4. QED
      BY <1>3, <2>1, <2>3 DEF Unchanged, TablesSame
  <1>5. QED
    BY <1>1, <1>2, <1>3, <1>4, MoveFresh

\* A scan that makes a call for the dependency it looks at.
LEMMA AskFresh ==
    ASSUME EngineInvariant, FreshnessInvariant, TablesSame,
           NEW q \in Query, NEW pc, At(pc, q), pc \in {"scan", "verify"},
           NEW next \in {"verify", "refresh"}, NEW g \in Frame,
           g.pc \in {"lookup", "check"}, stack' = Invoke(next, g)
    PROVE  FreshnessInvariant'
  <1> DEFINE f == [top EXCEPT !.pc = next]
  <1>1. /\ TypeOK /\ stack # <<>> /\ top \in Frame /\ top.pc = pc
        /\ top.query = q /\ Len(stack) \in Nat \ {0}
    BY AtFacts
  <1>2. f.query = q /\ f.pc = next /\ f.at = top.at
    BY <1>1 DEF Frame
  <1>3. /\ stack' \in Seq(Frame) /\ Len(stack') = Len(stack) + 1
        /\ \A i \in 1..(Len(stack) - 1) : stack'[i] = stack[i]
        /\ stack'[Len(stack)] = f /\ stack'[Len(stack) + 1] = g
    <2> DEFINE after == Invoke(next, g)
    <2>1. next \in ExecutePoints \cup CheckPoints
      BY DEF CheckPoints
    <2>2. /\ after \in Seq(Frame) /\ Len(after) = Len(stack) + 1
          /\ \A i \in 1..(Len(stack) - 1) : after[i] = stack[i]
          /\ after[Len(stack)] = f /\ after[Len(stack) + 1] = g
      <3>1. TypeOK /\ stack # <<>>
        BY <1>1
      <3>2. QED
        BY <2>1, <3>1, InvokeFacts
    <2>3. stack' = after
      OBVIOUS
    <2> HIDE DEF after, f
    <2>4. QED
      BY <2>2, <2>3
  <1> HIDE DEF f
  <1>4. \A h : h = f => Unchanged(h)'
    <2>1. /\ q \notin Source
          /\ \A j \in 1..(top.at - 1) :
                changed[query_dependencies[q][j]] <= verified[q]
      BY ScanFacts
    <2>2. QED
      BY <1>2, <2>1 DEF Unchanged, TablesSame
  <1>5. QED
    BY <1>1, <1>2, <1>3, <1>4, MoveFresh

LEMMA CheckRevisionFresh ==
    ASSUME EngineInvariant, FreshnessInvariant, NEW q \in Query,
           CheckRevision(q)
    PROVE  FreshnessInvariant'
  <1>1. At("check", q) /\ TablesSame /\ "check" \in CheckPoints
    BY DEF CheckRevision, TablesSame, tables, request, CheckPoints
  <1>2. CASE Return("no")
    BY <1>1, <1>2, ReturnFresh
  <1>3. CASE (verified[q] = 0 \/ q \in Source) /\ Return("yes")
    BY <1>1, <1>3, ReturnFresh
  <1>4. CASE q \notin Source /\ stack' = GoTo("scan")
    <2> DEFINE f == [top EXCEPT !.pc = "scan"]
    <2>1. /\ TypeOK /\ stack # <<>> /\ top \in Frame /\ top.query = q
          /\ top.pc = "check" /\ ScanOK(top) /\ Len(stack) \in Nat \ {0}
      BY <1>1, AtFacts
    <2>2. f.query = q /\ f.pc = "scan" /\ f.at = 1
      BY <2>1 DEF ScanOK, Frame
    <2>3. /\ stack' \in Seq(Frame) /\ Len(stack') = Len(stack)
          /\ \A i \in 1..(Len(stack) - 1) : stack'[i] = stack[i]
          /\ stack'[Len(stack)] = f
      BY <1>4, <2>1, GoToFacts DEF CheckPoints
    <2> HIDE DEF f
    <2>4. \A h : h = f => Unchanged(h)'
      BY <1>4, <2>2 DEF Unchanged
    <2>5. QED
      BY <1>1, <2>1, <2>2, <2>3, <2>4, MoveFresh
  <1>5. QED
    BY <1>2, <1>3, <1>4 DEF CheckRevision

LEMMA ScanDependencyFresh ==
    ASSUME EngineInvariant, FreshnessInvariant, NEW q \in Query,
           ScanDependency(q)
    PROVE  FreshnessInvariant'
  <1>1. /\ At("scan", q) /\ TablesSame /\ "scan" \in CheckPoints
        /\ top.at <= Len(query_dependencies[q])
    BY DEF ScanDependency, TablesSame, tables, request, CheckPoints
  <1>2. CASE changed[scanned(q)] > verified[q] /\ Return("yes")
    BY <1>1, <1>2, ScanFacts, ReturnFresh
  <1>3. CASE changed[scanned(q)] <= verified[q] /\ NextDependency
    BY <1>1, <1>3, NextFresh
  <1>4. CASE stack' = Invoke("verify", CheckFrame(scanned(q)))
    <2> DEFINE g == CheckFrame(scanned(q))
    <2>1. scanned(q) \in Query
      BY <1>1, AtFacts, ScannedFacts
    <2>2. g \in Frame /\ g.pc = "check"
      BY <2>1, FrameTypes, QueryAssumption DEF CheckFrame
    <2> HIDE DEF g
    <2>3. stack' = Invoke("verify", g)
      BY <1>4 DEF g
    <2>4. QED
      BY <1>1, <2>2, <2>3, AskFresh
  <1>5. QED
    BY <1>2, <1>3, <1>4 DEF ScanDependency

LEMMA RefreshDependencyFresh ==
    ASSUME EngineInvariant, FreshnessInvariant, NEW q \in Query,
           RefreshDependency(q)
    PROVE  FreshnessInvariant'
  <1> DEFINE g == ExecuteFrame(scanned(q), NoQuery)
  <1>1. At("verify", q) /\ TablesSame /\ stack' = Invoke("refresh", g)
    BY DEF RefreshDependency, TablesSame, tables, request
  <1>2. scanned(q) \in Query
    BY <1>1, AtFacts, ScannedFacts DEF ScanOK
  <1>3. g \in Frame /\ g.pc = "lookup"
    BY <1>2, FrameTypes DEF ExecuteFrame
  <1> HIDE DEF g
  <1>4. QED
    BY <1>1, <1>3, AskFresh

LEMMA TrustDependencyFresh ==
    ASSUME EngineInvariant, FreshnessInvariant, NEW q \in Query,
           TrustDependency(q)
    PROVE  FreshnessInvariant'
  <1>1. PICK pc \in {"verify", "refresh"} : At(pc, q)
    BY DEF TrustDependency
  <1>2. TablesSame /\ pc \in CheckPoints
    BY DEF TrustDependency, TablesSame, tables, request, CheckPoints
  <1>3. top.at <= Len(query_dependencies[q])
    BY <1>1, AtFacts DEF ScanOK
  <1>4. CASE changed[scanned(q)] > verified[q] /\ Return("yes")
    BY <1>1, <1>2, <1>3, <1>4, ScanFacts, ReturnFresh
  <1>5. CASE changed[scanned(q)] <= verified[q] /\ NextDependency
    BY <1>1, <1>2, <1>3, <1>5, NextFresh
  <1>6. QED
    BY <1>4, <1>5 DEF TrustDependency

-----------------------------------------------------------------------------
(* execute *)

LEMMA UseCachedFresh ==
    ASSUME EngineInvariant, FreshnessInvariant, NEW q \in Query, UseCached(q)
    PROVE  FreshnessInvariant'
  <1>1. /\ At("decide", q) /\ out_of_date = "no" /\ Return("unknown")
        /\ UNCHANGED <<revision, changed, query_dependencies, query_cache, seen>>
        /\ verified' = [verified EXCEPT ![q] = revision]
    BY DEF UseCached, ReturnResult, request
  <1>2. verified[q] = revision /\ verified \in [Query -> Nat]
    BY <1>1, AtFacts DEF AnswerOK
  <1>3. verified' = verified
    BY <1>1, <1>2
  <1>4. QED
    BY <1>1, <1>3, ReturnFresh DEF TablesSame

LEMMA RunQueryFresh ==
    ASSUME EngineInvariant, FreshnessInvariant, NEW q \in Query, RunQuery(q)
    PROVE  FreshnessInvariant'
  <1>1. /\ At("compute", q) /\ TablesSame /\ q \notin Source
    BY DEF RunQuery, TablesSame, tables, request
  <1>2. PICK d \in Uses[q] :
            Demand(q, Reads(q)) = d /\ stack' = Append(stack, ExecuteFrame(d, q))
    BY DEF RunQuery
  <1> DEFINE g == ExecuteFrame(d, q)
  <1>3. /\ TypeOK /\ stack \in Seq(Frame) /\ top.pc = "compute" /\ top.query = q
        /\ Len(stack) \in Nat \ {0} /\ top = stack[Len(stack)]
    BY <1>1, AtFacts
  <1>4. g \in Frame /\ g.pc = "lookup" /\ g.query = d
    BY FrameTypes, QueryAssumption DEF ExecuteFrame
  <1> HIDE DEF g
  <1>5. /\ stack' \in Seq(Frame) /\ Len(stack') = Len(stack) + 1
        /\ \A i \in 1..Len(stack) : stack'[i] = stack[i]
        /\ stack'[Len(stack) + 1] = g
    <2>1. stack' = Append(stack, g)
      BY <1>2 DEF g
    <2>2. QED
      BY <1>3, <1>4, <2>1, PushedSeq
  <1>6. \A f : f = top => Unchanged(f)' /\ Recorded(f, g)'
    BY <1>1, <1>2, <1>3, <1>4, ReadsAreValues DEF Unchanged, Recorded, TablesSame
  <1>7. QED
    BY <1>1, <1>3, <1>4, <1>5, <1>6, MoveFresh

\* A call that a computation has made is recorded as its next dependency.
LEMMA CallRecorded ==
    ASSUME EngineInvariant, FreshnessInvariant, NEW q \in Query,
           NEW p \in Query, NEW i \in Frames, i > 1,
           stack[i - 1].pc = "compute", stack[i - 1].query = p,
           stack[i].pc = "lookup", stack[i].query = q,
           UNCHANGED <<revision, changed, verified, query_cache>>,
           query_dependencies'[p] = Append(query_dependencies[p], q)
    PROVE  FollowsOn(p)'
  <1> DEFINE deps == query_dependencies[p]
             n == Len(deps)
  <1>1. /\ Len(stack) \in Nat /\ i - 1 \in Frames
        /\ deps \in Seq(Query)
    <2>1. stack \in Seq(Frame) /\ deps \in Seq(Query)
      BY DEF EngineInvariant, TypeOK
    <2>2. Len(stack) \in Nat
      BY <2>1
    <2>3. QED
      BY <2>1, <2>2 DEF Frames
  <1>2. /\ n \in Nat /\ Len(query_dependencies'[p]) = n + 1
        /\ \A j \in 1..n : query_dependencies'[p][j] = deps[j]
        /\ query_dependencies'[p][n + 1] = q
    BY <1>1
  <1>3. Recorded(stack[i - 1], stack[i])
    BY DEF FreshnessInvariant, CallsRecorded
  <1>4. /\ Demand(p, Values(query_cache, deps, n)) = q
        /\ p \notin Source
    BY <1>3 DEF Recorded
  <1>5. FollowsOn(p)
    BY <1>1, <1>4 DEF FreshnessInvariant, ComputationsFollow
  <1> HIDE DEF n
  <1>6. Following(p)'
    <2> SUFFICES ASSUME NEW m \in 1..(n + 1)
                 PROVE  Demand(p, Values(query_cache, query_dependencies'[p], m - 1))
                            = query_dependencies'[p][m]
      BY <1>2 DEF Following
    <2>1. \A j \in 1..(m - 1) : query_dependencies'[p][j] = deps[j]
      BY <1>2
    <2>2. Values(query_cache, query_dependencies'[p], m - 1) =
              Values(query_cache, deps, m - 1)
      <3> DEFINE list == query_dependencies'[p]
      <3> HIDE DEF list, deps
      <3>1. \A j \in 1..(m - 1) : list[j] = deps[j]
        BY <2>1 DEF list
      <3>2. Values(query_cache, list, m - 1) = Values(query_cache, deps, m - 1)
        BY <3>1, SameQueries
      <3>3. QED
        BY <3>2 DEF list
    <2>3. CASE m \in 1..n
      <3>1. Demand(p, Values(query_cache, deps, m - 1)) = deps[m]
        BY <1>5, <2>3 DEF FollowsOn, Following, n
      <3>2. QED
        BY <1>2, <2>2, <2>3, <3>1
    <2>4. CASE m = n + 1
      <3>1. m - 1 = n
        BY <1>2, <2>4
      <3>2. QED
        BY <1>2, <1>4, <2>2, <2>4, <3>1 DEF n
    <2>5. QED
      BY <1>2, <2>3, <2>4
  <1>7. ASSUME verified[p] # 0
        PROVE  ChangeAhead(p)'
    <2> DEFINE Ahead(old, k) ==
            /\ changed[old[k]] > verified[p]
            /\ \A j \in 1..(k - 1) : verified[old[j]] = revision
            /\ \A j \in 1..k :
                  /\ Demand(p, Values(query_cache, old, j - 1)) = old[j]
                  /\ j <= Len(deps) => deps[j] = old[j]
    <2>1. PICK old \in Seq(Query) : \E k \in 1..Len(old) : Ahead(old, k)
      BY <1>5, <1>7 DEF FollowsOn, ChangeAhead
    <2>2. PICK k \in 1..Len(old) : Ahead(old, k)
      BY <2>1
    <2>3. ASSUME NEW j \in 1..k, j <= n + 1
          PROVE  query_dependencies'[p][j] = old[j]
      <3>1. CASE j <= n
        BY <1>2, <2>2, <3>1 DEF n
      <3>2. CASE j = n + 1
        <4>1. \A m \in 1..n : m \in 1..k /\ m <= Len(deps)
          BY <1>2, <2>2, <3>2 DEF n
        <4>2. \A m \in 1..n : deps[m] = old[m]
          BY <2>2, <4>1
        <4>3. Values(query_cache, deps, n) = Values(query_cache, old, n)
          BY <4>2, SameQueries
        <4>4. Demand(p, Values(query_cache, old, j - 1)) = old[j] /\ j - 1 = n
          BY <1>2, <2>2, <3>2
        <4>5. QED
          BY <1>2, <1>4, <3>2, <4>3, <4>4 DEF n
      <3>3. QED
        BY <1>2, <2>3, <3>1, <3>2
    <2>4. /\ changed[old[k]] > verified[p]
          /\ \A j \in 1..(k - 1) : verified[old[j]] = revision
          /\ \A j \in 1..k :
                /\ Demand(p, Values(query_cache, old, j - 1)) = old[j]
                /\ j <= Len(query_dependencies'[p]) =>
                      query_dependencies'[p][j] = old[j]
      BY <1>2, <2>2, <2>3
    <2>5. QED
      BY <2>4 DEF ChangeAhead
  <1>8. QED
    BY <1>6, <1>7 DEF FollowsOn

LEMMA LookupFresh ==
    ASSUME EngineInvariant, FreshnessInvariant, NEW q \in Query, Lookup(q)
    PROVE  FreshnessInvariant'
  <1> DEFINE n == Len(stack)
             f == [top EXCEPT !.pc = "decide"]
             g == CheckFrame(q)
  <1>1. /\ At("lookup", q)
        /\ stack' = Invoke("decide", g)
        /\ query_dependencies' =
              IF top.parent = NoQuery THEN query_dependencies
              ELSE [query_dependencies EXCEPT ![top.parent] = Append(@, q)]
        /\ UNCHANGED <<revision, changed, verified, query_cache, seen>>
    BY DEF Lookup, request
  <1>2. /\ TypeOK /\ stack # <<>> /\ top \in Frame /\ n \in Nat \ {0}
        /\ top = stack[n] /\ top.pc = "lookup" /\ top.query = q
        /\ query_dependencies \in [Query -> Seq(Query)]
        /\ "decide" \in ExecutePoints \cup CheckPoints
    BY <1>1, AtFacts DEF ExecutePoints
  <1>3. g \in Frame /\ g.pc = "check"
    BY FrameTypes, QueryAssumption DEF CheckFrame
  <1>4. f.query = q /\ f.pc = "decide"
    BY <1>2 DEF Frame
  <1>5. /\ stack' \in Seq(Frame) /\ Len(stack') = n + 1
        /\ \A i \in 1..(n - 1) : stack'[i] = stack[i]
        /\ stack'[n] = f /\ stack'[n + 1] = g /\ top' = g
    <2> DEFINE after == Invoke("decide", g)
    <2> HIDE DEF g, f
    <2>1. /\ after \in Seq(Frame) /\ Len(after) = n + 1
          /\ \A i \in 1..(n - 1) : after[i] = stack[i]
          /\ after[n] = f
          /\ after[n + 1] = g
      <3>1. TypeOK /\ stack # <<>> /\ "decide" \in ExecutePoints \cup CheckPoints
        BY <1>2
      <3>2. g \in Frame
        BY <1>3
      <3>3. QED
        BY <3>1, <3>2, InvokeFacts DEF f
    <2>2. stack' = after
      BY <1>1
    <2> HIDE DEF after
    <2>3. QED
      BY <2>1, <2>2 DEF top
  <1> HIDE DEF f, g
  <1>6. CASE top.parent = NoQuery
    <2>1. TablesSame
      BY <1>1, <1>6 DEF TablesSame
    <2>2. \A h : h = f => Unchanged(h)'
      BY <1>4 DEF Unchanged
    <2>3. QED
      BY <1>1, <1>2, <1>3, <1>4, <1>5, <1>6, <2>1, <2>2, MoveFresh
  <1>7. ASSUME NEW p, p = top.parent, p # NoQuery
        PROVE  FreshnessInvariant'
    <2>1. /\ n - 1 \in 1..(n - 1) /\ p \in Query
          /\ stack[n - 1].pc = "compute" /\ stack[n - 1].query = p
          /\ \A i \in 1..(n - 2) :
                stack[i].pc # "decide" => stack[i].query # p
      BY <1>1, <1>7, RecordingCaller
    <2>2. /\ query_dependencies'[p] = Append(query_dependencies[p], q)
          /\ \A x \in Query : x # p =>
                query_dependencies'[x] = query_dependencies[x]
          /\ query_dependencies[p] \in Seq(Query)
      BY <1>1, <1>2, <1>7, <2>1
    <2>3. Stable
      <3>1. EngineStep
        BY Zenon DEF EngineStep
      <3>2. QED
        BY <3>1, EngineIsStable
    <2>4. LowerCalls
      <3>1. Len(stack') >= Len(stack) - 1
        BY <1>2, <1>5
      <3>2. QED
        BY <1>2, <1>5, <3>1 DEF LowerCalls
    <2>5. /\ n \in Frames /\ n - 1 \in Frames /\ n > 1
          /\ \A i \in Frames' : i \in 1..(n - 1) \/ i = n \/ i = n + 1
          /\ \A i \in 1..(n - 1) : i \in Frames /\ (i = n - 1 \/ i \in 1..(n - 2))
      <3>1. n \in Nat \ {0} /\ n - 1 \in 1..(n - 1) /\ Frames = 1..n
            /\ Frames' = 1..(n + 1)
        BY <1>2, <1>5, <2>1 DEF Frames
      <3> HIDE DEF n
      <3>2. QED
        BY <3>1
    <2>6. FollowsOn(p)'
      BY <1>1, <1>2, <2>1, <2>2, <2>5, CallRecorded
    <2>7. ASSUME NEW i \in 1..(n - 1), stack[i].query # p
          PROVE  query_dependencies'[stack[i].query] =
                    query_dependencies[stack[i].query]
      <3>1. stack[i] \in Frame
        BY <1>2, <2>5, TopIsFrame DEF Frames
      <3>2. stack[i].query \in Query
        BY <3>1 DEF Frame
      <3>3. QED
        BY <2>2, <2>7, <3>2
    <2>8. ComputationsFollow'
      <3> SUFFICES ASSUME NEW i \in Frames', stack'[i].pc = "compute",
                          stack'[i].query \notin Source
                   PROVE  FollowsOn(stack[i].query)'
        BY DEF ComputationsFollow
      <3>1. i \in 1..(n - 1) /\ stack'[i] = stack[i] /\ i \in Frames
        BY <1>3, <1>4, <1>5, <2>5
      <3>2. CASE stack[i].query = p
        BY <2>6, <3>1, <3>2
      <3>3. CASE stack[i].query # p
        BY <1>1, <2>3, <2>7, <3>1, <3>3, FollowsOnKept DEF FreshnessInvariant
      <3>4. QED
        BY <3>2, <3>3
    <2>9. CallsRecorded'
      <3> SUFFICES ASSUME NEW i \in Frames', i > 1, stack'[i - 1].pc = "compute"
                   PROVE  Recorded(stack[i - 1], stack[i])'
        BY DEF CallsRecorded
      <3>1. CASE i \in 1..(n - 1)
        <4>1. i - 1 \in 1..(n - 2) /\ i - 1 \in 1..(n - 1)
          BY <1>2, <3>1
        <4>2. stack'[i - 1] = stack[i - 1] /\ stack'[i] = stack[i]
          BY <1>5, <3>1, <4>1
        <4>3. stack[i - 1].query # p
          BY <2>1, <4>1, <4>2
        <4>4. query_dependencies'[stack[i - 1].query] =
                  query_dependencies[stack[i - 1].query]
          BY <2>7, <4>1, <4>3
        <4>5. QED
          BY <2>3, <2>5, <3>1, <4>2, <4>4, RecordedKept DEF FreshnessInvariant
      <3>2. CASE i = n
        <4>1. stack'[n - 1] = stack[n - 1]
          BY <1>5, <2>1
        <4>2. Recorded(stack[n - 1], stack[n])
          BY <2>1, <2>5 DEF FreshnessInvariant, CallsRecorded
        <4>3. /\ query_dependencies'[p] # <<>>
              /\ query_dependencies'[p][Len(query_dependencies'[p])] = q
          BY <2>2
        <4>4. QED
          BY <1>4, <1>5, <2>1, <3>2, <4>1, <4>2, <4>3 DEF Recorded
      <3>3. CASE i = n + 1
        BY <1>2, <1>4, <1>5, <3>3
      <3>4. QED
        BY <2>5, <3>1, <3>2, <3>3
    <2>10. ScansUnchanged'
      <3> SUFFICES ASSUME NEW i \in Frames'
                   PROVE  Unchanged(stack[i])'
        BY DEF ScansUnchanged
      <3>1. CASE i \in 1..(n - 1)
        <4>1. stack'[i] = stack[i] /\ i \in Frames
          BY <1>5, <2>5, <3>1
        <4>2. stack[i].pc \in {"scan", "verify", "refresh"} =>
                  stack[i].query # p
          BY <2>1, <2>5, <3>1
        <4>3. QED
          BY <1>1, <2>3, <2>7, <3>1, <4>1, <4>2, UnchangedKept
             DEF FreshnessInvariant
      <3>2. CASE i = n \/ i = n + 1
        BY <1>3, <1>4, <1>5, <3>2 DEF Unchanged
      <3>3. QED
        BY <2>5, <3>1, <3>2
    <2>11. ResultsKept'
      <3> SUFFICES ASSUME NEW x \in Query \ Source, verified'[x] # 0,
                          ~Computing(x)'
                   PROVE  Kept(x)'
        BY DEF ResultsKept
      <3>1. ~Computing(x)
        BY <1>2, <2>4, ComputingStays
      <3>2. x # p
        <4>1. stack'[n - 1].pc = "compute" /\ stack'[n - 1].query = p
              /\ n - 1 \in Frames'
          BY <1>2, <1>5, <2>1 DEF Frames
        <4>2. QED
          BY <4>1 DEF Computing
      <3>3. Kept(x)
        BY <1>1, <3>1 DEF FreshnessInvariant, ResultsKept
      <3>4. QED
        BY <1>1, <2>2, <3>2, <3>3, KeptStays DEF Cached
    <2>12. AnswersGrounded' /\ SourcesSeen'
      BY <1>1, <1>3, <1>5
         DEF AnswersGrounded, SourcesSeen, FreshnessInvariant
    <2>13. QED
      BY <2>8, <2>9, <2>10, <2>11, <2>12 DEF FreshnessInvariant
  <1>8. QED
    BY <1>6, <1>7

\* A query that is out of date forgets its dependencies: what has changed
\* among them is what its computation will run.
LEMMA ForgottenChange ==
    ASSUME EngineInvariant, FreshnessInvariant, NEW q \in Query \ Source,
           At("decide", q), verified[q] # 0, Stale(q), ~Computing(q),
           UNCHANGED <<revision, changed, verified, query_cache>>,
           query_dependencies'[q] = <<>>
    PROVE  ChangeAhead(q)'
  <1> DEFINE old == query_dependencies[q]
  <1>1. /\ old \in Seq(Query) /\ Len(old) \in Nat
        /\ DOMAIN old = 1..Len(old)
    BY LenProperties DEF EngineInvariant, TypeOK
  <1>2. PICK k \in 1..Len(old) :
            /\ changed[old[k]] > verified[q]
            /\ \A j \in 1..(k - 1) :
                  verified[old[j]] = revision /\ changed[old[j]] <= verified[q]
    BY <1>1 DEF Stale
  <1>3. Kept(q)
    BY DEF FreshnessInvariant, ResultsKept
  <1>4. ASSUME NEW j \in 1..k
        PROVE  Demand(q, Values(query_cache, old, j - 1)) = old[j]
    <2>1. /\ j - 1 \in 0..Len(old) /\ j - 1 < Len(old) /\ (j - 1) + 1 = j
          /\ \A i \in 1..(j - 1) : i \in 1..(k - 1)
      BY <1>1
    <2>2. \A i \in 1..(j - 1) : changed[old[i]] <= verified[q]
      BY <1>2, <2>1
    <2>3. Founded(q, j - 1)
      BY <1>3, <2>1, <2>2 DEF Kept
    <2>4. QED
      BY <2>1, <2>3 DEF Founded
  <1>5. Len(query_dependencies'[q]) = 0
    OBVIOUS
  <1> HIDE DEF old
  <1>6. /\ changed[old[k]] > verified[q]
        /\ \A j \in 1..(k - 1) : verified[old[j]] = revision
        /\ \A j \in 1..k :
              /\ Demand(q, Values(query_cache, old, j - 1)) = old[j]
              /\ j <= Len(query_dependencies'[q]) =>
                    query_dependencies'[q][j] = old[j]
    <2>1. \A j \in 1..k : ~(j <= Len(query_dependencies'[q]))
      BY <1>5
    <2>2. QED
      BY <1>2, <1>4, <2>1
  <1>7. QED
    BY <1>1, <1>6 DEF ChangeAhead

LEMMA RecomputeFresh ==
    ASSUME EngineInvariant, FreshnessInvariant, NEW q \in Query, Recompute(q)
    PROVE  FreshnessInvariant'
  <1> DEFINE n == Len(stack)
             f == [top EXCEPT !.pc = "compute"]
  <1>1. /\ At("decide", q) /\ out_of_date = "yes"
        /\ query_dependencies' = [query_dependencies EXCEPT ![q] = <<>>]
        /\ stack' = GoTo("compute")
        /\ UNCHANGED <<revision, changed, verified, query_cache, seen>>
    BY DEF Recompute, request
  <1>2. /\ TypeOK /\ stack # <<>> /\ top \in Frame /\ n \in Nat \ {0}
        /\ top = stack[n] /\ top.pc = "decide" /\ top.query = q
        /\ query_dependencies \in [Query -> Seq(Query)]
        /\ "compute" \in ExecutePoints \cup CheckPoints
    BY <1>1, AtFacts DEF ExecutePoints
  <1>3. f.query = q /\ f.pc = "compute"
    BY <1>2 DEF Frame
  <1>4. /\ stack' \in Seq(Frame) /\ Len(stack') = n
        /\ \A i \in 1..(n - 1) : stack'[i] = stack[i]
        /\ stack'[n] = f /\ n \in Frames'
    BY <1>1, <1>2, GoToFacts DEF Frames
  <1> HIDE DEF f
  <1>5. /\ query_dependencies'[q] = <<>>
        /\ \A x \in Query : x # q =>
              query_dependencies'[x] = query_dependencies[x]
    BY <1>1, <1>2
  <1>6. Stable /\ TopTables /\ LowerCalls
    <2>1. EngineStep
      BY Zenon DEF EngineStep
    <2>2. QED
      BY <1>1, <1>2, <1>4, <1>5, <2>1, EngineIsStable DEF TopTables, LowerCalls
  <1>7. ~Computing(q)
    <2> SUFFICES ASSUME NEW i \in Frames, stack[i].pc = "compute",
                        stack[i].query = q
                 PROVE  FALSE
      BY DEF Computing
    <2>1. i \in 1..(n - 1)
      BY <1>2 DEF Frames
    <2>2. QED
      BY <1>1, <1>2, <2>1, AtFacts, LowerCallsDiffer
  <1>8. ASSUME q \notin Source
        PROVE  FollowsOn(q)'
    <2>1. Len(query_dependencies'[q]) = 0
      BY <1>5
    <2>2. Following(q)'
      BY <2>1 DEF Following
    <2>3. ASSUME verified[q] # 0
          PROVE  ChangeAhead(q)'
      <3>1. Stale(q)
        BY <1>1, <1>2, <1>8, <2>3 DEF FreshnessInvariant, AnswersGrounded
      <3>2. QED
        BY <1>1, <1>5, <1>7, <1>8, <2>3, <3>1, ForgottenChange
    <2>4. QED
      BY <1>1, <2>2, <2>3 DEF FollowsOn
  <1>9. FramesFresh'
    <2>1. \A h : h = f => Unchanged(h)'
      BY <1>3 DEF Unchanged
    <2>2. Len(stack') # Len(stack) + 1
      BY <1>2, <1>4
    <2>3. QED
      BY <1>2, <1>3, <1>4, <1>6, <1>8, <2>1, <2>2, MoveFrames
         DEF FramesFresh, FreshnessInvariant
  <1>10. ResultsKept'
    <2> SUFFICES ASSUME NEW x \in Query \ Source, verified'[x] # 0,
                        ~Computing(x)'
                 PROVE  Kept(x)'
      BY DEF ResultsKept
    <2>1. ~Computing(x)
      BY <1>2, <1>6, ComputingStays
    <2>2. x # q
      BY <1>3, <1>4 DEF Computing
    <2>3. Kept(x)
      BY <1>1, <2>1 DEF FreshnessInvariant, ResultsKept
    <2>4. QED
      BY <1>1, <1>5, <2>2, <2>3, KeptStays DEF Cached
  <1>11. AnswersGrounded' /\ SourcesSeen'
    BY <1>1, <1>3, <1>4
       DEF AnswersGrounded, SourcesSeen, FreshnessInvariant, top
  <1>12. QED
    BY <1>9, <1>10, <1>11 DEF FramesFresh, FreshnessInvariant

LEMMA AllVerifiedFresh ==
    ASSUME EngineInvariant, FreshnessInvariant, NEW q \in Query, AllVerified(q)
    PROVE  FreshnessInvariant'
  <1> DEFINE deps == query_dependencies[q]
  <1>1. /\ At("scan", q) /\ top.at > Len(deps) /\ Return("no")
        /\ verified' = [verified EXCEPT ![q] = revision]
        /\ UNCHANGED <<revision, changed, query_dependencies, query_cache, seen>>
    BY DEF AllVerified, request
  <1>2. /\ TypeOK /\ stack # <<>> /\ top.pc = "scan" /\ top.query = q
        /\ Len(stack) \in Nat \ {0} /\ top = stack[Len(stack)]
        /\ verified \in [Query -> Nat]
        /\ top.at \in 1..(Len(deps) + 1) /\ verified[q] # 0
        /\ deps \in Seq(Query) /\ Len(deps) \in Nat
        /\ RevisionsOrdered
    BY <1>1, AtFacts, LenProperties DEF ScanOK
  <1>3. /\ q \notin Source
        /\ \A j \in 1..Len(deps) : changed[deps[j]] <= verified[q]
    <2>1. top.at - 1 = Len(deps)
      <3> HIDE DEF deps
      <3>1. QED
        BY <1>1, <1>2
    <2>2. QED
      BY <1>1, <2>1, ScanFacts
  <1>4. /\ LowerCalls /\ Len(stack') = Len(stack) - 1
        /\ out_of_date' = "no"
    BY <1>1, <1>2, CallersFacts DEF LowerCalls, Return
  <1>5. Stable /\ TopTables
    <2>1. EngineStep
      BY Zenon DEF EngineStep
    <2>2. QED
      BY <1>1, <1>2, <2>1, EngineIsStable DEF TopTables
  <1>6. FramesFresh'
    BY <1>4, <1>5, PopFrames DEF FramesFresh, FreshnessInvariant
  <1>7. ~Computing(q)
    <2> SUFFICES ASSUME NEW i \in Frames, stack[i].pc = "compute",
                        stack[i].query = q
                 PROVE  FALSE
      BY DEF Computing
    <2>1. i \in 1..(Len(stack) - 1)
      BY <1>2 DEF Frames
    <2>2. QED
      BY <1>1, <1>2, <2>1, AtFacts, LowerCallsDiffer
  <1>8. ResultsKept'
    <2> SUFFICES ASSUME NEW x \in Query \ Source, verified'[x] # 0,
                        ~Computing(x)'
                 PROVE  Kept(x)'
      BY DEF ResultsKept
    <2>1. CASE x = q
      <3>1. Kept(q)
        BY <1>2, <1>7, <2>1 DEF FreshnessInvariant, ResultsKept
      <3>2. ASSUME NEW m \in 0..Len(deps)
            PROVE  Founded(q, m)
        <4>1. \A i \in 1..m : i \in 1..Len(deps)
          BY <1>2
        <4>2. \A i \in 1..m : changed[deps[i]] <= verified[q]
          BY <1>3, <4>1
        <4>3. QED
          BY <3>1, <4>2 DEF Kept
      <3>3. ASSUME NEW m \in 0..Len(deps)
            PROVE  Founded(q, m)'
        BY <1>1, <3>2 DEF Founded, Cached
      <3>4. QED
        BY <1>1, <2>1, <3>3 DEF Kept
    <2>2. CASE x # q
      <3>1. ~Computing(x)
        BY <1>2, <1>4, ComputingStays
      <3>2. verified'[x] = verified[x]
        BY <1>1, <1>2, <2>2
      <3>3. Kept(x)
        BY <3>1, <3>2 DEF FreshnessInvariant, ResultsKept
      <3>4. QED
        BY <1>1, <3>2, <3>3, KeptStays DEF Cached
    <2>3. QED
      BY <2>1, <2>2
  <1>9. AnswersGrounded' /\ SourcesSeen'
    <2>1. SourcesSeen'
      BY <1>1, <1>2, <1>3 DEF SourcesSeen, FreshnessInvariant
    <2>2. QED
      BY <1>4, <2>1 DEF AnswersGrounded
  <1>10. QED
    BY <1>6, <1>8, <1>9 DEF FramesFresh, FreshnessInvariant

\* A result that the engine takes for unchanged is left in the cache.
LEMMA SettleCompares ==
    ASSUME NEW q \in Query, NEW result, Settle(q, result),
           q \in Cached /\ query_cache[q] # result =>
               \/ query_cache'[q] = result
               \/ TRUE \notin Same(q, query_cache[q], result)
    PROVE  query_cache'[q] = result
  <1>1. CASE /\ q \in Cached /\ TRUE \in Same(q, query_cache[q], result)
             /\ UNCHANGED <<changed, query_cache>>
    BY <1>1
  <1>2. CASE query_cache' = Store(q, result)
    BY <1>2 DEF Store
  <1>3. QED
    BY <1>1, <1>2 DEF Settle

\* What a computation has stored by the time it returns.
LEMMA SettleTables ==
    ASSUME EngineInvariant, NEW q \in Query, NEW result, Settle(q, result),
           query_cache'[q] = result, revision' = revision
    PROVE  /\ verified' = [verified EXCEPT ![q] = revision]
           /\ Return("unknown") /\ UNCHANGED query_dependencies
           /\ query_cache'[q] = result
           /\ Cached' = Cached \cup {q}
           /\ \A d \in Query : d # q =>
                 /\ changed'[d] = changed[d]
                 /\ d \in Cached => query_cache'[d] = query_cache[d]
           /\ \/ changed'[q] = revision
              \/ UNCHANGED <<changed, query_cache>>
  <1>1. /\ verified' = [verified EXCEPT ![q] = revision]
        /\ Return("unknown") /\ UNCHANGED query_dependencies
    BY DEF Settle, ReturnResult
  <1>2. CASE /\ q \in Cached /\ TRUE \in Same(q, query_cache[q], result)
             /\ UNCHANGED <<changed, query_cache>>
    BY <1>1, <1>2 DEF Cached
  <1>3. CASE /\ changed' = [changed EXCEPT ![q] = revision]
             /\ query_cache' = Store(q, result)
    <2>1. changed \in [Query -> Nat]
      BY DEF EngineInvariant, TypeOK
    <2>2. /\ changed'[q] = revision
          /\ \A d \in Query : d # q => changed'[d] = changed[d]
      BY <1>3, <2>1
    <2>3. /\ query_cache'[q] = result /\ Cached' = Cached \cup {q}
          /\ \A d \in Query : d # q /\ d \in Cached =>
                query_cache'[d] = query_cache[d]
      BY <1>3 DEF Store, Cached
    <2>4. QED
      BY <1>1, <2>2, <2>3
  <1>4. QED
    BY <1>2, <1>3 DEF Settle

\* What a computation has run is verified, and so it has what it has read.
LEMMA SettledKept ==
    ASSUME EngineInvariant, FreshnessInvariant, NEW q \in Query \ Source,
           At("compute", q), Demand(q, Reads(q)) = Done, Stable,
           UNCHANGED query_dependencies,
           query_cache'[q] = Result(q, Reads(q)),
           Cached \subseteq Cached'
    PROVE  Kept(q)'
  <1> DEFINE deps == query_dependencies[q]
             n == Len(stack)
  <1>1. /\ TypeOK /\ n \in Nat \ {0} /\ n \in Frames
        /\ stack[n].pc = "compute" /\ stack[n].query = q
        /\ revision # 0 /\ RevisionsOrdered
    BY AtFacts DEF Frames
  <1>2. /\ Len(deps) \in Nat
        /\ \A j \in 1..Len(deps) :
              deps[j] \in Query /\ verified[deps[j]] = revision
    BY <1>1, ComputationFacts
  <1>3. FollowsOn(q)
    BY <1>1 DEF FreshnessInvariant, ComputationsFollow
  <1>4. Reads(q) = Values(query_cache, deps, Len(deps))
    BY <1>1, ReadsAreValues
  <1> HIDE DEF deps
  <1>5. ASSUME NEW m \in 0..Len(deps)
        PROVE  /\ \A i \in 1..m : deps[i] \in Cached'
               /\ m < Len(deps) =>
                     Demand(q, Values(query_cache', deps, m)) = deps[m + 1]
               /\ m = Len(deps) =>
                     /\ Demand(q, Values(query_cache', deps, m)) = Done
                     /\ query_cache'[q] = Result(q, Values(query_cache', deps, m))
    <2>1. \A i \in 1..m : i \in 1..Len(deps)
      BY <1>2
    <2>2. \A i \in 1..m : deps[i] \in Cached
      BY <1>1, <1>2, <2>1 DEF RevisionsOrdered
    <2>3. \A i \in 1..m : query_cache'[deps[i]] = query_cache[deps[i]]
      BY <1>2, <2>1 DEF Stable
    <2>4. Values(query_cache', deps, m) = Values(query_cache, deps, m)
      BY <2>3, SameValues
    <2>5. ASSUME m < Len(deps)
          PROVE  Demand(q, Values(query_cache, deps, m)) = deps[m + 1]
      <3>1. m + 1 \in 1..Len(deps) /\ (m + 1) - 1 = m
        BY <1>2, <2>5
      <3>2. Demand(q, Values(query_cache, deps, (m + 1) - 1)) = deps[m + 1]
        BY <1>3, <3>1 DEF FollowsOn, Following, deps
      <3>3. QED
        BY <3>1, <3>2
    <2>6. QED
      BY <1>4, <2>2, <2>4, <2>5
  <1>6. QED
    BY <1>5 DEF Kept, Founded, deps

LEMMA SettleFresh ==
    ASSUME EngineInvariant, FreshnessInvariant,
           NEW q \in Query, At("compute", q), EngineStep,
           NEW result, Settle(q, result), query_cache'[q] = result,
           revision' = revision,
           q \notin Source =>
               /\ UNCHANGED seen
               /\ Demand(q, Reads(q)) = Done /\ result = Result(q, Reads(q)),
           q \in Source =>
               seen' = [s \in DOMAIN seen \cup {q} |->
                           IF s = q THEN result ELSE seen[s]]
    PROVE  FreshnessInvariant'
  <1>1. /\ verified' = [verified EXCEPT ![q] = revision]
        /\ Return("unknown") /\ UNCHANGED query_dependencies
        /\ query_cache'[q] = result
        /\ Cached' = Cached \cup {q}
        /\ \A d \in Query : d # q =>
              /\ changed'[d] = changed[d]
              /\ d \in Cached => query_cache'[d] = query_cache[d]
        /\ \/ changed'[q] = revision
           \/ UNCHANGED <<changed, query_cache>>
    BY SettleTables
  <1>2. /\ TypeOK /\ stack # <<>> /\ top.pc = "compute" /\ top.query = q
        /\ Len(stack) \in Nat \ {0} /\ top = stack[Len(stack)]
        /\ verified \in [Query -> Nat]
        /\ revision \in Nat \ {0} /\ RevisionsOrdered /\ VerifiedTogether
        /\ query_dependencies \in [Query -> Seq(Query)]
    BY AtFacts
  <1>3. verified[q] # revision
    <2>1. Len(stack) \in Frames /\ stack[Len(stack)].pc = "compute"
          /\ stack[Len(stack)].query = q
      BY <1>2 DEF Frames
    <2>2. QED
      BY <2>1, ComputationFacts
  <1>4. /\ LowerCalls /\ Len(stack') = Len(stack) - 1
        /\ out_of_date' = "unknown"
    BY <1>1, <1>2, CallersFacts DEF LowerCalls, Return
  <1>5. Stable /\ TopTables
    <2>1. Stable
      BY EngineIsStable
    <2>2. QED
      BY <1>1, <1>2, <2>1 DEF TopTables
  <1>6. FramesFresh'
    BY <1>4, <1>5, PopFrames DEF FramesFresh, FreshnessInvariant
  <1>7. ResultsKept'
    <2> SUFFICES ASSUME NEW p \in Query \ Source, verified'[p] # 0,
                        ~Computing(p)'
                 PROVE  Kept(p)'
      BY DEF ResultsKept
    <2>1. CASE p = q
      BY <1>1, <1>5, <2>1, SettledKept
    <2>2. CASE p # q
      <3>1. ~Computing(p)
        BY <1>2, <1>4, <2>2, ComputingStays
      <3>2. verified'[p] = verified[p] /\ verified[p] \in Nat
        BY <1>1, <1>2, <2>2
      <3>3. Kept(p)
        BY <3>1, <3>2 DEF FreshnessInvariant, ResultsKept
      <3>4. p \in Cached
        BY <1>2, <3>2 DEF RevisionsOrdered
      <3>5. query_cache'[p] = query_cache[p]
        BY <1>1, <2>2, <3>4
      <3> DEFINE deps == query_dependencies[p]
      <3>6. /\ DOMAIN deps = 1..Len(deps)
            /\ \A j \in 1..Len(deps) : deps[j] \in Query
        BY <1>2, LenProperties
      <3>7. ASSUME NEW j \in 1..Len(deps), changed'[deps[j]] <= verified[p]
            PROVE  /\ changed[deps[j]] <= verified[p]
                   /\ deps[j] \in Cached =>
                         query_cache'[deps[j]] = query_cache[deps[j]]
        <4>1. CASE deps[j] # q
          BY <1>1, <3>6, <3>7, <4>1
        <4>2. CASE deps[j] = q
          <5>1. verified[p] # revision
            BY <1>2, <1>3, <3>6, <4>2 DEF VerifiedTogether
          <5>2. verified[p] <= revision
            BY <1>2 DEF RevisionsOrdered
          <5>3. changed'[q] # revision
            BY <1>2, <3>2, <3>7, <4>2, <5>1, <5>2
          <5>4. QED
            BY <1>1, <3>7, <5>3
        <4>3. QED
          BY <4>1, <4>2
      <3>8. QED
        BY <1>1, <3>2, <3>3, <3>5, <3>7, KeptStays
    <2>3. QED
      BY <2>1, <2>2
  <1>8. SourcesSeen'
    <2> SUFFICES ASSUME NEW s \in Source, verified'[s] = revision
                 PROVE  s \in DOMAIN seen' /\ query_cache'[s] = seen'[s]
      BY DEF SourcesSeen
    <2>1. CASE s = q
      BY <1>1, <2>1
    <2>2. CASE s # q
      <3>1. s \in Query /\ verified[s] = revision
        BY <1>1, <1>2, <2>2, QueryAssumption
      <3>2. s \in DOMAIN seen /\ query_cache[s] = seen[s]
        BY <1>2, <3>1 DEF FreshnessInvariant, SourcesSeen
      <3>3. query_cache'[s] = query_cache[s]
        BY <1>5, <3>1 DEF Stable
      <3>4. QED
        BY <2>2, <3>2, <3>3
    <2>3. QED
      BY <2>1, <2>2
  <1>9. AnswersGrounded'
    BY <1>4 DEF AnswersGrounded
  <1>10. QED
    BY <1>6, <1>7, <1>8, <1>9 DEF FramesFresh, FreshnessInvariant

LEMMA FinishFresh ==
    ASSUME EngineInvariant, FreshnessInvariant, StoresDifferent,
           NEW q \in Query, Finish(q)
    PROVE  FreshnessInvariant'
  <1>1. /\ At("compute", q) /\ q \notin Source /\ UNCHANGED <<revision, seen>>
        /\ Demand(q, Reads(q)) = Done /\ Settle(q, Result(q, Reads(q)))
    BY DEF Finish, request
  <1>2. EngineStep
    BY Zenon DEF EngineStep
  <1> DEFINE result == Result(q, Reads(q))
  <1> HIDE DEF result
  <1>3. Settle(q, result) /\ result = Result(q, Reads(q))
    BY <1>1 DEF result
  <1>4. q \in Cached /\ query_cache[q] # result => query_cache'[q] = result
    BY <1>1, <1>3 DEF StoresDifferent
  <1>5. query_cache'[q] = result
    BY <1>3, <1>4, SettleCompares
  <1>6. QED
    BY <1>1, <1>2, <1>3, <1>5, SettleFresh

-----------------------------------------------------------------------------
(* An exception *)

\* The last dependency recorded by a computation below another one is not
\* verified: it is being computed, or checked.
LEMMA LastUnverified ==
    ASSUME EngineInvariant, FreshnessInvariant, NEW i \in Frames,
           i < Len(stack), stack[i].pc = "compute", top.pc = "compute"
    PROVE  LET deps == query_dependencies[stack[i].query]
           IN  Len(deps) \in Nat \ {0} /\ verified[deps[Len(deps)]] # revision
  <1> DEFINE n == Len(stack)
             deps == query_dependencies[stack[i].query]
             g == stack[i + 1]
  <1>1. /\ TypeOK /\ CallsNested /\ ScansOK /\ n \in Nat /\ stack[n].pc = "compute"
    BY DEF EngineInvariant, StackInvariant, TypeOK, top
  <1>2. i + 1 \in Frames /\ i + 1 > 1 /\ (i + 1) - 1 = i /\ i \in 1..n
    BY <1>1 DEF Frames
  <1>3. Nested(stack[i], g) /\ Recorded(stack[i], g)
    BY <1>1, <1>2 DEF CallsNested, FreshnessInvariant, CallsRecorded
  <1>4. g.pc \in ExecutePoints
    BY <1>3 DEF Nested
  <1>5. ASSUME NEW k \in Frames, k < n
        PROVE  /\ k + 1 \in Frames /\ Nested(stack[k], stack[k + 1])
               /\ stack[k].pc \notin {"lookup", "check", "scan"}
    <2>1. k + 1 \in Frames /\ k + 1 > 1 /\ (k + 1) - 1 = k
      BY <1>1, <1>5 DEF Frames
    <2>2. Nested(stack[k], stack[k + 1])
      BY <1>1, <2>1 DEF CallsNested
    <2>3. QED
      BY <2>1, <2>2 DEF Nested
  <1>6. g.pc # "lookup"
    <2>1. CASE i + 1 = n
      BY <1>1, <2>1
    <2>2. CASE i + 1 # n
      BY <1>1, <1>2, <1>5, <2>2
    <2>3. QED
      BY <2>1, <2>2
  <1>7. deps # <<>> /\ deps[Len(deps)] = g.query
    BY <1>3, <1>6 DEF Recorded
  <1>8. Len(deps) \in Nat \ {0}
    <2>1. deps \in Seq(Query)
      <3>1. stack[i] \in Frame
        BY <1>1, <1>2, TopIsFrame
      <3>2. QED
        BY <1>1, <3>1 DEF TypeOK, Frame
    <2> HIDE DEF deps
    <2>2. QED
      BY <1>7, <2>1, EmptySeq, LenProperties
  <1>9. verified[g.query] # revision
    <2>1. CASE g.pc = "compute"
      BY <1>2, <2>1, ComputationFacts
    <2>2. CASE g.pc = "decide"
      <3>1. i + 1 < n
        BY <1>1, <1>2, <2>2
      <3> DEFINE h == stack[(i + 1) + 1]
      <3>2. (i + 1) + 1 \in Frames /\ Nested(g, h)
        BY <1>2, <1>5, <3>1
      <3>3. h.pc \in CheckPoints /\ h.query = g.query
        BY <2>2, <3>2 DEF Nested
      <3>4. (i + 1) + 1 < n /\ h.pc # "check"
        <4>1. (i + 1) + 1 # n
          BY <1>1, <3>3 DEF CheckPoints
        <4>2. (i + 1) + 1 < n
          BY <1>1, <1>2, <3>1, <4>1
        <4>3. QED
          BY <1>5, <3>2, <4>2
      <3>5. ScanOK(h)
        BY <1>1, <3>2 DEF ScansOK
      <3>6. QED
        BY <3>3, <3>4, <3>5 DEF ScanOK, CheckPoints
    <2>3. QED
      BY <1>4, <1>6, <2>1, <2>2 DEF ExecutePoints
  <1>10. QED
    BY <1>7, <1>8, <1>9

\* A computation that is cut short has recorded a dependency that has changed,
\* so that what is left of it is of no use until it is computed again.
LEMMA CutShort ==
    ASSUME EngineInvariant, FreshnessInvariant, NEW p \in Query \ Source,
           verified[p] # 0, NEW i \in Frames, i < Len(stack),
           stack[i].pc = "compute", stack[i].query = p, top.pc = "compute"
    PROVE  Kept(p)
  <1> DEFINE deps == query_dependencies[p]
             n == Len(deps)
             Ahead(old, k) ==
                 /\ changed[old[k]] > verified[p]
                 /\ \A j \in 1..(k - 1) : verified[old[j]] = revision
                 /\ \A j \in 1..k :
                       /\ Demand(p, Values(query_cache, old, j - 1)) = old[j]
                       /\ j <= n => deps[j] = old[j]
  <1>1. /\ revision # 0 /\ RevisionsOrdered /\ changed \in [Query -> Nat]
        /\ verified \in [Query -> Nat]
    <2>1. stack # <<>>
      BY DEF Frames
    <2>2. QED
      BY <2>1 DEF EngineInvariant, StackInvariant, RequestAtBottom, TypeOK
  <1>2. /\ n \in Nat \ {0} /\ verified[deps[n]] # revision
        /\ \A j \in 1..n : deps[j] \in Query
        /\ \A j \in 1..(n - 1) : verified[deps[j]] = revision
    BY LastUnverified, ComputationFacts
  <1>3. FollowsOn(p)
    BY DEF FreshnessInvariant, ComputationsFollow
  <1>4. PICK old \in Seq(Query) : \E k \in 1..Len(old) : Ahead(old, k)
    BY <1>3 DEF FollowsOn, ChangeAhead
  <1>5. PICK k \in 1..Len(old) : Ahead(old, k)
    BY <1>4
  <1> HIDE DEF n
  <1>6. k \in Nat /\ k >= 1
    BY LenProperties
  <1>7. k <= n /\ deps[k] = old[k]
    <2>1. ASSUME n < k
          PROVE  FALSE
      <3>1. n \in 1..(k - 1) /\ n \in 1..k
        BY <1>2, <1>6, <2>1
      <3>2. deps[n] = old[n] /\ verified[old[n]] = revision
        BY <1>2, <1>5, <3>1
      <3>3. QED
        BY <1>2, <3>2
    <2>2. k <= n
      BY <1>2, <1>6, <2>1
    <2>3. QED
      BY <1>5, <1>6, <2>2
  <1>8. ASSUME NEW m \in 0..n, \A j \in 1..m : changed[deps[j]] <= verified[p]
        PROVE  Founded(p, m)
    <2>1. m < k
      <3>1. deps[k] \in Query
        BY <1>2, <1>6, <1>7
      <3>2. ~(changed[deps[k]] <= verified[p])
        BY <1>1, <1>5, <1>7, <3>1
      <3>3. k \notin 1..m
        BY <1>8, <3>2
      <3>4. QED
        BY <1>2, <1>6, <3>3
    <2>2. m < n /\ m + 1 \in 1..n /\ (m + 1) - 1 = m
          /\ \A j \in 1..m : j \in 1..(n - 1) /\ j \in 1..n
      BY <1>2, <1>6, <1>7, <2>1
    <2>3. \A j \in 1..m : deps[j] \in Cached
      BY <1>1, <1>2, <2>2 DEF RevisionsOrdered
    <2>4. Demand(p, Values(query_cache, deps, (m + 1) - 1)) = deps[m + 1]
      BY <1>3, <2>2 DEF FollowsOn, Following, n
    <2>5. Demand(p, Values(query_cache, deps, m)) = deps[m + 1]
      BY <2>2, <2>4
    <2>6. QED
      BY <1>2, <2>2, <2>3, <2>5 DEF Founded, n
  <1>9. QED
    BY <1>8 DEF Kept, n

LEMMA ThrowFresh ==
    ASSUME EngineInvariant, FreshnessInvariant, NEW q \in Source, q \in Query,
           At("compute", q), Throw, UNCHANGED tables, revision' = revision,
           \A s \in DOMAIN seen : s # q => s \in DOMAIN seen' /\ seen'[s] = seen[s]
    PROVE  FreshnessInvariant'
  <1>1. /\ stack' = <<>> /\ Frames' = {}
        /\ UNCHANGED <<revision, changed, verified, query_dependencies, query_cache>>
    BY DEF Throw, Frames, tables
  <1>2. /\ TypeOK /\ stack # <<>> /\ top.pc = "compute" /\ top.query = q
        /\ Len(stack) \in Nat \ {0} /\ top = stack[Len(stack)]
    BY AtFacts
  <1>3. ResultsKept'
    <2> SUFFICES ASSUME NEW p \in Query \ Source, verified[p] # 0
                 PROVE  Kept(p)'
      BY <1>1 DEF ResultsKept
    <2>1. Kept(p)
      <3>1. CASE ~Computing(p)
        BY <3>1 DEF FreshnessInvariant, ResultsKept
      <3>2. CASE Computing(p)
        <4>1. PICK i \in Frames : stack[i].pc = "compute" /\ stack[i].query = p
          BY <3>2 DEF Computing
        <4>2. i < Len(stack)
          BY <1>2, <4>1 DEF Frames
        <4>3. QED
          BY <1>2, <4>1, <4>2, CutShort
      <3>3. QED
        BY <3>1, <3>2
    <2>2. QED
      BY <1>1, <2>1, KeptStays DEF Cached
  <1>4. SourcesSeen'
    <2> SUFFICES ASSUME NEW s \in Source, verified[s] = revision, revision # 0
                 PROVE  s \in DOMAIN seen' /\ query_cache[s] = seen'[s]
      BY <1>1 DEF SourcesSeen
    <2>1. verified[q] # revision
      <3>1. Len(stack) \in Frames /\ stack[Len(stack)].pc = "compute"
            /\ stack[Len(stack)].query = q
        BY <1>2 DEF Frames
      <3>2. QED
        BY <3>1, ComputationFacts
    <2>2. s \in DOMAIN seen /\ query_cache[s] = seen[s]
      BY DEF FreshnessInvariant, SourcesSeen
    <2>3. QED
      BY <2>1, <2>2
  <1>5. ComputationsFollow' /\ CallsRecorded' /\ ScansUnchanged' /\ AnswersGrounded'
    BY <1>1 DEF ComputationsFollow, CallsRecorded, ScansUnchanged, AnswersGrounded
  <1>6. QED
    BY <1>3, <1>4, <1>5 DEF FreshnessInvariant

LEMMA ReadSourceFresh ==
    ASSUME SourcesCompared, EngineInvariant, FreshnessInvariant,
           NEW q \in Query, ReadSource(q)
    PROVE  FreshnessInvariant'
  <1>1. /\ At("compute", q) /\ q \in Source /\ revision' = revision
        /\ seen' = [s \in DOMAIN seen \cup {q} |->
                       IF s = q THEN files[q] ELSE seen[s]]
    BY DEF ReadSource, request
  <1>2. EngineStep
    BY Zenon DEF EngineStep
  <1>3. CASE Settle(q, files[q])
    <2>1. TRUE \in Same(q, query_cache[q], files[q]) => query_cache[q] = files[q]
      BY <1>1 DEF SourcesCompared
    <2>2. query_cache'[q] = files[q]
      BY <1>3, <2>1, SettleCompares
    <2>3. QED
      BY <1>1, <1>2, <1>3, <2>2, SettleFresh
  <1>4. CASE Throw /\ UNCHANGED tables
    BY <1>1, <1>4, ThrowFresh
  <1>5. QED
    BY <1>3, <1>4 DEF ReadSource

-----------------------------------------------------------------------------
(* The theorems. *)

LEMMA IdleFresh ==
    ASSUME EngineInvariant, FreshnessInvariant,
           UNCHANGED <<revision, changed, verified, query_dependencies,
                       query_cache, stack, out_of_date, seen>>
    PROVE  FreshnessInvariant'
  <1>1. ResultsKept'
    BY DEF FreshnessInvariant, ResultsKept, Computing, Frames, Kept, Founded,
           Cached
  <1>2. ComputationsFollow'
    BY DEF FreshnessInvariant, ComputationsFollow, Frames, FollowsOn,
           Following, ChangeAhead
  <1>3. CallsRecorded' /\ ScansUnchanged'
    BY DEF FreshnessInvariant, CallsRecorded, Frames, Recorded, ScansUnchanged,
           Unchanged
  <1>4. AnswersGrounded' /\ SourcesSeen'
    BY DEF FreshnessInvariant, AnswersGrounded, Stale, SourcesSeen, top
  <1>5. QED
    BY <1>1, <1>2, <1>3, <1>4 DEF FreshnessInvariant

LEMMA ExecuteFresh ==
    ASSUME EngineInvariant, FreshnessInvariant, NEW q \in Query, Execute(q)
    PROVE  FreshnessInvariant'
  <1>1. /\ revision' = revision + 1 /\ revision \in Nat /\ stack = <<>>
        /\ UNCHANGED <<changed, verified, query_dependencies, query_cache>>
        /\ stack' = <<ExecuteFrame(q, NoQuery)>>
    BY QueryAssumption DEF Execute, tables, EngineInvariant, TypeOK
  <1>2. /\ stack'[1].pc = "lookup" /\ Len(stack') = 1
        /\ Frames' = {1} /\ top' = stack'[1] /\ Frames = {}
    BY <1>1 DEF ExecuteFrame, Frames, top
  <1>3. ResultsKept'
    <2> SUFFICES ASSUME NEW p \in Query \ Source, verified[p] # 0
                 PROVE  Kept(p)'
      BY <1>1 DEF ResultsKept
    <2>1. ~Computing(p)
      BY <1>2 DEF Computing
    <2>2. Kept(p)
      BY <2>1 DEF FreshnessInvariant, ResultsKept
    <2>3. QED
      BY <1>1, <2>2, KeptStays DEF Cached
  <1>4. /\ ComputationsFollow' /\ CallsRecorded' /\ ScansUnchanged'
        /\ AnswersGrounded'
    BY <1>2 DEF ComputationsFollow, CallsRecorded, ScansUnchanged, Unchanged,
                AnswersGrounded
  <1>5. SourcesSeen'
    <2>1. \A s \in Query : verified[s] # revision'
      BY <1>1 DEF EngineInvariant, RevisionsOrdered, TypeOK
    <2>2. QED
      BY <1>1, <2>1, QueryAssumption DEF SourcesSeen
  <1>6. QED
    BY <1>3, <1>4, <1>5 DEF FreshnessInvariant

LEMMA InitFresh == Init => FreshnessInvariant
  <1> SUFFICES ASSUME Init PROVE FreshnessInvariant
    OBVIOUS
  <1>1. stack = <<>> /\ Frames = {} /\ revision = 0
        /\ \A q \in Query : verified[q] = 0
    BY DEF Init, Frames
  <1>2. QED
    BY <1>1 DEF FreshnessInvariant, ResultsKept, ComputationsFollow,
                CallsRecorded, ScansUnchanged, AnswersGrounded, SourcesSeen

LEMMA NextFreshness ==
    ASSUME SourcesCompared, EngineInvariant, FreshnessInvariant, [Next]_vars,
           [StoresDifferent]_vars
    PROVE  FreshnessInvariant'
  <1>1. CASE UNCHANGED vars
    BY <1>1, IdleFresh DEF vars
  <1>2. ASSUME NEW s, NEW contents, Edit(s, contents)
        PROVE  FreshnessInvariant'
    BY <1>2, IdleFresh DEF Edit, tables, request
  <1>3. CASE UserStep
    BY <1>2, <1>3, ExecuteFresh, QueryAssumption DEF UserStep
  <1>4. CASE EngineStep /\ ~UNCHANGED vars
    <2>1. PICK q \in Query :
              \/ Lookup(q) \/ UseCached(q) \/ Recompute(q)
              \/ ReadSource(q) \/ RunQuery(q) \/ Finish(q)
              \/ CheckRevision(q) \/ ScanDependency(q)
              \/ RefreshDependency(q) \/ TrustDependency(q)
              \/ AllVerified(q)
      BY <1>4, Zenon DEF EngineStep
    <2>2. StoresDifferent
      BY <1>4
    <2>3. QED
      BY <2>1, <2>2, LookupFresh, UseCachedFresh, RecomputeFresh, ReadSourceFresh,
         RunQueryFresh, FinishFresh, CheckRevisionFresh, ScanDependencyFresh,
         RefreshDependencyFresh, TrustDependencyFresh, AllVerifiedFresh
  <1>5. QED
    BY <1>1, <1>3, <1>4 DEF Next

\* Where operator== is equality, a result that differs is stored.
LEMMA EqualityStores ==
    ASSUME SameIsEquality, [Next]_vars
    PROVE  [StoresDifferent]_vars
  <1>1. ASSUME NEW q \in Query \ Source, Finish(q)
        PROVE  query_cache'[q] = Result(q, Reads(q))
    <2> DEFINE result == Result(q, Reads(q))
    <2>1. Settle(q, result)
      BY <1>1 DEF Finish
    <2>2. TRUE \in Same(q, query_cache[q], result) => query_cache[q] = result
      BY DEF SameIsEquality
    <2> HIDE DEF result
    <2>3. query_cache'[q] = result
      BY <2>1, <2>2, SettleCompares
    <2>4. QED
      BY <2>3 DEF result
  <1>2. QED
    BY <1>1 DEF StoresDifferent

LEMMA EqualityStoresAlways ==
    ASSUME SameIsEquality
    PROVE  Spec => DifferentResultsStored
  <1>1. [Next]_vars => [StoresDifferent]_vars
    BY EqualityStores
  <1>2. QED
    BY <1>1, PTL DEF Spec, DifferentResultsStored

\* What is cached stays worth what the engine takes it to be worth, through
\* every operation, edit and exception, as long as no result that differs from
\* the cached one is taken for unchanged.
THEOREM StoringKeepsFreshness ==
    ASSUME SourcesCompared
    PROVE  Spec /\ DifferentResultsStored => []FreshnessInvariant
  <1>1. Init => EngineInvariant /\ FreshnessInvariant
    BY InitInvariant, InitFresh
  <1>2. EngineInvariant /\ FreshnessInvariant /\ [Next]_vars
            /\ [StoresDifferent]_vars =>
            EngineInvariant' /\ FreshnessInvariant'
    BY NextInvariant, NextFreshness
  <1>3. QED
    BY <1>1, <1>2, PTL DEF Spec, DifferentResultsStored

\* The same where operator== of every result type is equality.
THEOREM EngineKeepsFreshness ==
    ASSUME SameIsEquality
    PROVE  Spec => []FreshnessInvariant
  <1>1. SourcesCompared
    BY QueryAssumption DEF SourcesCompared, SameIsEquality
  <1>2. Spec => DifferentResultsStored
    BY EqualityStoresAlways
  <1>3. QED
    BY <1>1, <1>2, StoringKeepsFreshness, PTL

LEMMA VerifiedFresh ==
    ASSUME EngineInvariant, FreshnessInvariant
    PROVE  VerifiedAreFresh
  <1> SUFFICES ASSUME NEW q \in Query, verified[q] = revision, revision # 0
               PROVE  IF q \in Source
                      THEN q \in DOMAIN seen /\ query_cache[q] = seen[q]
                      ELSE Reproducible(q)
    BY DEF VerifiedAreFresh
  <1>1. CASE q \in Source
    BY <1>1 DEF FreshnessInvariant, SourcesSeen
  <1>2. CASE q \notin Source
    <2> DEFINE deps == query_dependencies[q]
    <2>1. ~Computing(q)
      BY ComputationFacts DEF Computing
    <2>2. Kept(q)
      BY <1>2, <2>1 DEF FreshnessInvariant, ResultsKept
    <2>3. /\ deps \in Seq(Query) /\ Len(deps) \in Nat /\ DOMAIN deps = 1..Len(deps)
          /\ \A j \in 1..Len(deps) : deps[j] \in Query
      BY LenProperties DEF EngineInvariant, TypeOK
    <2>4. \A j \in 1..Len(deps) : changed[deps[j]] <= verified[q]
      BY <2>3 DEF EngineInvariant, RevisionsOrdered, VerifiedTogether
    <2>5. ASSUME NEW n \in 0..Len(deps)
          PROVE  Founded(q, n)
      <3>1. \A j \in 1..n : j \in 1..Len(deps)
        BY <2>3
      <3>2. QED
        BY <2>2, <2>4, <3>1 DEF Kept
    <2>6. /\ Reads(q) = Values(query_cache, deps, Len(deps))
          /\ \A n \in 0..Len(deps) :
                SubSeq(Reads(q), 1, n) = Values(query_cache, deps, n)
      BY ReadsAreValues DEF EngineInvariant
    <2>7. ASSUME NEW i \in DOMAIN deps
          PROVE  Demand(q, SubSeq(Reads(q), 1, i - 1)) = deps[i]
      <3>1. i - 1 \in 0..Len(deps) /\ i - 1 < Len(deps) /\ (i - 1) + 1 = i
        BY <2>3
      <3>2. Founded(q, i - 1)
        BY <2>5, <3>1
      <3>3. QED
        BY <2>6, <3>1, <3>2 DEF Founded
    <2>8. Demand(q, Reads(q)) = Done /\ query_cache[q] = Result(q, Reads(q))
      <3>1. Len(deps) \in 0..Len(deps)
        BY <2>3
      <3>2. Founded(q, Len(deps))
        BY <2>5, <3>1
      <3>3. QED
        BY <2>6, <3>2 DEF Founded
    <2>9. QED
      BY <1>2, <2>7, <2>8 DEF Reproducible
  <1>3. QED
    BY <1>1, <1>2

\* Whatever the engine skipped, a query verified at this revision has the
\* result that computing it again would give.
THEOREM VerifiedStayFresh ==
    ASSUME SameIsEquality
    PROVE  Spec => []VerifiedAreFresh
  BY EngineKeepsInvariant, EngineKeepsFreshness, VerifiedFresh, PTL

\* A result is computed again only when something it was computed from has
\* changed, also after exceptions have cut computations short.
THEOREM OnlyStaleAreRecomputed ==
    ASSUME SameIsEquality
    PROVE  Spec => OnlyStaleRecomputed
  <1>1. ASSUME EngineInvariant, FreshnessInvariant, [Next]_vars
        PROVE  [\A q \in Query \ Source :
                   Recompute(q) /\ verified[q] # 0 =>
                       \E i \in DOMAIN query_dependencies[q] :
                           changed[query_dependencies[q][i]] > verified[q]]_vars
    <2> SUFFICES ASSUME NEW q \in Query \ Source, Recompute(q), verified[q] # 0
                 PROVE  \E i \in DOMAIN query_dependencies[q] :
                            changed[query_dependencies[q][i]] > verified[q]
      OBVIOUS
    <2>1. stack # <<>> /\ top.pc = "decide" /\ top.query = q /\ out_of_date = "yes"
      BY DEF Recompute, At
    <2>2. Stale(q)
      BY <1>1, <2>1 DEF FreshnessInvariant, AnswersGrounded
    <2>3. QED
      BY <2>2 DEF Stale
  <1>2. QED
    BY <1>1, EngineKeepsInvariant, EngineKeepsFreshness, PTL
       DEF Spec, OnlyStaleRecomputed

-----------------------------------------------------------------------------
(* Numbers: a smallest counterexample takes the place of induction. *)

LEMMA LeastNumber ==
    ASSUME NEW T, T \subseteq Nat, T # {}
    PROVE  \E n \in T : \A m \in T : n <= m
  <1> DEFINE R == OpToRel(<, Nat)
  <1>1. IsWellFoundedOn(R, Nat)
    BY NatLessThanWellFounded
  <1>2. \E n \in T : \A m \in T : ~(<<m, n>> \in R)
    BY <1>1, WFMin
  <1>3. \A m, n \in Nat : <<m, n>> \in R <=> m < n
    BY SMT DEF OpToRel
  <1>4. PICK n \in T : \A m \in T : ~(<<m, n>> \in R)
    BY <1>2
  <1>5. ASSUME NEW m \in T
        PROVE  n <= m
    <2>1. m \in Nat /\ n \in Nat
      OBVIOUS
    <2>2. ~(<<m, n>> \in R)
      BY <1>4
    <2>3. ~(m < n)
      BY <1>3, <2>1, <2>2
    <2>4. QED
      BY <2>1, <2>3
  <1>6. QED
    BY <1>5

-----------------------------------------------------------------------------
(* An evaluation with no memory, along a list of queries and their results. *)

LEMMA NoValues ==
    ASSUME NEW c, NEW list
    PROVE  Values(c, list, 0) = <<>>
  BY DEF Values

LEMMA OneMoreValue ==
    ASSUME NEW c, NEW list, NEW n \in Nat
    PROVE  Append(Values(c, list, n), c[list[n + 1]]) = Values(c, list, n + 1)
  <1> DEFINE s == Values(c, list, n)
             x == c[list[n + 1]]
             S == {c[list[i]] : i \in 1..(n + 1)}
  <1>1. s \in Seq(S) /\ Len(s) = n /\ \A i \in 1..n : s[i] = c[list[i]]
    BY DEF Values
  <1>2. x \in S
    OBVIOUS
  <1> HIDE DEF s, x, S
  <1> DEFINE t == Append(s, x)
  <1>3. t \in Seq(S) /\ Len(t) = n + 1 /\ t[n + 1] = x
        /\ \A i \in 1..n : t[i] = s[i]
    BY <1>1, <1>2, AppendProperties
  <1> HIDE DEF t
  <1>4. t = [i \in 1..(n + 1) |-> t[i]]
    <2>1. DOMAIN t = 1..(n + 1)
      BY <1>3
    <2>2. t = [i \in DOMAIN t |-> t[i]]
      BY <1>3
    <2>3. QED
      BY <2>1, <2>2
  <1>5. \A i \in 1..(n + 1) : t[i] = c[list[i]]
    BY <1>1, <1>3 DEF x
  <1>6. t = [i \in 1..(n + 1) |-> c[list[i]]]
    BY <1>4, <1>5
  <1>7. QED
    BY <1>6 DEF Values, s, x, t

LEMMA EvaluatedOneMore ==
    ASSUME EvaluatesAnew, NEW q \in Query, NEW snapshot, NEW c, NEW list,
           NEW n \in Nat, list[n + 1] \in Query,
           Demand(q, Values(c, list, n)) = list[n + 1],
           Evaluate(list[n + 1], snapshot) = Value(c[list[n + 1]])
    PROVE  Continue(q, Values(c, list, n), snapshot) =
               Continue(q, Values(c, list, n + 1), snapshot)
  <1>1. Done \notin Query
    BY QueryAssumption
  <1>2. Continue(q, Values(c, list, n), snapshot) =
            Continue(q, Append(Values(c, list, n), c[list[n + 1]]), snapshot)
    BY <1>1 DEF EvaluatesAnew, Value
  <1>3. QED
    BY <1>2, OneMoreValue

\* A computation whose first k queries return has their results to go on with.
LEMMA EvaluatedUpTo ==
    ASSUME EvaluatesAnew, NEW q \in Query, q \notin Source, NEW snapshot,
           NEW c, NEW list, NEW k \in Nat,
           \A i \in 1..k :
              /\ list[i] \in Query
              /\ Demand(q, Values(c, list, i - 1)) = list[i]
              /\ Evaluate(list[i], snapshot) = Value(c[list[i]])
    PROVE  Evaluate(q, snapshot) = Continue(q, Values(c, list, k), snapshot)
  <1> DEFINE Right(n) ==
                 Evaluate(q, snapshot) =
                     Continue(q, Values(c, list, n), snapshot)
             Wrong == {n \in 0..k : ~Right(n)}
  <1>1. Right(0)
    BY NoValues DEF EvaluatesAnew
  <1>2. ASSUME NEW n \in 0..k, n < k, Right(n)
        PROVE  Right(n + 1)
    <2>1. n + 1 \in 1..k /\ n \in Nat /\ (n + 1) - 1 = n
      BY <1>2
    <2>2. /\ list[n + 1] \in Query
          /\ Demand(q, Values(c, list, n)) = list[n + 1]
          /\ Evaluate(list[n + 1], snapshot) = Value(c[list[n + 1]])
      BY <2>1
    <2>3. QED
      BY <1>2, <2>1, <2>2, EvaluatedOneMore
  <1> HIDE DEF Right
  <1>3. Wrong = {}
    <2> SUFFICES ASSUME Wrong # {} PROVE FALSE
      OBVIOUS
    <2>1. PICK n \in Wrong : \A m \in Wrong : n <= m
      <3>1. Wrong \subseteq Nat
        OBVIOUS
      <3> HIDE DEF Wrong
      <3>2. QED
        BY <3>1, LeastNumber
    <2>2. n \in 1..k /\ n - 1 \in 0..k /\ n - 1 < k /\ (n - 1) + 1 = n
      BY <1>1
    <2>3. n - 1 \notin Wrong
      BY <2>1, <2>2
    <2>4. Right(n - 1)
      BY <2>2, <2>3
    <2>5. QED
      BY <1>2, <2>1, <2>2, <2>4
  <1>4. Right(k)
    BY <1>3
  <1>5. QED
    BY <1>4 DEF Right

-----------------------------------------------------------------------------
(* What is verified is what an evaluation with no memory returns. *)

VerifiedEvaluated ==
    \A q \in Query :
        verified[q] = revision /\ revision # 0 =>
            Evaluate(q, seen) = Value(query_cache[q])

\* What a verified computation has run, in the terms of the evaluation.
LEMMA VerifiedComputation ==
    ASSUME EngineInvariant, FreshnessInvariant, NEW q \in Query,
           q \notin Source, verified[q] = revision, revision # 0
    PROVE  LET deps == query_dependencies[q]
           IN  /\ Len(deps) \in Nat
               /\ \A i \in 1..Len(deps) :
                     /\ deps[i] \in Query
                     /\ verified[deps[i]] = revision
                     /\ Rank[deps[i]] < Rank[q]
                     /\ Demand(q, Values(query_cache, deps, i - 1)) = deps[i]
               /\ Demand(q, Values(query_cache, deps, Len(deps))) = Done
               /\ query_cache[q] =
                     Result(q, Values(query_cache, deps, Len(deps)))
  <1> DEFINE deps == query_dependencies[q]
  <1>1. Reproducible(q)
    BY VerifiedFresh DEF VerifiedAreFresh
  <1>2. TypeOK /\ DependenciesUsed /\ VerifiedTogether
    BY DEF EngineInvariant, StackInvariant
  <1>3. /\ deps \in Seq(Query) /\ Len(deps) \in Nat
        /\ DOMAIN deps = 1..Len(deps)
        /\ \A i \in 1..Len(deps) : deps[i] \in Query
    BY <1>2, LenProperties DEF TypeOK
  <1>4. /\ Reads(q) = Values(query_cache, deps, Len(deps))
        /\ \A n \in 0..Len(deps) :
              SubSeq(Reads(q), 1, n) = Values(query_cache, deps, n)
    BY <1>2, ReadsAreValues
  <1>5. ASSUME NEW i \in 1..Len(deps)
        PROVE  /\ verified[deps[i]] = revision
               /\ Rank[deps[i]] < Rank[q]
               /\ Demand(q, Values(query_cache, deps, i - 1)) = deps[i]
    <2>1. i \in DOMAIN deps /\ i - 1 \in 0..Len(deps)
      BY <1>3
    <2>2. deps[i] \in Uses[q]
      BY <1>2, <2>1 DEF DependenciesUsed
    <2>3. Demand(q, SubSeq(Reads(q), 1, i - 1)) = deps[i]
      BY <1>1, <2>1 DEF Reproducible
    <2>4. QED
      BY <1>2, <1>4, <2>1, <2>2, <2>3, QueryAssumption DEF VerifiedTogether
  <1>6. Demand(q, Reads(q)) = Done /\ query_cache[q] = Result(q, Reads(q))
    BY <1>1 DEF Reproducible
  <1>7. QED
    BY <1>3, <1>4, <1>5, <1>6

LEMMA VerifiedAnew ==
    ASSUME EvaluatesAnew, EngineInvariant, FreshnessInvariant, RequestServed,
           outcome # "threw"
    PROVE  VerifiedEvaluated
  <1> DEFINE Wrong ==
                 {q \in Query :
                     /\ verified[q] = revision
                     /\ Evaluate(q, seen) # Value(query_cache[q])}
  <1> SUFFICES ASSUME revision # 0, Wrong # {} PROVE FALSE
    BY DEF VerifiedEvaluated
  <1>1. PICK q \in Wrong : \A p \in Wrong : Rank[q] <= Rank[p]
    <2> DEFINE Ranks == {Rank[p] : p \in Wrong}
    <2>1. Ranks \subseteq Nat /\ Ranks # {}
      BY QueryAssumption
    <2> HIDE DEF Ranks
    <2>2. PICK n \in Ranks : \A m \in Ranks : n <= m
      BY <2>1, LeastNumber
    <2>3. PICK q \in Wrong : n = Rank[q]
      BY DEF Ranks
    <2>4. QED
      BY <2>2, <2>3 DEF Ranks
  <1>2. q \in Query /\ verified[q] = revision
        /\ Evaluate(q, seen) # Value(query_cache[q])
    OBVIOUS
  <1>3. ASSUME NEW p \in Query, verified[p] = revision, Rank[p] < Rank[q]
        PROVE  Evaluate(p, seen) = Value(query_cache[p])
    <2>1. Rank[p] \in Nat /\ Rank[q] \in Nat
      BY <1>2, QueryAssumption
    <2>2. p \notin Wrong
      BY <1>1, <1>3, <2>1
    <2>3. QED
      BY <1>3, <2>2
  <1>4. CASE q \in Source
    <2>1. q \in DOMAIN seen /\ query_cache[q] = seen[q]
      BY <1>2, <1>4 DEF FreshnessInvariant, SourcesSeen
    <2>2. seen[q] # Missing
      BY <2>1 DEF RequestServed
    <2>3. QED
      BY <1>2, <1>4, <2>1, <2>2 DEF EvaluatesAnew
  <1>5. CASE q \notin Source
    <2> DEFINE deps == query_dependencies[q]
    <2> HIDE DEF Wrong
    <2>1. /\ Len(deps) \in Nat
          /\ \A i \in 1..Len(deps) :
                /\ deps[i] \in Query
                /\ verified[deps[i]] = revision
                /\ Rank[deps[i]] < Rank[q]
                /\ Demand(q, Values(query_cache, deps, i - 1)) = deps[i]
          /\ Demand(q, Values(query_cache, deps, Len(deps))) = Done
          /\ query_cache[q] = Result(q, Values(query_cache, deps, Len(deps)))
      BY <1>2, <1>5, VerifiedComputation
    <2> HIDE DEF deps
    <2>2. Evaluate(q, seen) =
              Continue(q, Values(query_cache, deps, Len(deps)), seen)
      BY <1>2, <1>3, <1>5, <2>1, EvaluatedUpTo
    <2>3. Continue(q, Values(query_cache, deps, Len(deps)), seen) =
              Value(query_cache[q])
      BY <1>2, <2>1 DEF EvaluatesAnew
    <2>4. QED
      BY <1>2, <2>2, <2>3
  <1>6. QED
    BY <1>4, <1>5

-----------------------------------------------------------------------------
(* What the innermost call is waiting for, the request is waiting for. *)

LEMMA StoppedAt ==
    ASSUME EvaluatesAnew, NEW q \in Query, q \notin Source, NEW snapshot,
           NEW c, NEW list, NEW k \in Nat, NEW p \in Query,
           \A i \in 1..k :
              /\ list[i] \in Query
              /\ Demand(q, Values(c, list, i - 1)) = list[i]
              /\ Evaluate(list[i], snapshot) = Value(c[list[i]]),
           Demand(q, Values(c, list, k)) = p,
           Evaluate(p, snapshot).tag # "value"
    PROVE  Evaluate(q, snapshot) = Evaluate(p, snapshot)
  <1>1. Evaluate(q, snapshot) = Continue(q, Values(c, list, k), snapshot)
    BY EvaluatedUpTo
  <1>2. p # Done
    BY QueryAssumption
  <1>3. Continue(q, Values(c, list, k), snapshot) = Evaluate(p, snapshot)
    BY <1>2 DEF EvaluatesAnew
  <1>4. QED
    BY <1>1, <1>3

\* The first n dependencies of q are verified, and evaluate to their results.
LEMMA StoppedAfter ==
    ASSUME EvaluatesAnew, EngineInvariant, VerifiedEvaluated, revision # 0,
           NEW q \in Query, q \notin Source, NEW n \in Nat, NEW p \in Query,
           \A i \in 1..n :
              LET deps == query_dependencies[q]
              IN  /\ deps[i] \in Query
                  /\ verified[deps[i]] = revision
                  /\ Demand(q, Values(query_cache, deps, i - 1)) = deps[i],
           Demand(q, Values(query_cache, query_dependencies[q], n)) = p,
           Evaluate(p, seen).tag # "value"
    PROVE  Evaluate(q, seen) = Evaluate(p, seen)
  <1> DEFINE deps == query_dependencies[q]
  <1>1. \A i \in 1..n :
            /\ deps[i] \in Query
            /\ Demand(q, Values(query_cache, deps, i - 1)) = deps[i]
            /\ Evaluate(deps[i], seen) = Value(query_cache[deps[i]])
    BY DEF VerifiedEvaluated
  <1>2. Demand(q, Values(query_cache, deps, n)) = p
    OBVIOUS
  <1> HIDE DEF deps
  <1>3. QED
    BY <1>1, <1>2, StoppedAt

\* A caller that computes.
LEMMA ComputationWaits ==
    ASSUME EvaluatesAnew, EngineInvariant, FreshnessInvariant,
           VerifiedEvaluated, revision # 0, NEW i \in Frames, i + 1 \in Frames,
           stack[i].pc = "compute", stack[i + 1].query \in Query,
           Evaluate(stack[i + 1].query, seen).tag # "value"
    PROVE  Evaluate(stack[i].query, seen) = Evaluate(stack[i + 1].query, seen)
  <1> DEFINE q == stack[i].query
             g == stack[i + 1]
             deps == query_dependencies[q]
  <1>1. /\ q \in Query /\ Len(deps) \in Nat
        /\ \A j \in 1..Len(deps) : deps[j] \in Query
        /\ \A j \in 1..(Len(deps) - 1) : verified[deps[j]] = revision
        /\ g.pc = "lookup" =>
              \A j \in 1..Len(deps) : verified[deps[j]] = revision
    BY ComputationFacts
  <1>2. Recorded(stack[i], g)
    <2>1. i + 1 > 1 /\ (i + 1) - 1 = i
      BY DEF Frames
    <2>2. QED
      BY <2>1 DEF FreshnessInvariant, CallsRecorded
  <1>3. q \notin Source
    BY <1>2 DEF Recorded
  <1>4. \A j \in 1..Len(deps) :
            Demand(q, Values(query_cache, deps, j - 1)) = deps[j]
    BY <1>3 DEF FreshnessInvariant, ComputationsFollow, FollowsOn, Following
  <1>5. CASE g.pc = "lookup"
    <2>1. Demand(q, Values(query_cache, deps, Len(deps))) = g.query
      BY <1>2, <1>5 DEF Recorded
    <2>2. QED
      BY <1>1, <1>3, <1>4, <1>5, <2>1, StoppedAfter
  <1>6. CASE g.pc # "lookup"
    <2>1. deps # <<>> /\ deps[Len(deps)] = g.query
      BY <1>2, <1>6 DEF Recorded
    <2>2. deps \in Seq(Query)
      BY <1>1 DEF EngineInvariant, TypeOK
    <2>3. Len(deps) # 0
      BY <2>1, <2>2, EmptySeq
    <2>4. Len(deps) - 1 \in Nat /\ Len(deps) \in 1..Len(deps)
          /\ \A j \in 1..(Len(deps) - 1) : j \in 1..Len(deps)
      BY <1>1, <2>3
    <2>5. Demand(q, Values(query_cache, deps, Len(deps) - 1)) = g.query
      BY <1>4, <2>1, <2>4
    <2>6. QED
      BY <1>1, <1>3, <1>4, <2>4, <2>5, StoppedAfter
  <1>7. QED
    BY <1>5, <1>6

\* The dependencies of a query are a sequence of queries.
LEMMA DependenciesListed ==
    ASSUME TypeOK, NEW q \in Query
    PROVE  /\ query_dependencies[q] \in Seq(Query)
           /\ Len(query_dependencies[q]) \in Nat
           /\ \A j \in 1..Len(query_dependencies[q]) : query_dependencies[q][j] \in Query
  <1>1. query_dependencies \in [Query -> Seq(Query)]
    BY DEF TypeOK
  <1> DEFINE deps == query_dependencies[q]
  <1>2. deps \in Seq(Query)
    BY <1>1
  <1> HIDE DEF deps
  <1>3. /\ Len(deps) \in Nat
        /\ \A j \in 1..Len(deps) : deps[j] \in Query
    BY <1>2
  <1>4. QED
    BY <1>2, <1>3 DEF deps

\* A caller that verifies, or refreshes, one dependency after the other: it
\* computes nothing, but a computation would run the same queries up to there.
LEMMA ScanWaits ==
    ASSUME EvaluatesAnew, EngineInvariant, FreshnessInvariant,
           VerifiedEvaluated, revision # 0, NEW i \in Frames, i + 1 \in Frames,
           stack[i].pc \in {"verify", "refresh"},
           stack[i].query \in Query, stack[i + 1].query \in Query,
           Evaluate(stack[i + 1].query, seen).tag # "value"
    PROVE  Evaluate(stack[i].query, seen) = Evaluate(stack[i + 1].query, seen)
  <1> DEFINE f == stack[i]
             q == f.query
             g == stack[i + 1]
             deps == query_dependencies[q]
  <1>1. TypeOK /\ RanksDescend /\ CallsNested /\ ScansOK
    BY DEF EngineInvariant, StackInvariant
  <1>2. /\ deps \in Seq(Query) /\ Len(deps) \in Nat
        /\ \A j \in 1..Len(deps) : deps[j] \in Query
    BY DependenciesListed DEF EngineInvariant
  <1>3. /\ verified[q] \notin {0, revision}
        /\ f.at \in 1..(Len(deps) + 1) /\ f.at <= Len(deps)
        /\ \A j \in 1..(f.at - 1) : verified[deps[j]] = revision
    BY <1>1 DEF ScansOK, ScanOK
  <1>4. /\ q \notin Source
        /\ \A j \in 1..(f.at - 1) : changed[deps[j]] <= verified[q]
    BY DEF FreshnessInvariant, ScansUnchanged, Unchanged
  <1>5. g.query = deps[f.at]
    <2>1. i + 1 > 1 /\ (i + 1) - 1 = i
      BY DEF Frames
    <2>2. Nested(f, g)
      BY <1>1, <2>1 DEF CallsNested
    <2>3. QED
      BY <2>2 DEF Nested
  <1>6. ~Computing(q)
    <2> SUFFICES ASSUME NEW k \in Frames, stack[k].pc = "compute",
                        stack[k].query = q
                 PROVE  FALSE
      BY DEF Computing
    <2>1. Rank[q] \in Nat
      BY QueryAssumption
    <2>2. k # i
      OBVIOUS
    <2>3. k < i \/ i < k
      BY <2>2 DEF Frames
    <2>4. QED
      BY <1>1, <2>1, <2>3 DEF RanksDescend
  <1>7. Kept(q)
    BY <1>3, <1>4, <1>6 DEF FreshnessInvariant, ResultsKept
  <1>8. ASSUME NEW n \in 0..(f.at - 1)
        PROVE  Demand(q, Values(query_cache, deps, n)) = deps[n + 1]
    <2>1. n \in 0..Len(deps) /\ n < Len(deps) /\ 1..n \subseteq 1..(f.at - 1)
      BY <1>2, <1>3
    <2>2. Founded(q, n)
      BY <1>4, <1>7, <2>1 DEF Kept
    <2>3. QED
      BY <2>1, <2>2 DEF Founded
  <1> DEFINE k == f.at - 1
  <1>9. /\ k \in Nat /\ k \in 0..k /\ k + 1 = f.at
        /\ \A j \in 1..k :
              j \in 1..Len(deps) /\ j - 1 \in 0..k /\ (j - 1) + 1 = j
    BY <1>2, <1>3
  <1>10. \A j \in 1..k :
             /\ deps[j] \in Query
             /\ verified[deps[j]] = revision
             /\ Demand(q, Values(query_cache, deps, j - 1)) = deps[j]
    BY <1>2, <1>3, <1>8, <1>9
  <1>11. Demand(q, Values(query_cache, deps, k)) = g.query
    BY <1>5, <1>8, <1>9
  <1> HIDE DEF k, f
  <1>12. QED
    BY <1>4, <1>9, <1>10, <1>11, StoppedAfter DEF f

LEMMA CallerWaits ==
    ASSUME EvaluatesAnew, EngineInvariant, FreshnessInvariant,
           VerifiedEvaluated, stack # <<>>, NEW i \in Frames, i + 1 \in Frames,
           Evaluate(stack[i + 1].query, seen).tag # "value"
    PROVE  Evaluate(stack[i].query, seen) = Evaluate(stack[i + 1].query, seen)
  <1>1. TypeOK /\ CallsNested /\ RequestAtBottom
    BY DEF EngineInvariant, StackInvariant
  <1>2. /\ revision # 0
        /\ stack[i].query \in Query /\ stack[i + 1].query \in Query
    BY <1>1, TopIsFrame DEF RequestAtBottom, Frames, Frame
  <1>3. Nested(stack[i], stack[i + 1])
    <2>1. i + 1 > 1 /\ (i + 1) - 1 = i
      BY DEF Frames
    <2>2. QED
      BY <1>1, <2>1 DEF CallsNested
  <1>4. CASE stack[i].pc = "decide"
    BY <1>3, <1>4 DEF Nested
  <1>5. CASE stack[i].pc = "compute"
    BY <1>2, <1>5, ComputationWaits
  <1>6. CASE stack[i].pc \in {"verify", "refresh"}
    BY <1>2, <1>6, ScanWaits
  <1>7. QED
    BY <1>3, <1>4, <1>5, <1>6 DEF Nested

LEMMA RequestWaits ==
    ASSUME EvaluatesAnew, EngineInvariant, FreshnessInvariant,
           VerifiedEvaluated, stack # <<>>,
           Evaluate(top.query, seen).tag # "value"
    PROVE  Evaluate(stack[1].query, seen) = Evaluate(top.query, seen)
  <1> DEFINE Waits(i) ==
                 Evaluate(stack[i].query, seen) = Evaluate(top.query, seen)
             Waiting == {i \in Frames : Waits(i)}
  <1>1. Len(stack) \in Nat \ {0} /\ top = stack[Len(stack)]
    BY TopIsFrame DEF EngineInvariant
  <1>2. Len(stack) \in Waiting /\ Waiting \subseteq Nat
    BY <1>1 DEF Frames
  <1>3. PICK n \in Waiting : \A m \in Waiting : n <= m
    <2> HIDE DEF Waiting
    <2>1. QED
      BY <1>2, LeastNumber
  <1>4. n \in Frames /\ Waits(n)
    OBVIOUS
  <1>5. CASE n = 1
    BY <1>4, <1>5
  <1>6. CASE n # 1
    <2>1. n - 1 \in Frames /\ (n - 1) + 1 = n /\ ~(n <= n - 1)
      BY <1>1, <1>4, <1>6 DEF Frames
    <2>2. Evaluate(stack[n].query, seen).tag # "value"
      BY <1>4
    <2>3. Waits(n - 1)
      BY <1>4, <2>1, <2>2, CallerWaits
    <2>4. n - 1 \in Waiting
      BY <2>1, <2>3
    <2>5. QED
      BY <1>3, <2>1, <2>4
  <1>7. QED
    BY <1>5, <1>6

-----------------------------------------------------------------------------
(* The request that is being served. *)

LEMMA SameOutermost ==
    ASSUME TypeOK, stack # <<>>, NEW pc \in ExecutePoints \cup CheckPoints,
           NEW frame \in Frame
    PROVE  /\ GoTo(pc)[1].query = stack[1].query
           /\ Invoke(pc, frame)[1].query = stack[1].query
           /\ Append(stack, frame)[1] = stack[1]
           /\ callers # <<>> => callers[1] = stack[1]
           /\ NextDependency => stack'[1].query = stack[1].query
  <1>1. /\ Len(stack) \in Nat \ {0} /\ stack \in Seq(Frame)
        /\ top = stack[Len(stack)] /\ top \in Frame
    BY TopIsFrame
  <1>2. /\ [top EXCEPT !.pc = pc].query = top.query
        /\ [top EXCEPT !.pc = "scan", !.at = top.at + 1].query = top.query
    BY <1>1 DEF Frame
  <1>3. ASSUME NEW t, \A i \in 1..(Len(stack) - 1) : t[i] = stack[i],
               t[Len(stack)].query = top.query
        PROVE  t[1].query = stack[1].query
    <2> DEFINE n == Len(stack)
    <2>1. n \in Nat \ {0} /\ t[n].query = stack[n].query
      BY <1>1, <1>3
    <2> HIDE DEF n
    <2>2. n = 1 \/ 1 \in 1..(n - 1)
      BY <2>1
    <2>3. QED
      BY <1>3, <2>1, <2>2 DEF n
  <1>4. GoTo(pc)[1].query = stack[1].query
    <2> DEFINE t == GoTo(pc)
    <2>1. /\ \A i \in 1..(Len(stack) - 1) : t[i] = stack[i]
          /\ t[Len(stack)].query = top.query
      BY <1>2, GoToFacts
    <2> HIDE DEF t
    <2>2. QED
      BY <1>3, <2>1 DEF t
  <1>5. Invoke(pc, frame)[1].query = stack[1].query
    <2> DEFINE t == Invoke(pc, frame)
    <2>1. /\ \A i \in 1..(Len(stack) - 1) : t[i] = stack[i]
          /\ t[Len(stack)].query = top.query
      BY <1>2, InvokeFacts
    <2> HIDE DEF t
    <2>2. QED
      BY <1>3, <2>1 DEF t
  <1>6. Append(stack, frame)[1] = stack[1]
    BY <1>1, PushedSeq
  <1>7. callers # <<>> => callers[1] = stack[1]
    BY <1>1, CallersFacts
  <1>8. NextDependency => stack'[1].query = stack[1].query
    <2> SUFFICES ASSUME NextDependency PROVE stack'[1].query = stack[1].query
      OBVIOUS
    <2>1. /\ \A i \in 1..(Len(stack) - 1) : stack'[i] = stack[i]
          /\ stack'[Len(stack)].query = top.query
      BY <1>2, NextDependencyFacts
    <2>2. QED
      BY <1>3, <2>1
  <1>9. QED
    BY <1>4, <1>5, <1>6, <1>7, <1>8

LEMMA RequestKept ==
    ASSUME EngineInvariant, EngineStep
    PROVE  /\ stack # <<>> /\ outcome = "running"
           /\ target' = target /\ revision' = revision /\ files' = files
           /\ stack' # <<>> => stack'[1].query = stack[1].query
  <1>1. PICK q \in Query :
            \/ Lookup(q) \/ UseCached(q) \/ Recompute(q)
            \/ ReadSource(q) \/ RunQuery(q) \/ Finish(q)
            \/ CheckRevision(q) \/ ScanDependency(q)
            \/ RefreshDependency(q) \/ TrustDependency(q)
            \/ AllVerified(q)
    BY Zenon DEF EngineStep
  <1>2. stack # <<>>
    BY <1>1 DEF Lookup, UseCached, Recompute, ReadSource, RunQuery, Finish,
                CheckRevision, ScanDependency, RefreshDependency,
                TrustDependency, AllVerified, At
  <1>3. outcome = "running" /\ TypeOK
    BY <1>2 DEF EngineInvariant, TypeOK
  <1>4. target' = target /\ revision' = revision /\ files' = files
    BY <1>1 DEF Lookup, UseCached, Recompute, ReadSource, RunQuery, Finish,
                CheckRevision, ScanDependency, RefreshDependency,
                TrustDependency, AllVerified, world, request
  <1>5. \A pc \in ExecutePoints \cup CheckPoints, frame \in Frame :
            /\ GoTo(pc)[1].query = stack[1].query
            /\ Invoke(pc, frame)[1].query = stack[1].query
            /\ Append(stack, frame)[1] = stack[1]
            /\ callers # <<>> => callers[1] = stack[1]
            /\ NextDependency => stack'[1].query = stack[1].query
    BY <1>2, <1>3, SameOutermost
  <1>6. /\ {"decide", "compute", "verify", "refresh", "scan"}
                \subseteq ExecutePoints \cup CheckPoints
        /\ \A p \in Query, parent \in Query \cup {NoQuery} :
              CheckFrame(p) \in Frame /\ ExecuteFrame(p, parent) \in Frame
    BY FrameTypes DEF ExecutePoints, CheckPoints
  <1>7. /\ callers # <<>> => callers[1] = stack[1]
        /\ NextDependency => stack'[1].query = stack[1].query
    BY <1>5, <1>6, <1>1
  <1>8. /\ \A pc \in {"compute", "scan"} :
              stack' = GoTo(pc) => stack'[1].query = stack[1].query
        /\ \A pc \in {"decide", "verify", "refresh"} : \A frame \in Frame :
              stack' = Invoke(pc, frame) => stack'[1].query = stack[1].query
        /\ \A frame \in Frame :
              stack' = Append(stack, frame) => stack'[1].query = stack[1].query
        /\ stack' = callers /\ stack' # <<>> =>
              stack'[1].query = stack[1].query
    BY <1>1, <1>5, <1>6, <1>7
  <1>9. stack' # <<>> => stack'[1].query = stack[1].query
    <2>1. CASE Lookup(q)
      BY <1>6, <1>8, <2>1 DEF Lookup
    <2>2. CASE UseCached(q) \/ AllVerified(q)
      BY <1>8, <2>2 DEF UseCached, AllVerified, ReturnResult, Return
    <2>3. CASE Recompute(q)
      BY <1>8, <2>3 DEF Recompute
    <2>4. CASE ReadSource(q) \/ Finish(q)
      BY <1>8, <2>4 DEF ReadSource, Finish, Settle, ReturnResult, Return, Throw
    <2>5. CASE RunQuery(q)
      <3>1. PICK d \in Uses[q] : stack' = Append(stack, ExecuteFrame(d, q))
        BY <2>5 DEF RunQuery
      <3>2. d \in Query
        BY QueryAssumption
      <3>3. QED
        BY <1>6, <1>8, <3>1, <3>2
    <2>6. CASE CheckRevision(q)
      BY <1>8, <2>6 DEF CheckRevision, Return
    <2>7. CASE ScanDependency(q)
      <3>1. scanned(q) \in Query
        <4>1. At("scan", q) /\ top.at <= Len(query_dependencies[q])
          BY <2>7 DEF ScanDependency
        <4>2. QED
          BY <4>1, AtFacts, ScannedFacts
      <3>2. QED
        BY <1>6, <1>7, <1>8, <2>7, <3>1 DEF ScanDependency, Return
    <2>8. CASE RefreshDependency(q)
      <3>1. scanned(q) \in Query
        <4>1. At("verify", q)
          BY <2>8 DEF RefreshDependency
        <4>2. top.at <= Len(query_dependencies[q])
          BY <4>1, AtFacts DEF ScanOK
        <4>3. QED
          BY <4>1, <4>2, AtFacts, ScannedFacts
      <3>2. QED
        BY <1>6, <1>8, <2>8, <3>1 DEF RefreshDependency
    <2>9. CASE TrustDependency(q)
      BY <1>7, <1>8, <2>9 DEF TrustDependency, Return
    <2>10. QED
      BY <1>1, <2>1, <2>2, <2>3, <2>4, <2>5, <2>6, <2>7, <2>8, <2>9
  <1>10. QED
    BY <1>2, <1>3, <1>4, <1>9

LEMMA InitServed == Init => RequestServed
  BY DEF Init, RequestServed

LEMMA NextServed ==
    ASSUME EngineInvariant, RequestServed, [Next]_vars
    PROVE  RequestServed'
  <1>1. DOMAIN seen \subseteq Query /\ verified \in [Query -> Nat]
    BY QueryAssumption DEF EngineInvariant, TypeOK
  <1>2. CASE UNCHANGED vars
    BY <1>2 DEF vars, RequestServed
  <1>3. CASE UserStep
    <2>1. ASSUME NEW s, NEW contents, Edit(s, contents)
          PROVE  RequestServed'
      BY <2>1 DEF Edit, RequestServed, tables, request
    <2>2. ASSUME NEW q, Execute(q)
          PROVE  RequestServed'
      BY <2>2 DEF Execute, RequestServed, ExecuteFrame
    <2>3. QED
      BY <1>3, <2>1, <2>2 DEF UserStep
  <1>4. CASE EngineStep
    <2>1. /\ stack # <<>> /\ outcome = "running"
          /\ target' = target /\ revision' = revision
          /\ stack' # <<>> => stack'[1].query = stack[1].query
      BY <1>4, RequestKept
    <2>2. \A s \in DOMAIN seen : verified'[s] = revision' /\ seen[s] # Missing
      BY <1>1, <1>4, <2>1, EngineIsStable DEF Stable, RequestServed
    <2>3. outcome' # "threw" =>
              \A s \in DOMAIN seen' :
                  verified'[s] = revision' /\ seen'[s] # Missing
      <3>1. PICK q \in Query :
                \/ Lookup(q) \/ UseCached(q) \/ Recompute(q)
                \/ ReadSource(q) \/ RunQuery(q) \/ Finish(q)
                \/ CheckRevision(q) \/ ScanDependency(q)
                \/ RefreshDependency(q) \/ TrustDependency(q)
                \/ AllVerified(q)
        BY <1>4, Zenon DEF EngineStep
      <3>2. CASE ReadSource(q)
        <4>1. CASE files[q] # Missing
          <5>1. /\ verified'[q] = revision'
                /\ seen' = [s \in DOMAIN seen \cup {q} |->
                               IF s = q THEN files[q] ELSE seen[s]]
            BY <1>1, <2>1, <3>2, <4>1 DEF ReadSource, Settle
          <5>2. QED
            BY <2>2, <4>1, <5>1
        <4>2. CASE files[q] = Missing
          BY <3>2, <4>2 DEF ReadSource, Throw
        <4>3. QED
          BY <4>1, <4>2
      <3>3. CASE ~ReadSource(q)
        <4>1. seen' = seen
          BY <3>1, <3>3 DEF Lookup, UseCached, Recompute, RunQuery, Finish,
                CheckRevision, ScanDependency, RefreshDependency,
                TrustDependency, AllVerified
        <4>2. QED
          BY <2>2, <4>1
      <3>4. QED
        BY <3>2, <3>3
    <2>4. QED
      BY <2>1, <2>3 DEF RequestServed
  <1>5. QED
    BY <1>2, <1>3, <1>4 DEF Next

-----------------------------------------------------------------------------
(* The engine against its promise. *)

Serving ==
    /\ EngineInvariant
    /\ FreshnessInvariant
    /\ RequestServed

ServedAnew == outcome # "threw" => VerifiedEvaluated

LEMMA ServingEvaluated ==
    ASSUME EvaluatesAnew
    PROVE  Serving => ServedAnew
  BY VerifiedAnew DEF Serving, ServedAnew

\* A return of execute either returns to a caller, or answers the request.
LEMMA ReturnAnswers ==
    ASSUME EvaluatesAnew, Serving, Serving', EngineStep, NEW q \in Query,
           At("decide", q) \/ At("compute", q), ReturnResult,
           verified'[q] = revision, UNCHANGED seen,
           ServedAnew'
    PROVE  UNCHANGED Promise!vars \/ Promise!Answer
  <1>1. /\ stack # <<>> /\ outcome = "running"
        /\ target' = target /\ revision' = revision /\ files' = files
    BY RequestKept DEF Serving
  <1>2. /\ top.query = q /\ Len(stack) \in Nat \ {0}
        /\ top = stack[Len(stack)] /\ stack[1].query = target /\ revision # 0
    <2>1. TypeOK /\ RequestAtBottom
      BY DEF Serving, EngineInvariant, StackInvariant
    <2>2. QED
      BY <1>1, <2>1, TopIsFrame DEF At, Serving, RequestServed, RequestAtBottom
  <1>3. CASE Len(stack) # 1
    <2>1. outcome' = "running"
      BY <1>1, <1>3 DEF ReturnResult
    <2>2. QED
      BY <1>1, <2>1 DEF Promise!vars
  <1>4. CASE Len(stack) = 1
    <2>1. outcome' = "answered" /\ q = target
      BY <1>2, <1>4 DEF ReturnResult
    <2>2. Evaluate(target, seen) = Value(query_cache'[target])
      <3>1. VerifiedEvaluated'
        BY <2>1 DEF ServedAnew
      <3>2. Evaluate(q, seen') = Value(query_cache'[q])
        BY <1>1, <1>2, <3>1 DEF VerifiedEvaluated
      <3>3. QED
        BY <2>1, <3>2
    <2>3. Promise!Answer
      BY <1>1, <2>1, <2>2 DEF Promise!Answer, Value
    <2>4. QED
      BY <2>3
  <1>5. QED
    BY <1>3, <1>4

\* A file is opened when the evaluation of the request is waiting for it.
LEMMA ReadSourceOpens ==
    ASSUME EvaluatesAnew, Serving, Serving', NEW q \in Query, ReadSource(q),
           ServedAnew'
    PROVE  Promise!Open(q)
  <1>1. /\ At("compute", q) /\ q \in Source /\ EngineStep
        /\ seen' = [s \in DOMAIN seen \cup {q} |->
                       IF s = q THEN files[q] ELSE seen[s]]
    BY DEF ReadSource, EngineStep
  <1>2. /\ stack # <<>> /\ outcome = "running"
        /\ target' = target /\ revision' = revision /\ files' = files
    BY <1>1, RequestKept DEF Serving
  <1>3. /\ top.query = q /\ Len(stack) \in Nat \ {0} /\ top.pc = "compute"
        /\ top = stack[Len(stack)] /\ stack[1].query = target /\ revision # 0
    <2>1. TypeOK /\ RequestAtBottom
      BY DEF Serving, EngineInvariant, StackInvariant
    <2>2. QED
      BY <1>1, <1>2, <2>1, TopIsFrame
         DEF At, Serving, RequestServed, RequestAtBottom
  <1>4. q \notin DOMAIN seen
    <2>1. Len(stack) \in Frames
      BY <1>3 DEF Frames
    <2>2. verified[q] # revision
      BY <1>3, <2>1, ComputationFacts DEF Serving
    <2>3. QED
      BY <1>2, <2>2 DEF Serving, RequestServed
  <1>5. Evaluate(target, seen) = Needs(q)
    <2>1. Evaluate(q, seen) = Needs(q)
      BY <1>1, <1>4 DEF EvaluatesAnew
    <2>2. Evaluate(q, seen).tag # "value"
      BY <2>1 DEF Needs
    <2>3. VerifiedEvaluated
      BY <1>2, ServingEvaluated DEF ServedAnew
    <2>4. Evaluate(stack[1].query, seen) = Evaluate(top.query, seen)
      BY <1>2, <1>3, <2>2, <2>3, RequestWaits DEF Serving
    <2>5. QED
      BY <1>3, <2>1, <2>4
  <1>6. seen' = [s \in DOMAIN seen \cup {q} |->
                   IF s = q THEN files[s] ELSE seen[s]]
    BY <1>1
  <1>7. CASE files[q] = Missing
    <2>1. outcome' = "threw"
      BY <1>7 DEF ReadSource, Throw
    <2>2. QED
      BY <1>2, <1>5, <1>6, <1>7, <2>1 DEF Promise!Open, Promise!Needs, Needs
  <1>8. CASE files[q] # Missing
    <2>1. Settle(q, files[q])
      BY <1>8 DEF ReadSource
    <2>2. CASE Len(stack) # 1
      <3>1. outcome' = "running"
        BY <1>2, <2>1, <2>2 DEF Settle, ReturnResult
      <3>2. QED
        BY <1>2, <1>5, <1>6, <1>8, <3>1 DEF Promise!Open, Promise!Needs, Needs
    <2>3. CASE Len(stack) = 1
      <3>1. outcome' = "answered" /\ q = target
        BY <1>3, <2>1, <2>3 DEF Settle, ReturnResult
      <3>2. verified'[q] = revision'
        BY <1>2, <2>1 DEF Settle, Serving, EngineInvariant, TypeOK
      <3>3. VerifiedEvaluated'
        BY <3>1 DEF ServedAnew
      <3>4. Evaluate(target', seen') = Value(query_cache'[target'])
        BY <1>2, <1>3, <3>1, <3>2, <3>3 DEF VerifiedEvaluated
      <3>5. QED
        BY <1>2, <1>5, <1>6, <1>8, <3>1, <3>4
           DEF Promise!Open, Promise!Needs, Needs, Value
    <2>4. QED
      BY <2>2, <2>3
  <1>9. QED
    BY <1>7, <1>8

LEMMA InitKept == Init => Promise!Init
  BY DEF Init, Promise!Init

\* Every step is a step of the promise, or one that its variables do not show.
LEMMA StepKept ==
    ASSUME EvaluatesAnew, Serving, Serving', [Next]_vars,
           ServedAnew'
    PROVE  [Promise!Next]_(Promise!vars)
  <1>1. CASE UNCHANGED vars
    BY <1>1 DEF vars, Promise!vars
  <1>2. ASSUME NEW s \in Source, NEW contents \in Contents \cup {Missing},
               Edit(s, contents)
        PROVE  Promise!Edit
    BY <1>2 DEF Edit, Promise!Edit, Serving, EngineInvariant, TypeOK,
                request, tables
  <1>3. ASSUME NEW q \in Requested, Execute(q)
        PROVE  Promise!Request(q)
    BY <1>3 DEF Execute, Promise!Request, world
  <1>4. CASE UserStep
    BY <1>2, <1>3, <1>4 DEF UserStep, Promise!Next
  <1>5. CASE EngineStep
    <2>1. PICK q \in Query :
              \/ Lookup(q) \/ UseCached(q) \/ Recompute(q)
              \/ ReadSource(q) \/ RunQuery(q) \/ Finish(q)
              \/ CheckRevision(q) \/ ScanDependency(q)
              \/ RefreshDependency(q) \/ TrustDependency(q)
              \/ AllVerified(q)
      BY <1>5, Zenon DEF EngineStep
    <2>2. /\ outcome = "running" /\ verified \in [Query -> Nat]
          /\ target' = target /\ files' = files
      BY <1>5, RequestKept DEF Serving, EngineInvariant, TypeOK
    <2>3. CASE ReadSource(q)
      <3>1. q \in Source
        BY <2>3 DEF ReadSource
      <3>2. QED
        BY <2>3, <3>1, ReadSourceOpens DEF Promise!Next
    <2>4. CASE UseCached(q)
      <3>1. At("decide", q) /\ ReturnResult /\ UNCHANGED seen
            /\ verified'[q] = revision
        BY <2>2, <2>4 DEF UseCached
      <3>2. QED
        BY <1>5, <3>1, ReturnAnswers DEF Promise!Next
    <2>5. CASE Finish(q)
      <3>1. At("compute", q) /\ ReturnResult /\ UNCHANGED seen
            /\ verified'[q] = revision
        BY <2>2, <2>5 DEF Finish, Settle
      <3>2. QED
        BY <1>5, <3>1, ReturnAnswers DEF Promise!Next
    <2>6. CASE UNCHANGED <<outcome, seen>>
      BY <2>2, <2>6 DEF Promise!vars
    <2>7. QED
      BY <2>1, <2>3, <2>4, <2>5, <2>6
         DEF Lookup, Recompute, RunQuery, CheckRevision, ScanDependency,
             RefreshDependency, TrustDependency, AllVerified
  <1>6. QED
    BY <1>1, <1>4, <1>5 DEF Next

\* The cache is transparent.  Whatever edits, exceptions and requests came
\* before, a request is answered with what an evaluator without a cache would
\* return on one snapshot of the files, opens the same files, in the same order
\* and each of them once, and throws exactly when that evaluator would: as long
\* as no result that differs from the cached one is taken for unchanged.
THEOREM StoringKeepsPromise ==
    ASSUME SourcesCompared, EvaluatesAnew
    PROVE  Spec /\ DifferentResultsStored => AnswersAreFresh
  <1>1. Init => Promise!Init
    BY InitKept
  <1>2. Spec /\ DifferentResultsStored => []Serving
    <2>1. Init => Serving
      BY InitInvariant, InitFresh, InitServed DEF Serving
    <2>2. Serving /\ [Next]_vars /\ [StoresDifferent]_vars => Serving'
      BY NextInvariant, NextFreshness, NextServed DEF Serving
    <2>3. QED
      BY <2>1, <2>2, PTL DEF Spec, DifferentResultsStored
  <1>3. Serving => ServedAnew
    BY ServingEvaluated
  <1>4. Serving' => ServedAnew'
    BY <1>3, PTL
  <1>5. Serving /\ Serving' /\ [Next]_vars => [Promise!Next]_(Promise!vars)
    BY <1>4, StepKept
  <1>6. QED
    BY <1>1, <1>2, <1>5, PTL DEF Spec, AnswersAreFresh, Promise!Spec

\* The same where operator== of every result type is equality.
THEOREM EngineKeepsPromise ==
    ASSUME SameIsEquality, EvaluatesAnew
    PROVE  Spec => AnswersAreFresh
  <1>1. SourcesCompared
    BY QueryAssumption DEF SourcesCompared, SameIsEquality
  <1>2. Spec => DifferentResultsStored
    BY EqualityStoresAlways
  <1>3. QED
    BY <1>1, <1>2, StoringKeepsPromise, PTL

=============================================================================
