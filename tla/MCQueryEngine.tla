---------------------------- MODULE MCQueryEngine ----------------------------
(***************************************************************************)
(* A small instance of QueryEngine for TLC: two files, and the shapes of   *)
(* dependency that make incremental evaluation hard.  File a decides, by   *)
(* its contents, whether file b is read at all (an import), two queries    *)
(* share one child (a diamond), and most edits leave some result equal.    *)
(*                                                                         *)
(* The contents of a file are a number: its parity is the signature the    *)
(* file declares, and file a imports file b when it is 2 or more.          *)
(***************************************************************************)
EXTENDS QueryRefinement

MCQuery == {"a", "b", "imports", "own", "other", "available", "report"}
MCSource == {"a", "b"}

MCUses ==
    [q \in MCQuery |->
        CASE q = "imports" -> {"a"}
          [] q = "own" -> {"a"}
          [] q = "other" -> {"b"}
          [] q = "available" -> {"imports", "other", "own"}
          [] q = "report" -> {"available", "a"}
          [] OTHER -> {}]

MCRank ==
    [q \in MCQuery |->
        CASE q \in MCSource -> 0
          [] q \in {"imports", "own", "other"} -> 1
          [] q = "available" -> 2
          [] OTHER -> 3]

Ran(reads, list) ==
    IF Len(reads) < Len(list) THEN list[Len(reads) + 1] ELSE Done

MCDemand(q, reads) ==
    CASE q \in {"imports", "own"} -> Ran(reads, <<"a">>)
      [] q = "other" -> Ran(reads, <<"b">>)
      [] q = "available" ->
            Ran(reads, IF reads # <<>> /\ reads[1] = "b"
                       THEN <<"imports", "other", "own">>
                       ELSE <<"imports", "own">>)
      [] q = "report" -> Ran(reads, <<"available", "a">>)

MCResult(q, reads) ==
    CASE q = "imports" -> IF reads[1] >= 2 THEN "b" ELSE "nothing"
      [] q \in {"own", "other"} -> reads[1] % 2
      [] q = "available" -> Tail(reads)
      [] q = "report" -> <<Len(reads[1]), reads[2] % 2>>

\* operator== of a result type that compares all of it.
MCSame(q, previous, result) == {previous = result}

\* The evaluator of the promise.
Anew == INSTANCE Evaluation
MCEvaluate(q, snapshot) == Anew!Evaluated(q, snapshot)
MCContinue(q, reads, snapshot) == Anew!Continued(q, reads, snapshot)
=============================================================================
