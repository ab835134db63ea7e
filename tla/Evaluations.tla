----------------------------- MODULE Evaluations -----------------------------
(***************************************************************************)
(* What becomes of an evaluation over the files opened so far: it returns  *)
(* a value, is waiting for a file that was not opened yet, or fails on one *)
(* that cannot be opened.                                                  *)
(***************************************************************************)

Value(v) == [tag |-> "value", of |-> v]
Needs(s) == [tag |-> "needs", of |-> s]
Fails(s) == [tag |-> "fails", of |-> s]
=============================================================================
