-------------------------------- MODULE Loops --------------------------------
(***************************************************************************)
(* A loop over a list: Step makes of what there is so far, and of the next *)
(* item, what there is then; context is what the items have in common.     *)
(***************************************************************************)
EXTENDS Naturals, Sequences, WellFoundedInduction, TLAPS

CONSTANT Step(_, _, _)

Loop(context, start, items) ==
    LET after[n \in 0 .. Len(items)] ==
            IF n = 0 THEN start ELSE Step(context, after[n - 1], items[n])
    IN  after[Len(items)]

(* What is to hold after n items is the set W[n]: it holds after all of    *)
(* them if it does in the beginning and each item keeps it.                *)
THEOREM LoopInvariant ==
    ASSUME NEW context, NEW start, NEW items, Len(items) \in Nat, NEW W,
           start \in W[0],
           \A n \in 1 .. Len(items) : \A s \in W[n - 1] :
              Step(context, s, items[n]) \in W[n]
    PROVE  Loop(context, start, items) \in W[Len(items)]
  <1> DEFINE N == Len(items)
             Next(f, n) == IF n = 0 THEN start ELSE Step(context, f[n - 1], items[n])
             T == {n \in Nat : \E f : \A m \in 0 .. N : m <= n => f[m] = Next(f, m)}
             R == OpToRel(<, Nat)
             after == CHOOSE f : f = [n \in 0 .. N |-> Next(f, n)]
  <1>1. \A S : S \subseteq Nat /\ S # {} => \E n \in S : \A m \in S : ~(m < n)
    <2>1. IsWellFoundedOn(R, Nat)
      BY NatLessThanWellFounded
    <2>2. SUFFICES ASSUME NEW S, S \subseteq Nat, S # {}
                   PROVE  \E n \in S : \A m \in S : ~(m < n)
      OBVIOUS
    <2>3. \E n \in S : \A m \in S : ~(<<m, n>> \in R)
      BY <2>1, <2>2, WFMin
    <2>4. PICK n \in S : \A m \in S : ~(<<m, n>> \in R)
      BY <2>3
    <2>5. ASSUME NEW m \in S, m < n
          PROVE  FALSE
      <3>1. m \in Nat /\ n \in Nat
        BY <2>2
      <3>2. <<m, n>> \in R
        BY <2>5, <3>1, SMT DEF OpToRel
      <3>3. QED
        BY <2>4, <3>2
    <2>6. QED
      BY <2>5
  <1>2. 0 \in T
    <2>1. \A m \in 0 .. N : m <= 0 => [k \in {0} |-> start][m] = Next([k \in {0} |-> start], m)
      OBVIOUS
    <2>2. QED
      BY <2>1
  <1>3. ASSUME NEW n \in T
        PROVE  n + 1 \in T
    <2>1. PICK f : \A m \in 0 .. N : m <= n => f[m] = Next(f, m)
      BY <1>3
    <2> DEFINE g == [m \in 0 .. n + 1 |-> IF m = n + 1 THEN Next(f, n + 1) ELSE f[m]]
    <2>2. \A m \in 0 .. n : g[m] = f[m]
      OBVIOUS
    <2>3. g[n + 1] = Next(f, n + 1) /\ n + 1 # 0 /\ (n + 1) - 1 = n
      OBVIOUS
    <2> HIDE DEF g
    <2>4. ASSUME NEW m \in 0 .. N, m <= n + 1
          PROVE  g[m] = Next(g, m)
      <3>1. CASE m = n + 1
        BY <2>2, <2>3, <3>1
      <3>2. CASE m = 0
        BY <2>1, <2>2, <3>2
      <3>3. CASE m # n + 1 /\ m # 0
        <4>1. m \in 0 .. n /\ m - 1 \in 0 .. n
          BY <2>4, <3>3
        <4>2. QED
          BY <2>1, <2>2, <3>3, <4>1
      <3>4. QED
        BY <3>1, <3>2, <3>3
    <2>5. QED
      BY <2>4
  <1>4. T = Nat
    <2> HIDE DEF T
    <2> DEFINE B == Nat \ T
    <2>1. ASSUME B # {}
          PROVE  FALSE
      <3>1. PICK n \in B : \A m \in B : ~(m < n)
        BY <1>1, <2>1
      <3>2. n \in Nat /\ n # 0
        BY <1>2
      <3>3. n - 1 \in Nat /\ n - 1 < n /\ (n - 1) + 1 = n
        BY <3>2
      <3>4. n - 1 \in T
        BY <3>1, <3>3
      <3>5. QED
        BY <1>3, <3>3, <3>4
    <2>2. T \subseteq Nat
      BY DEF T
    <2>3. QED
      BY <2>1, <2>2
  <1>5. N \in T
    BY <1>4
  <1>6. PICK f : \A m \in 0 .. N : f[m] = Next(f, m)
    <2>1. PICK f : \A m \in 0 .. N : m <= N => f[m] = Next(f, m)
      BY <1>5
    <2>2. QED
      BY <2>1
  <1>7. after = [n \in 0 .. N |-> Next(after, n)]
    <2> DEFINE g == [n \in 0 .. N |-> f[n]]
    <2>1. ASSUME NEW n \in 0 .. N
          PROVE  g[n] = Next(g, n)
      <3>1. n = 0 \/ n - 1 \in 0 .. N
        OBVIOUS
      <3>2. QED
        BY <1>6, <3>1
    <2>2. g = [n \in 0 .. N |-> Next(g, n)]
      BY <2>1
    <2> HIDE DEF g, Next
    <2>3. \E h : h = [n \in 0 .. N |-> Next(h, n)]
      BY <2>2
    <2>4. QED
      BY <2>3
  <1>8. Loop(context, start, items) = after[N]
    BY DEF Loop
  <1> HIDE DEF after
  <1>9. \A n \in 0 .. N : after[n] = Next(after, n)
    BY <1>7
  <1> DEFINE B == {n \in 0 .. N : after[n] \notin W[n]}
  <1>10. ASSUME B # {}
         PROVE  FALSE
    <2>1. B \subseteq Nat
      OBVIOUS
    <2>2. PICK n \in B : \A m \in B : ~(m < n)
      BY <1>1, <1>10, <2>1
    <2>3. CASE n = 0
      BY <1>9, <2>2, <2>3
    <2>4. CASE n # 0
      <3>1. n \in 1 .. N /\ n - 1 \in 0 .. N /\ n - 1 < n
        BY <2>2, <2>4
      <3>2. after[n - 1] \in W[n - 1]
        BY <2>2, <3>1
      <3>3. after[n] = Step(context, after[n - 1], items[n])
        BY <1>9, <2>4, <3>1
      <3>4. QED
        BY <2>2, <3>1, <3>2, <3>3
    <2>5. QED
      BY <2>3, <2>4
  <1>11. QED
    BY <1>8, <1>10

=============================================================================
