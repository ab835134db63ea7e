---------------------------- MODULE ArenaQueryProofs ----------------------------
(***************************************************************************)
(* What "check" shows for a file is right, for every set of texts that the *)
(* files may contain, and every number of requests, edits and exceptions.  *)
(*                                                                         *)
(* The engine keeps for every verified query the result of what it ran     *)
(* (QueryEngineProofs).  Here that is followed through the eighteen kinds  *)
(* of query, from the texts that were read to the errors that are shown,   *)
(* and compared with the faults that the texts have: Faults, which knows   *)
(* no queries and merges no tables.                                        *)
(***************************************************************************)
EXTENDS InferredVariables, QueryEngineProofs, FiniteSetTheorems

-----------------------------------------------------------------------------
(* Sequences of sequences. *)

\* A set with 0 and with every successor has all numbers.
LEMMA Climbing ==
    ASSUME NEW T, 0 \in T, \A n \in Nat : n \in T => n + 1 \in T
    PROVE  Nat \subseteq T
  <1> DEFINE B == Nat \ T
  <1> SUFFICES ASSUME B # {} PROVE FALSE
    OBVIOUS
  <1>1. PICK n \in B : \A m \in B : n <= m
    BY LeastNumber
  <1>2. n \in Nat \ {0} /\ n - 1 \in Nat /\ ~(n <= n - 1) /\ (n - 1) + 1 = n
    BY <1>1
  <1>3. n - 1 \in T
    BY <1>1, <1>2
  <1>4. QED
    BY <1>1, <1>2, <1>3

\* FlattenSeq joins one sequence after the other.
LEMMA FlattenUnfolds ==
    ASSUME NEW s, Len(s) \in Nat \ {0}
    PROVE  \E flat : /\ FlattenSeq(s) = flat[Len(s)]
                     /\ flat[1] = s[1]
                     /\ \A i \in 2..Len(s) : flat[i] = flat[i - 1] \o s[i]
  <1> DEFINE N == Len(s)
             Following1(f, i) == IF i = 1 THEN s[i] ELSE f[i - 1] \o s[i]
             T == {n \in Nat : \E f : \A i \in 1..N : i <= n => f[i] = Following1(f, i)}
             flat == CHOOSE f : f = [i \in 1..Len(s) |->
                                        IF i = 1 THEN s[i] ELSE f[i - 1] \o s[i]]
  <1>1. 0 \in T
    OBVIOUS
  <1>2. ASSUME NEW n \in Nat, n \in T
        PROVE  n + 1 \in T
    <2>1. PICK f : \A i \in 1..N : i <= n => f[i] = Following1(f, i)
      BY <1>2
    <2> DEFINE g == [i \in 1..(n + 1) |-> IF i = n + 1 THEN Following1(f, n + 1) ELSE f[i]]
    <2>2. \A i \in 1..n : g[i] = f[i]
      OBVIOUS
    <2>3. g[n + 1] = Following1(f, n + 1) /\ (n + 1) - 1 = n
      OBVIOUS
    <2> HIDE DEF g
    <2>4. ASSUME NEW i \in 1..N, i <= n + 1
          PROVE  g[i] = Following1(g, i)
      <3>1. CASE i = n + 1
        <4>1. CASE i = 1
          BY <2>3, <3>1, <4>1
        <4>2. CASE i # 1
          <5>1. n \in 1..n
            BY <3>1, <4>2
          <5>2. QED
            BY <2>2, <2>3, <3>1, <4>2, <5>1
        <4>3. QED
          BY <4>1, <4>2
      <3>2. CASE i # n + 1
        <4>1. i \in 1..n /\ (i # 1 => i - 1 \in 1..n)
          BY <2>4, <3>2
        <4>2. QED
          BY <2>1, <2>2, <4>1
      <3>3. QED
        BY <3>1, <3>2
    <2>5. QED
      BY <2>4
  <1>3. N \in T
    BY <1>1, <1>2, Climbing
  <1>4. PICK f : \A i \in 1..N : f[i] = Following1(f, i)
    <2>1. PICK f : \A i \in 1..N : i <= N => f[i] = Following1(f, i)
      BY <1>3
    <2>2. QED
      BY <2>1
  <1>5. flat = [i \in 1..N |-> Following1(flat, i)]
    <2> DEFINE g == [i \in 1..N |-> f[i]]
    <2>1. ASSUME NEW i \in 1..N
          PROVE  g[i] = Following1(g, i)
      <3>1. i = 1 \/ i - 1 \in 1..N
        OBVIOUS
      <3>2. QED
        BY <1>4, <3>1
    <2>2. g = [i \in 1..N |-> Following1(g, i)]
      BY <2>1
    <2> HIDE DEF g, Following1
    <2>3. \E h : h = [i \in 1..N |-> Following1(h, i)]
      BY <2>2
    <2>4. flat = CHOOSE h : h = [i \in 1..N |-> Following1(h, i)]
      BY DEF Following1
    <2> HIDE DEF flat
    <2>5. QED
      BY <2>3, <2>4
  <1>6. FlattenSeq(s) = flat[N]
    <2>1. FlattenSeq(s) = IF Len(s) = 0 THEN s ELSE flat[Len(s)]
      BY Zenon DEF FlattenSeq
    <2> HIDE DEF flat
    <2>2. QED
      BY <2>1
  <1> HIDE DEF flat
  <1>7. \A i \in 1..N : flat[i] = Following1(flat, i)
    BY <1>5
  <1> HIDE DEF Following1
  <1>8. flat[1] = s[1]
    BY <1>7 DEF Following1
  <1>9. ASSUME NEW i \in 2..N
        PROVE  flat[i] = flat[i - 1] \o s[i]
    <2>1. i \in 1..N /\ i # 1
      OBVIOUS
    <2>2. flat[i] = Following1(flat, i)
      BY <1>7, <2>1
    <2>3. QED
      BY <2>1, <2>2 DEF Following1
  <1>10. QED
    BY <1>6, <1>8, <1>9, Zenon

\* What holds of the empty sequence and is kept by joining one more holds of
\* the whole.
LEMMA FlattenInvariant ==
    ASSUME NEW s, Len(s) \in Nat \ {0}, NEW W, s[1] \in W[1],
           \A i \in 2..Len(s) : \A x \in W[i - 1] : x \o s[i] \in W[i]
    PROVE  FlattenSeq(s) \in W[Len(s)]
  <1>1. PICK flat : /\ FlattenSeq(s) = flat[Len(s)]
                    /\ flat[1] = s[1]
                    /\ \A i \in 2..Len(s) : flat[i] = flat[i - 1] \o s[i]
    BY FlattenUnfolds, Zenon
  <1> DEFINE T == {n \in Nat : n + 1 <= Len(s) => flat[n + 1] \in W[n + 1]}
  <1>2. 0 \in T
    BY <1>1
  <1>3. ASSUME NEW n \in Nat, n \in T
        PROVE  n + 1 \in T
    <2> SUFFICES ASSUME (n + 1) + 1 <= Len(s)
                 PROVE  flat[(n + 1) + 1] \in W[(n + 1) + 1]
      OBVIOUS
    <2> DEFINE i == (n + 1) + 1
    <2>1. i \in 2..Len(s) /\ i - 1 = n + 1 /\ n + 1 <= Len(s)
      OBVIOUS
    <2>2. flat[i - 1] \in W[i - 1]
      BY <1>3, <2>1
    <2> HIDE DEF i
    <2>3. flat[i] \in W[i]
      BY <1>1, <2>1, <2>2
    <2>4. QED
      BY <2>3 DEF i
  <1>4. Len(s) - 1 \in Nat /\ (Len(s) - 1) + 1 = Len(s)
    OBVIOUS
  <1>5. Len(s) - 1 \in T
    BY <1>2, <1>3, <1>4, Climbing
  <1>6. QED
    BY <1>1, <1>4, <1>5

\* What is in one sequence after the other.
LEMMA ConcatElements ==
    ASSUME NEW S, NEW s \in Seq(S), NEW t \in Seq(S)
    PROVE  \A x : x \in ToSet(s \o t) <=> x \in ToSet(s) \/ x \in ToSet(t)
  <1>1. /\ Len(s) \in Nat /\ Len(t) \in Nat /\ Len(s \o t) = Len(s) + Len(t)
        /\ DOMAIN s = 1..Len(s) /\ DOMAIN t = 1..Len(t)
        /\ DOMAIN (s \o t) = 1..(Len(s) + Len(t))
    OBVIOUS
  <1>2. \A i \in DOMAIN s : i \in DOMAIN (s \o t) /\ (s \o t)[i] = s[i]
    BY <1>1
  <1>3. \A i \in DOMAIN t : Len(s) + i \in DOMAIN (s \o t)
                             /\ (s \o t)[Len(s) + i] = t[i]
    BY <1>1
  <1>4. \A i \in DOMAIN (s \o t) :
            i \in DOMAIN s \/ (i - Len(s) \in DOMAIN t /\ Len(s) + (i - Len(s)) = i)
    BY <1>1
  <1>5. \A i \in DOMAIN (s \o t) : (s \o t)[i] \in ToSet(s) \/ (s \o t)[i] \in ToSet(t)
    BY <1>2, <1>3, <1>4 DEF ToSet
  <1>6. QED
    BY <1>2, <1>3, <1>5 DEF ToSet

\* Joining no sequences.
LEMMA FlattenNothing ==
    ASSUME NEW s, Len(s) = 0
    PROVE  FlattenSeq(s) = s
  BY DEF FlattenSeq

\* What is in a joined sequence.
LEMMA FlattenElements ==
    ASSUME NEW S, NEW s, s \in Seq(Seq(S))
    PROVE  /\ FlattenSeq(s) \in Seq(S)
           /\ \A x : x \in ToSet(FlattenSeq(s)) <=>
                       \E i \in DOMAIN s : x \in ToSet(s[i])
  <1>1. Len(s) \in Nat /\ DOMAIN s = 1..Len(s) /\ \A i \in 1..Len(s) : s[i] \in Seq(S)
    OBVIOUS
  <1>2. CASE Len(s) = 0
    <2>1. DOMAIN s = {} /\ FlattenSeq(s) = s
      BY <1>1, <1>2, FlattenNothing
    <2>2. s \in Seq(S)
      BY <1>1, <1>2
    <2>3. QED
      BY <2>1, <2>2 DEF ToSet
  <1>3. CASE Len(s) # 0
    <2> DEFINE Joined(n) ==
                   {y \in Seq(S) : \A x : x \in ToSet(y) <=>
                                        \E i \in 1..n : x \in ToSet(s[i])}
               W == [n \in Nat |-> Joined(n)]
    <2> HIDE DEF Joined
    <2>1. s[1] \in W[1]
      <3>1. s[1] \in Joined(1)
        BY <1>1, <1>3 DEF Joined
      <3>2. QED
        BY <3>1
    <2>2. ASSUME NEW n \in 2..Len(s), NEW y \in W[n - 1]
          PROVE  y \o s[n] \in W[n]
      <3>1. /\ n \in Nat /\ n - 1 \in Nat /\ s[n] \in Seq(S)
            /\ y \in Joined(n - 1)
        BY <1>1
      <3>2. y \o s[n] \in Seq(S)
        BY <3>1 DEF Joined
      <3>3. \A x : x \in ToSet(y \o s[n]) <=> x \in ToSet(y) \/ x \in ToSet(s[n])
        BY <3>1, ConcatElements DEF Joined
      <3>4. ASSUME NEW x
            PROVE  x \in ToSet(y \o s[n]) <=> \E i \in 1..n : x \in ToSet(s[i])
        <4>1. \A i \in 1..n : i \in 1..(n - 1) \/ i = n
          OBVIOUS
        <4>2. n \in 1..n /\ \A i \in 1..(n - 1) : i \in 1..n
          OBVIOUS
        <4>3. QED
          BY <3>1, <3>3, <4>1, <4>2 DEF Joined
      <3>5. y \o s[n] \in Joined(n)
        BY <3>2, <3>4 DEF Joined
      <3>6. QED
        BY <3>1, <3>5
    <2> HIDE DEF W
    <2>3. FlattenSeq(s) \in W[Len(s)]
      BY <1>1, <1>3, <2>1, <2>2, FlattenInvariant
    <2>4. FlattenSeq(s) \in Joined(Len(s))
      BY <1>1, <2>3 DEF W
    <2>5. QED
      BY <1>1, <2>4 DEF Joined
  <1>4. QED
    BY <1>2, <1>3

-----------------------------------------------------------------------------
(* The last entry of a name in a table. *)

\* A set of numbers up to n has a greatest.
LEMMA GreatestNumber ==
    ASSUME NEW n \in Nat, NEW T, T \subseteq 1..n, T # {}
    PROVE  \E k \in T : \A j \in T : j <= k
  <1> DEFINE R == {n - k : k \in T}
  <1>1. R \subseteq Nat /\ R # {}
    <2>1. \A k \in T : k \in Nat /\ k <= n /\ n - k \in Nat
      OBVIOUS
    <2>2. QED
      BY <2>1
  <1>2. PICK m \in R : \A j \in R : m <= j
    BY <1>1, LeastNumber
  <1>3. PICK k \in T : m = n - k
    BY <1>2
  <1>4. \A j \in T : n - k <= n - j
    BY <1>2, <1>3
  <1>5. \A j \in T : j <= k
    BY <1>4
  <1>6. QED
    BY <1>5

\* The entry of a name is the last one that has it.
LEMMA EntryIs ==
    ASSUME NEW S, NEW table \in Seq(S), NEW name, NEW k \in DOMAIN table,
           table[k].name = name,
           \A j \in DOMAIN table : table[j].name = name => j <= k
    PROVE  Entry(table, name) = table[k]
  <1> DEFINE Last1(i) ==
                 /\ table[i].name = name
                 /\ \A j \in DOMAIN table : table[j].name = name => j <= i
             last == CHOOSE i \in DOMAIN table : Last1(i)
  <1>1. \A i \in DOMAIN table : i \in Nat
    OBVIOUS
  <1>2. Last1(k)
    OBVIOUS
  <1>3. ASSUME NEW i \in DOMAIN table, Last1(i)
        PROVE  i = k
    <2>1. i <= k /\ k <= i
      BY <1>2, <1>3
    <2>2. QED
      BY <1>1, <2>1
  <1>4. Entry(table, name) = table[last]
    BY Zenon DEF Entry
  <1> HIDE DEF Last1
  <1>5. last \in DOMAIN table /\ Last1(last)
    BY <1>2
  <1> HIDE DEF last
  <1>6. QED
    BY <1>3, <1>4, <1>5

\* Every name of a table has an entry.
LEMMA EntryExists ==
    ASSUME NEW S, NEW table \in Seq(S), NEW name \in Names(table)
    PROVE  \E k \in DOMAIN table :
               /\ table[k].name = name
               /\ \A j \in DOMAIN table : table[j].name = name => j <= k
               /\ Entry(table, name) = table[k]
  <1> DEFINE T == {k \in DOMAIN table : table[k].name = name}
  <1>1. Len(table) \in Nat /\ DOMAIN table = 1..Len(table)
    OBVIOUS
  <1>2. T \subseteq 1..Len(table) /\ T # {}
    BY <1>1 DEF Names
  <1>3. PICK k \in T : \A j \in T : j <= k
    BY <1>1, <1>2, GreatestNumber
  <1>4. QED
    BY <1>3, EntryIs

\* In two tables, one after the other.
LEMMA EntryJoined ==
    ASSUME NEW S, NEW s \in Seq(S), NEW t \in Seq(S), NEW name
    PROVE  /\ name \in Names(s \o t) <=> name \in Names(s) \/ name \in Names(t)
           /\ name \in Names(t) => Entry(s \o t, name) = Entry(t, name)
           /\ name \in Names(s) /\ name \notin Names(t) =>
                 Entry(s \o t, name) = Entry(s, name)
  <1> DEFINE u == s \o t
  <1>1. /\ Len(s) \in Nat /\ Len(t) \in Nat /\ u \in Seq(S)
        /\ DOMAIN s = 1..Len(s) /\ DOMAIN t = 1..Len(t)
        /\ DOMAIN u = 1..(Len(s) + Len(t))
        /\ \A i \in 1..Len(s) : u[i] = s[i]
        /\ \A i \in 1..Len(t) : u[Len(s) + i] = t[i]
    OBVIOUS
  <1> HIDE DEF u
  <1>2. ASSUME NEW i \in DOMAIN u
        PROVE  \/ i \in DOMAIN s /\ u[i] = s[i]
               \/ \E j \in DOMAIN t : i = Len(s) + j /\ u[i] = t[j]
    <2>1. CASE i \in 1..Len(s)
      BY <1>1, <2>1
    <2>2. CASE i \notin 1..Len(s)
      <3>1. i - Len(s) \in 1..Len(t) /\ i = Len(s) + (i - Len(s))
        BY <1>1, <2>2
      <3>2. QED
        BY <1>1, <3>1
    <2>3. QED
      BY <2>1, <2>2
  <1>3. \A i \in DOMAIN s : i \in DOMAIN u /\ u[i] = s[i]
    BY <1>1
  <1>4. \A j \in DOMAIN t : Len(s) + j \in DOMAIN u /\ u[Len(s) + j] = t[j]
    BY <1>1
  <1>5. name \in Names(u) <=> name \in Names(s) \/ name \in Names(t)
    BY <1>2, <1>3, <1>4 DEF Names
  <1>6. ASSUME name \in Names(t)
        PROVE  Entry(u, name) = Entry(t, name)
    <2>1. PICK k \in DOMAIN t :
              /\ t[k].name = name
              /\ \A j \in DOMAIN t : t[j].name = name => j <= k
              /\ Entry(t, name) = t[k]
      BY <1>6, EntryExists
    <2>2. ASSUME NEW i \in DOMAIN u, u[i].name = name
          PROVE  i <= Len(s) + k
      <3>1. CASE i \in DOMAIN s
        BY <1>1, <3>1
      <3>2. CASE \E j \in DOMAIN t : i = Len(s) + j /\ u[i] = t[j]
        <4>1. PICK j \in DOMAIN t : i = Len(s) + j /\ u[i] = t[j]
          BY <3>2
        <4>2. j <= k /\ j \in Nat /\ k \in Nat
          BY <1>1, <2>1, <2>2, <4>1
        <4>3. QED
          BY <1>1, <4>1, <4>2
      <3>3. QED
        BY <1>2, <3>1, <3>2
    <2>3. Len(s) + k \in DOMAIN u /\ u[Len(s) + k] = t[k]
      BY <1>4
    <2>4. Entry(u, name) = u[Len(s) + k]
      BY <1>1, <2>1, <2>2, <2>3, EntryIs
    <2>5. QED
      BY <2>1, <2>3, <2>4
  <1>7. ASSUME name \in Names(s), name \notin Names(t)
        PROVE  Entry(u, name) = Entry(s, name)
    <2>1. PICK k \in DOMAIN s :
              /\ s[k].name = name
              /\ \A j \in DOMAIN s : s[j].name = name => j <= k
              /\ Entry(s, name) = s[k]
      BY <1>7, EntryExists
    <2>2. ASSUME NEW i \in DOMAIN u, u[i].name = name
          PROVE  i <= k
      <3>1. ~(\E j \in DOMAIN t : u[i] = t[j])
        BY <1>7, <2>2 DEF Names
      <3>2. QED
        BY <1>2, <2>1, <2>2, <3>1
    <2>3. k \in DOMAIN u /\ u[k] = s[k]
      BY <1>3
    <2>4. Entry(u, name) = u[k]
      BY <1>1, <2>1, <2>2, <2>3, EntryIs
    <2>5. QED
      BY <2>1, <2>3, <2>4
  <1>8. QED
    BY <1>5, <1>6, <1>7 DEF u

\* The tables of several files, one after the other: the last to have a name
\* gives its entry.
LEMMA FlattenTables ==
    ASSUME NEW S, NEW declared, declared \in Seq(Seq(S))
    PROVE  /\ FlattenSeq(declared) \in Seq(S)
           /\ \A name : name \in Names(FlattenSeq(declared)) <=>
                 \E i \in DOMAIN declared : name \in Names(declared[i])
           /\ \A name : \A i \in DOMAIN declared :
                 /\ name \in Names(declared[i])
                 /\ \A j \in DOMAIN declared : name \in Names(declared[j]) => j <= i
                 => Entry(FlattenSeq(declared), name) = Entry(declared[i], name)
  <1> DEFINE N == Len(declared)
  <1>1. N \in Nat /\ DOMAIN declared = 1..N /\ \A i \in 1..N : declared[i] \in Seq(S)
    OBVIOUS
  <1>2. CASE N = 0
    <2>1. DOMAIN declared = {} /\ FlattenSeq(declared) = declared
      BY <1>1, <1>2, FlattenNothing
    <2>2. declared \in Seq(S)
      BY <1>1, <1>2
    <2>3. QED
      BY <2>1, <2>2 DEF Names
  <1>3. CASE N # 0
    <2> DEFINE Joined(n) ==
                   {y \in Seq(S) :
                       /\ \A name : name \in Names(y) <=>
                             \E i \in 1..n : name \in Names(declared[i])
                       /\ \A name : \A i \in 1..n :
                             /\ name \in Names(declared[i])
                             /\ \A j \in 1..n : name \in Names(declared[j]) => j <= i
                             => Entry(y, name) = Entry(declared[i], name)}
               W == [n \in Nat |-> Joined(n)]
    <2> HIDE DEF Joined
    <2>1. declared[1] \in W[1]
      <3>1. declared[1] \in Joined(1)
        BY <1>1, <1>3 DEF Joined
      <3>2. QED
        BY <3>1
    <2>2. ASSUME NEW n \in 2..N, NEW y \in W[n - 1]
          PROVE  y \o declared[n] \in W[n]
      <3>1. /\ n \in Nat /\ n - 1 \in Nat /\ declared[n] \in Seq(S)
            /\ y \in Joined(n - 1)
        BY <1>1
      <3> DEFINE t == declared[n]
      <3>2. /\ y \in Seq(S) /\ t \in Seq(S) /\ y \o t \in Seq(S)
            /\ \A name : name \in Names(y) <=>
                   \E i \in 1..(n - 1) : name \in Names(declared[i])
            /\ \A name : \A i \in 1..(n - 1) :
                   /\ name \in Names(declared[i])
                   /\ \A j \in 1..(n - 1) : name \in Names(declared[j]) => j <= i
                   => Entry(y, name) = Entry(declared[i], name)
        BY <3>1 DEF Joined
      <3>3. /\ n \in 1..n
            /\ \A i \in 1..n : i \in 1..(n - 1) \/ i = n
            /\ \A i \in 1..(n - 1) : i \in 1..n /\ ~(n <= i)
        OBVIOUS
      <3>4. ASSUME NEW name
            PROVE  name \in Names(y \o t) <=>
                       \E i \in 1..n : name \in Names(declared[i])
        <4>1. name \in Names(y \o t) <=> name \in Names(y) \/ name \in Names(t)
          BY <3>2, EntryJoined
        <4>2. QED
          BY <3>2, <3>3, <4>1
      <3>5. ASSUME NEW name, NEW i \in 1..n, name \in Names(declared[i]),
                   \A j \in 1..n : name \in Names(declared[j]) => j <= i
            PROVE  Entry(y \o t, name) = Entry(declared[i], name)
        <4>1. CASE i = n
          BY <3>2, <3>5, <4>1, EntryJoined
        <4>2. CASE i # n
          <5>1. i \in 1..(n - 1) /\ name \notin Names(t)
            BY <3>3, <3>5, <4>2
          <5>2. name \in Names(y)
            BY <3>2, <3>5, <5>1
          <5>3. Entry(y, name) = Entry(declared[i], name)
            BY <3>2, <3>3, <3>5, <5>1
          <5>4. QED
            BY <3>2, <5>1, <5>2, <5>3, EntryJoined
        <4>3. QED
          BY <4>1, <4>2
      <3>6. y \o t \in Joined(n)
        BY <3>2, <3>4, <3>5 DEF Joined
      <3>7. QED
        BY <3>1, <3>6
    <2> HIDE DEF W
    <2>3. FlattenSeq(declared) \in W[N]
      BY <1>1, <1>3, <2>1, <2>2, FlattenInvariant
    <2>4. FlattenSeq(declared) \in Joined(N)
      BY <1>1, <2>3 DEF W
    <2>5. QED
      BY <1>1, <2>4 DEF Joined
  <1>4. QED
    BY <1>2, <1>3

\* A sequence of the elements of a finite set has them all.
LEMMA SetListed ==
    ASSUME NEW S, IsFiniteSet(S)
    PROVE  SetToSeq(S) \in Seq(S) /\ ToSet(SetToSeq(S)) = S
  <1> DEFINE n == Cardinality(S)
             f == SetToSeq(S)
  <1>1. n \in Nat /\ ExistsBijection(1..n, S)
    BY FS_CardinalityType
  <1>2. \E g \in [1..n -> S] : IsInjective(g)
    BY <1>1 DEF ExistsBijection, Bijection, Injection
  <1>3. f \in [1..n -> S] /\ IsInjective(f)
    BY <1>2 DEF SetToSeq
  <1> HIDE DEF f
  <1>4. f \in Injection(1..n, S)
    BY <1>3 DEF Injection
  <1>5. IsFiniteSet(1..n) /\ Cardinality(1..n) = n
    BY <1>1, FS_Interval
  <1>6. f \in Surjection(1..n, S)
    BY <1>4, <1>5, FS_Injection
  <1>7. ToSet(f) = S
    BY <1>3, <1>6 DEF Surjection, ToSet
  <1>8. f \in Seq(S)
    BY <1>1, <1>3
  <1>9. QED
    BY <1>7, <1>8 DEF f

\* An import has the names, and for each the entry, of the table it copies.
LEMMA ImportKeepsEntries ==
    ASSUME NEW S, NEW table \in Seq(S)
    PROVE  /\ Imported(table) \in Seq(S)
           /\ Names(Imported(table)) = Names(table)
           /\ \A name \in Names(table) :
                 Entry(Imported(table), name) = Entry(table, name)
  <1> DEFINE E == {Entry(table, name) : name \in Names(table)}
             list == Imported(table)
  <1>1. \A name \in Names(table) :
            Entry(table, name).name = name /\ Entry(table, name) \in ToSet(table)
    BY EntryExists DEF ToSet
  <1>2. IsFiniteSet(ToSet(table))
    <2> DEFINE D == 1..Len(table)
               T == ToSet(table)
    <2>1. Len(table) \in Nat /\ DOMAIN table = D
      OBVIOUS
    <2>2. IsFiniteSet(D)
      BY <2>1, FS_Interval
    <2>3. table \in Surjection(D, T)
      BY <2>1 DEF Surjection, ToSet
    <2> HIDE DEF D, T
    <2>4. QED
      BY <2>2, <2>3, FS_Surjection DEF T
  <1>3. E \subseteq ToSet(table)
    BY <1>1
  <1>4. IsFiniteSet(E)
    BY <1>2, <1>3, FS_Subset
  <1>5. ToSet(table) \subseteq S
    BY DEF ToSet
  <1>6. list = SetToSeq(E)
    BY Zenon DEF Imported
  <1> HIDE DEF list
  <1>7. list \in Seq(E) /\ ToSet(list) = E
    BY <1>4, <1>6, SetListed
  <1>8. list \in Seq(S)
    BY <1>3, <1>5, <1>7
  <1>9. \A name : name \in Names(list) <=> \E x \in ToSet(list) : x.name = name
    BY DEF Names, ToSet
  <1>10. Names(list) = Names(table)
    <2>1. ASSUME NEW name \in Names(list) PROVE name \in Names(table)
      <3>1. PICK x \in E : x.name = name
        BY <1>7, <1>9, <2>1, Zenon
      <3>2. PICK other \in Names(table) : x = Entry(table, other)
        BY Zenon
      <3>3. QED
        BY <1>1, <3>1, <3>2, Zenon
    <2>2. ASSUME NEW name \in Names(table) PROVE name \in Names(list)
      <3>1. Entry(table, name) \in E /\ Entry(table, name).name = name
        BY <1>1, <2>2, Zenon
      <3>2. QED
        BY <1>7, <1>9, <3>1, Zenon
    <2>3. QED
      BY <2>1, <2>2, Zenon
  <1>11. ASSUME NEW name \in Names(table)
         PROVE  Entry(list, name) = Entry(table, name)
    <2>1. PICK k \in DOMAIN list : list[k].name = name /\ Entry(list, name) = list[k]
      BY <1>8, <1>10, EntryExists
    <2>2. list[k] \in E
      BY <1>7 DEF ToSet
    <2>3. PICK other \in Names(table) : list[k] = Entry(table, other)
      BY <2>2
    <2>4. other = name
      BY <1>1, <2>1, <2>3
    <2>5. QED
      BY <2>1, <2>3, <2>4
  <1>12. QED
    BY <1>8, <1>10, <1>11 DEF list

-----------------------------------------------------------------------------
(* The lists of errors. *)

\* The marked places are the wrong ones.
LEMMA MarkedElements ==
    ASSUME NEW S, NEW places \in Seq(S), NEW bad, NEW parts,
           parts \in [DOMAIN places -> Seq(S)],
           \A i \in DOMAIN places :
               parts[i] = IF places[i] \in bad THEN <<places[i]>> ELSE <<>>
    PROVE  /\ FlattenSeq(parts) \in Seq(S)
           /\ \A x : x \in ToSet(FlattenSeq(parts)) <=>
                       x \in ToSet(places) /\ x \in bad
  <1>1. Len(places) \in Nat /\ DOMAIN places = 1..Len(places)
        /\ \A i \in DOMAIN places : places[i] \in S
    OBVIOUS
  <1>2. DOMAIN parts = DOMAIN places
        /\ \A i \in DOMAIN places : parts[i] =
               IF places[i] \in bad THEN <<places[i]>> ELSE <<>>
    OBVIOUS
  <1>3. ASSUME NEW i \in DOMAIN places
        PROVE  /\ parts[i] \in Seq(S)
               /\ \A x : x \in ToSet(parts[i]) <=> x = places[i] /\ x \in bad
    <2>1. CASE places[i] \in bad
      <3>1. parts[i] = <<places[i]>>
        BY <1>2, <2>1
      <3>2. <<places[i]>> \in Seq(S) /\ DOMAIN <<places[i]>> = {1}
            /\ <<places[i]>>[1] = places[i]
        BY <1>1
      <3>3. \A x : x \in ToSet(<<places[i]>>) <=> x = places[i]
        BY <3>2 DEF ToSet
      <3>4. QED
        BY <2>1, <3>1, <3>2, <3>3
    <2>2. CASE places[i] \notin bad
      <3>1. parts[i] = <<>>
        BY <1>2, <2>2
      <3>2. <<>> \in Seq(S) /\ DOMAIN <<>> = {}
        OBVIOUS
      <3>3. \A x : x \notin ToSet(<<>>)
        BY <3>2 DEF ToSet
      <3>4. QED
        BY <2>2, <3>1, <3>2, <3>3
    <2>3. QED
      BY <2>1, <2>2
  <1>4. parts \in Seq(Seq(S))
    <2>1. parts = [i \in 1..Len(places) |-> parts[i]]
      BY <1>1
    <2>2. \A i \in 1..Len(places) : parts[i] \in Seq(S)
      BY <1>1, <1>3
    <2>3. QED
      BY <1>1, <2>1, <2>2
  <1> DEFINE marked == FlattenSeq(parts)
  <1>5. /\ marked \in Seq(S)
        /\ \A x : x \in ToSet(marked) <=>
                     \E i \in DOMAIN parts : x \in ToSet(parts[i])
    BY <1>4, FlattenElements
  <1> HIDE DEF marked
  <1>6. ASSUME NEW x
        PROVE  x \in ToSet(marked) <=> x \in ToSet(places) /\ x \in bad
    <2>1. x \in ToSet(marked) <=> \E i \in DOMAIN places : x = places[i] /\ x \in bad
      BY <1>2, <1>3, <1>5
    <2>2. QED
      BY <2>1 DEF ToSet
  <1>7. QED
    BY <1>5, <1>6 DEF marked

\* There is one error for each place.
LEMMA ErrorsElements ==
    ASSUME NEW S, NEW places \in Seq(S), NEW kind
    PROVE  /\ IsList(Errors(kind, places))
           /\ \A e : e \in ToSet(Errors(kind, places)) <=>
                        \E x \in ToSet(places) : e = <<kind, x>>
  <1> DEFINE errors == Errors(kind, places)
  <1>1. Len(places) \in Nat /\ DOMAIN places = 1..Len(places)
    OBVIOUS
  <1>2. errors = [i \in 1..Len(places) |-> <<kind, places[i]>>]
    BY <1>1 DEF Errors
  <1> HIDE DEF errors
  <1>3. \A i \in 1..Len(places) : errors[i] \in ToSet(errors)
    BY <1>1, <1>2 DEF ToSet
  <1>4. errors \in Seq(ToSet(errors))
    BY <1>1, <1>2, <1>3
  <1>5. \A e : e \in ToSet(errors) <=> \E x \in ToSet(places) : e = <<kind, x>>
    BY <1>1, <1>2 DEF ToSet
  <1>6. QED
    BY <1>4, <1>5 DEF IsList, errors

\* The places of a kind of error are those that are wrong.
LEMMA FoundErrors ==
    ASSUME NEW S, NEW places \in Seq(S), NEW bad, NEW kind, NEW parts,
           parts \in [DOMAIN places -> Seq(S)],
           \A i \in DOMAIN places :
               parts[i] = IF places[i] \in bad THEN <<places[i]>> ELSE <<>>
    PROVE  /\ IsList(Errors(kind, FlattenSeq(parts)))
           /\ \A e : e \in ToSet(Errors(kind, FlattenSeq(parts))) <=>
                       \E x \in ToSet(places) : e = <<kind, x>> /\ x \in bad
  <1> DEFINE marked == FlattenSeq(parts)
  <1>1. /\ marked \in Seq(S)
        /\ \A x : x \in ToSet(marked) <=> x \in ToSet(places) /\ x \in bad
    BY MarkedElements, Zenon
  <1> HIDE DEF marked
  <1>2. /\ IsList(Errors(kind, marked))
        /\ \A e : e \in ToSet(Errors(kind, marked)) <=>
                     \E x \in ToSet(marked) : e = <<kind, x>>
    BY <1>1, ErrorsElements
  <1>3. QED
    BY <1>1, <1>2 DEF marked

\* The resolver reports the calls of functions that it has no id for.
LEMMA UnknownCallsFound ==
    ASSUME NEW ast, NEW ids,
           IsList(ast.calls)
    PROVE  /\ IsList(UnknownCalls(ast, ids))
           /\ \A e : e \in ToSet(UnknownCalls(ast, ids)) <=>
                 \E c \in ToSet(ast.calls) :
                     /\ e = <<"unknown", c>>
                     /\ c.name \notin DOMAIN ids
  <1> DEFINE places == ast.calls
             Wrong(c) ==
                 c.name \notin DOMAIN ids
             S == ToSet(places)
             bad == {c \in S : Wrong(c)}
             parts == [i \in DOMAIN places |->
                          IF Wrong(places[i]) THEN <<places[i]>> ELSE <<>>]
  <1> HIDE DEF Wrong
  <1>1. UnknownCalls(ast, ids) = Errors("unknown", FlattenSeq(parts))
    BY Zenon DEF UnknownCalls, Marked, Wrong
  <1>2. \A i \in DOMAIN places : places[i] \in S
    BY DEF ToSet
  <1> HIDE DEF S
  <1>3. \A i \in DOMAIN places : <<places[i]>> \in Seq(S) /\ <<>> \in Seq(S)
    BY <1>2
  <1>4. /\ parts \in [DOMAIN places -> Seq(S)]
        /\ \A i \in DOMAIN places :
              parts[i] = IF places[i] \in bad THEN <<places[i]>> ELSE <<>>
    BY <1>2, <1>3
  <1>5. places \in Seq(S) /\ \A c : c \in bad <=> c \in S /\ Wrong(c)
    BY DEF S, IsList
  <1> HIDE DEF parts, bad, places
  <1>6. /\ IsList(Errors("unknown", FlattenSeq(parts)))
        /\ \A e : e \in ToSet(Errors("unknown", FlattenSeq(parts))) <=>
                     \E x \in S : e = <<"unknown", x>> /\ x \in bad
    BY <1>4, <1>5, FoundErrors, Zenon DEF S
  <1>7. \A e : e \in ToSet(UnknownCalls(ast, ids)) <=>
                  \E c \in S : e = <<"unknown", c>> /\ Wrong(c)
    BY <1>1, <1>5, <1>6
  <1>8. QED
    BY <1>1, <1>6, <1>7, Zenon DEF S, Wrong, places

\* The type checker reports the calls that the function in the table does not
\* accept.
LEMMA WrongCallsFound ==
    ASSUME NEW ast, NEW ftable,
           IsList(ast.calls)
    PROVE  /\ IsList(WrongCalls(ast, ftable))
           /\ \A e : e \in ToSet(WrongCalls(ast, ftable)) <=>
                 \E c \in ToSet(ast.calls) :
                     /\ e = <<"call", c>>
                     /\ c.name \in Names(ftable)
                     /\ CallFails(Entry(ftable, c.name), c.arguments)
  <1> DEFINE places == ast.calls
             Wrong(c) ==
                 /\ c.name \in Names(ftable)
                 /\ CallFails(Entry(ftable, c.name), c.arguments)
             S == ToSet(places)
             bad == {c \in S : Wrong(c)}
             parts == [i \in DOMAIN places |->
                          IF Wrong(places[i]) THEN <<places[i]>> ELSE <<>>]
  <1> HIDE DEF Wrong
  <1>1. WrongCalls(ast, ftable) = Errors("call", FlattenSeq(parts))
    BY Zenon DEF WrongCalls, Marked, Wrong
  <1>2. \A i \in DOMAIN places : places[i] \in S
    BY DEF ToSet
  <1> HIDE DEF S
  <1>3. \A i \in DOMAIN places : <<places[i]>> \in Seq(S) /\ <<>> \in Seq(S)
    BY <1>2
  <1>4. /\ parts \in [DOMAIN places -> Seq(S)]
        /\ \A i \in DOMAIN places :
              parts[i] = IF places[i] \in bad THEN <<places[i]>> ELSE <<>>
    BY <1>2, <1>3
  <1>5. places \in Seq(S) /\ \A c : c \in bad <=> c \in S /\ Wrong(c)
    BY DEF S, IsList
  <1> HIDE DEF parts, bad, places
  <1>6. /\ IsList(Errors("call", FlattenSeq(parts)))
        /\ \A e : e \in ToSet(Errors("call", FlattenSeq(parts))) <=>
                     \E x \in S : e = <<"call", x>> /\ x \in bad
    BY <1>4, <1>5, FoundErrors, Zenon DEF S
  <1>7. \A e : e \in ToSet(WrongCalls(ast, ftable)) <=>
                  \E c \in S : e = <<"call", c>> /\ Wrong(c)
    BY <1>1, <1>5, <1>6
  <1>8. QED
    BY <1>1, <1>6, <1>7, Zenon DEF S, Wrong, places

\* The resolver reports the accesses to types that it has no id for.
LEMMA UnknownTypesFound ==
    ASSUME NEW ast, NEW ids,
           IsList(ast.accesses)
    PROVE  /\ IsList(UnknownTypes(ast, ids))
           /\ \A e : e \in ToSet(UnknownTypes(ast, ids)) <=>
                 \E a \in ToSet(ast.accesses) :
                     /\ e = <<"type", a>>
                     /\ a.name \notin DOMAIN ids
  <1> DEFINE places == ast.accesses
             Wrong(a) ==
                 a.name \notin DOMAIN ids
             S == ToSet(places)
             bad == {a \in S : Wrong(a)}
             parts == [i \in DOMAIN places |->
                          IF Wrong(places[i]) THEN <<places[i]>> ELSE <<>>]
  <1> HIDE DEF Wrong
  <1>1. UnknownTypes(ast, ids) = Errors("type", FlattenSeq(parts))
    BY Zenon DEF UnknownTypes, Marked, Wrong
  <1>2. \A i \in DOMAIN places : places[i] \in S
    BY DEF ToSet
  <1> HIDE DEF S
  <1>3. \A i \in DOMAIN places : <<places[i]>> \in Seq(S) /\ <<>> \in Seq(S)
    BY <1>2
  <1>4. /\ parts \in [DOMAIN places -> Seq(S)]
        /\ \A i \in DOMAIN places :
              parts[i] = IF places[i] \in bad THEN <<places[i]>> ELSE <<>>
    BY <1>2, <1>3
  <1>5. places \in Seq(S) /\ \A a : a \in bad <=> a \in S /\ Wrong(a)
    BY DEF S, IsList
  <1> HIDE DEF parts, bad, places
  <1>6. /\ IsList(Errors("type", FlattenSeq(parts)))
        /\ \A e : e \in ToSet(Errors("type", FlattenSeq(parts))) <=>
                     \E x \in S : e = <<"type", x>> /\ x \in bad
    BY <1>4, <1>5, FoundErrors, Zenon DEF S
  <1>7. \A e : e \in ToSet(UnknownTypes(ast, ids)) <=>
                  \E a \in S : e = <<"type", a>> /\ Wrong(a)
    BY <1>1, <1>5, <1>6
  <1>8. QED
    BY <1>1, <1>6, <1>7, Zenon DEF S, Wrong, places

\* The type checker reports the accesses to members that the struct in the
\* table lacks, unless the resolver has reported the type.
LEMMA WrongMembersFound ==
    ASSUME NEW resolved, NEW stable,
           IsList(resolved.ast.accesses)
    PROVE  /\ IsList(WrongMembers(resolved, stable))
           /\ \A e : e \in ToSet(WrongMembers(resolved, stable)) <=>
                 \E a \in ToSet(resolved.ast.accesses) :
                     /\ e = <<"member", a>>
                     /\ <<"type", a>> \notin ToSet(resolved.errors)
                     /\ a.name \in Names(stable) =>
                           a.member \notin ToSet(Entry(stable, a.name).members)
  <1> DEFINE places == resolved.ast.accesses
             Wrong(a) ==
                 /\ <<"type", a>> \notin ToSet(resolved.errors)
                 /\ a.name \in Names(stable) =>
                       a.member \notin ToSet(Entry(stable, a.name).members)
             S == ToSet(places)
             bad == {a \in S : Wrong(a)}
             parts == [i \in DOMAIN places |->
                          IF Wrong(places[i]) THEN <<places[i]>> ELSE <<>>]
  <1> HIDE DEF Wrong
  <1>1. WrongMembers(resolved, stable) = Errors("member", FlattenSeq(parts))
    BY Zenon DEF WrongMembers, Marked, Wrong
  <1>2. \A i \in DOMAIN places : places[i] \in S
    BY DEF ToSet
  <1> HIDE DEF S
  <1>3. \A i \in DOMAIN places : <<places[i]>> \in Seq(S) /\ <<>> \in Seq(S)
    BY <1>2
  <1>4. /\ parts \in [DOMAIN places -> Seq(S)]
        /\ \A i \in DOMAIN places :
              parts[i] = IF places[i] \in bad THEN <<places[i]>> ELSE <<>>
    BY <1>2, <1>3
  <1>5. places \in Seq(S) /\ \A a : a \in bad <=> a \in S /\ Wrong(a)
    BY DEF S, IsList
  <1> HIDE DEF parts, bad, places
  <1>6. /\ IsList(Errors("member", FlattenSeq(parts)))
        /\ \A e : e \in ToSet(Errors("member", FlattenSeq(parts))) <=>
                     \E x \in S : e = <<"member", x>> /\ x \in bad
    BY <1>4, <1>5, FoundErrors, Zenon DEF S
  <1>7. \A e : e \in ToSet(WrongMembers(resolved, stable)) <=>
                  \E a \in S : e = <<"member", a>> /\ Wrong(a)
    BY <1>1, <1>5, <1>6
  <1>8. QED
    BY <1>1, <1>6, <1>7, Zenon DEF S, Wrong, places

\* What is joined to a sequence leaves its first two elements.
LEMMA ConcatFront ==
    ASSUME NEW S, NEW s \in Seq(S), NEW t \in Seq(S), Len(s) >= 2
    PROVE  /\ s \o t \in Seq(S) /\ Len(s \o t) >= 2
           /\ (s \o t)[1] = s[1] /\ (s \o t)[2] = s[2]
  <1>1. Len(s) \in Nat /\ Len(t) \in Nat /\ Len(s \o t) = Len(s) + Len(t)
    OBVIOUS
  <1>2. 1 \in 1..Len(s) /\ 2 \in 1..Len(s)
    BY <1>1
  <1>3. \A i \in 1..Len(s) : (s \o t)[i] = s[i]
    OBVIOUS
  <1>4. QED
    BY <1>1, <1>2, <1>3

\* The renderer reads the contents and the line endings of the file first.
LEMMA FlattenFront ==
    ASSUME NEW S, NEW a \in S, NEW b \in S, NEW n \in Nat
    PROVE  LET joined == FlattenSeq([i \in 1..n |-> <<a, b>>])
           IN  /\ joined \in Seq(S)
               /\ n # 0 => Len(joined) >= 2 /\ joined[1] = a /\ joined[2] = b
  <1> DEFINE s == [i \in 1..n |-> <<a, b>>]
             joined == FlattenSeq(s)
  <1>1. /\ Len(s) = n /\ s \in Seq(Seq(S))
        /\ \A i \in 1..n : s[i] = <<a, b>>
    OBVIOUS
  <1> HIDE DEF s
  <1>2. joined \in Seq(S)
    BY <1>1, FlattenElements
  <1>3. CASE n # 0
    <2> DEFINE Starts == {y \in Seq(S) : Len(y) >= 2 /\ y[1] = a /\ y[2] = b}
               W == [i \in Nat |-> Starts]
    <2>1. <<a, b>> \in Starts
      OBVIOUS
    <2>2. ASSUME NEW y \in Starts
          PROVE  y \o <<a, b>> \in Starts
      <3>1. y \in Seq(S) /\ Len(y) >= 2 /\ y[1] = a /\ y[2] = b
        OBVIOUS
      <3>2. <<a, b>> \in Seq(S)
        OBVIOUS
      <3>3. QED
        BY <3>1, <3>2, ConcatFront
    <2> HIDE DEF Starts
    <2>3. s[1] \in W[1]
      BY <1>1, <1>3, <2>1
    <2>4. ASSUME NEW i \in 2..n, NEW y \in W[i - 1]
          PROVE  y \o s[i] \in W[i]
      <3>1. i \in 1..n /\ i \in Nat /\ i - 1 \in Nat
        OBVIOUS
      <3>2. QED
        BY <1>1, <2>2, <3>1
    <2> HIDE DEF W
    <2>5. joined \in W[n]
      BY <1>1, <1>3, <2>3, <2>4, FlattenInvariant
    <2>6. joined \in Starts
      BY <2>5 DEF W
    <2>7. QED
      BY <1>2, <2>6 DEF Starts, s
  <1>4. QED
    BY <1>2, <1>3 DEF s

\* The engine runs the queries of the compiler.
ArenaEngine ==
    /\ Query = ArenaQuery
    /\ Source = ArenaSource
    /\ \A q \in Query : \A reads : Demand(q, reads) = ArenaDemand(q, reads)
    /\ \A q \in Query : \A reads : Result(q, reads) = ArenaResult(q, reads)
    /\ \A q \in Query : \A previous, result :
          Same(q, previous, result) = ArenaSame(q, previous, result)

\* The contents of a file in the cache are contents that it had.
SourcesWereRead ==
    \A s \in Source : s \in Cached => query_cache[s] \in Contents

\* While a request is served, or when it is answered.
Settled ==
    /\ EngineInvariant
    /\ VerifiedAreFresh
    /\ SourcesWereRead
    /\ revision # 0

\* A query of the compiler is verified.
Verified(q) == q \in Query /\ verified[q] = revision

\* The text that was read of f, and that one was.
Text(f) == seen[<<"SourceContents", f>>]
Opened(f) == <<"SourceContents", f>> \in DOMAIN seen /\ Text(f) \in Contents

\* A verified query is the result of what it ran, all of it verified.
LEMMA VerifiedReads ==
    ASSUME ArenaEngine, Settled, NEW q \in Query, q \notin Source, Verified(q)
    PROVE  LET deps == query_dependencies[q]
           IN  /\ deps \in Seq(Query) /\ Len(deps) \in Nat
               /\ DOMAIN deps = 1..Len(deps)
               /\ \A i \in 1..Len(deps) : Verified(deps[i])
               /\ \A i \in 1..Len(deps) :
                     ArenaDemand(q, SubSeq(Reads(q), 1, i - 1)) = deps[i]
               /\ ArenaDemand(q, Reads(q)) = Done
               /\ query_cache[q] = ArenaResult(q, Reads(q))
  <1> DEFINE deps == query_dependencies[q]
  <1>1. TypeOK /\ VerifiedTogether
    BY DEF Settled, EngineInvariant
  <1>2. /\ deps \in Seq(Query) /\ Len(deps) \in Nat /\ DOMAIN deps = 1..Len(deps)
        /\ \A i \in 1..Len(deps) : deps[i] \in Query
    BY <1>1, LenProperties DEF TypeOK
  <1>3. \A i \in 1..Len(deps) : verified[deps[i]] = revision
    BY <1>1, <1>2 DEF VerifiedTogether, Verified, Settled
  <1>4. Reproducible(q)
    BY DEF Settled, VerifiedAreFresh, Verified
  <1>5. QED
    BY <1>2, <1>3, <1>4 DEF Reproducible, ArenaEngine, Verified

\* What a query runs first does not depend on anything it has read.
LEMMA RanFirst ==
    ASSUME ArenaEngine, Settled, NEW q \in Query, q \notin Source, Verified(q),
           NEW first \in Query,
           Len(RunList(q, <<>>)) \in Nat \ {0}, RunList(q, <<>>)[1] = first
    PROVE  /\ Len(query_dependencies[q]) # 0
           /\ query_dependencies[q][1] = first
           /\ Verified(first)
  <1> DEFINE deps == query_dependencies[q]
             reads == Reads(q)
             n == Len(deps)
  <1>1. /\ n \in Nat /\ DOMAIN deps = 1..n
        /\ \A i \in 1..n : Verified(deps[i])
        /\ \A i \in 1..n : ArenaDemand(q, SubSeq(reads, 1, i - 1)) = deps[i]
        /\ ArenaDemand(q, reads) = Done
    BY VerifiedReads
  <1>2. reads = [i \in 1..n |-> query_cache[deps[i]]]
    BY <1>1 DEF Reads
  <1> HIDE DEF deps, reads
  <1>3. first # Done
    BY QueryAssumption
  <1>4. ArenaDemand(q, <<>>) = first
    BY DEF ArenaDemand
  <1>5. n # 0
    <2> SUFFICES ASSUME n = 0 PROVE FALSE
      OBVIOUS
    <2>1. reads = <<>>
      BY <1>2
    <2>2. QED
      BY <1>1, <1>3, <1>4, <2>1
  <1>6. deps[1] = first
    <2>1. SubSeq(reads, 1, 1 - 1) = <<>>
      BY <1>1, <1>2
    <2>2. 1 \in 1..n
      BY <1>1, <1>5
    <2>3. ArenaDemand(q, SubSeq(reads, 1, 1 - 1)) = deps[1]
      BY <1>1, <2>2
    <2>4. QED
      BY <1>4, <2>1, <2>3
  <1>7. Verified(deps[1])
    BY <1>1, <1>5
  <1>8. QED
    BY <1>5, <1>6, <1>7 DEF deps

\* A query whose list of queries follows from what the first of them returns
\* has run that list.
LEMMA RanItsList ==
    ASSUME ArenaEngine, Settled, NEW q \in Query, q \notin Source, Verified(q),
           NEW list, list \in Seq(Query), Len(list) # 0,
           Len(RunList(q, <<>>)) \in Nat \ {0}, RunList(q, <<>>)[1] = list[1],
           \A r : Len(r) \in Nat \ {0} /\ r[1] = query_cache[list[1]] =>
                      RunList(q, r) = list
    PROVE  /\ Len(list) \in Nat
           /\ \A i \in 1..Len(list) : Verified(list[i])
           /\ Len(Reads(q)) = Len(list)
           /\ DOMAIN Reads(q) = 1..Len(list)
           /\ \A i \in 1..Len(list) : Reads(q)[i] = query_cache[list[i]]
           /\ query_cache[q] = ArenaResult(q, Reads(q))
  <1> DEFINE deps == query_dependencies[q]
             reads == Reads(q)
             n == Len(deps)
  <1>1. /\ deps \in Seq(Query) /\ n \in Nat
        /\ DOMAIN deps = 1..n
        /\ \A i \in 1..n : Verified(deps[i])
        /\ \A i \in 1..n : ArenaDemand(q, SubSeq(reads, 1, i - 1)) = deps[i]
        /\ ArenaDemand(q, reads) = Done
        /\ query_cache[q] = ArenaResult(q, reads)
    BY VerifiedReads
  <1>2. reads = [i \in 1..n |-> query_cache[deps[i]]]
    BY <1>1 DEF Reads
  <1> HIDE DEF deps, reads
  <1>3. /\ Len(reads) = n /\ DOMAIN reads = 1..n
        /\ \A i \in 1..n : reads[i] = query_cache[deps[i]]
    BY <1>1, <1>2
  <1>4. Done \notin Query
    BY QueryAssumption
  <1>5. Len(list) \in Nat /\ \A i \in 1..Len(list) : list[i] \in Query
    OBVIOUS
  <1>6. list[1] \in Query
    BY <1>5
  <1>8. n # 0 /\ deps[1] = list[1]
    BY <1>6, RanFirst DEF deps
  <1>10. reads[1] = query_cache[list[1]]
    BY <1>1, <1>3, <1>8
  <1>11. ASSUME NEW i \in 2..n
         PROVE  i \in 1..Len(list) /\ deps[i] = list[i]
    <2> DEFINE r == SubSeq(reads, 1, i - 1)
    <2>1. Len(r) = i - 1 /\ r[1] = reads[1] /\ i - 1 \in Nat \ {0} /\ i \in 1..n
          /\ (i - 1) + 1 = i
      BY <1>3, <1>2, <1>1
    <2> HIDE DEF r
    <2>2. RunList(q, r) = list
      BY <1>10, <2>1
    <2>3. ArenaDemand(q, r) = deps[i]
      BY <1>1, <2>1 DEF r
    <2>4. deps[i] # Done
      BY <1>1, <1>4, <2>1 DEF Verified
    <2>5. i - 1 < Len(list) /\ deps[i] = list[(i - 1) + 1]
      BY <2>1, <2>2, <2>3, <2>4 DEF ArenaDemand
    <2>6. QED
      BY <1>5, <2>1, <2>5
  <1>12. n <= Len(list)
    <2>1. CASE n = 1
      BY <1>5, <2>1
    <2>2. CASE n # 1
      <3>1. n \in 2..n
        BY <1>1, <1>8, <2>2
      <3>2. QED
        BY <1>11, <3>1
    <2>3. QED
      BY <2>1, <2>2
  <1>13. Len(list) <= n
    <2> SUFFICES ASSUME n < Len(list) PROVE FALSE
      BY <1>1, <1>5
    <2>1. RunList(q, reads) = list
      BY <1>1, <1>3, <1>8, <1>10
    <2>2. ArenaDemand(q, reads) = list[n + 1]
      BY <1>3, <2>1 DEF ArenaDemand
    <2>3. n + 1 \in 1..Len(list)
      BY <1>1, <1>5
    <2>4. QED
      BY <1>1, <1>4, <1>5, <2>2, <2>3
  <1>14. n = Len(list)
    BY <1>1, <1>5, <1>12, <1>13
  <1>15. \A i \in 1..n : deps[i] = list[i]
    BY <1>1, <1>8, <1>11
  <1>16. QED
    BY <1>1, <1>3, <1>5, <1>14, <1>15 DEF reads

\* A verified text is the one that was read for this request.
LEMMA TextRead ==
    ASSUME ArenaEngine, Settled, NEW f \in File, Verified(<<"SourceContents", f>>)
    PROVE  Opened(f) /\ query_cache[<<"SourceContents", f>>] = Text(f)
  <1> DEFINE s == <<"SourceContents", f>>
  <1>1. s \in Source
    BY DEF ArenaEngine, ArenaSource
  <1> HIDE DEF s
  <1>2. s \in DOMAIN seen /\ query_cache[s] = seen[s]
    BY <1>1 DEF Settled, VerifiedAreFresh, Verified, s
  <1>3. verified[s] # 0
    BY DEF Settled, Verified, s
  <1>4. s \in Cached
    BY <1>3 DEF Settled, EngineInvariant, RevisionsOrdered, Verified, s
  <1>5. query_cache[s] \in Contents
    BY <1>1, <1>4 DEF Settled, SourcesWereRead
  <1>6. QED
    BY <1>2, <1>5 DEF Opened, Text, s

\* A query of one reading has read it.
LEMMA DerivedRead ==
    ASSUME ArenaEngine, Settled, NEW f \in File, NEW kind \in DOMAIN Derived,
           Verified(<<kind, f>>)
    PROVE  LET reads == Reads(<<kind, f>>)
           IN  /\ Verified(<<Derived[kind], f>>)
               /\ reads[1] = query_cache[<<Derived[kind], f>>]
               /\ query_cache[<<kind, f>>] = ArenaResult(<<kind, f>>, reads)
  <1> DEFINE q == <<kind, f>>
             d == <<Derived[kind], f>>
  <1>1. q \in Query /\ q \notin Source /\ d \in Query
    BY DEF ArenaEngine, ArenaQuery, ArenaSource, Kind, Derived
  <1>2. \A r : RunList(q, r) = <<d>>
    <2>1. kind \notin DOMAIN Gathered /\ kind \notin DOMAIN Analysis
          /\ kind # "RenderedErrors"
      BY DEF Derived, Gathered, Analysis
    <2>2. q[1] = kind /\ q[2] = f
      OBVIOUS
    <2>3. QED
      BY <2>1, <2>2 DEF RunList
  <1> HIDE DEF d, q
  <1>3. <<d>> \in Seq(Query) /\ Len(<<d>>) = 1 /\ <<d>>[1] = d
    BY <1>1
  <1> DEFINE list == <<d>>
  <1>4. /\ list \in Seq(Query) /\ Len(list) # 0
        /\ Len(RunList(q, <<>>)) \in Nat \ {0} /\ RunList(q, <<>>)[1] = list[1]
        /\ \A r : Len(r) \in Nat \ {0} /\ r[1] = query_cache[list[1]] =>
                      RunList(q, r) = list
    BY <1>2, <1>3
  <1>5. Len(list) = 1 /\ list[1] = d
    BY <1>3
  <1> HIDE DEF list
  <1>6. Verified(q)
    BY DEF q
  <1>7. /\ \A i \in 1..Len(list) : Verified(list[i])
        /\ \A i \in 1..Len(list) : Reads(q)[i] = query_cache[list[i]]
        /\ query_cache[q] = ArenaResult(q, Reads(q))
    BY <1>1, <1>4, <1>6, RanItsList
  <1>8. QED
    BY <1>5, <1>7 DEF q, d

-----------------------------------------------------------------------------
(* The queries about one file alone. *)

\* What the queries about one file alone return.
LEMMA OneFileResults ==
    ASSUME NEW f, NEW reads
    PROVE  /\ ArenaResult(<<"LineEndings", f>>, reads) = reads[1].layout
           /\ ArenaResult(<<"Parse", f>>, reads) = reads[1]
           /\ ArenaResult(<<"ImportedPaths", f>>, reads) = reads[1].imports
           /\ ArenaResult(<<"FunctionTable", f>>, reads) = reads[1].functions
           /\ ArenaResult(<<"StructTable", f>>, reads) = reads[1].structs
           /\ ArenaResult(<<"TypeTable", f>>, reads) =
                 [i \in DOMAIN reads[1].structs |->
                     [name |-> reads[1].structs[i].name]]
           /\ ArenaResult(<<"FunctionIds", f>>, reads) = Names(reads[1])
           /\ ArenaResult(<<"TypeIds", f>>, reads) = Builtin \cup Names(reads[1])
  BY DEF ArenaResult

\* The tree of a file is that of the text read for this request.
LEMMA ParseRead ==
    ASSUME ArenaEngine, Settled, NEW f \in File, Verified(<<"Parse", f>>)
    PROVE  Opened(f) /\ query_cache[<<"Parse", f>>] = Text(f)
  <1>1. "Parse" \in DOMAIN Derived /\ Derived["Parse"] = "SourceContents"
    BY DEF Derived
  <1>2. /\ Verified(<<"SourceContents", f>>)
        /\ Reads(<<"Parse", f>>)[1] = query_cache[<<"SourceContents", f>>]
        /\ query_cache[<<"Parse", f>>] =
              ArenaResult(<<"Parse", f>>, Reads(<<"Parse", f>>))
    BY <1>1, DerivedRead
  <1>3. QED
    BY <1>2, OneFileResults, TextRead

\* So are its line endings,
LEMMA LineEndingsRead ==
    ASSUME ArenaEngine, Settled, NEW f \in File, Verified(<<"LineEndings", f>>)
    PROVE  Opened(f) /\ query_cache[<<"LineEndings", f>>] = Text(f).layout
  <1>1. "LineEndings" \in DOMAIN Derived
        /\ Derived["LineEndings"] = "SourceContents"
    BY DEF Derived
  <1>2. /\ Verified(<<"SourceContents", f>>)
        /\ Reads(<<"LineEndings", f>>)[1] = query_cache[<<"SourceContents", f>>]
        /\ query_cache[<<"LineEndings", f>>] =
              ArenaResult(<<"LineEndings", f>>, Reads(<<"LineEndings", f>>))
    BY <1>1, DerivedRead
  <1>3. ArenaResult(<<"LineEndings", f>>, Reads(<<"LineEndings", f>>)) =
            Reads(<<"LineEndings", f>>)[1].layout
    BY OneFileResults, Zenon
  <1>4. QED
    BY <1>2, <1>3, TextRead

\* The queries that read the tree of a file.
LEMMA OfParseRead ==
    ASSUME ArenaEngine, Settled, NEW f \in File,
           NEW kind \in {"ImportedPaths", "FunctionTable", "TypeTable", "StructTable"},
           Verified(<<kind, f>>)
    PROVE  /\ Opened(f)
           /\ Reads(<<kind, f>>)[1] = Text(f)
           /\ query_cache[<<kind, f>>] = ArenaResult(<<kind, f>>, Reads(<<kind, f>>))
  <1>1. kind \in DOMAIN Derived /\ Derived[kind] = "Parse"
    BY DEF Derived
  <1>2. /\ Verified(<<"Parse", f>>)
        /\ Reads(<<kind, f>>)[1] = query_cache[<<"Parse", f>>]
        /\ query_cache[<<kind, f>>] = ArenaResult(<<kind, f>>, Reads(<<kind, f>>))
    BY <1>1, DerivedRead
  <1>3. QED
    BY <1>2, ParseRead

\* its imports,
LEMMA ImportedPathsRead ==
    ASSUME ArenaEngine, Settled, NEW f \in File, Verified(<<"ImportedPaths", f>>)
    PROVE  Opened(f) /\ query_cache[<<"ImportedPaths", f>>] = Text(f).imports
  <1>1. ArenaResult(<<"ImportedPaths", f>>, Reads(<<"ImportedPaths", f>>)) =
            Reads(<<"ImportedPaths", f>>)[1].imports
    BY OneFileResults, Zenon
  <1>2. QED
    BY <1>1, OfParseRead

\* its functions,
LEMMA FunctionTableRead ==
    ASSUME ArenaEngine, Settled, NEW f \in File, Verified(<<"FunctionTable", f>>)
    PROVE  Opened(f) /\ query_cache[<<"FunctionTable", f>>] = Text(f).functions
  <1>1. ArenaResult(<<"FunctionTable", f>>, Reads(<<"FunctionTable", f>>)) =
            Reads(<<"FunctionTable", f>>)[1].functions
    BY OneFileResults, Zenon
  <1>2. QED
    BY <1>1, OfParseRead

\* its structs,
LEMMA StructTableRead ==
    ASSUME ArenaEngine, Settled, NEW f \in File, Verified(<<"StructTable", f>>)
    PROVE  Opened(f) /\ query_cache[<<"StructTable", f>>] = Text(f).structs
  <1>1. ArenaResult(<<"StructTable", f>>, Reads(<<"StructTable", f>>)) =
            Reads(<<"StructTable", f>>)[1].structs
    BY OneFileResults, Zenon
  <1>2. QED
    BY <1>1, OfParseRead

\* its types,
LEMMA TypeTableRead ==
    ASSUME ArenaEngine, Settled, NEW f \in File, Verified(<<"TypeTable", f>>)
    PROVE  Opened(f) /\ Names(query_cache[<<"TypeTable", f>>]) = Names(Text(f).structs)
  <1> DEFINE structs == Text(f).structs
             table == [i \in DOMAIN structs |-> [name |-> structs[i].name]]
  <1>1. Opened(f) /\ query_cache[<<"TypeTable", f>>] = table
    <2>1. ArenaResult(<<"TypeTable", f>>, Reads(<<"TypeTable", f>>)) =
              [i \in DOMAIN Reads(<<"TypeTable", f>>)[1].structs |->
                  [name |-> Reads(<<"TypeTable", f>>)[1].structs[i].name]]
      BY OneFileResults, Zenon
    <2>2. /\ Opened(f) /\ Reads(<<"TypeTable", f>>)[1] = Text(f)
          /\ query_cache[<<"TypeTable", f>>] =
                ArenaResult(<<"TypeTable", f>>, Reads(<<"TypeTable", f>>))
      BY OfParseRead
    <2>3. QED
      BY <2>1, <2>2
  <1>2. DOMAIN table = DOMAIN structs
        /\ \A i \in DOMAIN structs : table[i].name = structs[i].name
    OBVIOUS
  <1> HIDE DEF table, structs
  <1>3. Names(table) = Names(structs)
    BY <1>2 DEF Names
  <1>4. QED
    BY <1>1, <1>3 DEF structs

\* and the ids of its functions
LEMMA FunctionIdsRead ==
    ASSUME ArenaEngine, Settled, NEW f \in File, Verified(<<"FunctionIds", f>>)
    PROVE  /\ Opened(f)
           /\ query_cache[<<"FunctionIds", f>>] = Names(Text(f).functions)
  <1>1. "FunctionIds" \in DOMAIN Derived
        /\ Derived["FunctionIds"] = "FunctionTable"
    BY DEF Derived
  <1>2. /\ Verified(<<"FunctionTable", f>>)
        /\ Reads(<<"FunctionIds", f>>)[1] = query_cache[<<"FunctionTable", f>>]
        /\ query_cache[<<"FunctionIds", f>>] =
              ArenaResult(<<"FunctionIds", f>>, Reads(<<"FunctionIds", f>>))
    BY <1>1, DerivedRead
  <1>3. ArenaResult(<<"FunctionIds", f>>, Reads(<<"FunctionIds", f>>)) =
            Names(Reads(<<"FunctionIds", f>>)[1])
    BY OneFileResults, Zenon
  <1>4. QED
    BY <1>2, <1>3, FunctionTableRead

\* and types.
LEMMA TypeIdsRead ==
    ASSUME ArenaEngine, Settled, NEW f \in File, Verified(<<"TypeIds", f>>)
    PROVE  /\ Opened(f)
           /\ query_cache[<<"TypeIds", f>>] = Builtin \cup Names(Text(f).structs)
  <1>1. "TypeIds" \in DOMAIN Derived /\ Derived["TypeIds"] = "TypeTable"
    BY DEF Derived
  <1>2. /\ Verified(<<"TypeTable", f>>)
        /\ Reads(<<"TypeIds", f>>)[1] = query_cache[<<"TypeTable", f>>]
        /\ query_cache[<<"TypeIds", f>>] =
              ArenaResult(<<"TypeIds", f>>, Reads(<<"TypeIds", f>>))
    BY <1>1, DerivedRead
  <1>3. ArenaResult(<<"TypeIds", f>>, Reads(<<"TypeIds", f>>)) =
            Builtin \cup Names(Reads(<<"TypeIds", f>>)[1])
    BY OneFileResults, Zenon
  <1>4. QED
    BY <1>2, <1>3, TypeTableRead

-----------------------------------------------------------------------------
(* The queries about a file and all it imports. *)

\* The files whose declarations f sees.
Visible(f) == Append(Text(f).imports, f)

\* What a file sees: its imports, in their order, and itself.
LEMMA VisibleFiles ==
    ASSUME NEW f \in File, Opened(f)
    PROVE  /\ Text(f).imports \in Seq(File) /\ Len(Text(f).imports) \in Nat
           /\ Visible(f) \in Seq(File)
           /\ Len(Visible(f)) = Len(Text(f).imports) + 1
           /\ DOMAIN Visible(f) = 1..Len(Visible(f))
           /\ \A i \in DOMAIN Visible(f) : Visible(f)[i] \in File
           /\ \A i \in 1..Len(Text(f).imports) :
                 Visible(f)[i] = Text(f).imports[i]
           /\ Visible(f)[Len(Visible(f))] = f
  <1> DEFINE imports == Text(f).imports
  <1>1. imports \in Seq(File)
    BY TextsAreLists DEF Opened
  <1> HIDE DEF imports
  <1>2. QED
    BY <1>1 DEF Visible, imports

\* A sequence with one element before it.
LEMMA Headed ==
    ASSUME NEW S, NEW a \in S, NEW s \in Seq(S)
    PROVE  LET list == <<a>> \o s
           IN  /\ list \in Seq(S) /\ Len(s) \in Nat /\ Len(list) = Len(s) + 1
               /\ list[1] = a
               /\ \A i \in 1..Len(s) : list[i + 1] = s[i]
  <1> DEFINE list == <<a>> \o s
  <1>1. Len(s) \in Nat /\ list \in Seq(S) /\ Len(list) = Len(s) + 1 /\ list[1] = a
    OBVIOUS
  <1>2. \A i \in 1..Len(s) : list[i + 1] = s[i]
    OBVIOUS
  <1>3. QED
    BY <1>1, <1>2, Zenon

\* A sequence with one element before and one behind it.
LEMMA Framed ==
    ASSUME NEW S, NEW a \in S, NEW b \in S, NEW s \in Seq(S)
    PROVE  LET list == <<a>> \o s \o <<b>>
           IN  /\ list \in Seq(S) /\ Len(list) = Len(s) + 2
               /\ list[1] = a /\ list[Len(s) + 2] = b
               /\ \A i \in 1..Len(s) : list[i + 1] = s[i]
  <1> DEFINE body == <<a>> \o s
             list == body \o <<b>>
  <1>1. /\ Len(s) \in Nat /\ body \in Seq(S) /\ Len(body) = Len(s) + 1
        /\ body[1] = a /\ \A i \in 1..Len(s) : body[i + 1] = s[i]
    OBVIOUS
  <1> HIDE DEF body
  <1>2. /\ list \in Seq(S) /\ Len(list) = Len(body) + 1
        /\ list[Len(body) + 1] = b /\ \A i \in 1..Len(body) : list[i] = body[i]
    BY <1>1
  <1> HIDE DEF list
  <1>3. \A i \in 1..Len(s) : i + 1 \in 1..Len(body)
    BY <1>1
  <1>4. 1 \in 1..Len(body) /\ Len(body) + 1 = Len(s) + 2
    BY <1>1
  <1>5. list \in Seq(S) /\ Len(list) = Len(s) + 2
        /\ list[1] = a /\ list[Len(s) + 2] = b
        /\ \A i \in 1..Len(s) : list[i + 1] = s[i]
    BY <1>1, <1>2, <1>3, <1>4
  <1>6. QED
    BY <1>5 DEF list, body

\* What a sequence has behind its first element.
LEMMA TailOf ==
    ASSUME NEW S, NEW s \in Seq(S), NEW n \in Nat, Len(s) = n + 1
    PROVE  /\ Tail(s) \in Seq(S) /\ Len(Tail(s)) = n
           /\ Tail(s) = [i \in 1..n |-> s[i + 1]]
  <1>1. s # <<>> /\ Len(s) \in Nat
    OBVIOUS
  <1>2. /\ Tail(s) \in Seq(S) /\ Len(Tail(s)) = n
        /\ \A i \in 1..Len(Tail(s)) : Tail(s)[i] = s[i + 1]
    BY <1>1, HeadTailProperties
  <1>3. DOMAIN Tail(s) = 1..n /\ Tail(s) = [i \in DOMAIN Tail(s) |-> Tail(s)[i]]
    <2>1. Tail(s) \in [1..Len(Tail(s)) -> S]
      BY <1>2, LenProperties
    <2>2. QED
      BY <1>2, <2>1
  <1>4. QED
    BY <1>2, <1>3

\* A query about a file and its imports has run, for each of them, the query of
\* its kind.
LEMMA GatheredRead ==
    ASSUME ArenaEngine, Settled, NEW f \in File,
           NEW kind \in DOMAIN Gathered, Verified(<<kind, f>>)
    PROVE  LET reads == Reads(<<kind, f>>)
           IN  /\ Opened(f)
               /\ \A i \in DOMAIN Visible(f) :
                     Verified(<<Gathered[kind], Visible(f)[i]>>)
               /\ Tail(reads) = [i \in DOMAIN Visible(f) |->
                                    query_cache[<<Gathered[kind], Visible(f)[i]>>]]
               /\ \A i \in DOMAIN Visible(f) :
                     reads[i + 1] = query_cache[<<Gathered[kind], Visible(f)[i]>>]
               /\ query_cache[<<kind, f>>] = ArenaResult(<<kind, f>>, reads)
  <1> DEFINE q == <<kind, f>>
             of == Gathered[kind]
             paths == <<"ImportedPaths", f>>
             imports == query_cache[paths]
             imported == [i \in DOMAIN imports |-> <<of, imports[i]>>]
             list == <<paths>> \o imported \o <<<<of, f>>>>
             reads == Reads(q)
  <1>1. /\ q \in Query /\ q \notin Source /\ paths \in Query
        /\ \A g \in File : <<of, g>> \in Query
    BY DEF ArenaEngine, ArenaQuery, ArenaSource, Kind, Derived, Gathered
  <1>2. /\ \A r : r # <<>> => RunList(q, r) =
              <<paths>> \o [i \in DOMAIN r[1] |-> <<of, r[1][i]>>] \o <<<<of, f>>>>
        /\ RunList(q, <<>>) = <<paths>> \o <<>> \o <<<<of, f>>>>
    <2>1. kind \notin DOMAIN Derived /\ kind \notin DOMAIN Analysis
          /\ kind # "RenderedErrors"
      BY DEF Derived, Gathered, Analysis
    <2>2. q[1] = kind /\ q[2] = f
      OBVIOUS
    <2>3. QED
      BY <2>1, <2>2 DEF RunList
  <1>3. Verified(q)
    OBVIOUS
  <1> HIDE DEF q, of, paths, imported
  <1>4. /\ Len(<<paths>> \o <<>> \o <<<<of, f>>>>) = 2
        /\ (<<paths>> \o <<>> \o <<<<of, f>>>>)[1] = paths
    OBVIOUS
  <1>5. Len(RunList(q, <<>>)) \in Nat \ {0} /\ RunList(q, <<>>)[1] = paths
    BY <1>2, <1>4
  <1>6. Verified(paths)
    BY <1>1, <1>3, <1>5, RanFirst
  <1>7. Opened(f) /\ imports = Text(f).imports
    BY <1>6, ImportedPathsRead DEF paths
  <1>8. imports \in Seq(File) /\ Len(imports) \in Nat /\ DOMAIN imports = 1..Len(imports)
    BY <1>7, VisibleFiles
  <1> DEFINE n == Len(imports)
  <1> HIDE DEF imports
  <1>9. /\ imported \in Seq(Query) /\ Len(imported) = n
        /\ \A i \in 1..n : imported[i] = <<of, imports[i]>>
    <2>1. \A i \in 1..n : <<of, imports[i]>> \in Query
      BY <1>1, <1>8
    <2>2. QED
      BY <1>8, <2>1 DEF imported
  <1>10. /\ list \in Seq(Query) /\ Len(list) = n + 2
         /\ list[1] = paths /\ list[n + 2] = <<of, f>>
         /\ \A i \in 1..n : list[i + 1] = <<of, imports[i]>>
    <2>1. /\ list \in Seq(Query) /\ Len(list) = Len(imported) + 2
          /\ list[1] = paths /\ list[Len(imported) + 2] = <<of, f>>
          /\ \A i \in 1..Len(imported) : list[i + 1] = imported[i]
      BY <1>1, <1>9, Framed
    <2> HIDE DEF list
    <2>2. QED
      BY <1>9, <2>1
  <1>11. ASSUME NEW r, Len(r) \in Nat \ {0}, r[1] = query_cache[list[1]]
         PROVE  RunList(q, r) = list
    <2>1. r # <<>>
      BY <1>11
    <2>2. r[1] = imports
      BY <1>10, <1>11 DEF imports
    <2>3. QED
      BY <1>2, <2>1, <2>2 DEF imported
  <1> HIDE DEF list
  <1>12. /\ \A i \in 1..Len(list) : Verified(list[i])
         /\ Len(reads) = Len(list) /\ DOMAIN reads = 1..Len(list)
         /\ \A i \in 1..Len(list) : reads[i] = query_cache[list[i]]
         /\ query_cache[q] = ArenaResult(q, reads)
    <2>1. Len(list) # 0
      BY <1>8, <1>10
    <2>2. RunList(q, <<>>)[1] = list[1]
      BY <1>5, <1>10
    <2>3. QED
      BY <1>1, <1>3, <1>5, <1>10, <1>11, <2>1, <2>2, RanItsList
  <1> DEFINE seen1 == Visible(f)
  <1>13. /\ DOMAIN seen1 = 1..(n + 1)
         /\ \A i \in 1..(n + 1) : list[i + 1] = <<of, seen1[i]>>
    <2>1. /\ Len(seen1) = n + 1 /\ DOMAIN seen1 = 1..(n + 1)
          /\ \A i \in 1..n : seen1[i] = imports[i]
          /\ seen1[n + 1] = f
      BY <1>7, VisibleFiles
    <2>2. \A i \in 1..(n + 1) : i \in 1..n \/ i = n + 1
      BY <1>8
    <2>3. (n + 1) + 1 = n + 2
      BY <1>8
    <2> HIDE DEF seen1
    <2>4. QED
      BY <1>10, <2>1, <2>2, <2>3
  <1> HIDE DEF seen1, reads
  <1>14. \A i \in 1..(n + 1) : Verified(<<of, seen1[i]>>)
         /\ reads[i + 1] = query_cache[<<of, seen1[i]>>]
    <2>1. \A i \in 1..(n + 1) : i + 1 \in 1..Len(list)
      BY <1>8, <1>10
    <2>2. QED
      BY <1>12, <1>13, <2>1
  <1>15. Tail(reads) = [i \in 1..(n + 1) |-> query_cache[<<of, seen1[i]>>]]
    <2>1. reads \in Seq({reads[i] : i \in DOMAIN reads})
      <3>1. reads = [i \in 1..Len(list) |-> reads[i]]
        BY <1>12 DEF reads, Reads
      <3>2. QED
        BY <1>8, <1>10, <1>12, <3>1
    <2>2. n + 1 \in Nat /\ Len(reads) = (n + 1) + 1
      BY <1>8, <1>10, <1>12
    <2>3. Tail(reads) = [i \in 1..(n + 1) |-> reads[i + 1]]
      BY <2>1, <2>2, TailOf
    <2>4. QED
      BY <1>14, <2>3
  <1>16. QED
    BY <1>7, <1>12, <1>13, <1>14, <1>15 DEF q, of, seen1, reads

\* The tables of the files that f sees, and what they are merged to.
FunctionTables(f) == [i \in DOMAIN Visible(f) |-> Text(Visible(f)[i]).functions]
StructTables(f) == [i \in DOMAIN Visible(f) |-> Text(Visible(f)[i]).structs]

\* One of the tables defines a name.
Defined(declared, name) == \E i \in DOMAIN declared : name \in Names(declared[i])

\* A table has the names of all of these, and of each the last entry.
Merges(table, declared) ==
    /\ \A name : name \in Names(table) <=> Defined(declared, name)
    /\ \A name : \A i \in DOMAIN declared :
          /\ name \in Names(declared[i])
          /\ \A j \in DOMAIN declared : name \in Names(declared[j]) => j <= i
          => Entry(table, name) = Entry(declared[i], name)

\* The last table to define a name gives what the merged table has for it.
LEMMA LatestMerged ==
    ASSUME NEW declared, NEW n \in Nat, DOMAIN declared = 1..n,
           NEW table, Merges(table, declared), NEW name
    PROVE  Latest(declared, name) =
               IF Defined(declared, name) THEN {Entry(table, name)} ELSE {}
  <1> DEFINE definers == {i \in DOMAIN declared : name \in Names(declared[i])}
             last == {j \in definers : \A k \in definers : k <= j}
  <1>1. Latest(declared, name) = {Entry(declared[i], name) : i \in last}
    BY Zenon DEF Latest
  <1>2. CASE ~Defined(declared, name)
    <2>1. last = {}
      BY <1>2 DEF Defined
    <2> HIDE DEF last
    <2>2. QED
      BY <1>1, <1>2, <2>1
  <1>3. CASE Defined(declared, name)
    <2>1. definers \subseteq 1..n /\ definers # {}
      BY <1>3 DEF Defined
    <2>2. PICK k \in definers : \A j \in definers : j <= k
      BY <2>1, GreatestNumber
    <2>3. last = {k}
      <3>1. \A j \in last : j = k
        <4> TAKE j \in last
        <4>1. j \in definers /\ k <= j /\ j <= k /\ j \in Nat /\ k \in Nat
          BY <2>1, <2>2
        <4>2. QED
          BY <4>1
      <3>2. k \in last
        BY <2>2
      <3> HIDE DEF last
      <3>3. QED
        BY <3>1, <3>2
    <2>4. Entry(table, name) = Entry(declared[k], name)
      BY <2>2 DEF Merges
    <2> HIDE DEF last
    <2>5. QED
      BY <1>1, <1>3, <2>3, <2>4
  <1>4. QED
    BY <1>2, <1>3

\* A name stands for nothing only if no table defines it.
LEMMA LatestEmpty ==
    ASSUME NEW declared, NEW n \in Nat, DOMAIN declared = 1..n, NEW name
    PROVE  Latest(declared, name) = {} <=> ~Defined(declared, name)
  <1> DEFINE definers == {i \in DOMAIN declared : name \in Names(declared[i])}
             last == {j \in definers : \A k \in definers : k <= j}
  <1>1. Latest(declared, name) = {Entry(declared[i], name) : i \in last}
    BY Zenon DEF Latest
  <1>2. ASSUME Defined(declared, name) PROVE last # {}
    <2>1. definers \subseteq 1..n /\ definers # {}
      BY <1>2 DEF Defined
    <2>2. QED
      BY <2>1, GreatestNumber
  <1>3. ASSUME last # {} PROVE Defined(declared, name)
    BY <1>3 DEF Defined
  <1> HIDE DEF last
  <1>4. QED
    BY <1>1, <1>2, <1>3

\* Importing tables one after the other merges them.
LEMMA TablesMerge ==
    ASSUME NEW declared, NEW n \in Nat, DOMAIN declared = 1..n,
           \A i \in 1..n : IsList(declared[i]),
           NEW imported, imported = [i \in 1..n |-> Imported(declared[i])]
    PROVE  Merges(FlattenSeq(imported), declared)
  <1> DEFINE S == UNION {ToSet(declared[i]) : i \in 1..n}
  <1>1. \A i \in 1..n : declared[i] \in Seq(S)
    BY DEF IsList
  <1> HIDE DEF S
  <1>2. \A i \in 1..n :
            /\ Imported(declared[i]) \in Seq(S)
            /\ Names(Imported(declared[i])) = Names(declared[i])
            /\ \A name \in Names(declared[i]) :
                  Entry(Imported(declared[i]), name) = Entry(declared[i], name)
    BY <1>1, ImportKeepsEntries
  <1>3. /\ imported \in Seq(Seq(S)) /\ DOMAIN imported = 1..n
        /\ \A i \in 1..n : /\ Names(imported[i]) = Names(declared[i])
                           /\ \A name \in Names(declared[i]) :
                                 Entry(imported[i], name) = Entry(declared[i], name)
    BY <1>2
  <1>4. /\ \A name : name \in Names(FlattenSeq(imported)) <=>
              \E i \in DOMAIN imported : name \in Names(imported[i])
        /\ \A name : \A i \in DOMAIN imported :
              /\ name \in Names(imported[i])
              /\ \A j \in DOMAIN imported : name \in Names(imported[j]) => j <= i
              => Entry(FlattenSeq(imported), name) = Entry(imported[i], name)
    <2>1. imported \in Seq(Seq(S))
      BY <1>3
    <2>2. QED
      BY <2>1, FlattenTables, Zenon
  <1>5. QED
    BY <1>3, <1>4, Zenon DEF Merges, Defined

\* What the queries about a file and its imports return.
LEMMA AvailableResults ==
    ASSUME NEW f, NEW reads
    PROVE  /\ ArenaResult(<<"AvailableFunctionsTable", f>>, reads) =
                 FlattenSeq([i \in DOMAIN Tail(reads) |-> Imported(reads[i + 1])])
           /\ ArenaResult(<<"AvailableStructsTable", f>>, reads) =
                 FlattenSeq([i \in DOMAIN Tail(reads) |-> Imported(reads[i + 1])])
           /\ ArenaResult(<<"AvailableFunctionIds", f>>, reads) =
                 Counted(Tail(reads))
           /\ ArenaResult(<<"AvailableTypeIds", f>>, reads) =
                 Counted(Tail(reads))
  BY DEF ArenaResult

\* The function table of a file merges those of the files it sees.
LEMMA FunctionsMerged ==
    ASSUME ArenaEngine, Settled, NEW f \in File,
           Verified(<<"AvailableFunctionsTable", f>>)
    PROVE  Merges(query_cache[<<"AvailableFunctionsTable", f>>], FunctionTables(f))
  <1> DEFINE kind == "AvailableFunctionsTable"
             q == <<kind, f>>
             reads == Reads(q)
             visible == Visible(f)
             n == Len(visible)
             declared == FunctionTables(f)
  <1>1. kind \in DOMAIN Gathered /\ Gathered[kind] = "FunctionTable"
    BY DEF Gathered
  <1>2. /\ Opened(f)
        /\ \A i \in DOMAIN visible : Verified(<<"FunctionTable", visible[i]>>)
        /\ Tail(reads) = [i \in DOMAIN visible |->
                             query_cache[<<"FunctionTable", visible[i]>>]]
        /\ \A i \in DOMAIN visible :
              reads[i + 1] = query_cache[<<"FunctionTable", visible[i]>>]
        /\ query_cache[q] = ArenaResult(q, reads)
    <2> HIDE DEF kind
    <2>1. Verified(<<kind, f>>)
      BY DEF kind
    <2>2. QED
      BY <1>1, <2>1, GatheredRead
  <1>3. n \in Nat /\ DOMAIN visible = 1..n /\ \A i \in 1..n : visible[i] \in File
    BY <1>2, VisibleFiles
  <1>4. ArenaResult(q, reads) =
            FlattenSeq([i \in DOMAIN Tail(reads) |-> Imported(reads[i + 1])])
    BY AvailableResults, Zenon
  <1>5. declared = [i \in 1..n |-> Text(visible[i]).functions]
    BY <1>3 DEF FunctionTables
  <1> HIDE DEF q, reads, visible, n, declared
  <1>6. \A i \in 1..n : /\ Opened(visible[i])
                        /\ reads[i + 1] = Text(visible[i]).functions
    BY <1>2, <1>3, FunctionTableRead
  <1>7. DOMAIN declared = 1..n /\ \A i \in 1..n : declared[i] = Text(visible[i]).functions
    BY <1>5
  <1>8. \A i \in 1..n : IsList(declared[i])
    BY <1>6, <1>7, TextsAreLists DEF Opened
  <1>9. [i \in DOMAIN Tail(reads) |-> Imported(reads[i + 1])] =
            [i \in 1..n |-> Imported(declared[i])]
    <2>1. DOMAIN Tail(reads) = 1..n
      BY <1>2, <1>3
    <2>2. \A i \in 1..n : Imported(reads[i + 1]) = Imported(declared[i])
      BY <1>6, <1>7
    <2>3. QED
      BY <2>1, <2>2
  <1> DEFINE imported == [i \in 1..n |-> Imported(declared[i])]
  <1>10. query_cache[q] = FlattenSeq(imported)
    BY <1>2, <1>4, <1>9
  <1>11. Merges(FlattenSeq(imported), declared)
    <2>1. imported = [i \in 1..n |-> Imported(declared[i])]
      OBVIOUS
    <2> HIDE DEF imported
    <2>2. QED
      BY <1>3, <1>7, <1>8, <2>1, TablesMerge
  <1>12. QED
    BY <1>10, <1>11 DEF q, declared

\* So does its struct table.
LEMMA StructsMerged ==
    ASSUME ArenaEngine, Settled, NEW f \in File,
           Verified(<<"AvailableStructsTable", f>>)
    PROVE  Merges(query_cache[<<"AvailableStructsTable", f>>], StructTables(f))
  <1> DEFINE kind == "AvailableStructsTable"
             q == <<kind, f>>
             reads == Reads(q)
             visible == Visible(f)
             n == Len(visible)
             declared == StructTables(f)
  <1>1. kind \in DOMAIN Gathered /\ Gathered[kind] = "StructTable"
    BY DEF Gathered
  <1>2. /\ Opened(f)
        /\ \A i \in DOMAIN visible : Verified(<<"StructTable", visible[i]>>)
        /\ Tail(reads) = [i \in DOMAIN visible |->
                             query_cache[<<"StructTable", visible[i]>>]]
        /\ \A i \in DOMAIN visible :
              reads[i + 1] = query_cache[<<"StructTable", visible[i]>>]
        /\ query_cache[q] = ArenaResult(q, reads)
    <2> HIDE DEF kind
    <2>1. Verified(<<kind, f>>)
      BY DEF kind
    <2>2. QED
      BY <1>1, <2>1, GatheredRead
  <1>3. n \in Nat /\ DOMAIN visible = 1..n /\ \A i \in 1..n : visible[i] \in File
    BY <1>2, VisibleFiles
  <1>4. ArenaResult(q, reads) =
            FlattenSeq([i \in DOMAIN Tail(reads) |-> Imported(reads[i + 1])])
    BY AvailableResults, Zenon
  <1>5. declared = [i \in 1..n |-> Text(visible[i]).structs]
    BY <1>3 DEF StructTables
  <1> HIDE DEF q, reads, visible, n, declared
  <1>6. \A i \in 1..n : /\ Opened(visible[i])
                        /\ reads[i + 1] = Text(visible[i]).structs
    BY <1>2, <1>3, StructTableRead
  <1>7. DOMAIN declared = 1..n /\ \A i \in 1..n : declared[i] = Text(visible[i]).structs
    BY <1>5
  <1>8. \A i \in 1..n : IsList(declared[i])
    BY <1>6, <1>7, TextsAreLists DEF Opened
  <1>9. [i \in DOMAIN Tail(reads) |-> Imported(reads[i + 1])] =
            [i \in 1..n |-> Imported(declared[i])]
    <2>1. DOMAIN Tail(reads) = 1..n
      BY <1>2, <1>3
    <2>2. \A i \in 1..n : Imported(reads[i + 1]) = Imported(declared[i])
      BY <1>6, <1>7
    <2>3. QED
      BY <2>1, <2>2
  <1> DEFINE imported == [i \in 1..n |-> Imported(declared[i])]
  <1>10. query_cache[q] = FlattenSeq(imported)
    BY <1>2, <1>4, <1>9
  <1>11. Merges(FlattenSeq(imported), declared)
    <2>1. imported = [i \in 1..n |-> Imported(declared[i])]
      OBVIOUS
    <2> HIDE DEF imported
    <2>2. QED
      BY <1>3, <1>7, <1>8, <2>1, TablesMerge
  <1>12. QED
    BY <1>10, <1>11 DEF q, declared

\* The resolver knows the functions that the files it sees define,
LEMMA FunctionIdsGathered ==
    ASSUME ArenaEngine, Settled, NEW f \in File,
           Verified(<<"AvailableFunctionIds", f>>), NEW name
    PROVE  name \in DOMAIN query_cache[<<"AvailableFunctionIds", f>>]
               <=> Defined(FunctionTables(f), name)
  <1> DEFINE kind == "AvailableFunctionIds"
             q == <<kind, f>>
             reads == Reads(q)
             visible == Visible(f)
             n == Len(visible)
             declared == FunctionTables(f)
             sets == Tail(reads)
  <1>1. kind \in DOMAIN Gathered /\ Gathered[kind] = "FunctionIds"
    BY DEF Gathered
  <1>2. /\ Opened(f)
        /\ \A i \in DOMAIN visible : Verified(<<"FunctionIds", visible[i]>>)
        /\ sets = [i \in DOMAIN visible |->
                      query_cache[<<"FunctionIds", visible[i]>>]]
        /\ query_cache[q] = ArenaResult(q, reads)
    <2> HIDE DEF kind
    <2>1. Verified(<<kind, f>>)
      BY DEF kind
    <2>2. QED
      BY <1>1, <2>1, GatheredRead
  <1>3. n \in Nat /\ DOMAIN visible = 1..n /\ \A i \in 1..n : visible[i] \in File
    BY <1>2, VisibleFiles
  <1>4. ArenaResult(q, reads) = Counted(sets)
    BY AvailableResults, Zenon
  <1>5. declared = [i \in 1..n |-> Text(visible[i]).functions]
    BY <1>3 DEF FunctionTables
  <1> HIDE DEF q, sets, visible, n, declared
  <1>6. DOMAIN query_cache[q] = UNION ToSet(sets)
    BY <1>2, <1>4, Zenon DEF Counted
  <1>7. \A i \in 1..n : sets[i] = Names(declared[i])
    BY <1>2, <1>3, <1>5, FunctionIdsRead
  <1>8. DOMAIN sets = 1..n /\ DOMAIN declared = 1..n
    BY <1>2, <1>3, <1>5
  <1>9. name \in UNION ToSet(sets) <=> \E i \in 1..n : name \in sets[i]
    BY <1>8 DEF ToSet
  <1>10. QED
    BY <1>6, <1>7, <1>8, <1>9 DEF q, declared, Defined

\* and their types, and those that are built in.
LEMMA TypeIdsGathered ==
    ASSUME ArenaEngine, Settled, NEW f \in File,
           Verified(<<"AvailableTypeIds", f>>), NEW name
    PROVE  name \in DOMAIN query_cache[<<"AvailableTypeIds", f>>]
               <=> name \in Builtin \/ Defined(StructTables(f), name)
  <1> DEFINE kind == "AvailableTypeIds"
             q == <<kind, f>>
             reads == Reads(q)
             visible == Visible(f)
             n == Len(visible)
             declared == StructTables(f)
             sets == Tail(reads)
  <1>1. kind \in DOMAIN Gathered /\ Gathered[kind] = "TypeIds"
    BY DEF Gathered
  <1>2. /\ Opened(f)
        /\ \A i \in DOMAIN visible : Verified(<<"TypeIds", visible[i]>>)
        /\ sets = [i \in DOMAIN visible |-> query_cache[<<"TypeIds", visible[i]>>]]
        /\ query_cache[q] = ArenaResult(q, reads)
    <2> HIDE DEF kind
    <2>1. Verified(<<kind, f>>)
      BY DEF kind
    <2>2. QED
      BY <1>1, <2>1, GatheredRead
  <1>3. /\ n \in Nat /\ n # 0
        /\ DOMAIN visible = 1..n /\ \A i \in 1..n : visible[i] \in File
    BY <1>2, VisibleFiles
  <1>4. ArenaResult(q, reads) = Counted(sets)
    BY AvailableResults, Zenon
  <1>5. declared = [i \in 1..n |-> Text(visible[i]).structs]
    BY <1>3 DEF StructTables
  <1> HIDE DEF q, sets, visible, n, declared
  <1>6. DOMAIN query_cache[q] = UNION ToSet(sets)
    BY <1>2, <1>4, Zenon DEF Counted
  <1>7. \A i \in 1..n : sets[i] = Builtin \cup Names(declared[i])
    BY <1>2, <1>3, <1>5, TypeIdsRead
  <1>8. DOMAIN sets = 1..n /\ DOMAIN declared = 1..n /\ 1 \in 1..n
    BY <1>2, <1>3, <1>5
  <1>9. name \in UNION ToSet(sets) <=> \E i \in 1..n : name \in sets[i]
    BY <1>8 DEF ToSet
  <1>10. QED
    BY <1>6, <1>7, <1>8, <1>9 DEF q, declared, Defined

-----------------------------------------------------------------------------
(* The analyses of a file, and its report. *)

\* An analysis has read the queries of its list.
LEMMA AnalysisRead ==
    ASSUME ArenaEngine, Settled, NEW f \in File, NEW kind \in DOMAIN Analysis,
           Verified(<<kind, f>>)
    PROVE  LET reads == Reads(<<kind, f>>)
           IN  /\ \A i \in DOMAIN Analysis[kind] :
                     /\ Verified(<<Analysis[kind][i], f>>)
                     /\ reads[i] = query_cache[<<Analysis[kind][i], f>>]
               /\ query_cache[<<kind, f>>] = ArenaResult(<<kind, f>>, reads)
  <1> DEFINE q == <<kind, f>>
             kinds == Analysis[kind]
             n == Len(kinds)
             list == [i \in 1..n |-> <<kinds[i], f>>]
  <1>1. /\ q \in Query /\ q \notin Source
        /\ \A k \in Kind : <<k, f>> \in Query
    BY DEF ArenaEngine, ArenaQuery, ArenaSource, Kind, Analysis
  <1>2. /\ n \in Nat \ {0} /\ DOMAIN kinds = 1..n
        /\ \A i \in 1..n : kinds[i] \in Kind
    BY DEF Analysis, Kind, Derived, Gathered
  <1>3. \A r : RunList(q, r) = list
    <2>1. kind \notin DOMAIN Derived /\ kind \notin DOMAIN Gathered
          /\ kind # "RenderedErrors"
      BY DEF Derived, Gathered, Analysis
    <2>2. q[1] = kind /\ q[2] = f
      OBVIOUS
    <2>3. \A r : RunList(q, r) = About(f, kinds)
      BY <2>1, <2>2 DEF RunList
    <2> HIDE DEF kinds
    <2>4. About(f, kinds) = list
      BY <1>2 DEF About
    <2>5. QED
      BY <2>3, <2>4
  <1> HIDE DEF q, kinds
  <1>4. /\ list \in Seq(Query) /\ Len(list) = n
        /\ \A i \in 1..n : list[i] = <<kinds[i], f>>
    <2>1. \A i \in 1..n : <<kinds[i], f>> \in Query
      BY <1>1, <1>2
    <2>2. QED
      BY <1>2, <2>1
  <1> HIDE DEF list
  <1>5. Verified(q)
    BY DEF q
  <1>6. /\ Len(list) # 0 /\ Len(RunList(q, <<>>)) \in Nat \ {0}
        /\ RunList(q, <<>>)[1] = list[1]
        /\ \A r : Len(r) \in Nat \ {0} /\ r[1] = query_cache[list[1]] =>
                      RunList(q, r) = list
    BY <1>2, <1>3, <1>4
  <1>7. /\ \A i \in 1..Len(list) : Verified(list[i])
        /\ \A i \in 1..Len(list) : Reads(q)[i] = query_cache[list[i]]
        /\ query_cache[q] = ArenaResult(q, Reads(q))
    BY <1>1, <1>4, <1>5, <1>6, RanItsList
  <1>8. QED
    BY <1>2, <1>4, <1>7 DEF q, kinds

\* What the analyses return.
LEMMA AnalysisResults ==
    ASSUME NEW f, NEW reads
    PROVE  /\ ArenaResult(<<"ResolvedCalls", f>>, reads) =
                 [ast |-> reads[4], errors |-> UnknownCalls(reads[4], reads[2])
                                         \o UnknownTypes(reads[4], reads[3])]
           /\ ArenaResult(<<"TypecheckedFile", f>>, reads) =
                 [ast |-> reads[3].ast,
                  errors |-> WrongCalls(reads[3].ast, reads[1])
                                 \o WrongMembers(reads[3], reads[4])]
           /\ ArenaResult(<<"Errors", f>>, reads) =
                 reads[2].errors \o reads[1].errors
           /\ ArenaResult(<<"RenderedErrors", f>>, reads) =
                 [i \in DOMAIN reads[1] |-> <<reads[1][i], reads[3]>>]
  BY DEF ArenaResult

\* Two lists, one after the other, are a list.
LEMMA ListsJoined ==
    ASSUME NEW s, NEW t, IsList(s), IsList(t)
    PROVE  /\ IsList(s \o t)
           /\ \A x : x \in ToSet(s \o t) <=> x \in ToSet(s) \/ x \in ToSet(t)
  <1> DEFINE S == ToSet(s) \cup ToSet(t)
  <1>1. s \in Seq(S) /\ t \in Seq(S)
    BY DEF IsList
  <1> HIDE DEF S
  <1>2. \A x : x \in ToSet(s \o t) <=> x \in ToSet(s) \/ x \in ToSet(t)
    BY <1>1, ConcatElements
  <1>3. s \o t \in Seq(S)
    BY <1>1
  <1>4. S = ToSet(s \o t)
    BY <1>2 DEF S
  <1>5. QED
    BY <1>2, <1>3, <1>4 DEF IsList

\* What the resolver reports.
LEMMA ResolvedCallsRead ==
    ASSUME ArenaEngine, Settled, NEW f \in File,
           Verified(<<"ResolvedCalls", f>>)
    PROVE  LET resolved == query_cache[<<"ResolvedCalls", f>>]
           IN  /\ Opened(f)
               /\ resolved.ast = Text(f)
               /\ IsList(resolved.errors)
               /\ \A e : e \in ToSet(resolved.errors) <=>
                     \/ \E c \in ToSet(Text(f).calls) :
                           /\ e = <<"unknown", c>>
                           /\ ~Defined(FunctionTables(f), c.name)
                     \/ \E a \in ToSet(Text(f).accesses) :
                           /\ e = <<"type", a>>
                           /\ a.name \notin Builtin
                           /\ ~Defined(StructTables(f), a.name)
  <1> DEFINE q == <<"ResolvedCalls", f>>
             reads == Reads(q)
             ast == Text(f)
             calls == UnknownCalls(ast, reads[2])
             types == UnknownTypes(ast, reads[3])
             errors == query_cache[q].errors
  <1>1. /\ "ResolvedCalls" \in DOMAIN Analysis
        /\ {2, 3, 4} \subseteq DOMAIN Analysis["ResolvedCalls"]
        /\ Analysis["ResolvedCalls"][2] = "AvailableFunctionIds"
        /\ Analysis["ResolvedCalls"][3] = "AvailableTypeIds"
        /\ Analysis["ResolvedCalls"][4] = "Parse"
    BY DEF Analysis
  <1>2. /\ Verified(<<"AvailableFunctionIds", f>>)
        /\ reads[2] = query_cache[<<"AvailableFunctionIds", f>>]
        /\ Verified(<<"AvailableTypeIds", f>>)
        /\ reads[3] = query_cache[<<"AvailableTypeIds", f>>]
        /\ Verified(<<"Parse", f>>)
        /\ reads[4] = query_cache[<<"Parse", f>>]
        /\ query_cache[q] = ArenaResult(q, reads)
    BY <1>1, AnalysisRead
  <1>3. Opened(f) /\ reads[4] = ast
    BY <1>2, ParseRead
  <1>4. ArenaResult(q, reads) =
            [ast |-> reads[4], errors |-> UnknownCalls(reads[4], reads[2])
                                    \o UnknownTypes(reads[4], reads[3])]
    BY AnalysisResults, Zenon
  <1>5. IsList(ast.calls) /\ IsList(ast.accesses)
    BY <1>3, TextsAreLists DEF Opened
  <1>6. \A name : name \in DOMAIN reads[2] <=> Defined(FunctionTables(f), name)
    BY <1>2, FunctionIdsGathered
  <1>7. \A name : name \in DOMAIN reads[3] <=>
            name \in Builtin \/ Defined(StructTables(f), name)
    BY <1>2, TypeIdsGathered
  <1> HIDE DEF q, reads, ast
  <1>8. query_cache[q].ast = ast /\ errors = calls \o types
    BY <1>2, <1>3, <1>4
  <1>9. /\ IsList(calls)
        /\ \A e : e \in ToSet(calls) <=>
              \E c \in ToSet(ast.calls) :
                  e = <<"unknown", c>> /\ c.name \notin DOMAIN reads[2]
    BY <1>5, UnknownCallsFound, Zenon
  <1>10. /\ IsList(types)
         /\ \A e : e \in ToSet(types) <=>
              \E a \in ToSet(ast.accesses) :
                  e = <<"type", a>> /\ a.name \notin DOMAIN reads[3]
    BY <1>5, UnknownTypesFound, Zenon
  <1> HIDE DEF calls, types
  <1>11. /\ IsList(errors)
         /\ \A e : e \in ToSet(errors) <=> e \in ToSet(calls) \/ e \in ToSet(types)
    BY <1>8, <1>9, <1>10, ListsJoined, Zenon
  <1> HIDE DEF errors
  <1>12. \A e : e \in ToSet(errors) <=>
             \/ \E c \in ToSet(ast.calls) :
                   e = <<"unknown", c>> /\ ~Defined(FunctionTables(f), c.name)
             \/ \E a \in ToSet(ast.accesses) :
                   /\ e = <<"type", a>> /\ a.name \notin Builtin
                   /\ ~Defined(StructTables(f), a.name)
    BY <1>6, <1>7, <1>9, <1>10, <1>11, Zenon
  <1>13. QED
    BY <1>3, <1>8, <1>11, <1>12 DEF q, ast, errors

\* There is one table for each file that a file sees.
LEMMA TablesIndexed ==
    ASSUME NEW f \in File, Opened(f)
    PROVE  /\ Len(Visible(f)) \in Nat
           /\ DOMAIN FunctionTables(f) = 1..Len(Visible(f))
           /\ DOMAIN StructTables(f) = 1..Len(Visible(f))
  <1>1. DOMAIN Visible(f) = 1..Len(Visible(f)) /\ Len(Visible(f)) \in Nat
    BY VisibleFiles
  <1>2. DOMAIN FunctionTables(f) = DOMAIN Visible(f)
        /\ DOMAIN StructTables(f) = DOMAIN Visible(f)
    BY DEF FunctionTables, StructTables
  <1>3. QED
    BY <1>1, <1>2

\* What the type checker reports.
LEMMA TypecheckedFileRead ==
    ASSUME ArenaEngine, Settled, NEW f \in File,
           Verified(<<"TypecheckedFile", f>>)
    PROVE  LET errors == query_cache[<<"TypecheckedFile", f>>].errors
           IN  /\ IsList(errors)
               /\ \A e : e \in ToSet(errors) <=>
                     \/ \E c \in ToSet(Text(f).calls) :
                           /\ e = <<"call", c>>
                           /\ \E g \in Latest(FunctionTables(f), c.name) :
                                 CallFails(g, c.arguments)
                     \/ \E a \in ToSet(Text(f).accesses) :
                           /\ e = <<"member", a>>
                           /\ \/ a.name \in Builtin
                              \/ Latest(StructTables(f), a.name) # {}
                           /\ \A s \in Latest(StructTables(f), a.name) :
                                 a.member \notin ToSet(s.members)
  <1> DEFINE q == <<"TypecheckedFile", f>>
             reads == Reads(q)
             ast == Text(f)
             functions == FunctionTables(f)
             structs == StructTables(f)
             ftable == query_cache[<<"AvailableFunctionsTable", f>>]
             stable == query_cache[<<"AvailableStructsTable", f>>]
             resolved == query_cache[<<"ResolvedCalls", f>>]
             calls == WrongCalls(ast, ftable)
             members == WrongMembers(resolved, stable)
             errors == query_cache[q].errors
  <1>1. /\ "TypecheckedFile" \in DOMAIN Analysis
        /\ {1, 3, 4} \subseteq DOMAIN Analysis["TypecheckedFile"]
        /\ Analysis["TypecheckedFile"][1] = "AvailableFunctionsTable"
        /\ Analysis["TypecheckedFile"][3] = "ResolvedCalls"
        /\ Analysis["TypecheckedFile"][4] = "AvailableStructsTable"
    BY DEF Analysis
  <1>2. /\ Verified(<<"AvailableFunctionsTable", f>>)
        /\ reads[1] = ftable
        /\ Verified(<<"ResolvedCalls", f>>)
        /\ reads[3] = resolved
        /\ Verified(<<"AvailableStructsTable", f>>)
        /\ reads[4] = stable
        /\ query_cache[q] = ArenaResult(q, reads)
    BY <1>1, AnalysisRead
  <1>3. /\ Opened(f) /\ resolved.ast = ast
        /\ \A e : e \in ToSet(resolved.errors) <=>
              \/ \E c \in ToSet(ast.calls) :
                    e = <<"unknown", c>> /\ ~Defined(functions, c.name)
              \/ \E a \in ToSet(ast.accesses) :
                    /\ e = <<"type", a>> /\ a.name \notin Builtin
                    /\ ~Defined(structs, a.name)
    BY <1>2, ResolvedCallsRead
  <1>4. ArenaResult(q, reads) =
            [ast |-> reads[3].ast,
             errors |-> WrongCalls(reads[3].ast, reads[1])
                            \o WrongMembers(reads[3], reads[4])]
    BY AnalysisResults, Zenon
  <1>5. IsList(ast.calls) /\ IsList(ast.accesses)
    BY <1>3, TextsAreLists DEF Opened
  <1>6. Merges(ftable, functions) /\ Merges(stable, structs)
    BY <1>2, FunctionsMerged, StructsMerged
  <1>7. \E n \in Nat : DOMAIN functions = 1..n /\ DOMAIN structs = 1..n
    BY <1>3, TablesIndexed
  <1> HIDE DEF q, reads, ast, functions, structs, ftable, stable, resolved
  <1>8. errors = calls \o members
    <2>1. reads[3].ast = ast
      BY <1>2, <1>3
    <2>2. ArenaResult(q, reads).errors =
              WrongCalls(reads[3].ast, reads[1])
                  \o WrongMembers(reads[3], reads[4])
      BY <1>4
    <2>3. QED
      BY <1>2, <2>1, <2>2, Zenon
  <1>9. ASSUME NEW name
        PROVE  /\ Latest(functions, name) =
                      IF Defined(functions, name) THEN {Entry(ftable, name)} ELSE {}
               /\ Latest(structs, name) =
                      IF Defined(structs, name) THEN {Entry(stable, name)} ELSE {}
               /\ name \in Names(ftable) <=> Defined(functions, name)
               /\ name \in Names(stable) <=> Defined(structs, name)
    <2>1. /\ name \in Names(ftable) <=> Defined(functions, name)
          /\ name \in Names(stable) <=> Defined(structs, name)
      BY <1>6, Zenon DEF Merges
    <2>2. PICK n \in Nat : DOMAIN functions = 1..n /\ DOMAIN structs = 1..n
      BY <1>7
    <2>3. QED
      BY <1>6, <2>1, <2>2, LatestMerged
  <1>10. \A a \in ToSet(ast.accesses) :
            <<"type", a>> \notin ToSet(resolved.errors)
                <=> a.name \in Builtin \/ Defined(structs, a.name)
    <2> TAKE a \in ToSet(ast.accesses)
    <2>1. \A c : <<"type", a>> # <<"unknown", c>>
      OBVIOUS
    <2>2. \A b : <<"type", a>> = <<"type", b>> <=> a = b
      OBVIOUS
    <2>3. QED
      BY <1>3, <2>1, <2>2, Zenon
  <1>11. /\ IsList(calls)
         /\ \A e : e \in ToSet(calls) <=>
               \E c \in ToSet(ast.calls) :
                   /\ e = <<"call", c>> /\ c.name \in Names(ftable)
                   /\ CallFails(Entry(ftable, c.name), c.arguments)
    BY <1>5, WrongCallsFound, Zenon
  <1>12. /\ IsList(members)
         /\ \A e : e \in ToSet(members) <=>
               \E a \in ToSet(ast.accesses) :
                   /\ e = <<"member", a>>
                   /\ <<"type", a>> \notin ToSet(resolved.errors)
                   /\ a.name \in Names(stable) =>
                         a.member \notin ToSet(Entry(stable, a.name).members)
    <2>1. IsList(resolved.ast.accesses)
      BY <1>3, <1>5
    <2>2. QED
      BY <1>3, <2>1, WrongMembersFound, Zenon
  <1> HIDE DEF calls, members
  <1>13. /\ IsList(errors)
         /\ \A e : e \in ToSet(errors) <=> e \in ToSet(calls) \/ e \in ToSet(members)
    BY <1>8, <1>11, <1>12, ListsJoined, Zenon
  <1> HIDE DEF errors
  <1>14. \A c : /\ c.name \in Names(ftable)
                /\ CallFails(Entry(ftable, c.name), c.arguments)
              <=> \E g \in Latest(functions, c.name) : CallFails(g, c.arguments)
    <2> TAKE c
    <2>1. CASE Defined(functions, c.name)
      <3>1. Latest(functions, c.name) = {Entry(ftable, c.name)}
            /\ c.name \in Names(ftable)
        BY <1>9, <2>1
      <3>2. QED
        BY <3>1, Zenon
    <2>2. CASE ~Defined(functions, c.name)
      <3>1. Latest(functions, c.name) = {} /\ c.name \notin Names(ftable)
        BY <1>9, <2>2
      <3>2. QED
        BY <3>1, Zenon
    <2>3. QED
      BY <2>1, <2>2
  <1>15. \A a \in ToSet(ast.accesses) :
             /\ <<"type", a>> \notin ToSet(resolved.errors)
             /\ a.name \in Names(stable) =>
                   a.member \notin ToSet(Entry(stable, a.name).members)
           <=> /\ a.name \in Builtin \/ Latest(structs, a.name) # {}
               /\ \A s \in Latest(structs, a.name) : a.member \notin ToSet(s.members)
    <2> TAKE a \in ToSet(ast.accesses)
    <2>1. CASE Defined(structs, a.name)
      <3>1. Latest(structs, a.name) = {Entry(stable, a.name)}
            /\ a.name \in Names(stable)
        BY <1>9, <2>1
      <3>2. <<"type", a>> \notin ToSet(resolved.errors)
        BY <1>10, <2>1
      <3>3. Latest(structs, a.name) # {}
        BY <3>1
      <3>4. (\A s \in Latest(structs, a.name) : a.member \notin ToSet(s.members))
                <=> a.member \notin ToSet(Entry(stable, a.name).members)
        BY <3>1, Zenon
      <3>5. QED
        BY <3>1, <3>2, <3>3, <3>4, Zenon
    <2>2. CASE ~Defined(structs, a.name)
      <3>1. Latest(structs, a.name) = {} /\ a.name \notin Names(stable)
        BY <1>9, <2>2
      <3>2. <<"type", a>> \notin ToSet(resolved.errors) <=> a.name \in Builtin
        BY <1>10, <2>2
      <3>3. \A s \in Latest(structs, a.name) : a.member \notin ToSet(s.members)
        BY <3>1
      <3>4. QED
        BY <3>1, <3>2, <3>3, Zenon
    <2>3. QED
      BY <2>1, <2>2
  <1>16. \A e : e \in ToSet(errors) <=>
             \/ \E c \in ToSet(ast.calls) :
                   /\ e = <<"call", c>>
                   /\ \E g \in Latest(functions, c.name) : CallFails(g, c.arguments)
             \/ \E a \in ToSet(ast.accesses) :
                   /\ e = <<"member", a>>
                   /\ a.name \in Builtin \/ Latest(structs, a.name) # {}
                   /\ \A s \in Latest(structs, a.name) :
                         a.member \notin ToSet(s.members)
    BY <1>11, <1>12, <1>13, <1>14, <1>15, Zenon
  <1>17. QED
    BY <1>13, <1>16 DEF q, ast, functions, structs, errors

\* The faults of f by the texts that were read.
Read == [g \in {g \in File : <<"SourceContents", g>> \in DOMAIN seen} |->
            seen[<<"SourceContents", g>>]]

\* What the resolver and the type checker report together.
LEMMA ErrorsRead ==
    ASSUME ArenaEngine, Settled, NEW f \in File,
           Verified(<<"Errors", f>>)
    PROVE  LET errors == query_cache[<<"Errors", f>>]
           IN  /\ Opened(f)
               /\ IsList(errors)
               /\ \A e : e \in ToSet(errors) <=>
                     \/ \E c \in ToSet(Text(f).calls) :
                           /\ e = <<"unknown", c>>
                           /\ Latest(FunctionTables(f), c.name) = {}
                     \/ \E c \in ToSet(Text(f).calls) :
                           /\ e = <<"call", c>>
                           /\ \E g \in Latest(FunctionTables(f), c.name) :
                                 CallFails(g, c.arguments)
                     \/ \E a \in ToSet(Text(f).accesses) :
                           /\ e = <<"type", a>>
                           /\ a.name \notin Builtin
                           /\ Latest(StructTables(f), a.name) = {}
                     \/ \E a \in ToSet(Text(f).accesses) :
                           /\ e = <<"member", a>>
                           /\ \/ a.name \in Builtin
                              \/ Latest(StructTables(f), a.name) # {}
                           /\ \A s \in Latest(StructTables(f), a.name) :
                                 a.member \notin ToSet(s.members)
  <1> DEFINE q == <<"Errors", f>>
             reads == Reads(q)
             ast == Text(f)
             functions == FunctionTables(f)
             structs == StructTables(f)
             resolved == query_cache[<<"ResolvedCalls", f>>].errors
             checked == query_cache[<<"TypecheckedFile", f>>].errors
             errors == query_cache[q]
  <1>1. /\ "Errors" \in DOMAIN Analysis
        /\ {1, 2} \subseteq DOMAIN Analysis["Errors"]
        /\ Analysis["Errors"][1] = "TypecheckedFile"
        /\ Analysis["Errors"][2] = "ResolvedCalls"
    BY DEF Analysis
  <1>2. /\ Verified(<<"TypecheckedFile", f>>)
        /\ reads[1] = query_cache[<<"TypecheckedFile", f>>]
        /\ Verified(<<"ResolvedCalls", f>>)
        /\ reads[2] = query_cache[<<"ResolvedCalls", f>>]
        /\ query_cache[q] = ArenaResult(q, reads)
    BY <1>1, AnalysisRead
  <1>3. ArenaResult(q, reads) = reads[2].errors \o reads[1].errors
    BY AnalysisResults, Zenon
  <1>4. errors = resolved \o checked
    BY <1>2, <1>3
  <1>5. /\ Opened(f) /\ IsList(resolved)
        /\ \A e : e \in ToSet(resolved) <=>
              \/ \E c \in ToSet(ast.calls) :
                    e = <<"unknown", c>> /\ ~Defined(functions, c.name)
              \/ \E a \in ToSet(ast.accesses) :
                    /\ e = <<"type", a>> /\ a.name \notin Builtin
                    /\ ~Defined(structs, a.name)
    BY <1>2, ResolvedCallsRead
  <1>6. /\ IsList(checked)
        /\ \A e : e \in ToSet(checked) <=>
             \/ \E c \in ToSet(ast.calls) :
                   /\ e = <<"call", c>>
                   /\ \E g \in Latest(functions, c.name) : CallFails(g, c.arguments)
             \/ \E a \in ToSet(ast.accesses) :
                   /\ e = <<"member", a>>
                   /\ a.name \in Builtin \/ Latest(structs, a.name) # {}
                   /\ \A s \in Latest(structs, a.name) :
                         a.member \notin ToSet(s.members)
    BY <1>2, TypecheckedFileRead
  <1>7. \E n \in Nat : DOMAIN functions = 1..n /\ DOMAIN structs = 1..n
    BY <1>5, TablesIndexed
  <1>8. \A name : /\ Latest(functions, name) = {} <=> ~Defined(functions, name)
                  /\ Latest(structs, name) = {} <=> ~Defined(structs, name)
    BY <1>7, LatestEmpty
  <1> HIDE DEF q, reads, ast, functions, structs, resolved, checked
  <1>9. /\ IsList(errors)
        /\ \A e : e \in ToSet(errors) <=> e \in ToSet(resolved) \/ e \in ToSet(checked)
    BY <1>4, <1>5, <1>6, ListsJoined, Zenon
  <1> HIDE DEF errors
  <1>10. \A e : e \in ToSet(errors) <=>
             \/ \E c \in ToSet(ast.calls) :
                   e = <<"unknown", c>> /\ Latest(functions, c.name) = {}
             \/ \E c \in ToSet(ast.calls) :
                   /\ e = <<"call", c>>
                   /\ \E g \in Latest(functions, c.name) : CallFails(g, c.arguments)
             \/ \E a \in ToSet(ast.accesses) :
                   /\ e = <<"type", a>> /\ a.name \notin Builtin
                   /\ Latest(structs, a.name) = {}
             \/ \E a \in ToSet(ast.accesses) :
                   /\ e = <<"member", a>>
                   /\ a.name \in Builtin \/ Latest(structs, a.name) # {}
                   /\ \A s \in Latest(structs, a.name) :
                         a.member \notin ToSet(s.members)
    BY <1>5, <1>6, <1>8, <1>9, Zenon
  <1>11. QED
    BY <1>5, <1>9, <1>10 DEF q, ast, functions, structs, errors

\* The faults of a file are the errors that its queries find.
LEMMA FaultsAre ==
    ASSUME ArenaEngine, Settled, NEW f \in File,
           Opened(f), \A i \in DOMAIN Visible(f) : Opened(Visible(f)[i]), NEW e
    PROVE  e \in Faults(f, Read) <=>
             \/ \E c \in ToSet(Text(f).calls) :
                   /\ e = <<"unknown", c>>
                   /\ Latest(FunctionTables(f), c.name) = {}
             \/ \E c \in ToSet(Text(f).calls) :
                   /\ e = <<"call", c>>
                   /\ \E g \in Latest(FunctionTables(f), c.name) :
                         CallFails(g, c.arguments)
             \/ \E a \in ToSet(Text(f).accesses) :
                   /\ e = <<"type", a>>
                   /\ a.name \notin Builtin
                   /\ Latest(StructTables(f), a.name) = {}
             \/ \E a \in ToSet(Text(f).accesses) :
                   /\ e = <<"member", a>>
                   /\ \/ a.name \in Builtin
                      \/ Latest(StructTables(f), a.name) # {}
                   /\ \A s \in Latest(StructTables(f), a.name) :
                         a.member \notin ToSet(s.members)
  <1> DEFINE ast == Text(f)
             visible == Append(Read[f].imports, f)
             functions == [i \in DOMAIN visible |-> Read[visible[i]].functions]
             structs == [i \in DOMAIN visible |-> Read[visible[i]].structs]
  <1>1. ASSUME NEW g \in File, Opened(g) PROVE Read[g] = Text(g)
    BY <1>1 DEF Read, Opened, Text
  <1>2. Read[f] = ast
    BY <1>1
  <1>3. visible = Visible(f)
    BY <1>2 DEF Visible
  <1>4. \A i \in DOMAIN visible : visible[i] \in File /\ Opened(visible[i])
    BY <1>3, VisibleFiles
  <1>5. \A i \in DOMAIN visible : Read[visible[i]] = Text(visible[i])
    BY <1>1, <1>4
  <1> HIDE DEF visible
  <1>6. functions = FunctionTables(f) /\ structs = StructTables(f)
    BY <1>3, <1>5 DEF FunctionTables, StructTables
  <1> DEFINE wrong1 == {<<"unknown", c>> : c \in {c \in ToSet(ast.calls) :
                            Latest(functions, c.name) = {}}}
             wrong2 == {<<"call", c>> : c \in {c \in ToSet(ast.calls) :
                            \E g \in Latest(functions, c.name) :
                                CallFails(g, c.arguments)}}
             wrong3 == {<<"type", a>> : a \in {a \in ToSet(ast.accesses) :
                            a.name \notin Builtin /\ Latest(structs, a.name) = {}}}
             wrong4 == {<<"member", a>> : a \in {a \in ToSet(ast.accesses) :
                            /\ a.name \in Builtin \/ Latest(structs, a.name) # {}
                            /\ \A s \in Latest(structs, a.name) :
                                  a.member \notin ToSet(s.members)}}
  <1>7. Faults(f, Read) = wrong1 \cup wrong2 \cup wrong3 \cup wrong4
    BY <1>2, Zenon DEF Faults, visible
  <1> HIDE DEF functions, structs, ast
  <1>8. e \in wrong1 <=> \E c \in ToSet(ast.calls) :
            e = <<"unknown", c>> /\ Latest(functions, c.name) = {}
    BY Zenon
  <1>9. e \in wrong2 <=> \E c \in ToSet(ast.calls) :
            /\ e = <<"call", c>>
            /\ \E g \in Latest(functions, c.name) : CallFails(g, c.arguments)
    BY Zenon
  <1>10. e \in wrong3 <=> \E a \in ToSet(ast.accesses) :
            /\ e = <<"type", a>> /\ a.name \notin Builtin
            /\ Latest(structs, a.name) = {}
    BY Zenon
  <1>11. e \in wrong4 <=> \E a \in ToSet(ast.accesses) :
            /\ e = <<"member", a>>
            /\ a.name \in Builtin \/ Latest(structs, a.name) # {}
            /\ \A s \in Latest(structs, a.name) : a.member \notin ToSet(s.members)
    BY Zenon
  <1> HIDE DEF wrong1, wrong2, wrong3, wrong4
  <1>12. e \in Faults(f, Read) <=>
             e \in wrong1 \/ e \in wrong2 \/ e \in wrong3 \/ e \in wrong4
    BY <1>7, Zenon
  <1>13. QED
    BY <1>6, <1>8, <1>9, <1>10, <1>11, <1>12, Zenon DEF ast

\* Every file that f sees was opened for its report.
LEMMA VisibleOpened ==
    ASSUME ArenaEngine, Settled, NEW f \in File,
           Verified(<<"Errors", f>>)
    PROVE  \A i \in DOMAIN Visible(f) : Opened(Visible(f)[i])
  <1>1. /\ "Errors" \in DOMAIN Analysis /\ 2 \in DOMAIN Analysis["Errors"]
        /\ Analysis["Errors"][2] = "ResolvedCalls"
        /\ "ResolvedCalls" \in DOMAIN Analysis
        /\ 2 \in DOMAIN Analysis["ResolvedCalls"]
        /\ Analysis["ResolvedCalls"][2] = "AvailableFunctionIds"
        /\ "AvailableFunctionIds" \in DOMAIN Gathered
        /\ Gathered["AvailableFunctionIds"] = "FunctionIds"
    BY DEF Analysis, Gathered
  <1>2. Verified(<<"ResolvedCalls", f>>)
    BY <1>1, AnalysisRead
  <1>3. Verified(<<"AvailableFunctionIds", f>>)
    BY <1>1, <1>2, AnalysisRead
  <1>4. /\ Opened(f)
        /\ \A i \in DOMAIN Visible(f) : Verified(<<"FunctionIds", Visible(f)[i]>>)
    BY <1>1, <1>3, GatheredRead
  <1>5. QED
    BY <1>4, VisibleFiles, FunctionIdsRead

\* What is shown for a file is right.
LEMMA RenderedErrorsRead ==
    ASSUME ArenaEngine, Settled, NEW f \in File,
           Verified(<<"RenderedErrors", f>>)
    PROVE  ToSet(query_cache[<<"RenderedErrors", f>>]) =
               {<<fault, Read[f].layout>> : fault \in Faults(f, Read)}
  <1> DEFINE q == <<"RenderedErrors", f>>
             e == <<"Errors", f>>
             a == <<"SourceContents", f>>
             b == <<"LineEndings", f>>
             errors == query_cache[e]
             n == Len(errors)
             asked == FlattenSeq([i \in 1..n |-> <<a, b>>])
             list == <<e>> \o asked
             reads == Reads(q)
  <1>1. q \in Query /\ q \notin Source /\ e \in Query /\ a \in Query /\ b \in Query
    BY DEF ArenaEngine, ArenaQuery, ArenaSource, Kind, Derived, Analysis
  <1>2. /\ RunList(q, <<>>) = <<e>> \o <<>>
        /\ \A r : r # <<>> =>
              RunList(q, r) = <<e>> \o FlattenSeq([i \in DOMAIN r[1] |->
                                  About(f, <<"SourceContents", "LineEndings">>)])
    <2>1. q[1] = "RenderedErrors" /\ q[2] = f
      OBVIOUS
    <2>2. /\ "RenderedErrors" \notin DOMAIN Derived
          /\ "RenderedErrors" \notin DOMAIN Gathered
          /\ "RenderedErrors" \notin DOMAIN Analysis
      BY DEF Derived, Gathered, Analysis
    <2>3. QED
      BY <2>1, <2>2 DEF RunList
  <1>3. About(f, <<"SourceContents", "LineEndings">>) = <<a, b>>
    BY DEF About
  <1>4. Verified(q)
    OBVIOUS
  <1>5. ArenaResult(q, reads) =
            [i \in DOMAIN reads[1] |-> <<reads[1][i], reads[3]>>]
    <2> DEFINE r == Reads(q)
    <2> HIDE DEF r
    <2>1. ArenaResult(<<"RenderedErrors", f>>, r) =
              [i \in DOMAIN r[1] |-> <<r[1][i], r[3]>>]
      BY DEF ArenaResult
    <2>2. QED
      BY <2>1 DEF r
  <1> HIDE DEF q, e, a, b
  <1>6. Len(RunList(q, <<>>)) \in Nat \ {0} /\ RunList(q, <<>>)[1] = e
    <2>1. Len(<<e>> \o <<>>) = 1 /\ (<<e>> \o <<>>)[1] = e
      OBVIOUS
    <2>2. QED
      BY <1>2, <2>1
  <1>7. Verified(e)
    BY <1>1, <1>4, <1>6, RanFirst
  <1>8. /\ Opened(f) /\ IsList(errors)
        /\ \A i \in DOMAIN Visible(f) : Opened(Visible(f)[i])
        /\ \A x : x \in ToSet(errors) <=> x \in Faults(f, Read)
    <2>1. Verified(<<"Errors", f>>)
      BY <1>7 DEF e
    <2>2. \A i \in DOMAIN Visible(f) : Opened(Visible(f)[i])
      BY <2>1, VisibleOpened
    <2>3. Opened(f) /\ IsList(errors)
      BY <2>1, ErrorsRead DEF e
    <2>4. ASSUME NEW x PROVE x \in ToSet(errors) <=> x \in Faults(f, Read)
      BY <2>1, <2>2, <2>3, ErrorsRead, FaultsAre, Zenon DEF e
    <2>5. QED
      BY <2>2, <2>3, <2>4
  <1>9. n \in Nat /\ DOMAIN errors = 1..n
    BY <1>8 DEF IsList
  <1> HIDE DEF errors, n
  <1>10. /\ asked \in Seq(Query)
         /\ n # 0 => Len(asked) >= 2 /\ asked[1] = a /\ asked[2] = b
    <2> DEFINE m == n
    <2>1. a \in Query /\ b \in Query /\ m \in Nat
      BY <1>1, <1>9
    <2> HIDE DEF m
    <2>2. LET joined == FlattenSeq([i \in 1..m |-> <<a, b>>])
          IN  /\ joined \in Seq(Query)
              /\ m # 0 => Len(joined) >= 2 /\ joined[1] = a /\ joined[2] = b
      BY <2>1, FlattenFront
    <2>3. QED
      BY <2>2 DEF m
  <1>11. ASSUME NEW r, r # <<>>, r[1] = errors PROVE RunList(q, r) = list
    <2>1. RunList(q, r) = <<e>> \o FlattenSeq([i \in DOMAIN errors |-> <<a, b>>])
      BY <1>2, <1>3, <1>11, Zenon
    <2>2. QED
      BY <1>9, <2>1
  <1> HIDE DEF asked
  <1>12. /\ list \in Seq(Query) /\ Len(list) \in Nat /\ Len(list) # 0 /\ list[1] = e
         /\ n # 0 => 3 \in 1..Len(list) /\ list[3] = b
    <2>1. e \in Query /\ asked \in Seq(Query)
      BY <1>1, <1>10
    <2>2. /\ list \in Seq(Query) /\ Len(asked) \in Nat
          /\ Len(list) = Len(asked) + 1 /\ list[1] = e
          /\ \A i \in 1..Len(asked) : list[i + 1] = asked[i]
      BY <2>1, Headed
    <2> HIDE DEF list
    <2>3. ASSUME n # 0 PROVE 3 \in 1..Len(list) /\ list[3] = b
      <3>1. Len(asked) >= 2 /\ asked[2] = b
        BY <1>10, <2>3, Zenon
      <3>2. list[2 + 1] = asked[2]
        BY <2>2, <3>1
      <3>3. 3 \in 1..Len(list)
        BY <2>2, <3>1
      <3>4. QED
        BY <3>1, <3>2, <3>3
    <2>4. Len(list) \in Nat /\ Len(list) # 0
      BY <2>2
    <2>5. QED
      BY <2>2, <2>3, <2>4, Zenon
  <1> HIDE DEF list
  <1>13. \A r : Len(r) \in Nat \ {0} /\ r[1] = query_cache[list[1]] =>
                     RunList(q, r) = list
    <2> SUFFICES ASSUME NEW r, Len(r) \in Nat \ {0}, r[1] = query_cache[list[1]]
                 PROVE  RunList(q, r) = list
      OBVIOUS
    <2>1. r # <<>> /\ r[1] = errors
      BY <1>12 DEF errors
    <2>2. QED
      BY <1>11, <2>1
  <1>14. /\ \A i \in 1..Len(list) : Verified(list[i])
         /\ \A i \in 1..Len(list) : reads[i] = query_cache[list[i]]
         /\ query_cache[q] = ArenaResult(q, reads)
    <2>1. RunList(q, <<>>)[1] = list[1]
      BY <1>6, <1>12
    <2>2. QED
      BY <1>1, <1>4, <1>6, <1>12, <1>13, <2>1, RanItsList
  <1>15. reads[1] = errors
    <2>1. 1 \in 1..Len(list)
      BY <1>12
    <2>2. QED
      BY <1>12, <1>14, <2>1 DEF errors
  <1> HIDE DEF reads
  <1>16. query_cache[q] = [i \in 1..n |-> <<errors[i], reads[3]>>]
    BY <1>9, <1>14, <1>5, <1>15
  <1>17. n # 0 => reads[3] = Read[f].layout
    <2> SUFFICES ASSUME n # 0 PROVE reads[3] = Read[f].layout
      OBVIOUS
    <2>1. Verified(b) /\ reads[3] = query_cache[b]
      BY <1>12, <1>14
    <2>2. reads[3] = Text(f).layout
      BY <2>1, LineEndingsRead DEF b
    <2>3. Read[f] = Text(f)
      BY <1>8 DEF Read, Opened, Text
    <2>4. QED
      BY <2>2, <2>3
  <1>18. ToSet(query_cache[q]) = {<<fault, Read[f].layout>> : fault \in ToSet(errors)}
    <2>1. CASE n = 0
      <3>1. DOMAIN query_cache[q] = {} /\ DOMAIN errors = {}
        BY <1>9, <1>16, <2>1
      <3>2. QED
        BY <3>1 DEF ToSet
    <2>2. CASE n # 0
      <3> DEFINE layout == Read[f].layout
                 shown == query_cache[q]
      <3>1. shown = [i \in 1..n |-> <<errors[i], layout>>]
        BY <1>16, <1>17, <2>2
      <3> HIDE DEF layout, shown
      <3>2. ToSet(shown) = {<<fault, layout>> : fault \in ToSet(errors)}
        BY <1>9, <3>1 DEF ToSet
      <3>3. QED
        BY <3>2 DEF layout, shown
    <2>3. QED
      BY <2>1, <2>2
  <1>19. ToSet(errors) = Faults(f, Read)
    BY <1>8
  <1>20. QED
    BY <1>18, <1>19 DEF q

-----------------------------------------------------------------------------
(* While requests are served. *)

\* The query of an answered request is verified.
AnswerVerified ==
    outcome = "answered" =>
        target \in Query /\ verified[target] = revision /\ revision # 0

\* operator== of std::string is equality.
LEMMA ArenaSourcesCompared ==
    ASSUME ArenaEngine
    PROVE  SourcesCompared
  <1> SUFFICES ASSUME NEW q \in Source, NEW previous, NEW result,
                      TRUE \in Same(q, previous, result)
               PROVE  previous = result
    BY DEF SourcesCompared
  <1>1. q \in Query /\ q[1] = "SourceContents"
    BY QueryAssumption DEF ArenaEngine, ArenaSource
  <1>2. Same(q, previous, result) = {previous = result}
    <2>1. Same(q, previous, result) = ArenaSame(q, previous, result)
      BY <1>1 DEF ArenaEngine
    <2>2. ArenaSame(q, previous, result) = {previous = result}
      BY <1>1 DEF ArenaSame
    <2>3. QED
      BY <2>1, <2>2
  <1>3. QED
    BY <1>2

\* What settling a query leaves in the tables.
LEMMA SettledOnce ==
    ASSUME TypeOK, NEW q \in Query, NEW result, Settle(q, result)
    PROVE  /\ verified'[q] = revision
           /\ query_dependencies' = query_dependencies
           /\ \A p : p # q /\ p \in Cached => query_cache'[p] = query_cache[p]
           /\ Cached' \subseteq Cached \cup {q}
           /\ \/ q \in Cached /\ query_cache'[q] = query_cache[q]
                  /\ TRUE \in Same(q, query_cache[q], result)
              \/ query_cache'[q] = result
  <1>1. verified' = [verified EXCEPT ![q] = revision]
        /\ query_dependencies' = query_dependencies
    BY DEF Settle
  <1>2. verified \in [Query -> Nat]
    BY DEF TypeOK
  <1>3. CASE /\ q \in Cached /\ TRUE \in Same(q, query_cache[q], result)
             /\ UNCHANGED <<changed, query_cache>>
    BY <1>1, <1>2, <1>3 DEF Cached
  <1>4. CASE query_cache' = Store(q, result)
    BY <1>1, <1>2, <1>4 DEF Store, Cached
  <1>5. QED
    BY <1>3, <1>4 DEF Settle

\* The cache keeps having contents for every file in it.
LEMMA SourcesStayRead ==
    ASSUME EngineInvariant, SourcesWereRead, [Next]_vars
    PROVE  SourcesWereRead'
  <1>1. TypeOK /\ Source \subseteq Query
    BY QueryAssumption DEF EngineInvariant
  <1>2. CASE UNCHANGED query_cache
    BY <1>2 DEF SourcesWereRead, Cached
  <1>3. ASSUME NEW q \in Query, NEW result, Settle(q, result),
               q \in Source => result \in Contents
        PROVE  SourcesWereRead'
    <2> SUFFICES ASSUME NEW s \in Source, s \in Cached'
                 PROVE  query_cache'[s] \in Contents
      BY DEF SourcesWereRead
    <2>1. CASE s = q
      BY <1>1, <1>3, <2>1, SettledOnce DEF SourcesWereRead
    <2>2. CASE s # q
      <3>1. s \in Cached /\ query_cache'[s] = query_cache[s]
        BY <1>1, <1>3, <2>2, SettledOnce
      <3>2. QED
        BY <3>1 DEF SourcesWereRead
    <2>3. QED
      BY <2>1, <2>2
  <1>4. ASSUME NEW q \in Query, ReadSource(q) PROVE SourcesWereRead'
    <2>1. CASE files[q] = Missing
      BY <1>2, <1>4, <2>1 DEF ReadSource, tables
    <2>2. CASE files[q] # Missing
      <3>1. files[q] \in Contents /\ Settle(q, files[q])
        BY <1>1, <1>4, <2>2 DEF ReadSource, TypeOK
      <3>2. QED
        BY <1>3, <3>1
    <2>3. QED
      BY <2>1, <2>2
  <1>5. ASSUME NEW q \in Query, Finish(q) PROVE SourcesWereRead'
    <2>1. q \notin Source /\ Settle(q, Result(q, Reads(q)))
      BY <1>5 DEF Finish
    <2>2. QED
      BY <1>3, <2>1
  <1>6. CASE EngineStep
    <2>1. PICK q \in Query :
              \/ Lookup(q) \/ UseCached(q) \/ Recompute(q)
              \/ ReadSource(q) \/ RunQuery(q) \/ Finish(q)
              \/ CheckRevision(q) \/ ScanDependency(q)
              \/ RefreshDependency(q) \/ TrustDependency(q)
              \/ AllVerified(q)
      BY <1>6, Zenon DEF EngineStep
    <2>2. CASE UNCHANGED query_cache
      BY <1>2, <2>2
    <2>3. QED
      BY <1>4, <1>5, <2>1, <2>2
         DEF Lookup, UseCached, Recompute, RunQuery, CheckRevision,
             ScanDependency, RefreshDependency, TrustDependency, AllVerified,
             tables
  <1>7. CASE UserStep
    BY <1>2, <1>7 DEF UserStep, Edit, Execute, tables
  <1>8. CASE UNCHANGED vars
    BY <1>2, <1>8 DEF vars
  <1>9. QED
    BY <1>6, <1>7, <1>8 DEF Next

\* Only the return of the outermost call answers.
LEMMA AnswerStaysVerified ==
    ASSUME EngineInvariant, RequestServed, AnswerVerified, [Next]_vars
    PROVE  AnswerVerified'
  <1>1. TypeOK /\ RequestAtBottom
    BY DEF EngineInvariant, StackInvariant
  <1>2. CASE UNCHANGED vars
    BY <1>2 DEF vars, AnswerVerified
  <1>3. CASE UserStep
    BY <1>3 DEF UserStep, Edit, Execute, tables, request, AnswerVerified
  <1>4. CASE EngineStep
    <2>1. /\ stack # <<>> /\ outcome = "running" /\ target' = target
          /\ revision' = revision /\ revision # 0
      BY <1>1, <1>4, RequestKept DEF RequestAtBottom
    <2>2. Len(stack) \in Nat \ {0} /\ top = stack[Len(stack)] /\ top.query \in Query
      BY <1>1, <2>1, TopIsFrame
    <2>3. ASSUME NEW q \in Query, top.query = q, ReturnResult,
                 verified'[q] = revision
          PROVE  AnswerVerified'
      <3>1. CASE Len(stack) = 1
        <4>1. target = q
          BY <2>1, <2>2, <2>3, <3>1 DEF RequestServed
        <4>2. QED
          BY <2>1, <2>3, <4>1 DEF AnswerVerified
      <3>2. CASE Len(stack) # 1
        BY <2>1, <2>3, <3>2 DEF ReturnResult, AnswerVerified
      <3>3. QED
        BY <3>1, <3>2
    <2>4. PICK q \in Query :
              \/ Lookup(q) \/ UseCached(q) \/ Recompute(q)
              \/ ReadSource(q) \/ RunQuery(q) \/ Finish(q)
              \/ CheckRevision(q) \/ ScanDependency(q)
              \/ RefreshDependency(q) \/ TrustDependency(q)
              \/ AllVerified(q)
      BY <1>4, Zenon DEF EngineStep
    <2>5. ASSUME NEW result, Settle(q, result), top.query = q
          PROVE  AnswerVerified'
      <3>1. ReturnResult /\ verified'[q] = revision
        BY <1>1, <2>5, SettledOnce DEF Settle
      <3>2. QED
        BY <2>3, <2>5, <3>1
    <2>6. CASE UseCached(q)
      <3>1. ReturnResult /\ verified'[q] = revision /\ top.query = q
        BY <1>1, <2>6 DEF UseCached, At, TypeOK
      <3>2. QED
        BY <2>3, <3>1
    <2>7. CASE ReadSource(q)
      BY <2>1, <2>5, <2>7 DEF ReadSource, At, Throw, AnswerVerified
    <2>8. CASE Finish(q)
      BY <2>5, <2>8 DEF Finish, At
    <2>9. CASE outcome' = outcome
      BY <2>1, <2>9 DEF AnswerVerified
    <2>10. QED
      BY <2>4, <2>6, <2>7, <2>8, <2>9
         DEF Lookup, Recompute, RunQuery, CheckRevision, ScanDependency,
             RefreshDependency, TrustDependency, AllVerified
  <1>5. QED
    BY <1>2, <1>3, <1>4 DEF Next

\* At first nothing is cached and nothing answered.
LEMMA InitAnswered == Init => SourcesWereRead /\ AnswerVerified
  BY DEF Init, SourcesWereRead, AnswerVerified, Cached

-----------------------------------------------------------------------------
(* The reports. *)

\* A report is right because its query is verified.
LEMMA ReportFollows ==
    ASSUME ArenaEngine, EngineInvariant, FreshnessInvariant,
           SourcesWereRead, AnswerVerified
    PROVE  ReportIsRight
  <1> SUFFICES ASSUME NEW f \in File, outcome = "answered",
                      target = <<"RenderedErrors", f>>
               PROVE  ToSet(query_cache[target]) =
                          {<<fault, Read[f].layout>> : fault \in Faults(f, Read)}
    BY Zenon DEF ReportIsRight, Read
  <1>1. target \in Query /\ verified[target] = revision /\ revision # 0
    BY DEF AnswerVerified
  <1>2. Settled
    BY <1>1, VerifiedFresh DEF Settled
  <1>3. QED
    BY <1>1, <1>2, RenderedErrorsRead DEF Verified

\* Whatever the texts of the program are, whatever edits, requests and
\* exceptions came before: what "check" shows for a file is exactly the faults
\* of the texts that were read for this request, on the lines they have now, as
\* long as no result that differs from the cached one is taken for unchanged.
THEOREM ReportsAreRight ==
    ASSUME ArenaEngine
    PROVE  Spec /\ DifferentResultsStored => []ReportIsRight
  <1> DEFINE Inv == /\ EngineInvariant /\ FreshnessInvariant /\ RequestServed
                    /\ SourcesWereRead /\ AnswerVerified
  <1>1. SourcesCompared
    BY ArenaSourcesCompared
  <1>2. Init => Inv
    BY InitInvariant, InitFresh, InitServed, InitAnswered
  <1>3. Inv /\ [Next]_vars /\ [StoresDifferent]_vars => Inv'
    BY <1>1, NextInvariant, NextFreshness, NextServed, SourcesStayRead,
       AnswerStaysVerified
  <1>4. Inv => ReportIsRight
    BY ReportFollows
  <1>5. QED
    BY <1>2, <1>3, <1>4, PTL DEF Spec, DifferentResultsStored

-----------------------------------------------------------------------------
(* The variables whose type is inferred. *)

\* A run of the type checker that reports no more for the types inferred before
\* is a computation of its query, whether its result is stored or kept.
LEMMA TypecheckIsFinish ==
    ASSUME ArenaEngine, EngineInvariant, NEW f \in File, Typecheck(f),
           ReanalysisIsComplete'
    PROVE  Finish(Typechecked(f))
  <1> DEFINE q == Typechecked(f)
             reads == Reads(q)
             R == Result(q, reads)
             more == Mistyped(f, CallTypes(f))
             X == [R EXCEPT !.errors = R.errors \o more]
  <1>1. q \in Query /\ q \notin Source /\ q[1] = "TypecheckedFile"
    BY DEF ArenaEngine, ArenaQuery, ArenaSource, Kind, Analysis, Typechecked
  <1>2. /\ At("compute", q) /\ Demand(q, reads) = Done /\ Settle(q, X)
        /\ UNCHANGED <<world, request, seen>>
    BY Zenon DEF Typecheck, Typechecking
  <1>3. R = ArenaResult(q, reads)
    BY <1>1 DEF ArenaEngine
  <1>4. \E ast, errors : R = [ast |-> ast, errors |-> errors]
    <2> DEFINE r == reads
    <2> HIDE DEF r
    <2>1. ArenaResult(<<"TypecheckedFile", f>>, r) =
              [ast |-> r[3].ast,
               errors |-> WrongCalls(r[3].ast, r[1]) \o WrongMembers(r[3], r[4])]
      BY AnalysisResults, Zenon
    <2>2. QED
      BY <1>3, <2>1 DEF r, Typechecked
  <1>5. /\ TypeOK /\ DependenciesUsed /\ RequestAtBottom /\ RevisionsOrdered
        /\ stack # <<>>
    BY <1>2 DEF EngineInvariant, StackInvariant, At
  <1>6. revision \in Nat \ {0} /\ revision' = revision
    BY <1>2, <1>5 DEF RequestAtBottom, TypeOK, request
  <1> HIDE DEF R, X, q, more
  <1>7. /\ verified'[q] = revision
        /\ query_dependencies' = query_dependencies
        /\ \A p : p # q /\ p \in Cached => query_cache'[p] = query_cache[p]
        /\ \/ q \in Cached /\ query_cache'[q] = query_cache[q]
               /\ TRUE \in Same(q, query_cache[q], X)
           \/ query_cache'[q] = X
    BY <1>1, <1>2, <1>5, SettledOnce
  <1>8. Reads(q)' = Reads(q)
    <2> DEFINE deps == query_dependencies[q]
    <2>1. \A i \in DOMAIN deps : deps[i] \in Cached /\ deps[i] # q
      <3> TAKE i \in DOMAIN deps
      <3>1. deps[i] \in Uses[q]
        BY <1>1, <1>5 DEF DependenciesUsed
      <3>2. deps[i] # q
        BY <1>1, <3>1, QueryAssumption
      <3>3. verified[deps[i]] = revision
        <4>1. Len(stack) \in Frames /\ stack[Len(stack)].pc = "compute"
              /\ stack[Len(stack)].query = q
          BY <1>2, <1>5, TopIsFrame DEF At, Frames, top
        <4>2. /\ deps \in Seq(Query)
              /\ \A j \in 1..Len(deps) : verified[deps[j]] = revision
          BY <4>1, ComputationFacts
        <4>3. DOMAIN deps = 1..Len(deps)
          BY <4>2
        <4>4. QED
          BY <4>2, <4>3
      <3>4. deps[i] \in Query
        BY <1>1, <3>1, QueryAssumption
      <3>5. QED
        BY <1>5, <1>6, <3>2, <3>3, <3>4 DEF RevisionsOrdered
    <2>2. \A i \in DOMAIN deps : query_cache'[deps[i]] = query_cache[deps[i]]
      BY <1>7, <2>1
    <2>3. QED
      BY <1>7, <2>2 DEF Reads
  <1>9. query_cache'[q].errors = R.errors
    <2>1. /\ verified'[q] = revision' /\ revision' # 0
      BY <1>6, <1>7
    <2>2. query_cache'[q].errors = Result(q, Reads(q)').errors
      BY <2>1 DEF ReanalysisIsComplete, q
    <2>3. QED
      BY <1>8, <2>2 DEF R
  <1>10. X.errors = R.errors
    <2>1. CASE q \in Cached /\ query_cache'[q] = query_cache[q]
               /\ TRUE \in Same(q, query_cache[q], X)
      <3>1. Same(q, query_cache[q], X) = SameAnalysis(query_cache[q], X)
        <4>1. Same(q, query_cache[q], X) = ArenaSame(q, query_cache[q], X)
          BY <1>1 DEF ArenaEngine
        <4>2. ArenaSame(q, query_cache[q], X) = SameAnalysis(query_cache[q], X)
          BY <1>1 DEF ArenaSame
        <4>3. QED
          BY <4>1, <4>2
      <3>2. query_cache[q].errors = X.errors
        BY <2>1, <3>1 DEF SameAnalysis
      <3>3. QED
        BY <1>9, <2>1, <3>2
    <2>2. CASE query_cache'[q] = X
      BY <1>9, <2>2
    <2>3. QED
      BY <1>7, <2>1, <2>2
  <1>11. X = R
    <2>1. PICK ast, errors : R = [ast |-> ast, errors |-> errors]
      BY <1>4
    <2>2. X = [ast |-> ast, errors |-> errors \o more]
      <3> DEFINE found == R.errors \o more
      <3>1. X = [R EXCEPT !.errors = found] /\ R.errors = errors
        BY <2>1, Zenon DEF X
      <3> HIDE DEF found
      <3>2. X = [ast |-> ast, errors |-> found]
        BY <2>1, <3>1
      <3>3. QED
        BY <3>1, <3>2, Zenon DEF found
    <2>3. errors \o more = errors
      BY <1>10, <2>1, <2>2
    <2>4. QED
      BY <2>1, <2>2, <2>3
  <1>12. Settle(q, R)
    BY <1>2, <1>11
  <1>13. QED
    BY <1>1, <1>2, <1>12 DEF Finish, R, q

\* Typechecking is one more query of the engine as long as the types inferred
\* before do not show.
LEMMA InferringIsEngine ==
    ASSUME ArenaEngine, EngineInvariant, [InferringNext]_varsInferred,
           ReanalysisIsComplete'
    PROVE  [Next]_vars
  <1>1. CASE UNCHANGED varsInferred
    BY <1>1 DEF varsInferred
  <1>2. ASSUME NEW f \in File, Typecheck(f) PROVE Next
    <2>1. Finish(Typechecked(f))
      BY <1>2, TypecheckIsFinish
    <2>2. Typechecked(f) \in Query
      BY DEF ArenaEngine, ArenaQuery, Kind, Analysis, Typechecked
    <2>3. QED
      BY <2>1, <2>2, Zenon DEF Next, EngineStep
  <1>3. CASE OtherStep \/ UserStep
    BY <1>3 DEF OtherStep, Next
  <1>4. QED
    BY <1>1, <1>2, <1>3 DEF InferringNext

\* The compiler with its inferred variables is the engine with its queries, as
\* long as every analysis that is kept finds what a new one would.
THEOREM InferenceIsInvisible ==
    ASSUME ArenaEngine
    PROVE  InferringSpec /\ []ReanalysisIsComplete => Spec
  <1>1. InferringInit => Init /\ EngineInvariant
    BY InitInvariant DEF InferringInit
  <1>2. EngineInvariant /\ [InferringNext]_varsInferred /\ ReanalysisIsComplete'
            => [Next]_vars /\ EngineInvariant'
    BY InferringIsEngine, NextInvariant
  <1>3. QED
    BY <1>1, <1>2, PTL DEF InferringSpec, Spec

\* What the compiler shows is right, with the types that it infers: the two
\* departures from queries.md that the runs exhibit are the only ways in which a
\* report can be wrong.
THEOREM InferringReportsAreRight ==
    ASSUME ArenaEngine
    PROVE  InferringSpec /\ []ReanalysisIsComplete /\ DifferentResultsStored
               => []ReportIsRight
  BY InferenceIsInvisible, ReportsAreRight, PTL

\* And it is what a compiler started anew would show.
THEOREM InferringAnswersAreFresh ==
    ASSUME ArenaEngine, EvaluatesAnew
    PROVE  InferringSpec /\ []ReanalysisIsComplete /\ DifferentResultsStored
               => AnswersAreFresh
  <1>1. SourcesCompared
    BY ArenaSourcesCompared
  <1>2. QED
    BY <1>1, InferenceIsInvisible, StoringKeepsPromise, PTL

=============================================================================
