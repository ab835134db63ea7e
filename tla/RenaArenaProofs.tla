-------------------------- MODULE RenaArenaProofs --------------------------
(***************************************************************************)
(* What an arena hands out is apart from everything else that is alive,    *)
(* for every heap, every growth limit and every size and alignment.        *)
(***************************************************************************)
EXTENDS RenaArena, TLAPS

(* The pages are apart from each other, and their objects are behind the    *)
(* header and before current: where the next object goes, nothing is.       *)
PagesApart ==
    /\ \A a \in Live : a < pages[a].end /\ a + HeaderSize <= pages[a].current
    /\ \A a, b \in Live : a # b => pages[a].end <= b \/ pages[b].end <= a

ObjectsBehindCurrent ==
    \A b \in allocations :
        /\ 0 < b.size
        /\ b.addr + b.size <= pages[b.page].current

(* An arena without a chain has no tail, unless it was moved from.          *)
TailsChained ==
    \A o \in Owners :
        /\ arenas[o].status # "live" => arenas[o].chain = <<>>
        /\ arenas[o].status = "live" /\ arenas[o].tail # -1 => arenas[o].chain # <<>>

ArenaInvariant ==
    /\ TypeOK
    /\ PagesApart
    /\ TailsChained
    /\ PagesOwnedOnce
    /\ ObjectsInPages
    /\ ObjectsBehindCurrent
    /\ ObjectsDisjoint

-----------------------------------------------------------------------------
(* What a move leaves behind, and what there is before a constructor.       *)
LEMMA ChainlessArenas ==
    /\ Unborn \in Arena /\ Unborn.chain = <<>> /\ Unborn.status = "unborn"
    /\ \A arena \in Arena : /\ MoveFrom(arena) \in Arena
                            /\ MoveFrom(arena).chain = <<>>
                            /\ MoveFrom(arena).status = "moved"
<1>1. <<>> \in Seq(Addresses)
  BY SMT
<1>2. LargePageSize \in Nat \ {0}
  BY ArenaAssumption
<1>3. Unborn = [status |-> "unborn", chain |-> <<>>, tail |-> -1,
                max_grow_size |-> LargePageSize]
  BY DEF Unborn, EmptyArena
<1>4. Unborn \in Arena /\ Unborn.chain = <<>> /\ Unborn.status = "unborn"
  BY <1>1, <1>2, <1>3 DEF Arena
<1>5. ASSUME NEW arena \in Arena
      PROVE  /\ MoveFrom(arena) \in Arena
             /\ MoveFrom(arena).chain = <<>>
             /\ MoveFrom(arena).status = "moved"
  <2>1. MoveFrom(arena).chain = <<>> /\ MoveFrom(arena).status = "moved"
    BY DEF MoveFrom, Arena
  <2> DEFINE moved == [arena EXCEPT !.status = "moved"]
             none == <<>>
  <2>2. moved \in Arena
    BY DEF Arena
  <2>3. none \in Seq(Addresses)
    BY <1>1
  <2>4. MoveFrom(arena) = [moved EXCEPT !.chain = none]
    BY DEF MoveFrom
  <2> HIDE DEF moved, none
  <2>5. MoveFrom(arena) \in Arena
    BY <2>2, <2>3, <2>4 DEF Arena
  <2>6. QED
    BY <2>1, <2>5
<1>6. QED
  BY <1>4, <1>5

(* Rounding up never goes below what is rounded.                            *)
LEMMA AlignedUp ==
    ASSUME NEW x \in Nat, NEW align \in Nat \ {0}
    PROVE  Aligned(x, align) \in Nat /\ x <= Aligned(x, align)
<1> DEFINE y == x + align - 1
<1>1. y \in Nat
  OBVIOUS
<1>2. y = align * (y \div align) + (y % align) /\ y % align \in 0 .. align - 1
  BY <1>1, SMT
<1>3. y \div align \in Nat
  BY <1>1, SMT
<1> DEFINE q == y \div align
<1>4. align * q = q * align /\ q * align \in Nat
  BY <1>3, SMT
<1>5. QED
  BY <1>1, <1>2, <1>3, <1>4 DEF Aligned

(* A page an arena grows by has room for the header and for something more. *)
LEMMA GrownSizes ==
    ASSUME TypeOK, PagesApart,
           NEW o \in Owners, NEW size \in Sizes, NEW align \in Aligns,
           arenas[o].tail # -1 => arenas[o].tail \in Live,
           size > 0
    PROVE  GrownSize(arenas[o], size, align) \in Nat \ {0}
<1> DEFINE wanted == WantedSize(arenas[o])
           least == MinPageSize(size, align)
           max == arenas[o].max_grow_size
<1> USE ArenaAssumption
<1>1. max \in Nat /\ arenas[o].tail \in Addresses \cup {-1}
  BY DEF TypeOK, Arena
<1>2. Padding(HeaderSize, align) \in Nat
  BY AlignedUp, SMT DEF Padding
<1>3. least \in Nat /\ least > 0
  BY <1>2, SMT DEF MinPageSize
<1>4. wanted \in Nat
  <2>1. CASE arenas[o].tail = -1
    BY <1>1, <2>1, SMT DEF WantedSize
  <2>2. CASE arenas[o].tail # -1
    <3> DEFINE prev == pages[arenas[o].tail].end - arenas[o].tail
               next == {p \in 2 * prev .. 4 * prev - 1 : PowerOfTwo(p) /\ p <= max}
    <3>1. arenas[o].tail \in Live /\ arenas[o].tail \in Nat
      BY <1>1, <2>2, SMT DEF Addresses
    <3>2. prev \in Nat
      BY <3>1, SMT DEF TypeOK, PagesApart, Live
    <3>3. next \subseteq Nat
      BY <3>2, SMT
    <3>4. Doubled(prev, max) \in Nat
      <4>1. CASE next = {}
        BY <4>1, <1>1 DEF Doubled
      <4>2. CASE next # {}
        <5>1. (CHOOSE p \in next : TRUE) \in next
          BY <4>2
        <5>2. QED
          BY <4>2, <5>1, <3>3 DEF Doubled
      <4>3. QED
        BY <4>1, <4>2
    <3>5. QED
      BY <3>4, <2>2 DEF WantedSize
  <2>3. QED
    BY <2>1, <2>2
<1> DEFINE n == IF wanted < least THEN least ELSE wanted
<1>5. n \in Nat /\ n > 0
  BY <1>3, <1>4, SMT
<1> HIDE DEF n
<1>6. Aligned(n, PageAlign) \in Nat /\ n <= Aligned(n, PageAlign)
  BY <1>5, AlignedUp
<1>7. GrownSize(arenas[o], size, align) = Aligned(n, PageAlign)
  BY DEF GrownSize, n
<1>8. QED
  BY <1>5, <1>6, <1>7, SMT

(* A page placed among the others keeps them apart.                         *)
LEMMA PlacedApart ==
    ASSUME TypeOK, PagesApart,
           NEW size \in Nat \ {0}, NEW a \in Places(size),
           NEW page \in [end : Nat, current : Nat],
           page.end = a + size, a + HeaderSize <= page.current,
           pages' = [pages EXCEPT ![a] = page]
    PROVE  /\ a \in Nat /\ a \in Addresses
           /\ a \notin Live
           /\ Live' = Live \cup {a}
           /\ pages'[a] = page
           /\ \A b \in Live : pages'[b] = pages[b]
           /\ PagesApart'
<1> USE ArenaAssumption
<1>1. a \in Nat /\ a \in Addresses
  BY SMT DEF Places, Addresses
<1>2. \A b \in Live : a + size <= b \/ pages[b].end <= a
  BY DEF Places
<1>3. a \notin Live
  <2>1. SUFFICES ASSUME a \in Live PROVE FALSE
    OBVIOUS
  <2>2. pages[a].end \in Nat /\ a < pages[a].end
    BY <2>1, <1>1 DEF TypeOK, PagesApart
  <2>3. QED
    BY <2>1, <2>2, <1>1, <1>2, SMT
<1>4. pages'[a] = page /\ \A b \in Addresses \ {a} : pages'[b] = pages[b]
  BY <1>1 DEF TypeOK
<1>5. page # NoPage
  BY <1>1, SMT DEF NoPage
<1>6. Live' = Live \cup {a}
  <2>1. \A b : b \in Live' <=> b \in Live \cup {a}
    BY <1>1, <1>4, <1>5 DEF Live
  <2>2. QED
    BY <2>1
<1>7. \A b \in Live : pages'[b] = pages[b]
  BY <1>3, <1>4 DEF Live
<1>8. PagesApart'
  <2>1. Live \subseteq Nat
    BY SMT DEF Live, Addresses
  <2>2. \A b \in Live : pages[b].end \in Nat /\ pages[b].current \in Nat
    BY DEF Live, TypeOK
  <2>3. \A b \in Live' : b < pages'[b].end /\ b + HeaderSize <= pages'[b].current
    BY <1>1, <1>4, <1>6, <1>7, SMT DEF PagesApart
  <2>4. \A b, c \in Live' : b # c => pages'[b].end <= c \/ pages'[c].end <= b
    <3> SUFFICES ASSUME NEW b \in Live', NEW c \in Live', b # c
                 PROVE  pages'[b].end <= c \/ pages'[c].end <= b
      OBVIOUS
    <3>1. CASE b = a
      <4>1. c \in Live /\ pages'[c] = pages[c] /\ pages'[b].end = a + size
        BY <3>1, <1>4, <1>6, <1>7
      <4>2. QED
        BY <4>1, <1>2, <3>1
    <3>2. CASE c = a
      <4>1. b \in Live /\ pages'[b] = pages[b] /\ pages'[c].end = a + size
        BY <3>2, <1>4, <1>6, <1>7
      <4>2. QED
        BY <4>1, <1>2, <3>2
    <3>3. CASE b # a /\ c # a
      BY <3>3, <1>6, <1>7 DEF PagesApart
    <3>4. QED
      BY <3>1, <3>2, <3>3
  <2>5. QED
    BY <2>3, <2>4 DEF PagesApart
<1>9. QED
  BY <1>1, <1>3, <1>4, <1>6, <1>7, <1>8

(* What is in a chain once a page is appended.                              *)
LEMMA ChainAppended ==
    ASSUME NEW chain \in Seq(Addresses), NEW a \in Addresses
    PROVE  LET longer == Append(chain, a) IN
           /\ longer \in Seq(Addresses) /\ longer # <<>>
           /\ Len(longer) = Len(chain) + 1 /\ longer[Len(longer)] = a
           /\ DOMAIN longer = DOMAIN chain \cup {Len(chain) + 1}
           /\ \A i \in DOMAIN chain : longer[i] = chain[i]
           /\ Len(chain) + 1 \notin DOMAIN chain
  BY SMT

-----------------------------------------------------------------------------
(* A page added to the chain of o keeps every page in exactly one chain.    *)
LEMMA OwnedOnceMore ==
    ASSUME TypeOK, PagesOwnedOnce,
           NEW o \in Owners, NEW a \in Addresses, a \notin Live,
           NEW arena \in Arena, arena.chain = arenas[o].chain,
           Live' = Live \cup {a},
           arenas' = [arenas EXCEPT ![o] = WithPage(arena, a)]
    PROVE  /\ PagesOwnedOnce'
           /\ arenas' \in [Owners -> Arena]
           /\ Chained(o)' = Chained(o) \cup {a}
           /\ \A p \in Owners \ {o} : Chained(p)' = Chained(p)
<1> DEFINE chain == arenas[o].chain
           longer == Append(chain, a)
<1>1. chain \in Seq(Addresses)
  BY DEF TypeOK, Arena
<1>2. /\ longer \in Seq(Addresses) /\ longer # <<>>
      /\ Len(longer) = Len(chain) + 1 /\ longer[Len(longer)] = a
      /\ DOMAIN longer = DOMAIN chain \cup {Len(chain) + 1}
      /\ \A i \in DOMAIN chain : longer[i] = chain[i]
      /\ Len(chain) + 1 \notin DOMAIN chain
  BY <1>1, ChainAppended
<1>3. WithPage(arena, a) = [arena EXCEPT !.chain = longer, !.tail = a]
  BY DEF WithPage
<1> HIDE DEF chain, longer
<1>4. /\ WithPage(arena, a) \in Arena
      /\ WithPage(arena, a).chain = longer
      /\ WithPage(arena, a).tail = a
  BY <1>2, <1>3 DEF Arena
<1>5. /\ arenas' \in [Owners -> Arena]
      /\ arenas'[o].chain = longer /\ arenas'[o].tail = a
      /\ \A p \in Owners \ {o} : arenas'[p] = arenas[p]
  BY <1>4 DEF TypeOK
<1>6. \A p \in Owners \ {o} : Chained(p)' = Chained(p)
  BY <1>5 DEF Chained
<1>7. Chained(o)' = Chained(o) \cup {a}
  <2>1. Chained(o)' = {longer[i] : i \in DOMAIN longer}
    BY <1>5 DEF Chained
  <2>2. Chained(o) = {chain[i] : i \in DOMAIN chain}
    BY DEF Chained, chain
  <2>3. longer[Len(chain) + 1] = a
    BY <1>2
  <2>4. \A x : x \in {longer[i] : i \in DOMAIN longer}
               <=> x \in {chain[i] : i \in DOMAIN chain} \cup {a}
    BY <1>2, <2>3
  <2>5. QED
    BY <2>1, <2>2, <2>4
<1>8. PagesOwnedOnce'
  <2>1. Live' = UNION {Chained(p)' : p \in Owners}
    <3>1. Live = UNION {Chained(p) : p \in Owners}
      BY DEF PagesOwnedOnce
    <3>2. \A x : x \in UNION {Chained(p)' : p \in Owners}
                 <=> x \in UNION {Chained(p) : p \in Owners} \/ x = a
      BY <1>6, <1>7
    <3>3. QED
      BY <3>1, <3>2
  <2>2. ASSUME NEW p \in Owners, NEW q \in Owners,
               NEW i \in DOMAIN arenas'[p].chain, NEW j \in DOMAIN arenas'[q].chain,
               arenas'[p].chain[i] = arenas'[q].chain[j]
        PROVE  p = q /\ i = j
    <3>1. \A r \in Owners : \A k \in DOMAIN arenas[r].chain : arenas[r].chain[k] # a
      BY DEF PagesOwnedOnce, Chained
    <3>2. \A r \in Owners : \A k \in DOMAIN arenas'[r].chain :
             \/ /\ k \in DOMAIN arenas[r].chain
                /\ arenas'[r].chain[k] = arenas[r].chain[k]
             \/ /\ r = o /\ k = Len(chain) + 1
                /\ arenas'[r].chain[k] = a
      BY <1>2, <1>5 DEF chain
    <3>3. CASE arenas'[p].chain[i] = a
      BY <2>2, <3>1, <3>2, <3>3
    <3>4. CASE arenas'[p].chain[i] # a
      <4>1. /\ i \in DOMAIN arenas[p].chain /\ j \in DOMAIN arenas[q].chain
            /\ arenas[p].chain[i] = arenas[q].chain[j]
        BY <2>2, <3>2, <3>4
      <4>2. QED
        BY <4>1 DEF PagesOwnedOnce
    <3>5. QED
      BY <3>3, <3>4
  <2>3. ASSUME NEW p \in Owners, arenas'[p].chain # <<>>
        PROVE  arenas'[p].tail = arenas'[p].chain[Len(arenas'[p].chain)]
    BY <1>2, <1>5, <2>3 DEF PagesOwnedOnce
  <2>4. QED
    BY <2>1, <2>2, <2>3 DEF PagesOwnedOnce
<1>9. QED
  BY <1>5, <1>6, <1>7, <1>8

(* Putting an object at or behind current of a page of its owner keeps it   *)
(* apart from all others.                                                   *)
LEMMA BumpedApart ==
    ASSUME ArenaInvariant,
           TypeOK', PagesApart', PagesOwnedOnce',
           NEW o \in Owners, NEW tail \in Live', NEW page \in [end : Nat, current : Nat],
           NEW size \in Sizes, NEW align \in Aligns, size > 0,
           tail \in Chained(o)',
           \A p \in Owners : Chained(p) \subseteq Chained(p)',
           Live \subseteq Live',
           \A b \in Live \ {tail} : pages'[b] = pages[b],
           tail \in Live => page = pages[tail],
           tail \notin Live => page.current = tail + HeaderSize,
           pages'[tail].end = page.end,
           Bump(o, tail, page, size, align)
    PROVE  ObjectsInPages' /\ ObjectsBehindCurrent' /\ ObjectsDisjoint'
<1> DEFINE at == Aligned(page.current, align)
           new == [owner |-> o, page |-> tail, addr |-> at, size |-> size, align |-> align]
<1> USE ArenaAssumption
<1>1. page.current \in Nat /\ page.end \in Nat
  OBVIOUS
<1>2. at \in Nat /\ page.current <= at
  BY <1>1, AlignedUp
<1> HIDE DEF at
<1>3. size \in Nat /\ tail \in Nat /\ tail + HeaderSize <= page.current
  <2>1. tail \in Nat
    BY SMT DEF Live, Addresses
  <2>2. tail \in Live => tail + HeaderSize <= pages[tail].current
    BY DEF ArenaInvariant, PagesApart
  <2>3. QED
    BY <2>1, <2>2, <1>1, SMT
<1>4. pages'[tail].current = at + size
  <2>1. tail \in Addresses
    BY DEF Live
  <2>2. pages' = [pages EXCEPT ![tail] = [page EXCEPT !.current = at + size]]
    BY DEF Bump, at
  <2>3. QED
    BY <2>1, <2>2 DEF ArenaInvariant, TypeOK
<1>5. allocations' = allocations \/
         (allocations' = allocations \cup {new} /\ at + size <= page.end)
  BY DEF Bump, at
<1>6. \A b \in allocations :
         /\ b \in Object /\ b.page \in Live /\ b.page \in Nat /\ b.addr \in Nat /\ b.size \in Nat
         /\ pages[b.page].end \in Nat /\ pages[b.page].current \in Nat
         /\ b.page \in Chained(b.owner) /\ b.owner \in Owners
  BY DEF ArenaInvariant, TypeOK, ObjectsInPages, Object, Live, Addresses
<1>7. \A b \in allocations :
         /\ b.page + HeaderSize <= b.addr
         /\ b.addr + b.size <= pages[b.page].end
         /\ b.addr + b.size <= pages[b.page].current
         /\ 0 < b.size
  BY DEF ArenaInvariant, ObjectsInPages, ObjectsBehindCurrent
\* What was handed out before keeps its page and stays behind current.
<1>8. \A b \in allocations :
         /\ b.page \in Live' /\ b.page \in Chained(b.owner)'
         /\ pages'[b.page].end = pages[b.page].end
         /\ pages[b.page].current <= pages'[b.page].current
  <2> SUFFICES ASSUME NEW b \in allocations
               PROVE  /\ b.page \in Live' /\ b.page \in Chained(b.owner)'
                      /\ pages'[b.page].end = pages[b.page].end
                      /\ pages[b.page].current <= pages'[b.page].current
    OBVIOUS
  <2>1. b.page \in Live /\ b.page \in Live' /\ b.page \in Chained(b.owner)'
    BY <1>6
  <2>2. CASE b.page = tail
    <3>1. page = pages[b.page]
      BY <2>1, <2>2
    <3>2. page.current <= at + size
      BY <1>1, <1>2, <1>3, SMT
    <3>3. QED
      BY <2>1, <2>2, <3>1, <3>2, <1>4
  <2>3. CASE b.page # tail
    <3>1. pages'[b.page] = pages[b.page]
      BY <2>1, <2>3
    <3>2. QED
      BY <2>1, <3>1, <1>6, SMT
  <2>4. QED
    BY <2>2, <2>3
\* The new object is behind all others of its page.
<1>9. \A b \in allocations : b.page = tail => b.addr + b.size <= at
  <2> SUFFICES ASSUME NEW b \in allocations, b.page = tail
               PROVE  b.addr + b.size <= at
    OBVIOUS
  <2>1. b.addr + b.size <= page.current
    BY <1>6, <1>7
  <2>2. QED
    BY <2>1, <1>1, <1>2, <1>6, SMT
<1>10. new.owner = o /\ new.page = tail /\ new.addr = at /\ new.size = size
  OBVIOUS
<1> HIDE DEF new
<1>11. ObjectsBehindCurrent'
  <2>1. \A b \in allocations : 0 < b.size /\ b.addr + b.size <= pages'[b.page].current
    <3> SUFFICES ASSUME NEW b \in allocations
                 PROVE  0 < b.size /\ b.addr + b.size <= pages'[b.page].current
      OBVIOUS
    <3>1. pages'[b.page].current \in Nat
      BY <1>8 DEF TypeOK, Live
    <3>2. QED
      BY <3>1, <1>6, <1>7, <1>8, SMT
  <2>2. 0 < new.size /\ new.addr + new.size <= pages'[new.page].current
    BY <1>2, <1>3, <1>4, <1>10, SMT
  <2>3. QED
    BY <2>1, <2>2, <1>5 DEF ObjectsBehindCurrent
<1>12. ObjectsInPages'
  <2>1. \A b \in allocations :
           /\ b.page \in Live' \cap Chained(b.owner)'
           /\ b.page + HeaderSize <= b.addr
           /\ b.addr + b.size <= pages'[b.page].end
    BY <1>7, <1>8
  <2>2. at + size <= page.end =>
           /\ new.page \in Live' \cap Chained(new.owner)'
           /\ new.page + HeaderSize <= new.addr
           /\ new.addr + new.size <= pages'[new.page].end
    <3>1. tail + HeaderSize <= at
      BY <1>1, <1>2, <1>3, SMT
    <3>2. QED
      BY <3>1, <1>10
  <2>3. \A b \in allocations' : Chained(b.owner)' = Chained(b.owner)'
    OBVIOUS
  <2>4. QED
    BY <2>1, <2>2, <1>5 DEF ObjectsInPages, Chained
<1>13. ObjectsDisjoint'
  <2>1. ASSUME at + size <= page.end, NEW b \in allocations
        PROVE  b.addr + b.size <= new.addr \/ new.addr + new.size <= b.addr
    <3>1. CASE b.page = tail
      BY <3>1, <1>9, <1>10
    <3>2. CASE b.page # tail
      <4>1. pages'[b.page].end <= tail \/ pages'[tail].end <= b.page
        BY <3>2, <1>8 DEF PagesApart
      <4>2. pages[b.page].end <= tail \/ page.end <= b.page
        BY <4>1, <1>8
      <4>3. tail <= at
        BY <1>1, <1>2, <1>3, SMT
      <4>4. b.page <= b.addr /\ b.addr + b.size <= pages[b.page].end
        BY <1>6, <1>7, SMT
      <4>5. CASE pages[b.page].end <= tail
        BY <4>3, <4>4, <4>5, <1>2, <1>3, <1>6, <1>10, SMT
      <4>6. CASE page.end <= b.page
        BY <2>1, <4>4, <4>6, <1>1, <1>2, <1>3, <1>6, <1>10, SMT
      <4>7. QED
        BY <4>2, <4>5, <4>6
    <3>3. QED
      BY <3>1, <3>2
  <2>2. ObjectsDisjoint
    BY DEF ArenaInvariant
  <2>3. QED
    BY <2>1, <2>2, <1>5 DEF ObjectsDisjoint
<1>14. QED
  BY <1>11, <1>12, <1>13

-----------------------------------------------------------------------------
(* A moved arena's objects and pages are its new owner's: what is kept of   *)
(* the objects keeps its place.                                             *)
LEMMA RenamedObjects ==
    ASSUME TypeOK, NEW o \in Owners, NEW p \in Owners, NEW kept \in SUBSET allocations
    PROVE  /\ Rename(o, p, kept) \subseteq Object
           /\ \A c \in Rename(o, p, kept) : \E b \in kept :
                 /\ c.owner = IF b.owner = o THEN p ELSE b.owner
                 /\ c.page = b.page /\ c.addr = b.addr
                 /\ c.size = b.size /\ c.align = b.align
<1>1. \A b \in kept : b \in Object
  BY DEF TypeOK
<1>2. ASSUME NEW c \in Rename(o, p, kept)
      PROVE  /\ c \in Object
             /\ \E b \in kept :
                 /\ c.owner = IF b.owner = o THEN p ELSE b.owner
                 /\ c.page = b.page /\ c.addr = b.addr
                 /\ c.size = b.size /\ c.align = b.align
  <2>1. PICK b \in kept : c = [b EXCEPT !.owner = IF @ = o THEN p ELSE @]
    BY DEF Rename
  <2>2. b \in Object
    BY <1>1
  <2>3. QED
    BY <2>1, <2>2 DEF Object
<1>3. QED
  BY <1>2

(* Objects that keep their places are as far apart as before.               *)
LEMMA RenamedApart ==
    ASSUME ArenaInvariant, NEW o \in Owners, NEW p \in Owners,
           NEW kept \in SUBSET allocations,
           \A b \in kept : /\ pages'[b.page] = pages[b.page]
                           /\ b.page \in Live'
                           /\ b.owner = o => b.page \in Chained(p)'
                           /\ b.owner # o => b.page \in Chained(b.owner)',
           allocations' = Rename(o, p, kept)
    PROVE  ObjectsInPages' /\ ObjectsBehindCurrent' /\ ObjectsDisjoint'
<1>1. \A c \in allocations' : \E b \in kept :
         /\ c.owner = IF b.owner = o THEN p ELSE b.owner
         /\ c.page = b.page /\ c.addr = b.addr
         /\ c.size = b.size /\ c.align = b.align
  BY RenamedObjects DEF ArenaInvariant
<1>2. ObjectsInPages'
  <2> SUFFICES ASSUME NEW c \in allocations'
               PROVE  /\ c.page \in Live' \cap Chained(c.owner)'
                      /\ c.page + HeaderSize <= c.addr
                      /\ c.addr + c.size <= pages'[c.page].end
    BY DEF ObjectsInPages, Chained
  <2>1. PICK b \in kept :
           /\ c.owner = IF b.owner = o THEN p ELSE b.owner
           /\ c.page = b.page /\ c.addr = b.addr
           /\ c.size = b.size /\ c.align = b.align
    BY <1>1
  <2>2. /\ b.page + HeaderSize <= b.addr
        /\ b.addr + b.size <= pages[b.page].end
    BY DEF ArenaInvariant, ObjectsInPages
  <2>3. c.page \in Live' \cap Chained(c.owner)'
    <3>1. CASE b.owner = o
      BY <3>1, <2>1
    <3>2. CASE b.owner # o
      BY <3>2, <2>1
    <3>3. QED
      BY <3>1, <3>2
  <2>4. QED
    BY <2>1, <2>2, <2>3
<1>3. ObjectsBehindCurrent'
  BY <1>1 DEF ArenaInvariant, ObjectsBehindCurrent
<1>4. ObjectsDisjoint'
  <2> SUFFICES ASSUME NEW c \in allocations', NEW d \in allocations', c # d
               PROVE  c.addr + c.size <= d.addr \/ d.addr + d.size <= c.addr
    BY DEF ObjectsDisjoint
  <2>1. PICK b \in kept : c = [b EXCEPT !.owner = IF @ = o THEN p ELSE @]
    BY DEF Rename
  <2>2. PICK e \in kept : d = [e EXCEPT !.owner = IF @ = o THEN p ELSE @]
    BY DEF Rename
  <2>3. b \in Object /\ e \in Object /\ b # e
    BY <2>1, <2>2 DEF ArenaInvariant, TypeOK
  <2>4. b.addr + b.size <= e.addr \/ e.addr + e.size <= b.addr
    BY <2>3 DEF ArenaInvariant, ObjectsDisjoint
  <2>5. c.addr = b.addr /\ c.size = b.size /\ d.addr = e.addr /\ d.size = e.size
    BY <2>1, <2>2, <2>3 DEF Object
  <2>6. QED
    BY <2>4, <2>5
<1>5. QED
  BY <1>2, <1>3, <1>4

(* Freeing a chain takes its pages from the live ones and nothing else.     *)
LEMMA Freed ==
    ASSUME TypeOK, PagesApart, NEW o \in Owners, pages' = FreePages(o)
    PROVE  /\ pages' \in [Addresses -> [end : Nat, current : Nat]]
           /\ Live' = Live \ Chained(o)
           /\ \A a \in Live' : pages'[a] = pages[a]
           /\ PagesApart'
<1>1. pages' \in [Addresses -> [end : Nat, current : Nat]]
  BY DEF TypeOK, FreePages, NoPage
<1>2. \A a \in Addresses : pages'[a] = IF a \in Chained(o) THEN NoPage ELSE pages[a]
  BY DEF FreePages
<1>3. \A a : a \in Live' <=> a \in Live \ Chained(o)
  BY <1>2 DEF Live
<1>4. Live' = Live \ Chained(o)
  BY <1>3
<1>5. \A a \in Live' : pages'[a] = pages[a]
  BY <1>2, <1>4 DEF Live
<1>6. PagesApart'
  BY <1>4, <1>5 DEF PagesApart
<1>7. QED
  BY <1>1, <1>4, <1>5, <1>6

-----------------------------------------------------------------------------
LEMMA ConstructKeeps ==
    ASSUME ArenaInvariant, NEW o \in Owners,
           NEW initial \in InitialSizes, NEW max \in MaxGrowSizes,
           Construct(o, initial, max)
    PROVE  ArenaInvariant'
<1> DEFINE arena == EmptyArena(GrowLimit(max))
           size == Aligned(initial, PageAlign)
<1> USE ArenaAssumption
<1>1. arena \in Arena /\ arena.chain = <<>> /\ arena.tail = -1 /\ arena.status = "live"
  <2>1. GrowLimit(max) \in Nat \ {0}
    BY DEF GrowLimit
  <2>2. QED
    BY <2>1 DEF EmptyArena, Arena
<1>2. arenas[o].chain = <<>>
  BY DEF ArenaInvariant, TailsChained, Construct
<1> HIDE DEF arena
<1>3. CASE UNCHANGED pages
  <2>1. arenas' = [arenas EXCEPT ![o] = arena] /\ allocations' = allocations
    <3>1. arenas' = [arenas EXCEPT ![o] = arena] \/
             \E a \in Places(size) : initial > 0 /\ pages' = [pages EXCEPT ![a] = NewPage(a, size)]
      BY DEF Construct, arena
    <3>2. ASSUME NEW a \in Places(size), initial > 0,
                 pages' = [pages EXCEPT ![a] = NewPage(a, size)]
          PROVE  FALSE
      <4>1. size \in Nat \ {0}
        BY <3>2, AlignedUp, SMT
      <4> HIDE DEF size
      <4>2. /\ NewPage(a, size) \in [end : Nat, current : Nat]
            /\ NewPage(a, size).end = a + size
            /\ a + HeaderSize <= NewPage(a, size).current
        BY <4>1, SMT DEF NewPage, Places, Addresses
      <4>3. a \notin Live /\ Live' = Live \cup {a}
        BY <3>2, <4>1, <4>2, PlacedApart DEF ArenaInvariant
      <4>4. QED
        BY <1>3, <4>3 DEF Live
    <3>3. QED
      BY <3>1, <3>2 DEF Construct
  <2>2. Live' = Live
    BY <1>3 DEF Live
  <2>3. /\ arenas' \in [Owners -> Arena]
        /\ \A p \in Owners : arenas'[p].chain = arenas[p].chain
        /\ \A p \in Owners \ {o} : arenas'[p] = arenas[p]
        /\ arenas'[o] = arena
    BY <1>1, <1>2, <2>1 DEF ArenaInvariant, TypeOK
  <2>4. \A p \in Owners : Chained(p)' = Chained(p)
    BY <2>3 DEF Chained
  <2>5. TypeOK'
    BY <1>3, <2>1, <2>3 DEF ArenaInvariant, TypeOK, Construct
  <2>6. PagesApart'
    BY <1>3, <2>2 DEF ArenaInvariant, PagesApart
  <2>7. TailsChained'
    BY <1>1, <2>3 DEF ArenaInvariant, TailsChained
  <2>8. PagesOwnedOnce'
    <3>1. Live' = UNION {Chained(p)' : p \in Owners}
      BY <2>2, <2>4 DEF ArenaInvariant, PagesOwnedOnce
    <3>2. \A p \in Owners : arenas'[p].chain # <<>> => arenas'[p].tail = arenas[p].tail
      BY <1>1, <2>3
    <3>3. \A p, q \in Owners :
             \A i \in DOMAIN arenas'[p].chain, j \in DOMAIN arenas'[q].chain :
                arenas'[p].chain[i] = arenas'[q].chain[j] => p = q /\ i = j
      BY <2>3 DEF ArenaInvariant, PagesOwnedOnce
    <3>4. \A p \in Owners : arenas'[p].chain # <<>> =>
             arenas'[p].tail = arenas'[p].chain[Len(arenas'[p].chain)]
      BY <2>3, <3>2 DEF ArenaInvariant, PagesOwnedOnce
    <3>5. QED
      BY <3>1, <3>3, <3>4 DEF PagesOwnedOnce
  <2>9. ObjectsInPages'
    <3>1. \A b \in allocations : b.owner \in Owners
      BY DEF ArenaInvariant, TypeOK, Object
    <3>2. \A b \in allocations : Chained(b.owner)' = Chained(b.owner)
      BY <2>4, <3>1
    <3>3. QED
      BY <1>3, <2>1, <2>2, <3>2 DEF ArenaInvariant, ObjectsInPages, Chained
  <2>10. ObjectsBehindCurrent' /\ ObjectsDisjoint'
    BY <1>3, <2>1 DEF ArenaInvariant, ObjectsBehindCurrent, ObjectsDisjoint
  <2>11. QED
    BY <2>5, <2>6, <2>7, <2>8, <2>9, <2>10 DEF ArenaInvariant
<1>4. CASE ~UNCHANGED pages
  <2>1. PICK a \in Places(size) :
           /\ initial > 0
           /\ pages' = [pages EXCEPT ![a] = NewPage(a, size)]
           /\ arenas' = [arenas EXCEPT ![o] = WithPage(arena, a)]
    BY <1>4 DEF Construct, arena
  <2>2. allocations' = allocations /\ result' = "SUCCESS"
    BY <1>4 DEF Construct
  <2>3. size \in Nat \ {0}
    BY <2>1, AlignedUp, SMT
  <2> HIDE DEF size
  <2>4. /\ NewPage(a, size) \in [end : Nat, current : Nat]
        /\ NewPage(a, size).end = a + size
        /\ a + HeaderSize <= NewPage(a, size).current
    BY <2>3, SMT DEF NewPage, Places, Addresses
  <2>5. /\ a \in Nat /\ a \in Addresses /\ a \notin Live
        /\ Live' = Live \cup {a}
        /\ \A b \in Live : pages'[b] = pages[b]
        /\ PagesApart'
    BY <2>1, <2>3, <2>4, PlacedApart DEF ArenaInvariant
  <2>6. /\ PagesOwnedOnce'
        /\ arenas' \in [Owners -> Arena]
        /\ Chained(o)' = Chained(o) \cup {a}
        /\ \A p \in Owners \ {o} : Chained(p)' = Chained(p)
    BY <1>1, <1>2, <2>1, <2>5, OwnedOnceMore DEF ArenaInvariant
  <2>7. TypeOK'
    BY <2>1, <2>2, <2>4, <2>6 DEF ArenaInvariant, TypeOK
  <2>8. TailsChained'
    <3>1. arenas'[o].chain # <<>>
      BY <2>6 DEF Chained
    <3>2. arenas'[o].status = "live"
      <4>1. arenas'[o] = WithPage(arena, a)
        BY <2>1 DEF ArenaInvariant, TypeOK
      <4>2. QED
        BY <4>1, <1>1 DEF WithPage, Arena
    <3>3. \A p \in Owners \ {o} : arenas'[p] = arenas[p]
      BY <2>1 DEF ArenaInvariant, TypeOK
    <3>4. QED
      BY <3>1, <3>2, <3>3 DEF ArenaInvariant, TailsChained
  <2>9. \A b \in allocations : /\ b.page \in Live' /\ pages'[b.page] = pages[b.page]
                               /\ b.page \in Chained(b.owner)'
    BY <2>5, <2>6 DEF ArenaInvariant, TypeOK, Object, ObjectsInPages
  <2>10. ObjectsInPages'
    BY <2>2, <2>9 DEF ArenaInvariant, ObjectsInPages, Chained
  <2>11. ObjectsBehindCurrent' /\ ObjectsDisjoint'
    BY <2>2, <2>9 DEF ArenaInvariant, ObjectsBehindCurrent, ObjectsDisjoint
  <2>12. QED
    BY <2>5, <2>6, <2>7, <2>8, <2>10, <2>11 DEF ArenaInvariant
<1>5. QED
  BY <1>3, <1>4

(* The two ways an object is placed.                                        *)
LEMMA AllocInPlaceKeeps ==
    ASSUME ArenaInvariant, NEW o \in Owners,
           NEW size \in Sizes, NEW align \in Aligns,
           AllocInPlace(o, size, align)
    PROVE  ArenaInvariant'
<1> DEFINE tail == arenas[o].tail
           at == Aligned(pages[tail].current, align)
<1> USE ArenaAssumption
<1>1. tail # -1 /\ arenas[o].status = "live"
  BY DEF AllocInPlace, ShouldGrow
<1>2. tail \in Live /\ tail \in Chained(o)
  <2>1. arenas[o].chain # <<>>
    BY <1>1 DEF ArenaInvariant, TailsChained
  <2>2. arenas[o].chain \in Seq(Addresses)
    BY DEF ArenaInvariant, TypeOK, Arena
  <2>3. Len(arenas[o].chain) \in DOMAIN arenas[o].chain
    BY <2>1, <2>2, SMT
  <2>4. tail = arenas[o].chain[Len(arenas[o].chain)]
    BY <2>1 DEF ArenaInvariant, PagesOwnedOnce
  <2>5. tail \in Chained(o)
    BY <2>3, <2>4 DEF Chained
  <2>6. QED
    BY <2>5 DEF ArenaInvariant, PagesOwnedOnce
<1> HIDE DEF tail
<1>3. pages[tail] \in [end : Nat, current : Nat] /\ tail \in Addresses /\ tail \in Nat
  BY <1>2, SMT DEF ArenaInvariant, TypeOK, Live, Addresses
<1>4. at \in Nat /\ pages[tail].current <= at
  BY <1>3, AlignedUp
<1>5. Bump(o, tail, pages[tail], size, align) /\ size > 0 /\ UNCHANGED arenas
  BY DEF AllocInPlace, tail
<1>6. pages' = [pages EXCEPT ![tail] = [pages[tail] EXCEPT !.current = at + size]]
  BY <1>5 DEF Bump
<1> HIDE DEF at
<1>7. /\ pages' \in [Addresses -> [end : Nat, current : Nat]]
      /\ pages'[tail].end = pages[tail].end
      /\ pages'[tail].current = at + size
      /\ \A a \in Addresses \ {tail} : pages'[a] = pages[a]
  BY <1>3, <1>4, <1>6, SMT DEF ArenaInvariant, TypeOK
<1>8. tail < pages[tail].end /\ tail + HeaderSize <= pages[tail].current
  BY <1>2 DEF ArenaInvariant, PagesApart
<1>9. Live' = Live
  <2>1. pages'[tail] # NoPage
    BY <1>3, <1>7, <1>8, SMT DEF NoPage
  <2>2. \A a : a \in Live' <=> a \in Live
    BY <1>2, <1>7, <2>1 DEF Live
  <2>3. QED
    BY <2>2
<1>10. PagesApart'
  <2>1. \A a \in Live : pages'[a].end = pages[a].end
    BY <1>7 DEF Live
  <2>2. \A a \in Live : a + HeaderSize <= pages'[a].current
    <3>1. tail + HeaderSize <= pages'[tail].current
      BY <1>3, <1>4, <1>7, <1>8, SMT
    <3>2. \A a \in Live \ {tail} : a + HeaderSize <= pages'[a].current
      BY <1>7 DEF ArenaInvariant, PagesApart, Live
    <3>3. QED
      BY <3>1, <3>2
  <2>3. QED
    BY <1>9, <2>1, <2>2 DEF ArenaInvariant, PagesApart
<1>11. \A p \in Owners : Chained(p)' = Chained(p)
  BY <1>5 DEF Chained
<1>12. TypeOK'
  <2>1. [owner |-> o, page |-> tail, addr |-> at, size |-> size, align |-> align] \in Object
    BY <1>3, <1>4, SMT DEF Object
  <2>2. QED
    BY <1>5, <1>7, <2>1 DEF ArenaInvariant, TypeOK, Bump, at
<1>13. TailsChained'
  BY <1>5 DEF ArenaInvariant, TailsChained
<1>14. PagesOwnedOnce'
  BY <1>5, <1>9, <1>11 DEF ArenaInvariant, PagesOwnedOnce
<1>15. ObjectsInPages' /\ ObjectsBehindCurrent' /\ ObjectsDisjoint'
  <2>1. /\ tail \in Live' /\ tail \in Chained(o)'
        /\ \A p \in Owners : Chained(p) \subseteq Chained(p)'
        /\ Live \subseteq Live'
        /\ \A b \in Live \ {tail} : pages'[b] = pages[b]
    BY <1>2, <1>7, <1>9, <1>11 DEF Live
  <2>2. QED
    BY <1>2, <1>3, <1>5, <1>7, <1>10, <1>12, <1>14, <2>1, BumpedApart
<1>16. QED
  BY <1>10, <1>12, <1>13, <1>14, <1>15 DEF ArenaInvariant

LEMMA AllocGrowKeeps ==
    ASSUME ArenaInvariant, NEW o \in Owners,
           NEW size \in Sizes, NEW align \in Aligns,
           AllocGrow(o, size, align)
    PROVE  ArenaInvariant'
<1> DEFINE grown == GrownSize(arenas[o], size, align)
<1> USE ArenaAssumption
<1>1. arenas[o].status = "live" /\ size > 0
  BY DEF AllocGrow
<1>2. arenas[o].tail # -1 => arenas[o].tail \in Live
  <2> SUFFICES ASSUME arenas[o].tail # -1 PROVE arenas[o].tail \in Live
    OBVIOUS
  <2>1. arenas[o].chain # <<>> /\ arenas[o].chain \in Seq(Addresses)
    BY <1>1 DEF ArenaInvariant, TailsChained, TypeOK, Arena
  <2>2. Len(arenas[o].chain) \in DOMAIN arenas[o].chain
    BY <2>1, SMT
  <2>3. arenas[o].tail \in Chained(o)
    BY <2>1, <2>2 DEF ArenaInvariant, PagesOwnedOnce, Chained
  <2>4. QED
    BY <2>3 DEF ArenaInvariant, PagesOwnedOnce
<1>3. grown \in Nat \ {0}
  BY <1>1, <1>2, GrownSizes DEF ArenaInvariant
<1>4. PICK a \in Places(grown) :
         /\ Bump(o, a, NewPage(a, grown), size, align)
         /\ arenas' = [arenas EXCEPT ![o] = WithPage(arenas[o], a)]
  <2>1. arenas \in [Owners -> Arena]
    BY DEF ArenaInvariant, TypeOK
  <2>2. QED
    BY <2>1 DEF AllocGrow
<1> HIDE DEF grown
<1> DEFINE new == NewPage(a, grown)
           at == Aligned(new.current, align)
           page == [new EXCEPT !.current = at + size]
<1>5. /\ a \in Nat
      /\ new \in [end : Nat, current : Nat]
      /\ new.end = a + grown /\ new.current = a + HeaderSize
  BY <1>3, SMT DEF NewPage, Places, Addresses
<1>6. at \in Nat /\ new.current <= at
  BY <1>5, AlignedUp
<1>7. pages' = [pages EXCEPT ![a] = page]
  BY <1>4 DEF Bump
<1> HIDE DEF new, at
<1>8. /\ page \in [end : Nat, current : Nat]
      /\ page.end = a + grown
      /\ a + HeaderSize <= page.current
  BY <1>5, <1>6, SMT
<1> HIDE DEF page
<1>9. /\ a \in Addresses /\ a \notin Live
      /\ Live' = Live \cup {a}
      /\ pages'[a] = page
      /\ \A b \in Live : pages'[b] = pages[b]
      /\ PagesApart'
  BY <1>3, <1>7, <1>8, PlacedApart DEF ArenaInvariant
<1>10. /\ PagesOwnedOnce'
       /\ arenas' \in [Owners -> Arena]
       /\ Chained(o)' = Chained(o) \cup {a}
       /\ \A p \in Owners \ {o} : Chained(p)' = Chained(p)
  <2>1. arenas[o] \in Arena
    BY DEF ArenaInvariant, TypeOK
  <2>2. QED
    BY <1>4, <1>9, <2>1, OwnedOnceMore DEF ArenaInvariant
<1>11. TypeOK'
  <2>1. [owner |-> o, page |-> a, addr |-> at, size |-> size, align |-> align] \in Object
    BY <1>6, <1>9, SMT DEF Object
  <2>2. pages' \in [Addresses -> [end : Nat, current : Nat]]
    BY <1>7, <1>8 DEF ArenaInvariant, TypeOK
  <2>3. QED
    BY <1>4, <1>10, <2>1, <2>2 DEF ArenaInvariant, TypeOK, Bump, at, new
<1>12. TailsChained'
  <2>1. arenas'[o].chain # <<>>
    BY <1>10 DEF Chained
  <2>2. arenas'[o].status = "live"
    <3>1. arenas'[o] = WithPage(arenas[o], a)
      BY <1>4 DEF ArenaInvariant, TypeOK
    <3>2. QED
      BY <3>1, <1>1 DEF WithPage, ArenaInvariant, TypeOK, Arena
  <2>3. \A p \in Owners \ {o} : arenas'[p] = arenas[p]
    BY <1>4 DEF ArenaInvariant, TypeOK
  <2>4. QED
    BY <2>1, <2>2, <2>3 DEF ArenaInvariant, TailsChained
<1>13. ObjectsInPages' /\ ObjectsBehindCurrent' /\ ObjectsDisjoint'
  <2>1. /\ a \in Live' /\ a \in Chained(o)'
        /\ \A p \in Owners : Chained(p) \subseteq Chained(p)'
        /\ Live \subseteq Live'
        /\ \A b \in Live \ {a} : pages'[b] = pages[b]
        /\ pages'[a].end = new.end
    BY <1>5, <1>8, <1>9, <1>10
  <2>2. QED
    BY <1>1, <1>4, <1>5, <1>9, <1>10, <1>11, <2>1, BumpedApart DEF new
<1>14. QED
  BY <1>9, <1>10, <1>11, <1>12, <1>13 DEF ArenaInvariant

-----------------------------------------------------------------------------
(* Moves and the end of an arena.                                           *)
LEMMA MoveConstructKeeps ==
    ASSUME ArenaInvariant, NEW o \in Owners, NEW p \in Owners,
           MoveConstruct(o, p)
    PROVE  ArenaInvariant'
<1>1. o # p /\ arenas[p].chain = <<>>
  BY DEF MoveConstruct, ArenaInvariant, TailsChained
<1>2. /\ arenas' = [arenas EXCEPT ![p] = arenas[o], ![o] = MoveFrom(arenas[o])]
      /\ pages' = pages /\ Live' = Live
  BY <1>1 DEF MoveConstruct, ArenaInvariant, TypeOK, Live
<1>3. /\ MoveFrom(arenas[o]) \in Arena
      /\ MoveFrom(arenas[o]).chain = <<>> /\ MoveFrom(arenas[o]).status = "moved"
  BY ChainlessArenas DEF ArenaInvariant, TypeOK
<1>4. /\ arenas' \in [Owners -> Arena]
      /\ arenas'[p] = arenas[o] /\ arenas'[o] = MoveFrom(arenas[o])
      /\ \A q \in Owners \ {o, p} : arenas'[q] = arenas[q]
  BY <1>1, <1>2, <1>3 DEF ArenaInvariant, TypeOK
<1>5. /\ Chained(p)' = Chained(o) /\ Chained(o)' = {} /\ Chained(p) = {}
      /\ \A q \in Owners \ {o, p} : Chained(q)' = Chained(q)
  BY <1>1, <1>3, <1>4 DEF Chained
<1>6. TypeOK'
  BY <1>2, <1>4, RenamedObjects DEF MoveConstruct, ArenaInvariant, TypeOK
<1>7. PagesApart'
  BY <1>2 DEF ArenaInvariant, PagesApart
<1>8. TailsChained'
  BY <1>1, <1>3, <1>4 DEF ArenaInvariant, TailsChained
<1>9. PagesOwnedOnce'
  <2>1. Live' = UNION {Chained(q)' : q \in Owners}
    <3>1. Live = UNION {Chained(q) : q \in Owners}
      BY DEF ArenaInvariant, PagesOwnedOnce
    <3>2. \A x : (\E q \in Owners : x \in Chained(q)') <=> (\E q \in Owners : x \in Chained(q))
      BY <1>5
    <3>3. QED
      BY <1>2, <3>1, <3>2
  <2>2. ASSUME NEW q \in Owners, NEW r \in Owners,
               NEW i \in DOMAIN arenas'[q].chain, NEW j \in DOMAIN arenas'[r].chain,
               arenas'[q].chain[i] = arenas'[r].chain[j]
        PROVE  q = r /\ i = j
    <3>1. q # o /\ r # o
      BY <1>3, <1>4
    <3> DEFINE was(s) == IF s = p THEN o ELSE s
    <3>2. arenas'[q].chain = arenas[was(q)].chain /\ arenas'[r].chain = arenas[was(r)].chain
      BY <3>1, <1>4
    <3>3. was(q) = was(r) /\ i = j
      BY <2>2, <3>2 DEF ArenaInvariant, PagesOwnedOnce
    <3>4. QED
      BY <3>1, <3>3
  <2>3. ASSUME NEW q \in Owners, arenas'[q].chain # <<>>
        PROVE  arenas'[q].tail = arenas'[q].chain[Len(arenas'[q].chain)]
    BY <1>3, <1>4, <2>3 DEF ArenaInvariant, PagesOwnedOnce
  <2>4. QED
    BY <2>1, <2>2, <2>3 DEF PagesOwnedOnce
<1>10. ObjectsInPages' /\ ObjectsBehindCurrent' /\ ObjectsDisjoint'
  <2>1. \A b \in allocations : /\ pages'[b.page] = pages[b.page]
                               /\ b.page \in Live'
                               /\ b.owner = o => b.page \in Chained(p)'
                               /\ b.owner # o => b.page \in Chained(b.owner)'
    BY <1>2, <1>5 DEF ArenaInvariant, TypeOK, Object, ObjectsInPages
  <2>2. allocations' = Rename(o, p, allocations)
    BY DEF MoveConstruct
  <2>3. QED
    BY <2>1, <2>2, RenamedApart
<1>11. QED
  BY <1>6, <1>7, <1>8, <1>9, <1>10 DEF ArenaInvariant

LEMMA MoveAssignKeeps ==
    ASSUME ArenaInvariant, NEW o \in Owners, NEW p \in Owners,
           MoveAssign(o, p)
    PROVE  ArenaInvariant'
<1> DEFINE kept == {b \in allocations : b.owner # p}
<1>1. o # p /\ pages' = FreePages(p) /\ allocations' = Rename(o, p, kept)
  BY DEF MoveAssign
<1>2. arenas' = [arenas EXCEPT ![p] = arenas[o], ![o] = MoveFrom(arenas[o])]
  BY <1>1 DEF MoveAssign, ArenaInvariant, TypeOK
<1>3. /\ MoveFrom(arenas[o]) \in Arena
      /\ MoveFrom(arenas[o]).chain = <<>> /\ MoveFrom(arenas[o]).status = "moved"
  BY ChainlessArenas DEF ArenaInvariant, TypeOK
<1>4. /\ arenas' \in [Owners -> Arena]
      /\ arenas'[p] = arenas[o] /\ arenas'[o] = MoveFrom(arenas[o])
      /\ \A q \in Owners \ {o, p} : arenas'[q] = arenas[q]
  BY <1>1, <1>2, <1>3 DEF ArenaInvariant, TypeOK
<1>5. /\ Chained(p)' = Chained(o) /\ Chained(o)' = {}
      /\ \A q \in Owners \ {o, p} : Chained(q)' = Chained(q)
  BY <1>3, <1>4 DEF Chained
<1>6. /\ pages' \in [Addresses -> [end : Nat, current : Nat]]
      /\ Live' = Live \ Chained(p)
      /\ \A a \in Live' : pages'[a] = pages[a]
      /\ PagesApart'
  BY <1>1, Freed DEF ArenaInvariant
<1>7. TypeOK'
  <2>1. Rename(o, p, kept) \subseteq Object
    BY RenamedObjects DEF ArenaInvariant
  <2>2. QED
    BY <1>1, <1>4, <1>6, <2>1 DEF MoveAssign, ArenaInvariant, TypeOK
<1>8. TailsChained'
  BY <1>1, <1>3, <1>4 DEF MoveAssign, ArenaInvariant, TailsChained
<1>9. \A q, r \in Owners : q # r => Chained(q) \cap Chained(r) = {}
  BY DEF ArenaInvariant, PagesOwnedOnce, Chained
<1>10. PagesOwnedOnce'
  <2>1. Live' = UNION {Chained(q)' : q \in Owners}
    <3>1. Live = UNION {Chained(q) : q \in Owners}
      BY DEF ArenaInvariant, PagesOwnedOnce
    <3>2. \A x : (\E q \in Owners : x \in Chained(q)')
                 <=> (\E q \in Owners : x \in Chained(q)) /\ x \notin Chained(p)
      BY <1>1, <1>5, <1>9
    <3>3. QED
      BY <1>6, <3>1, <3>2
  <2>2. ASSUME NEW q \in Owners, NEW r \in Owners,
               NEW i \in DOMAIN arenas'[q].chain, NEW j \in DOMAIN arenas'[r].chain,
               arenas'[q].chain[i] = arenas'[r].chain[j]
        PROVE  q = r /\ i = j
    <3>1. q # o /\ r # o
      BY <1>3, <1>4
    <3> DEFINE was(s) == IF s = p THEN o ELSE s
    <3>2. arenas'[q].chain = arenas[was(q)].chain /\ arenas'[r].chain = arenas[was(r)].chain
      BY <3>1, <1>4
    <3>3. was(q) = was(r) /\ i = j
      BY <2>2, <3>2 DEF ArenaInvariant, PagesOwnedOnce
    <3>4. QED
      BY <3>1, <3>3
  <2>3. ASSUME NEW q \in Owners, arenas'[q].chain # <<>>
        PROVE  arenas'[q].tail = arenas'[q].chain[Len(arenas'[q].chain)]
    BY <1>3, <1>4, <2>3 DEF ArenaInvariant, PagesOwnedOnce
  <2>4. QED
    BY <2>1, <2>2, <2>3 DEF PagesOwnedOnce
<1>11. ObjectsInPages' /\ ObjectsBehindCurrent' /\ ObjectsDisjoint'
  <2>1. \A b \in kept : /\ pages'[b.page] = pages[b.page]
                        /\ b.page \in Live'
                        /\ b.owner = o => b.page \in Chained(p)'
                        /\ b.owner # o => b.page \in Chained(b.owner)'
    <3> SUFFICES ASSUME NEW b \in kept
                 PROVE  /\ pages'[b.page] = pages[b.page]
                        /\ b.page \in Live'
                        /\ b.owner = o => b.page \in Chained(p)'
                        /\ b.owner # o => b.page \in Chained(b.owner)'
      OBVIOUS
    <3>1. b.owner \in Owners /\ b.owner # p /\ b.page \in Live /\ b.page \in Chained(b.owner)
      BY DEF ArenaInvariant, TypeOK, Object, ObjectsInPages
    <3>2. b.page \in Live'
      BY <3>1, <1>6, <1>9
    <3>3. QED
      BY <3>1, <3>2, <1>5, <1>6
  <2>2. QED
    BY <1>1, <2>1, RenamedApart
<1>12. QED
  BY <1>6, <1>7, <1>8, <1>10, <1>11 DEF ArenaInvariant

LEMMA DestructKeeps ==
    ASSUME ArenaInvariant, NEW o \in Owners, Destruct(o)
    PROVE  ArenaInvariant'
<1> USE ArenaAssumption
<1>1. /\ pages' = FreePages(o) /\ arenas' = [arenas EXCEPT ![o] = Unborn]
      /\ allocations' = {b \in allocations : b.owner # o}
  BY DEF Destruct
<1>2. Unborn \in Arena /\ Unborn.chain = <<>> /\ Unborn.status = "unborn"
  BY ChainlessArenas
<1>3. /\ arenas' \in [Owners -> Arena] /\ arenas'[o] = Unborn
      /\ \A p \in Owners \ {o} : arenas'[p] = arenas[p]
  BY <1>1, <1>2 DEF ArenaInvariant, TypeOK
<1>4. Chained(o)' = {} /\ \A p \in Owners \ {o} : Chained(p)' = Chained(p)
  BY <1>2, <1>3 DEF Chained
<1>5. /\ pages' \in [Addresses -> [end : Nat, current : Nat]]
      /\ Live' = Live \ Chained(o)
      /\ \A a \in Live' : pages'[a] = pages[a]
      /\ PagesApart'
  BY <1>1, Freed DEF ArenaInvariant
<1>6. TypeOK'
  BY <1>1, <1>3, <1>5 DEF Destruct, ArenaInvariant, TypeOK
<1>7. TailsChained'
  BY <1>2, <1>3 DEF ArenaInvariant, TailsChained
<1>8. \A q, r \in Owners : q # r => Chained(q) \cap Chained(r) = {}
  BY DEF ArenaInvariant, PagesOwnedOnce, Chained
<1>9. PagesOwnedOnce'
  <2>1. Live' = UNION {Chained(q)' : q \in Owners}
    <3>1. Live = UNION {Chained(q) : q \in Owners}
      BY DEF ArenaInvariant, PagesOwnedOnce
    <3>2. \A x : (\E q \in Owners : x \in Chained(q)')
                 <=> (\E q \in Owners : x \in Chained(q)) /\ x \notin Chained(o)
      BY <1>4, <1>8
    <3>3. QED
      BY <1>5, <3>1, <3>2
  <2>2. QED
    BY <1>2, <1>3, <2>1 DEF ArenaInvariant, PagesOwnedOnce
<1>10. \A b \in allocations' : /\ b \in allocations
                               /\ b.page \in Live' /\ pages'[b.page] = pages[b.page]
                               /\ b.page \in Chained(b.owner)'
  <2> SUFFICES ASSUME NEW b \in allocations'
               PROVE  /\ b \in allocations
                      /\ b.page \in Live' /\ pages'[b.page] = pages[b.page]
                      /\ b.page \in Chained(b.owner)'
    OBVIOUS
  <2>1. /\ b \in allocations /\ b.owner \in Owners /\ b.owner # o
        /\ b.page \in Live /\ b.page \in Chained(b.owner)
    BY <1>1 DEF ArenaInvariant, TypeOK, Object, ObjectsInPages
  <2>2. QED
    BY <2>1, <1>4, <1>5, <1>8
<1>11. ObjectsInPages'
  BY <1>10 DEF ArenaInvariant, ObjectsInPages, Chained
<1>12. ObjectsBehindCurrent' /\ ObjectsDisjoint'
  BY <1>10 DEF ArenaInvariant, ObjectsBehindCurrent, ObjectsDisjoint
<1>13. QED
  BY <1>5, <1>6, <1>7, <1>9, <1>11, <1>12 DEF ArenaInvariant

(* A step that only returns an error.                                       *)
LEMMA RefusalKeeps ==
    ASSUME ArenaInvariant, UNCHANGED <<pages, arenas, allocations>>,
           result' \in {"SUCCESS", "OUT_OF_MEMORY", "INVALID_ARGUMENT", "INTERNAL_ERROR"}
    PROVE  ArenaInvariant'
<1>1. Live' = Live /\ \A o : Chained(o)' = Chained(o)
  BY DEF Live, Chained
<1>2. TypeOK' /\ PagesApart' /\ TailsChained'
  BY <1>1 DEF ArenaInvariant, TypeOK, PagesApart, TailsChained
<1>3. PagesOwnedOnce'
  BY <1>1 DEF ArenaInvariant, PagesOwnedOnce
<1>4. ObjectsInPages' /\ ObjectsBehindCurrent' /\ ObjectsDisjoint'
  BY <1>1 DEF ArenaInvariant, ObjectsInPages, ObjectsBehindCurrent, ObjectsDisjoint, Chained
<1>5. QED
  BY <1>2, <1>3, <1>4 DEF ArenaInvariant

-----------------------------------------------------------------------------
(* The arenas keep their invariant in every run.                            *)
THEOREM ArenasInvariant == Spec => []ArenaInvariant
<1>1. Init => ArenaInvariant
  <2> SUFFICES ASSUME Init PROVE ArenaInvariant
    OBVIOUS
  <2> USE ArenaAssumption
  <2>1. Live = {}
    BY DEF Init, Live
  <2>2. Unborn \in Arena /\ Unborn.chain = <<>> /\ Unborn.status = "unborn"
    BY ChainlessArenas
  <2>3. \A o \in Owners : arenas[o] = Unborn /\ Chained(o) = {}
    BY <2>2 DEF Init, Chained
  <2>4. TypeOK
    BY <2>2 DEF Init, TypeOK, NoPage
  <2>5. PagesApart /\ TailsChained
    BY <2>1, <2>2, <2>3 DEF PagesApart, TailsChained
  <2>6. PagesOwnedOnce
    BY <2>1, <2>2, <2>3 DEF PagesOwnedOnce
  <2>7. ObjectsInPages /\ ObjectsBehindCurrent /\ ObjectsDisjoint
    BY DEF Init, ObjectsInPages, ObjectsBehindCurrent, ObjectsDisjoint
  <2>8. QED
    BY <2>4, <2>5, <2>6, <2>7 DEF ArenaInvariant
<1>2. ArenaInvariant /\ [Next]_vars => ArenaInvariant'
  <2> SUFFICES ASSUME ArenaInvariant, [Next]_vars PROVE ArenaInvariant'
    OBVIOUS
  <2>1. CASE UNCHANGED vars
    BY <2>1, RefusalKeeps DEF vars, ArenaInvariant, TypeOK
  <2>2. CASE Next
    <3>1. PICK o \in Owners :
             \/ \E initial \in InitialSizes, max \in MaxGrowSizes : Construct(o, initial, max)
             \/ AllocEmpty(o)
             \/ \E size \in Sizes, align \in Aligns : Alloc(o, size, align)
             \/ \E p \in Owners : MoveConstruct(o, p) \/ MoveAssign(o, p)
             \/ Destruct(o)
      BY <2>2 DEF Next
    <3>2. CASE \E initial \in InitialSizes, max \in MaxGrowSizes : Construct(o, initial, max)
      BY <3>2, ConstructKeeps
    <3>3. CASE AllocEmpty(o)
      BY <3>3, RefusalKeeps DEF AllocEmpty
    <3>4. ASSUME NEW size \in Sizes, NEW align \in Aligns, Alloc(o, size, align)
          PROVE  ArenaInvariant'
      <4>1. CASE AllocInPlace(o, size, align)
        BY <4>1, AllocInPlaceKeeps
      <4>2. CASE AllocGrow(o, size, align)
        BY <4>2, AllocGrowKeeps
      <4>3. CASE AllocFail(o, size, align)
        BY <4>3, RefusalKeeps DEF AllocFail
      <4>4. QED
        BY <3>4, <4>1, <4>2, <4>3 DEF Alloc
    <3>5. CASE \E p \in Owners : MoveConstruct(o, p) \/ MoveAssign(o, p)
      BY <3>5, MoveConstructKeeps, MoveAssignKeeps
    <3>6. CASE Destruct(o)
      BY <3>6, DestructKeeps
    <3>7. QED
      BY <3>1, <3>2, <3>3, <3>4, <3>5, <3>6
  <2>3. QED
    BY <2>1, <2>2
<1>3. QED
  BY <1>1, <1>2, PTL DEF Spec

(* Every variable keeps to its type.                                        *)
THEOREM ArenasTypeCorrect == Spec => []TypeOK
<1>1. ArenaInvariant => TypeOK
  BY DEF ArenaInvariant
<1>2. QED
  BY <1>1, ArenasInvariant, PTL

(* What an arena handed out stays in a page that its owner still has, over  *)
(* growth, failure, moves and the end of other arenas.                      *)
THEOREM ArenasKeepObjects == Spec => []ObjectsInPages
<1>1. ArenaInvariant => ObjectsInPages
  BY DEF ArenaInvariant
<1>2. QED
  BY <1>1, ArenasInvariant, PTL

(* No two objects overlap, whatever their sizes and alignments and however  *)
(* their pages came to be.                                                  *)
THEOREM ArenasKeepApart == Spec => []ObjectsDisjoint
<1>1. ArenaInvariant => ObjectsDisjoint
  BY DEF ArenaInvariant
<1>2. QED
  BY <1>1, ArenasInvariant, PTL

(* Every page is in one chain, once: none is lost, none is freed twice.     *)
THEOREM ArenasOwnPages == Spec => []PagesOwnedOnce
<1>1. ArenaInvariant => PagesOwnedOnce
  BY DEF ArenaInvariant
<1>2. QED
  BY <1>1, ArenasInvariant, PTL

-----------------------------------------------------------------------------
(* Alignment and growth.                                                    *)

(* What leaves no remainder is a multiple.                                  *)
LEMMA Multiples ==
    ASSUME NEW x \in Int, NEW d \in Nat \ {0}
    PROVE  x % d = 0 <=> \E k \in Int : x = k * d
<1> DEFINE q == x \div d
           r == x % d
<1>1. q \in Int /\ r \in 0 .. d - 1 /\ x = d * q + r
  BY SMT
<1> HIDE DEF q, r
<1>2. ASSUME r = 0 PROVE \E k \in Int : x = k * d
  <2>1. x = q * d
    BY <1>1, <1>2, SMT
  <2>2. QED
    BY <1>1, <2>1
<1>3. ASSUME NEW k \in Int, x = k * d PROVE r = 0
  <2> DEFINE e == k - q
  <2>1. e \in Int /\ d * e = r
    BY <1>1, <1>3, SMT
  <2> HIDE DEF e
  <2>2. ~ e >= 1
    <3>1. e >= 1 => d * e >= d
      BY <2>1, SMT
    <3>2. QED
      BY <1>1, <2>1, <3>1, SMT
  <2>3. ~ e <= -1
    <3>1. e <= -1 => d * e <= -d
      BY <2>1, SMT
    <3>2. QED
      BY <1>1, <2>1, <3>1, SMT
  <2>4. e = 0
    BY <2>1, <2>2, <2>3, SMT
  <2>5. QED
    BY <2>1, <2>4, SMT
<1>4. QED
  BY <1>2, <1>3 DEF r

(* Rounding up gives the least multiple that is not below.                  *)
LEMMA AlignedLeast ==
    ASSUME NEW x \in Nat, NEW align \in Nat \ {0}
    PROVE  /\ Aligned(x, align) % align = 0
           /\ \E k \in Nat : Aligned(x, align) = k * align /\ (k - 1) * align < x
           /\ \A y \in Nat : y % align = 0 /\ x <= y => Aligned(x, align) <= y
<1> DEFINE z == x + align - 1
           k == z \div align
<1>1. k \in Nat /\ Aligned(x, align) = k * align
  BY SMT DEF Aligned
<1>2. z = align * k + (z % align) /\ z % align \in 0 .. align - 1
  BY SMT
<1>3. align * k = k * align /\ k * align \in Nat /\ (k - 1) * align = k * align - align
  BY <1>1, SMT
<1> HIDE DEF k
<1>4. (k - 1) * align < x
  BY <1>2, <1>3, SMT
<1>5. Aligned(x, align) % align = 0
  BY <1>1, <1>3, Multiples
<1>6. ASSUME NEW y \in Nat, y % align = 0, x <= y
      PROVE  Aligned(x, align) <= y
  <2>1. y \in Int
    OBVIOUS
  <2>2. PICK j \in Int : y = j * align
    BY <1>6, <2>1, Multiples
  <2>3. (k - 1) * align < j * align
    BY <1>4, <1>6, <2>2, <1>3, SMT
  <2>4. ~ j <= k - 1
    <3>1. j <= k - 1 => j * align <= (k - 1) * align
      BY <1>1, <2>2, SMT
    <3>2. QED
      BY <1>3, <2>2, <2>3, <3>1, SMT
  <2>5. k <= j
    BY <1>1, <2>2, <2>4, SMT
  <2>6. k * align <= j * align
    BY <1>1, <2>2, <2>5, SMT
  <2>7. QED
    BY <1>1, <2>2, <2>6
<1>7. QED
  BY <1>1, <1>4, <1>5, <1>6

(* Where every block of the heap is aligned to what a header needs, and the *)
(* alignments asked for are powers of two as the heap's is: each divides it *)
(* or is a multiple of it.                                                  *)
HeapSuitsHeader ==
    /\ HeaderSize <= HeapAlign
    /\ \A align \in Aligns : HeapAlign % align = 0 \/ align % HeapAlign = 0

(* The padding computed from the header's size is then enough at whatever   *)
(* address the page comes to lie.                                           *)
LEMMA PaddingSuffices ==
    ASSUME HeapSuitsHeader, NEW a \in Nat, a % HeapAlign = 0, NEW align \in Aligns
    PROVE  Aligned(a + HeaderSize, align) <= a + Aligned(HeaderSize, align)
<1> USE ArenaAssumption
<1>1. /\ align \in Nat \ {0} /\ HeapAlign \in Nat \ {0} /\ HeaderSize \in Nat \ {0}
      /\ a \in Int /\ align \in Int /\ HeapAlign \in Int
      /\ HeaderSize \in Nat /\ a + HeaderSize \in Nat
  OBVIOUS
<1> DEFINE first == Aligned(HeaderSize, align)
           at == Aligned(a + HeaderSize, align)
<1>2. PICK f \in Nat : first = f * align /\ (f - 1) * align < HeaderSize
  BY <1>1, AlignedLeast
<1>3. PICK k \in Nat : at = k * align /\ (k - 1) * align < a + HeaderSize
  BY <1>1, AlignedLeast
<1>4. \A y \in Nat : y % align = 0 /\ a + HeaderSize <= y => at <= y
  BY <1>1, AlignedLeast
<1>5. first \in Nat /\ HeaderSize <= first
  BY <1>1, AlignedUp
<1>6. PICK h \in Int : a = h * HeapAlign
  BY <1>1, Multiples
<1> HIDE DEF first, at
\* The page is aligned to what is asked for: so is what follows the padding.
<1>7. CASE HeapAlign % align = 0
  <2>1. PICK m \in Int : HeapAlign = m * align
    BY <1>1, <1>7, Multiples
  <2>2. a + first = (h * m + f) * align
    <3>1. h * (m * align) = (h * m) * align
      BY <1>1, <1>6, <2>1, SMT
    <3>2. (h * m) * align + f * align = (h * m + f) * align
      BY <1>1, <1>2, <1>6, <2>1, SMT
    <3>3. QED
      BY <1>2, <1>6, <2>1, <3>1, <3>2
  <2>3. h * m + f \in Int /\ a + first \in Int /\ a + first \in Nat
    BY <1>5, <1>2, <1>6, <2>1
  <2>4. (a + first) % align = 0
    BY <1>1, <2>2, <2>3, Multiples
  <2>5. a + HeaderSize <= a + first
    BY <1>1, <1>5
  <2>6. QED
    BY <1>4, <2>3, <2>4, <2>5 DEF at, first
\* The object's alignment is coarser: it is reached within one step of it.
<1>8. CASE align % HeapAlign = 0
  <2>1. PICK m \in Int : align = m * HeapAlign
    BY <1>1, <1>8, Multiples
  <2> DEFINE before == (k - 1) * align
             b == (k - 1) * m
  <2>2. before \in Int /\ at = before + align /\ before < a + HeaderSize
    BY <1>1, <1>3
  <2>3. b \in Int /\ before = b * HeapAlign
    BY <1>1, <1>3, <2>1, SMT
  <2> HIDE DEF before, b
  <2>4. HeaderSize <= HeapAlign
    BY DEF HeapSuitsHeader
  <2>5. (h + 1) * HeapAlign = a + HeapAlign
    BY <1>1, <1>6
  <2>6. b * HeapAlign < (h + 1) * HeapAlign
    BY <1>1, <1>6, <2>2, <2>3, <2>4, <2>5, SMT
  <2>7. b <= h
    <3>1. b >= h + 1 => b * HeapAlign >= (h + 1) * HeapAlign
      BY <1>1, <1>6, <2>3, SMT
    <3>2. b * HeapAlign \in Int /\ (h + 1) * HeapAlign \in Int
      BY <1>1, <1>6, <2>3
    <3>3. QED
      BY <1>6, <2>3, <2>6, <3>1, <3>2, SMT
  <2>8. b * HeapAlign <= h * HeapAlign
    BY <1>1, <1>6, <2>3, <2>7, SMT
  <2>9. before <= a
    BY <1>6, <2>3, <2>8
  <2>10. align <= first
    <3>1. f # 0
      BY <1>1, <1>2, <1>5, SMT
    <3>2. f >= 1 => f * align >= align
      BY <1>1, <1>2, SMT
    <3>3. QED
      BY <1>2, <3>1, <3>2, SMT
  <2>11. QED
    BY <1>1, <1>5, <2>2, <2>9, <2>10 DEF at, first
<1>9. QED
  BY <1>7, <1>8 DEF HeapSuitsHeader

(* A page is no smaller than its predecessor twice, or than the limit.      *)
PagesDouble ==
    \A o \in Owners : LET chain == arenas[o].chain IN
        \A i \in 1 .. Len(chain) - 1 :
            \/ PageSize(chain[i + 1]) >= 2 * PageSize(chain[i])
            \/ PageSize(chain[i + 1]) >= arenas[o].max_grow_size

(* The tail of a live arena with pages is the last of its chain.            *)
LEMMA TailOfChain ==
    ASSUME ArenaInvariant, NEW o \in Owners,
           arenas[o].status = "live", arenas[o].tail # -1
    PROVE  /\ arenas[o].chain # <<>>
           /\ arenas[o].tail \in Live \cap Chained(o)
           /\ arenas[o].tail = arenas[o].chain[Len(arenas[o].chain)]
<1>1. arenas[o].chain # <<>> /\ arenas[o].chain \in Seq(Addresses)
  BY DEF ArenaInvariant, TailsChained, TypeOK, Arena
<1>2. Len(arenas[o].chain) \in DOMAIN arenas[o].chain
  BY <1>1, SMT
<1>3. arenas[o].tail = arenas[o].chain[Len(arenas[o].chain)]
  BY <1>1 DEF ArenaInvariant, PagesOwnedOnce
<1>4. arenas[o].tail \in Chained(o)
  BY <1>2, <1>3 DEF Chained
<1>5. QED
  BY <1>1, <1>3, <1>4 DEF ArenaInvariant, PagesOwnedOnce

(* An arena that lives has no page before its first.                        *)
LEMMA NoTailNoChain ==
    ASSUME ArenaInvariant, NEW o \in Owners, arenas[o].tail = -1
    PROVE  arenas[o].chain = <<>>
<1>1. SUFFICES ASSUME arenas[o].chain # <<>> PROVE FALSE
  OBVIOUS
<1>2. arenas[o].chain \in Seq(Addresses)
  BY DEF ArenaInvariant, TypeOK, Arena
<1>3. arenas[o].chain[Len(arenas[o].chain)] \in Addresses
  BY <1>1, <1>2, SMT
<1>4. -1 \in Addresses
  BY <1>1, <1>3 DEF ArenaInvariant, PagesOwnedOnce
<1>5. QED
  BY <1>4, SMT DEF Addresses

(* What a page that an arena grows by has room for.                         *)
LEMMA GrownEnough ==
    ASSUME ArenaInvariant, NEW o \in Owners, NEW size \in Sizes, NEW align \in Aligns,
           size > 0, arenas[o].status = "live"
    PROVE  LET grown == GrownSize(arenas[o], size, align)
               tail == arenas[o].tail
           IN  /\ grown \in Nat \ {0}
               /\ size + Aligned(HeaderSize, align) <= grown
               /\ tail # -1 => \/ grown >= 2 * PageSize(tail)
                               \/ grown >= arenas[o].max_grow_size
<1> DEFINE wanted == WantedSize(arenas[o])
           least == MinPageSize(size, align)
           max == arenas[o].max_grow_size
           tail == arenas[o].tail
           grown == GrownSize(arenas[o], size, align)
           n == IF wanted < least THEN least ELSE wanted
<1> USE ArenaAssumption
<1>1. max \in Nat /\ tail \in Addresses \cup {-1}
  BY DEF ArenaInvariant, TypeOK, Arena
<1>2. Aligned(HeaderSize, align) \in Nat
  BY AlignedUp
<1>3. least = size + Aligned(HeaderSize, align) /\ least \in Nat
  BY <1>2, SMT DEF MinPageSize, Padding
<1>4. /\ wanted \in Nat
      /\ tail # -1 => wanted >= 2 * PageSize(tail) \/ wanted >= max
  <2>1. CASE tail = -1
    BY <1>1, <2>1, SMT DEF WantedSize
  <2>2. CASE tail # -1
    <3> DEFINE prev == pages[tail].end - tail
               next == {p \in 2 * prev .. 4 * prev - 1 : PowerOfTwo(p) /\ p <= max}
    <3>1. tail \in Live /\ tail \in Nat
      BY <2>2, <1>1, TailOfChain, SMT DEF Addresses
    <3>2. prev \in Nat
      BY <3>1, SMT DEF ArenaInvariant, TypeOK, PagesApart, Live
    <3>3. wanted = Doubled(prev, max)
      BY <2>2 DEF WantedSize
    <3>4. CASE next = {}
      <4>1. wanted = max
        BY <3>3, <3>4, Zenon DEF Doubled
      <4> HIDE DEF wanted
      <4>2. QED
        BY <1>1, <4>1
    <3>5. CASE next # {}
      <4>1. (CHOOSE p \in next : TRUE) \in next
        BY <3>5
      <4>2. wanted \in next
        BY <3>3, <3>5, <4>1 DEF Doubled
      <4> HIDE DEF wanted
      <4>3. wanted \in Nat /\ wanted >= 2 * prev
        BY <3>2, <4>2
      <4>4. QED
        BY <4>3 DEF PageSize
    <3>6. QED
      BY <3>4, <3>5
  <2>3. QED
    BY <2>1, <2>2
<1> HIDE DEF wanted, least, max, tail
<1>5. n \in Nat /\ n >= wanted /\ n >= least
  BY <1>3, <1>4
<1>6. grown = Aligned(n, PageAlign)
  BY DEF GrownSize, wanted, least
<1> HIDE DEF n
<1>7. grown \in Nat /\ n <= grown
  BY <1>5, <1>6, AlignedUp
<1> HIDE DEF grown
<1>8. grown # 0
  BY <1>2, <1>3, <1>5, <1>7, SMT
<1>9. size + Aligned(HeaderSize, align) <= grown
  BY <1>3, <1>5, <1>7
<1>10. tail # -1 => grown >= 2 * PageSize(tail) \/ grown >= max
  <2>1. SUFFICES ASSUME tail # -1 PROVE grown >= 2 * PageSize(tail) \/ grown >= max
    OBVIOUS
  <2>2. tail \in Live
    BY <2>1, TailOfChain DEF tail
  <2>3. PageSize(tail) \in Int
    BY <2>2, SMT DEF PageSize, Live, Addresses, ArenaInvariant, TypeOK
  <2>4. QED
    BY <1>1, <1>4, <1>5, <1>7, <2>1, <2>3
<1>11. QED
  BY <1>7, <1>8, <1>9, <1>10 DEF grown, tail, max

(* An object keeps its place and its alignment when its owner changes.      *)
LEMMA RenamedAligned ==
    ASSUME TypeOK, ObjectsAligned,
           NEW o \in Owners, NEW p \in Owners, NEW kept \in SUBSET allocations,
           allocations' = Rename(o, p, kept)
    PROVE  ObjectsAligned'
<1>1. \A c \in Rename(o, p, kept) : \E b \in kept : c.addr = b.addr /\ c.align = b.align
  BY RenamedObjects
<1>2. QED
  BY <1>1 DEF ObjectsAligned

(* A new object lies at a multiple of its alignment.                        *)
LEMMA BumpedAligned ==
    ASSUME ObjectsAligned,
           NEW o, NEW tail, NEW page, page.current \in Nat,
           NEW size, NEW align \in Aligns,
           Bump(o, tail, page, size, align)
    PROVE  ObjectsAligned'
<1> DEFINE at == Aligned(page.current, align)
           new == [owner |-> o, page |-> tail, addr |-> at, size |-> size, align |-> align]
<1>1. at % align = 0
  BY AlignedLeast, ArenaAssumption
<1>2. allocations' = allocations \/ allocations' = allocations \cup {new}
  BY DEF Bump
<1>3. new.addr = at /\ new.align = align
  OBVIOUS
<1> HIDE DEF new, at
<1>4. QED
  BY <1>1, <1>2, <1>3 DEF ObjectsAligned

SizeNow(a) == pages'[a].end - a    \* a page's size after a step

(* Chains that are as before, of pages that are as large as before, or      *)
(* chains of one page at most.                                              *)
LEMMA DoublingKept ==
    ASSUME ArenaInvariant, PagesDouble,
           \A p \in Owners :
              \/ arenas'[p].chain \in Seq(Addresses) /\ Len(arenas'[p].chain) <= 1
              \/ \E o \in Owners :
                    /\ arenas'[p].chain = arenas[o].chain
                    /\ arenas'[p].max_grow_size = arenas[o].max_grow_size
                    /\ \A a \in Chained(o) : pages'[a].end = pages[a].end
    PROVE  PagesDouble'
<1> SUFFICES ASSUME NEW p \in Owners, NEW i \in 1 .. Len(arenas'[p].chain) - 1
             PROVE  LET chain == arenas'[p].chain IN
                    \/ SizeNow(chain[i + 1]) >= 2 * SizeNow(chain[i])
                    \/ SizeNow(chain[i + 1]) >= arenas'[p].max_grow_size
  BY DEF PagesDouble, PageSize, SizeNow
<1>1. CASE arenas'[p].chain \in Seq(Addresses) /\ Len(arenas'[p].chain) <= 1
  BY <1>1, SMT
<1>2. CASE \E o \in Owners :
              /\ arenas'[p].chain = arenas[o].chain
              /\ arenas'[p].max_grow_size = arenas[o].max_grow_size
              /\ \A a \in Chained(o) : pages'[a].end = pages[a].end
  <2>1. PICK o \in Owners :
              /\ arenas'[p].chain = arenas[o].chain
              /\ arenas'[p].max_grow_size = arenas[o].max_grow_size
              /\ \A a \in Chained(o) : pages'[a].end = pages[a].end
    BY <1>2
  <2> DEFINE chain == arenas[o].chain
  <2>2. chain \in Seq(Addresses)
    BY DEF ArenaInvariant, TypeOK, Arena
  <2>3. chain = arenas'[p].chain /\ i \in 1 .. Len(chain) - 1
    BY <2>1
  <2>4. i \in DOMAIN chain /\ i + 1 \in DOMAIN chain
    BY <2>2, <2>3, SMT
  <2>5. chain[i] \in Chained(o) /\ chain[i + 1] \in Chained(o)
    BY <2>4 DEF Chained
  <2>6. /\ pages'[chain[i]].end = pages[chain[i]].end
        /\ pages'[chain[i + 1]].end = pages[chain[i + 1]].end
    BY <2>1, <2>5
  <2>7. \/ PageSize(chain[i + 1]) >= 2 * PageSize(chain[i])
        \/ PageSize(chain[i + 1]) >= arenas[o].max_grow_size
    BY <2>3 DEF PagesDouble
  <2>8. QED
    BY <2>1, <2>3, <2>6, <2>7 DEF PageSize, SizeNow
<1>3. QED
  BY <1>1, <1>2

(* Growing: the page that is appended has the size the grow logic asks for, *)
(* and room for the object.                                                 *)
LEMMA GrowthKeeps ==
    ASSUME ArenaInvariant, ArenaInvariant', ObjectsAligned, PagesDouble,
           NEW o \in Owners, NEW size \in Sizes, NEW align \in Aligns,
           AllocGrow(o, size, align)
    PROVE  /\ ObjectsAligned' /\ PagesDouble'
           /\ HeapSuitsHeader => result' # "INTERNAL_ERROR"
<1> DEFINE grown == GrownSize(arenas[o], size, align)
           chain == arenas[o].chain
           tail == arenas[o].tail
           max == arenas[o].max_grow_size
<1> USE ArenaAssumption
<1>1. arenas[o].status = "live" /\ size > 0 /\ size \in Nat
  BY DEF AllocGrow
<1>2. /\ grown \in Nat \ {0}
      /\ size + Aligned(HeaderSize, align) <= grown
      /\ tail # -1 => grown >= 2 * PageSize(tail) \/ grown >= max
  BY <1>1, GrownEnough
<1>3. PICK a \in Places(grown) :
         /\ Bump(o, a, NewPage(a, grown), size, align)
         /\ arenas' = [arenas EXCEPT ![o] = WithPage(arenas[o], a)]
  BY DEF AllocGrow, ArenaInvariant, TypeOK
<1> HIDE DEF grown
<1> DEFINE new == NewPage(a, grown)
           at == Aligned(new.current, align)
           page == [new EXCEPT !.current = at + size]
<1>4. /\ a \in Nat /\ a \in Addresses /\ a % HeapAlign = 0
      /\ new \in [end : Nat, current : Nat]
      /\ new.end = a + grown /\ new.current = a + HeaderSize /\ new.current \in Nat
  BY <1>2, SMT DEF NewPage, Places, Addresses
<1>5. at \in Nat /\ new.current <= at
  BY <1>4, AlignedUp
<1>6. pages' = [pages EXCEPT ![a] = page]
  BY <1>3 DEF Bump
<1>7. ObjectsAligned'
  BY <1>3, <1>4, BumpedAligned
<1>8. HeapSuitsHeader => result' # "INTERNAL_ERROR"
  <2>1. SUFFICES ASSUME HeapSuitsHeader PROVE at + size <= new.end
    BY <1>3 DEF Bump
  <2>2. Aligned(a + HeaderSize, align) <= a + Aligned(HeaderSize, align)
    BY <1>4, <2>1, PaddingSuffices
  <2>3. at <= a + Aligned(HeaderSize, align)
    BY <1>4, <2>2
  <2>4. Aligned(HeaderSize, align) \in Nat
    BY AlignedUp
  <2> HIDE DEF at, new
  <2>5. QED
    BY <1>1, <1>2, <1>4, <1>5, <2>3, <2>4
<1> HIDE DEF new, at
<1>9. /\ page \in [end : Nat, current : Nat]
      /\ page.end = a + grown
      /\ a + HeaderSize <= page.current
  BY <1>1, <1>4, <1>5, SMT
<1> HIDE DEF page
<1>10. /\ a \notin Live
       /\ pages'[a] = page
       /\ \A b \in Live : pages'[b] = pages[b]
  BY <1>2, <1>6, <1>9, PlacedApart DEF ArenaInvariant
<1>11. chain \in Seq(Addresses)
  BY DEF ArenaInvariant, TypeOK, Arena
<1> DEFINE longer == Append(chain, a)
<1>12. /\ longer \in Seq(Addresses) /\ Len(longer) = Len(chain) + 1
       /\ longer[Len(chain) + 1] = a
       /\ \A i \in DOMAIN chain : longer[i] = chain[i]
  <2> HIDE DEF chain
  <2>1. QED
    BY <1>4, <1>11, SMT
<1> HIDE DEF longer
<1>13. /\ arenas'[o].chain = longer /\ arenas'[o].max_grow_size = max
       /\ \A p \in Owners \ {o} : arenas'[p] = arenas[p]
  <2>1. arenas' = [arenas EXCEPT ![o] = [arenas[o] EXCEPT !.chain = longer, !.tail = a]]
    BY <1>3 DEF WithPage, longer
  <2>2. QED
    BY <2>1 DEF ArenaInvariant, TypeOK, Arena
<1>14. \A p \in Owners : \A i \in DOMAIN arenas[p].chain :
          arenas[p].chain[i] \in Live /\ pages'[arenas[p].chain[i]].end = pages[arenas[p].chain[i]].end
  BY <1>10 DEF ArenaInvariant, PagesOwnedOnce, Chained
<1>15. PagesDouble'
  <2> SUFFICES ASSUME NEW p \in Owners, NEW i \in 1 .. Len(arenas'[p].chain) - 1
               PROVE  LET now == arenas'[p].chain IN
                      \/ SizeNow(now[i + 1]) >= 2 * SizeNow(now[i])
                      \/ SizeNow(now[i + 1]) >= arenas'[p].max_grow_size
    BY DEF PagesDouble, PageSize, SizeNow
  <2>1. CASE p # o \/ i + 1 <= Len(chain)
    <3> DEFINE was == arenas[p].chain
               now == arenas'[p].chain
    <3>1. was \in Seq(Addresses)
      BY DEF ArenaInvariant, TypeOK, Arena
    <3>2. i \in 1 .. Len(was) - 1
      <4>1. CASE p # o
        BY <4>1, <1>13
      <4>2. CASE p = o
        <5>1. was = chain /\ Len(chain) \in Nat /\ i \in Nat \ {0} /\ i + 1 <= Len(chain)
          BY <2>1, <4>2, <1>11
        <5>2. QED
          BY <5>1
      <4>3. QED
        BY <4>1, <4>2
    <3>3. i \in DOMAIN was /\ i + 1 \in DOMAIN was
      BY <3>1, <3>2, SMT
    <3>4. now[i] = was[i] /\ now[i + 1] = was[i + 1]
      BY <1>12, <1>13, <3>3
    <3>5. arenas'[p].max_grow_size = arenas[p].max_grow_size
      BY <1>13
    <3>6. \/ PageSize(was[i + 1]) >= 2 * PageSize(was[i])
          \/ PageSize(was[i + 1]) >= arenas[p].max_grow_size
      BY <3>2 DEF PagesDouble
    <3>7. /\ pages'[now[i]].end = pages[was[i]].end
          /\ pages'[now[i + 1]].end = pages[was[i + 1]].end
      BY <1>14, <3>3, <3>4
    <3>8. QED
      BY <3>4, <3>5, <3>6, <3>7 DEF PageSize, SizeNow
  <2>2. CASE p = o /\ i + 1 > Len(chain)
    <3>1. Len(chain) \in Nat /\ i = Len(chain) /\ i \in DOMAIN chain /\ chain # <<>>
      <4>1. Len(chain) \in Nat /\ DOMAIN chain = 1 .. Len(chain)
        BY <1>11, SMT
      <4>2. Len(arenas'[p].chain) = Len(chain) + 1
        BY <2>2, <1>12, <1>13
      <4>3. i = Len(chain) /\ i \in 1 .. Len(chain)
        BY <2>2, <4>1, <4>2
      <4>4. chain # <<>>
        BY <4>1, <4>3
      <4>5. QED
        BY <4>1, <4>3, <4>4
    <3>2. tail # -1
      BY <3>1, NoTailNoChain
    <3>3. tail = chain[i]
      BY <1>1, <3>1, <3>2, TailOfChain
    <3>4. longer[i] = tail /\ longer[i + 1] = a
      BY <1>12, <3>1, <3>3
    <3>5. pages'[tail].end = pages[tail].end /\ pages'[a].end = a + grown
      BY <1>9, <1>10, <1>14, <3>1, <3>3
    <3> HIDE DEF tail, chain
    <3>6. SizeNow(longer[i + 1]) = grown /\ SizeNow(longer[i]) = PageSize(tail)
      <4>1. SizeNow(a) = grown
        BY <1>2, <1>4, <3>5 DEF SizeNow
      <4>2. SizeNow(tail) = PageSize(tail)
        BY <3>5 DEF SizeNow, PageSize
      <4>3. QED
        BY <4>1, <4>2, <3>4
    <3>7. arenas'[p].chain = longer /\ arenas'[p].max_grow_size = max
      BY <1>13, <2>2
    <3>8. grown >= 2 * PageSize(tail) \/ grown >= max
      BY <1>2, <3>2
    <3>9. QED
      BY <3>6, <3>7, <3>8 DEF tail
  <2>3. QED
    BY <2>1, <2>2, <1>11, SMT
<1>16. QED
  BY <1>7, <1>8, <1>15

(* The inductive part of the two, beside ArenaInvariant.                    *)
GrowthInvariant == ObjectsAligned /\ PagesDouble

(* No step takes an object off its alignment or breaks the growth of pages, *)
(* and none that grows an arena finds the page too small.                   *)
LEMMA StepGrows ==
    ASSUME ArenaInvariant, ArenaInvariant', GrowthInvariant, Next
    PROVE  /\ GrowthInvariant'
           /\ HeapSuitsHeader => result' # "INTERNAL_ERROR"
<1> USE ArenaAssumption
<1>1. PICK o \in Owners :
         \/ \E initial \in InitialSizes, max \in MaxGrowSizes : Construct(o, initial, max)
         \/ AllocEmpty(o)
         \/ \E size \in Sizes, align \in Aligns : Alloc(o, size, align)
         \/ \E p \in Owners : MoveConstruct(o, p) \/ MoveAssign(o, p)
         \/ Destruct(o)
  BY DEF Next
\* A chain that is as it was, of pages that keep their sizes.
<1> DEFINE Same(p, q) == /\ arenas'[p].chain = arenas[q].chain
                         /\ arenas'[p].max_grow_size = arenas[q].max_grow_size
                         /\ \A a \in Chained(q) : pages'[a].end = pages[a].end
           Short(p) == arenas'[p].chain \in Seq(Addresses) /\ Len(arenas'[p].chain) <= 1
<1>2. ASSUME \A p \in Owners : Short(p) \/ \E q \in Owners : Same(p, q)
      PROVE  PagesDouble'
  BY <1>2, DoublingKept DEF GrowthInvariant
<1>3. \A p \in Owners : /\ arenas[p].chain \in Seq(Addresses)
                        /\ arenas'[p].chain \in Seq(Addresses)
                        /\ Chained(p) \subseteq Live
  BY DEF ArenaInvariant, TypeOK, Arena, PagesOwnedOnce
<1>4. ASSUME NEW initial \in InitialSizes, NEW max \in MaxGrowSizes, Construct(o, initial, max)
      PROVE  GrowthInvariant' /\ result' # "INTERNAL_ERROR"
  <2> DEFINE arena == EmptyArena(GrowLimit(max))
             size == Aligned(initial, PageAlign)
  <2>1. /\ \/ UNCHANGED pages /\ arenas' = [arenas EXCEPT ![o] = arena]
           \/ \E a \in Places(size) :
                 /\ initial > 0
                 /\ pages' = [pages EXCEPT ![a] = NewPage(a, size)]
                 /\ arenas' = [arenas EXCEPT ![o] = WithPage(arena, a)]
        /\ allocations' = allocations /\ result' # "INTERNAL_ERROR"
    BY <1>4 DEF Construct
  <2>2. arena = [status |-> "live", chain |-> <<>>, tail |-> -1,
                 max_grow_size |-> GrowLimit(max)]
    BY DEF EmptyArena
  <2> HIDE DEF arena
  <2>3. \A p \in Owners \ {o} : arenas'[p] = arenas[p]
    BY <2>1 DEF ArenaInvariant, TypeOK
  <2>4. Short(o)
    <3>1. CASE arenas' = [arenas EXCEPT ![o] = arena]
      <4>1. arenas'[o].chain = <<>>
        BY <2>2, <3>1 DEF ArenaInvariant, TypeOK
      <4>2. QED
        BY <1>3, <4>1
    <3>2. ASSUME NEW a, arenas' = [arenas EXCEPT ![o] = WithPage(arena, a)]
          PROVE  Short(o)
      <4>1. arenas'[o].chain = Append(<<>>, a)
        BY <2>2, <3>2 DEF ArenaInvariant, TypeOK, WithPage
      <4>2. Len(Append(<<>>, a)) = 1
        BY SMT
      <4>3. Len(arenas'[o].chain) = 1
        BY <4>1, <4>2
      <4>4. QED
        BY <1>3, <4>3
    <3>3. QED
      BY <2>1, <3>1, <3>2
  <2>5. \A a \in Live : pages'[a] = pages[a]
    <3>1. ASSUME NEW a \in Places(size), initial > 0,
                 pages' = [pages EXCEPT ![a] = NewPage(a, size)]
          PROVE  \A b \in Live : pages'[b] = pages[b]
      <4>1. initial \in Nat /\ initial > 0 /\ PageAlign \in Nat \ {0}
        BY <1>4, <3>1
      <4>2. size \in Nat \ {0}
        <5>1. size \in Nat /\ initial <= size
          BY <4>1, AlignedUp
        <5> HIDE DEF size
        <5>2. QED
          BY <4>1, <5>1
      <4> HIDE DEF size
      <4>3. /\ NewPage(a, size) \in [end : Nat, current : Nat]
            /\ NewPage(a, size).end = a + size
            /\ a + HeaderSize <= NewPage(a, size).current
        BY <4>2, SMT DEF NewPage, Places, Addresses
      <4>4. QED
        BY <3>1, <4>2, <4>3, PlacedApart DEF ArenaInvariant
    <3>2. QED
      BY <2>1, <3>1
  <2>6. PagesDouble'
    BY <1>2, <1>3, <2>3, <2>4, <2>5
  <2>7. QED
    BY <2>1, <2>6 DEF GrowthInvariant, ObjectsAligned
<1>5. ASSUME UNCHANGED <<pages, arenas, allocations>>
      PROVE  GrowthInvariant'
  BY <1>2, <1>5 DEF GrowthInvariant, ObjectsAligned
<1>6. ASSUME NEW size \in Sizes, NEW align \in Aligns, AllocInPlace(o, size, align)
      PROVE  GrowthInvariant' /\ result' # "INTERNAL_ERROR"
  <2> DEFINE tail == arenas[o].tail
             page == pages[tail]
             at == Aligned(page.current, align)
  <2>1. /\ arenas[o].status = "live" /\ tail # -1 /\ arenas' = arenas
        /\ at + size <= page.end \/ ~(at + size > page.end)
        /\ Bump(o, tail, page, size, align)
    BY <1>6 DEF AllocInPlace, ShouldGrow
  <2>2. tail \in Live /\ tail \in Addresses
    BY <2>1, TailOfChain DEF Live
  <2>3. page \in [end : Nat, current : Nat]
    BY <2>2 DEF ArenaInvariant, TypeOK
  <2>4. at \in Nat /\ size \in Nat
    BY <2>3, AlignedUp
  <2>5. result' # "INTERNAL_ERROR"
    <3>1. at + size <= page.end
      BY <2>1, <2>3, <2>4
    <3>2. QED
      BY <2>1, <3>1 DEF Bump
  <2>6. ObjectsAligned'
    BY <2>1, <2>3, BumpedAligned DEF GrowthInvariant
  <2>7. \A a \in Live : pages'[a].end = pages[a].end
    <3>1. pages' = [pages EXCEPT ![tail] = [page EXCEPT !.current = at + size]]
      BY <2>1 DEF Bump
    <3> HIDE DEF at, tail
    <3>2. QED
      BY <2>2, <2>3, <3>1 DEF ArenaInvariant, TypeOK, Live
  <2>8. PagesDouble'
    BY <1>2, <1>3, <2>1, <2>7
  <2>9. QED
    BY <2>5, <2>6, <2>8 DEF GrowthInvariant
<1>7. ASSUME NEW size \in Sizes, NEW align \in Aligns, AllocGrow(o, size, align)
      PROVE  GrowthInvariant' /\ (HeapSuitsHeader => result' # "INTERNAL_ERROR")
  BY <1>7, GrowthKeeps DEF GrowthInvariant
<1>8. ASSUME NEW p \in Owners, MoveConstruct(o, p)
      PROVE  GrowthInvariant' /\ result' # "INTERNAL_ERROR"
  <2>1. /\ arenas' = [arenas EXCEPT ![p] = arenas[o], ![o] = MoveFrom(arenas[o])]
        /\ o # p /\ pages' = pages /\ allocations' = Rename(o, p, allocations)
        /\ result' # "INTERNAL_ERROR"
    BY <1>8 DEF MoveConstruct, ArenaInvariant, TypeOK
  <2>2. MoveFrom(arenas[o]).chain = <<>>
    BY ChainlessArenas DEF ArenaInvariant, TypeOK
  <2>3. /\ arenas'[p] = arenas[o] /\ arenas'[o].chain = <<>>
        /\ \A q \in Owners \ {o, p} : arenas'[q] = arenas[q]
    BY <2>1, <2>2 DEF ArenaInvariant, TypeOK
  <2>4. Short(o)
    BY <1>3, <2>3
  <2>5. Same(p, o) /\ \A q \in Owners \ {o, p} : Same(q, q)
    BY <2>1, <2>3
  <2>6. PagesDouble'
    BY <1>2, <2>4, <2>5
  <2>7. ObjectsAligned'
    BY <2>1, RenamedAligned DEF ArenaInvariant, GrowthInvariant
  <2>8. QED
    BY <2>1, <2>6, <2>7 DEF GrowthInvariant
<1>9. ASSUME NEW p \in Owners, MoveAssign(o, p)
      PROVE  GrowthInvariant' /\ result' # "INTERNAL_ERROR"
  <2> DEFINE kept == {b \in allocations : b.owner # p}
  <2>1. /\ arenas' = [arenas EXCEPT ![p] = arenas[o], ![o] = MoveFrom(arenas[o])]
        /\ o # p /\ pages' = FreePages(p) /\ allocations' = Rename(o, p, kept)
        /\ result' # "INTERNAL_ERROR"
    BY <1>9 DEF MoveAssign, ArenaInvariant, TypeOK
  <2>2. MoveFrom(arenas[o]).chain = <<>>
    BY ChainlessArenas DEF ArenaInvariant, TypeOK
  <2>3. /\ arenas'[p] = arenas[o] /\ arenas'[o].chain = <<>>
        /\ \A q \in Owners \ {o, p} : arenas'[q] = arenas[q]
    BY <2>1, <2>2 DEF ArenaInvariant, TypeOK
  <2>4. \A q \in Owners \ {p} : \A a \in Chained(q) : pages'[a] = pages[a]
    <3>1. \A q \in Owners \ {p} : Chained(q) \cap Chained(p) = {}
      BY DEF ArenaInvariant, PagesOwnedOnce, Chained
    <3>2. QED
      BY <1>3, <2>1, <3>1 DEF FreePages, Live
  <2>5. Short(o)
    BY <1>3, <2>3
  <2>6. Same(p, o) /\ \A q \in Owners \ {o, p} : Same(q, q)
    BY <2>1, <2>3, <2>4
  <2>7. PagesDouble'
    BY <1>2, <2>5, <2>6
  <2>8. ObjectsAligned'
    BY <2>1, RenamedAligned DEF ArenaInvariant, GrowthInvariant
  <2>9. QED
    BY <2>1, <2>7, <2>8 DEF GrowthInvariant
<1>10. ASSUME Destruct(o)
       PROVE  GrowthInvariant' /\ result' # "INTERNAL_ERROR"
  <2>1. /\ arenas' = [arenas EXCEPT ![o] = Unborn] /\ pages' = FreePages(o)
        /\ allocations' \subseteq allocations /\ result' # "INTERNAL_ERROR"
    BY <1>10 DEF Destruct
  <2>2. arenas'[o].chain = <<>> /\ \A q \in Owners \ {o} : arenas'[q] = arenas[q]
    BY <2>1, ChainlessArenas DEF ArenaInvariant, TypeOK
  <2>3. \A q \in Owners \ {o} : \A a \in Chained(q) : pages'[a] = pages[a]
    <3>1. \A q \in Owners \ {o} : Chained(q) \cap Chained(o) = {}
      BY DEF ArenaInvariant, PagesOwnedOnce, Chained
    <3>2. QED
      BY <1>3, <2>1, <3>1 DEF FreePages, Live
  <2>4. Short(o) /\ \A q \in Owners \ {o} : Same(q, q)
    BY <1>3, <2>2, <2>3
  <2>5. PagesDouble'
    BY <1>2, <2>4
  <2>6. QED
    BY <2>1, <2>5 DEF GrowthInvariant, ObjectsAligned
<1>11. CASE AllocEmpty(o)
  BY <1>5, <1>11 DEF AllocEmpty
<1>12. ASSUME NEW size \in Sizes, NEW align \in Aligns, AllocFail(o, size, align)
       PROVE  GrowthInvariant' /\ result' # "INTERNAL_ERROR"
  BY <1>5, <1>12 DEF AllocFail
<1>13. QED
  BY <1>1, <1>4, <1>6, <1>7, <1>8, <1>9, <1>10, <1>11, <1>12 DEF Alloc

(* The arenas keep what their growth promises as well.                      *)
THEOREM ArenasGrowthInvariant == Spec => []GrowthInvariant
<1>1. Init => GrowthInvariant
  <2>1. SUFFICES ASSUME Init PROVE GrowthInvariant
    OBVIOUS
  <2>2. \A o \in Owners : arenas[o].chain = <<>>
    BY <2>1, ChainlessArenas DEF Init
  <2>3. PagesDouble
    BY <2>2 DEF PagesDouble
  <2>4. QED
    BY <2>1, <2>3 DEF Init, GrowthInvariant, ObjectsAligned
<1>2. ArenaInvariant /\ ArenaInvariant' /\ GrowthInvariant /\ [Next]_vars => GrowthInvariant'
  <2>1. SUFFICES ASSUME ArenaInvariant, GrowthInvariant, UNCHANGED vars
                 PROVE  GrowthInvariant'
    BY StepGrows
  <2>2. QED
    BY <2>1 DEF vars, GrowthInvariant, ObjectsAligned, PagesDouble, PageSize
<1>3. QED
  BY <1>1, <1>2, ArenasInvariant, PTL DEF Spec

(* Whatever an arena hands out lies at a multiple of the alignment it was   *)
(* asked for, in memory and not only within its page.                       *)
THEOREM ArenasAlign == Spec => []ObjectsAligned
<1>1. GrowthInvariant => ObjectsAligned
  BY DEF GrowthInvariant
<1>2. QED
  BY <1>1, ArenasGrowthInvariant, PTL

(* Where the heap aligns its blocks as the headers need it, a page an arena *)
(* grows by has room for what it is grown for: the internal error is never  *)
(* returned; and pages double up to the limit.                              *)
THEOREM ArenasGrow ==
    ASSUME HeapSuitsHeader
    PROVE  Spec => []GrowthSuffices
<1> DEFINE Fits == result # "INTERNAL_ERROR"
<1>1. Init => Fits
  BY DEF Init
<1>2. ArenaInvariant /\ ArenaInvariant' /\ GrowthInvariant /\ Fits /\ [Next]_vars => Fits'
  <2>1. ASSUME Fits, UNCHANGED vars PROVE Fits'
    BY <2>1 DEF vars
  <2>2. QED
    BY <2>1, StepGrows
<1>3. GrowthInvariant /\ Fits => GrowthSuffices
  BY DEF GrowthInvariant, GrowthSuffices, PagesDouble
<1>4. QED
  BY <1>1, <1>2, <1>3, ArenasInvariant, ArenasGrowthInvariant, PTL DEF Spec
=============================================================================
