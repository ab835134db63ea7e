----------------------------- MODULE RenaArena -----------------------------
(***************************************************************************)
(* The bump allocator behind every syntax tree and table of the compiler:  *)
(* lib/c/src/arena.c and its C++ owner util/arena.hpp.                     *)
(*                                                                         *)
(* An arena is a list of heap blocks ("pages").  A page starts with a      *)
(* header; objects follow it in the order they were asked for.  Addresses  *)
(* and sizes are numbers of one unit.  The heap (malloc, aligned_alloc and *)
(* free) is external: it returns any suitable place, or NULL.              *)
(***************************************************************************)
EXTENDS Integers, Sequences, FiniteSets

CONSTANTS
    Owners,           \* the C++ Arena variables of the program
    MemorySize,       \* a bound on the heap
    HeaderSize,       \* sizeof(rena_arena_page)
    PageAlign,        \* RENA_ARENA_PAGE_ALIGN, or 1 where it is not defined
    HeapAlign,        \* what the addresses of heap blocks are multiples of
    DefaultPageSize,  \* RENA_ARENA_DEFAULT_PAGE_SIZE
    LargePageSize,    \* RENA_ARENA_LARGE_PAGE_SIZE
    InitialSizes,     \* the initial page sizes passed to constructors
    MaxGrowSizes,     \* the growth limits passed to constructors
    Sizes,            \* the object sizes asked for
    Aligns,           \* the alignments asked for
    MaxAllocations    \* a bound on the objects alive at a time

ASSUME ArenaAssumption ==
    /\ MemorySize \in Nat
    /\ {HeaderSize, PageAlign, HeapAlign, DefaultPageSize, LargePageSize}
          \subseteq Nat \ {0}
    /\ InitialSizes \subseteq Nat /\ MaxGrowSizes \subseteq Nat
    /\ Sizes \subseteq Nat /\ Aligns \subseteq Nat \ {0}
    /\ MaxAllocations \in Nat
    \* A first page has room for its header once its size is rounded up.
    /\ \A size \in InitialSizes \ {0} : size >= HeaderSize \/ PageAlign >= HeaderSize

VARIABLES
    pages,        \* per address, the page that starts there, or NoPage
    arenas,       \* per owner, its rena_arena
    allocations,  \* the objects handed out and not freed since
    result        \* what the last call returned

vars == <<pages, arenas, allocations, result>>

Addresses == {a \in 0 .. MemorySize : a % HeapAlign = 0}   \* of heap blocks
NoPage == [end |-> 0, current |-> 0]
Live == {a \in Addresses : pages[a] # NoPage}

(* "unborn": not constructed, or destructed.  "moved": its head is NULL and *)
(* its tail still points to a page of the arena it was moved to.            *)
Arena == [status : {"unborn", "live", "moved"},
          chain : Seq(Addresses),                 \* the pages from head, by next
          tail : Addresses \cup {-1},             \* -1 is NULL
          max_grow_size : Nat \ {0}]
EmptyArena(max) ==
    [status |-> "live", chain |-> <<>>, tail |-> -1, max_grow_size |-> max]
Unborn == [EmptyArena(LargePageSize) EXCEPT !.status = "unborn"]

Chained(o) == {arenas[o].chain[i] : i \in DOMAIN arenas[o].chain}

Aligned(offset, align) == ((offset + align - 1) \div align) * align
Padding(offset, align) == Aligned(offset, align) - offset

(* Where the heap may place a block: anywhere free.                         *)
Places(size) ==
    {a \in Addresses : /\ a + size <= MemorySize
                       /\ \A b \in Live : a + size <= b \/ pages[b].end <= a}

Init ==
    /\ pages = [a \in Addresses |-> NoPage]
    /\ arenas = [o \in Owners |-> Unborn]
    /\ allocations = {}
    /\ result = "SUCCESS"

-----------------------------------------------------------------------------
(* Pages of an arena                                                        *)

NewPage(a, size) == [end |-> a + size, current |-> a + HeaderSize]

WithPage(arena, a) ==
    [arena EXCEPT !.chain = Append(@, a), !.tail = a]

PowerOfTwo(n) == \A d \in 2 .. n : n % d = 0 => d % 2 = 0

(* The next power of two of twice the last page, if the limit allows it.    *)
Doubled(prev, max) ==
    LET next == {p \in 2 * prev .. 4 * prev - 1 : PowerOfTwo(p) /\ p <= max}
    IN  IF next = {} THEN max ELSE CHOOSE p \in next : TRUE

WantedSize(arena) ==
    IF arena.tail # -1
    THEN Doubled(pages[arena.tail].end - arena.tail, arena.max_grow_size)
    ELSE IF DefaultPageSize > arena.max_grow_size THEN arena.max_grow_size
    ELSE DefaultPageSize

\* Mutant: room for the header and the object, but none for the padding.
MinPageSizeUnpadded(size, align) == size + HeaderSize

MinPageSize(size, align) == size + Padding(HeaderSize, align) + HeaderSize

GrownSize(arena, size, align) ==
    LET wanted == WantedSize(arena)
        least == MinPageSize(size, align)
    IN  Aligned(IF wanted < least THEN least ELSE wanted, PageAlign)

ShouldGrow(tail, size, align) ==
    tail # -1 => Aligned(pages[tail].current, align) + size > pages[tail].end

-----------------------------------------------------------------------------
(* Operations of an owner                                                   *)

\* Mutant: a limit of zero is kept.
GrowLimitKept(max) == max

GrowLimit(max) == IF max = 0 THEN LargePageSize ELSE max

(* Arena(initial_page_size, max_grow_size).  The constructor ignores what   *)
(* rena_arena_init returns: without memory the arena has no page yet.       *)
Construct(o, initial, max) ==
    LET arena == EmptyArena(GrowLimit(max))
        size == Aligned(initial, PageAlign)
    IN  /\ arenas[o].status = "unborn"
        /\ \/ /\ initial = 0
              /\ arenas' = [arenas EXCEPT ![o] = arena]
              /\ result' = "SUCCESS"
              /\ UNCHANGED pages
           \/ /\ initial > 0
              /\ arenas' = [arenas EXCEPT ![o] = arena]
              /\ result' = "OUT_OF_MEMORY"
              /\ UNCHANGED pages
           \/ \E a \in Places(size) :
              /\ initial > 0
              /\ pages' = [pages EXCEPT ![a] = NewPage(a, size)]
              /\ arenas' = [arenas EXCEPT ![o] = WithPage(arena, a)]
              /\ result' = "SUCCESS"
        /\ UNCHANGED allocations

\* Mutant: current advances by the size, not by the padding.
BumpUnpadded(o, tail, page, size, align) ==
    LET at == Aligned(page.current, align)
        fits == at + size <= page.end
    IN  /\ pages' = [pages EXCEPT ![tail] = [page EXCEPT !.current = @ + size]]
        /\ allocations' =
              IF ~fits THEN allocations
              ELSE allocations \cup
                      {[owner |-> o, page |-> tail, addr |-> at,
                        size |-> size, align |-> align]}
        /\ result' = IF fits THEN "SUCCESS" ELSE "INTERNAL_ERROR"

\* Mutant: the offset in the page is aligned, not the address.
BumpOffset(o, tail, page, size, align) ==
    LET at == tail + Aligned(page.current - tail, align)
        fits == at + size <= page.end
    IN  /\ pages' = [pages EXCEPT ![tail] = [page EXCEPT !.current = at + size]]
        /\ allocations' =
              IF ~fits THEN allocations
              ELSE allocations \cup
                      {[owner |-> o, page |-> tail, addr |-> at,
                        size |-> size, align |-> align]}
        /\ result' = IF fits THEN "SUCCESS" ELSE "INTERNAL_ERROR"

(* Place an object in the tail page, whose fields are page.                 *)
Bump(o, tail, page, size, align) ==
    LET at == Aligned(page.current, align)
        fits == at + size <= page.end
    IN  /\ pages' = [pages EXCEPT ![tail] = [page EXCEPT !.current = at + size]]
        /\ allocations' =
              IF ~fits THEN allocations
              ELSE allocations \cup
                      {[owner |-> o, page |-> tail, addr |-> at,
                        size |-> size, align |-> align]}
        /\ result' = IF fits THEN "SUCCESS" ELSE "INTERNAL_ERROR"

(* alloc of a T, or alloc_array of some.  alloc_array of none asks for size *)
(* zero.  The code allocates from no arena that was moved from.             *)
AllocEmpty(o) ==
    /\ arenas[o].status = "live"
    /\ 0 \in Sizes
    /\ result' = "INVALID_ARGUMENT"
    /\ UNCHANGED <<pages, arenas, allocations>>

AllocInPlace(o, size, align) ==
    /\ arenas[o].status = "live"
    /\ size > 0
    /\ ~ShouldGrow(arenas[o].tail, size, align)
    /\ Bump(o, arenas[o].tail, pages[arenas[o].tail], size, align)
    /\ UNCHANGED arenas

AllocGrow(o, size, align) ==
    LET grown == GrownSize(arenas[o], size, align)
    IN  /\ arenas[o].status = "live"
        /\ size > 0
        /\ ShouldGrow(arenas[o].tail, size, align)
        /\ \E a \in Places(grown) :
              /\ Bump(o, a, NewPage(a, grown), size, align)
              /\ arenas' = [arenas EXCEPT ![o] = WithPage(@, a)]

AllocFail(o, size, align) ==
    /\ arenas[o].status = "live"
    /\ size > 0
    /\ ShouldGrow(arenas[o].tail, size, align)
    /\ result' = "OUT_OF_MEMORY"
    /\ UNCHANGED <<pages, arenas, allocations>>

(* rena_arena_free walks the chain.                                         *)
FreePages(o) == [a \in Addresses |-> IF a \in Chained(o) THEN NoPage ELSE pages[a]]

\* Mutant: the head of the other arena is not set to NULL.
MoveFromAlso(arena) == [arena EXCEPT !.status = "moved"]

(* Arena(Arena &&other).                                                    *)
MoveFrom(arena) == [arena EXCEPT !.status = "moved", !.chain = <<>>]
Rename(o, p, objects) ==
    {[b EXCEPT !.owner = IF @ = o THEN p ELSE @] : b \in objects}

MoveConstruct(o, p) ==
    /\ arenas[o].status = "live"
    /\ arenas[p].status = "unborn"
    /\ arenas' = [arenas EXCEPT ![p] = arenas[o], ![o] = MoveFrom(@)]
    /\ allocations' = Rename(o, p, allocations)
    /\ result' = "SUCCESS"
    /\ UNCHANGED pages

\* Mutant: p's own pages are not freed.
MoveAssignOver(o, p) ==
    /\ o # p
    /\ arenas[o].status = "live"
    /\ arenas[p].status # "unborn"
    /\ arenas' = [arenas EXCEPT ![p] = arenas[o], ![o] = MoveFrom(@)]
    /\ allocations' = Rename(o, p, {b \in allocations : b.owner # p})
    /\ result' = "SUCCESS"
    /\ UNCHANGED pages

\* Mutant: the pages are freed after the assignment, and are o's.
MoveAssignLate(o, p) ==
    /\ o # p
    /\ arenas[o].status = "live"
    /\ arenas[p].status # "unborn"
    /\ pages' = FreePages(o)
    /\ arenas' = [arenas EXCEPT ![p] = arenas[o], ![o] = MoveFrom(@)]
    /\ allocations' = Rename(o, p, {b \in allocations : b.owner # p})
    /\ result' = "SUCCESS"

(* p = std::move(o): p's own pages are freed first.                         *)
MoveAssign(o, p) ==
    /\ o # p
    /\ arenas[o].status = "live"
    /\ arenas[p].status # "unborn"
    /\ pages' = FreePages(p)
    /\ arenas' = [arenas EXCEPT ![p] = arenas[o], ![o] = MoveFrom(@)]
    /\ allocations' = Rename(o, p, {b \in allocations : b.owner # p})
    /\ result' = "SUCCESS"

Destruct(o) ==
    /\ arenas[o].status # "unborn"
    /\ pages' = FreePages(o)
    /\ arenas' = [arenas EXCEPT ![o] = Unborn]
    /\ allocations' = {b \in allocations : b.owner # o}
    /\ result' = "SUCCESS"

-----------------------------------------------------------------------------
Alloc(o, size, align) ==
    \/ AllocInPlace(o, size, align)
    \/ AllocGrow(o, size, align)
    \/ AllocFail(o, size, align)

Next ==
    \E o \in Owners :
       \/ \E initial \in InitialSizes, max \in MaxGrowSizes : Construct(o, initial, max)
       \/ AllocEmpty(o)
       \/ /\ Cardinality(allocations) < MaxAllocations
          /\ \E size \in Sizes, align \in Aligns : Alloc(o, size, align)
       \/ \E p \in Owners : MoveConstruct(o, p) \/ MoveAssign(o, p)
       \/ Destruct(o)

Spec == Init /\ [][Next]_vars

-----------------------------------------------------------------------------
(* Properties                                                               *)

Object == [owner : Owners, page : Addresses, addr : Nat, size : Nat, align : Nat]

(* Every variable has its type.                                             *)
TypeOK ==
    /\ pages \in [Addresses -> [end : Nat, current : Nat]]
    /\ arenas \in [Owners -> Arena]
    /\ allocations \subseteq Object
    /\ result \in {"SUCCESS", "OUT_OF_MEMORY", "INVALID_ARGUMENT", "INTERNAL_ERROR"}

(* An object lies behind the header of a page that its owner still has:     *)
(* no move, assignment or destruction of another arena frees it.            *)
ObjectsInPages ==
    \A b \in allocations :
        /\ b.page \in Live \cap Chained(b.owner)
        /\ b.page + HeaderSize <= b.addr
        /\ b.addr + b.size <= pages[b.page].end

(* No two objects share an address, whatever arenas they came from.         *)
ObjectsDisjoint ==
    \A b, c \in allocations :
        b # c => b.addr + b.size <= c.addr \/ c.addr + c.size <= b.addr

(* An object is aligned in memory, not only within its page.                *)
ObjectsAligned == \A b \in allocations : b.addr % b.align = 0

(* Every live page is reached once, from one head: it will be freed, and    *)
(* freed once.  Growing appends behind the tail, so the tail is the end of  *)
(* the chain.                                                               *)
PagesOwnedOnce ==
    /\ Live = UNION {Chained(o) : o \in Owners}
    /\ \A o, p \in Owners : \A i \in DOMAIN arenas[o].chain, j \in DOMAIN arenas[p].chain :
          arenas[o].chain[i] = arenas[p].chain[j] => o = p /\ i = j
    /\ \A o \in Owners : LET chain == arenas[o].chain IN
          chain # <<>> => arenas[o].tail = chain[Len(chain)]

PageSize(a) == pages[a].end - a

(* "This should never happen if grow logic is correct" (arena.c:155): a     *)
(* page that an arena grows by has room for the object it was grown for.    *)
(* And "pages will double on each grow, up to the max_grow_size limit"      *)
(* (arena.h:46).                                                           *)
GrowthSuffices ==
    /\ result # "INTERNAL_ERROR"
    /\ \A o \in Owners : LET chain == arenas[o].chain IN
          \A i \in 1 .. Len(chain) - 1 :
              \/ PageSize(chain[i + 1]) >= 2 * PageSize(chain[i])
              \/ PageSize(chain[i + 1]) >= arenas[o].max_grow_size
=============================================================================
