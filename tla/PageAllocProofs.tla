--------------------------- MODULE PageAllocProofs ---------------------------
(***************************************************************************)
(* Safety of the page allocator for every size of the pool, every number   *)
(* of pointers the user keeps, every request and every stray address.      *)
(***************************************************************************)
EXTENDS PageAlloc, WellFoundedInduction, TLAPS

(* The bookkeeping of a pool that is not mapped stands for no block.       *)
Unmapped == ~init_flag => blocks = NoBlocks

(* A block is a run of pages. *)
Intervals ==
  \A x \in Pointers : blocks[x] # {} =>
    \E a, b \in Pool : a <= b /\ blocks[x] = a..b

(* Pointer x owns page p: the pages of its block up to p are taken, so that *)
(* page_free comes to p when it is given x, and of these only the last page *)
(* of the block carries the mark of the end.                                *)
Owns(x, p) ==
  \E a, b \in Pool :
    /\ blocks[x] = a..b /\ p \in a..b
    /\ \A q \in a..p : test_bit(q, taken) /\ (test_bit(q, last) <=> q = b)

(* What makes NoLeak inductive: blocks may overlap once a block was freed   *)
(* under its holder, but each taken page has a holder who can free it.      *)
Owned == \A p \in Pool : test_bit(p, taken) => \E x \in Pointers : Owns(x, p)

Inv == PagesTypeOK /\ Unmapped /\ Intervals /\ Owned

-----------------------------------------------------------------------------
(* Numbers and runs of pages. *)

(* A set of numbers that is not empty has a least element.                 *)
LEMMA LeastNatural ==
  ASSUME NEW S, S \subseteq Nat, S # {}
  PROVE  \E m \in S : \A k \in S : m <= k
<1>1. IsWellFoundedOn(OpToRel(<, Nat), Nat)
  BY NatLessThanWellFounded
<1>2. PICK m \in S : \A k \in S : <<k, m>> \notin OpToRel(<, Nat)
  BY <1>1, WFMin
<1>3. \A k \in S : ~(k < m)
  BY <1>2 DEF OpToRel
<1> QED
  BY <1>3, SMT

(* FirstOf returns it. *)
LEMMA FirstOfLeast ==
  ASSUME NEW S, S \subseteq Nat, S # {}
  PROVE  FirstOf(S) \in S /\ \A q \in S : FirstOf(S) <= q
BY LeastNatural DEF FirstOf

(* The ends of a run. *)
LEMMA RunEnds ==
  ASSUME NEW a \in Int, NEW b \in Int, a <= b
  PROVE  FirstOf(a..b) = a /\ LastOf(a..b) = b
<1>1. \A p \in a..b : (\A q \in a..b : p <= q) <=> p = a
  BY SMT
<1>2. \A p \in a..b : (\A q \in a..b : q <= p) <=> p = b
  BY SMT
<1>3. a \in a..b /\ b \in a..b
  BY SMT
<1> QED
  BY <1>1, <1>2, <1>3 DEF FirstOf, LastOf

(* The bookkeeping has two bits of its own for each page.                  *)
LEMMA BitInjective ==
  ASSUME NEW p \in Int, NEW q \in Int,
         NEW v \in {taken, last}, NEW w \in {taken, last},
         Bit(p, v) = Bit(q, w)
  PROVE  p = q /\ v = w
BY SMT DEF Bit, taken, last

(* So the bits of a set of pages are those of its pages only.              *)
LEMMA BitsOf ==
  ASSUME NEW pages, pages \subseteq Int, NEW p \in Int,
         NEW v \in {taken, last}, NEW w \in {taken, last}
  PROVE  Bit(p, v) \in Bits(pages, w) <=> v = w /\ p \in pages
<1>1. ASSUME NEW q \in pages, Bit(p, v) = Bit(q, w)
      PROVE  p = q /\ v = w
  BY <1>1, BitInjective
<1> QED
  BY <1>1 DEF Bits

-----------------------------------------------------------------------------
(* The search of page_alloc (SearchExact).                                 *)

(* The first run of pages that is free, from page i on.                    *)
FirstFit(bits, i, pages) ==
  LET starts == { j \in i..num_page - pages : Found(bits, j, pages) }
  IN  IF starts = {} THEN NotFound ELSE FirstOf(starts)

(* Behind a taken page in the run the search has come to: no free run      *)
(* begins before, because it would contain that page.                      *)
LEMMA NextStartSkips ==
  ASSUME NEW bits, num_page \in Nat, NEW pages \in Nat \ {0},
         NEW i \in 0..num_page - pages, ~Found(bits, i, pages)
  PROVE  /\ NextStart(bits, i, pages) \in i + 1..num_page
         /\ FirstFit(bits, i, pages) = FirstFit(bits, NextStart(bits, i, pages), pages)
<1> DEFINE p == FirstOf(TakenIn(bits, Run(i, pages)))
<1>1. p \in i..i + pages - 1 /\ Bit(p, taken) \in bits
  <2>1. TakenIn(bits, Run(i, pages)) # {} /\ TakenIn(bits, Run(i, pages)) \subseteq Nat
    BY DEF Found, TakenIn, Run
  <2>2. p \in TakenIn(bits, Run(i, pages))
    BY <2>1, FirstOfLeast
  <2> QED
    BY <2>2 DEF TakenIn, Run
<1> HIDE DEF p
<1>2. NextStart(bits, i, pages) = p + 1
  BY <1>1 DEF NextStart, p
<1>3. ASSUME NEW j \in i..num_page - pages, Found(bits, j, pages)
      PROVE  j \in p + 1..num_page - pages
  <2>1. p \notin j..j + pages - 1
    BY <1>1, <1>3 DEF Found, TakenIn, Run
  <2> QED
    BY <1>1, <2>1
<1>4. { j \in i..num_page - pages : Found(bits, j, pages) }
        = { j \in p + 1..num_page - pages : Found(bits, j, pages) }
  BY <1>1, <1>3
<1> QED
  BY <1>1, <1>2, <1>4 DEF FirstFit

(* The loop of page_alloc returns the first fit from page 0 on: the        *)
(* recursion is well defined, the first fit satisfies its equation, and no *)
(* other function does, or there would be a last page where they differ.   *)
LEMMA SearchIsFirstFit ==
  ASSUME NEW bits, num_page \in Nat, NEW pages \in Nat \ {0}
  PROVE  Search(bits, pages) = FirstFit(bits, 0, pages)
<1> DEFINE Step(f) == [i \in 0..num_page |->
                        IF i > num_page - pages THEN NotFound
                        ELSE IF Found(bits, i, pages) THEN i
                        ELSE f[NextStart(bits, i, pages)]]
           from == CHOOSE f : f = Step(f)
           fit == [i \in 0..num_page |-> FirstFit(bits, i, pages)]
<1>1. Search(bits, pages) = from[0]
  BY DEF Search
<1>2. \A i \in 0..num_page : i <= num_page - pages /\ ~Found(bits, i, pages) =>
        /\ NextStart(bits, i, pages) \in 0..num_page
        /\ NextStart(bits, i, pages) > i
        /\ fit[NextStart(bits, i, pages)] = fit[i]
  BY NextStartSkips
<1>3. ASSUME NEW i \in 0..num_page, i > num_page - pages
      PROVE  fit[i] = NotFound
  BY <1>3 DEF FirstFit
<1>4. ASSUME NEW i \in 0..num_page, i <= num_page - pages, Found(bits, i, pages)
      PROVE  fit[i] = i
  <2> DEFINE starts == { j \in i..num_page - pages : Found(bits, j, pages) }
  <2>1. i \in starts /\ starts \subseteq Nat /\ \A j \in starts : i <= j
    BY <1>4
  <2>2. FirstOf(starts) \in starts /\ FirstOf(starts) <= i
    BY <2>1, FirstOfLeast
  <2>3. FirstOf(starts) = i
    BY <2>1, <2>2
  <2> QED
    BY <2>1, <2>3 DEF FirstFit
<1>5. fit = Step(fit)
  <2>1. ASSUME NEW i \in 0..num_page
        PROVE  fit[i] = Step(fit)[i]
    BY <1>2, <1>3, <1>4
  <2> QED
    BY <2>1
<1>6. from = Step(from)
  BY <1>5
<1> HIDE DEF from, fit
<1>7. ASSUME NEW i \in 0..num_page, from[i] # fit[i]
      PROVE  FALSE
  <2> DEFINE wrong == { k \in 0..num_page : from[num_page - k] # fit[num_page - k] }
  <2>1. num_page - i \in wrong /\ wrong \subseteq Nat
    BY <1>7
  <2>2. PICK k \in wrong : \A n \in wrong : k <= n
    BY <2>1, LeastNatural
  <2> DEFINE j == num_page - k
  <2>3. j \in 0..num_page /\ from[j] # fit[j]
    BY <2>2
  <2>4. \A n \in 0..num_page : n > j => from[n] = fit[n]
    <3>1. ASSUME NEW n \in 0..num_page, n > j, from[n] # fit[n]
          PROVE  FALSE
      <4>1. num_page - n \in wrong
        <5>1. num_page - (num_page - n) = n
          OBVIOUS
        <5> QED
          BY <3>1, <5>1
      <4> QED
        BY <2>2, <3>1, <4>1
    <3> QED
      BY <3>1
  <2> HIDE DEF j
  <2>5. from[j] = Step(from)[j] /\ fit[j] = Step(fit)[j]
    BY <1>5, <1>6
  <2>6. Step(from)[j] = Step(fit)[j]
    BY <1>2, <2>3, <2>4
  <2> QED
    BY <2>3, <2>5, <2>6
<1>8. from[0] = fit[0]
  BY <1>7
<1> QED
  BY <1>1, <1>8 DEF fit

(* What the search returns is a free run of the pool. *)
LEMMA SearchFinds ==
  ASSUME NEW bits, num_page \in Nat, NEW pages \in 1..num_page,
         Search(bits, pages) # NotFound
  PROVE  /\ Search(bits, pages) \in 0..num_page - pages
         /\ Found(bits, Search(bits, pages), pages)
<1> DEFINE starts == { j \in 0..num_page - pages : Found(bits, j, pages) }
<1>1. Search(bits, pages) = FirstFit(bits, 0, pages)
  BY SearchIsFirstFit
<1>2. starts # {} /\ Search(bits, pages) = FirstOf(starts)
  BY <1>1 DEF FirstFit
<1>3. FirstOf(starts) \in starts
  BY <1>2, FirstOfLeast
<1> QED
  BY <1>2, <1>3

(* SearchExact holds in every state whose pool has a size. *)
LEMMA SearchIsExact ==
  ASSUME num_page \in Nat
  PROVE  SearchExact
<1> SUFFICES ASSUME NEW used \in SUBSET Pool, NEW n \in 1..num_page
             PROVE  LET starts == { i \in 0..num_page - n : Run(i, n) \cap used = {} }
                        found == Search(Bits(used, taken), n)
                    IN  found = IF starts = {} THEN NotFound ELSE FirstOf(starts)
  BY Zenon DEF SearchExact
<1> DEFINE bits == Bits(used, taken)
<1>1. ASSUME NEW i \in 0..num_page - n
      PROVE  Found(bits, i, n) <=> Run(i, n) \cap used = {}
  <2>1. \A p \in Run(i, n) : Bit(p, taken) \in bits <=> p \in used
    <3>1. used \subseteq Int /\ Run(i, n) \subseteq Int
      BY DEF Pool, Run
    <3> QED
      BY <3>1, BitsOf
  <2> QED
    BY <2>1 DEF Found, TakenIn
<1>2. { i \in 0..num_page - n : Found(bits, i, n) }
        = { i \in 0..num_page - n : Run(i, n) \cap used = {} }
  BY <1>1
<1>3. Search(bits, n) = FirstFit(bits, 0, n)
  BY SearchIsFirstFit
<1> QED
  BY <1>2, <1>3, Zenon DEF FirstFit

-----------------------------------------------------------------------------
(* Each step preserves the invariant. *)

LEMMA InitInv == PageInit => Inv
<1> SUFFICES ASSUME PageInit PROVE Inv
  OBVIOUS
<1>1. 0 \in 0..MaxPages
  BY DEF MaxPages
<1>2. PagesTypeOK
  BY <1>1 DEF PageInit, PagesTypeOK, NoBlocks
<1>3. Unmapped /\ Intervals
  BY DEF PageInit, Unmapped, Intervals, NoBlocks
<1>4. Owned
  BY DEF PageInit, Owned, test_bit
<1> QED
  BY <1>2, <1>3, <1>4 DEF Inv

(* page_init with a new mapping. *)
LEMMA PageInitInv ==
  ASSUME Inv, NEW n \in InitArgs, page_init(n)
  PROVE  Inv'
<1>1. num_page' \in 0..MaxPages
  BY DEF page_init, ValidSize, MaxPages
<1>2. PagesTypeOK'
  BY <1>1 DEF page_init, PagesTypeOK, NoBlocks
<1>3. Unmapped' /\ Intervals'
  BY DEF page_init, Unmapped, Intervals, NoBlocks
<1>4. Owned'
  BY DEF page_init, Owned, test_bit
<1> QED
  BY <1>2, <1>3, <1>4 DEF Inv

(* page_init without one: no block is held, whatever num_page says now.    *)
LEMMA PageInitFailsInv ==
  ASSUME Inv, NEW n \in InitArgs, page_init_fails(n)
  PROVE  Inv'
<1>1. num_page' \in 0..MaxPages
  BY DEF page_init_fails, ValidSize, MaxPages
<1>2. bookkeep' = {} /\ blocks' = NoBlocks
  BY DEF Inv, PagesTypeOK, Unmapped, page_init_fails
<1>3. PagesTypeOK'
  BY <1>1, <1>2 DEF Inv, PagesTypeOK, page_init_fails, NoBlocks
<1>4. Unmapped' /\ Intervals'
  BY <1>2 DEF Unmapped, Intervals, NoBlocks
<1>5. Owned'
  BY <1>2 DEF Owned, test_bit
<1> QED
  BY <1>3, <1>4, <1>5 DEF Inv

LEMMA PageDeinitInv ==
  ASSUME Inv, page_deinit
  PROVE  Inv'
<1>1. 0 \in 0..MaxPages
  BY DEF MaxPages
<1>2. PagesTypeOK'
  BY <1>1 DEF page_deinit, PagesTypeOK, NoBlocks
<1>3. Unmapped' /\ Intervals'
  BY DEF page_deinit, Unmapped, Intervals, NoBlocks
<1>4. Owned'
  BY DEF page_deinit, Owned, test_bit
<1> QED
  BY <1>2, <1>3, <1>4 DEF Inv

(* What page_alloc does to the bits: the new block is taken and carries the *)
(* mark in its last page only; the other pages keep their bits.            *)
LEMMA AllocBits ==
  ASSUME Inv, NEW x \in Pointers, NEW pages, page_alloc(x, pages)
  PROVE  \E a, b \in Pool :
           /\ a <= b
           /\ blocks' = [blocks EXCEPT ![x] = a..b]
           /\ bookkeep' \subseteq Bits(Pool, taken) \cup Bits(Pool, last)
           /\ \A p \in a..b : /\ ~test_bit(p, taken) /\ test_bit(p, taken)'
                              /\ test_bit(p, last)' <=> p = b
           /\ \A p \in Pool \ (a..b) : /\ test_bit(p, taken)' <=> test_bit(p, taken)
                                       /\ test_bit(p, last)' <=> test_bit(p, last)
<1> DEFINE a == Search(bookkeep, pages)
           b == a + pages - 1
           run == a..b
<1>1. /\ num_page \in Nat /\ pages \in 1..num_page
      /\ a # NotFound /\ Run(a, pages) = run
      /\ bookkeep' = (bookkeep \cup Bits(run, taken) \cup Bits(run, last))
                        \ Bits(NotLast(run), last)
      /\ blocks' = [blocks EXCEPT ![x] = run]
  BY DEF Inv, PagesTypeOK, page_alloc, Run
<1>2. a \in 0..num_page - pages /\ TakenIn(bookkeep, run) = {}
  BY <1>1, SearchFinds DEF Found
<1> HIDE DEF a
<1>3. /\ a \in Pool /\ b \in Pool /\ a \in Int /\ b \in Int /\ a <= b
      /\ run \subseteq Pool /\ Pool \subseteq Int
  BY <1>1, <1>2 DEF Pool
<1>4. \A p \in run : p \in NotLast(run) <=> p # b
  <2> HIDE DEF b
  <2> QED
    BY <1>3 DEF NotLast
<1>5. NotLast(run) \subseteq run
  BY DEF NotLast
<1> HIDE DEF b, run
<1>6. ASSUME NEW p \in Pool
      PROVE  /\ Bit(p, taken) \in bookkeep' <=> Bit(p, taken) \in bookkeep \/ p \in run
             /\ Bit(p, last) \in bookkeep'
                  <=> (Bit(p, last) \in bookkeep \/ p \in run) /\ p \notin NotLast(run)
  <2>1. run \subseteq Int /\ NotLast(run) \subseteq Int /\ p \in Int
    BY <1>3, <1>5, Zenon
  <2>0. taken # last
    BY DEF taken, last
  <2>2. /\ Bit(p, taken) \in Bits(run, taken) <=> p \in run
        /\ Bit(p, taken) \notin Bits(run, last)
        /\ Bit(p, taken) \notin Bits(NotLast(run), last)
        /\ Bit(p, last) \notin Bits(run, taken)
        /\ Bit(p, last) \in Bits(run, last) <=> p \in run
        /\ Bit(p, last) \in Bits(NotLast(run), last) <=> p \in NotLast(run)
    BY <2>0, <2>1, BitsOf
  <2> QED
    BY <1>1, <2>2
<1>7. bookkeep' \subseteq Bits(Pool, taken) \cup Bits(Pool, last)
  <2>1. Bits(run, taken) \subseteq Bits(Pool, taken) /\ Bits(run, last) \subseteq Bits(Pool, last)
    BY <1>3 DEF Bits
  <2> QED
    BY <1>1, <2>1 DEF Inv, PagesTypeOK
<1>8. \A p \in run : Bit(p, taken) \notin bookkeep
  BY <1>2 DEF TakenIn
<1>9. run = a..b
  BY DEF run
<1>10. \A p \in run : /\ ~test_bit(p, taken) /\ test_bit(p, taken)'
                      /\ test_bit(p, last)' <=> p = b
  BY <1>3, <1>4, <1>6, <1>8 DEF test_bit
<1>11. \A p \in Pool \ run : /\ test_bit(p, taken)' <=> test_bit(p, taken)
                             /\ test_bit(p, last)' <=> test_bit(p, last)
  BY <1>5, <1>6 DEF test_bit
<1> QED
  BY <1>1, <1>3, <1>7, <1>9, <1>10, <1>11

(* page_alloc: the new block owns its pages; it was found where nothing is *)
(* taken, so nobody else's pages change.                                   *)
LEMMA PageAllocInv ==
  ASSUME Inv, NEW x \in Pointers, NEW pages, page_alloc(x, pages)
  PROVE  Inv'
<1>1. PICK a \in Pool, b \in Pool :
           /\ a <= b
           /\ blocks' = [blocks EXCEPT ![x] = a..b]
           /\ bookkeep' \subseteq Bits(Pool, taken) \cup Bits(Pool, last)
           /\ \A p \in a..b : /\ ~test_bit(p, taken) /\ test_bit(p, taken)'
                              /\ test_bit(p, last)' <=> p = b
           /\ \A p \in Pool \ (a..b) : /\ test_bit(p, taken)' <=> test_bit(p, taken)
                                       /\ test_bit(p, last)' <=> test_bit(p, last)
  BY AllocBits
<1>2. /\ blocks[x] = {} /\ init_flag /\ Pool' = Pool
      /\ UNCHANGED <<init_flag, num_page, mapped>>
      /\ num_page \in Nat /\ blocks \in [Pointers -> SUBSET Pool]
  BY DEF Inv, PagesTypeOK, page_alloc, Pool
<1>3. a..b \subseteq Pool /\ Pool \subseteq Int
  BY <1>2 DEF Pool
<1>4. PagesTypeOK'
  BY <1>1, <1>2, <1>3 DEF Inv, PagesTypeOK
<1>5. Unmapped'
  BY <1>2 DEF Unmapped
<1>6. Intervals'
  BY <1>1, <1>2 DEF Inv, Intervals
<1>7. Owned'
  <2>1. ASSUME NEW p \in a..b
        PROVE  Owns(x, p)'
    <3>1. blocks'[x] = a..b
      BY <1>1, <1>2
    <3>2. \A q \in a..p : q \in a..b
      BY <1>3, <2>1
    <3>3. \A q \in a..p : test_bit(q, taken)' /\ (test_bit(q, last)' <=> q = b)
      BY <1>1, <3>2
    <3> QED
      BY <1>2, <2>1, <3>1, <3>3 DEF Owns
  <2>2. ASSUME NEW p \in Pool, p \notin a..b, test_bit(p, taken)'
        PROVE  \E y \in Pointers : Owns(y, p)'
    <3>1. test_bit(p, taken)
      BY <1>1, <2>2
    <3>2. PICK y \in Pointers : Owns(y, p)
      BY <2>2, <3>1 DEF Inv, Owned
    <3>3. PICK c \in Pool, d \in Pool :
            /\ blocks[y] = c..d /\ p \in c..d
            /\ \A q \in c..p : test_bit(q, taken) /\ (test_bit(q, last) <=> q = d)
      BY <3>2 DEF Owns
    <3>4. y # x /\ blocks'[y] = c..d
      BY <1>1, <1>2, <3>3
    <3>5. \A q \in c..p : q \in Pool \ (a..b)
      <4>1. \A q \in c..p : q \in Pool
        BY <1>2, <2>2, <3>3 DEF Pool
      <4> QED
        BY <1>1, <3>3, <4>1
    <3>6. \A q \in c..p : test_bit(q, taken)' /\ (test_bit(q, last)' <=> q = d)
      BY <1>1, <3>3, <3>5
    <3> QED
      BY <1>2, <3>3, <3>4, <3>6 DEF Owns
  <2> QED
    BY <1>2, <2>1, <2>2 DEF Owned
<1> QED
  BY <1>4, <1>5, <1>6, <1>7 DEF Inv


(* What page_free does with the address of page a, whether a block begins   *)
(* there or not: the taken pages from a on are free, up to the first that   *)
(* was free already; the end of the block is never recognised, because      *)
(* EndOfBlock looks at the bit that was just cleared.                      *)
LEMMA FreeBits ==
  ASSUME Inv, NEW a \in Pool, init_flag, page_free(a * PAGE_SIZE)
  PROVE  /\ bookkeep' \subseteq bookkeep
         /\ UNCHANGED <<init_flag, num_page, mapped>>
         /\ \A p \in Pool : /\ test_bit(p, last)' <=> test_bit(p, last)
                            /\ test_bit(p, taken)'
                                 <=> /\ test_bit(p, taken)
                                     /\ ~(p >= a /\ \A q \in a..p : test_bit(q, taken))
<1> DEFINE freed == { p \in a..num_page - 1 : \A q \in a..p : test_bit(q, taken) }
<1>1. num_page \in Nat /\ a \in Nat /\ a < num_page /\ Pool = 0..num_page - 1
  BY DEF Inv, PagesTypeOK, Pool
<1>2. (a * PAGE_SIZE) \div PAGE_SIZE = a /\ (a * PAGE_SIZE) % PAGE_SIZE = 0
  BY <1>1 DEF PAGE_SIZE
<1>3. ValidAddress(a * PAGE_SIZE)
  BY <1>1, <1>2 DEF ValidAddress
<1>4. \A p : ~EndOfBlock(p)
  BY DEF EndOfBlock
<1>5. PagesFreed(a) = freed
  BY <1>4 DEF PagesFreed
<1>6. { p \in freed : EndOfBlock(p) } = {}
  BY <1>4
<1>7. bookkeep' = bookkeep \ Bits(freed, taken)
  <2>1. Bits({}, last) = {}
    BY DEF Bits
  <2>2. bookkeep' = bookkeep \ (Bits(freed, taken) \cup Bits({ p \in freed : EndOfBlock(p) }, last))
    BY <1>2, <1>3, <1>5 DEF page_free
  <2> QED
    BY <1>6, <2>1, <2>2
<1>8. freed \subseteq Int
  BY <1>1
<1>9. \A p \in Pool : p \in freed <=> p >= a /\ \A q \in a..p : test_bit(q, taken)
  BY <1>1
<1> HIDE DEF freed
<1>10. ASSUME NEW p \in Pool
       PROVE  /\ test_bit(p, last)' <=> test_bit(p, last)
              /\ test_bit(p, taken)' <=> test_bit(p, taken) /\ p \notin freed
  <2>1. p \in Int
    BY <1>1
  <2>2. taken # last
    BY DEF taken, last
  <2>3. /\ Bit(p, taken) \in Bits(freed, taken) <=> p \in freed
        /\ Bit(p, last) \notin Bits(freed, taken)
    BY <1>8, <2>1, <2>2, BitsOf
  <2> QED
    BY <1>7, <2>3 DEF test_bit
<1> QED
  BY <1>7, <1>9, <1>10 DEF page_free

(* A block is given back, perhaps one that was freed under its holder in    *)
(* part: a page that stays taken has another owner, whose pages stay taken  *)
(* because the free stopped at a free page before them.                    *)
LEMMA FreeBlockInv ==
  ASSUME Inv, NEW x \in Pointers, FreeBlock(x)
  PROVE  Inv'
<1>1. PICK a \in Pool, b \in Pool : a <= b /\ blocks[x] = a..b
  BY DEF Inv, Intervals, FreeBlock
<1>2. /\ num_page \in Nat /\ Pool = 0..num_page - 1
      /\ blocks \in [Pointers -> SUBSET Pool]
      /\ blocks' = [blocks EXCEPT ![x] = {}]
  BY DEF Inv, PagesTypeOK, FreeBlock, Pool
<1>3. init_flag
  BY DEF Inv, Unmapped, NoBlocks, FreeBlock
<1>4. FirstOf(blocks[x]) = a
  BY <1>1, <1>2, RunEnds
<1>5. /\ bookkeep' \subseteq bookkeep
      /\ UNCHANGED <<init_flag, num_page, mapped>>
      /\ \A p \in Pool : /\ test_bit(p, last)' <=> test_bit(p, last)
                         /\ test_bit(p, taken)'
                              <=> /\ test_bit(p, taken)
                                  /\ ~(p >= a /\ \A q \in a..p : test_bit(q, taken))
  BY <1>3, <1>4, FreeBits DEF FreeBlock
<1>6. Pool' = Pool
  BY <1>5 DEF Pool
<1>7. PagesTypeOK'
  BY <1>2, <1>3, <1>5, <1>6 DEF Inv, PagesTypeOK
<1>8. Unmapped'
  BY <1>3, <1>5 DEF Unmapped
<1>9. Intervals'
  BY <1>2, <1>6 DEF Inv, Intervals
<1>10. Owned'
  <2> SUFFICES ASSUME NEW p \in Pool, test_bit(p, taken)'
               PROVE  \E y \in Pointers : Owns(y, p)'
    BY <1>6 DEF Owned
  <2>1. test_bit(p, taken) /\ ~(p >= a /\ \A q \in a..p : test_bit(q, taken))
    BY <1>5
  <2>2. PICK y \in Pointers : Owns(y, p)
    BY <2>1 DEF Inv, Owned
  <2>3. PICK c \in Pool, d \in Pool :
          /\ blocks[y] = c..d /\ p \in c..d
          /\ \A q \in c..p : test_bit(q, taken) /\ (test_bit(q, last) <=> q = d)
    BY <2>2 DEF Owns
  <2>4. y # x
    <3> SUFFICES ASSUME y = x PROVE FALSE
      OBVIOUS
    <3>1. a..b = c..d /\ a \in Int /\ b \in Int /\ c \in Int /\ d \in Int
      BY <1>1, <1>2, <2>3
    <3>2. a = c
      BY <3>1, <1>1, RunEnds, <2>3
    <3> QED
      BY <2>1, <2>3, <3>1, <3>2
  <2>5. ASSUME NEW q \in c..p
        PROVE  q \in Pool /\ test_bit(q, taken)'
    <3>1. q \in Pool
      BY <1>2, <2>3
    <3>2. CASE q >= a /\ \A r \in a..q : test_bit(r, taken)
      <4>1. \A r \in a..p : r \in a..q \/ r \in c..p
        BY <1>2, <2>3, <3>1
      <4>2. p >= a /\ \A r \in a..p : test_bit(r, taken)
        BY <1>2, <2>3, <3>1, <3>2, <4>1
      <4> QED
        BY <2>1, <4>2
    <3>3. CASE ~(q >= a /\ \A r \in a..q : test_bit(r, taken))
      BY <1>5, <2>3, <3>1, <3>3
    <3> QED
      BY <3>1, <3>2, <3>3
  <2>6. \A q \in c..p : test_bit(q, taken)' /\ (test_bit(q, last)' <=> q = d)
    BY <1>5, <2>3, <2>5
  <2>7. blocks'[y] = c..d
    BY <1>2, <2>3, <2>4
  <2> QED
    BY <1>6, <2>3, <2>6, <2>7 DEF Owns
<1> QED
  BY <1>7, <1>8, <1>9, <1>10 DEF Inv

(* An address that no page has changes nothing. *)
LEMMA FreeStrayInv ==
  ASSUME Inv, NEW addr \in Strays, FreeStray(addr)
  PROVE  UNCHANGED pageVars
<1>1. /\ addr \in Nat
      /\ addr % PAGE_SIZE # 0 \/ addr >= MaxPages * PAGE_SIZE
  BY ArgsAssumption
<1>2. num_page \in 0..MaxPages
  BY DEF Inv, PagesTypeOK
<1>3. ~ValidAddress(addr)
  <2>1. MaxPages \in Nat
    BY DEF MaxPages
  <2> QED
    BY <1>1, <1>2, <2>1 DEF ValidAddress, PAGE_SIZE
<1> QED
  BY <1>3 DEF FreeStray, page_free, pageVars

LEMMA SameInv ==
  ASSUME Inv, UNCHANGED pageVars
  PROVE  Inv'
<1>1. Pool' = Pool /\ \A x, p : Owns(x, p)' <=> Owns(x, p)
  BY DEF pageVars, Pool, Owns, test_bit
<1>2. PagesTypeOK' /\ Unmapped' /\ Intervals'
  BY <1>1 DEF Inv, PagesTypeOK, Unmapped, Intervals, pageVars
<1>3. Owned'
  BY <1>1 DEF Inv, Owned, pageVars, test_bit
<1> QED
  BY <1>2, <1>3 DEF Inv

LEMMA NextInv ==
  ASSUME Inv, [PageNext]_pageVars
  PROVE  Inv'
<1>1. CASE \E n \in InitArgs : page_init(n) \/ page_init_fails(n)
  BY <1>1, PageInitInv, PageInitFailsInv
<1>2. CASE page_deinit
  BY <1>2, PageDeinitInv
<1>3. ASSUME NEW x \in Pointers, NEW n \in 0..MaxRequest, page_alloc(x, n)
      PROVE  Inv'
  BY <1>3, PageAllocInv
<1>4. ASSUME NEW x \in Pointers, FreeBlock(x)
      PROVE  Inv'
  BY <1>4, FreeBlockInv
<1>5. ASSUME NEW addr \in Strays, FreeStray(addr)
      PROVE  Inv'
  BY <1>5, FreeStrayInv, SameInv
<1>6. CASE UNCHANGED pageVars
  BY <1>6, SameInv
<1> QED
  BY <1>1, <1>2, <1>3, <1>4, <1>5, <1>6 DEF PageNext

-----------------------------------------------------------------------------
(* The theorems. *)

LEMMA InvAlways == PageSpec => []Inv
<1>1. Inv /\ [PageNext]_pageVars => Inv'
  BY NextInv
<1> QED
  BY InitInv, <1>1, PTL DEF PageSpec

(* Only bits of pages of the pool are ever set, and only while it is       *)
(* mapped; what the user holds are pages of the pool (page_init,           *)
(* page_deinit, page_alloc, page_free).                                    *)
THEOREM TypeCorrect == PageSpec => []PagesTypeOK
<1>1. Inv => PagesTypeOK
  BY DEF Inv
<1> QED
  BY InvAlways, <1>1, PTL

(* No sequence of calls leaks a page, although page_free frees more than   *)
(* its block: a page marked as taken belongs to a block that is held.      *)
THEOREM NoPageLeaks == PageSpec => []NoLeak
<1>1. Inv => NoLeak
  <2> SUFFICES ASSUME Inv, NEW p \in TakenPages
               PROVE  \E x \in Pointers : p \in blocks[x]
    BY DEF NoLeak
  <2>1. p \in Pool /\ test_bit(p, taken)
    BY DEF TakenPages, TakenIn, test_bit
  <2>2. PICK x \in Pointers : Owns(x, p)
    BY <2>1 DEF Inv, Owned
  <2> QED
    BY <2>2 DEF Owns
<1> QED
  BY InvAlways, <1>1, PTL

(* The search of page_alloc is exact for every pool, whatever is taken and *)
(* however many pages are asked for.                                       *)
THEOREM SearchAlwaysExact == PageSpec => []SearchExact
<1>1. PagesTypeOK => SearchExact
  BY SearchIsExact DEF PagesTypeOK
<1> QED
  BY TypeCorrect, <1>1, PTL

(* A block that nobody has freed or overlapped carries the mark of its end *)
(* in its last page and nowhere else.                                      *)
THEOREM LastPageMarked == PageSpec => []LastMarked
<1>1. Inv => LastMarked
  <2> SUFFICES ASSUME Inv, NEW x \in Pointers,
                      blocks[x] # {}, blocks[x] \subseteq TakenPages,
                      \A y \in Pointers \ {x} : blocks[x] \cap blocks[y] = {}
               PROVE  { p \in blocks[x] : test_bit(p, last) } = {LastOf(blocks[x])}
    BY DEF LastMarked
  <2>1. PICK a \in Pool, b \in Pool : a <= b /\ blocks[x] = a..b
    BY DEF Inv, Intervals
  <2>2. a \in Int /\ b \in Int /\ b \in a..b
    BY <2>1 DEF Inv, PagesTypeOK, Pool
  <2>3. LastOf(blocks[x]) = b
    BY <2>1, <2>2, RunEnds
  <2>4. test_bit(b, taken)
    BY <2>1, <2>2 DEF TakenPages, TakenIn, test_bit
  <2>5. PICK y \in Pointers : Owns(y, b)
    BY <2>4 DEF Inv, Owned
  <2>6. y = x
    BY <2>1, <2>2, <2>5 DEF Owns
  <2>7. PICK c \in Pool, d \in Pool :
          /\ blocks[x] = c..d /\ b \in c..d
          /\ \A q \in c..b : test_bit(q, last) <=> q = d
    BY <2>5, <2>6 DEF Owns
  <2>8. c = a /\ d = b
    <3>1. c \in Int /\ d \in Int /\ c <= d /\ a..b = c..d
      BY <2>1, <2>7 DEF Inv, PagesTypeOK, Pool
    <3> QED
      BY <2>1, <2>2, <3>1, RunEnds
  <2> QED
    BY <2>1, <2>2, <2>3, <2>7, <2>8
<1> QED
  BY InvAlways, <1>1, PTL

=============================================================================
