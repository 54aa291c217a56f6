------------------------------ MODULE PageAlloc ------------------------------
(***************************************************************************)
(* The page allocator of lab5/pagealloc_another.c: a pool of num_page      *)
(* pages and, before it in the same mapping, two bookkeeping bits per      *)
(* page, taken (which = 0) and last (which = 1), four pages to a byte.     *)
(* page_alloc takes the first run of free pages that is long enough and    *)
(* marks its last page; page_free is given the address of the first page   *)
(* only.                                                                   *)
(*                                                                         *)
(* bookkeep is the set of the bits that are set, a bit being its byte and  *)
(* its index in the byte.  An address is its offset from virtual_pool.     *)
(* blocks is what the user of the allocator holds, the pages each of its   *)
(* pointers stands for; the code has no such variable.  The user gives     *)
(* back what page_alloc returned, once, or an address that no page has.    *)
(***************************************************************************)
EXTENDS Integers, FiniteSets

CONSTANTS
  InitArgs,   (* the arguments of page_init                                *)
  MaxRequest, (* bound: the largest argument of page_alloc                 *)
  Strays,     (* offsets given to page_free that page_alloc never returned *)
  Pointers    (* bound: the pointers in which the user keeps its blocks    *)

PAGE_SIZE == 4096
MaxPages == 2^18

ASSUME ArgsAssumption ==
  /\ InitArgs \subseteq Nat /\ MaxRequest \in Nat /\ Strays \subseteq Nat
  /\ \A a \in Strays : a % PAGE_SIZE # 0 \/ a >= MaxPages * PAGE_SIZE

VARIABLES
  init_flag, num_page,
  mapped,     (* bookkeep is not a null pointer                            *)
  bookkeep,
  blocks      (* the user's pointers: sets of pages, {} for no block       *)

pageVars == <<init_flag, num_page, mapped, bookkeep, blocks>>

taken == 0
last == 1

(* Lines 43-44, 49-50 and 55-56. *)
Bit(page, which) == <<page \div 4, 7 - 2 * (page % 4) - which>>

(* Lines 42-46. *)
test_bit(page, which) == Bit(page, which) \in bookkeep

Bits(pages, which) == { Bit(p, which) : p \in pages }

FirstOf(pages) == CHOOSE p \in pages : \A q \in pages : p <= q
LastOf(pages) == CHOOSE p \in pages : \A q \in pages : q <= p

NoBlocks == [x \in Pointers |-> {}]

PageInit ==
  /\ init_flag = FALSE /\ num_page = 0 /\ mapped = FALSE
  /\ bookkeep = {} /\ blocks = NoBlocks

-----------------------------------------------------------------------------
(* page_init and page_deinit.                                              *)

(* Line 68. *)
ValidSize(pages) == pages \in 2..MaxPages

(* Lines 76-101: the new mapping is all zero. *)
page_init(pages) ==
  /\ ~init_flag /\ ValidSize(pages)
  /\ init_flag' = TRUE /\ num_page' = pages /\ mapped' = TRUE
  /\ bookkeep' = {} /\ blocks' = NoBlocks

(* Lines 76 and 88-89: mmap fails, and num_page was set before.            *)
page_init_fails(pages) ==
  /\ ~init_flag /\ ValidSize(pages)
  /\ num_page' = pages
  /\ UNCHANGED <<init_flag, mapped, bookkeep, blocks>>

(* Lines 104-114. *)
page_deinit ==
  /\ init_flag
  /\ init_flag' = FALSE /\ num_page' = 0 /\ mapped' = FALSE
  /\ bookkeep' = {} /\ blocks' = NoBlocks

-----------------------------------------------------------------------------
(* page_alloc.                                                             *)

NotFound == -1

(* Mutant: one page too many. *)
RunTooLong(i, pages) == i..i + pages
(* Lines 141 and 150: the pages i + j. *)
Run(i, pages) == i..i + pages - 1
TakenIn(bits, run) == { p \in run : Bit(p, taken) \in bits }

(* Lines 139-148. *)
Found(bits, i, pages) == TakenIn(bits, Run(i, pages)) = {}

(* Mutant: the search goes on behind the whole run it has just tested. *)
NextStartBehind(bits, i, pages) == i + pages
(* Lines 145, 162 and 138: the page behind the first taken one. *)
NextStart(bits, i, pages) == 1 + FirstOf(TakenIn(bits, Run(i, pages)))

(* Lines 138-171: where the search for a run of free pages ends. *)
Search(bits, pages) ==
  LET from[i \in 0..num_page] ==
        IF i > num_page - pages THEN NotFound
        ELSE IF Found(bits, i, pages) THEN i
        ELSE from[NextStart(bits, i, pages)]
  IN  from[0]

(* Mutant: last is not cleared in the pages before the last one. *)
StaleLast(run) == {}
(* Lines 153-158: the pages of a new block in which last is cleared. *)
NotLast(run) == { p \in run : p + 1 \in run }

(* Lines 129-134: a request that is refused; lines 150-160: one that is    *)
(* served.  A search that finds nothing changes nothing (line 171).        *)
page_alloc(x, pages) ==
  /\ blocks[x] = {}
  /\ init_flag /\ pages \in 1..num_page
  /\ Search(bookkeep, pages) # NotFound
  /\ LET run == Run(Search(bookkeep, pages), pages)
     IN  /\ bookkeep' = (bookkeep \cup Bits(run, taken) \cup Bits(run, last))
                          \ Bits(NotLast(run), last)
         /\ blocks' = [blocks EXCEPT ![x] = run]
  /\ UNCHANGED <<init_flag, num_page, mapped>>

-----------------------------------------------------------------------------
(* page_free.                                                              *)

(* Line 197: the bit it tests is the one that line 196 has just cleared.   *)
EndOfBlock(p) == Bit(p, taken) \in bookkeep \ {Bit(p, taken)}

(* Mutant: the loop leaves the page at which it starts. *)
FreedButFirst(first) ==
  { p \in first + 1..num_page - 1 : \A q \in first..p : test_bit(q, taken) }
(* Lines 192-201: the pages whose taken bit the loop clears.               *)
PagesFreed(first) ==
  { p \in first..num_page - 1 :
      /\ \A q \in first..p : test_bit(q, taken)
      /\ \A q \in first..p - 1 : ~EndOfBlock(q) }

(* Lines 176-191: the address is that of a page of the pool. *)
ValidAddress(addr) ==
  init_flag /\ addr % PAGE_SIZE = 0 /\ addr \div PAGE_SIZE < num_page

page_free(addr) ==
  /\ LET freed == PagesFreed(addr \div PAGE_SIZE)
     IN  bookkeep' = IF ValidAddress(addr)
                     THEN bookkeep \ ( Bits(freed, taken) \cup
                            Bits({ p \in freed : EndOfBlock(p) }, last) )
                     ELSE bookkeep
  /\ UNCHANGED <<init_flag, num_page, mapped>>

-----------------------------------------------------------------------------

(* The user gives a block back, or hands in an address it never got. *)
FreeBlock(x) ==
  /\ blocks[x] # {}
  /\ page_free(FirstOf(blocks[x]) * PAGE_SIZE)
  /\ blocks' = [blocks EXCEPT ![x] = {}]
FreeStray(addr) == page_free(addr) /\ UNCHANGED blocks

PageNext ==
  \/ \E n \in InitArgs : page_init(n) \/ page_init_fails(n)
  \/ page_deinit
  \/ \E x \in Pointers : \/ \E n \in 0..MaxRequest : page_alloc(x, n)
                         \/ FreeBlock(x)
  \/ \E addr \in Strays : FreeStray(addr)

PageSpec == PageInit /\ [][PageNext]_pageVars

-----------------------------------------------------------------------------
(* Properties.                                                             *)

Pool == 0..num_page - 1

(* Only bits of pages of the pool are ever set, and only in a mapping that *)
(* exists.                                                                 *)
PagesTypeOK ==
  /\ init_flag \in BOOLEAN /\ mapped = init_flag
  /\ num_page \in 0..MaxPages
  /\ bookkeep \subseteq Bits(Pool, taken) \cup Bits(Pool, last)
  /\ bookkeep # {} => mapped
  /\ blocks \in [Pointers -> SUBSET Pool]

TakenPages == TakenIn(bookkeep, Pool)

(* No page leaks: a page that is marked as taken belongs to a block that   *)
(* somebody holds and can still give back.                                 *)
NoLeak == TakenPages \subseteq UNION { blocks[x] : x \in Pointers }

(* The search is exact, for all its skipping: whatever pages are taken, it *)
(* returns the first run of free pages that is long enough, and NULL only  *)
(* if there is none.                                                       *)
SearchExact ==
  init_flag /\ bookkeep = {} =>
    \A used \in SUBSET Pool, n \in 1..num_page :
      LET starts == { i \in 0..num_page - n : Run(i, n) \cap used = {} }
          found == Search(Bits(used, taken), n)
      IN  found = IF starts = {} THEN NotFound ELSE FirstOf(starts)

(* A block that shares no page with another and was not freed under its    *)
(* holder carries the mark of its end in its last page, and nowhere else:  *)
(* what earlier blocks left in the last bits never shows.                  *)
LastMarked ==
  \A x \in Pointers :
    /\ blocks[x] # {} /\ blocks[x] \subseteq TakenPages
    /\ \A y \in Pointers \ {x} : blocks[x] \cap blocks[y] = {}
    => { p \in blocks[x] : test_bit(p, last) } = {LastOf(blocks[x])}

(* "page_free(ptr) will free all three allocated pages" of an allocation   *)
(* of three (Page Allocator.html:598), and no page of a block that is      *)
(* still held.                                                             *)
BlocksStayTaken == \A x \in Pointers : blocks[x] \subseteq TakenPages

=============================================================================
