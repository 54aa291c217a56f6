---------------------------- MODULE VectorStore ----------------------------
(***************************************************************************)
(* The vectors of src/cs360/cc/ps/vector_lab, in the version of vector.c   *)
(* and in that of vector_correct.c, under the commands of main.c.  values  *)
(* is the block of memory as it was allocated; memory that nobody has      *)
(* written holds anything.  A write outside the block is recorded in       *)
(* overrun and ends the behaviour: what the program does then is undefined.*)
(***************************************************************************)
EXTENDS Integers, Sequences, SequencesExt, FiniteSetsExt, TLC

CONSTANTS VectorVersions,  \* subset of {"vector", "correct"}
          Elem,            \* the int64_t values
          MaxSize          \* bound: the size and the capacity callers ask for

ASSUME VectorAssumption == Elem \subseteq Int /\ Elem # {} /\ MaxSize \in Nat

VARIABLES vecVersion,
          held,       \* there is a vector
          values, vsize, vcapacity,
          overrun,
          vecCall, vecAnswer   \* the last call and what it returned

vec     == <<held, values, vsize, vcapacity, overrun>>
vecVars == <<vecVersion, vec, vecCall, vecAnswer>>

NoCommand == [op |-> "none", i |-> 0, v |-> 0, s |-> <<>>]

VectorInit ==
  /\ vecVersion \in VectorVersions
  /\ held = FALSE /\ values = <<>> /\ vsize = 0 /\ vcapacity = 0 /\ overrun = FALSE
  /\ vecCall = NoCommand /\ vecAnswer = <<>>

\* A call of a function on a vector, and its result.
Command(op, i, v, result) ==
  /\ held /\ ~overrun
  /\ vecCall' = [op |-> op, i |-> i, v |-> v, s |-> <<>>]
  /\ vecAnswer' = result
  /\ UNCHANGED <<vecVersion, held>>

In(version) == vecVersion = version

\* The blocks realloc may return for n elements.
Realloc(n) ==
  IF n <= Len(values) THEN {SubSeq(values, 1, n)}
  ELSE {values \o new : new \in [1..(n - Len(values)) -> Elem]}

\* values = block, capacity = its length, size = n.
Becomes(block, n) ==
  values' = block /\ vcapacity' = Len(block) /\ vsize' = n /\ UNCHANGED overrun

\* A store at index i of the block, after which the size is n.
Store(block, i, v, n) ==
  IF i < Len(block) THEN Becomes([block EXCEPT ![i + 1] = v], n)
  ELSE overrun' = TRUE /\ UNCHANGED <<values, vsize, vcapacity>>

-----------------------------------------------------------------------------
(* Creation and release. *)

New(n) ==
  /\ ~held
  /\ held' = TRUE
  /\ \E block \in [1..n -> Elem] : Becomes(block, 0)
  /\ vecCall' = [NoCommand EXCEPT !.op = "new"] /\ vecAnswer' = <<>>
  /\ UNCHANGED vecVersion

VectorNew(n)  == In("vector") /\ New(n)
CorrectNew(n) == In("correct") /\ New(n)

\* vector.c returns NULL when there is no memory.
VectorNewFails ==
  /\ In("vector") /\ ~held
  /\ vecCall' = [NoCommand EXCEPT !.op = "new"] /\ vecAnswer' = <<>>
  /\ UNCHANGED <<vecVersion, vec>>

Release ==
  /\ held /\ ~overrun
  /\ held' = FALSE
  /\ values' = <<>> /\ vsize' = 0 /\ vcapacity' = 0
  /\ vecCall' = [NoCommand EXCEPT !.op = "free"] /\ vecAnswer' = <<>>
  /\ UNCHANGED <<vecVersion, overrun>>

VectorFree  == In("vector") /\ Release
CorrectFree == In("correct") /\ Release

-----------------------------------------------------------------------------
(* Adding elements.  vector.c doubles the capacity. *)

Doubled == IF vcapacity = 0 THEN 1 ELSE 2 * vcapacity

\* A slip to catch: the block grows only when it is too late.
VectorRoomLate == IF vsize > vcapacity THEN Realloc(Doubled) ELSE {values}

\* The block with room for one more element.
VectorRoom == IF vsize = vcapacity THEN Realloc(Doubled) ELSE {values}

VectorPush(v) ==
  /\ In("vector") /\ Command("push", 0, v, <<>>)
  /\ \E block \in VectorRoom : Store(block, vsize, v, vsize + 1)

\* memmove makes place at i.
Shifted(block, i) == [k \in DOMAIN block |-> IF k > i + 1 /\ k <= vsize + 1 THEN block[k - 1] ELSE block[k]]

VectorInsert(i, v) ==
  /\ In("vector") /\ Command("insert", i, v, <<>>)
  /\ IF i > vsize THEN UNCHANGED vec
     ELSE \E block \in VectorRoom : Store(Shifted(block, i), i, v, vsize + 1)

\* vector_correct.c makes room with vector_resize, which changes the size, too:
\* the index it then stores at is one past the end.
CorrectRoom ==
  IF vsize + 1 > vcapacity THEN {[block |-> b, size |-> vcapacity + 1] : b \in Realloc(vcapacity + 1)}
  ELSE {[block |-> values, size |-> vsize]}

CorrectPush(v) ==
  /\ In("correct") /\ Command("push", 0, v, <<>>)
  /\ \E r \in CorrectRoom : Store(r.block, r.size, v, r.size + 1)

CorrectInsert(i, v) ==
  /\ In("correct") /\ Command("insert", i, v, <<>>)
  /\ \E r \in CorrectRoom :
       IF i >= r.size \/ r.size >= Len(r.block) THEN Store(r.block, r.size, v, r.size + 1)
       ELSE Store(Shifted(r.block, i), i, v, r.size + 1)

-----------------------------------------------------------------------------
(* Reading and changing elements. *)

Get(i) ==
  /\ Command("get", i, 0, IF i >= vsize THEN <<0>> ELSE <<1, values[i + 1]>>)
  /\ UNCHANGED vec

Set(i, v) ==
  /\ Command("set", i, v, IF i >= vsize THEN <<0>> ELSE <<1>>)
  /\ IF i >= vsize THEN UNCHANGED vec ELSE Store(values, i, v, vsize)

VectorGet(i)     == In("vector") /\ Get(i)
CorrectGet(i)    == In("correct") /\ Get(i)
VectorSet(i, v)  == In("vector") /\ Set(i, v)
CorrectSet(i, v) == In("correct") /\ Set(i, v)

\* A slip to catch: the last element does not move.
ClosedButLast(i) == [k \in DOMAIN values |-> IF k > i /\ k < vsize - 1 THEN values[k + 1] ELSE values[k]]

\* The elements behind i move down by one.
Closed(i) == [k \in DOMAIN values |-> IF k > i /\ k < vsize THEN values[k + 1] ELSE values[k]]

VectorRemove(i) ==
  /\ In("vector") /\ Command("remove", i, 0, IF i >= vsize THEN <<0>> ELSE <<1>>)
  /\ IF i >= vsize THEN UNCHANGED vec ELSE Becomes(Closed(i), vsize - 1)

\* size - 1 is unsigned: an empty vector lets every index through, and the loop
\* runs on from there to the end of memory.
CorrectRemove(i) ==
  /\ In("correct") /\ Command("remove", i, 0, IF i >= vsize THEN <<0>> ELSE <<1>>)
  /\ CASE vsize = 0 -> overrun' = TRUE /\ UNCHANGED <<values, vsize, vcapacity>>
       [] vsize > 0 /\ i > vsize - 1 -> UNCHANGED vec
       [] OTHER -> Becomes(Closed(i), vsize - 1)

\* qsort of the elements in use: each comes behind those that are smaller.
Rank(k) ==
  Cardinality({j \in 1..vsize : values[j] < values[k] \/ (values[j] = values[k] /\ j <= k)})
Sorted ==
  [k \in DOMAIN values |->
     IF k <= vsize THEN values[CHOOSE j \in 1..vsize : Rank(j) = k] ELSE values[k]]

Sort == Command("sort", 0, 0, <<>>) /\ Becomes(Sorted, vsize)

VectorSort  == In("vector") /\ Sort
CorrectSort == In("correct") /\ Sort

Matches(v) == {k \in 0..(vsize - 1) : values[k + 1] = v}

\* lfind: the first match.
Find(v) ==
  /\ Command("find", 0, v, IF Matches(v) = {} THEN <<-1>> ELSE <<Min(Matches(v))>>)
  /\ UNCHANGED vec

\* bsearch of the library halves the part <<l, u>> of the vector that is left.
Halving(v) ==
  LET h[w \in (0..vsize) \X (0..vsize)] ==
        LET mid == (w[1] + w[2]) \div 2
        IN IF w[1] >= w[2] THEN -1
           ELSE IF v < values[mid + 1] THEN h[<<w[1], mid>>]
           ELSE IF v > values[mid + 1] THEN h[<<mid + 1, w[2]>>]
           ELSE mid
  IN h[<<0, vsize>>]

Bsearch(v) == Command("bsearch", 0, v, <<Halving(v)>>) /\ UNCHANGED vec

VectorFind(v)     == In("vector") /\ Find(v)
CorrectFind(v)    == In("correct") /\ Find(v)
VectorBsearch(v)  == In("vector") /\ Bsearch(v)
CorrectBsearch(v) == In("correct") /\ Bsearch(v)

-----------------------------------------------------------------------------
(* Size and capacity. *)

\* vector.c doubles the capacity until it is enough: there is one such number
\* below twice what is asked for.
Enough(n) == {c \in n..(2 * n - 1) : \E k \in 0..n : c = Doubled * (2^k)}

VectorResize(n) ==
  /\ In("vector") /\ Command("resize", n, 0, <<>>)
  /\ IF n > vcapacity
     THEN \E c \in Enough(n) : \E block \in Realloc(c) : Becomes(block, n)
     ELSE Becomes(values, n)

CorrectResize(n) ==
  /\ In("correct") /\ Command("resize", n, 0, <<>>)
  /\ \E block \in IF n > vcapacity THEN Realloc(n) ELSE {values} : Becomes(block, n)

VectorReserve(n) ==
  /\ In("vector") /\ Command("reserve", n, 0, <<>>)
  /\ \E block \in IF n > vcapacity THEN Realloc(n) ELSE {values} : Becomes(block, vsize)

CorrectReserve(n) ==
  /\ In("correct") /\ Command("reserve", n, 0, <<>>)
  /\ LET m == IF n < vsize THEN vsize ELSE n
     IN \E block \in IF m > vcapacity THEN Realloc(m) ELSE {values} : Becomes(block, vsize)

VectorShrink ==
  /\ In("vector") /\ Command("shrink", 0, 0, <<>>)
  /\ \E block \in IF vsize < vcapacity THEN Realloc(vsize) ELSE {values} : Becomes(block, vsize)

CorrectShrink ==
  /\ In("correct") /\ Command("shrink", 0, 0, <<>>)
  /\ \E block \in Realloc(vsize) : Becomes(block, vsize)

Clear == Command("clear", 0, 0, <<>>) /\ Becomes(values, 0)
Size  == Command("size", 0, 0, <<vsize>>) /\ UNCHANGED vec

VectorClear  == In("vector") /\ Clear
CorrectClear == In("correct") /\ Clear
VectorSize   == In("vector") /\ Size
CorrectSize  == In("correct") /\ Size

-----------------------------------------------------------------------------
Indexes == 0..MaxSize

VectorCommand ==
  \/ VectorNewFails \/ VectorFree \/ VectorSort \/ VectorShrink \/ VectorClear \/ VectorSize
  \/ \E n \in Indexes :
       VectorNew(n) \/ VectorGet(n) \/ VectorRemove(n) \/ VectorResize(n) \/ VectorReserve(n)
  \/ \E v \in Elem : (vsize < MaxSize /\ VectorPush(v)) \/ VectorFind(v) \/ VectorBsearch(v)
  \/ \E i \in Indexes, v \in Elem : (vsize < MaxSize /\ VectorInsert(i, v)) \/ VectorSet(i, v)

CorrectCommand ==
  \/ CorrectFree \/ CorrectSort \/ CorrectShrink \/ CorrectClear \/ CorrectSize
  \/ \E n \in Indexes :
       CorrectNew(n) \/ CorrectGet(n) \/ CorrectRemove(n) \/ CorrectResize(n) \/ CorrectReserve(n)
  \/ \E v \in Elem : (vsize < MaxSize /\ CorrectPush(v)) \/ CorrectFind(v) \/ CorrectBsearch(v)
  \/ \E i \in Indexes, v \in Elem : (vsize < MaxSize /\ CorrectInsert(i, v)) \/ CorrectSet(i, v)

VectorNext == VectorCommand \/ CorrectCommand

VectorSpec == VectorInit /\ [][VectorNext]_vecVars

-----------------------------------------------------------------------------
(* Properties. *)

\* No call of vector.c, in whatever order, touches memory outside the block, and
\* the capacity is what was allocated (vector_reserve, vector_resize,
\* vector_shrink against vector_push and vector_insert).
VectorInBounds ==
  vecVersion = "vector" => ~overrun /\ vsize <= vcapacity /\ vcapacity = Len(values)

\* What the calls do and answer is what the same calls of a list do, up to the
\* first write outside the block; vector.c alone does nothing for an insert past
\* the end, where the list appends.
InUse == SubSeq(values, 1, vsize)

VectorCalls ==
  [op : {"new", "free", "push", "insert", "get", "set", "remove", "sort", "find", "bsearch",
         "resize", "reserve", "shrink", "clear", "size"},
   i : Indexes, v : Elem \cup {0}, s : {<<>>}]

L == INSTANCE ListStore WITH
       Item <- Elem, Calls <- VectorCalls, list <- InUse, call <- vecCall, answer <- vecAnswer

InsertIgnored ==
  /\ In("vector") /\ vecCall'.op = "insert" /\ vecCall'.i > vsize
  /\ vecAnswer' = <<>> /\ InUse' = InUse

VectorIsList ==
  /\ L!ListInit
  /\ [][overrun' \/ InsertIgnored \/ \E c \in VectorCalls : L!Perform(c)]_vecVars

\* Every version may push while the vector is full.
PushInBounds == vecCall.op = "push" => ~overrun

=============================================================================
