-------------------------- MODULE ContainerProofs --------------------------
(***************************************************************************)
(* Safety of the ring buffer, of the vectors and of the strings, for every *)
(* capacity, element, text and size and for calls of any length: the ring  *)
(* buffer is a bounded queue, vectors and strings stay inside their blocks *)
(* and do what a list does.                                                *)
(***************************************************************************)
EXTENDS RingBuffer, VectorStore, CppString, WellFoundedInduction, SequenceTheorems, FiniteSetTheorems, TLAPS

(* A set of natural numbers has a least one. *)
LEMMA LeastNatural ==
  ASSUME NEW S, S \subseteq Nat, S # {}
  PROVE  Min(S) \in S /\ \A k \in S : Min(S) <= k
<1>1. IsWellFoundedOn(OpToRel(<, Nat), Nat)
  BY NatLessThanWellFounded
<1>2. PICK m \in S : \A k \in S : <<k, m>> \notin OpToRel(<, Nat)
  BY <1>1, WFMin
<1>3. \A k \in S : ~(k < m)
  BY <1>2 DEF OpToRel
<1>4. \A k \in S : m <= k
  BY <1>3, SMT
<1> QED
  BY <1>4, Zenon DEF Min

-----------------------------------------------------------------------------
(* Vectors. *)

(* Until it writes outside its block a vector has its elements in the block, *)
(* and the capacity is the size of the block.                              *)
InBlock == values \in Seq(Elem) /\ vcapacity = Len(values) /\ vsize \in 0..Len(values)

VectorInv ==
  /\ overrun \in BOOLEAN /\ (overrun => held /\ vecVersion = "correct")
  /\ ~overrun => InBlock
  /\ ~held => vsize = 0

\* The call of a function with these arguments.
VecCall(op, i, v) == [op |-> op, i |-> i, v |-> v, s |-> <<>>]

(* A part of a block. *)
LEMMA PartOf ==
  ASSUME NEW b \in Seq(Elem), NEW i \in Nat, NEW n \in Nat, 1 <= i, i <= n + 1, n <= Len(b)
  PROVE  /\ SubSeq(b, i, n) \in Seq(Elem) /\ Len(SubSeq(b, i, n)) = n + 1 - i
         /\ \A k \in 1..(n + 1 - i) : SubSeq(b, i, n)[k] = b[i + k - 1]
<1>1. \A k \in i..n : b[k] \in Elem
  <2>1. \A k \in i..n : k \in 1..Len(b)
    BY LenProperties
  <2> QED
    BY <2>1, ElementOfSeq
<1>2. i \in Int /\ n \in Int
  OBVIOUS
<1>3. /\ SubSeq(b, i, n) \in Seq(Elem)
      /\ Len(SubSeq(b, i, n)) = IF i <= n THEN n - i + 1 ELSE 0
      /\ \A k \in 1..(n - i + 1) : SubSeq(b, i, n)[k] = b[i + k - 1]
  BY <1>1, <1>2, SubSeqProperties
<1>4. n - i + 1 = n + 1 - i /\ (~(i <= n) => n + 1 - i = 0)
  BY <1>2
<1> QED
  BY <1>3, <1>4

(* The elements in use. *)
LEMMA InUseIs ==
  ASSUME InBlock
  PROVE  /\ InUse \in Seq(Elem) /\ Len(InUse) = vsize
         /\ \A k \in 1..vsize : InUse[k] = values[k]
<1>1. values \in Seq(Elem) /\ vsize \in Nat /\ vsize <= Len(values) /\ 1 \in Nat /\ 1 <= 1
      /\ 1 <= vsize + 1 /\ vsize + 1 - 1 = vsize /\ \A k \in 1..vsize : 1 + k - 1 = k
  BY LenProperties DEF InBlock
<1>2. /\ SubSeq(values, 1, vsize) \in Seq(Elem) /\ Len(SubSeq(values, 1, vsize)) = vsize + 1 - 1
      /\ \A k \in 1..(vsize + 1 - 1) : SubSeq(values, 1, vsize)[k] = values[1 + k - 1]
  BY <1>1, PartOf
<1> QED
  BY <1>1, <1>2 DEF InUse

(* What the vector holds after a change: the first n cells of its block.     *)
LEMMA BecomesList ==
  ASSUME NEW block \in Seq(Elem), NEW n \in Nat, n <= Len(block), Becomes(block, n),
         ~overrun, held', NEW l \in Seq(Elem), Len(l) = n, \A k \in 1..n : l[k] = block[k]
  PROVE  VectorInv' /\ InUse' = l
<1>1. InBlock' /\ overrun' = FALSE /\ values' = block /\ vsize' = n
  BY LenProperties DEF Becomes, InBlock
<1>2. VectorInv'
  BY <1>1 DEF VectorInv
<1>3. /\ SubSeq(block, 1, n) \in Seq(Elem) /\ Len(SubSeq(block, 1, n)) = n
      /\ \A k \in 1..n : SubSeq(block, 1, n)[k] = block[k]
  <2>1. 1 \in Nat /\ 1 <= 1 /\ 1 <= n + 1 /\ n + 1 - 1 = n /\ \A k \in 1..n : 1 + k - 1 = k
    OBVIOUS
  <2>2. /\ SubSeq(block, 1, n) \in Seq(Elem) /\ Len(SubSeq(block, 1, n)) = n + 1 - 1
        /\ \A k \in 1..(n + 1 - 1) : SubSeq(block, 1, n)[k] = block[1 + k - 1]
    BY <2>1, PartOf
  <2> QED
    BY <2>1, <2>2
<1>4. SubSeq(block, 1, n) = l
  <2>1. Len(SubSeq(block, 1, n)) = Len(l)
        /\ \A k \in 1..Len(SubSeq(block, 1, n)) : SubSeq(block, 1, n)[k] = l[k]
    BY <1>3
  <2> QED
    BY <1>3, <2>1, SeqEqual
<1> QED
  BY <1>1, <1>2, <1>4 DEF InUse

(* realloc gives a block of the size it is asked for that starts as the old  *)
(* one did.                                                                *)
LEMMA ReallocBlock ==
  ASSUME InBlock, NEW n \in Nat, NEW block \in Realloc(n)
  PROVE  /\ block \in Seq(Elem) /\ Len(block) = n
         /\ \A k \in 1..n : k <= Len(values) => block[k] = values[k]
<1> DEFINE m == Len(values)
<1>1. values \in Seq(Elem) /\ m \in Nat
  BY LenProperties DEF InBlock
<1>2. CASE n <= m
  <2>1. block = SubSeq(values, 1, n)
    BY <1>2 DEF Realloc
  <2>2. 1 \in Nat /\ 1 <= 1 /\ 1 <= n + 1 /\ n + 1 - 1 = n /\ \A k \in 1..n : 1 + k - 1 = k
    OBVIOUS
  <2>3. /\ SubSeq(values, 1, n) \in Seq(Elem) /\ Len(SubSeq(values, 1, n)) = n + 1 - 1
        /\ \A k \in 1..(n + 1 - 1) : SubSeq(values, 1, n)[k] = values[1 + k - 1]
    BY <1>1, <1>2, <2>2, PartOf
  <2> QED
    BY <2>1, <2>2, <2>3
<1>3. CASE ~(n <= m)
  <2>1. PICK new \in [1..(n - m) -> Elem] : block = values \o new
    BY <1>3 DEF Realloc
  <2>2. n - m \in Nat
    BY <1>1, <1>3
  <2>3. new \in Seq(Elem) /\ Len(new) = n - m
    <3>1. new \in [1..(n - m) -> Elem]
      OBVIOUS
    <3> HIDE DEF m
    <3>2. new \in Seq(Elem)
      BY <2>2, <3>1, SeqDef
    <3> QED
      BY <2>2, <3>1, <3>2, LenProperties
  <2> HIDE DEF m
  <2>4. /\ values \o new \in Seq(Elem) /\ Len(values \o new) = Len(values) + Len(new)
        /\ \A k \in 1..(Len(values) + Len(new)) :
             (values \o new)[k] = IF k <= Len(values) THEN values[k] ELSE new[k - Len(values)]
    BY <1>1, <2>3, ConcatProperties
  <2>5. Len(values) + Len(new) = n
    BY <1>1, <2>3, <2>2 DEF m
  <2> QED
    BY <2>1, <2>4, <2>5
<1> QED
  BY <1>2, <1>3

(* What the list may leave and answer after the calls of a vector.          *)
LEMMA VecResults ==
  ASSUME NEW i \in Nat, NEW v, Len(InUse) \in Nat
  PROVE  /\ \A op \in {"new", "clear", "free"} : L!Results(VecCall(op, i, v)) = {<<>>}
         /\ L!Results(VecCall("push", i, v)) = {Append(InUse, v)}
         /\ i <= Len(InUse) => L!Results(VecCall("insert", i, v)) = {InsertAt(InUse, i + 1, v)}
         /\ i > Len(InUse) => L!Results(VecCall("insert", i, v)) = {Append(InUse, v)}
         /\ i < Len(InUse) =>
              /\ L!Results(VecCall("set", i, v)) = {[InUse EXCEPT ![i + 1] = v]}
              /\ L!Results(VecCall("remove", i, v)) = {RemoveAt(InUse, i + 1)}
         /\ ~(i < Len(InUse)) => \A op \in {"set", "remove"} : L!Results(VecCall(op, i, v)) = {InUse}
         /\ L!Results(VecCall("sort", i, v)) = {m \in L!Permuted(InUse) : L!Ascending(m)}
         /\ i <= Len(InUse) => L!Results(VecCall("resize", i, v)) = {SubSeq(InUse, 1, i)}
         /\ i > Len(InUse) =>
              L!Results(VecCall("resize", i, v)) = {InUse \o f : f \in [1..(i - Len(InUse)) -> Elem]}
         /\ \A op \in {"get", "find", "bsearch", "size", "reserve", "shrink"} :
              L!Results(VecCall(op, i, v)) = {InUse}
<1> DEFINE R(op) == L!Results(VecCall(op, i, v))
<1>1. /\ \A op \in {"new", "clear", "free"} : R(op) = {<<>>}
      /\ R("push") = {Append(InUse, v)}
      /\ \A op \in {"get", "find", "bsearch", "size", "reserve", "shrink"} : R(op) = {InUse}
  BY DEF L!Results, VecCall
<1>2. R("sort") = {m \in L!Permuted(InUse) : L!Ascending(m)}
  BY DEF L!Results, VecCall
<1>3. ASSUME i <= Len(InUse)
      PROVE  R("insert") = {InsertAt(InUse, i + 1, v)} /\ R("resize") = {SubSeq(InUse, 1, i)}
  <2>1. R("insert") = {InsertAt(InUse, i + 1, v)}
    <3>1. R("insert") = {L!InsertAt(InUse, i + 1, v)}
      BY <1>3 DEF L!Results, VecCall
    <3>2. L!InsertAt(InUse, i + 1, v) = InsertAt(InUse, i + 1, v)
      BY DEF L!InsertAt, InsertAt
    <3> QED
      BY <3>1, <3>2
  <2>2. R("resize") = {SubSeq(InUse, 1, i)}
    BY <1>3 DEF L!Results, VecCall
  <2> QED
    BY <2>1, <2>2
<1>4. i > Len(InUse) =>
        /\ R("insert") = {Append(InUse, v)}
        /\ R("resize") = {InUse \o f : f \in [1..(i - Len(InUse)) -> Elem]}
  BY DEF L!Results, VecCall
<1>5. ASSUME i < Len(InUse)
      PROVE  /\ R("set") = {[InUse EXCEPT ![i + 1] = v]}
             /\ R("remove") = {RemoveAt(InUse, i + 1)}
  <2>1. R("set") = {[InUse EXCEPT ![i + 1] = v]}
    BY <1>5 DEF L!Results, VecCall
  <2>2. R("remove") = {RemoveAt(InUse, i + 1)}
    BY <1>5 DEF L!Results, VecCall, L!RemoveAt, RemoveAt
  <2> QED
    BY <2>1, <2>2
<1>6. ~(i < Len(InUse)) => \A op \in {"set", "remove"} : R(op) = {InUse}
  BY DEF L!Results, VecCall
<1> QED
  BY <1>1, <1>2, <1>3, <1>4, <1>5, <1>6

LEMMA VecAnswers ==
  ASSUME NEW i, NEW v
  PROVE  /\ \A op \in {"new", "free", "push", "insert", "sort", "resize", "reserve", "shrink", "clear"} :
              L!Answers(VecCall(op, i, v)) = {<<>>}
         /\ L!Answers(VecCall("get", i, v)) = {IF i < Len(InUse) THEN <<1, InUse[i + 1]>> ELSE <<0>>}
         /\ \A op \in {"set", "remove"} :
              L!Answers(VecCall(op, i, v)) = {IF i < Len(InUse) THEN <<1>> ELSE <<0>>}
         /\ L!Answers(VecCall("size", i, v)) = {<<Len(InUse)>>}
BY DEF L!Answers, VecCall

\* A call ends the behaviour, is the insert vector.c ignores or is one of the list.
VecListed == overrun' \/ InsertIgnored \/ \E c \in VectorCalls : L!Perform(c)
VecKept == VectorInv' /\ VecListed

LEMMA Commanded ==
  ASSUME NEW op \in {"new", "free", "push", "insert", "get", "set", "remove", "sort", "find",
                     "bsearch", "size", "resize", "reserve", "shrink", "clear"},
         NEW i \in Indexes, NEW v \in Elem \cup {0},
         vecCall' = VecCall(op, i, v), vecAnswer' \in L!Answers(VecCall(op, i, v)),
         InUse' \in L!Results(VecCall(op, i, v))
  PROVE  VecListed
<1>1. VecCall(op, i, v) \in VectorCalls
  BY DEF VecCall, VectorCalls
<1>2. L!Perform(VecCall(op, i, v))
  BY DEF L!Perform
<1> QED
  BY <1>1, <1>2 DEF VecListed

LEMMA SmallestIndex == 0 \in Indexes /\ 0 \in Elem \cup {0} /\ Indexes \subseteq Nat
BY VectorAssumption DEF Indexes

LEMMA CommandKnown ==
  ASSUME VectorInv, NEW op, NEW i, NEW v, NEW result, Command(op, i, v, result)
  PROVE  /\ held /\ held' /\ ~overrun /\ InBlock /\ vecVersion' = vecVersion
         /\ vecCall' = VecCall(op, i, v) /\ vecAnswer' = result
         /\ vsize \in Nat /\ Len(values) \in Nat /\ vsize <= Len(values)
         /\ InUse \in Seq(Elem) /\ Len(InUse) = vsize /\ \A k \in 1..vsize : InUse[k] = values[k]
<1>1. held /\ ~overrun /\ InBlock
  BY DEF Command, VectorInv
<1>2. values \in Seq(Elem) /\ vsize \in 0..Len(values) /\ Len(values) \in Nat
  BY <1>1, LenProperties DEF InBlock
<1> QED
  BY <1>1, <1>2, InUseIs DEF Command, VecCall

-----------------------------------------------------------------------------
(* Calls that only read. *)

LEMMA ReadKept ==
  ASSUME VectorInv, UNCHANGED <<vecVersion, vec>>
  PROVE  VectorInv' /\ InUse' = InUse
BY DEF VectorInv, vec, InUse, InBlock

LEMMA GetKept ==
  ASSUME NEW i \in Indexes
  PROVE  VectorInv /\ Get(i) => VecKept
<1> SUFFICES ASSUME VectorInv, Get(i) PROVE VecKept
  OBVIOUS
<1> DEFINE result == IF i >= vsize THEN <<0>> ELSE <<1, values[i + 1]>>
<1>1. Command("get", i, 0, result) /\ UNCHANGED vec
  BY DEF Get
<1>2. /\ vecVersion' = vecVersion /\ vecCall' = VecCall("get", i, 0) /\ vecAnswer' = result
      /\ vsize \in Nat /\ Len(InUse) = vsize /\ \A k \in 1..vsize : InUse[k] = values[k]
  <2> HIDE DEF result
  <2> QED
    BY <1>1, CommandKnown
<1>3. VectorInv' /\ InUse' = InUse
  BY <1>1, <1>2, ReadKept
<1>4. i \in Nat /\ 0 \in Elem \cup {0}
  BY SmallestIndex
<1>5. vecAnswer' \in L!Answers(VecCall("get", i, 0))
  <2>1. L!Answers(VecCall("get", i, 0)) = {IF i < Len(InUse) THEN <<1, InUse[i + 1]>> ELSE <<0>>}
    BY VecAnswers
  <2>2. CASE i >= vsize
    BY <1>2, <1>4, <2>1, <2>2
  <2>3. CASE i < vsize
    <3>1. i + 1 \in 1..vsize /\ ~(i >= vsize)
      BY <1>2, <1>4, <2>3
    <3> QED
      BY <1>2, <2>1, <2>3, <3>1
  <2> QED
    BY <1>2, <1>4, <2>2, <2>3
<1>6. InUse' \in L!Results(VecCall("get", i, 0))
  BY <1>2, <1>3, <1>4, VecResults
<1>7. VecListed
  BY <1>2, <1>4, <1>5, <1>6, Commanded
<1> QED
  BY <1>3, <1>7 DEF VecKept

LEMMA SizeKept == VectorInv /\ Size => VecKept
<1> SUFFICES ASSUME VectorInv, Size PROVE VecKept
  OBVIOUS
<1>1. Command("size", 0, 0, <<vsize>>) /\ UNCHANGED vec
  BY DEF Size
<1>2. /\ vecVersion' = vecVersion /\ vecCall' = VecCall("size", 0, 0) /\ vecAnswer' = <<vsize>>
      /\ vsize \in Nat /\ Len(InUse) = vsize
  BY <1>1, CommandKnown
<1>3. VectorInv' /\ InUse' = InUse
  BY <1>1, <1>2, ReadKept
<1>4. 0 \in Nat /\ 0 \in Indexes /\ 0 \in Elem \cup {0}
  BY SmallestIndex
<1>5. vecAnswer' \in L!Answers(VecCall("size", 0, 0))
  BY <1>2, VecAnswers
<1>6. InUse' \in L!Results(VecCall("size", 0, 0))
  BY <1>2, <1>3, <1>4, VecResults
<1>7. VecListed
  BY <1>2, <1>4, <1>5, <1>6, Commanded
<1> QED
  BY <1>3, <1>7 DEF VecKept

(* The places of an element in the list are where the block has it.          *)
LEMMA PlacesAre ==
  ASSUME InBlock, NEW v
  PROVE  L!Places(InUse, v) = Matches(v) /\ Matches(v) \subseteq Nat
<1>1. /\ InUse \in Seq(Elem) /\ Len(InUse) = vsize /\ vsize \in Nat
      /\ \A k \in 1..vsize : InUse[k] = values[k]
  BY InUseIs, LenProperties DEF InBlock
<1>2. DOMAIN InUse = 1..vsize
  BY <1>1, LenProperties
<1>3. ASSUME NEW p
      PROVE  p \in L!Places(InUse, v) <=> p \in Matches(v)
  <2>1. p \in L!Places(InUse, v) <=> \E k \in 1..vsize : p = k - 1 /\ values[k] = v
    BY <1>1, <1>2 DEF L!Places
  <2>2. ASSUME NEW k \in 1..vsize, p = k - 1, values[k] = v
        PROVE  p \in Matches(v)
    <3>1. p \in 0..(vsize - 1) /\ p + 1 = k
      BY <1>1, <2>2
    <3> QED
      BY <2>2, <3>1 DEF Matches
  <2>3. ASSUME p \in Matches(v)
        PROVE  \E k \in 1..vsize : p = k - 1 /\ values[k] = v
    <3>1. p \in 0..(vsize - 1) /\ values[p + 1] = v
      BY <2>3 DEF Matches
    <3>2. p + 1 \in 1..vsize /\ p = (p + 1) - 1
      BY <1>1, <3>1
    <3> QED
      BY <3>1, <3>2
  <2> QED
    BY <2>1, <2>2, <2>3
<1> QED
  BY <1>1, <1>3 DEF Matches

(* lfind answers with the first place. *)
LEMMA FindKept ==
  ASSUME NEW v \in Elem
  PROVE  VectorInv /\ Find(v) => VecKept
<1> SUFFICES ASSUME VectorInv, Find(v) PROVE VecKept
  OBVIOUS
<1> DEFINE result == IF Matches(v) = {} THEN <<-1>> ELSE <<Min(Matches(v))>>
<1>1. Command("find", 0, v, result) /\ UNCHANGED vec
  BY DEF Find
<1>2. /\ vecVersion' = vecVersion /\ vecCall' = VecCall("find", 0, v) /\ vecAnswer' = result
      /\ vsize \in Nat /\ Len(InUse) = vsize /\ InBlock
  <2> HIDE DEF result
  <2> QED
    BY <1>1, CommandKnown
<1>3. VectorInv' /\ InUse' = InUse
  BY <1>1, <1>2, ReadKept
<1>4. 0 \in Nat /\ 0 \in Indexes /\ v \in Elem \cup {0}
  BY SmallestIndex
<1>5. result \in L!Answers(VecCall("find", 0, v))
  <2> DEFINE M == Matches(v)
  <2>1. M \subseteq Nat /\ L!Places(InUse, v) = M
    BY <1>2, PlacesAre
  <2>2. L!Answers(VecCall("find", 0, v)) =
          {<<k>> : k \in {k \in M : \A j \in M : k <= j}} \cup (IF M = {} THEN {<<-1>>} ELSE {})
    BY <2>1 DEF L!Answers, VecCall
  <2>3. result = IF M = {} THEN <<-1>> ELSE <<Min(M)>>
    OBVIOUS
  <2> HIDE DEF M, result
  <2>4. CASE M = {}
    BY <2>2, <2>3, <2>4
  <2>5. CASE M # {}
    <3>1. Min(M) \in {k \in M : \A j \in M : k <= j}
      BY <2>1, <2>5, LeastNatural
    <3> QED
      BY <2>2, <2>3, <2>5, <3>1
  <2> QED
    BY <2>4, <2>5
<1>6. InUse' \in L!Results(VecCall("find", 0, v))
  BY <1>2, <1>3, <1>4, VecResults
<1>7. VecListed
  BY <1>2, <1>4, <1>5, <1>6, Commanded
<1> QED
  BY <1>3, <1>7 DEF VecKept

(* bsearch.  A window is a part of the vector that is left to search.        *)
Windows == (0..vsize) \X (0..vsize)

\* One step of the search, when h is what it finds in the smaller windows.
Halved(h, v, w) ==
  LET mid == (w[1] + w[2]) \div 2
  IN IF w[1] >= w[2] THEN -1
     ELSE IF v < values[mid + 1] THEN h[<<w[1], mid>>]
     ELSE IF v > values[mid + 1] THEN h[<<mid + 1, w[2]>>]
     ELSE mid

(* The windows on both sides of the middle are smaller.                     *)
LEMMA SmallerWindows ==
  ASSUME InBlock, NEW w \in Windows, w[1] < w[2]
  PROVE  LET mid == (w[1] + w[2]) \div 2
         IN /\ mid \in 0..(vsize - 1) /\ w[1] <= mid /\ mid < w[2]
            /\ <<w[1], mid>> \in Windows /\ <<w[1], mid>>[2] - <<w[1], mid>>[1] < w[2] - w[1]
            /\ <<mid + 1, w[2]>> \in Windows
            /\ <<mid + 1, w[2]>>[2] - <<mid + 1, w[2]>>[1] < w[2] - w[1]
<1> DEFINE l == w[1]
           u == w[2]
<1>1. l \in 0..vsize /\ u \in 0..vsize /\ vsize \in Nat /\ l < u
  BY LenProperties DEF Windows, InBlock
<1> HIDE DEF l, u
<1>2. PICK mid : mid = (l + u) \div 2
  OBVIOUS
<1>3. mid \in Int /\ 2 * mid <= l + u /\ l + u <= 2 * mid + 1
  BY <1>1, <1>2
<1>4. mid \in 0..(vsize - 1) /\ l <= mid /\ mid < u /\ mid + 1 \in 0..vsize /\ mid \in 0..vsize
  BY <1>1, <1>3
<1>5. <<l, mid>> \in Windows /\ <<mid + 1, u>> \in Windows
  BY <1>1, <1>4 DEF Windows
<1>6. mid - l < u - l /\ u - (mid + 1) < u - l
  BY <1>1, <1>4
<1>7. /\ <<l, mid>>[2] - <<l, mid>>[1] < u - l
      /\ <<mid + 1, u>>[2] - <<mid + 1, u>>[1] < u - l
  BY <1>6
<1> QED
  BY <1>2, <1>4, <1>5, <1>7 DEF l, u

(* A step looks at smaller windows only.                                    *)
LEMMA HalvedLooks ==
  ASSUME InBlock, NEW v, NEW w \in Windows, NEW g, NEW h,
         \A x \in Windows : x[2] - x[1] < w[2] - w[1] => g[x] = h[x]
  PROVE  Halved(g, v, w) = Halved(h, v, w)
<1> DEFINE mid == (w[1] + w[2]) \div 2
<1>1. CASE w[1] >= w[2]
  BY <1>1 DEF Halved
<1>2. CASE ~(w[1] >= w[2])
  <2>1. w[1] < w[2]
    BY <1>2 DEF Windows
  <2>2. g[<<w[1], mid>>] = h[<<w[1], mid>>] /\ g[<<mid + 1, w[2]>>] = h[<<mid + 1, w[2]>>]
    BY <2>1, SmallerWindows
  <2> QED
    BY <2>2 DEF Halved
<1> QED
  BY <1>1, <1>2

(* Until the windows of size n, h is what the search finds.                 *)
Solves(h, v, n) ==
  /\ h = [w \in Windows |-> h[w]]
  /\ \A w \in Windows : w[2] - w[1] <= n => h[w] = Halved(h, v, w)

LEMMA HalvingSolved ==
  ASSUME InBlock, NEW v, NEW n \in Nat
  PROVE  \E h : Solves(h, v, n)
<1> DEFINE S == {k \in Nat : ~\E h : Solves(h, v, k)}
<1> SUFFICES ASSUME S # {} PROVE FALSE
  OBVIOUS
<1>1. PICK m \in S : \A k \in S : m <= k
  BY LeastNatural
<1>2. CASE m = 0
  <2> DEFINE h == [w \in Windows |-> -1]
  <2>1. ASSUME NEW w \in Windows, w[2] - w[1] <= 0
        PROVE  h[w] = Halved(h, v, w)
    <3>0. h[w] = -1
      OBVIOUS
    <3> HIDE DEF h
    <3>1. w[1] \in Int /\ w[2] \in Int
      BY DEF Windows
    <3>2. w[1] >= w[2]
      BY <2>1, <3>1
    <3>3. Halved(h, v, w) = -1
      BY <3>1, <3>2 DEF Halved
    <3> QED
      BY <3>0, <3>3
  <2>2. Solves(h, v, 0)
    BY <2>1 DEF Solves
  <2> QED
    BY <1>2, <2>2
<1>3. CASE m # 0
  <2>1. m \in Nat /\ m - 1 \in Nat /\ ~(m <= m - 1)
    BY <1>3
  <2>2. m - 1 \notin S
    BY <1>1, <2>1
  <2>3. PICK g : Solves(g, v, m - 1)
    BY <2>1, <2>2
  <2> DEFINE h == [w \in Windows |-> Halved(g, v, w)]
  <2>4. \A w \in Windows : w[1] \in Int /\ w[2] \in Int
    BY DEF Windows
  <2>5. \A x \in Windows : x[2] - x[1] <= m - 1 => h[x] = g[x]
    BY <2>3 DEF Solves
  <2>6. \A w \in Windows : h[w] = Halved(g, v, w)
    OBVIOUS
  <2>7. h = [w \in Windows |-> h[w]]
    OBVIOUS
  <2> HIDE DEF h
  <2>8. ASSUME NEW w \in Windows, w[2] - w[1] <= m
        PROVE  h[w] = Halved(h, v, w)
    <3>1. \A x \in Windows : x[2] - x[1] < w[2] - w[1] => g[x] = h[x]
      <4> SUFFICES ASSUME NEW x \in Windows, x[2] - x[1] < w[2] - w[1] PROVE g[x] = h[x]
        OBVIOUS
      <4>1. x[2] - x[1] <= m - 1
        BY <2>1, <2>4, <2>8
      <4> QED
        BY <2>5, <4>1
    <3>2. Halved(g, v, w) = Halved(h, v, w)
      BY <3>1, HalvedLooks
    <3> QED
      BY <2>6, <3>2
  <2>9. Solves(h, v, m)
    BY <2>7, <2>8 DEF Solves
  <2> QED
    BY <2>9
<1> QED
  BY <1>2, <1>3

(* So the recursive function that searches exists.                          *)
LEMMA HalvingIs ==
  ASSUME InBlock, NEW v
  PROVE  \E h : Halving(v) = h[<<0, vsize>>] /\ \A w \in Windows : h[w] = Halved(h, v, w)
<1> DEFINE IsSearch(h) == h = [w \in Windows |-> Halved(h, v, w)]
<1>1. vsize \in Nat
  BY LenProperties DEF InBlock
<1>2. PICK g : Solves(g, v, vsize)
  BY <1>1, HalvingSolved
<1>3. \A w \in Windows : g[w] = Halved(g, v, w)
  <2>1. \A w \in Windows : w[2] - w[1] <= vsize
    BY <1>1 DEF Windows
  <2> QED
    BY <1>2, <2>1 DEF Solves
<1>4. IsSearch(g)
  <2>1. g = [w \in Windows |-> g[w]]
    BY <1>2 DEF Solves
  <2> QED
    BY <1>3, <2>1
<1>5. PICK h : h = (CHOOSE f : IsSearch(f))
  OBVIOUS
<1>6. IsSearch(h)
  BY <1>4, <1>5, Zenon
<1>7. Halving(v) = h[<<0, vsize>>]
  BY <1>5 DEF Halving, Halved, Windows
<1>8. \A w \in Windows : h[w] = Halved(h, v, w)
  BY <1>6, Zenon
<1> QED
  BY <1>7, <1>8

(* What a search of a window finds is the element; in a vector that is in    *)
(* order, when it finds nothing, there is none in the window.              *)
Ordered == \A j, k \in 1..vsize : j <= k => values[j] <= values[k]

Finds(r, v, w) ==
  /\ r = -1 \/ (r \in 0..(vsize - 1) /\ values[r + 1] = v)
  /\ Ordered /\ r = -1 => \A k \in 0..(vsize - 1) : w[1] <= k /\ k < w[2] => values[k + 1] # v

LEMMA HalvedFinds ==
  ASSUME InBlock, NEW v \in Elem, NEW h, NEW w \in Windows,
         \A x \in Windows : x[2] - x[1] < w[2] - w[1] => Finds(h[x], v, x)
  PROVE  Finds(Halved(h, v, w), v, w)
<1>1. /\ w[1] \in 0..vsize /\ w[2] \in 0..vsize /\ vsize \in Nat
      /\ v \in Int /\ \A k \in 1..vsize : values[k] \in Int
  <2>1. \A k \in 1..Len(values) : values[k] \in Elem
    BY ElementOfSeq DEF InBlock
  <2>2. vsize \in Nat /\ \A k \in 1..vsize : k \in 1..Len(values)
    BY LenProperties DEF InBlock
  <2>3. v \in Int /\ \A k \in 1..vsize : values[k] \in Int
    BY <2>1, <2>2, VectorAssumption
  <2> QED
    BY <2>2, <2>3 DEF Windows
<1>2. CASE w[1] >= w[2]
  <2>1. Halved(h, v, w) = -1
    BY <1>2 DEF Halved
  <2> QED
    BY <1>1, <1>2, <2>1 DEF Finds
<1>3. CASE ~(w[1] >= w[2])
  <2>1. w[1] < w[2]
    BY <1>1, <1>3
  <2>2. PICK mid : mid = (w[1] + w[2]) \div 2
    OBVIOUS
  <2>3. /\ mid \in 0..(vsize - 1) /\ w[1] <= mid /\ mid < w[2]
        /\ <<w[1], mid>> \in Windows /\ <<w[1], mid>>[2] - <<w[1], mid>>[1] < w[2] - w[1]
        /\ <<mid + 1, w[2]>> \in Windows
        /\ <<mid + 1, w[2]>>[2] - <<mid + 1, w[2]>>[1] < w[2] - w[1]
    BY <2>1, <2>2, SmallerWindows
  <2>4. mid + 1 \in 1..vsize /\ values[mid + 1] \in Int
    BY <1>1, <2>3
  <2>5. CASE v < values[mid + 1]
    <3>1. Halved(h, v, w) = h[<<w[1], mid>>]
      BY <1>3, <2>2, <2>5 DEF Halved
    <3>2. Finds(h[<<w[1], mid>>], v, <<w[1], mid>>)
      BY <2>3
    <3>3. ASSUME Ordered, NEW k \in 0..(vsize - 1), k < w[2], ~(k < mid)
          PROVE  values[k + 1] # v
      <4>1. k + 1 \in 1..vsize /\ mid + 1 <= k + 1
        BY <1>1, <2>3, <3>3
      <4>2. values[mid + 1] <= values[k + 1] /\ values[k + 1] \in Int
        BY <1>1, <2>4, <3>3, <4>1 DEF Ordered
      <4> QED
        BY <1>1, <2>4, <2>5, <4>2
    <3>4. <<w[1], mid>>[1] = w[1] /\ <<w[1], mid>>[2] = mid
      OBVIOUS
    <3> QED
      BY <3>1, <3>2, <3>3, <3>4 DEF Finds
  <2>6. CASE v > values[mid + 1]
    <3>1. Halved(h, v, w) = h[<<mid + 1, w[2]>>]
      <4>1. ~(v < values[mid + 1])
        BY <1>1, <2>4, <2>6
      <4> QED
        BY <1>3, <2>2, <2>6, <4>1 DEF Halved
    <3>2. Finds(h[<<mid + 1, w[2]>>], v, <<mid + 1, w[2]>>)
      BY <2>3
    <3>3. ASSUME Ordered, NEW k \in 0..(vsize - 1), w[1] <= k, ~(mid + 1 <= k)
          PROVE  values[k + 1] # v
      <4>1. k + 1 \in 1..vsize /\ k + 1 <= mid + 1
        BY <1>1, <2>3, <3>3
      <4>2. values[k + 1] <= values[mid + 1] /\ values[k + 1] \in Int
        BY <1>1, <2>4, <3>3, <4>1 DEF Ordered
      <4> QED
        BY <1>1, <2>4, <2>6, <4>2
    <3>4. <<mid + 1, w[2]>>[1] = mid + 1 /\ <<mid + 1, w[2]>>[2] = w[2]
      OBVIOUS
    <3> QED
      BY <3>1, <3>2, <3>3, <3>4 DEF Finds
  <2>7. CASE ~(v < values[mid + 1]) /\ ~(v > values[mid + 1])
    <3>1. Halved(h, v, w) = mid
      BY <1>3, <2>2, <2>7 DEF Halved
    <3>2. values[mid + 1] = v /\ mid # -1
      BY <1>1, <2>3, <2>4, <2>7
    <3> QED
      BY <2>3, <3>1, <3>2 DEF Finds
  <2> QED
    BY <2>5, <2>6, <2>7
<1> QED
  BY <1>2, <1>3

LEMMA HalvingFinds ==
  ASSUME InBlock, NEW v \in Elem
  PROVE  Finds(Halving(v), v, <<0, vsize>>)
<1>1. PICK h : Halving(v) = h[<<0, vsize>>] /\ \A w \in Windows : h[w] = Halved(h, v, w)
  BY HalvingIs
<1> DEFINE width(w) == vsize + w[2] - w[1]
           wrong == {n \in Nat : \E w \in Windows : width(w) = n /\ ~Finds(h[w], v, w)}
<1>2. \A w \in Windows : w[1] \in Nat /\ w[2] \in Nat /\ width(w) \in Nat
  BY LenProperties DEF Windows, InBlock
<1>3. wrong = {}
  <2> SUFFICES ASSUME wrong # {} PROVE FALSE
    OBVIOUS
  <2>1. PICK n \in wrong : \A m \in wrong : n <= m
    BY LeastNatural
  <2>2. PICK w \in Windows : width(w) = n /\ ~Finds(h[w], v, w)
    BY <2>1
  <2>3. ASSUME NEW x \in Windows, x[2] - x[1] < w[2] - w[1], ~Finds(h[x], v, x)
        PROVE  FALSE
    <3>1. width(x) \in wrong
      BY <1>2, <2>3
    <3>2. n <= width(x) /\ n = width(w)
      BY <2>1, <2>2, <3>1
    <3>3. /\ w[1] \in Nat /\ w[2] \in Nat /\ x[1] \in Nat /\ x[2] \in Nat
      BY <1>2
    <3> QED
      BY <2>3, <3>2, <3>3, LenProperties DEF InBlock
  <2>4. Finds(Halved(h, v, w), v, w)
    BY <2>3, HalvedFinds
  <2> QED
    BY <1>1, <2>2, <2>4
<1>4. <<0, vsize>> \in Windows
  BY LenProperties DEF Windows, InBlock
<1> HIDE DEF width
<1>5. Finds(h[<<0, vsize>>], v, <<0, vsize>>)
  BY <1>2, <1>3, <1>4
<1> QED
  BY <1>1, <1>5

LEMMA BsearchKept ==
  ASSUME NEW v \in Elem
  PROVE  VectorInv /\ Bsearch(v) => VecKept
<1> SUFFICES ASSUME VectorInv, Bsearch(v) PROVE VecKept
  OBVIOUS
<1>1. Command("bsearch", 0, v, <<Halving(v)>>) /\ UNCHANGED vec
  BY DEF Bsearch
<1>2. /\ vecVersion' = vecVersion /\ vecCall' = VecCall("bsearch", 0, v)
      /\ vecAnswer' = <<Halving(v)>>
      /\ vsize \in Nat /\ InUse \in Seq(Elem) /\ Len(InUse) = vsize /\ InBlock
      /\ \A k \in 1..vsize : InUse[k] = values[k]
  BY <1>1, CommandKnown
<1>3. VectorInv' /\ InUse' = InUse
  BY <1>1, <1>2, ReadKept
<1>4. 0 \in Nat /\ 0 \in Indexes /\ v \in Elem \cup {0}
  BY SmallestIndex
<1>5. <<Halving(v)>> \in L!Answers(VecCall("bsearch", 0, v))
  <2> DEFINE r == Halving(v)
  <2>1. Finds(r, v, <<0, vsize>>) /\ <<0, vsize>>[1] = 0 /\ <<0, vsize>>[2] = vsize
    BY <1>2, HalvingFinds
  <2> HIDE DEF r
  <2>2. L!Places(InUse, v) = Matches(v)
    BY <1>2, PlacesAre
  <2>3. L!Answers(VecCall("bsearch", 0, v)) =
          {<<k>> : k \in Matches(v)}
            \cup (IF Matches(v) = {} \/ ~L!Ascending(InUse) THEN {<<-1>>} ELSE {})
    BY <2>2 DEF L!Answers, VecCall
  <2>4. CASE r # -1
    <3>1. r \in Matches(v)
      BY <2>1, <2>4 DEF Finds, Matches
    <3> QED
      BY <2>3, <3>1 DEF r
  <2>5. CASE r = -1 /\ Ordered
    <3>1. \A k \in 0..(vsize - 1) : 0 <= k /\ k < vsize /\ values[k + 1] # v
      BY <1>2, <2>1, <2>5 DEF Finds
    <3>2. Matches(v) = {}
      BY <3>1 DEF Matches
    <3> QED
      BY <2>3, <2>5, <3>2 DEF r
  <2>6. CASE r = -1 /\ ~Ordered
    <3>1. DOMAIN InUse = 1..vsize
      BY <1>2, LenProperties
    <3>2. ~L!Ascending(InUse)
      BY <1>2, <2>6, <3>1 DEF Ordered, L!Ascending
    <3> QED
      BY <2>3, <2>6, <3>2 DEF r
  <2> QED
    BY <2>4, <2>5, <2>6
<1>6. InUse' \in L!Results(VecCall("bsearch", 0, v))
  BY <1>2, <1>3, <1>4, VecResults
<1>7. VecListed
  BY <1>2, <1>4, <1>5, <1>6, Commanded
<1> QED
  BY <1>3, <1>7 DEF VecKept

-----------------------------------------------------------------------------
(* Creation and release. *)

LEMMA NothingInUse ==
  ASSUME NEW block
  PROVE  SubSeq(block, 1, 0) = <<>>
<1>1. 1 \in Int /\ 0 \in Int /\ 0 < 1
  OBVIOUS
<1> QED
  BY <1>1, SubSeqEmpty

LEMMA VecNewKept ==
  ASSUME NEW n \in Indexes
  PROVE  VectorInv /\ New(n) => VecKept
<1> SUFFICES ASSUME VectorInv, New(n) PROVE VecKept
  OBVIOUS
<1>1. PICK block \in [1..n -> Elem] : Becomes(block, 0)
  BY DEF New
<1>2. /\ ~overrun /\ held' /\ n \in Nat /\ 0 \in Nat
      /\ vecCall' = VecCall("new", 0, 0) /\ vecAnswer' = <<>>
  BY SmallestIndex DEF New, VectorInv, VecCall, NoCommand
<1>3. block \in Seq(Elem) /\ 0 <= Len(block)
  <2>1. block \in Seq(Elem)
    BY <1>2, SeqDef
  <2> QED
    BY <2>1, LenProperties
<1>4. <<>> \in Seq(Elem) /\ Len(<<>>) = 0 /\ \A k \in 1..0 : <<>>[k] = block[k]
  BY EmptySeq
<1>5. VectorInv' /\ InUse' = <<>>
  BY <1>1, <1>2, <1>3, <1>4, BecomesList
<1>6. 0 \in Indexes /\ 0 \in Elem \cup {0}
  BY SmallestIndex
<1>7. L!Results(VecCall("new", 0, 0)) = {<<>>} /\ L!Answers(VecCall("new", 0, 0)) = {<<>>}
  BY DEF L!Results, L!Answers, VecCall
<1>8. VecListed
  BY <1>2, <1>5, <1>6, <1>7, Commanded
<1> QED
  BY <1>5, <1>8 DEF VecKept

LEMMA NewFailsKept == VectorInv /\ VectorNewFails => VecKept
<1> SUFFICES ASSUME VectorInv, VectorNewFails PROVE VecKept
  OBVIOUS
<1>1. /\ UNCHANGED <<vecVersion, vec>> /\ vsize = 0
      /\ vecCall' = VecCall("new", 0, 0) /\ vecAnswer' = <<>>
  BY DEF VectorNewFails, VectorInv, VecCall, NoCommand
<1>2. VectorInv' /\ InUse' = <<>>
  BY <1>1, ReadKept, NothingInUse DEF InUse
<1>3. 0 \in Indexes /\ 0 \in Elem \cup {0}
  BY SmallestIndex
<1>4. L!Results(VecCall("new", 0, 0)) = {<<>>} /\ L!Answers(VecCall("new", 0, 0)) = {<<>>}
  BY DEF L!Results, L!Answers, VecCall
<1>5. VecListed
  BY <1>1, <1>2, <1>3, <1>4, Commanded
<1> QED
  BY <1>2, <1>5 DEF VecKept

LEMMA ReleaseKept == VectorInv /\ Release => VecKept
<1> SUFFICES ASSUME VectorInv, Release PROVE VecKept
  OBVIOUS
<1>1. /\ values' = <<>> /\ vsize' = 0 /\ vcapacity' = 0 /\ ~overrun' /\ ~held'
      /\ overrun' = overrun /\ overrun \in BOOLEAN
      /\ vecCall' = VecCall("free", 0, 0) /\ vecAnswer' = <<>>
  BY DEF Release, VectorInv, VecCall, NoCommand
<1>2. <<>> \in Seq(Elem) /\ Len(<<>>) = 0 /\ 0 \in 0..0
  BY EmptySeq
<1>3. InBlock'
  BY <1>1, <1>2 DEF InBlock
<1>4. VectorInv' /\ InUse' = <<>>
  BY <1>1, <1>3, NothingInUse DEF VectorInv, InUse
<1>5. 0 \in Indexes /\ 0 \in Elem \cup {0}
  BY SmallestIndex
<1>6. L!Results(VecCall("free", 0, 0)) = {<<>>} /\ L!Answers(VecCall("free", 0, 0)) = {<<>>}
  BY DEF L!Results, L!Answers, VecCall
<1>7. VecListed
  BY <1>1, <1>4, <1>5, <1>6, Commanded
<1> QED
  BY <1>4, <1>7 DEF VecKept

LEMMA VecClearKept == VectorInv /\ Clear => VecKept
<1> SUFFICES ASSUME VectorInv, Clear PROVE VecKept
  OBVIOUS
<1>1. Command("clear", 0, 0, <<>>) /\ Becomes(values, 0)
  BY DEF Clear
<1>2. /\ ~overrun /\ held' /\ InBlock /\ vecCall' = VecCall("clear", 0, 0) /\ vecAnswer' = <<>>
      /\ Len(values) \in Nat
  BY <1>1, CommandKnown
<1>3. values \in Seq(Elem) /\ 0 \in Nat /\ 0 <= Len(values)
  BY <1>2 DEF InBlock
<1>4. <<>> \in Seq(Elem) /\ Len(<<>>) = 0 /\ \A k \in 1..0 : <<>>[k] = values[k]
  BY EmptySeq
<1>5. VectorInv' /\ InUse' = <<>>
  BY <1>1, <1>2, <1>3, <1>4, BecomesList
<1>6. 0 \in Indexes /\ 0 \in Elem \cup {0}
  BY SmallestIndex
<1>7. L!Results(VecCall("clear", 0, 0)) = {<<>>} /\ L!Answers(VecCall("clear", 0, 0)) = {<<>>}
  BY DEF L!Results, L!Answers, VecCall
<1>8. VecListed
  BY <1>2, <1>5, <1>6, <1>7, Commanded
<1> QED
  BY <1>5, <1>8 DEF VecKept

-----------------------------------------------------------------------------
(* Calls that change elements. *)

LEMMA ChangeKept ==
  ASSUME VectorInv,
         NEW op \in {"push", "insert", "set", "remove", "sort", "resize", "reserve", "shrink"},
         NEW i \in Indexes, NEW v \in Elem \cup {0}, NEW result, Command(op, i, v, result),
         result \in L!Answers(VecCall(op, i, v)),
         NEW block \in Seq(Elem), NEW n \in Nat, n <= Len(block), Becomes(block, n),
         NEW l \in L!Results(VecCall(op, i, v)),
         l \in Seq(Elem), Len(l) = n, \A k \in 1..n : l[k] = block[k]
  PROVE  VecKept
<1>1. ~overrun /\ held' /\ vecCall' = VecCall(op, i, v) /\ vecAnswer' = result
  BY CommandKnown
<1>2. VectorInv' /\ InUse' = l
  BY <1>1, BecomesList
<1>3. VecListed
  BY <1>1, <1>2, Commanded
<1> QED
  BY <1>2, <1>3 DEF VecKept

(* A call that leaves the vector alone when its index is too large.         *)
LEMMA RefusedKept ==
  ASSUME VectorInv, NEW op \in {"set", "remove"}, NEW i \in Indexes,
         NEW v \in Elem \cup {0}, NEW result, Command(op, i, v, result),
         result \in L!Answers(VecCall(op, i, v)), InUse \in L!Results(VecCall(op, i, v)),
         UNCHANGED vec
  PROVE  VecKept
<1>1. vecVersion' = vecVersion /\ vecCall' = VecCall(op, i, v) /\ vecAnswer' = result
  BY CommandKnown
<1>2. VectorInv' /\ InUse' = InUse
  BY <1>1, ReadKept
<1>3. VecListed
  BY <1>1, <1>2, Commanded
<1> QED
  BY <1>2, <1>3 DEF VecKept

LEMMA SetKept ==
  ASSUME NEW i \in Indexes, NEW v \in Elem
  PROVE  VectorInv /\ Set(i, v) => VecKept
<1> SUFFICES ASSUME VectorInv, Set(i, v) PROVE VecKept
  OBVIOUS
<1> DEFINE result == IF i >= vsize THEN <<0>> ELSE <<1>>
<1>1. /\ Command("set", i, v, result)
      /\ IF i >= vsize THEN UNCHANGED vec ELSE Store(values, i, v, vsize)
  BY DEF Set
<1>2. /\ InBlock /\ vsize \in Nat /\ Len(values) \in Nat /\ vsize <= Len(values)
      /\ InUse \in Seq(Elem) /\ Len(InUse) = vsize /\ \A k \in 1..vsize : InUse[k] = values[k]
  <2> HIDE DEF result
  <2> QED
    BY <1>1, CommandKnown
<1>3. i \in Nat /\ v \in Elem \cup {0} /\ values \in Seq(Elem)
  BY <1>2, SmallestIndex DEF InBlock
<1>4. result \in L!Answers(VecCall("set", i, v))
  <2>1. L!Answers(VecCall("set", i, v)) = {IF i < Len(InUse) THEN <<1>> ELSE <<0>>}
    BY VecAnswers
  <2> QED
    BY <1>2, <1>3, <2>1
<1> HIDE DEF result
<1>5. CASE i >= vsize
  <2>1. InUse \in L!Results(VecCall("set", i, v)) /\ UNCHANGED vec
    BY <1>1, <1>2, <1>3, <1>5, VecResults
  <2> QED
    BY <1>1, <1>3, <1>4, <2>1, RefusedKept
<1>6. CASE ~(i >= vsize)
  <2> DEFINE b == [values EXCEPT ![i + 1] = v]
             l == [InUse EXCEPT ![i + 1] = v]
  <2>1. i < Len(values) /\ i < Len(InUse) /\ i + 1 \in 1..Len(values) /\ i + 1 \in 1..Len(InUse)
    BY <1>2, <1>3, <1>6
  <2>2. Becomes(b, vsize)
    BY <1>1, <1>6, <2>1 DEF Store
  <2>3. /\ b \in Seq(Elem) /\ Len(b) = Len(values)
        /\ \A k \in 1..Len(values) : b[k] = IF k = i + 1 THEN v ELSE values[k]
    BY <1>3, <2>1, ExceptSeq
  <2>4. /\ l \in Seq(Elem) /\ Len(l) = Len(InUse)
        /\ \A k \in 1..Len(InUse) : l[k] = IF k = i + 1 THEN v ELSE InUse[k]
    BY <1>2, <2>1, ExceptSeq
  <2>5. l \in L!Results(VecCall("set", i, v))
    <3>1. L!Results(VecCall("set", i, v)) = {[InUse EXCEPT ![i + 1] = v]}
      BY <1>2, <1>3, <2>1, VecResults
    <3> QED
      BY <3>1
  <2> HIDE DEF b, l
  <2>6. \A k \in 1..vsize : l[k] = b[k]
    BY <1>2, <2>3, <2>4
  <2> QED
    BY <1>1, <1>2, <1>3, <1>4, <2>2, <2>3, <2>4, <2>5, <2>6, ChangeKept
<1> QED
  BY <1>5, <1>6

(* The list without the element at place i. *)
LEMMA WithoutIs ==
  ASSUME NEW s \in Seq(Elem), NEW i \in Nat, i < Len(s)
  PROVE  /\ RemoveAt(s, i + 1) \in Seq(Elem) /\ Len(RemoveAt(s, i + 1)) = Len(s) - 1
         /\ \A k \in 1..(Len(s) - 1) :
              RemoveAt(s, i + 1)[k] = IF k > i THEN s[k + 1] ELSE s[k]
<1> DEFINE a == SubSeq(s, 1, i)
           z == SubSeq(s, i + 2, Len(s))
<1>1. Len(s) \in Nat
  BY LenProperties
<1>2. a \in Seq(Elem) /\ Len(a) = i /\ \A k \in 1..i : a[k] = s[k]
  <2>1. 1 \in Nat /\ 1 <= 1 /\ 1 <= i + 1 /\ i <= Len(s) /\ i + 1 - 1 = i
        /\ \A k \in 1..i : 1 + k - 1 = k
    BY <1>1
  <2>2. /\ a \in Seq(Elem) /\ Len(a) = i + 1 - 1
        /\ \A k \in 1..(i + 1 - 1) : a[k] = s[1 + k - 1]
    BY <2>1, PartOf
  <2> QED
    BY <2>1, <2>2
<1>3. z \in Seq(Elem) /\ Len(z) = Len(s) - 1 - i /\ \A k \in 1..(Len(s) - 1 - i) : z[k] = s[i + 1 + k]
  <2>1. /\ i + 2 \in Nat /\ 1 <= i + 2 /\ i + 2 <= Len(s) + 1 /\ Len(s) <= Len(s)
        /\ Len(s) + 1 - (i + 2) = Len(s) - 1 - i
        /\ \A k \in 1..(Len(s) - 1 - i) : i + 2 + k - 1 = i + 1 + k
    BY <1>1
  <2>2. /\ z \in Seq(Elem) /\ Len(z) = Len(s) + 1 - (i + 2)
        /\ \A k \in 1..(Len(s) + 1 - (i + 2)) : z[k] = s[i + 2 + k - 1]
    BY <1>1, <2>1, PartOf
  <2> QED
    BY <2>1, <2>2
<1>4. RemoveAt(s, i + 1) = a \o z
  <2>1. (i + 1) - 1 = i /\ i + 1 + 1 = i + 2
    OBVIOUS
  <2>2. RemoveAt(s, i + 1) = SubSeq(s, 1, (i + 1) - 1) \o SubSeq(s, i + 1 + 1, Len(s))
    BY DEF RemoveAt
  <2> QED
    BY <2>1, <2>2
<1> HIDE DEF a, z
<1>5. /\ a \o z \in Seq(Elem) /\ Len(a \o z) = Len(a) + Len(z)
      /\ \A k \in 1..(Len(a) + Len(z)) : (a \o z)[k] = IF k <= Len(a) THEN a[k] ELSE z[k - Len(a)]
  BY <1>2, <1>3, ConcatProperties
<1>6. Len(a) + Len(z) = Len(s) - 1
  BY <1>1, <1>2, <1>3
<1>7. ASSUME NEW k \in 1..(Len(s) - 1)
      PROVE  (a \o z)[k] = IF k > i THEN s[k + 1] ELSE s[k]
  <2>1. (a \o z)[k] = IF k <= i THEN a[k] ELSE z[k - i]
    BY <1>2, <1>5, <1>6
  <2>2. CASE k <= i
    <3>1. k \in 1..i /\ ~(k > i)
      BY <1>1, <2>2
    <3> QED
      BY <1>2, <2>1, <2>2, <3>1
  <2>3. CASE k > i
    <3>1. k - i \in 1..(Len(s) - 1 - i) /\ i + 1 + (k - i) = k + 1 /\ ~(k <= i)
      BY <1>1, <2>3
    <3>2. z[k - i] = s[k + 1]
      BY <1>3, <3>1
    <3> QED
      BY <2>1, <2>3, <3>1, <3>2
  <2>4. k <= i \/ k > i
    BY <1>1
  <2> QED
    BY <2>2, <2>3, <2>4, Zenon
<1> QED
  BY <1>4, <1>5, <1>6, <1>7

(* The elements behind i move down.                                        *)
LEMMA ClosedKept ==
  ASSUME VectorInv, NEW i \in Indexes, i < vsize,
         Command("remove", i, 0, << 1 >>), Becomes(Closed(i), vsize - 1)
  PROVE  VecKept
<1>1. /\ InBlock /\ vsize \in Nat /\ Len(values) \in Nat /\ vsize <= Len(values)
      /\ InUse \in Seq(Elem) /\ Len(InUse) = vsize /\ \A k \in 1..vsize : InUse[k] = values[k]
  BY CommandKnown
<1>2. /\ i \in Nat /\ 0 \in Elem \cup {0} /\ vsize - 1 \in Nat /\ vsize - 1 <= Len(values)
      /\ i < Len(InUse)
  BY <1>1, SmallestIndex
<1>3. /\ DOMAIN values = 1..Len(values) /\ \A k \in 1..Len(values) : values[k] \in Elem
  <2>1. values \in Seq(Elem)
    BY <1>1 DEF InBlock
  <2> QED
    BY <2>1, LenProperties, ElementOfSeq
<1> DEFINE b == Closed(i)
           l == RemoveAt(InUse, i + 1)
<1>4. b = [k \in 1..Len(values) |-> IF k > i /\ k < vsize THEN values[k + 1] ELSE values[k]]
  BY <1>3 DEF Closed
<1>5. b \in Seq(Elem) /\ Len(b) = Len(values)
  <2>1. \A k \in 1..Len(values) : k > i /\ k < vsize => k + 1 \in 1..Len(values)
    BY <1>1
  <2>2. b \in [1..Len(values) -> Elem]
    BY <1>3, <1>4, <2>1
  <2> HIDE DEF b
  <2>3. b \in Seq(Elem)
    BY <1>1, <2>2, SeqDef
  <2> QED
    BY <1>1, <2>2, <2>3, LenProperties
<1>6. /\ l \in Seq(Elem) /\ Len(l) = vsize - 1
      /\ \A k \in 1..(vsize - 1) : l[k] = IF k > i THEN InUse[k + 1] ELSE InUse[k]
  BY <1>1, <1>2, WithoutIs
<1>7. <<1>> \in L!Answers(VecCall("remove", i, 0)) /\ l \in L!Results(VecCall("remove", i, 0))
  <2>1. L!Answers(VecCall("remove", i, 0)) = {IF i < Len(InUse) THEN <<1>> ELSE <<0>>}
    BY VecAnswers
  <2>2. L!Results(VecCall("remove", i, 0)) = {l}
    BY <1>1, <1>2, VecResults
  <2> QED
    BY <1>2, <2>1, <2>2
<1> HIDE DEF b, l
<1>8. ASSUME NEW k \in 1..(vsize - 1)
      PROVE  l[k] = b[k]
  <2>1. k \in 1..Len(values) /\ k \in 1..vsize /\ k + 1 \in 1..vsize /\ k < vsize
    BY <1>1
  <2> QED
    BY <1>1, <1>4, <1>6, <2>1
<1>9. Becomes(b, vsize - 1)
  BY DEF b
<1> QED
  BY <1>2, <1>5, <1>6, <1>7, <1>8, <1>9, ChangeKept

LEMMA VecRemoveKept ==
  ASSUME NEW i \in Indexes
  PROVE  VectorInv /\ (VectorRemove(i) \/ (CorrectRemove(i) /\ vsize > 0)) => VecKept
<1> SUFFICES ASSUME VectorInv, VectorRemove(i) \/ (CorrectRemove(i) /\ vsize > 0) PROVE VecKept
  OBVIOUS
<1> DEFINE result == IF i >= vsize THEN <<0>> ELSE <<1>>
<1>1. Command("remove", i, 0, result)
  BY DEF VectorRemove, CorrectRemove
<1>2. vsize \in Nat /\ Len(InUse) = vsize
  <2> HIDE DEF result
  <2> QED
    BY <1>1, CommandKnown
<1>3. i \in Nat /\ 0 \in Elem \cup {0}
  BY SmallestIndex
<1>4. CASE i >= vsize
  <2>1. UNCHANGED vec
    <3>1. CASE VectorRemove(i)
      BY <1>4, <3>1 DEF VectorRemove
    <3>2. CASE CorrectRemove(i) /\ vsize > 0
      <4>1. i > vsize - 1 /\ vsize # 0
        BY <1>2, <1>3, <1>4, <3>2
      <4> QED
        BY <1>2, <3>2, <4>1 DEF CorrectRemove
    <3> QED
      BY <3>1, <3>2
  <2>2. result \in L!Answers(VecCall("remove", i, 0)) /\ InUse \in L!Results(VecCall("remove", i, 0))
    <3>1. L!Answers(VecCall("remove", i, 0)) = {IF i < Len(InUse) THEN <<1>> ELSE <<0>>}
      BY VecAnswers
    <3>2. L!Results(VecCall("remove", i, 0)) = {InUse}
      BY <1>2, <1>3, <1>4, VecResults
    <3>3. ~(i < Len(InUse))
      BY <1>2, <1>3, <1>4
    <3> QED
      BY <1>4, <3>1, <3>2, <3>3
  <2> HIDE DEF result
  <2> QED
    BY <1>1, <1>3, <2>1, <2>2, RefusedKept
<1>5. CASE ~(i >= vsize)
  <2>1. i < vsize /\ ~(i > vsize - 1) /\ ~(vsize = 0) /\ Command("remove", i, 0, <<1>>)
    BY <1>1, <1>2, <1>3, <1>5
  <2>2. Becomes(Closed(i), vsize - 1)
    <3>1. CASE VectorRemove(i)
      BY <1>5, <3>1 DEF VectorRemove
    <3>2. CASE CorrectRemove(i)
      BY <2>1, <3>2 DEF CorrectRemove
    <3> QED
      BY <3>1, <3>2
  <2> QED
    BY <2>1, <2>2, ClosedKept
<1> QED
  BY <1>4, <1>5

(* The write outside the block that vector_correct.c makes.                 *)
LEMMA OverrunKept ==
  ASSUME VectorInv, vecVersion = "correct", NEW op, NEW i, NEW v, NEW result,
         Command(op, i, v, result), overrun' = TRUE, UNCHANGED vsize
  PROVE  VecKept
BY DEF VecKept, VecListed, VectorInv, Command

(* A new element behind the others. *)
LEMMA AppendedKept ==
  ASSUME VectorInv, NEW op \in {"push", "insert"}, NEW i \in Indexes, NEW v \in Elem,
         Command(op, i, v, <<>>), Append(InUse, v) \in L!Results(VecCall(op, i, v)),
         NEW block \in Seq(Elem), vsize < Len(block), \A k \in 1..vsize : block[k] = values[k],
         Store(block, vsize, v, vsize + 1)
  PROVE  VecKept
<1> DEFINE b == [block EXCEPT ![vsize + 1] = v]
           l == Append(InUse, v)
<1>1. /\ vsize \in Nat /\ InUse \in Seq(Elem) /\ Len(InUse) = vsize
      /\ \A k \in 1..vsize : InUse[k] = values[k]
  BY CommandKnown
<1>2. Becomes(b, vsize + 1)
  BY DEF Store
<1>3. Len(block) \in Nat /\ vsize + 1 \in 1..Len(block) /\ vsize + 1 \in Nat
  BY <1>1, LenProperties
<1>4. /\ b \in Seq(Elem) /\ Len(b) = Len(block)
      /\ \A k \in 1..Len(block) : b[k] = IF k = vsize + 1 THEN v ELSE block[k]
  BY <1>3, ExceptSeq
<1>5. /\ l \in Seq(Elem) /\ Len(l) = vsize + 1
      /\ \A k \in 1..vsize : l[k] = InUse[k]
      /\ l[vsize + 1] = v
  BY <1>1, AppendProperties
<1>6. l \in L!Results(VecCall(op, i, v))
  OBVIOUS
<1> HIDE DEF b, l
<1>7. ASSUME NEW k \in 1..(vsize + 1)
      PROVE  l[k] = b[k]
  <2>1. k \in 1..Len(block) /\ (k # vsize + 1 => k \in 1..vsize)
    BY <1>1, <1>3
  <2> QED
    BY <1>1, <1>4, <1>5, <2>1
<1>8. <<>> \in L!Answers(VecCall(op, i, v)) /\ v \in Elem \cup {0} /\ vsize + 1 <= Len(b)
  BY <1>3, <1>4, VecAnswers
<1> QED
  BY <1>2, <1>3, <1>4, <1>5, <1>6, <1>7, <1>8, ChangeKept

(* The list with a new element at place i. *)
LEMMA WithIs ==
  ASSUME NEW s \in Seq(Elem), NEW v \in Elem, NEW i \in Nat, i <= Len(s)
  PROVE  /\ InsertAt(s, i + 1, v) \in Seq(Elem) /\ Len(InsertAt(s, i + 1, v)) = Len(s) + 1
         /\ \A k \in 1..(Len(s) + 1) :
              InsertAt(s, i + 1, v)[k] = IF k <= i THEN s[k] ELSE IF k = i + 1 THEN v ELSE s[k - 1]
<1> DEFINE a == SubSeq(s, 1, i)
           z == SubSeq(s, i + 1, Len(s))
           m == a \o <<v>>
<1>1. Len(s) \in Nat
  BY LenProperties
<1>2. a \in Seq(Elem) /\ Len(a) = i /\ \A k \in 1..i : a[k] = s[k]
  <2>1. 1 \in Nat /\ 1 <= 1 /\ 1 <= i + 1 /\ i <= Len(s) /\ (i + 1) - 1 = i
        /\ \A k \in 1..i : (1 + k) - 1 = k
    BY <1>1
  <2>2. /\ a \in Seq(Elem) /\ Len(a) = (i + 1) - 1
        /\ \A k \in 1..((i + 1) - 1) : a[k] = s[(1 + k) - 1]
    BY <2>1, PartOf
  <2> QED
    BY <2>1, <2>2
<1>3. z \in Seq(Elem) /\ Len(z) = Len(s) - i /\ \A k \in 1..(Len(s) - i) : z[k] = s[i + k]
  <2>1. /\ i + 1 \in Nat /\ 1 <= i + 1 /\ i + 1 <= Len(s) + 1 /\ Len(s) <= Len(s)
        /\ (Len(s) + 1) - (i + 1) = Len(s) - i
        /\ \A k \in 1..(Len(s) - i) : i + 1 + k - 1 = i + k
    BY <1>1
  <2>2. /\ z \in Seq(Elem) /\ Len(z) = (Len(s) + 1) - (i + 1)
        /\ \A k \in 1..((Len(s) + 1) - (i + 1)) : z[k] = s[i + 1 + k - 1]
    BY <1>1, <2>1, PartOf
  <2> QED
    BY <2>1, <2>2
<1>4. InsertAt(s, i + 1, v) = m \o z
  <2>1. (i + 1) - 1 = i
    OBVIOUS
  <2>2. InsertAt(s, i + 1, v) = SubSeq(s, 1, (i + 1) - 1) \o <<v>> \o SubSeq(s, i + 1, Len(s))
    BY DEF InsertAt
  <2> QED
    BY <2>1, <2>2
<1> HIDE DEF a, z
<1>5. m \in Seq(Elem) /\ Len(m) = i + 1 /\ \A k \in 1..(i + 1) : m[k] = IF k <= i THEN s[k] ELSE v
  <2>1. <<v>> \in Seq(Elem) /\ Len(<<v>>) = 1 /\ <<v>>[1] = v
    OBVIOUS
  <2>2. /\ a \o <<v>> \in Seq(Elem) /\ Len(a \o <<v>>) = Len(a) + Len(<<v>>)
        /\ \A k \in 1..(Len(a) + Len(<<v>>)) :
             (a \o <<v>>)[k] = IF k <= Len(a) THEN a[k] ELSE <<v>>[k - Len(a)]
    BY <1>2, <2>1, ConcatProperties
  <2>3. ASSUME NEW k \in 1..(i + 1)
        PROVE  m[k] = IF k <= i THEN s[k] ELSE v
    <3>1. m[k] = IF k <= i THEN a[k] ELSE <<v>>[k - i]
      BY <1>2, <2>1, <2>2
    <3>2. CASE k <= i
      BY <1>2, <3>1, <3>2
    <3>3. CASE ~(k <= i)
      <4>1. k - i = 1
        BY <3>3
      <4> QED
        BY <2>1, <3>1, <3>3, <4>1
    <3> QED
      BY <3>2, <3>3
  <2> QED
    BY <1>2, <2>1, <2>2, <2>3
<1> HIDE DEF m
<1>6. /\ m \o z \in Seq(Elem) /\ Len(m \o z) = Len(m) + Len(z)
      /\ \A k \in 1..(Len(m) + Len(z)) : (m \o z)[k] = IF k <= Len(m) THEN m[k] ELSE z[k - Len(m)]
  BY <1>3, <1>5, ConcatProperties
<1>7. Len(m) + Len(z) = Len(s) + 1
  BY <1>1, <1>3, <1>5
<1>8. ASSUME NEW k \in 1..(Len(s) + 1)
      PROVE  (m \o z)[k] = IF k <= i THEN s[k] ELSE IF k = i + 1 THEN v ELSE s[k - 1]
  <2>1. (m \o z)[k] = IF k <= i + 1 THEN m[k] ELSE z[k - (i + 1)]
    BY <1>5, <1>6, <1>7
  <2>2. CASE k <= i + 1
    <3>1. k \in 1..(i + 1) /\ (~(k <= i) => k = i + 1)
      BY <1>1, <2>2
    <3> QED
      BY <1>5, <2>1, <2>2, <3>1
  <2>3. CASE ~(k <= i + 1)
    <3>1. k - (i + 1) \in 1..(Len(s) - i) /\ i + (k - (i + 1)) = k - 1 /\ ~(k <= i) /\ k # i + 1
      BY <1>1, <2>3
    <3>2. z[k - (i + 1)] = s[k - 1]
      BY <1>3, <3>1
    <3> QED
      BY <2>1, <2>3, <3>1, <3>2
  <2> QED
    BY <2>2, <2>3
<1> QED
  BY <1>4, <1>6, <1>7, <1>8

(* A new element at place i, for which the block has made room.             *)
LEMMA InsertedKept ==
  ASSUME VectorInv, NEW i \in Indexes, NEW v \in Elem, Command("insert", i, v, <<>>), i <= vsize,
         NEW block \in Seq(Elem), vsize < Len(block), \A k \in 1..vsize : block[k] = values[k],
         Store(Shifted(block, i), i, v, vsize + 1)
  PROVE  VecKept
<1>1. /\ vsize \in Nat /\ InUse \in Seq(Elem) /\ Len(InUse) = vsize
      /\ \A k \in 1..vsize : InUse[k] = values[k]
  BY CommandKnown
<1>2. /\ i \in Nat /\ Len(block) \in Nat /\ vsize + 1 \in Nat /\ v \in Elem \cup {0}
      /\ DOMAIN block = 1..Len(block) /\ \A k \in 1..Len(block) : block[k] \in Elem
  BY <1>1, SmallestIndex, LenProperties, ElementOfSeq
<1> DEFINE m == Shifted(block, i)
           b == [m EXCEPT ![i + 1] = v]
           l == InsertAt(InUse, i + 1, v)
<1>3. m = [k \in 1..Len(block) |-> IF k > i + 1 /\ k <= vsize + 1 THEN block[k - 1] ELSE block[k]]
  BY <1>2 DEF Shifted
<1>4. m \in Seq(Elem) /\ Len(m) = Len(block)
  <2>1. \A k \in 1..Len(block) : k > i + 1 => k - 1 \in 1..Len(block)
    BY <1>2
  <2>2. m \in [1..Len(block) -> Elem]
    BY <1>2, <1>3, <2>1
  <2> HIDE DEF m
  <2>3. m \in Seq(Elem)
    BY <1>2, <2>2, SeqDef
  <2> QED
    BY <1>2, <2>2, <2>3, LenProperties
<1>5. Store(m, i, v, vsize + 1)
  OBVIOUS
<1> HIDE DEF m
<1>6. i < Len(m) /\ i + 1 \in 1..Len(m)
  BY <1>1, <1>2, <1>4
<1>7. Becomes(b, vsize + 1)
  BY <1>5, <1>6 DEF Store
<1>8. /\ b \in Seq(Elem) /\ Len(b) = Len(block)
      /\ \A k \in 1..Len(block) : b[k] = IF k = i + 1 THEN v ELSE m[k]
  BY <1>4, <1>6, ExceptSeq
<1>9. /\ l \in Seq(Elem) /\ Len(l) = vsize + 1
      /\ \A k \in 1..(vsize + 1) :
           l[k] = IF k <= i THEN InUse[k] ELSE IF k = i + 1 THEN v ELSE InUse[k - 1]
  BY <1>1, <1>2, WithIs
<1>10. l \in L!Results(VecCall("insert", i, v)) /\ <<>> \in L!Answers(VecCall("insert", i, v))
  <2>1. L!Results(VecCall("insert", i, v)) = {l}
    BY <1>1, <1>2, VecResults
  <2> QED
    BY <2>1, VecAnswers
<1> HIDE DEF b, l
<1>11. ASSUME NEW k \in 1..(vsize + 1)
       PROVE  l[k] = b[k]
  <2>1. k \in 1..Len(block)
    BY <1>1, <1>2
  <2>2. CASE k <= i
    <3>1. k \in 1..vsize /\ k # i + 1 /\ ~(k > i + 1)
      BY <1>1, <1>2, <2>2
    <3>2. b[k] = block[k]
      BY <1>3, <1>8, <2>1, <3>1
    <3> QED
      BY <1>1, <1>9, <2>2, <3>1, <3>2
  <2>3. CASE k = i + 1
    <3>1. ~(k <= i)
      BY <1>2, <2>3
    <3> QED
      BY <1>8, <1>9, <2>1, <2>3, <3>1
  <2>4. CASE k > i + 1
    <3>1. k - 1 \in 1..vsize /\ k # i + 1 /\ ~(k <= i) /\ k <= vsize + 1
      BY <1>1, <1>2, <2>4
    <3>2. b[k] = block[k - 1]
      BY <1>3, <1>8, <2>1, <2>4, <3>1
    <3> QED
      BY <1>1, <1>9, <3>1, <3>2
  <2>5. k <= i \/ k = i + 1 \/ k > i + 1
    BY <1>2
  <2> QED
    BY <2>2, <2>3, <2>4, <2>5, Zenon
<1>12. vsize + 1 <= Len(b)
  BY <1>1, <1>2, <1>8
<1> QED
  BY <1>2, <1>7, <1>8, <1>9, <1>10, <1>11, <1>12, ChangeKept

(* At or behind the end, insert appends.                                    *)
LEMMA AppendAnswers ==
  ASSUME VectorInv, NEW i \in Indexes, NEW v \in Elem, InBlock, i >= vsize
  PROVE  Append(InUse, v) \in L!Results(VecCall("insert", i, v))
<1>1. /\ vsize \in Nat /\ InUse \in Seq(Elem) /\ Len(InUse) = vsize /\ i \in Nat
  BY InUseIs, SmallestIndex, LenProperties DEF InBlock
<1>2. CASE i > vsize
  <2>1. L!Results(VecCall("insert", i, v)) = {Append(InUse, v)}
    BY <1>1, <1>2, VecResults
  <2> QED
    BY <2>1
<1>3. CASE i = vsize
  <2> DEFINE l == InsertAt(InUse, i + 1, v)
             a == Append(InUse, v)
  <2>1. L!Results(VecCall("insert", i, v)) = {l}
    BY <1>1, <1>3, VecResults
  <2>2. /\ l \in Seq(Elem) /\ Len(l) = vsize + 1
        /\ \A k \in 1..(vsize + 1) :
             l[k] = IF k <= i THEN InUse[k] ELSE IF k = i + 1 THEN v ELSE InUse[k - 1]
    BY <1>1, <1>3, WithIs, ZenonT(20)
  <2>3. /\ a \in Seq(Elem) /\ Len(a) = vsize + 1
        /\ \A k \in 1..vsize : a[k] = InUse[k]
        /\ a[vsize + 1] = v
    BY <1>1, AppendProperties
  <2> HIDE DEF l, a
  <2>4. ASSUME NEW k \in 1..Len(l)
        PROVE  l[k] = a[k]
    <3>1. k \in 1..(vsize + 1) /\ (k <= i => k \in 1..vsize) /\ (~(k <= i) => k = vsize + 1)
      BY <1>1, <1>3, <2>2
    <3> QED
      BY <1>3, <2>2, <2>3, <3>1
  <2>5. l = a
    BY <2>2, <2>3, <2>4, SeqEqual
  <2> QED
    BY <2>1, <2>5 DEF a
<1> QED
  BY <1>1, <1>2, <1>3

(* push and insert of vector.c find room for one more. *)
LEMMA RoomBlock ==
  ASSUME InBlock, NEW block \in VectorRoom
  PROVE  block \in Seq(Elem) /\ vsize < Len(block) /\ \A k \in 1..vsize : block[k] = values[k]
<1>1. /\ values \in Seq(Elem) /\ vsize \in Nat /\ Len(values) \in Nat /\ vsize <= Len(values)
      /\ vcapacity = Len(values)
  BY LenProperties DEF InBlock
<1>2. CASE vsize = vcapacity
  <2>1. block \in Realloc(Doubled) /\ Doubled \in Nat /\ vsize < Doubled
    BY <1>1, <1>2 DEF VectorRoom, Doubled
  <2>2. /\ block \in Seq(Elem) /\ Len(block) = Doubled
        /\ \A k \in 1..Doubled : k <= Len(values) => block[k] = values[k]
    BY <2>1, ReallocBlock
  <2> QED
    BY <1>1, <1>2, <2>1, <2>2
<1>3. CASE vsize # vcapacity
  BY <1>1, <1>3 DEF VectorRoom
<1> QED
  BY <1>2, <1>3

LEMMA VectorAddsKept ==
  ASSUME NEW i \in Indexes, NEW v \in Elem
  PROVE  VectorInv /\ (VectorPush(v) \/ VectorInsert(i, v)) => VecKept
<1>1. ASSUME VectorInv, VectorPush(v)
      PROVE  VecKept
  <2>1. /\ Command("push", 0, v, <<>>)
        /\ \E block \in VectorRoom : Store(block, vsize, v, vsize + 1)
    BY <1>1 DEF VectorPush
  <2>2. InBlock /\ 0 \in Indexes /\ 0 \in Nat /\ Len(InUse) \in Nat
    BY <1>1, <2>1, CommandKnown, SmallestIndex
  <2>3. PICK block \in VectorRoom : Store(block, vsize, v, vsize + 1)
    BY <2>1
  <2>4. block \in Seq(Elem) /\ vsize < Len(block) /\ \A k \in 1..vsize : block[k] = values[k]
    BY <2>2, RoomBlock
  <2>5. Append(InUse, v) \in L!Results(VecCall("push", 0, v))
    BY <2>2, VecResults
  <2> QED
    BY <1>1, <2>1, <2>2, <2>3, <2>4, <2>5, AppendedKept
<1>2. ASSUME VectorInv, VectorInsert(i, v)
      PROVE  VecKept
  <2>1. Command("insert", i, v, <<>>)
    BY <1>2 DEF VectorInsert
  <2>2. InBlock /\ vsize \in Nat /\ Len(InUse) = vsize /\ i \in Nat /\ v \in Elem \cup {0}
    BY <1>2, <2>1, CommandKnown, SmallestIndex
  <2>3. CASE i > vsize
    <3>1. UNCHANGED vec
      BY <1>2, <2>3 DEF VectorInsert
    <3>2. VectorInv' /\ InUse' = InUse
      BY <1>2, <2>1, <3>1, ReadKept DEF Command, vec
    <3>3. In("vector") /\ vecCall'.op = "insert" /\ vecCall'.i = i /\ vecAnswer' = <<>>
      BY <1>2, <2>1 DEF VectorInsert, Command
    <3>4. InsertIgnored
      BY <2>3, <3>2, <3>3 DEF InsertIgnored
    <3> QED
      BY <3>2, <3>4, Zenon DEF VecKept, VecListed
  <2>4. CASE ~(i > vsize)
    <3>1. PICK block \in VectorRoom : Store(Shifted(block, i), i, v, vsize + 1)
      BY <1>2, <2>4 DEF VectorInsert
    <3>2. block \in Seq(Elem) /\ vsize < Len(block) /\ \A k \in 1..vsize : block[k] = values[k]
      BY <2>2, RoomBlock
    <3>3. i <= vsize
      BY <2>2, <2>4
    <3> QED
      BY <1>2, <2>1, <3>1, <3>2, <3>3, InsertedKept
  <2> QED
    BY <2>3, <2>4
<1> QED
  BY <1>1, <1>2

(* vector_correct.c has room, or goes on to store behind its new block.     *)
LEMMA CorrectRoomIs ==
  ASSUME InBlock, NEW r \in CorrectRoom
  PROVE  \/ r.block = values /\ r.size = vsize /\ vsize < Len(values)
         \/ ~(r.size < Len(r.block)) /\ r.size >= Len(r.block)
<1>1. /\ values \in Seq(Elem) /\ vsize \in Nat /\ Len(values) \in Nat /\ vsize <= Len(values)
      /\ vcapacity = Len(values)
  BY LenProperties DEF InBlock
<1>2. CASE vsize + 1 > vcapacity
  <2>1. PICK b \in Realloc(vcapacity + 1) : r = [block |-> b, size |-> vcapacity + 1]
    BY <1>2 DEF CorrectRoom
  <2>2. Len(b) = vcapacity + 1
    BY <1>1, ReallocBlock
  <2>3. r.size = vcapacity + 1 /\ r.block = b
    BY <2>1
  <2> QED
    BY <1>1, <2>2, <2>3
<1>3. CASE ~(vsize + 1 > vcapacity)
  BY <1>1, <1>3 DEF CorrectRoom
<1> QED
  BY <1>2, <1>3

LEMMA CorrectAddsKept ==
  ASSUME NEW i \in Indexes, NEW v \in Elem
  PROVE  VectorInv /\ (CorrectPush(v) \/ CorrectInsert(i, v)) => VecKept
<1>1. ASSUME VectorInv, CorrectPush(v)
      PROVE  VecKept
  <2>1. vecVersion = "correct" /\ Command("push", 0, v, <<>>)
    BY <1>1 DEF CorrectPush, In
  <2>2. InBlock /\ 0 \in Indexes /\ 0 \in Nat /\ Len(InUse) \in Nat /\ values \in Seq(Elem)
    BY <1>1, <2>1, CommandKnown, SmallestIndex DEF InBlock
  <2>3. PICK r \in CorrectRoom : Store(r.block, r.size, v, r.size + 1)
    BY <1>1 DEF CorrectPush
  <2>4. CASE r.block = values /\ r.size = vsize /\ vsize < Len(values)
    <3>1. Append(InUse, v) \in L!Results(VecCall("push", 0, v))
      <4>1. L!Results(VecCall("push", 0, v)) = {Append(InUse, v)}
        BY <2>2, VecResults
      <4> QED
        BY <4>1
    <3>2. Store(values, vsize, v, vsize + 1)
      BY <2>3, <2>4
    <3> QED
      BY <1>1, <2>1, <2>2, <2>4, <3>1, <3>2, AppendedKept
  <2>5. CASE ~(r.size < Len(r.block))
    <3>1. overrun' = TRUE /\ UNCHANGED vsize
      BY <2>3, <2>5 DEF Store
    <3> QED
      BY <1>1, <2>1, <3>1, OverrunKept
  <2> QED
    BY <2>2, <2>4, <2>5, CorrectRoomIs
<1>2. ASSUME VectorInv, CorrectInsert(i, v)
      PROVE  VecKept
  <2>1. vecVersion = "correct" /\ Command("insert", i, v, <<>>)
    BY <1>2 DEF CorrectInsert, In
  <2>2. /\ InBlock /\ vsize \in Nat /\ Len(values) \in Nat /\ i \in Nat /\ v \in Elem \cup {0}
        /\ values \in Seq(Elem)
    BY <1>2, <2>1, CommandKnown, SmallestIndex DEF InBlock
  <2>3. PICK r \in CorrectRoom :
          IF i >= r.size \/ r.size >= Len(r.block) THEN Store(r.block, r.size, v, r.size + 1)
          ELSE Store(Shifted(r.block, i), i, v, r.size + 1)
    BY <1>2 DEF CorrectInsert
  <2>4. CASE r.block = values /\ r.size = vsize /\ vsize < Len(values) /\ i >= vsize
    <3>1. Store(values, vsize, v, vsize + 1)
      BY <2>3, <2>4
    <3>2. Append(InUse, v) \in L!Results(VecCall("insert", i, v))
      BY <1>2, <2>2, <2>4, AppendAnswers
    <3> QED
      BY <1>2, <2>1, <2>2, <2>4, <3>1, <3>2, AppendedKept
  <2>5. CASE r.block = values /\ r.size = vsize /\ vsize < Len(values) /\ ~(i >= vsize)
    <3>1. ~(r.size >= Len(r.block)) /\ ~(i >= r.size) /\ i <= vsize
      BY <2>2, <2>5
    <3>2. Store(Shifted(values, i), i, v, vsize + 1)
      BY <2>3, <2>5, <3>1
    <3> QED
      BY <1>2, <2>1, <2>2, <2>5, <3>1, <3>2, InsertedKept
  <2>6. CASE ~(r.size < Len(r.block)) /\ r.size >= Len(r.block)
    <3>1. Store(r.block, r.size, v, r.size + 1)
      BY <2>3, <2>6
    <3>2. overrun' = TRUE /\ UNCHANGED vsize
      BY <2>6, <3>1 DEF Store
    <3> QED
      BY <1>2, <2>1, <3>2, OverrunKept
  <2> QED
    BY <2>2, <2>4, <2>5, <2>6, CorrectRoomIs
<1> QED
  BY <1>1, <1>2

-----------------------------------------------------------------------------
(* Size and capacity. *)

(* The block becomes one that starts as it did, with room for what is used. *)
LEMMA ResizedKept ==
  ASSUME VectorInv, NEW n \in Indexes, Command("resize", n, 0, <<>>),
         NEW block \in Seq(Elem), n <= Len(block), Becomes(block, n),
         \A k \in 1..n : k <= vsize => block[k] = values[k]
  PROVE  VecKept
<1>1. /\ vsize \in Nat /\ InUse \in Seq(Elem) /\ Len(InUse) = vsize /\ InBlock
      /\ \A k \in 1..vsize : InUse[k] = values[k]
  BY CommandKnown
<1>2. n \in Nat /\ 0 \in Elem \cup {0} /\ Len(block) \in Nat
  BY SmallestIndex, LenProperties
<1>3. <<>> \in L!Answers(VecCall("resize", n, 0))
  BY VecAnswers
<1>4. CASE n <= vsize
  <2> DEFINE l == SubSeq(InUse, 1, n)
  <2>1. /\ l \in Seq(Elem) /\ Len(l) = n /\ \A k \in 1..n : l[k] = InUse[k]
    <3>1. 1 \in Nat /\ 1 <= 1 /\ 1 <= n + 1 /\ n <= Len(InUse) /\ n + 1 - 1 = n
          /\ \A k \in 1..n : 1 + k - 1 = k
      BY <1>1, <1>2, <1>4
    <3>2. /\ l \in Seq(Elem) /\ Len(l) = n + 1 - 1
          /\ \A k \in 1..(n + 1 - 1) : l[k] = InUse[1 + k - 1]
      BY <1>1, <1>2, <3>1, PartOf
    <3> QED
      BY <3>1, <3>2
  <2>2. l \in L!Results(VecCall("resize", n, 0))
    <3>1. L!Results(VecCall("resize", n, 0)) = {l}
      BY <1>1, <1>2, <1>4, VecResults
    <3> QED
      BY <3>1
  <2> HIDE DEF l
  <2>3. \A k \in 1..n : l[k] = block[k]
    BY <1>1, <1>2, <1>4, <2>1
  <2> QED
    BY <1>2, <1>3, <2>1, <2>2, <2>3, ChangeKept
<1>5. CASE n > vsize
  <2> DEFINE f == [k \in 1..(n - vsize) |-> block[vsize + k]]
             l == InUse \o f
  <2>1. n - vsize \in Nat /\ \A k \in 1..(n - vsize) : vsize + k \in 1..Len(block)
    BY <1>1, <1>2, <1>5
  <2>2. f \in [1..(n - vsize) -> Elem]
    BY <2>1, ElementOfSeq
  <2>3. l \in L!Results(VecCall("resize", n, 0))
    <3>1. L!Results(VecCall("resize", n, 0)) = {InUse \o g : g \in [1..(n - Len(InUse)) -> Elem]}
      BY <1>1, <1>2, <1>5, VecResults
    <3> HIDE DEF f
    <3> QED
      BY <1>1, <2>2, <3>1
  <2>4. \A k \in 1..(n - vsize) : f[k] = block[vsize + k]
    OBVIOUS
  <2> HIDE DEF f
  <2>5. f \in Seq(Elem) /\ Len(f) = n - vsize
    <3>1. f \in Seq(Elem)
      BY <2>1, <2>2, SeqDef
    <3> QED
      BY <2>1, <2>2, <3>1, LenProperties
  <2>6. /\ l \in Seq(Elem) /\ Len(l) = Len(InUse) + Len(f)
        /\ \A k \in 1..(Len(InUse) + Len(f)) :
             l[k] = IF k <= Len(InUse) THEN InUse[k] ELSE f[k - Len(InUse)]
    BY <1>1, <2>5, ConcatProperties, ZenonT(20)
  <2> HIDE DEF l
  <2>7. Len(InUse) + Len(f) = n
    BY <1>1, <1>2, <2>5
  <2>8. ASSUME NEW k \in 1..n
        PROVE  l[k] = block[k]
    <3>1. l[k] = IF k <= vsize THEN InUse[k] ELSE f[k - vsize]
      BY <1>1, <2>6, <2>7
    <3>2. CASE k <= vsize
      BY <1>1, <3>1, <3>2
    <3>3. CASE ~(k <= vsize)
      <4>1. k - vsize \in 1..(n - vsize) /\ vsize + (k - vsize) = k
        BY <1>1, <1>2, <3>3
      <4> QED
        BY <2>4, <3>1, <3>3, <4>1
    <3> QED
      BY <3>2, <3>3
  <2> QED
    BY <1>2, <1>3, <2>3, <2>6, <2>7, <2>8, ChangeKept
<1> QED
  BY <1>1, <1>2, <1>4, <1>5

LEMMA RoomKept ==
  ASSUME VectorInv, NEW op \in {"reserve", "shrink"}, NEW n \in Indexes, Command(op, n, 0, <<>>),
         NEW block \in Seq(Elem), vsize <= Len(block), Becomes(block, vsize),
         \A k \in 1..vsize : block[k] = values[k]
  PROVE  VecKept
<1>1. /\ vsize \in Nat /\ InUse \in Seq(Elem) /\ Len(InUse) = vsize
      /\ \A k \in 1..vsize : InUse[k] = values[k]
  BY CommandKnown
<1>2. n \in Nat /\ 0 \in Elem \cup {0}
  BY SmallestIndex
<1>3. <<>> \in L!Answers(VecCall(op, n, 0)) /\ InUse \in L!Results(VecCall(op, n, 0))
  <2>1. L!Results(VecCall(op, n, 0)) = {InUse}
    BY <1>1, <1>2, VecResults
  <2> QED
    BY <2>1, VecAnswers
<1>4. \A k \in 1..vsize : InUse[k] = block[k]
  BY <1>1
<1> QED
  BY <1>1, <1>2, <1>3, <1>4, ChangeKept

(* realloc, or the block as it is when it is large enough. *)
LEMMA EnoughBlock ==
  ASSUME InBlock, NEW n \in Nat, NEW m \in Nat, n <= m,
         NEW block \in IF n > vcapacity THEN Realloc(m) ELSE {values}
  PROVE  /\ block \in Seq(Elem) /\ n <= Len(block) /\ vsize \in Nat
         /\ \A k \in 1..n : k <= vsize => block[k] = values[k]
         /\ vsize <= Len(block) /\ \A k \in 1..vsize : block[k] = values[k]
<1>1. /\ values \in Seq(Elem) /\ vsize \in Nat /\ Len(values) \in Nat /\ vsize <= Len(values)
      /\ vcapacity = Len(values)
  BY LenProperties DEF InBlock
<1>2. CASE n > vcapacity
  <2>1. /\ block \in Seq(Elem) /\ Len(block) = m
        /\ \A k \in 1..m : k <= Len(values) => block[k] = values[k]
    BY <1>2, ReallocBlock
  <2> QED
    BY <1>1, <1>2, <2>1
<1>3. CASE ~(n > vcapacity)
  BY <1>1, <1>3
<1> QED
  BY <1>2, <1>3

LEMMA VecResizeKept ==
  ASSUME NEW n \in Indexes
  PROVE  VectorInv /\ (VectorResize(n) \/ CorrectResize(n)) => VecKept
<1> SUFFICES ASSUME VectorInv, VectorResize(n) \/ CorrectResize(n) PROVE VecKept
  OBVIOUS
<1>1. Command("resize", n, 0, <<>>)
  BY DEF VectorResize, CorrectResize
<1>2. InBlock /\ n \in Nat
  BY <1>1, CommandKnown, SmallestIndex
<1>3. PICK m \in Nat : n <= m /\ \E block \in IF n > vcapacity THEN Realloc(m) ELSE {values} :
                                   Becomes(block, n)
  <2>1. CASE VectorResize(n) /\ n > vcapacity
    <3>1. PICK c \in Enough(n) : \E block \in Realloc(c) : Becomes(block, n)
      BY <2>1 DEF VectorResize
    <3>2. c \in Nat /\ n <= c
      BY <1>2 DEF Enough
    <3> QED
      BY <2>1, <3>1, <3>2
  <2>2. CASE VectorResize(n) /\ ~(n > vcapacity)
    BY <1>2, <2>2 DEF VectorResize
  <2>3. CASE CorrectResize(n)
    BY <1>2, <2>3 DEF CorrectResize
  <2> QED
    BY <2>1, <2>2, <2>3
<1>4. PICK block \in IF n > vcapacity THEN Realloc(m) ELSE {values} : Becomes(block, n)
  BY <1>3
<1>5. /\ block \in Seq(Elem) /\ n <= Len(block)
      /\ \A k \in 1..n : k <= vsize => block[k] = values[k]
  BY <1>2, <1>3, <1>4, EnoughBlock
<1> QED
  BY <1>1, <1>4, <1>5, ResizedKept

LEMMA VecReserveKept ==
  ASSUME NEW n \in Indexes
  PROVE  VectorInv /\ (VectorReserve(n) \/ CorrectReserve(n)) => VecKept
<1> SUFFICES ASSUME VectorInv, VectorReserve(n) \/ CorrectReserve(n) PROVE VecKept
  OBVIOUS
<1>1. Command("reserve", n, 0, <<>>)
  BY DEF VectorReserve, CorrectReserve
<1>2. InBlock /\ n \in Nat /\ vsize \in Nat
  BY <1>1, CommandKnown, SmallestIndex
<1>3. PICK m \in Nat : \E block \in IF m > vcapacity THEN Realloc(m) ELSE {values} :
                         Becomes(block, vsize)
  <2>1. CASE VectorReserve(n)
    BY <1>2, <2>1 DEF VectorReserve
  <2>2. CASE CorrectReserve(n)
    <3>1. (IF n < vsize THEN vsize ELSE n) \in Nat
      BY <1>2
    <3> QED
      BY <2>2, <3>1 DEF CorrectReserve
  <2> QED
    BY <2>1, <2>2
<1>4. PICK block \in IF m > vcapacity THEN Realloc(m) ELSE {values} : Becomes(block, vsize)
  BY <1>3
<1>5. m <= m
  OBVIOUS
<1>6. block \in Seq(Elem) /\ vsize <= Len(block) /\ \A k \in 1..vsize : block[k] = values[k]
  BY <1>2, <1>4, <1>5, EnoughBlock
<1> QED
  BY <1>1, <1>4, <1>6, RoomKept

LEMMA VecShrinkKept == VectorInv /\ (VectorShrink \/ CorrectShrink) => VecKept
<1> SUFFICES ASSUME VectorInv, VectorShrink \/ CorrectShrink PROVE VecKept
  OBVIOUS
<1>1. Command("shrink", 0, 0, <<>>) /\ 0 \in Indexes
  BY SmallestIndex DEF VectorShrink, CorrectShrink
<1>2. /\ InBlock /\ vsize \in Nat /\ vsize <= Len(values) /\ Len(values) \in Nat
      /\ values \in Seq(Elem)
  BY <1>1, CommandKnown DEF InBlock
<1>3. PICK block \in Realloc(vsize) \cup {values} : Becomes(block, vsize)
  BY DEF VectorShrink, CorrectShrink
<1>4. block \in Seq(Elem) /\ vsize <= Len(block) /\ \A k \in 1..vsize : block[k] = values[k]
  <2>1. CASE block \in Realloc(vsize)
    <3>1. /\ block \in Seq(Elem) /\ Len(block) = vsize
          /\ \A k \in 1..vsize : k <= Len(values) => block[k] = values[k]
      BY <1>2, <2>1, ReallocBlock
    <3> QED
      BY <1>2, <3>1
  <2>2. CASE block = values
    BY <1>2, <2>2
  <2> QED
    BY <2>1, <2>2
<1> QED
  BY <1>1, <1>3, <1>4, RoomKept

-----------------------------------------------------------------------------
(* Sorting. *)

\* The elements that come before that at k, and itself.
Lower(k) == {j \in 1..vsize : values[j] < values[k] \/ (values[j] = values[k] /\ j <= k)}

LEMMA LowerSets ==
  ASSUME InBlock
  PROVE  /\ \A k \in 1..vsize : values[k] \in Int
         /\ \A k \in 1..vsize : /\ IsFiniteSet(Lower(k)) /\ k \in Lower(k)
                                /\ Rank(k) = Cardinality(Lower(k)) /\ Rank(k) \in 1..vsize
<1>1. vsize \in Nat /\ \A k \in 1..vsize : values[k] \in Int
  <2>1. vsize \in Nat /\ \A k \in 1..vsize : k \in 1..Len(values)
    BY LenProperties DEF InBlock
  <2>2. \A k \in 1..Len(values) : values[k] \in Elem
    BY ElementOfSeq DEF InBlock
  <2> QED
    BY <2>1, <2>2, VectorAssumption
<1>2. IsFiniteSet(1..vsize) /\ Cardinality(1..vsize) = vsize
  <2>1. 1 \in Int /\ vsize \in Int /\ (IF 1 > vsize THEN 0 ELSE vsize - 1 + 1) = vsize
    BY <1>1
  <2> QED
    BY <2>1, FS_Interval
<1>3. ASSUME NEW k \in 1..vsize
      PROVE  /\ IsFiniteSet(Lower(k)) /\ k \in Lower(k)
             /\ Rank(k) = Cardinality(Lower(k)) /\ Rank(k) \in 1..vsize
  <2>1. Lower(k) \in SUBSET (1..vsize) /\ k \in Lower(k)
    BY <1>1 DEF Lower
  <2>2. IsFiniteSet(Lower(k)) /\ Cardinality(Lower(k)) <= vsize
    BY <1>2, <2>1, FS_Subset
  <2>3. Cardinality(Lower(k)) \in Nat /\ Cardinality(Lower(k)) # 0
    BY <2>1, <2>2, FS_CardinalityType, FS_EmptySet
  <2>4. Rank(k) = Cardinality(Lower(k))
    BY DEF Rank, Lower
  <2> QED
    BY <1>1, <2>1, <2>2, <2>3, <2>4
<1> QED
  BY <1>1, <1>3

(* Who comes before has the smaller rank. *)
LEMMA RankGrows ==
  ASSUME InBlock, NEW j \in 1..vsize, NEW k \in 1..vsize, j # k, j \in Lower(k)
  PROVE  Rank(j) < Rank(k)
<1>1. /\ \A m \in 1..vsize : values[m] \in Int
      /\ IsFiniteSet(Lower(j)) /\ IsFiniteSet(Lower(k)) /\ k \in Lower(k)
      /\ Rank(j) = Cardinality(Lower(j)) /\ Rank(k) = Cardinality(Lower(k))
      /\ Rank(j) \in Nat /\ Rank(k) \in Nat
  BY LowerSets
<1>2. k \notin Lower(j)
  BY <1>1 DEF Lower
<1>3. Lower(j) \in SUBSET Lower(k)
  <2> SUFFICES ASSUME NEW m \in Lower(j) PROVE m \in Lower(k)
    OBVIOUS
  <2> QED
    BY <1>1 DEF Lower
<1>4. Rank(j) <= Rank(k) /\ (Rank(k) = Rank(j) => Lower(k) = Lower(j))
  BY <1>1, <1>3, FS_Subset
<1> QED
  BY <1>1, <1>2, <1>4

\* Where the element that comes to place k was.
Origin(k) == CHOOSE j \in 1..vsize : Rank(j) = k

LEMMA Ranks ==
  ASSUME InBlock
  PROVE  /\ \A j, k \in 1..vsize : Rank(j) = Rank(k) => j = k
         /\ \A k \in 1..vsize : Origin(k) \in 1..vsize /\ Rank(Origin(k)) = k
<1>1. \A k \in 1..vsize : values[k] \in Int /\ Rank(k) \in 1..vsize /\ Rank(k) \in Int
  BY LowerSets
<1>2. ASSUME NEW j \in 1..vsize, NEW k \in 1..vsize, Rank(j) = Rank(k), j # k
      PROVE  FALSE
  <2>1. j \in Lower(k) \/ k \in Lower(j)
    BY <1>1, <1>2 DEF Lower
  <2> QED
    BY <1>1, <1>2, <2>1, RankGrows
<1> DEFINE r == [k \in 1..vsize |-> Rank(k)]
<1>3. r \in Injection(1..vsize, 1..vsize)
  <2>1. r \in [1..vsize -> 1..vsize]
    BY <1>1
  <2>2. IsInjective(r)
    BY <1>2 DEF IsInjective
  <2> HIDE DEF r
  <2> QED
    BY <2>1, <2>2 DEF Injection
<1>4. IsFiniteSet(1..vsize)
  <2>1. 1 \in Int /\ vsize \in Int
    BY LenProperties DEF InBlock
  <2> QED
    BY <2>1, FS_Interval
<1>5. r \in Surjection(1..vsize, 1..vsize)
  <2> HIDE DEF r
  <2> QED
    BY <1>3, <1>4, FS_Injection
<1>6. \A k \in 1..vsize : \E j \in 1..vsize : Rank(j) = k
  <2>1. \A k \in 1..vsize : \E j \in 1..vsize : r[j] = k
    <3> HIDE DEF r
    <3> QED
      BY <1>5 DEF Surjection
  <2> QED
    BY <2>1
<1>7. \A k \in 1..vsize : Origin(k) \in 1..vsize /\ Rank(Origin(k)) = k
  BY <1>6 DEF Origin
<1> QED
  BY <1>2, <1>7

(* The block is sorted by moving its elements, and they are in order.        *)
LEMMA SortedIs ==
  ASSUME InBlock
  PROVE  /\ [k \in DOMAIN InUse |-> InUse[Origin(k)]] \in L!Permuted(InUse)
         /\ \A j, k \in 1..vsize : j <= k => values[Origin(j)] <= values[Origin(k)]
<1>1. /\ InUse \in Seq(Elem) /\ Len(InUse) = vsize /\ DOMAIN InUse = 1..vsize
  BY InUseIs, LenProperties
<1>2. \A k \in 1..vsize : values[k] \in Int /\ Rank(k) \in 1..vsize
  BY LowerSets
<1> DEFINE p == [k \in 1..vsize |-> Origin(k)]
<1>3. p \in [1..vsize -> 1..vsize] /\ \A k \in 1..vsize : p[k] = Origin(k) /\ Rank(p[k]) = k
  BY Ranks
<1>4. p \in L!Bijection(1..vsize, 1..vsize)
  <2> HIDE DEF p
  <2>1. L!IsInjective(p)
    BY <1>3 DEF L!IsInjective
  <2>2. p \in L!Injection(1..vsize, 1..vsize)
    BY <1>3, <2>1 DEF L!Injection
  <2>3. ASSUME NEW j \in 1..vsize
        PROVE  p[Rank(j)] = j
    <3>1. Rank(j) \in 1..vsize
      BY <1>2
    <3>2. p[Rank(j)] \in 1..vsize /\ Rank(p[Rank(j)]) = Rank(j)
      BY <1>3, <3>1
    <3> QED
      BY <3>2, Ranks
  <2>4. p \in L!Surjection(1..vsize, 1..vsize)
    BY <1>2, <1>3, <2>3 DEF L!Surjection
  <2> QED
    BY <2>2, <2>4 DEF L!Bijection
<1>5. [k \in DOMAIN InUse |-> InUse[Origin(k)]] \in L!Permuted(InUse)
  <2>1. [k \in DOMAIN InUse |-> InUse[Origin(k)]] = [k \in DOMAIN InUse |-> InUse[p[k]]]
    BY <1>1, <1>3
  <2> HIDE DEF p
  <2> QED
    BY <1>1, <1>4, <2>1 DEF L!Permuted
<1>6. ASSUME NEW j \in 1..vsize, NEW k \in 1..vsize, j <= k,
             ~(values[Origin(j)] <= values[Origin(k)])
      PROVE  FALSE
  <2> DEFINE a == Origin(j)
             z == Origin(k)
  <2>1. a \in 1..vsize /\ z \in 1..vsize /\ Rank(a) = j /\ Rank(z) = k
    BY Ranks
  <2>2. ~(values[a] <= values[z])
    BY <1>6
  <2> HIDE DEF a, z
  <2>3. z \in Lower(a) /\ z # a
    BY <1>2, <2>1, <2>2 DEF Lower
  <2>4. Rank(z) < Rank(a)
    BY <2>1, <2>3, RankGrows
  <2> QED
    BY <1>6, <2>1, <2>4
<1> QED
  BY <1>5, <1>6

LEMMA SortKept == VectorInv /\ Sort => VecKept
<1> SUFFICES ASSUME VectorInv, Sort PROVE VecKept
  OBVIOUS
<1>1. Command("sort", 0, 0, <<>>) /\ Becomes(Sorted, vsize)
  BY DEF Sort
<1>2. /\ InBlock /\ vsize \in Nat /\ vsize <= Len(values) /\ Len(values) \in Nat
      /\ InUse \in Seq(Elem) /\ Len(InUse) = vsize /\ \A k \in 1..vsize : InUse[k] = values[k]
  BY <1>1, CommandKnown
<1>3. /\ DOMAIN values = 1..Len(values) /\ \A k \in 1..Len(values) : values[k] \in Elem
      /\ DOMAIN InUse = 1..vsize
  <2>1. values \in Seq(Elem)
    BY <1>2 DEF InBlock
  <2> QED
    BY <1>2, <2>1, LenProperties, ElementOfSeq
<1>4. \A k \in 1..vsize : Origin(k) \in 1..vsize
  BY <1>2, Ranks
<1> DEFINE b == Sorted
           l == [k \in DOMAIN InUse |-> InUse[Origin(k)]]
<1>5. b = [k \in 1..Len(values) |-> IF k <= vsize THEN values[Origin(k)] ELSE values[k]]
  BY <1>3 DEF Sorted, Origin
<1>6. b \in Seq(Elem) /\ Len(b) = Len(values)
  <2>1. \A k \in 1..Len(values) : k <= vsize => Origin(k) \in 1..Len(values)
    BY <1>2, <1>4
  <2>2. b \in [1..Len(values) -> Elem]
    BY <1>3, <1>5, <2>1
  <2> HIDE DEF b
  <2>3. b \in Seq(Elem)
    BY <1>2, <2>2, SeqDef
  <2> QED
    BY <1>2, <2>2, <2>3, LenProperties
<1>7. l = [k \in 1..vsize |-> InUse[Origin(k)]]
  BY <1>3
<1>8. l \in Seq(Elem) /\ Len(l) = vsize
  <2>1. \A k \in 1..vsize : InUse[k] \in Elem
    BY <1>2, ElementOfSeq
  <2>2. l \in [1..vsize -> Elem]
    BY <1>4, <1>7, <2>1
  <2> HIDE DEF l
  <2>3. l \in Seq(Elem)
    BY <1>2, <2>2, SeqDef
  <2> QED
    BY <1>2, <2>2, <2>3, LenProperties
<1>9. \A k \in 1..vsize : l[k] = values[Origin(k)]
  BY <1>2, <1>4, <1>7
<1>10. l \in L!Permuted(InUse) /\ \A j, k \in 1..vsize : j <= k => values[Origin(j)] <= values[Origin(k)]
  BY <1>2, SortedIs
<1> HIDE DEF b, l
<1>11. L!Ascending(l)
  <2>1. DOMAIN l = 1..vsize
    BY <1>7
  <2> QED
    BY <1>9, <1>10, <2>1 DEF L!Ascending
<1>12. l \in L!Results(VecCall("sort", 0, 0)) /\ <<>> \in L!Answers(VecCall("sort", 0, 0))
  <2>1. L!Results(VecCall("sort", 0, 0)) = {m \in L!Permuted(InUse) : L!Ascending(m)}
    BY <1>2, VecResults
  <2> QED
    BY <1>10, <1>11, <2>1, VecAnswers
<1>13. \A k \in 1..vsize : l[k] = b[k]
  <2>1. \A k \in 1..vsize : k \in 1..Len(values) /\ k <= vsize
    BY <1>2
  <2> QED
    BY <1>5, <1>9, <2>1
<1>14. 0 \in Indexes /\ 0 \in Elem \cup {0}
  BY SmallestIndex
<1>15. Becomes(b, vsize)
  BY <1>1 DEF b
<1> QED
  BY <1>1, <1>2, <1>6, <1>8, <1>12, <1>13, <1>14, <1>15, ChangeKept

-----------------------------------------------------------------------------
(* Every step of both versions. *)

LEMMA CorrectRemoveKept ==
  ASSUME NEW i \in Indexes
  PROVE  VectorInv /\ CorrectRemove(i) => VecKept
<1> SUFFICES ASSUME VectorInv, CorrectRemove(i) PROVE VecKept
  OBVIOUS
<1> DEFINE result == IF i >= vsize THEN <<0>> ELSE <<1>>
<1>1. Command("remove", i, 0, result) /\ vecVersion = "correct"
  BY DEF CorrectRemove, In
<1>2. vsize \in Nat
  <2> HIDE DEF result
  <2> QED
    BY <1>1, CommandKnown
<1>3. CASE vsize = 0
  <2>1. ~(vsize > 0)
    BY <1>3
  <2>2. overrun' = TRUE /\ UNCHANGED vsize
    BY <1>3, <2>1 DEF CorrectRemove
  <2> HIDE DEF result
  <2> QED
    BY <1>1, <2>2, OverrunKept
<1>4. CASE vsize > 0
  BY <1>4, VecRemoveKept
<1> QED
  BY <1>2, <1>3, <1>4

LEMMA VectorCommandKept == VectorInv /\ VectorCommand => VecKept
<1>1. VectorInv /\ (VectorNewFails \/ VectorFree \/ VectorSort \/ VectorShrink \/ VectorClear \/ VectorSize)
        => VecKept
  BY NewFailsKept, ReleaseKept, SortKept, VecShrinkKept, VecClearKept, SizeKept, Zenon
     DEF VectorFree, VectorSort, VectorClear, VectorSize
<1>2. ASSUME NEW n \in Indexes
      PROVE  VectorInv /\ (VectorNew(n) \/ VectorGet(n) \/ VectorRemove(n) \/ VectorResize(n) \/ VectorReserve(n))
               => VecKept
  BY VecNewKept, GetKept, VecRemoveKept, VecResizeKept, VecReserveKept, Zenon DEF VectorNew, VectorGet
<1>3. ASSUME NEW v \in Elem
      PROVE  VectorInv /\ (VectorPush(v) \/ VectorFind(v) \/ VectorBsearch(v)) => VecKept
  <2>1. VectorInv /\ VectorPush(v) => VecKept
    BY SmallestIndex, VectorAddsKept, Zenon
  <2> QED
    BY <2>1, FindKept, BsearchKept, Zenon DEF VectorFind, VectorBsearch
<1>4. ASSUME NEW i \in Indexes, NEW v \in Elem
      PROVE  VectorInv /\ (VectorInsert(i, v) \/ VectorSet(i, v)) => VecKept
  BY VectorAddsKept, SetKept, Zenon DEF VectorSet
<1> QED
  BY <1>1, <1>2, <1>3, <1>4, Zenon DEF VectorCommand

LEMMA CorrectCommandKept == VectorInv /\ CorrectCommand => VecKept
<1>1. VectorInv /\ (CorrectFree \/ CorrectSort \/ CorrectShrink \/ CorrectClear \/ CorrectSize) => VecKept
  BY ReleaseKept, SortKept, VecShrinkKept, VecClearKept, SizeKept, Zenon
     DEF CorrectFree, CorrectSort, CorrectClear, CorrectSize
<1>2. ASSUME NEW n \in Indexes
      PROVE  VectorInv /\ (CorrectNew(n) \/ CorrectGet(n) \/ CorrectRemove(n) \/ CorrectResize(n) \/ CorrectReserve(n))
               => VecKept
  BY VecNewKept, GetKept, CorrectRemoveKept, VecResizeKept, VecReserveKept, Zenon DEF CorrectNew, CorrectGet
<1>3. ASSUME NEW v \in Elem
      PROVE  VectorInv /\ (CorrectPush(v) \/ CorrectFind(v) \/ CorrectBsearch(v)) => VecKept
  <2>1. VectorInv /\ CorrectPush(v) => VecKept
    BY SmallestIndex, CorrectAddsKept, Zenon
  <2> QED
    BY <2>1, FindKept, BsearchKept, Zenon DEF CorrectFind, CorrectBsearch
<1>4. ASSUME NEW i \in Indexes, NEW v \in Elem
      PROVE  VectorInv /\ (CorrectInsert(i, v) \/ CorrectSet(i, v)) => VecKept
  BY CorrectAddsKept, SetKept, Zenon DEF CorrectSet
<1> QED
  BY <1>1, <1>2, <1>3, <1>4, Zenon DEF CorrectCommand

LEMMA VectorInitInv == VectorInit => VectorInv /\ L!ListInit
<1> SUFFICES ASSUME VectorInit PROVE VectorInv /\ L!ListInit
  OBVIOUS
<1>1. /\ held = FALSE /\ values = <<>> /\ vsize = 0 /\ vcapacity = 0 /\ overrun = FALSE
      /\ vecCall = NoCommand /\ vecAnswer = <<>>
  BY DEF VectorInit
<1>2. <<>> \in Seq(Elem) /\ Len(<<>>) = 0 /\ 0 \in 0..0
  BY EmptySeq
<1>3. InBlock
  BY <1>1, <1>2 DEF InBlock
<1>4. InUse = <<>>
  BY <1>1, NothingInUse DEF InUse
<1> QED
  BY <1>1, <1>3, <1>4 DEF VectorInv, L!ListInit, NoCommand

LEMMA VectorInvariant == VectorSpec => []VectorInv
<1>1. VectorInv /\ VectorNext => VectorInv'
  BY VectorCommandKept, CorrectCommandKept, Zenon DEF VectorNext, VecKept
<1>2. VectorInv /\ UNCHANGED vecVars => VectorInv'
  BY ReadKept DEF vecVars
<1>3. VectorInv /\ [VectorNext]_vecVars => VectorInv'
  BY <1>1, <1>2, Zenon
<1> QED
  BY VectorInitInv, <1>3, PTL DEF VectorSpec

(* No call of vector.c touches memory outside the block, in whatever order  *)
(* push, insert, resize, reserve, shrink and clear change size and capacity. *)
THEOREM VectorStaysInBounds == VectorSpec => []VectorInBounds
<1>1. VectorInv => VectorInBounds
  BY LenProperties DEF VectorInv, VectorInBounds, InBlock
<1> QED
  BY VectorInvariant, <1>1, PTL

(* Every call of vector.c and vector_correct.c, up to the first write outside *)
(* the block, does and answers what the same call of a list does, but for   *)
(* the insert past the end, for which vector.c does nothing.               *)
THEOREM VectorsAreLists == VectorSpec => VectorIsList
<1>1. VectorInv /\ [VectorNext]_vecVars =>
        [overrun' \/ InsertIgnored \/ \E c \in VectorCalls : L!Perform(c)]_vecVars
  BY VectorCommandKept, CorrectCommandKept, Zenon DEF VectorNext, VecKept, VecListed
<1> QED
  BY VectorInitInv, VectorInvariant, <1>1, PTL DEF VectorSpec, VectorIsList

-----------------------------------------------------------------------------
(* Strings. *)

(* A string whose calls never relied on a capacity it had outgrown holds    *)
(* its characters and, behind them, a zero.                                *)
StrTypes ==
  /\ exists \in BOOLEAN /\ outside \in BOOLEAN /\ damaged \in BOOLEAN
  /\ text \in Seq(Int) /\ length \in Nat /\ capa \in Nat

Whole ==
  exists /\ ~damaged =>
    /\ length < Len(text) /\ text[length + 1] = Nul
    /\ \A k \in 1..length : text[k] \in Char

StrInv == StrTypes /\ Whole /\ (outside => exists /\ damaged)

(* The characters b would hold with length n. *)
Holding(b, n) ==
  /\ b \in Seq(Int) /\ n \in Nat /\ n < Len(b) /\ b[n + 1] = Nul
  /\ \A k \in 1..n : b[k] \in Char

LEMMA FirstOf ==
  ASSUME NEW b \in Seq(Int), NEW n \in Nat, n <= Len(b)
  PROVE  /\ SubSeq(b, 1, n) \in Seq(Int) /\ Len(SubSeq(b, 1, n)) = n
         /\ \A k \in 1..n : SubSeq(b, 1, n)[k] = b[k]
<1>1. \A k \in 1..n : b[k] \in Int
  BY ElementOfSeq, LenProperties
<1>2. 1 \in Int /\ n \in Int
  OBVIOUS
<1>3. /\ SubSeq(b, 1, n) \in Seq(Int)
      /\ Len(SubSeq(b, 1, n)) = IF 1 <= n THEN n - 1 + 1 ELSE 0
      /\ \A k \in 1..(n - 1 + 1) : SubSeq(b, 1, n)[k] = b[1 + k - 1]
  BY <1>1, <1>2, SubSeqProperties
<1> QED
  BY <1>3

LEMMA CharactersAre ==
  ASSUME StrInv, exists, length <= Len(text)
  PROVE  /\ Characters \in Seq(Int) /\ Len(Characters) = length
         /\ \A k \in 1..length : Characters[k] = text[k]
BY FirstOf DEF StrInv, StrTypes, Characters

LEMMA TextTyped ==
  ASSUME NEW s \in Texts
  PROVE  /\ s \in Seq(Char) /\ s \in Seq(Int) /\ Len(s) \in Nat
         /\ \A k \in 1..Len(s) : s[k] \in Char
<1>1. s \in Seq(Char) /\ Char \subseteq Int
  BY StringAssumption
<1>2. \A k \in 1..Len(s) : s[k] \in Char
  BY <1>1, ElementOfSeq
<1>3. Len(s) \in Nat /\ s \in [1..Len(s) -> Int]
  BY <1>1, <1>2, LenProperties
<1>4. s \in Seq(Int)
  BY <1>3, SeqDef
<1> QED
  BY <1>1, <1>2, <1>3, <1>4

LEMMA CStringFacts ==
  ASSUME NEW s \in Seq(Int)
  PROVE  /\ CString(s) \in Seq(Int) /\ Len(CString(s)) = Len(s) + 1
         /\ CString(s)[Len(s) + 1] = Nul
         /\ \A k \in 1..Len(s) : CString(s)[k] = s[k]
BY AppendProperties DEF CString, Nul

LEMMA ResizedFacts ==
  ASSUME StrTypes, NEW n \in Nat
  PROVE  /\ Resized(n) \in Seq(Int) /\ Len(Resized(n)) = n
         /\ \A k \in 1..n : k <= Len(text) => Resized(n)[k] = text[k]
<1>1. \A k \in 1..n : (IF k <= Len(text) THEN text[k] ELSE Unset) \in Int
  <2> SUFFICES ASSUME NEW k \in 1..n, k <= Len(text) PROVE text[k] \in Int
    BY DEF Unset
  <2>1. text \in Seq(Int) /\ k \in 1..Len(text)
    BY LenProperties DEF StrTypes
  <2> QED
    BY <2>1, ElementOfSeq
<1>2. Resized(n) \in [1..n -> Int]
  BY <1>1 DEF Resized
<1>3. Resized(n) \in Seq(Int)
  BY <1>2, SeqDef
<1>4. Len(Resized(n)) = n
  BY <1>2, <1>3, LenProperties
<1> QED
  BY <1>3, <1>4 DEF Resized

LEMMA OverFacts ==
  ASSUME NEW b \in Seq(Int), NEW i \in Nat, NEW s \in Seq(Int)
  PROVE  /\ Over(b, i, s) \in Seq(Int) /\ Len(Over(b, i, s)) = Len(b)
         /\ \A k \in 1..Len(b) :
              Over(b, i, s)[k] = IF k > i /\ k <= i + Len(s) THEN s[k - i] ELSE b[k]
<1>1. DOMAIN b = 1..Len(b) /\ Len(b) \in Nat /\ Len(s) \in Nat
  BY LenProperties
<1>2. \A k \in 1..Len(b) : (IF k > i /\ k <= i + Len(s) THEN s[k - i] ELSE b[k]) \in Int
  <2> SUFFICES ASSUME NEW k \in 1..Len(b)
               PROVE  (IF k > i /\ k <= i + Len(s) THEN s[k - i] ELSE b[k]) \in Int
    OBVIOUS
  <2>1. b[k] \in Int
    BY ElementOfSeq
  <2>2. k > i /\ k <= i + Len(s) => k - i \in 1..Len(s)
    BY <1>1
  <2>3. k > i /\ k <= i + Len(s) => s[k - i] \in Int
    BY <2>2, ElementOfSeq
  <2> QED
    BY <2>1, <2>3
<1>3. Over(b, i, s) \in [1..Len(b) -> Int]
  BY <1>1, <1>2 DEF Over
<1>4. Over(b, i, s) \in Seq(Int)
  BY <1>1, <1>3, SeqDef
<1>5. Len(Over(b, i, s)) = Len(b)
  BY <1>1, <1>3, <1>4, LenProperties
<1> QED
  BY <1>1, <1>4, <1>5 DEF Over

(* The results of the list for the calls of a string. *)
LEMMA ListResults ==
  ASSUME NEW v, NEW s
  PROVE  /\ \A op \in {"new", "clear", "free"} : C!Results(StrCall(op, v, s)) = {<<>>}
         /\ C!Results(StrCall("push", v, s)) = {Append(Characters, v)}
         /\ C!Results(StrCall("append", v, s)) = {Characters \o s}
         /\ C!Results(StrCall("prepend", v, s)) = {s \o Characters}
         /\ \A op \in {"from", "exactly"} : C!Results(StrCall(op, v, s)) = {s}
         /\ C!Results(StrCall("failed", v, s)) = {Characters}
         /\ v \notin 1..Len(Characters) => C!Results(StrCall("realloc", v, s)) = {Characters}
BY DEF C!Results, StrCall

LEMMA ListAnswers ==
  ASSUME NEW v, NEW s,
         NEW op \in {"new", "from", "failed", "realloc", "free", "push", "append", "prepend",
                     "clear", "exactly"}
  PROVE  C!Answers(StrCall(op, v, s)) = {<<>>}
BY DEF C!Answers, StrCall

(* A call of a string is one of the list with that result. *)
LEMMA Performed ==
  ASSUME NEW v \in Char \cup (0..MaxLength), NEW s \in Texts \cup {<<>>},
         NEW op \in {"new", "from", "failed", "realloc", "free", "push", "append", "prepend",
                     "clear", "exactly"},
         strCall' = StrCall(op, v, s), Characters' \in C!Results(StrCall(op, v, s))
  PROVE  \E c \in StringCalls : C!Perform(c)
<1>1. StrCall(op, v, s) \in StringCalls
  BY DEF StrCall, StringCalls
<1>2. C!Perform(StrCall(op, v, s))
  BY ListAnswers DEF C!Perform
<1> QED
  BY <1>1, <1>2

(* strlen finds the first zero. *)
LEMMA StrLenFacts ==
  ASSUME NEW b \in Seq(Int)
  PROVE  \/ StrLen(b) = -1 /\ \A k \in 1..Len(b) : b[k] # Nul
         \/ /\ StrLen(b) \in Nat /\ StrLen(b) + 1 \in 1..Len(b) /\ b[StrLen(b) + 1] = Nul
            /\ \A k \in 1..Len(b) : b[k] = Nul => StrLen(b) + 1 <= k
<1> DEFINE S == {k \in DOMAIN b : b[k] = Nul}
<1>1. DOMAIN b = 1..Len(b) /\ Len(b) \in Nat
  BY LenProperties
<1>2. CASE S = {}
  BY <1>1, <1>2 DEF StrLen
<1>3. CASE S # {}
  <2>1. Min(S) \in S /\ \A k \in S : Min(S) <= k
    <3>1. S \subseteq Nat
      BY <1>1
    <3> HIDE DEF S
    <3> QED
      BY <1>3, <3>1, LeastNatural
  <2>2. StrLen(b) = Min(S) - 1
    BY <1>3 DEF StrLen
  <2> DEFINE m == Min(S)
  <2>3. m \in 1..Len(b) /\ b[m] = Nul /\ \A k \in 1..Len(b) : b[k] = Nul => m <= k
    BY <1>1, <2>1
  <2> HIDE DEF m
  <2>4. StrLen(b) = m - 1
    BY <2>2 DEF m
  <2> QED
    BY <1>1, <2>3, <2>4
<1> QED
  BY <1>2, <1>3

LEMMA StrLenIs ==
  ASSUME NEW b \in Seq(Int), NEW n \in Nat, n < Len(b), b[n + 1] = Nul,
         \A k \in 1..n : b[k] # Nul
  PROVE  StrLen(b) = n
<1>1. Len(b) \in Nat /\ n + 1 \in 1..Len(b)
  BY LenProperties
<1>2. /\ StrLen(b) \in Nat /\ StrLen(b) + 1 \in 1..Len(b) /\ b[StrLen(b) + 1] = Nul
      /\ StrLen(b) + 1 <= n + 1
  BY <1>1, StrLenFacts
<1>3. ~(StrLen(b) + 1 \in 1..n)
  BY <1>2
<1> QED
  BY <1>1, <1>2, <1>3

-----------------------------------------------------------------------------
(* The calls of a string, one by one: each keeps the invariant, stays        *)
(* inside its block and does what the list does.                           *)

Inside ==
  /\ outside' => capa <= length \/ damaged
  /\ exists /\ exists' /\ capa > length /\ capa' <= length' => strCall'.op = "prepend"

Listed == damaged' \/ (Terminated' /\ (NothingCut \/ \E c \in StringCalls : C!Perform(c)))

Kept == StrInv' /\ Inside /\ Listed

LEMMA ZeroIs == 0 \in Char \cup (0..MaxLength) /\ <<>> \in Texts \cup {<<>>}
BY StringAssumption

(* A string that is made of s, new or in place of another. *)
LEMMA MakesKept ==
  ASSUME StrInv, NEW s \in Texts \cup {<<>>}, NEW op \in {"new", "from", "exactly"},
         op = "new" => s = <<>>,
         strCall' = StrCall(op, 0, s), exists' = TRUE, ~outside, damaged' = FALSE,
         Holds(CString(s), Len(s), Len(s) + 1)
  PROVE  Kept
<1>1. /\ s \in Seq(Int) /\ Len(s) \in Nat
      /\ \A k \in 1..Len(s) : s[k] \in Char
  <2>1. CASE s \in Texts
    BY <2>1, TextTyped
  <2>2. CASE s = <<>>
    BY <2>2, EmptySeq
  <2> QED
    BY <2>1, <2>2
<1>2. /\ CString(s) \in Seq(Int) /\ Len(CString(s)) = Len(s) + 1
      /\ CString(s)[Len(s) + 1] = Nul
      /\ \A k \in 1..Len(s) : CString(s)[k] = s[k]
  BY <1>1, CStringFacts
<1>3. /\ text' = CString(s) /\ length' = Len(s) /\ capa' = Len(s) + 1 /\ outside' = FALSE
  BY DEF Holds, StrInv, StrTypes
<1>4. StrInv'
  <2>1. StrTypes'
    <3>1. exists' \in BOOLEAN /\ outside' \in BOOLEAN /\ damaged' \in BOOLEAN
      BY <1>3
    <3>2. text' \in Seq(Int)
      BY <1>2, <1>3
    <3>3. length' \in Nat /\ capa' \in Nat
      BY <1>1, <1>3
    <3> QED
      BY <3>1, <3>2, <3>3 DEF StrTypes
  <2>2. Whole'
    BY <1>1, <1>2, <1>3 DEF Whole
  <2> QED
    BY <1>3, <2>1, <2>2 DEF StrInv
<1>5. Inside
  BY <1>1, <1>3 DEF Inside
<1>6. Characters' = s
  <2>1. Characters' = SubSeq(CString(s), 1, Len(s))
    BY <1>3 DEF Characters
  <2>2. /\ SubSeq(CString(s), 1, Len(s)) \in Seq(Int)
        /\ Len(SubSeq(CString(s), 1, Len(s))) = Len(s)
        /\ \A k \in 1..Len(s) : SubSeq(CString(s), 1, Len(s))[k] = s[k]
    BY <1>1, <1>2, FirstOf
  <2> QED
    BY <1>1, <2>1, <2>2, SeqEqual
<1>7. Terminated'
  BY <1>1, <1>2, <1>3 DEF Terminated
<1>8. \E c \in StringCalls : C!Perform(c)
  <2>1. Characters' \in C!Results(StrCall(op, 0, s))
    BY <1>6, ListResults
  <2> QED
    BY <2>1, ZeroIs, Performed
<1> QED
  BY <1>4, <1>5, <1>7, <1>8 DEF Kept, Listed

(* A call that fails changes nothing but what was called. *)
LEMMA FailedKept ==
  ASSUME StrInv, NEW s \in Texts \cup {<<>>}, UNCHANGED str, strCall' = StrCall("failed", 0, s),
         exists => ~outside
  PROVE  Kept
<1>1. StrInv' /\ Inside
  BY DEF StrInv, StrTypes, Whole, Inside, str
<1>2. damaged' \/ Terminated'
  BY DEF Terminated, StrInv, StrTypes, Whole, str
<1>3. Characters' = Characters
  BY DEF Characters, str
<1>4. Characters' \in C!Results(StrCall("failed", 0, s))
  BY <1>3, ListResults
<1>5. \E c \in StringCalls : C!Perform(c)
  BY <1>4, ZeroIs, Performed
<1> QED
  BY <1>1, <1>2, <1>5 DEF Kept, Listed

LEMMA PrependFailsKept ==
  ASSUME NEW s \in Texts
  PROVE  StrInv /\ StringPrependFails(s) => Kept
BY FailedKept DEF StringPrependFails, Calling, str

LEMMA FreeKept == StrInv /\ StringFree => Kept
<1> SUFFICES ASSUME StrInv, StringFree PROVE Kept
  OBVIOUS
<1>1. /\ ~exists' /\ text' = <<>> /\ length' = 0 /\ capa' = 0 /\ outside' = FALSE
      /\ damaged' = damaged /\ exists' = FALSE /\ strCall' = StrCall("free", 0, <<>>)
  BY DEF StringFree, Holds, StrInv, StrTypes
<1>2. StrInv'
  BY <1>1, EmptySeq DEF StrInv, StrTypes, Whole
<1>3. Inside /\ Terminated' /\ Characters' = <<>>
  BY <1>1 DEF Inside, Terminated, Characters
<1>4. Characters' \in C!Results(StrCall("free", 0, <<>>))
  BY <1>3, ListResults
<1> QED
  BY <1>1, <1>2, <1>3, <1>4, ZeroIs, Performed DEF Kept, Listed

(* What the calls of a string that exists have in common. *)
LEMMA CallingKnown ==
  ASSUME StrInv, NEW op, NEW v, NEW s, Calling(op, v, s)
  PROVE  /\ exists = TRUE /\ exists' = TRUE /\ outside = FALSE /\ strCall' = StrCall(op, v, s)
         /\ strCall'.op = op
BY DEF Calling, StrInv, StrTypes, StrCall

(* The new block holds the characters that the list then has. *)
LEMMA HoldsKept ==
  ASSUME StrInv, exists = TRUE, exists' = TRUE, outside = FALSE,
         NEW op \in {"append", "prepend", "clear", "push", "realloc"},
         NEW v \in Char \cup (0..MaxLength), NEW s \in Texts \cup {<<>>},
         strCall' = StrCall(op, v, s),
         NEW b \in Seq(Int), NEW n \in Nat, NEW c \in Nat, Holds(b, n, c),
         capa > length /\ c <= n => op = "prepend",
         damaged' \in BOOLEAN,
         ~damaged' => /\ Holding(b, n)
                      /\ \/ NothingCut
                         \/ \E l \in C!Results(StrCall(op, v, s)) :
                              /\ l \in Seq(Int) /\ Len(l) = n
                              /\ \A k \in 1..n : l[k] = b[k]
  PROVE  Kept
<1>1. text' = b /\ length' = n /\ capa' = c /\ outside' = FALSE
  BY DEF Holds
<1>2. StrInv'
  <2>1. StrTypes'
    BY <1>1 DEF StrTypes
  <2>2. Whole'
    BY <1>1 DEF Whole, Holding
  <2> QED
    BY <1>1, <2>1, <2>2 DEF StrInv
<1>3. Inside
  BY <1>1 DEF Inside, StrCall
<1>4. ASSUME ~damaged', ~NothingCut
      PROVE  \E k \in StringCalls : C!Perform(k)
  <2>1. Holding(b, n)
    BY <1>4
  <2>3. PICK l \in C!Results(StrCall(op, v, s)) :
          l \in Seq(Int) /\ Len(l) = n /\ \A k \in 1..n : l[k] = b[k]
    BY <1>4
  <2>4. /\ SubSeq(b, 1, n) \in Seq(Int) /\ Len(SubSeq(b, 1, n)) = n
        /\ \A k \in 1..n : SubSeq(b, 1, n)[k] = b[k]
    <3>1. n <= Len(b)
      BY <2>1, LenProperties DEF Holding
    <3> QED
      BY <3>1, FirstOf
  <2>5. SubSeq(b, 1, n) = l
    BY <2>3, <2>4, SeqEqual
  <2>6. Characters' = l
    BY <1>1, <2>5 DEF Characters
  <2> QED
    BY <2>3, <2>6, Performed
<1>5. damaged' \/ Terminated'
  BY <1>1 DEF Terminated, Holding
<1> QED
  BY <1>2, <1>3, <1>4, <1>5 DEF Kept, Listed

(* A call that leaves the block leaves it damaged. *)
LEMMA BreaksKept ==
  ASSUME StrInv, exists = TRUE, exists' = TRUE, Breaks, damaged' = TRUE,
         capa <= length \/ damaged
  PROVE  Kept
<1>1. outside' = TRUE /\ UNCHANGED <<text, length, capa>>
  BY DEF Breaks
<1>2. StrInv' /\ Listed
  BY <1>1 DEF StrInv, StrTypes, Whole, Listed
<1>3. Inside
  BY <1>1 DEF Inside, StrInv, StrTypes
<1> QED
  BY <1>2, <1>3 DEF Kept

(* The characters of a string that is whole. *)
LEMMA WholeKnown ==
  ASSUME StrInv, exists = TRUE, ~damaged
  PROVE  /\ Holding(text, length)
         /\ Characters \in Seq(Int) /\ Len(Characters) = length
         /\ \A k \in 1..length : Characters[k] = text[k] /\ text[k] # Nul
<1>1. Holding(text, length)
  BY DEF Holding, StrInv, StrTypes, Whole
<1>2. length <= Len(text)
  BY <1>1, LenProperties DEF Holding
<1>3. \A k \in 1..length : text[k] # Nul
  BY <1>1, StringAssumption DEF Holding, Nul
<1> QED
  BY <1>1, <1>2, <1>3, CharactersAre

LEMMA ClearKept == StrInv /\ StringClear => Kept
<1> SUFFICES ASSUME StrInv, StringClear PROVE Kept
  OBVIOUS
<1>1. /\ exists = TRUE /\ exists' = TRUE /\ outside = FALSE
      /\ strCall' = StrCall("clear", 0, <<>>) /\ damaged' = damaged
      /\ Holds(Over(text, 0, <<Nul>>), 0, capa)
  BY CallingKnown DEF StringClear
<1>2. text \in Seq(Int) /\ <<Nul>> \in Seq(Int) /\ Len(<<Nul>>) = 1 /\ capa \in Nat
      /\ damaged \in BOOLEAN
  BY DEF StrInv, StrTypes, Nul
<1>3. /\ Over(text, 0, <<Nul>>) \in Seq(Int) /\ Len(Over(text, 0, <<Nul>>)) = Len(text)
      /\ 1 <= Len(text) => Over(text, 0, <<Nul>>)[1] = Nul
  <2> DEFINE z == <<Nul>>
  <2>1. z \in Seq(Int) /\ Len(z) = 1 /\ z[1] = Nul /\ 0 \in Nat /\ Len(text) \in Nat
    BY <1>2, LenProperties
  <2> HIDE DEF z
  <2>2. /\ Over(text, 0, z) \in Seq(Int) /\ Len(Over(text, 0, z)) = Len(text)
        /\ \A k \in 1..Len(text) :
             Over(text, 0, z)[k] = IF k > 0 /\ k <= 0 + Len(z) THEN z[k - 0] ELSE text[k]
    BY <1>2, <2>1, OverFacts
  <2>3. 1 <= Len(text) => Over(text, 0, z)[1] = Nul
    BY <2>1, <2>2
  <2> QED
    BY <2>2, <2>3 DEF z
<1>4. ASSUME ~damaged
      PROVE  Holding(Over(text, 0, <<Nul>>), 0)
  <2>1. 1 \in 1..Len(text) /\ 0 < Len(text)
    BY <1>1, <1>2, <1>4, WholeKnown, LenProperties DEF Holding, StrInv, StrTypes
  <2>2. Over(text, 0, <<Nul>>)[1] = Nul
    BY <1>3, <2>1
  <2> QED
    BY <1>3, <2>1, <2>2 DEF Holding
<1>5. \E l \in C!Results(StrCall("clear", 0, <<>>)) :
        l \in Seq(Int) /\ Len(l) = 0 /\ \A k \in 1..0 : l[k] = Over(text, 0, <<Nul>>)[k]
  <2>1. C!Results(StrCall("clear", 0, <<>>)) = {<<>>}
    BY ListResults
  <2>2. <<>> \in Seq(Int) /\ Len(<<>>) = 0 /\ 1..0 = {}
    OBVIOUS
  <2> QED
    BY <2>1, <2>2
<1>6. ~(capa > length /\ capa <= 0)
  BY <1>2 DEF StrInv, StrTypes
<1> HIDE DEF Over
<1> QED
  BY <1>1, <1>2, <1>3, <1>4, <1>5, <1>6, ZeroIs, HoldsKept

LEMMA AppendKept ==
  ASSUME NEW s \in Texts
  PROVE  StrInv /\ StringAppend(s) => Kept
<1> SUFFICES ASSUME StrInv, StringAppend(s) PROVE Kept
  OBVIOUS
<1> DEFINE w == Resized(length + Len(s) + 1)
           t == CString(s)
           b == Over(w, length, t)
           n == length + Len(s)
<1>1. /\ exists = TRUE /\ exists' = TRUE /\ outside = FALSE
      /\ strCall' = StrCall("append", 0, s) /\ damaged' = damaged
      /\ Holds(b, n, n + 1)
  BY CallingKnown DEF StringAppend
<1>2. /\ s \in Seq(Int) /\ Len(s) \in Nat /\ length \in Nat /\ damaged \in BOOLEAN
      /\ n \in Nat /\ n + 1 \in Nat /\ \A k \in 1..Len(s) : s[k] \in Char
  BY TextTyped DEF StrInv, StrTypes
<1>3. /\ w \in Seq(Int) /\ Len(w) = n + 1
      /\ \A k \in 1..(n + 1) : k <= Len(text) => w[k] = text[k]
  BY <1>2, ResizedFacts DEF StrInv
<1>4. /\ t \in Seq(Int) /\ Len(t) = Len(s) + 1 /\ t[Len(s) + 1] = Nul
      /\ \A k \in 1..Len(s) : t[k] = s[k]
  BY <1>2, CStringFacts
<1> HIDE DEF w, t
<1>5. /\ b \in Seq(Int) /\ Len(b) = n + 1
      /\ \A k \in 1..(n + 1) :
           b[k] = IF k > length /\ k <= length + Len(t) THEN t[k - length] ELSE w[k]
  BY <1>2, <1>3, <1>4, OverFacts
<1> HIDE DEF b
<1>6. ASSUME ~damaged
      PROVE  /\ Holding(b, n)
             /\ \E l \in C!Results(StrCall("append", 0, s)) :
                  l \in Seq(Int) /\ Len(l) = n /\ \A k \in 1..n : l[k] = b[k]
  <2>1. /\ length < Len(text) /\ (\A k \in 1..length : text[k] \in Char)
        /\ Characters \in Seq(Int) /\ Len(Characters) = length
        /\ \A k \in 1..length : Characters[k] = text[k]
    BY <1>1, <1>6, WholeKnown DEF Holding
  <2>2. Len(text) \in Nat
    BY LenProperties DEF StrInv, StrTypes
  <2>3. \A k \in 1..length : b[k] = text[k]
    <3> SUFFICES ASSUME NEW k \in 1..length PROVE b[k] = text[k]
      OBVIOUS
    <3>1. k \in 1..(n + 1) /\ ~(k > length) /\ k <= Len(text)
      BY <1>2, <2>1, <2>2
    <3> QED
      BY <3>1, <1>3, <1>5
  <2>4. \A k \in 1..Len(s) : b[length + k] = s[k]
    <3> SUFFICES ASSUME NEW k \in 1..Len(s) PROVE b[length + k] = s[k]
      OBVIOUS
    <3>1. length + k \in 1..(n + 1) /\ length + k > length /\ length + k <= length + Len(t)
          /\ (length + k) - length = k
      BY <1>2, <1>4
    <3> QED
      BY <3>1, <1>4, <1>5
  <2>5. b[n + 1] = Nul
    BY <1>2, <1>4, <1>5, SMTT(20)
  <2>6. \A k \in 1..n : b[k] \in Char
    <3> SUFFICES ASSUME NEW k \in 1..n PROVE b[k] \in Char
      OBVIOUS
    <3>1. CASE k <= length
      BY <3>1, <2>1, <2>3
    <3>2. CASE k > length
      <4>1. k - length \in 1..Len(s) /\ length + (k - length) = k
        BY <3>2, <1>2
      <4> QED
        BY <4>1, <2>4, <1>2
    <3> QED
      BY <3>1, <3>2, <1>2
  <2>7. Holding(b, n)
    BY <1>2, <1>5, <2>5, <2>6 DEF Holding
  <2> DEFINE l == Characters \o s
  <2>8. /\ l \in Seq(Int) /\ Len(l) = n
        /\ \A k \in 1..n : l[k] = IF k <= length THEN Characters[k] ELSE s[k - length]
    BY <1>2, <2>1, ConcatProperties
  <2>9. l \in C!Results(StrCall("append", 0, s))
    <3>1. C!Results(StrCall("append", 0, s)) = {Characters \o s}
      BY ListResults
    <3> QED
      BY <3>1
  <2> HIDE DEF l
  <2>10. \A k \in 1..n : l[k] = b[k]
    <3> SUFFICES ASSUME NEW k \in 1..n PROVE l[k] = b[k]
      OBVIOUS
    <3>1. CASE k <= length
      <4>1. k \in 1..length
        BY <3>1, <1>2
      <4>2. l[k] = Characters[k]
        BY <3>1, <2>8
      <4> QED
        BY <4>1, <4>2, <2>1, <2>3
    <3>2. CASE k > length
      <4>1. k - length \in 1..Len(s) /\ length + (k - length) = k /\ ~(k <= length)
        BY <3>2, <1>2
      <4>2. l[k] = s[k - length]
        BY <4>1, <2>8
      <4>3. b[length + (k - length)] = s[k - length]
        BY <4>1, <2>4
      <4> QED
        BY <4>1, <4>2, <4>3
    <3> QED
      BY <3>1, <3>2, <1>2
  <2> QED
    BY <2>7, <2>8, <2>9, <2>10
<1>7. ~(capa > length /\ n + 1 <= n)
  BY <1>2
<1> HIDE DEF n
<1> QED
  BY <1>1, <1>2, <1>5, <1>6, <1>7, ZeroIs, HoldsKept

(* string_prepend moves the characters and the zero behind them, then writes *)
(* s over the gap.                                                         *)
LEMMA PrependKept ==
  ASSUME NEW s \in Texts
  PROVE  StrInv /\ StringPrepend(s) => Kept
<1> SUFFICES ASSUME StrInv, StringPrepend(s) PROVE Kept
  OBVIOUS
<1> DEFINE w == Resized(length + Len(s) + 1)
           t == SubSeq(w, 1, length + 1)
           moved == Over(w, Len(s), t)
           b == Over(moved, 0, s)
           n == length + Len(s)
<1>1. /\ exists = TRUE /\ exists' = TRUE /\ outside = FALSE
      /\ strCall' = StrCall("prepend", 0, s) /\ damaged' = damaged
      /\ Holds(b, n, capa)
  BY CallingKnown DEF StringPrepend
<1>2. /\ s \in Seq(Int) /\ Len(s) \in Nat /\ length \in Nat /\ damaged \in BOOLEAN
      /\ n \in Nat /\ n + 1 \in Nat /\ capa \in Nat /\ \A k \in 1..Len(s) : s[k] \in Char
  BY TextTyped DEF StrInv, StrTypes
<1>3. /\ w \in Seq(Int) /\ Len(w) = n + 1
      /\ \A k \in 1..(n + 1) : k <= Len(text) => w[k] = text[k]
  BY <1>2, ResizedFacts DEF StrInv
<1> HIDE DEF w
<1>4. /\ t \in Seq(Int) /\ Len(t) = length + 1
      /\ \A k \in 1..(length + 1) : t[k] = w[k]
  <2>1. length + 1 \in Nat /\ length + 1 <= Len(w)
    BY <1>2, <1>3
  <2> QED
    BY <1>3, <2>1, FirstOf
<1> HIDE DEF t
<1>5. /\ moved \in Seq(Int) /\ Len(moved) = n + 1
      /\ \A k \in 1..(n + 1) :
           moved[k] = IF k > Len(s) /\ k <= Len(s) + Len(t) THEN t[k - Len(s)] ELSE w[k]
  <2>1. /\ moved \in Seq(Int) /\ Len(moved) = Len(w)
        /\ \A k \in 1..Len(w) :
             moved[k] = IF k > Len(s) /\ k <= Len(s) + Len(t) THEN t[k - Len(s)] ELSE w[k]
    BY <1>2, <1>3, <1>4, OverFacts
  <2> HIDE DEF moved, n
  <2> QED
    BY <2>1, <1>3
<1> HIDE DEF moved
<1>6. /\ b \in Seq(Int) /\ Len(b) = n + 1
      /\ \A k \in 1..(n + 1) :
           b[k] = IF k > 0 /\ k <= 0 + Len(s) THEN s[k - 0] ELSE moved[k]
  <2>1. 0 \in Nat
    OBVIOUS
  <2> QED
    BY <2>1, <1>2, <1>5, OverFacts
<1> HIDE DEF b
<1>7. ASSUME ~damaged
      PROVE  /\ Holding(b, n)
             /\ \E l \in C!Results(StrCall("prepend", 0, s)) :
                  l \in Seq(Int) /\ Len(l) = n /\ \A k \in 1..n : l[k] = b[k]
  <2>1. /\ length < Len(text) /\ text[length + 1] = Nul /\ (\A k \in 1..length : text[k] \in Char)
        /\ Characters \in Seq(Int) /\ Len(Characters) = length
        /\ \A k \in 1..length : Characters[k] = text[k]
    BY <1>1, <1>7, WholeKnown DEF Holding
  <2>2. Len(text) \in Nat
    BY LenProperties DEF StrInv, StrTypes
  <2>3. \A k \in 1..Len(s) : b[k] = s[k]
    BY <1>2, <1>6
  <2>4. \A k \in 1..(length + 1) : t[k] = text[k]
    <3> SUFFICES ASSUME NEW k \in 1..(length + 1) PROVE t[k] = text[k]
      OBVIOUS
    <3>1. k \in 1..(n + 1) /\ k <= Len(text)
      BY <1>2, <2>1, <2>2
    <3> QED
      BY <1>3, <1>4, <3>1
  <2>5. \A k \in 1..(length + 1) : b[Len(s) + k] = text[k]
    <3> SUFFICES ASSUME NEW k \in 1..(length + 1) PROVE b[Len(s) + k] = text[k]
      OBVIOUS
    <3>1. Len(s) + k \in 1..(n + 1) /\ Len(s) + k > Len(s) /\ Len(s) + k <= Len(s) + Len(t)
          /\ (Len(s) + k) - Len(s) = k
      BY <1>2, <1>4
    <3>2. moved[Len(s) + k] = t[k]
      BY <1>5, <3>1
    <3>3. b[Len(s) + k] = moved[Len(s) + k]
      BY <1>2, <1>6, <3>1
    <3> QED
      BY <2>4, <3>2, <3>3
  <2>6. b[n + 1] = Nul
    <3>1. length + 1 \in 1..(length + 1) /\ Len(s) + (length + 1) = n + 1
      BY <1>2
    <3> QED
      BY <3>1, <2>1, <2>5
  <2>7. \A k \in 1..n : b[k] \in Char
    <3> SUFFICES ASSUME NEW k \in 1..n PROVE b[k] \in Char
      OBVIOUS
    <3>1. CASE k <= Len(s)
      BY <3>1, <1>2, <2>3
    <3>2. CASE k > Len(s)
      <4>1. k - Len(s) \in 1..length /\ k - Len(s) \in 1..(length + 1)
            /\ Len(s) + (k - Len(s)) = k
        BY <3>2, <1>2
      <4> QED
        BY <4>1, <2>1, <2>5
    <3> QED
      BY <3>1, <3>2, <1>2
  <2>8. Holding(b, n)
    BY <1>2, <1>6, <2>6, <2>7 DEF Holding
  <2> DEFINE l == s \o Characters
  <2>9. /\ l \in Seq(Int) /\ Len(l) = n
        /\ \A k \in 1..n : l[k] = IF k <= Len(s) THEN s[k] ELSE Characters[k - Len(s)]
    <3>1. /\ l \in Seq(Int) /\ Len(l) = Len(s) + length
          /\ \A k \in 1..(Len(s) + length) :
               l[k] = IF k <= Len(s) THEN s[k] ELSE Characters[k - Len(s)]
      BY <1>2, <2>1, ConcatProperties
    <3>2. Len(s) + length = n
      BY <1>2
    <3> QED
      BY <3>1, <3>2
  <2>10. l \in C!Results(StrCall("prepend", 0, s))
    <3>1. C!Results(StrCall("prepend", 0, s)) = {s \o Characters}
      BY ListResults
    <3> QED
      BY <3>1
  <2> HIDE DEF l
  <2>11. \A k \in 1..n : l[k] = b[k]
    <3> SUFFICES ASSUME NEW k \in 1..n PROVE l[k] = b[k]
      OBVIOUS
    <3>1. CASE k <= Len(s)
      <4>1. k \in 1..Len(s)
        BY <3>1, <1>2
      <4>2. l[k] = s[k]
        BY <3>1, <2>9
      <4> QED
        BY <4>1, <4>2, <2>3
    <3>2. CASE k > Len(s)
      <4>1. k - Len(s) \in 1..length /\ k - Len(s) \in 1..(length + 1)
            /\ Len(s) + (k - Len(s)) = k
        BY <3>2, <1>2
      <4>2. ~(k <= Len(s))
        BY <3>2, <1>2
      <4> QED
        BY <4>1, <4>2, <2>1, <2>5, <2>9
    <3> QED
      BY <3>1, <3>2, <1>2
  <2> QED
    BY <2>8, <2>9, <2>10, <2>11
<1> HIDE DEF n
<1> QED
  BY <1>1, <1>2, <1>6, <1>7, ZeroIs, HoldsKept

(* What a call that goes by the capacity leaves in damaged. *)
LEMMA ReliesKnown ==
  ASSUME StrInv, Relies
  PROVE  /\ damaged' \in BOOLEAN /\ (damaged' <=> damaged \/ capa <= length)
         /\ ~damaged' => ~damaged /\ capa > length
         /\ damaged' = TRUE \/ damaged' = FALSE
<1>1. damaged \in BOOLEAN /\ (capa <= length) \in BOOLEAN /\ damaged' = (damaged \/ capa <= length)
  BY DEF StrInv, StrTypes, Relies
<1>2. damaged' \in BOOLEAN /\ (damaged' <=> damaged \/ capa <= length)
  BY <1>1, Zenon
<1>3. capa <= length \/ capa > length
  BY DEF StrInv, StrTypes
<1> QED
  BY <1>2, <1>3, Zenon

(* While the capacity is right, strlen finds the length and the block has    *)
(* room for one character more.                                            *)
LEMMA PushFinds ==
  ASSUME StrInv, exists = TRUE, ~damaged, capa > length
  PROVE  /\ StrLen(Resized(capa + 1)) = length
         /\ \A k \in 1..length : Resized(capa + 1)[k] = text[k]
<1> DEFINE b == Resized(capa + 1)
<1>1. /\ length \in Nat /\ capa \in Nat /\ capa + 1 \in Nat /\ text \in Seq(Int)
      /\ Len(text) \in Nat
  BY LenProperties DEF StrInv, StrTypes
<1>2. /\ length < Len(text) /\ text[length + 1] = Nul
      /\ \A k \in 1..length : text[k] # Nul
  BY WholeKnown DEF Holding
<1>3. /\ b \in Seq(Int) /\ Len(b) = capa + 1
      /\ \A k \in 1..(capa + 1) : k <= Len(text) => b[k] = text[k]
  BY <1>1, ResizedFacts DEF StrInv
<1> HIDE DEF b
<1>4. \A k \in 1..(length + 1) : b[k] = text[k]
  <2> SUFFICES ASSUME NEW k \in 1..(length + 1) PROVE b[k] = text[k]
    OBVIOUS
  <2>1. k \in 1..(capa + 1) /\ k <= Len(text)
    BY <1>1, <1>2
  <2> QED
    BY <1>3, <2>1
<1>5. \A k \in 1..length : b[k] = text[k] /\ b[k] # Nul
  <2> SUFFICES ASSUME NEW k \in 1..length PROVE b[k] = text[k] /\ b[k] # Nul
    OBVIOUS
  <2>1. k \in 1..(length + 1)
    BY <1>1
  <2> QED
    BY <1>2, <1>4, <2>1
<1>6. length < Len(b) /\ b[length + 1] = Nul
  <2>1. length + 1 \in 1..(length + 1)
    BY <1>1
  <2> QED
    BY <1>1, <1>2, <1>3, <1>4, <2>1
<1>7. StrLen(b) = length
  BY <1>1, <1>3, <1>5, <1>6, StrLenIs
<1> QED
  BY <1>5, <1>7 DEF b

LEMMA PushKept ==
  ASSUME NEW c \in Char
  PROVE  StrInv /\ StringPush(c) => Kept
<1> SUFFICES ASSUME StrInv, StringPush(c) PROVE Kept
  OBVIOUS
<1> DEFINE w == Resized(capa + 1)
           n == StrLen(w)
           t == <<c, Nul>>
           b == Over(w, n, t)
<1>1. /\ exists = TRUE /\ exists' = TRUE /\ outside = FALSE
      /\ strCall' = StrCall("push", c, <<>>) /\ Relies
  BY CallingKnown DEF StringPush
<1>2. IF n # -1 /\ Fits(w, n, t) THEN Holds(b, n + 1, n + 2) ELSE Breaks
  BY DEF StringPush
<1>3. /\ length \in Nat /\ capa \in Nat /\ capa + 1 \in Nat
      /\ w \in Seq(Int) /\ Len(w) = capa + 1
  BY ResizedFacts DEF StrInv, StrTypes
<1>4. t \in Seq(Int) /\ Len(t) = 2 /\ t[1] = c /\ t[2] = Nul /\ c \in Char
  BY StringAssumption DEF Nul
<1>5. n = -1 \/ n \in Nat
  BY <1>3, StrLenFacts
<1>6. ASSUME ~damaged'
      PROVE  /\ n = length /\ ~damaged /\ capa > length
             /\ \A k \in 1..length : w[k] = text[k]
  BY <1>1, <1>6, ReliesKnown, PushFinds
<1> HIDE DEF w, n, t
<1>7. CASE ~(n # -1 /\ Fits(w, n, t))
  <2>1. Breaks
    BY <1>2, <1>7, Zenon
  <2>2. damaged'
    <3> SUFFICES ASSUME ~damaged' PROVE FALSE
      OBVIOUS
    <3>1. n = length /\ capa > length
      BY <1>6
    <3> QED
      BY <1>3, <1>4, <1>7, <3>1 DEF Fits
  <2>3. damaged' = TRUE /\ (capa <= length \/ damaged)
    BY <1>1, <2>2, ReliesKnown, Zenon
  <2> QED
    BY <1>1, <2>1, <2>3, BreaksKept
<1>8. CASE n # -1 /\ Fits(w, n, t)
  <2>1. n \in Nat /\ n + 1 \in Nat /\ n + 2 \in Nat /\ n + 2 <= capa + 1
    BY <1>3, <1>4, <1>5, <1>8 DEF Fits
  <2>2. /\ b \in Seq(Int) /\ Len(b) = Len(w)
        /\ \A k \in 1..Len(w) :
             b[k] = IF k > n /\ k <= n + Len(t) THEN t[k - n] ELSE w[k]
    BY <1>3, <1>4, <2>1, OverFacts
  <2>3. Holds(b, n + 1, n + 2)
    BY <1>2, <1>8, Zenon
  <2> HIDE DEF b
  <2>4. ASSUME ~damaged'
        PROVE  /\ Holding(b, n + 1)
               /\ \E l \in C!Results(StrCall("push", c, <<>>)) :
                    l \in Seq(Int) /\ Len(l) = n + 1 /\ \A k \in 1..(n + 1) : l[k] = b[k]
    <3>1. /\ n = length /\ (\A k \in 1..n : w[k] = text[k] /\ text[k] \in Char)
          /\ Characters \in Seq(Int) /\ Len(Characters) = n
          /\ \A k \in 1..n : Characters[k] = text[k]
      BY <1>1, <1>6, <2>4, WholeKnown DEF Holding
    <3>2. \A k \in 1..n : b[k] = text[k]
      <4> SUFFICES ASSUME NEW k \in 1..n PROVE b[k] = text[k]
        OBVIOUS
      <4>1. k \in 1..Len(w) /\ ~(k > n)
        BY <1>3, <2>1
      <4> QED
        BY <2>2, <3>1, <4>1
    <3>3. b[n + 1] = c /\ b[(n + 1) + 1] = Nul
      <4>1. /\ n + 1 \in 1..Len(w) /\ n + 1 > n /\ n + 1 <= n + Len(t) /\ (n + 1) - n = 1
            /\ (n + 1) + 1 \in 1..Len(w) /\ (n + 1) + 1 > n /\ (n + 1) + 1 <= n + Len(t)
            /\ ((n + 1) + 1) - n = 2
        BY <1>3, <1>4, <2>1
      <4> QED
        BY <1>4, <2>2, <4>1
    <3>4. n + 1 < Len(b)
      BY <1>3, <2>1, <2>2
    <3>5. \A k \in 1..(n + 1) : b[k] \in Char
      <4> SUFFICES ASSUME NEW k \in 1..(n + 1) PROVE b[k] \in Char
        OBVIOUS
      <4>1. k \in 1..n \/ k = n + 1
        BY <2>1
      <4> QED
        BY <1>4, <3>1, <3>2, <3>3, <4>1
    <3>6. Holding(b, n + 1)
      BY <2>1, <2>2, <3>3, <3>4, <3>5 DEF Holding
    <3> DEFINE l == Append(Characters, c)
    <3>7. /\ l \in Seq(Int) /\ Len(l) = n + 1 /\ l[n + 1] = c
          /\ \A k \in 1..n : l[k] = Characters[k]
      <4>1. c \in Int
        BY StringAssumption
      <4> QED
        BY <3>1, <4>1, AppendProperties
    <3>8. l \in C!Results(StrCall("push", c, <<>>))
      <4>1. C!Results(StrCall("push", c, <<>>)) = {Append(Characters, c)}
        BY ListResults
      <4> QED
        BY <4>1
    <3> HIDE DEF l
    <3>9. \A k \in 1..(n + 1) : l[k] = b[k]
      <4> SUFFICES ASSUME NEW k \in 1..(n + 1) PROVE l[k] = b[k]
        OBVIOUS
      <4>1. k \in 1..n \/ k = n + 1
        BY <2>1
      <4> QED
        BY <3>1, <3>2, <3>3, <3>7, <4>1
    <3> QED
      BY <3>6, <3>7, <3>8, <3>9
  <2>5. ~(capa > length /\ n + 2 <= n + 1)
    BY <2>1
  <2>6. damaged' \in BOOLEAN
    BY <1>1, ReliesKnown
  <2> QED
    BY <1>1, <2>1, <2>2, <2>3, <2>4, <2>5, <2>6, ZeroIs, HoldsKept
<1> QED
  BY <1>7, <1>8

(* Where the capacity is right, string_realloc shortens nothing. *)
LEMMA ReallocKept ==
  ASSUME NEW n \in 0..MaxLength
  PROVE  StrInv /\ StringRealloc(n) => Kept
<1> SUFFICES ASSUME StrInv, StringRealloc(n) PROVE Kept
  OBVIOUS
<1> DEFINE b == IF n > capa THEN Resized(n) ELSE text
           c == IF n > capa THEN n ELSE capa
           z == <<Nul>>
           o == Over(b, length - 2, z)
<1>1. /\ exists = TRUE /\ exists' = TRUE /\ outside = FALSE
      /\ strCall' = StrCall("realloc", n, <<>>) /\ Relies
  BY CallingKnown DEF StringRealloc
<1>2. (CASE c > length -> Holds(b, length, c)
         [] c <= length /\ length - 2 \in 0..(Len(b) - 1) -> Holds(o, length - 1, c)
         [] OTHER -> Breaks)
  BY DEF StringRealloc
<1>3. /\ n \in Nat /\ length \in Nat /\ capa \in Nat /\ text \in Seq(Int) /\ Len(text) \in Nat
      /\ n \in Char \cup (0..MaxLength)
  BY StringAssumption, LenProperties DEF StrInv, StrTypes
<1>4. b \in Seq(Int) /\ c \in Nat /\ c >= capa
  BY <1>3, ResizedFacts DEF StrInv
<1>5. c > length => \A k \in 1..(length + 1) : k <= Len(text) => b[k] = text[k]
  <2>1. \A k \in 1..n : k <= Len(text) => Resized(n)[k] = text[k]
    BY <1>3, ResizedFacts DEF StrInv
  <2> QED
    BY <1>3, <2>1
<1>6. c > length => b = text \/ Len(b) > length
  BY <1>3, ResizedFacts DEF StrInv
<1> HIDE DEF b, c
<1>7. damaged' \in BOOLEAN /\ (damaged' <=> damaged \/ capa <= length)
  BY <1>1, ReliesKnown
<1>8. CASE c > length
  <2>1. Holds(b, length, c)
    BY <1>2, <1>3, <1>4, <1>8
  <2>2. ASSUME ~damaged'
        PROVE  /\ Holding(b, length)
               /\ \/ NothingCut
                  \/ \E l \in C!Results(StrCall("realloc", n, <<>>)) :
                       l \in Seq(Int) /\ Len(l) = length /\ \A k \in 1..length : l[k] = b[k]
    <3>1. /\ length < Len(text) /\ text[length + 1] = Nul
          /\ (\A k \in 1..length : text[k] \in Char)
          /\ Characters \in Seq(Int) /\ Len(Characters) = length
          /\ \A k \in 1..length : Characters[k] = text[k]
      BY <1>1, <1>7, <2>2, WholeKnown DEF Holding
    <3>2. \A k \in 1..(length + 1) : b[k] = text[k]
      BY <1>3, <1>5, <1>8, <3>1
    <3>3. \A k \in 1..length : k \in 1..(length + 1)
      BY <1>3
    <3>4. \A k \in 1..length : b[k] = text[k]
      BY <3>2, <3>3, Zenon
    <3>5. length + 1 \in 1..(length + 1)
      BY <1>3
    <3>6. Len(b) > length
      BY <1>6, <1>8, <3>1
    <3>7. Len(b) \in Nat
      BY <1>4, LenProperties
    <3>8. Holding(b, length)
      BY <1>3, <1>4, <3>1, <3>2, <3>4, <3>5, <3>6, <3>7 DEF Holding
    <3>9. CASE n \in 1..length
      <4>1. b = text
        BY <1>3, <1>7, <2>2, <3>9 DEF b
      <4>2. Characters' = Characters
        BY <1>1, <2>1, <4>1 DEF Holds, Characters
      <4>3. NothingCut
        BY <1>1, <3>9, <4>2 DEF NothingCut, StrCall
      <4> QED
        BY <3>8, <4>3
    <3>10. CASE n \notin 1..length
      <4>1. C!Results(StrCall("realloc", n, <<>>)) = {Characters}
        BY <3>1, <3>10, ListResults
      <4>2. \A k \in 1..length : Characters[k] = b[k]
        BY <3>1, <3>4
      <4> QED
        BY <3>1, <3>8, <4>1, <4>2
    <3> QED
      BY <3>9, <3>10
  <2>3. ~(c <= length)
    BY <1>3, <1>4, <1>8
  <2> QED
    BY <1>1, <1>3, <1>4, <1>7, <2>1, <2>2, <2>3, ZeroIs, HoldsKept
<1>9. CASE ~(c > length)
  <2>1. c <= length /\ capa <= length /\ ~(capa > length)
    BY <1>3, <1>4, <1>9
  <2>2. damaged' = TRUE /\ (capa <= length \/ damaged)
    BY <1>7, <2>1, Zenon
  <2>3. CASE length - 2 \in 0..(Len(b) - 1)
    <3>1. Holds(o, length - 1, c)
      BY <1>2, <1>9, <2>1, <2>3
    <3>2. length - 2 \in Nat /\ length - 1 \in Nat
      BY <1>3, <2>3
    <3>3. z \in Seq(Int)
      BY DEF Nul
    <3> HIDE DEF z
    <3>4. o \in Seq(Int)
      BY <1>4, <3>2, <3>3, OverFacts
    <3> HIDE DEF o
    <3> QED
      BY <1>1, <1>3, <1>4, <2>1, <2>2, <3>1, <3>2, <3>4, ZeroIs, HoldsKept
  <2>4. CASE length - 2 \notin 0..(Len(b) - 1)
    <3>1. Breaks
      BY <1>2, <1>9, <2>1, <2>4
    <3> QED
      BY <1>1, <2>2, <3>1, BreaksKept
  <2> QED
    BY <2>3, <2>4
<1> QED
  BY <1>8, <1>9

(* A new string, and a string that is replaced. *)
LEMMA NewKept ==
  ASSUME StrInv, NEW s \in Texts \cup {<<>>}, NEW op \in {"new", "from"}, op = "new" => s = <<>>,
         Makes(op, s)
  PROVE  Kept
BY MakesKept DEF Makes

LEMMA ExactlyKept ==
  ASSUME NEW s \in Texts
  PROVE  StrInv /\ (StringerExactly(s) \/ CppExactly(s)) => Kept
<1> SUFFICES ASSUME StrInv, Sets(s) PROVE Kept
  BY Zenon DEF StringerExactly, CppExactly
<1>1. /\ exists' = TRUE /\ ~outside /\ strCall' = StrCall("exactly", 0, s)
      /\ damaged' = FALSE /\ Holds(CString(s), Len(s), Len(s) + 1)
  BY CallingKnown DEF Sets
<1> QED
  BY <1>1, MakesKept

LEMMA StringNextKept == StrInv /\ StringNext => Kept
<1> SUFFICES ASSUME StrInv, StringNext PROVE Kept
  OBVIOUS
<1>1. CASE StringNew
  BY <1>1, ZeroIs, NewKept DEF StringNew
<1>2. CASE StringNewFails
  BY <1>2, FailedKept, ZeroIs DEF StringNewFails
<1>3. CASE StringFree
  BY <1>3, FreeKept
<1>4. CASE StringClear
  BY <1>4, ClearKept
<1>5. ASSUME NEW n \in 0..MaxLength, StringRealloc(n) PROVE Kept
  BY <1>5, ReallocKept
<1>6. ASSUME NEW c \in Char, StringPush(c) PROVE Kept
  BY <1>6, PushKept
<1>7. ASSUME NEW s \in Texts, StringNewFrom(s) PROVE Kept
  BY <1>7, NewKept DEF StringNewFrom
<1>8. ASSUME NEW s \in Texts, StringAppend(s) PROVE Kept
  BY <1>8, AppendKept
<1>9. ASSUME NEW s \in Texts, StringPrepend(s) PROVE Kept
  BY <1>9, PrependKept
<1>10. ASSUME NEW s \in Texts, StringerExactly(s) \/ CppExactly(s) PROVE Kept
  BY <1>10, ExactlyKept
<1>11. ASSUME NEW s \in Texts, StringPrependFails(s) PROVE Kept
  BY <1>11, PrependFailsKept
<1> QED
  BY <1>1, <1>2, <1>3, <1>4, <1>5, <1>6, <1>7, <1>8, <1>9, <1>10, <1>11, Zenon
  DEF StringNext, StringerNext, CppNext, StringCommon

LEMMA StringInitInv == StringInit => StrInv /\ C!ListInit
<1> SUFFICES ASSUME StringInit PROVE StrInv /\ C!ListInit
  OBVIOUS
<1>1. StrInv
  BY EmptySeq DEF StringInit, StrInv, StrTypes, Whole
<1>2. Characters = <<>> /\ strCall = StrCall("none", 0, <<>>)
  BY DEF StringInit, Characters
<1> QED
  BY <1>1, <1>2 DEF C!ListInit, StrCall

LEMMA StringStutters == StrInv /\ UNCHANGED strVars => StrInv'
BY DEF StrInv, StrTypes, Whole, strVars, str

(* The invariant holds of every string the program can reach. *)
LEMMA StringInvariant == StringSpec => []StrInv
<1>1. StrInv /\ [StringNext]_strVars => StrInv'
  BY StringNextKept, StringStutters DEF Kept
<1> QED
  BY StringInitInv, <1>1, PTL DEF StringSpec

(* Only string_prepend lets a string outgrow its capacity, and no call       *)
(* leaves the block before one has relied on such a capacity.              *)
THEOREM StringStaysInside == StringSpec => StaysInside
<1>1. StrInv /\ [StringNext]_strVars => [Inside]_strVars
  BY StringNextKept DEF Kept
<1> QED
  BY StringInvariant, <1>1, PTL DEF StringSpec, StaysInside, Inside

(* The strings of both files implement the list: until a call has relied on  *)
(* a capacity the string had outgrown, every function leaves the characters *)
(* the list would hold, with the zero behind them; only string_realloc to a *)
(* size the text fills changes nothing where its comment has it cut.       *)
THEOREM StringsAreLists == StringSpec => StringIsList
<1>1. StrInv /\ [StringNext]_strVars => [Listed]_strVars
  BY StringNextKept DEF Kept
<1> QED
  BY StringInvariant, StringInitInv, <1>1, PTL DEF StringSpec, StringIsList, Listed

-----------------------------------------------------------------------------
(* The ring buffer. *)

(* What a slot can hold. *)
Stored == Byte \cup {Zero}

(* The s bytes of an array of c slots that start at index a. *)
Ring(b, a, s, c) == [k \in 1..s |-> b[(a + (k - 1)) % c]]

-----------------------------------------------------------------------------
(* Indices: a sum of an index and at most one round wraps once at most.    *)

LEMMA ModSmall ==
  ASSUME NEW c \in Nat \ {0}, NEW x \in 0..c-1
  PROVE  x % c = x
BY SMT

LEMMA ModWrap ==
  ASSUME NEW c \in Nat \ {0}, NEW x \in c..c + c - 1
  PROVE  x % c = x - c
BY SMT

LEMMA IndexWraps ==
  ASSUME NEW c \in Nat \ {0}, NEW a \in 0..c-1, NEW n \in 0..c
  PROVE  /\ (a + n) % c = IF a + n < c THEN a + n ELSE a + n - c
         /\ (a + n) % c \in 0..c-1
<1>1. CASE a + n < c
  <2>1. (a + n) % c = a + n
    BY <1>1, ModSmall
  <2> QED
    BY <1>1, <2>1
<1>2. CASE ~(a + n < c)
  <2>1. (a + n) % c = a + n - c
    BY <1>2, ModWrap
  <2> QED
    BY <1>2, <2>1
<1> QED
  BY <1>1, <1>2

(* Two moves by one round at most together are one move. *)
LEMMA IndexTwice ==
  ASSUME NEW c \in Nat \ {0}, NEW a \in 0..c-1,
         NEW m \in Nat, NEW n \in Nat, m + n <= c
  PROVE  (((a + m) % c) + n) % c = (a + (m + n)) % c
<1> DEFINE h == (a + m) % c
<1>1. /\ h = IF a + m < c THEN a + m ELSE a + m - c
      /\ h \in 0..c-1
  BY IndexWraps, m \in 0..c
<1>2. (h + n) % c = IF h + n < c THEN h + n ELSE h + n - c
  <2> HIDE DEF h
  <2> QED
    BY <1>1, IndexWraps, n \in 0..c
<1>3. (a + (m + n)) % c = IF a + (m + n) < c THEN a + (m + n) ELSE a + (m + n) - c
  BY IndexWraps, m + n \in 0..c
<1> HIDE DEF h
<1>4. (h + n) % c = (a + (m + n)) % c
  BY <1>1, <1>2, <1>3
<1> QED
  BY <1>4 DEF h

(* Different offsets below the capacity are different slots. *)
LEMMA IndexDiffers ==
  ASSUME NEW c \in Nat \ {0}, NEW a \in 0..c-1,
         NEW m \in 0..c-1, NEW n \in 0..c-1, m # n
  PROVE  (a + m) % c # (a + n) % c
<1>1. (a + m) % c = IF a + m < c THEN a + m ELSE a + m - c
  BY IndexWraps, m \in 0..c
<1>2. (a + n) % c = IF a + n < c THEN a + n ELSE a + n - c
  BY IndexWraps, n \in 0..c
<1> QED
  BY <1>1, <1>2

LEMMA AtMostBound ==
  ASSUME NEW n \in Nat, NEW k \in Nat
  PROVE  AtMost(n, k) \in 0..n /\ AtMost(n, k) \in 0..k
BY DEF AtMost

-----------------------------------------------------------------------------
(* Rings as sequences.                                                     *)

LEMMA RingSeq ==
  ASSUME NEW c \in Nat \ {0}, NEW a \in 0..c-1, NEW s \in 0..c,
         NEW b \in [0..c-1 -> Stored]
  PROVE  /\ Ring(b, a, s, c) \in Seq(Stored)
         /\ Len(Ring(b, a, s, c)) = s
         /\ \A k \in 1..s : Ring(b, a, s, c)[k] = b[(a + (k - 1)) % c]
<1>1. \A k \in 1..s : (a + (k - 1)) % c \in 0..c-1
  BY IndexWraps
<1>2. Ring(b, a, s, c) \in [1..s -> Stored]
  BY <1>1 DEF Ring
<1>3. s \in Nat
  OBVIOUS
<1> QED
  BY <1>2, <1>3 DEF Ring

(* Moving the start by m slots drops the first m bytes. *)
LEMMA RingDrop ==
  ASSUME NEW c \in Nat \ {0}, NEW a \in 0..c-1, NEW s \in 0..c,
         NEW b \in [0..c-1 -> Stored], NEW m \in 0..s
  PROVE  Ring(b, (a + m) % c, s - m, c) = SubSeq(Ring(b, a, s, c), m + 1, s)
<1> DEFINE old == Ring(b, a, s, c)
           new == Ring(b, (a + m) % c, s - m, c)
           rest == SubSeq(old, m + 1, s)
<1> HIDE DEF rest, new
<1>1. /\ old \in Seq(Stored) /\ Len(old) = s
      /\ \A k \in 1..s : old[k] = b[(a + (k - 1)) % c]
  BY RingSeq
<1>2. (a + m) % c \in 0..c-1
  BY IndexWraps
<1>3. /\ new \in Seq(Stored) /\ Len(new) = s - m
      /\ \A k \in 1..s - m : new[k] = b[(((a + m) % c) + (k - 1)) % c]
  <2> DEFINE h == (a + m) % c
             t == s - m
  <2>1. h \in 0..c-1 /\ t \in 0..c
    BY <1>2
  <2> HIDE DEF h, t
  <2>2. /\ Ring(b, h, t, c) \in Seq(Stored) /\ Len(Ring(b, h, t, c)) = t
        /\ \A k \in 1..t : Ring(b, h, t, c)[k] = b[(h + (k - 1)) % c]
    BY <2>1, RingSeq
  <2> QED
    BY <2>2 DEF h, t, new
<1>4. \A k \in m + 1..s : old[k] \in Stored
  <2> HIDE DEF old
  <2> QED
    BY <1>1, ElementOfSeq
<1>5. /\ rest \in Seq(Stored) /\ Len(rest) = s - m
      /\ \A k \in 1..s - m : rest[k] = old[m + k]
  <2> HIDE DEF old
  <2>1. /\ rest \in Seq(Stored)
        /\ Len(rest) = IF m + 1 <= s THEN s - (m + 1) + 1 ELSE 0
        /\ \A k \in 1..s - (m + 1) + 1 : rest[k] = old[(m + 1) + k - 1]
    BY <1>4, SubSeqProperties DEF rest
  <2> HIDE DEF rest
  <2> QED
    BY <2>1
<1>6. ASSUME NEW k \in 1..s - m
      PROVE  new[k] = rest[k]
  <2>1. (((a + m) % c) + (k - 1)) % c = (a + (m + (k - 1))) % c
    BY IndexTwice
  <2>2. m + k \in 1..s /\ m + (k - 1) = (m + k) - 1
    OBVIOUS
  <2>3. old[m + k] = b[(a + ((m + k) - 1)) % c]
    BY <1>1, <2>2
  <2> HIDE DEF old, new, rest
  <2> QED
    BY <1>3, <1>5, <2>1, <2>2, <2>3
<1> HIDE DEF old, new, rest
<1>7. new = rest
  BY <1>3, <1>5, <1>6, SeqEqual
<1> QED
  BY <1>7 DEF old, new, rest

(* Bytes stored behind the ones that wait, which are left alone, are       *)
(* appended to them.                                                       *)
LEMMA RingAppend ==
  ASSUME NEW c \in Nat \ {0}, NEW a \in 0..c-1, NEW s \in 0..c,
         NEW b \in [0..c-1 -> Stored], NEW d \in [0..c-1 -> Stored],
         NEW bytes \in Seq(Stored), s + Len(bytes) <= c,
         \A k \in 0..s-1 : d[(a + k) % c] = b[(a + k) % c],
         \A k \in 1..Len(bytes) : d[(a + (s + k - 1)) % c] = bytes[k]
  PROVE  Ring(d, a, s + Len(bytes), c) = Ring(b, a, s, c) \o bytes
<1> DEFINE old == Ring(b, a, s, c)
           t == s + Len(bytes)
           new == Ring(d, a, t, c)
           both == old \o bytes
<1>1. Len(bytes) \in Nat /\ t \in 0..c
  BY LenProperties
<1>2. /\ old \in Seq(Stored) /\ Len(old) = s
      /\ \A k \in 1..s : old[k] = b[(a + (k - 1)) % c]
  BY RingSeq
<1>3. /\ new \in Seq(Stored) /\ Len(new) = t
      /\ \A k \in 1..t : new[k] = d[(a + (k - 1)) % c]
  <2> HIDE DEF t
  <2> QED
    BY <1>1, RingSeq
<1>4. /\ both \in Seq(Stored) /\ Len(both) = t
      /\ \A k \in 1..t : both[k] = IF k <= s THEN old[k] ELSE bytes[k - s]
  <2> HIDE DEF old
  <2> QED
    BY <1>2, ConcatProperties
<1>5. ASSUME NEW k \in 1..t
      PROVE  new[k] = both[k]
  <2>1. CASE k <= s
    <3>1. k - 1 \in 0..s-1 /\ k \in 1..s
      BY <2>1, <1>1
    <3> HIDE DEF old, new, both, t
    <3> QED
      BY <1>2, <1>3, <1>4, <2>1, <3>1
  <2>2. CASE ~(k <= s)
    <3>1. k - s \in 1..Len(bytes) /\ s + (k - s) - 1 = k - 1
      BY <2>2, <1>1
    <3>2. d[(a + (k - 1)) % c] = bytes[k - s]
      BY <3>1
    <3> HIDE DEF old, new, both, t
    <3> QED
      BY <1>3, <1>4, <2>2, <3>2
  <2> QED
    BY <2>1, <2>2
<1> HIDE DEF old, new, both, t
<1>6. new = both
  BY <1>3, <1>4, <1>5, SeqEqual
<1> QED
  BY <1>6 DEF old, new, both, t

-----------------------------------------------------------------------------
(* The types.                                                              *)

(* A live buffer in constants, the form in which the lemmas are used. *)
LEMMA LiveType ==
  ASSUME TypeOK, live
  PROVE  /\ capacity \in Nat \ {0} /\ at \in 0..capacity-1 /\ size \in 0..capacity
         /\ buffer \in [0..capacity-1 -> Stored]
BY DEF TypeOK, Stored

(* Bytes are integers. *)
LEMMA StoredInt == Stored \subseteq Int
BY ByteAssumption DEF Stored, Zero

(* The blocks that are written are sequences of bytes. *)
LEMMA BufSeq ==
  ASSUME NEW buf \in Bufs
  PROVE  /\ Len(buf) \in 0..MaxBytes /\ buf \in [1..Len(buf) -> Byte]
         /\ buf \in Seq(Byte) /\ buf \in Seq(Stored) /\ buf \in Seq(Int)
<1>1. PICK n \in 0..MaxBytes : buf \in [1..n -> Byte]
  BY DEF Bufs
<1>2. n \in Nat
  BY ByteAssumption
<1>3. buf \in Seq(Byte) /\ Len(buf) = n
  BY <1>1, <1>2
<1>4. buf \in [1..n -> Stored] /\ buf \in [1..n -> Int]
  BY <1>1, StoredInt DEF Stored
<1> QED
  BY <1>1, <1>2, <1>3, <1>4

(* The slots that rb_write writes, f from h on and w - f from 0 on: none   *)
(* that is in use, and slot number k behind the ones in use for byte k.    *)
SlotsRight(c, a, s, w, h, f) ==
  /\ \A k \in 0..s-1 : /\ (a + k) % c \notin h..h + f - 1
                       /\ ~((a + k) % c < w - f)
  /\ \A k \in 1..f : /\ (a + (s + k - 1)) % c \in h..h + f - 1
                     /\ ((a + (s + k - 1)) % c) - h + 1 = k
  /\ \A k \in f + 1..w : /\ (a + (s + k - 1)) % c \notin h..h + f - 1
                         /\ (a + (s + k - 1)) % c < w - f
                         /\ f + ((a + (s + k - 1)) % c) + 1 = k

LEMMA WriteSlots ==
  ASSUME NEW c \in Nat \ {0}, NEW a \in 0..c-1, NEW s \in 0..c,
         NEW w \in 0..c-s, NEW h, h = (a + s) % c, NEW f, f = AtMost(w, c - h)
  PROVE  SlotsRight(c, a, s, w, h, f)
<1>1. h = (IF a + s < c THEN a + s ELSE a + s - c) /\ h \in 0..c-1
  BY IndexWraps
<1>2. f \in 0..w /\ f <= c - h /\ (f = w \/ f = c - h)
  BY <1>1 DEF AtMost
<1>3. ASSUME NEW k \in 0..s-1
      PROVE  (a + k) % c \notin h..h + f - 1 /\ ~((a + k) % c < w - f)
  <2>1. (a + k) % c = IF a + k < c THEN a + k ELSE a + k - c
    BY IndexWraps, k \in 0..c
  <2> QED
    BY <1>1, <1>2, <2>1
<1>4. ASSUME NEW k \in 1..w
      PROVE  (a + (s + k - 1)) % c
               = IF a + (s + k - 1) < c THEN a + (s + k - 1)
                                         ELSE a + (s + k - 1) - c
  BY IndexWraps, s + k - 1 \in 0..c
<1>5. ASSUME NEW k \in 1..f
      PROVE  /\ (a + (s + k - 1)) % c \in h..h + f - 1
             /\ ((a + (s + k - 1)) % c) - h + 1 = k
  BY <1>1, <1>2, <1>4, k \in 1..w
<1>6. ASSUME NEW k \in f + 1..w
      PROVE  /\ (a + (s + k - 1)) % c \notin h..h + f - 1
             /\ (a + (s + k - 1)) % c < w - f
             /\ f + ((a + (s + k - 1)) % c) + 1 = k
  BY <1>1, <1>2, <1>4, k \in 1..w
<1> QED
  BY <1>1, <1>2, <1>3, <1>5, <1>6 DEF SlotsRight

(* The last call and the answer, whatever they are, of the right kind. *)
LEMMA CalledType ==
  ASSUME NEW name \in CallNames, NEW args \in Seq(Int), Called(name, args)
  PROVE  call' \in CallNames \X Seq(Int)
BY DEF Called

LEMMA EmptyIsSeq == <<>> \in Seq(Int)
OBVIOUS

LEMMA EmptyArray == [i \in {} |-> Zero] \in [0..0-1 -> Byte \cup {Zero}]
<1>1. 0..0-1 = {}
  OBVIOUS
<1> QED
  BY <1>1

LEMMA InitType == Init => TypeOK
<1>1. "none" \in CallNames
  BY Zenon DEF CallNames
<1>2. Init => buffer \in [0..capacity-1 -> Byte \cup {Zero}]
  BY EmptyArray, Zenon DEF Init
<1>3. Init => call \in CallNames \X Seq(Int)
  <2>1. <<"none", <<>>>> \in CallNames \X Seq(Int)
    BY <1>1, EmptyIsSeq
  <2> QED
    BY <2>1, Zenon DEF Init, NoCall
<1>4. Init => reply \in Seq(Int)
  BY EmptyIsSeq, Zenon DEF Init, NoReply
<1>5. Init => /\ live \in BOOLEAN /\ (live <=> capacity > 0)
             /\ capacity \in Nat /\ size \in 0..capacity
             /\ at \in Nat /\ (live => at < capacity)
  <2>1. Init => live \in BOOLEAN /\ ~live
    BY Zenon DEF Init
  <2>2. Init => at = 0 /\ size = 0 /\ capacity = 0
    BY DEF Init
  <2> QED
    BY <2>1, <2>2
<1> QED
  BY <1>2, <1>3, <1>4, <1>5, Zenon DEF TypeOK

LEMMA NewType ==
  ASSUME NEW c \in Capacities, rb_new(c)
  PROVE  TypeOK'
<1>1. c \in Nat \ {0}
  BY CapacityAssumption
<1>2. "new" \in CallNames
  BY Zenon DEF CallNames
<1>3. call' \in CallNames \X Seq(Int)
  BY <1>1, <1>2, CalledType, SMTT(20) DEF rb_new
<1> QED
  BY <1>1, <1>3, EmptyIsSeq DEF rb_new, TypeOK, NoReply, Zero

LEMMA FreeType ==
  ASSUME rb_free
  PROVE  TypeOK'
<1>1. "free" \in CallNames
  BY Zenon DEF CallNames
<1>2. call' \in CallNames \X Seq(Int)
  BY <1>1, EmptyIsSeq, CalledType DEF rb_free
<1>3. buffer' \in [0..capacity'-1 -> Byte \cup {Zero}]
  BY EmptyArray, Zenon DEF rb_free
<1>4. reply' \in Seq(Int)
  BY EmptyIsSeq, Zenon DEF rb_free, NoReply
<1>5. /\ live' \in BOOLEAN /\ (live' <=> capacity' > 0)
      /\ capacity' \in Nat /\ size' \in 0..capacity'
      /\ at' \in Nat /\ (live' => at' < capacity')
  <2>1. live' \in BOOLEAN /\ ~live'
    BY Zenon DEF rb_free
  <2>2. at' = 0 /\ size' = 0 /\ capacity' = 0
    BY DEF rb_free
  <2> QED
    BY <2>1, <2>2
<1> QED
  BY <1>2, <1>3, <1>4, <1>5, Zenon DEF TypeOK

(* A call leaves the buffer live; what is left to show is that its indices *)
(* and its array stay within bounds.                                       *)
LEMMA CallType ==
  ASSUME TypeOK, live, UNCHANGED <<live, capacity>>,
         at' \in 0..capacity-1, size' \in 0..capacity,
         buffer' \in [0..capacity-1 -> Stored],
         reply' \in Seq(Int), call' \in CallNames \X Seq(Int)
  PROVE  TypeOK'
<1>1. capacity' = capacity /\ live' /\ capacity \in Nat \ {0}
  BY LiveType
<1> QED
  BY <1>1 DEF TypeOK, Stored

(* An answer of one number. *)
LEMMA OneNumber ==
  ASSUME NEW n \in Int
  PROVE  <<n>> \in Seq(Int)
OBVIOUS

LEMMA PushType ==
  ASSUME TypeOK, live, UNCHANGED <<live, capacity>>, NEW d \in Byte,
         Called("push", <<d>>), rb_push(d)
  PROVE  TypeOK'
<1>1. d \in Stored /\ d \in Int /\ 0 \in Int /\ 1 \in Int
  BY StoredInt DEF Stored
<1>2. Yes \in Seq(Int) /\ No \in Seq(Int) /\ <<d>> \in Seq(Int)
  BY <1>1, OneNumber DEF Yes, No
<1>3. size # capacity => Advance(size) \in 0..capacity-1
  BY LiveType, IndexWraps DEF Advance
<1>4. /\ at' \in 0..capacity-1 /\ size' \in 0..capacity
      /\ buffer' \in [0..capacity-1 -> Stored] /\ reply' \in Seq(Int)
  BY <1>1, <1>2, <1>3, LiveType, SMTT(20) DEF rb_push
<1>name. "push" \in CallNames
  BY Zenon DEF CallNames
<1>kind. call' \in CallNames \X Seq(Int)
  BY <1>name, <1>2, CalledType
<1> QED
  BY <1>2, <1>4, <1>kind, CallType

LEMMA PopType ==
  ASSUME TypeOK, live, UNCHANGED <<live, capacity>>, NEW data \in {0, 1},
         Called("pop", << data >>), rb_pop(data)
  PROVE  TypeOK'
<1>1. Yes \in Seq(Int) /\ No \in Seq(Int) /\ << data >> \in Seq(Int)
  BY OneNumber, data \in Int DEF Yes, No
<1>2. buffer[at] \in Int
  BY LiveType, StoredInt
<1>3. Yes \o << buffer[at] >> \in Seq(Int)
  BY <1>1, <1>2, OneNumber, SMTT(20)
<1>4. Advance(1) \in 0..capacity-1
  BY LiveType, IndexWraps, 1 \in 0..capacity DEF Advance
<1>5. /\ at' \in 0..capacity-1 /\ size' \in 0..capacity
      /\ buffer' \in [0..capacity-1 -> Stored]
  BY <1>4, LiveType DEF rb_pop
<1>6. reply' \in Seq(Int)
  <2>1. reply' = No \/ reply' = Yes \/ reply' = Yes \o << buffer[at] >>
    BY Zenon DEF rb_pop
  <2> QED
    BY <1>1, <1>3, <2>1, Zenon
<1>name. "pop" \in CallNames
  BY Zenon DEF CallNames
<1>kind. call' \in CallNames \X Seq(Int)
  BY <1>name, <1>1, CalledType
<1> QED
  BY <1>5, <1>6, <1>kind, CallType

LEMMA PeekType ==
  ASSUME TypeOK, live, UNCHANGED <<live, capacity>>, Called("peek", <<>>), rb_peek
  PROVE  TypeOK'
<1>1. buffer[at] \in Int
  BY LiveType, StoredInt
<1>2. reply' \in Seq(Int) /\ <<>> \in Seq(Int)
  BY <1>1 DEF rb_peek, NoByte
<1>3. /\ at' \in 0..capacity-1 /\ size' \in 0..capacity
      /\ buffer' \in [0..capacity-1 -> Stored]
  BY LiveType DEF rb_peek
<1>name. "peek" \in CallNames
  BY Zenon DEF CallNames
<1>kind. call' \in CallNames \X Seq(Int)
  BY <1>name, <1>2, CalledType
<1> QED
  BY <1>2, <1>3, <1>kind, CallType

LEMMA ClearType ==
  ASSUME TypeOK, live, UNCHANGED <<live, capacity>>, Called("clear", <<>>), rb_clear
  PROVE  TypeOK'
<1>1. <<>> \in Seq(Int)
  OBVIOUS
<1>2. /\ at' \in 0..capacity-1 /\ size' \in 0..capacity
      /\ buffer' \in [0..capacity-1 -> Stored] /\ reply' \in Seq(Int)
  BY <1>1, LiveType DEF rb_clear, NoReply
<1>name. "clear" \in CallNames
  BY Zenon DEF CallNames
<1>kind. call' \in CallNames \X Seq(Int)
  BY <1>name, <1>1, CalledType
<1> QED
  BY <1>1, <1>2, <1>kind, CallType

LEMMA IgnoreType ==
  ASSUME TypeOK, live, UNCHANGED <<live, capacity>>, NEW num \in 0..MaxBytes,
         Called("ignore", <<num>>), rb_ignore(num)
  PROVE  TypeOK'
<1>1. num \in Nat /\ <<num>> \in Seq(Int) /\ <<>> \in Seq(Int)
  BY ByteAssumption
<1>2. AtMost(num, size) \in 0..size
  BY <1>1, LiveType, AtMostBound
<1>3. Advance(AtMost(num, size)) \in 0..capacity-1
  BY <1>2, LiveType, IndexWraps, AtMost(num, size) \in 0..capacity DEF Advance
<1>4. /\ at' \in 0..capacity-1 /\ size' \in 0..capacity
      /\ buffer' \in [0..capacity-1 -> Stored] /\ reply' \in Seq(Int)
  BY <1>1, <1>2, <1>3, LiveType DEF rb_ignore, NoReply
<1>name. "ignore" \in CallNames
  BY Zenon DEF CallNames
<1>kind. call' \in CallNames \X Seq(Int)
  BY <1>name, <1>1, CalledType
<1> QED
  BY <1>1, <1>4, <1>kind, CallType

(* What rb_read copies out, byte by byte: the oldest unread ones, from     *)
(* slots of the array.                                                     *)
LEMMA ReadSlots ==
  ASSUME NEW c \in Nat \ {0}, NEW a \in 0..c-1, NEW w \in 0..c,
         NEW f, f = AtMost(w, c - a), NEW k \in 1..w
  PROVE  /\ (IF k <= f THEN a + k - 1 ELSE k - f - 1) = (a + (k - 1)) % c
         /\ (a + (k - 1)) % c \in 0..c-1
<1>1. /\ (a + (k - 1)) % c = IF a + (k - 1) < c THEN a + (k - 1) ELSE a + (k - 1) - c
      /\ (a + (k - 1)) % c \in 0..c-1
  BY IndexWraps, k - 1 \in 0..c
<1>2. f \in 0..w /\ f <= c - a /\ (f = w \/ f = c - a)
  BY DEF AtMost
<1> QED
  BY <1>1, <1>2

LEMMA ReadAnswer ==
  ASSUME TypeOK, live, NEW max_bytes \in Nat, rb_read(max_bytes)
  PROVE  /\ AtMost(max_bytes, size) \in 0..size
         /\ reply' = Ring(buffer, at, AtMost(max_bytes, size), capacity)
<1> DEFINE w == AtMost(max_bytes, size)
           f == FirstChunk(at, w)
<1>1. w \in 0..size
  BY LiveType, AtMostBound
<1>2. reply' = [k \in 1..w |-> buffer[IF k <= f THEN at + k - 1 ELSE k - f - 1]]
  BY DEF rb_read
<1> HIDE DEF w
<1>3. ASSUME NEW k \in 1..w
      PROVE  (IF k <= f THEN at + k - 1 ELSE k - f - 1) = (at + (k - 1)) % capacity
  BY <1>1, LiveType, ReadSlots, w \in 0..capacity, ZenonT(20) DEF FirstChunk
<1> HIDE DEF f
<1>4. reply' = Ring(buffer, at, w, capacity)
  BY <1>2, <1>3 DEF Ring
<1> QED
  BY <1>1, <1>4 DEF w

LEMMA ReadType ==
  ASSUME TypeOK, live, UNCHANGED <<live, capacity>>, NEW num \in 0..MaxBytes,
         Called("read", <<num>>), rb_read(num)
  PROVE  TypeOK'
<1> DEFINE w == AtMost(num, size)
<1>1. num \in Nat /\ <<num>> \in Seq(Int)
  BY ByteAssumption
<1>2. w \in 0..size /\ reply' = Ring(buffer, at, w, capacity)
  BY <1>1, ReadAnswer
<1>3. at' = Advance(w) /\ size' = size - w /\ buffer' = buffer
  BY DEF rb_read
<1> HIDE DEF w
<1>4. Advance(w) \in 0..capacity-1
  BY <1>2, LiveType, IndexWraps, w \in 0..capacity DEF Advance
<1>5. reply' \in Seq(Stored)
  BY <1>2, LiveType, RingSeq, w \in 0..capacity
<1>6. reply' \in Seq(Int)
  BY <1>5, StoredInt, SeqMonotonic
<1>7. /\ at' \in 0..capacity-1 /\ size' \in 0..capacity
      /\ buffer' \in [0..capacity-1 -> Stored]
  BY <1>2, <1>3, <1>4, LiveType
<1>name. "read" \in CallNames
  BY Zenon DEF CallNames
<1>kind. call' \in CallNames \X Seq(Int)
  BY <1>name, <1>1, CalledType
<1> QED
  BY <1>6, <1>7, <1>kind, CallType

(* The bytes of buf that go to slot i, in the first or the second chunk.   *)
LEMMA ChunkIndices ==
  ASSUME NEW n \in Nat, NEW w \in 0..n, NEW f \in 0..w, NEW h \in Nat,
         NEW i \in Nat
  PROVE  /\ i \in h..h + f - 1 => i - h + 1 \in 1..n
         /\ i < w - f => f + i + 1 \in 1..n
OBVIOUS

(* The array after rb_write, slot by slot, and what is counted. *)
LEMMA WriteArray ==
  ASSUME TypeOK, live, NEW buf \in Bufs, rb_write(buf),
         NEW w, w = AtMost(Len(buf), capacity - size),
         NEW h, h = (at + size) % capacity, NEW f, f = AtMost(w, capacity - h)
  PROVE  /\ w \in 0..capacity - size /\ w \in 0..Len(buf)
         /\ f \in 0..w /\ h \in 0..capacity-1 /\ h + f <= capacity
         /\ \A i \in 0..capacity-1 :
              /\ i \in h..h + f - 1 => buffer'[i] = buf[i - h + 1]
              /\ i \notin h..h + f - 1 /\ i < w - f => buffer'[i] = buf[f + i + 1]
              /\ i \notin h..h + f - 1 /\ ~(i < w - f) => buffer'[i] = buffer[i]
         /\ buffer' \in [0..capacity-1 -> Stored]
         /\ at' = at /\ size' = size + w /\ reply' = <<w>>
<1>1. w \in 0..capacity - size /\ w \in 0..Len(buf)
  BY LiveType, BufSeq, ByteAssumption, AtMostBound, Len(buf) \in Nat
<1>2. f \in 0..w /\ h \in 0..capacity-1 /\ h + f <= capacity
  <2>1. h \in 0..capacity-1
    BY LiveType, IndexWraps
  <2> QED
    BY <1>1, <2>1, LiveType DEF AtMost
<1>3. buffer' = [i \in 0..capacity-1 |->
                   IF i \in h..h + f - 1 THEN buf[i - h + 1]
                   ELSE IF i < w - f THEN buf[f + i + 1] ELSE buffer[i]]
  BY LiveType DEF rb_write, Advance, FirstChunk, SecondSource
<1>4. at' = at /\ size' = size + w /\ reply' = <<w>>
  BY DEF rb_write
<1>5. ASSUME NEW i \in 0..capacity-1
      PROVE  /\ i \in h..h + f - 1 => i - h + 1 \in 1..Len(buf)
             /\ i < w - f => f + i + 1 \in 1..Len(buf)
  <2>1. Len(buf) \in Nat
    BY BufSeq, ByteAssumption
  <2> QED
    BY <1>1, <1>2, <2>1, ChunkIndices, h \in Nat, i \in Nat
<1>6. \A n \in 1..Len(buf) : buf[n] \in Stored
  BY BufSeq DEF Stored
<1>7. buffer' \in [0..capacity-1 -> Stored]
  BY <1>3, <1>5, <1>6, LiveType
<1> QED
  BY <1>1, <1>2, <1>3, <1>4, <1>7

LEMMA WriteType ==
  ASSUME TypeOK, live, UNCHANGED <<live, capacity>>, NEW buf \in Bufs,
         Called("write", buf), rb_write(buf)
  PROVE  TypeOK'
<1> DEFINE w == AtMost(Len(buf), capacity - size)
           h == (at + size) % capacity
           f == AtMost(w, capacity - h)
<1>1. /\ w \in 0..capacity - size
      /\ buffer' \in [0..capacity-1 -> Stored]
      /\ at' = at /\ size' = size + w /\ reply' = <<w>>
  BY WriteArray
<1> HIDE DEF w
<1>2. at' \in 0..capacity-1 /\ size' \in 0..capacity /\ reply' \in Seq(Int)
  BY <1>1, LiveType
<1>name. "write" \in CallNames
  BY Zenon DEF CallNames
<1>kind. call' \in CallNames \X Seq(Int)
  BY <1>name, BufSeq, CalledType
<1> QED
  BY <1>1, <1>2, <1>kind, CallType

LEMMA NextType == TypeOK /\ [Next]_vars => TypeOK'
<1> SUFFICES ASSUME TypeOK, [Next]_vars
             PROVE  TypeOK'
  OBVIOUS
<1>1. CASE \E c \in Capacities : rb_new(c)
  BY <1>1, NewType
<1>2. CASE rb_free
  BY <1>2, FreeType
<1>3. CASE live /\ Call /\ UNCHANGED <<live, capacity>>
  <2>1. CASE \E d \in Byte : Called("push", <<d>>) /\ rb_push(d)
    BY <1>3, <2>1, PushType
  <2>2. CASE \E data \in {0, 1} : Called("pop", <<data>>) /\ rb_pop(data)
    BY <1>3, <2>2, PopType
  <2>3. CASE Called("peek", <<>>) /\ rb_peek
    BY <1>3, <2>3, PeekType
  <2>4. CASE Called("clear", <<>>) /\ rb_clear
    BY <1>3, <2>4, ClearType
  <2>5. CASE \E num \in 0..MaxBytes : Called("ignore", <<num>>) /\ rb_ignore(num)
    BY <1>3, <2>5, IgnoreType
  <2>6. CASE \E num \in 0..MaxBytes : Called("read", <<num>>) /\ rb_read(num)
    BY <1>3, <2>6, ReadType
  <2>7. CASE \E buf \in Bufs : Called("write", buf) /\ rb_write(buf)
    BY <1>3, <2>7, WriteType
  <2> QED
    BY <1>3, <2>1, <2>2, <2>3, <2>4, <2>5, <2>6, <2>7 DEF Call
<1>4. CASE UNCHANGED vars
  BY <1>4 DEF TypeOK, vars
<1> QED
  BY <1>1, <1>2, <1>3, <1>4 DEF Next

(* Both indices stay within the array, whatever is called in whatever      *)
(* order.                                                                  *)
THEOREM TypeCorrect == Spec => []TypeOK
<1> QED
  BY InitType, NextType, PTL DEF Spec

-----------------------------------------------------------------------------
(* The refinement: every call does to the unread bytes what the queue does. *)

LEMMA UnreadIsRing ==
  /\ Unread = Ring(buffer, at, size, capacity)
  /\ Unread' = Ring(buffer', at', size', capacity')
BY DEF Unread, Ring, Advance

LEMMA UnreadType ==
  ASSUME TypeOK, live
  PROVE  /\ Unread \in Seq(Stored) /\ Len(Unread) = size
         /\ \A k \in 1..size : Unread[k] = buffer[(at + (k - 1)) % capacity]
BY LiveType, UnreadIsRing, RingSeq

(* A call that only moves the start past m bytes drops them. *)
LEMMA UnreadDrop ==
  ASSUME TypeOK, live, capacity' = capacity, buffer' = buffer,
         NEW m \in 0..size, at' = Advance(m), size' = size - m
  PROVE  Unread' = SubSeq(Unread, m + 1, Len(Unread))
<1>1. Ring(buffer, (at + m) % capacity, size - m, capacity)
        = SubSeq(Ring(buffer, at, size, capacity), m + 1, size)
  BY LiveType, RingDrop
<1>2. Unread' = Ring(buffer, (at + m) % capacity, size - m, capacity)
  BY UnreadIsRing DEF Advance
<1> QED
  BY <1>1, <1>2, UnreadIsRing, UnreadType

(* A call that leaves the buffer as it is leaves its contents alone. *)
LEMMA UnreadSame ==
  ASSUME UNCHANGED <<at, size, capacity, buffer>>
  PROVE  Unread' = Unread
BY UnreadIsRing

LEMMA NewRefines ==
  ASSUME NEW c \in Capacities, rb_new(c)
  PROVE  Queue!New
<1>1. Unread' = <<>>
  BY UnreadIsRing DEF rb_new, Ring
<1> QED
  BY <1>1 DEF rb_new, Queue!New, Called, Queue!Called, NoReply

LEMMA FreeRefines ==
  ASSUME rb_free
  PROVE  Queue!Free
<1>1. Unread' = <<>>
  BY UnreadIsRing DEF rb_free, Ring
<1> QED
  BY <1>1 DEF rb_free, Queue!Free, Called, Queue!Called, NoReply

LEMMA PushRefines ==
  ASSUME TypeOK, live, capacity' = capacity, NEW d \in Byte, rb_push(d)
  PROVE  Queue!Push(d)
<1>1. CASE size = capacity
  BY <1>1, UnreadSame, UnreadType, LiveType DEF rb_push, Queue!Push, No, Queue!No
<1>2. CASE size # capacity
  <2>1. /\ buffer' = [buffer EXCEPT ![(at + size) % capacity] = d]
        /\ at' = at /\ size' = size + 1 /\ reply' = Yes
    BY <1>2 DEF rb_push, Advance
  <2>2. <<d>> \in Seq(Stored) /\ Len(<<d>>) = 1 /\ <<d>>[1] = d
    BY DEF Stored
  <2>3. /\ buffer' \in [0..capacity-1 -> Stored]
        /\ buffer'[(at + size) % capacity] = d
    BY <2>1, LiveType, IndexWraps DEF Stored
  <2>4. ASSUME NEW k \in 0..size-1
        PROVE  buffer'[(at + k) % capacity] = buffer[(at + k) % capacity]
    <3>1. (at + k) % capacity # (at + size) % capacity
      BY <1>2, LiveType, IndexDiffers, k \in 0..capacity-1, size \in 0..capacity-1, k # size
    <3>2. (at + k) % capacity \in 0..capacity-1
      BY LiveType, IndexWraps, k \in 0..capacity
    <3> QED
      BY <2>1, <3>1, <3>2, LiveType
  <2>5. \A k \in 1..Len(<<d>>) : buffer'[(at + (size + k - 1)) % capacity] = <<d>>[k]
    BY <2>2, <2>3, LiveType
  <2>6. Ring(buffer', at, size + Len(<<d>>), capacity)
          = Ring(buffer, at, size, capacity) \o <<d>>
    BY <1>2, <2>2, <2>3, <2>4, <2>5, LiveType, RingAppend, size + Len(<<d>>) <= capacity, ZenonT(20)
  <2>7. Unread' = Append(Unread, d)
    BY <2>1, <2>2, <2>6, UnreadIsRing, UnreadType, AppendIsConcat, d \in Stored DEF Stored
  <2> QED
    BY <1>2, <2>1, <2>7, UnreadType, LiveType DEF Queue!Push, Yes, Queue!Yes
<1> QED
  BY <1>1, <1>2

(* The oldest byte is the one at the index of the next read. *)
LEMMA UnreadHead ==
  ASSUME TypeOK, live, size # 0
  PROVE  Unread # <<>> /\ Head(Unread) = buffer[at]
<1>1. Unread # <<>> /\ Unread[1] = buffer[(at + 0) % capacity]
  BY UnreadType, LiveType, 1 \in 1..size
<1>2. (at + 0) % capacity = at
  BY LiveType, ModSmall
<1>3. Head(Unread) = Unread[1]
  BY <1>1, UnreadType
<1> QED
  BY <1>1, <1>2, <1>3

LEMMA PopRefines ==
  ASSUME TypeOK, live, capacity' = capacity, NEW data \in {0, 1}, rb_pop(data)
  PROVE  Queue!Pop(data)
<1>1. CASE size = 0
  <2>1. Unread = <<>>
    BY <1>1, UnreadIsRing DEF Ring
  <2> QED
    BY <1>1, <2>1, UnreadSame DEF rb_pop, Queue!Pop, No, Queue!No
<1>2. CASE size # 0
  <2>1. Unread # <<>>
    BY <1>2, UnreadType
  <2>2. Unread' = SubSeq(Unread, 2, Len(Unread))
    BY <1>2, LiveType, UnreadDrop, 1 \in 0..size DEF rb_pop
  <2>3. Unread' = Tail(Unread)
    BY <2>1, <2>2, UnreadType, TailIsSubSeq
  <2>4. Head(Unread) = buffer[at]
    BY <1>2, UnreadHead
  <2> QED
    BY <1>2, <2>1, <2>3, <2>4 DEF rb_pop, Queue!Pop, Yes, Queue!Yes
<1> QED
  BY <1>1, <1>2

(* A peek is the queue's, or the one whose answer differs from the page. *)
LEMMA PeekRefines ==
  ASSUME TypeOK, live, UNCHANGED <<live, capacity>>, Called("peek", <<>>), rb_peek
  PROVE  Queue!Peek \/ EmptyPeekDiffers
<1>1. Unread' = Unread
  BY UnreadSame DEF rb_peek
<1>2. CASE size = 0
  BY <1>1, <1>2 DEF rb_peek, EmptyPeekDiffers
<1>3. CASE size # 0
  BY <1>1, <1>3, UnreadHead DEF rb_peek, Queue!Peek
<1> QED
  BY <1>2, <1>3

LEMMA ClearRefines ==
  ASSUME capacity' = capacity, rb_clear
  PROVE  Queue!Clear
<1>1. Unread' = <<>>
  BY UnreadIsRing DEF rb_clear, Ring
<1> QED
  BY <1>1 DEF rb_clear, Queue!Clear

(* What the queue drops and hands out when it is asked for n bytes. *)
LEMMA QueueSplits ==
  ASSUME TypeOK, live, NEW n \in Nat
  PROVE  /\ Queue!Rest(n) = SubSeq(Unread, AtMost(n, size) + 1, Len(Unread))
         /\ Queue!First(n) = SubSeq(Unread, 1, AtMost(n, size))
         /\ AtMost(n, size) \in 0..size
<1>1. Len(Unread) = size
  BY UnreadType
<1>2. Queue!AtMost(n, Len(Unread)) = AtMost(n, size)
  BY <1>1 DEF AtMost, Queue!AtMost
<1>3. AtMost(n, size) \in 0..size
  BY LiveType, AtMostBound, size \in Nat
<1> QED
  BY <1>2, <1>3 DEF Queue!Rest, Queue!First

LEMMA IgnoreRefines ==
  ASSUME TypeOK, live, capacity' = capacity, NEW num \in Nat, rb_ignore(num)
  PROVE  Queue!Ignore(num)
<1> DEFINE m == AtMost(num, size)
<1>1. m \in 0..size /\ Queue!Rest(num) = SubSeq(Unread, m + 1, Len(Unread))
  BY QueueSplits
<1>2. CASE num = 0
  <2>1. m = 0
    BY <1>2, LiveType DEF AtMost
  <2>2. SubSeq(Unread, 1, Len(Unread)) = Unread
    BY UnreadType, SubSeqFull
  <2>3. Unread' = Unread
    BY <1>2, UnreadSame DEF rb_ignore
  <2> HIDE DEF m
  <2> QED
    BY <1>1, <2>1, <2>2, <2>3 DEF rb_ignore, Queue!Ignore
<1>3. CASE num # 0
  <2>1. at' = Advance(m) /\ size' = size - m /\ buffer' = buffer
    BY <1>3 DEF rb_ignore
  <2> HIDE DEF m
  <2>2. Unread' = Queue!Rest(num)
    BY <1>1, <2>1, UnreadDrop
  <2> QED
    BY <2>2 DEF rb_ignore, Queue!Ignore
<1> QED
  BY <1>2, <1>3

LEMMA ReadRefines ==
  ASSUME TypeOK, live, capacity' = capacity, NEW num \in Nat, rb_read(num)
  PROVE  Queue!Read(num)
<1> DEFINE m == AtMost(num, size)
<1>1. /\ m \in 0..size /\ Queue!Rest(num) = SubSeq(Unread, m + 1, Len(Unread))
      /\ Queue!First(num) = SubSeq(Unread, 1, m)
  BY QueueSplits
<1>2. reply' = Ring(buffer, at, m, capacity)
  BY ReadAnswer
<1>3. at' = Advance(m) /\ size' = size - m /\ buffer' = buffer
  BY DEF rb_read
<1> HIDE DEF m
<1>4. Unread' = Queue!Rest(num)
  BY <1>1, <1>3, UnreadDrop
<1>5. /\ reply' \in Seq(Stored) /\ Len(reply') = m
      /\ \A k \in 1..m : reply'[k] = buffer[(at + (k - 1)) % capacity]
  BY <1>1, <1>2, LiveType, RingSeq, m \in 0..capacity
<1>6. /\ SubSeq(Unread, 1, m) \in Seq(Stored) /\ Len(SubSeq(Unread, 1, m)) = m
      /\ \A k \in 1..m : SubSeq(Unread, 1, m)[k] = Unread[k]
  BY <1>1, UnreadType
<1>7. ASSUME NEW k \in 1..m
      PROVE  reply'[k] = SubSeq(Unread, 1, m)[k]
  <2>1. k \in 1..size
    BY <1>1, LiveType
  <2> QED
    BY <1>5, <1>6, <2>1, UnreadType
<1>8. reply' = SubSeq(Unread, 1, m)
  BY <1>5, <1>6, <1>7, SeqEqual
<1> QED
  BY <1>1, <1>4, <1>8 DEF Queue!Read

LEMMA WriteRefines ==
  ASSUME TypeOK, live, capacity' = capacity, NEW buf \in Bufs, rb_write(buf)
  PROVE  Queue!Write(buf)
<1> DEFINE w == AtMost(Len(buf), capacity - size)
           h == (at + size) % capacity
           f == AtMost(w, capacity - h)
           head == SubSeq(buf, 1, w)
<1>1. /\ w \in 0..capacity - size /\ w \in 0..Len(buf)
      /\ f \in 0..w /\ h \in 0..capacity-1 /\ h + f <= capacity
      /\ \A i \in 0..capacity-1 :
           /\ i \in h..h + f - 1 => buffer'[i] = buf[i - h + 1]
           /\ i \notin h..h + f - 1 /\ i < w - f => buffer'[i] = buf[f + i + 1]
           /\ i \notin h..h + f - 1 /\ ~(i < w - f) => buffer'[i] = buffer[i]
      /\ buffer' \in [0..capacity-1 -> Stored]
      /\ at' = at /\ size' = size + w /\ reply' = <<w>>
  BY WriteArray
<1> HIDE DEF w
<1>0. h = (at + size) % capacity /\ f = AtMost(w, capacity - h)
  OBVIOUS
<1> HIDE DEF h, f, head
<1>2. SlotsRight(capacity, at, size, w, h, f)
  <2>1. /\ capacity \in Nat \ {0} /\ at \in 0..capacity-1 /\ size \in 0..capacity
        /\ w \in 0..capacity - size
    BY <1>1, LiveType
  <2> QED
    BY <1>0, <2>1, WriteSlots
<1>3. /\ head \in Seq(Stored) /\ Len(head) = w
      /\ \A k \in 1..w : head[k] = buf[k]
  BY <1>1, BufSeq DEF head
<1>4. ASSUME NEW k \in 0..size-1
      PROVE  buffer'[(at + k) % capacity] = buffer[(at + k) % capacity]
  <2>1. (at + k) % capacity \in 0..capacity-1
    BY LiveType, IndexWraps, k \in 0..capacity
  <2> QED
    BY <1>1, <1>2, <2>1 DEF SlotsRight
<1>5. ASSUME NEW k \in 1..w
      PROVE  buffer'[(at + (size + k - 1)) % capacity] = head[k]
  <2>1. (at + (size + k - 1)) % capacity \in 0..capacity-1
    <3>1. size \in Nat /\ capacity \in Nat /\ w \in Nat /\ size + w <= capacity
      BY <1>1, LiveType
    <3>2. size + k - 1 \in 0..capacity
      BY <3>1
    <3> QED
      BY <3>2, LiveType, IndexWraps
  <2>2. CASE k <= f
    BY <1>1, <1>2, <1>3, <2>1, <2>2, k \in 1..f, ZenonT(20) DEF SlotsRight
  <2>3. CASE ~(k <= f)
    BY <1>1, <1>2, <1>3, <2>1, <2>3, k \in f + 1..w, ZenonT(20) DEF SlotsRight
  <2> QED
    BY <2>2, <2>3
<1>6. Ring(buffer', at, size + w, capacity) = Ring(buffer, at, size, capacity) \o head
  <2>1. size + Len(head) <= capacity
    BY <1>1, <1>3, LiveType
  <2>2. \A k \in 1..Len(head) : buffer'[(at + (size + k - 1)) % capacity] = head[k]
    BY <1>3, <1>5
  <2>3. Ring(buffer', at, size + Len(head), capacity)
          = Ring(buffer, at, size, capacity) \o head
    <3>1. /\ capacity \in Nat \ {0} /\ at \in 0..capacity-1 /\ size \in 0..capacity
          /\ buffer \in [0..capacity-1 -> Stored] /\ buffer' \in [0..capacity-1 -> Stored]
          /\ head \in Seq(Stored)
      BY <1>1, <1>3, LiveType
    <3> QED
      BY <1>4, <2>1, <2>2, <3>1, RingAppend, ZenonT(20)
  <2> QED
    BY <1>3, <2>3
<1>7. Unread' = Unread \o head
  BY <1>1, <1>6, UnreadIsRing
<1>8. Queue!AtMost(Len(buf), capacity - Len(Unread)) = w
  BY UnreadType DEF w, AtMost, Queue!AtMost
<1> QED
  BY <1>1, <1>7, <1>8 DEF head, Queue!Write

LEMMA InitRefines == Init => Queue!Init
<1> SUFFICES ASSUME Init PROVE Queue!Init
  OBVIOUS
<1>1. Unread = <<>>
  BY UnreadIsRing DEF Init, Ring
<1> QED
  BY <1>1 DEF Init, Queue!Init

LEMMA CallRefines ==
  ASSUME TypeOK, live, UNCHANGED <<live, capacity>>, Call
  PROVE  EmptyPeekDiffers \/ Queue!Call
<1>1. CASE \E d \in Byte : Called("push", <<d>>) /\ rb_push(d)
  BY <1>1, PushRefines DEF Queue!Call, Called, Queue!Called
<1>2. CASE \E data \in {0, 1} : Called("pop", <<data>>) /\ rb_pop(data)
  BY <1>2, PopRefines DEF Queue!Call, Called, Queue!Called
<1>3. CASE Called("peek", <<>>) /\ rb_peek
  BY <1>3, PeekRefines DEF Queue!Call, Called, Queue!Called
<1>4. CASE Called("clear", <<>>) /\ rb_clear
  BY <1>4, ClearRefines DEF Queue!Call, Called, Queue!Called
<1>5. CASE \E num \in 0..MaxBytes : Called("ignore", <<num>>) /\ rb_ignore(num)
  <2>1. PICK num \in 0..MaxBytes : Called("ignore", <<num>>) /\ rb_ignore(num)
    BY <1>5
  <2>2. num \in Nat
    BY ByteAssumption
  <2> QED
    BY <2>1, <2>2, IgnoreRefines DEF Queue!Call, Called, Queue!Called
<1>6. CASE \E num \in 0..MaxBytes : Called("read", <<num>>) /\ rb_read(num)
  <2>1. PICK num \in 0..MaxBytes : Called("read", <<num>>) /\ rb_read(num)
    BY <1>6
  <2>2. num \in Nat
    BY ByteAssumption
  <2> QED
    BY <2>1, <2>2, ReadRefines DEF Queue!Call, Called, Queue!Called
<1>7. CASE \E buf \in Bufs : Called("write", buf) /\ rb_write(buf)
  <2>1. PICK buf \in Bufs : Called("write", buf) /\ rb_write(buf)
    BY <1>7
  <2>2. Queue!Write(buf)
    BY <2>1, WriteRefines
  <2>3. PICK n \in 0..MaxBytes : buf \in [1..n -> Byte]
    BY DEF Bufs
  <2> QED
    BY <2>1, <2>2, <2>3 DEF Queue!Call, Called, Queue!Called
<1> QED
  BY <1>1, <1>2, <1>3, <1>4, <1>5, <1>6, <1>7 DEF Call

LEMMA NextRefines == TypeOK /\ [Next]_vars => [EmptyPeekDiffers \/ Queue!Next]_vars
<1> SUFFICES ASSUME TypeOK, [Next]_vars
             PROVE  [EmptyPeekDiffers \/ Queue!Next]_vars
  OBVIOUS
<1>1. CASE \E c \in Capacities : rb_new(c)
  BY <1>1, NewRefines DEF Queue!Next
<1>2. CASE rb_free
  BY <1>2, FreeRefines DEF Queue!Next
<1>3. CASE live /\ Call /\ UNCHANGED <<live, capacity>>
  BY <1>3, CallRefines DEF Queue!Next
<1>4. CASE UNCHANGED vars
  BY <1>4
<1> QED
  BY <1>1, <1>2, <1>3, <1>4 DEF Next

(* The ring buffer is a bounded queue of bytes: every step of it is one of *)
(* the queue, answers and bytes handed out included, or the peek at an     *)
(* empty buffer, which changes nothing and answers -1.                     *)
THEOREM RingRefinesQueue == Spec => ImplementsQueue
<1>1. Init => Queue!Init
  BY InitRefines
<1>2. TypeOK /\ [Next]_vars => [EmptyPeekDiffers \/ Queue!Next]_vars
  BY NextRefines
<1> QED
  BY <1>1, <1>2, TypeCorrect, PTL DEF Spec, ImplementsQueue

=============================================================================
