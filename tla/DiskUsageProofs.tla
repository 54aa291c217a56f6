-------------------------- MODULE DiskUsageProofs --------------------------
(***************************************************************************)
(* The trees of build_tree are exact, for every tree of directories, every *)
(* order of readdir and every max_depth: the inductive invariant TreeInv,  *)
(* the lemmas about chains, levels and sizes it needs, and one lemma for   *)
(* each way a call of build_tree goes on.                                  *)
(***************************************************************************)
EXTENDS DiskUsage, FiniteSetsExt, WellFoundedInduction, SequenceTheorems, FiniteSetTheorems, TLAPS

(* A set of natural numbers has a least one. *)
LEMMA LeastNatural ==
  ASSUME NEW S, S \subseteq Nat, S # {}
  PROVE  Min(S) \in S /\ \A k \in S : Min(S) <= k
<1>1. IsWellFoundedOn(OpToRel(<, Nat), Nat)
  BY NatLessThanWellFounded
<1>2. PICK m \in S : \A k \in S : <<k, m>> \notin OpToRel(<, Nat)
  BY <1>1, WFMin
<1>3. \A k \in S : ~(k < m)
  BY <1>2 DEF OpToRel
<1>4. \A k \in S : m <= k
  BY <1>3, SMT
<1> QED
  BY <1>4, Zenon DEF Min

-----------------------------------------------------------------------------
(* The invariant. *)

\* What can be at a path.
Kinds == {"file", "dir", "closed", "other", "gone"}

(* The directory tree, which nothing changes. *)
TreeOK ==
  /\ duVersion \in DuVersions
  /\ \E n \in 1..MaxPaths : kind \in [1..n -> Kinds] /\ up \in [2..n -> 1..n]
  /\ \A p \in DuPaths \ {1} : up[p] < p /\ kind[up[p]] = "dir"
  /\ depth \in Nat

\* What a pointer and what a node can be.
Pointers == DuPaths \cup {NULL}
Nodes == [type : {"File", "Directory"}, size : Nat, contents : Pointers, next : Pointers]

(* The directories that are open. *)
Stack == {frames[i].path : i \in 1..Len(frames)}

(* What a walk makes a node for if nothing stops it. *)
Wanted ==
  CASE duVersion = "burner" -> {p \in Within(IF depth = 0 THEN 0 ELSE depth - 1) : Usable(p)}
    [] duVersion = "inconsistent" -> {p \in Within(depth - 1) : kind[p] \in {"file", "dir"}}
    [] duVersion = "friend" -> {p \in Within(depth) \ {1} : kind[p] # "other"}
    [] duVersion = "du" -> {}

(* What must have been found when a walk ends; inconsistent.c wants it all. *)
Asked == IF duVersion = "inconsistent" THEN DuPaths ELSE Wanted

\* Every open directory is the entry of the one before it that was read last,
\* one level deeper; the walk has gone no deeper than max_depth.
FramesOK ==
  /\ frames \in Seq([path : DuPaths, depth : Nat, todo : SUBSET DuPaths,
                     head : Pointers, prev : Pointers, sub : Pointers])
  /\ \A i \in 1..Len(frames) :
       /\ kind[frames[i].path] = "dir" /\ frames[i].todo \subseteq Kids(frames[i].path)
       /\ frames[i].depth + Level(frames[i].path) = depth
       /\ frames[i].depth >= IF duVersion = "burner" THEN 2 ELSE 1
       /\ i = 1 => frames[i].path = 1
       /\ i > 1 => frames[i].path \in Kids(frames[i - 1].path) \ frames[i - 1].todo
  /\ \A i, j \in 1..Len(frames) : i < j => frames[i].path < frames[j].path

(* The lists of the directories: which node is first in each, which node is next. *)
Lists(next, first, L, pos) ==
  /\ \A q \in L :
       /\ q \in DuPaths \ {1}
       /\ next[q] # NULL => next[q] \in L /\ up[next[q]] = up[q] /\ pos[q] < pos[next[q]]
       /\ first[up[q]] = q \/ \E r \in L : up[r] = up[q] /\ next[r] = q
  /\ \A p \in DuPaths : first[p] # NULL => first[p] \in L /\ up[first[p]] = p

\* The next pointers, and the nodes that were not lost.
NextOf == [q \in DOMAIN heap |-> heap[q].next]
Good == DOMAIN heap \ Lost

(* burner.c and inconsistent.c *)
NodeActive == IF duPc \in {"return", "built"} THEN {ret} ELSE {}

\* The nodes that are in a list, and the lists by their first nodes.
NodeLinked == Good \ (Stack \cup NodeActive)
NodeFirst == [p \in DuPaths |-> IF p \in DOMAIN heap THEN heap[p].contents ELSE NULL]

\* inconsistent.c is giving up.
Failed == duVersion = "inconsistent" /\ duPc \in {"return", "built"} /\ ret = NULL

\* The nodes: only what the walk wants, each with its directory and with the
\* right type and size; what is not yet linked has no next node.
NodeHeap ==
  /\ DOMAIN heap \subseteq DuPaths /\ heap \in [DOMAIN heap -> Nodes]
  /\ \A q \in Good :
       /\ q \in Wanted /\ (q # 1 => up[q] \in Good)
       /\ heap[q].type = (IF kind[q] = "file" THEN "File" ELSE "Directory")
       /\ kind[q] = "file" => heap[q].size = FileSize(q)
       /\ q \notin NodeLinked => heap[q].next = NULL
  /\ Stack \subseteq Good
  /\ Failed \/ Good = DOMAIN heap
  /\ \A i \in 1..Len(frames) : frames[i].todo \cap DOMAIN heap = {}

\* Of an allocated directory nothing is missing but the entries to be read and
\* the one that build_tree is called for.
NodeComplete ==
  ~Failed => \A q \in Good : \A r \in Asked \cap Kids(q) :
    \/ r \in Good \/ (duPc = "call" /\ ret = r)
    \/ \E i \in 1..Len(frames) : frames[i].path = q /\ r \in frames[i].todo

\* prev is NULL for an empty list, else the last node of the list.
NodePrev ==
  \A i \in 1..Len(frames) :
    /\ frames[i].prev = NULL => heap[frames[i].path].contents = NULL
    /\ frames[i].prev # NULL =>
         /\ frames[i].prev \in NodeLinked /\ up[frames[i].prev] = frames[i].path
         /\ heap[frames[i].prev].next = NULL

\* Whom the call is for, and what it returned.
NodeAt ==
  /\ duPc \in {"call", "loop", "return", "built"}
  /\ duPc = "loop" => frames # <<>>
  /\ duPc = "built" => frames = <<>>
  /\ duPc = "call" =>
       /\ ret \in DuPaths \ DOMAIN heap
       /\ frames = <<>> => ret = 1 /\ DOMAIN heap = {}
       /\ frames # <<>> => ret \in Kids(Top.path) \ Top.todo
  /\ duPc \in {"return", "built"} =>
       /\ ret # NULL =>
            /\ ret \in Good \ Stack
            /\ frames = <<>> => ret = 1
            /\ frames # <<>> => ret \in Kids(Top.path)
       /\ ret = NULL /\ frames = <<>> => 1 \notin Good
       /\ ret = NULL /\ frames = <<>> /\ duVersion = "burner" => 1 \notin Wanted
       /\ Failed => Expected = {}

\* The lists are in an order, given by a position for each node, so that none
\* runs into itself.
NodeInv ==
  /\ FramesOK /\ NodeHeap /\ NodeComplete /\ NodePrev /\ NodeAt
  /\ \E pos \in [DuPaths -> Nat] : Lists(NextOf, NodeFirst, NodeLinked, pos)

\* The versions that return the node of the path they are called for.
Nodely == duVersion \in {"burner", "inconsistent"}

(* friend_help.c *)
FriendActive ==
  IF duPc \notin {"call", "return"} THEN {} ELSE IF frames = <<>> THEN {1} ELSE {Top.sub}

\* The nodes that are in a list.
FriendLinked == DOMAIN heap \ (Stack \cup FriendActive)

\* The nodes of friend_help.c, which has none for the root.
FriendHeap ==
  /\ DOMAIN heap \subseteq DuPaths /\ heap \in [DOMAIN heap -> Nodes]
  /\ \A q \in DOMAIN heap :
       /\ q \in Wanted /\ (up[q] # 1 => up[q] \in DOMAIN heap)
       /\ heap[q].type = (IF kind[q] \in {"file", "gone"} THEN "File" ELSE "Directory")
       /\ kind[q] = "file" => heap[q].size = FileSize(q)
       /\ q \notin FriendLinked => heap[q].next = NULL
  /\ Stack \subseteq DOMAIN heap \cup {1}
  /\ \A i \in 1..Len(frames) : frames[i].todo \cap DOMAIN heap = {}

\* Nothing is missing but what is to be read and what the call will list.
FriendComplete ==
  \A q \in DOMAIN heap \cup {1} : \A r \in Wanted \cap Kids(q) :
    \/ r \in DOMAIN heap \/ (duPc = "call" /\ q \in FriendActive)
    \/ \E i \in 1..Len(frames) : frames[i].path = q /\ r \in frames[i].todo

\* prev is the last node of the list, or an entry of another type cleared it.
FriendPrev ==
  \A i \in 1..Len(frames) :
    /\ frames[i].prev # NULL =>
         /\ frames[i].head # NULL
         /\ frames[i].prev \in FriendLinked /\ up[frames[i].prev] = frames[i].path
         /\ heap[frames[i].prev].next = NULL
    /\ frames[i].head # NULL /\ frames[i].prev = NULL =>
         \E q \in Kids(frames[i].path) \ frames[i].todo : kind[q] = "other"
    

\* Every call but the first is for the subdirectory the one before it is at.
FriendAt ==
  /\ duPc \in {"call", "loop", "return", "built"}
  /\ duPc = "loop" => frames # <<>>
  /\ duPc = "built" => frames = <<>>
  /\ duPc = "call" => ret \in FriendActive
  /\ duPc \in {"call", "return"} /\ frames # <<>> =>
       Top.sub \in (Kids(Top.path) \cap DOMAIN heap) \ Stack
  /\ \A i \in 1..Len(frames) : i > 1 => frames[i - 1].sub = frames[i].path
  /\ duPc = "call" => \A q \in DOMAIN heap : up[q] # ret
  /\ duPc \in {"return", "built"} => ret \in Pointers

\* A list that is not finished starts at the head of its call, one that is at
\* the contents of its directory.
FriendFirst(first) ==
  /\ \A i \in 1..Len(frames) : first[frames[i].path] = frames[i].head
  /\ \A q \in FriendLinked : first[q] = heap[q].contents
  /\ duPc = "return" => \A p \in FriendActive : first[p] = ret
  /\ duPc = "built" => first[1] = ret

\* The lists of friend_help.c, wherever they start.
FriendInv ==
  /\ FramesOK /\ FriendHeap /\ FriendComplete /\ FriendPrev /\ FriendAt
  /\ \E first \in [DuPaths -> Pointers] : \E pos \in [DuPaths -> Nat] :
       FriendFirst(first) /\ Lists(NextOf, first, FriendLinked, pos)

(* du.c *)
DuInv ==
  /\ frames = <<>> /\ duPc \in {"call", "return", "built"}
  /\ duPc = "call" => ret = 1 /\ DOMAIN heap = {}
  /\ duPc # "call" =>
       \/ ret = NULL /\ DOMAIN heap = {}
       \/ ret = 1 /\ DOMAIN heap = {1} /\ kind[1] = "gone"

\* Where friend_help.c may crash: an entry that is neither file nor directory
\* has one before it and one behind it.
Crash ==
  /\ duVersion = "friend"
  /\ \E p \in DuPaths \ {1} : kind[p] = "other" /\ Cardinality(Kids(up[p])) >= 3

\* The inductive invariant of the four versions.
TreeInv ==
  /\ TreeOK
  /\ duPc \in {"call", "loop", "return", "built", "freed", "crashed"}
  /\ duPc = "freed" => DOMAIN heap \subseteq Lost
  /\ duPc = "crashed" => Crash
  /\ duPc \notin {"freed", "crashed"} =>
       /\ Nodely => NodeInv
       /\ duVersion = "friend" => FriendInv
       /\ duVersion = "du" => DuInv

(* The paths are numbers, and a directory comes before what is in it.       *)
LEMMA PathsAre ==
  ASSUME TreeOK
  PROVE  /\ DuPaths \subseteq 1..MaxPaths /\ DuPaths \subseteq Nat \ {NULL} /\ 1 \in DuPaths
         /\ \A p \in DuPaths \ {1} : up[p] \in DuPaths /\ up[p] < p /\ kind[up[p]] = "dir"
         /\ \A p \in DuPaths : kind[p] \in Kinds
         /\ \E n \in 1..MaxPaths : DuPaths = 1..n
<1>1. PICK n \in 1..MaxPaths : kind \in [1..n -> Kinds] /\ up \in [2..n -> 1..n]
  BY DEF TreeOK
<1>2. n \in Nat /\ 1 <= n /\ n <= MaxPaths /\ MaxPaths \in Nat
  BY DuAssumption
<1>3. DuPaths = 1..n
  BY <1>1 DEF DuPaths
<1>4. 1..n \subseteq 1..MaxPaths /\ 1..n \subseteq Nat \ {NULL} /\ 1 \in 1..n
  BY <1>2 DEF NULL
<1>5. \A p \in DuPaths \ {1} : up[p] \in DuPaths
  <2>1. \A p \in (1..n) \ {1} : p \in 2..n
    BY <1>2
  <2> QED
    BY <1>1, <1>3, <2>1
<1> QED
  BY <1>1, <1>3, <1>4, <1>5 DEF TreeOK

(* Among some paths one comes first.                                        *)
LEMMA FirstPath ==
  ASSUME TreeOK, NEW S, S \subseteq DuPaths, S # {}
  PROVE  \E p \in S : \A q \in S : p <= q
<1>1. S \subseteq Nat
  BY PathsAre
<1> QED
  BY <1>1, LeastNatural

\* One step of Level, of which f is a part.
LevelIn(f, q) == IF q = 1 THEN 0 ELSE 1 + f[up[q]]

(* The levels of the first n paths.                                         *)
LEMMA LevelSolved ==
  ASSUME TreeOK, NEW n \in Nat
  PROVE  \E f : /\ f = [q \in DuPaths |-> f[q]]
                /\ \A q \in DuPaths : q <= n => f[q] = LevelIn(f, q) /\ f[q] \in Nat
<1> DEFINE Solves_(f, m) == /\ f = [q \in DuPaths |-> f[q]]
                           /\ \A q \in DuPaths : q <= m => f[q] = LevelIn(f, q) /\ f[q] \in Nat
           S == {m \in Nat : ~\E f : Solves_(f, m)}
<1> SUFFICES ASSUME S # {} PROVE FALSE
  BY Zenon
<1>1. PICK m \in S : \A k \in S : m <= k
  BY LeastNatural
<1>2. CASE m = 0
  <2> DEFINE h == [q \in DuPaths |-> 0]
  <2>1. \A q \in DuPaths : ~(q <= 0)
    BY PathsAre DEF NULL
  <2>2. Solves_(h, 0)
    BY <2>1
  <2> HIDE DEF h
  <2> QED
    BY <1>2, <2>2
<1>3. CASE m # 0
  <2>1. m \in Nat /\ m - 1 \in Nat /\ ~(m <= m - 1)
    BY <1>3
  <2>2. PICK g : Solves_(g, m - 1)
    BY <1>1, <2>1
  <2> DEFINE h == [q \in DuPaths |-> LevelIn(g, q)]
  <2>3. h = [q \in DuPaths |-> h[q]] /\ \A q \in DuPaths : h[q] = LevelIn(g, q)
    OBVIOUS
  <2> HIDE DEF h
  <2>4. ASSUME NEW q \in DuPaths, q <= m
        PROVE  h[q] = LevelIn(h, q) /\ h[q] \in Nat
    <3>1. CASE q = 1
      BY <2>3, <3>1 DEF LevelIn
    <3>2. CASE q # 1
      <4>1. up[q] \in DuPaths /\ up[q] < q /\ q \in Nat /\ up[q] \in Nat
        BY <3>2, PathsAre
      <4>2. up[q] <= m - 1
        BY <2>1, <2>4, <4>1
      <4>3. g[up[q]] = LevelIn(g, up[q]) /\ g[up[q]] \in Nat
        BY <2>2, <4>1, <4>2
      <4>4. h[up[q]] = g[up[q]]
        BY <2>3, <4>1, <4>3
      <4> QED
        BY <2>3, <3>2, <4>3, <4>4 DEF LevelIn
    <3> QED
      BY <3>1, <3>2
  <2>5. Solves_(h, m)
    BY <2>3, <2>4
  <2> QED
    BY <2>5
<1> QED
  BY <1>2, <1>3

(* The root has level 0, everything else one more than its directory.       *)
LEMMA LevelIs ==
  ASSUME TreeOK
  PROVE  /\ Level(1) = 0 /\ \A p \in DuPaths : Level(p) \in Nat
         /\ \A p \in DuPaths \ {1} : Level(p) = 1 + Level(up[p])
<1> DEFINE IsLevel(f) == f = [q \in DuPaths |-> LevelIn(f, q)]
<1>1. MaxPaths \in Nat /\ \A q \in DuPaths : q <= MaxPaths
  BY DuAssumption, PathsAre
<1>2. PICK g : /\ g = [q \in DuPaths |-> g[q]]
               /\ \A q \in DuPaths : q <= MaxPaths => g[q] = LevelIn(g, q) /\ g[q] \in Nat
  BY <1>1, LevelSolved
<1>3. IsLevel(g)
  <2>1. \A q \in DuPaths : g[q] = LevelIn(g, q)
    BY <1>1, <1>2
  <2> QED
    BY <1>2, <2>1
<1>4. PICK h : h = (CHOOSE f : IsLevel(f))
  OBVIOUS
<1>5. IsLevel(h)
  BY <1>3, <1>4, Zenon
<1>6. \A p : Level(p) = h[p]
  BY <1>4 DEF Level, LevelIn
<1>7. \A q \in DuPaths : h[q] = LevelIn(h, q)
  BY <1>5, Zenon
<1>8. ASSUME NEW p \in DuPaths
      PROVE  h[p] \in Nat
  <2> DEFINE S == {q \in DuPaths : h[q] \notin Nat}
  <2> SUFFICES ASSUME S # {} PROVE FALSE
    OBVIOUS
  <2>1. PICK q \in S : \A r \in S : q <= r
    <3>1. S \subseteq DuPaths
      OBVIOUS
    <3> HIDE DEF S
    <3> QED
      BY <3>1, FirstPath
  <2>2. q # 1
    BY <1>7 DEF LevelIn
  <2>3. up[q] \in DuPaths /\ ~(q <= up[q])
    BY <2>2, PathsAre
  <2>4. h[up[q]] \in Nat
    BY <2>1, <2>3
  <2> QED
    BY <1>7, <2>2, <2>4 DEF LevelIn
<1> QED
  BY <1>6, <1>7, <1>8, PathsAre DEF LevelIn

\* What path n adds to the size of S.
Adds(S, n) == IF n \in S /\ kind[n] = "file" THEN FileSize(n) ELSE 0

\* One step of SizeOf, of which f is a part.
SumIn(f, S, n) == IF n = 0 THEN 0 ELSE f[n - 1] + Adds(S, n)

(* What a path adds is a size.                                              *)
LEMMA AddsNat ==
  ASSUME TreeOK, NEW S, S \subseteq DuPaths, NEW n
  PROVE  Adds(S, n) \in Nat
  BY DuAssumption, PathsAre DEF Adds

(* The size of the first n paths.                                           *)
LEMMA SumSolved ==
  ASSUME TreeOK, NEW S, S \subseteq DuPaths, NEW n \in Nat
  PROVE  \E f : /\ f = [k \in 0..MaxPaths |-> f[k]]
                /\ \A k \in 0..MaxPaths : k <= n => f[k] = SumIn(f, S, k) /\ f[k] \in Nat
<1> DEFINE Sums(f, m) == /\ f = [k \in 0..MaxPaths |-> f[k]]
                         /\ \A k \in 0..MaxPaths : k <= m => f[k] = SumIn(f, S, k) /\ f[k] \in Nat
           W == {m \in Nat : ~\E f : Sums(f, m)}
<1> SUFFICES ASSUME W # {} PROVE FALSE
  BY Zenon
<1>0. MaxPaths \in Nat
  BY DuAssumption
<1>1. PICK m \in W : \A k \in W : m <= k
  BY LeastNatural
<1>2. CASE m = 0
  <2> DEFINE h == [k \in 0..MaxPaths |-> 0]
  <2>1. \A k \in 0..MaxPaths : k <= 0 => h[k] = 0 /\ k = 0
    BY <1>0
  <2>2. Sums(h, 0)
    BY <2>1 DEF SumIn
  <2> HIDE DEF h
  <2> QED
    BY <1>2, <2>2
<1>3. CASE m # 0
  <2>1. m \in Nat /\ m - 1 \in Nat /\ ~(m <= m - 1)
    BY <1>3
  <2>2. PICK g : Sums(g, m - 1)
    BY <1>1, <2>1
  <2> DEFINE h == [k \in 0..MaxPaths |-> SumIn(g, S, k)]
  <2>3. h = [k \in 0..MaxPaths |-> h[k]] /\ \A k \in 0..MaxPaths : h[k] = SumIn(g, S, k)
    OBVIOUS
  <2> HIDE DEF h
  <2>4. ASSUME NEW k \in 0..MaxPaths, k <= m
        PROVE  h[k] = SumIn(h, S, k) /\ h[k] \in Nat
    <3>1. CASE k = 0
      BY <2>3, <3>1 DEF SumIn
    <3>2. CASE k # 0
      <4>1. k - 1 \in 0..MaxPaths /\ k - 1 <= m - 1
        BY <1>0, <2>1, <2>4, <3>2
      <4>2. g[k - 1] = SumIn(g, S, k - 1) /\ g[k - 1] \in Nat
        BY <2>2, <4>1
      <4>3. h[k - 1] = g[k - 1]
        BY <2>3, <4>1, <4>2
      <4>4. Adds(S, k) \in Nat
        BY AddsNat
      <4> QED
        BY <2>3, <3>2, <4>2, <4>3, <4>4 DEF SumIn
    <3> QED
      BY <3>1, <3>2
  <2>5. Sums(h, m)
    BY <2>3, <2>4
  <2> QED
    BY <2>5
<1> QED
  BY <1>2, <1>3

\* What the size of S is the end of.
Sums(f, S) ==
  /\ SizeOf(S) = f[MaxPaths] /\ f[0] = 0
  /\ \A k \in 0..MaxPaths : f[k] \in Nat
  /\ \A k \in 1..MaxPaths : f[k] = f[k - 1] + Adds(S, k)

(* SizeOf adds path by path.                                               *)
LEMMA SizeIs ==
  ASSUME TreeOK, NEW S, S \subseteq DuPaths
  PROVE  SizeOf(S) \in Nat /\ \E f : Sums(f, S)
<1> DEFINE IsSum(f) == f = [k \in 0..MaxPaths |-> SumIn(f, S, k)]
<1>1. MaxPaths \in Nat /\ \A k \in 0..MaxPaths : k <= MaxPaths
  BY DuAssumption
<1>2. PICK g : /\ g = [k \in 0..MaxPaths |-> g[k]]
               /\ \A k \in 0..MaxPaths : k <= MaxPaths => g[k] = SumIn(g, S, k) /\ g[k] \in Nat
  BY <1>1, SumSolved
<1>3. IsSum(g)
  <2>1. \A k \in 0..MaxPaths : g[k] = SumIn(g, S, k)
    BY <1>1, <1>2
  <2> QED
    BY <1>2, <2>1
<1>4. PICK h : h = (CHOOSE f : IsSum(f))
  OBVIOUS
<1>5. IsSum(h)
  BY <1>3, <1>4, Zenon
<1>6. SizeOf(S) = h[MaxPaths]
  BY <1>4 DEF SizeOf, SumIn, Adds
<1>7. \A k \in 0..MaxPaths : h[k] = SumIn(h, S, k)
  BY <1>5, Zenon
<1>8. h[0] = 0 /\ \A k \in 1..MaxPaths : h[k] = h[k - 1] + Adds(S, k)
  <2>1. 0 \in 0..MaxPaths /\ \A k \in 1..MaxPaths : k \in 0..MaxPaths /\ k # 0
    BY <1>1
  <2> QED
    BY <1>7, <2>1 DEF SumIn
<1>9. \A k \in 0..MaxPaths : h[k] \in Nat
  <2> DEFINE W == {k \in 0..MaxPaths : h[k] \notin Nat}
  <2> SUFFICES ASSUME W # {} PROVE FALSE
    OBVIOUS
  <2>1. PICK k \in W : \A j \in W : k <= j
    <3>1. W \subseteq Nat
      BY <1>1
    <3> HIDE DEF W
    <3> QED
      BY <3>1, LeastNatural
  <2>2. k # 0
    BY <1>8
  <2>3. k \in 1..MaxPaths /\ k - 1 \in 0..MaxPaths /\ ~(k <= k - 1)
    BY <1>1, <2>2
  <2>4. h[k - 1] \in Nat
    BY <2>1, <2>3
  <2>5. Adds(S, k) \in Nat
    BY AddsNat
  <2> QED
    BY <1>8, <2>3, <2>4, <2>5
<1>10. SizeOf(S) \in Nat
  BY <1>1, <1>6, <1>9
<1> QED
  BY <1>6, <1>8, <1>9, <1>10 DEF Sums

(* Sizes add up.                                                            *)
LEMMA SizeAdds ==
  ASSUME TreeOK, NEW S, NEW T, S \subseteq DuPaths, T \subseteq DuPaths, S \cap T = {}
  PROVE  SizeOf(S \cup T) = SizeOf(S) + SizeOf(T)
<1> DEFINE U == S \cup T
<1>1. U \subseteq DuPaths /\ MaxPaths \in Nat
  BY DuAssumption
<1>2. \A k : Adds(U, k) = Adds(S, k) + Adds(T, k) /\ Adds(S, k) \in Nat /\ Adds(T, k) \in Nat
  <2>1. \A k : Adds(S, k) \in Nat /\ Adds(T, k) \in Nat
    BY AddsNat
  <2> QED
    BY <2>1 DEF Adds
<1> HIDE DEF U
<1>3. PICK s, t, u : Sums(s, S) /\ Sums(t, T) /\ Sums(u, U)
  BY <1>1, SizeIs
<1> DEFINE W == {k \in 0..MaxPaths : u[k] # s[k] + t[k]}
<1>4. ASSUME W # {}
      PROVE  FALSE
  <2>1. PICK k \in W : \A j \in W : k <= j
    <3>1. W \subseteq Nat /\ W # {}
      BY <1>1, <1>4
    <3> HIDE DEF W
    <3> QED
      BY <3>1, LeastNatural
  <2>2. k # 0
    BY <1>3 DEF Sums
  <2>3. k \in 1..MaxPaths /\ k - 1 \in 0..MaxPaths /\ ~(k <= k - 1)
    BY <1>1, <2>2
  <2>4. u[k - 1] = s[k - 1] + t[k - 1]
    BY <2>1, <2>3
  <2>5. /\ u[k] = u[k - 1] + Adds(U, k) /\ s[k] = s[k - 1] + Adds(S, k)
        /\ t[k] = t[k - 1] + Adds(T, k) /\ s[k - 1] \in Nat /\ t[k - 1] \in Nat
    BY <1>3, <2>3 DEF Sums
  <2>6. u[k] = s[k] + t[k]
    BY <1>2, <2>4, <2>5
  <2> QED
    BY <2>6
<1>5. MaxPaths \in 0..MaxPaths
  BY <1>1
<1>6. u[MaxPaths] = s[MaxPaths] + t[MaxPaths]
  BY <1>4, <1>5
<1> QED
  BY <1>3, <1>6 DEF Sums, U

(* What a single path adds, and nothing.                                    *)
LEMMA SizeOfOne ==
  ASSUME TreeOK, NEW q \in DuPaths
  PROVE  SizeOf({q}) = IF kind[q] = "file" THEN FileSize(q) ELSE 0
<1> DEFINE a == IF kind[q] = "file" THEN FileSize(q) ELSE 0
<1>1. {q} \subseteq DuPaths /\ MaxPaths \in Nat /\ q \in Nat /\ 1 <= q /\ q <= MaxPaths /\ a \in Nat
  BY DuAssumption, PathsAre
<1>2. Adds({q}, q) = a /\ \A k : k # q => Adds({q}, k) = 0
  BY DEF Adds
<1> HIDE DEF a
<1>3. PICK s : Sums(s, {q})
  BY <1>1, SizeIs
<1> DEFINE W == {k \in 0..MaxPaths : s[k] # IF k < q THEN 0 ELSE a}
<1>4. ASSUME W # {}
      PROVE  FALSE
  <2>1. PICK k \in W : \A j \in W : k <= j
    <3>1. W \subseteq Nat /\ W # {}
      BY <1>1, <1>4
    <3> HIDE DEF W
    <3> QED
      BY <3>1, LeastNatural
  <2>2. k # 0
    BY <1>1, <1>3 DEF Sums
  <2>3. k \in 1..MaxPaths /\ k - 1 \in 0..MaxPaths /\ ~(k <= k - 1)
    BY <1>1, <2>2
  <2>4. s[k - 1] = IF k - 1 < q THEN 0 ELSE a
    BY <2>1, <2>3
  <2>5. s[k] = s[k - 1] + Adds({q}, k)
    BY <1>3, <2>3 DEF Sums
  <2>6. s[k] = IF k < q THEN 0 ELSE a
    BY <1>1, <1>2, <2>3, <2>4, <2>5
  <2> QED
    BY <2>6
<1>5. MaxPaths \in 0..MaxPaths /\ ~(MaxPaths < q)
  BY <1>1
<1>6. s[MaxPaths] = a
  BY <1>4, <1>5
<1> QED
  BY <1>3, <1>6 DEF Sums, a

(* No path has size 0.                                                     *)
LEMMA SizeOfNone ==
  ASSUME TreeOK
  PROVE  SizeOf({}) = 0
<1>1. {} \subseteq DuPaths /\ {} \cap {} = {} /\ {} \cup {} = {}
  OBVIOUS
<1>2. SizeOf({} \cup {}) = SizeOf({}) + SizeOf({})
  BY <1>1, SizeAdds
<1>3. SizeOf({}) = SizeOf({}) + SizeOf({}) /\ SizeOf({}) \in Nat
  BY <1>1, <1>2, SizeIs
<1> QED
  BY <1>3

(* A chain has its first node and what follows each of its nodes, and no    *)
(* other set that does is smaller.                                          *)
LEMMA ChainIs ==
  ASSUME NEW h, NEW p
  PROVE  /\ Chain(h, p) \subseteq DOMAIN h
         /\ p \in DOMAIN h /\ p # NULL => p \in Chain(h, p)
         /\ \A r \in Chain(h, p) :
              h[r].next \in DOMAIN h /\ h[r].next # NULL => h[r].next \in Chain(h, p)
         /\ \A S \in SUBSET DOMAIN h :
              p \in S \cup {NULL} /\ (\A r \in S : h[r].next \in S \cup {NULL})
                => Chain(h, p) \subseteq S
<1>1. Chain(h, p) \subseteq DOMAIN h
  BY DEF Chain
<1>2. p \in DOMAIN h /\ p # NULL => p \in Chain(h, p)
  BY DEF Chain
<1>3. ASSUME NEW r \in Chain(h, p), h[r].next \in DOMAIN h, h[r].next # NULL
      PROVE  h[r].next \in Chain(h, p)
  BY <1>3 DEF Chain
<1>4. ASSUME NEW S \in SUBSET DOMAIN h, p \in S \cup {NULL},
             \A r \in S : h[r].next \in S \cup {NULL}
      PROVE  Chain(h, p) \subseteq S
  BY <1>4 DEF Chain
<1> QED
  BY <1>1, <1>2, <1>3, <1>4

(* Under is the least set with a node that has the chains of its contents.   *)
LEMMA UnderIs ==
  ASSUME NEW h, NEW p
  PROVE  /\ Under(h, p) \subseteq DOMAIN h
         /\ p \in DOMAIN h /\ p # NULL => p \in Under(h, p)
         /\ \A r \in Under(h, p) : Chain(h, h[r].contents) \subseteq Under(h, p)
         /\ \A S \in SUBSET DOMAIN h :
              p \in S \cup {NULL} /\ (\A r \in S : Chain(h, h[r].contents) \subseteq S)
                => Under(h, p) \subseteq S
<1>1. Under(h, p) \subseteq DOMAIN h
  BY DEF Under
<1>2. p \in DOMAIN h /\ p # NULL => p \in Under(h, p)
  BY DEF Under
<1>3. ASSUME NEW r \in Under(h, p), NEW x \in Chain(h, h[r].contents)
      PROVE  x \in Under(h, p)
  <2>1. x \in DOMAIN h
    BY ChainIs
  <2> QED
    BY <1>3, <2>1 DEF Under
<1>4. ASSUME NEW S \in SUBSET DOMAIN h, p \in S \cup {NULL},
             \A r \in S : Chain(h, h[r].contents) \subseteq S
      PROVE  Under(h, p) \subseteq S
  BY <1>4 DEF Under
<1> QED
  BY <1>1, <1>2, <1>3, <1>4

(* Of some nodes one was linked first.                                      *)
LEMMA FirstLinked ==
  ASSUME TreeOK, NEW S, S \subseteq DuPaths, S # {}, NEW pos \in [DuPaths -> Nat]
  PROVE  \E q \in S : \A r \in S : pos[q] <= pos[r]
<1> DEFINE P == {pos[q] : q \in S}
<1>1. P \subseteq Nat /\ P # {}
  OBVIOUS
<1> HIDE DEF P
<1>2. PICK m \in P : \A k \in P : m <= k
  BY <1>1, LeastNatural
<1> QED
  BY <1>2 DEF P

(* The chain of a directory has the nodes that are linked in it.             *)
LEMMA ChainOfList ==
  ASSUME TreeOK, NEW next, NEW first, NEW L, NEW pos \in [DuPaths -> Nat],
         Lists(next, first, L, pos), NEW h, L \subseteq DOMAIN h,
         \A q \in L : h[q].next = next[q], NEW p \in DuPaths
  PROVE  Chain(h, first[p]) = {q \in L : up[q] = p}
<1> DEFINE K == {q \in L : up[q] = p}
           C == Chain(h, first[p])
<1>1. K \subseteq DOMAIN h /\ L \subseteq DuPaths /\ NULL \notin L
  BY PathsAre DEF Lists
<1>2. first[p] \in K \cup {NULL} /\ \A r \in K : h[r].next \in K \cup {NULL}
  BY DEF Lists
<1>3. C \subseteq K
  BY <1>1, <1>2, ChainIs
<1>4. ASSUME K \ C # {}
      PROVE  FALSE
  <2>1. PICK q \in K \ C : \A r \in K \ C : pos[q] <= pos[r]
    <3>1. K \ C \subseteq DuPaths
      BY <1>1
    <3> HIDE DEF K, C
    <3> QED
      BY <1>4, <3>1, FirstLinked
  <2>2. q \in DOMAIN h /\ q # NULL /\ q \in L /\ up[q] = p /\ q \notin C
    BY <1>1, <2>1
  <2>3. q # first[p]
    BY <2>2, ChainIs
  <2>4. PICK r \in L : up[r] = up[q] /\ next[r] = q
    BY <2>2, <2>3 DEF Lists
  <2>5. pos[r] < pos[q] /\ r \in K /\ h[r].next = q
    BY <2>2, <2>4 DEF Lists
  <2>6. r \in DuPaths /\ q \in DuPaths /\ ~(pos[q] <= pos[r])
    BY <1>1, <2>4, <2>5
  <2>7. r \in C
    BY <2>1, <2>5, <2>6
  <2> QED
    BY <2>2, <2>5, <2>7, ChainIs
<1> QED
  BY <1>3, <1>4

(* Under a node is what is linked in its directory, and so on.               *)
LEMMA UnderOfList ==
  ASSUME TreeOK, NEW next, NEW first, NEW L, NEW pos \in [DuPaths -> Nat],
         Lists(next, first, L, pos), NEW h, L \subseteq DOMAIN h,
         \A q \in L : h[q].next = next[q], NEW p \in DuPaths, p \in DOMAIN h,
         \A q \in L \cup {p} : h[q].contents = first[q]
  PROVE  /\ p \in Under(h, p) /\ Under(h, p) \subseteq L \cup {p}
         /\ \A q \in Under(h, p) : p <= q
         /\ \A q \in L : q # p => (q \in Under(h, p)) = (up[q] \in Under(h, p))
<1> DEFINE U == Under(h, p)
           S == {q \in L \cup {p} : p <= q}
           V == {q \in U : q = p \/ (q \in L /\ up[q] \in U)}
<1>1. p # NULL /\ p \in Nat /\ p \in U
  BY PathsAre, UnderIs
<1>2. \A r \in L \cup {p} : Chain(h, h[r].contents) = {q \in L : up[q] = r}
  <2>1. L \cup {p} \subseteq DuPaths
    BY DEF Lists
  <2> QED
    BY <2>1, ChainOfList
<1>3. U \subseteq S
  <2>1. p \in S /\ S \subseteq DOMAIN h
    BY <1>1
  <2>2. ASSUME NEW r \in S, NEW q \in L, up[q] = r
        PROVE  q \in S
    <3>1. q \in Nat /\ r \in Nat /\ r < q /\ p <= r
      BY <2>2, PathsAre DEF Lists
    <3> QED
      BY <1>1, <3>1
  <2>3. \A r \in S : Chain(h, h[r].contents) \subseteq S
    BY <1>2, <2>2
  <2> HIDE DEF S
  <2> QED
    BY <2>1, <2>3, UnderIs
<1>4. U \subseteq L \cup {p}
  BY <1>3
<1>5. U \subseteq V
  <2>0. U \subseteq DOMAIN h
    BY UnderIs
  <2>1. p \in V /\ V \subseteq DOMAIN h
    BY <1>1, <2>0
  <2>2. ASSUME NEW r \in V, NEW q \in Chain(h, h[r].contents)
        PROVE  q \in V
    <3>1. r \in L \cup {p} /\ r \in U
      BY <1>4
    <3>2. q \in L /\ up[q] = r
      BY <1>2, <3>1
    <3>3. q \in U
      BY <3>1, UnderIs
    <3> QED
      BY <3>1, <3>2, <3>3
  <2> HIDE DEF V, U
  <2>3. \A r \in V : Chain(h, h[r].contents) \subseteq V
    BY <2>2
  <2>4. Under(h, p) \subseteq V
    BY <2>1, <2>3, UnderIs
  <2> QED
    BY <2>4 DEF U
<1>6. ASSUME NEW q \in L, up[q] \in U
      PROVE  q \in U
  <2>1. q \in Chain(h, h[up[q]].contents)
    BY <1>2, <1>4, <1>6
  <2> QED
    BY <1>6, <2>1, UnderIs
<1> QED
  BY <1>1, <1>3, <1>4, <1>5, <1>6

(* A list of a directory with one more node: the first one, or the one       *)
(* behind prev.                                                             *)
LEMMA ListAppended ==
  ASSUME TreeOK, NEW next, NEW first, NEW L, NEW pos \in [DuPaths -> Nat],
         Lists(next, first, L, pos), NEW next2, NEW first2,
         NEW x \in DuPaths \ {1}, x \notin L, NEW prev,
         \A q \in L : q # prev => next2[q] = next[q],
         next2[x] = NULL,
         \A p \in DuPaths : p # up[x] \/ prev # NULL => first2[p] = first[p],
         prev = NULL => first[up[x]] = NULL /\ first2[up[x]] = x,
         prev # NULL => prev \in L /\ up[prev] = up[x] /\ next[prev] = NULL /\ next2[prev] = x
  PROVE  \E pos2 \in [DuPaths -> Nat] : Lists(next2, first2, L \cup {x}, pos2)
<1> DEFINE pos2 == [pos EXCEPT ![x] = IF prev = NULL THEN 0 ELSE pos[prev] + 1]
           M == L \cup {x}
<1>1. L \subseteq DuPaths /\ x # NULL /\ x \in DuPaths /\ up[x] \in DuPaths
  BY PathsAre DEF Lists
<1>2. pos2 \in [DuPaths -> Nat]
  BY <1>1
<1>3. /\ \A q \in L : pos2[q] = pos[q] /\ pos[q] \in Nat
      /\ prev # NULL => pos2[x] = pos[prev] + 1
  BY <1>1
<1> HIDE DEF pos2
<1>4. ASSUME NEW q \in M
      PROVE  /\ q \in DuPaths \ {1}
             /\ next2[q] # NULL =>
                  next2[q] \in M /\ up[next2[q]] = up[q] /\ pos2[q] < pos2[next2[q]]
             /\ first2[up[q]] = q \/ \E r \in M : up[r] = up[q] /\ next2[r] = q
  <2>1. CASE q = x
    <3>1. next2[q] = NULL
      BY <2>1
    <3>2. first2[up[q]] = q \/ \E r \in M : up[r] = up[q] /\ next2[r] = q
      BY <2>1
    <3> QED
      BY <1>1, <2>1, <3>1, <3>2
  <2>2. CASE q \in L /\ q = prev
    <3>1. next2[q] = x /\ up[x] = up[q] /\ prev # NULL
      BY <1>1, <2>2, PathsAre
    <3>2. pos2[q] < pos2[x]
      BY <1>3, <2>2, <3>1
    <3>3. q # x
      BY <2>2
    <3>4. first[up[q]] = q \/ \E r \in L : up[r] = up[q] /\ next[r] = q
      BY <2>2 DEF Lists
    <3>5. first2[up[q]] = first[up[q]]
      BY <1>1, <3>1
    <3>6. \A r \in L : next[r] = q => r # prev /\ next2[r] = next[r]
      BY <2>2, <3>1
    <3>7. first2[up[q]] = q \/ \E r \in M : up[r] = up[q] /\ next2[r] = q
      BY <3>4, <3>5, <3>6
    <3>8. next2[q] # NULL =>
            next2[q] \in M /\ up[next2[q]] = up[q] /\ pos2[q] < pos2[next2[q]]
      BY <3>1, <3>2
    <3> QED
      BY <2>2, <3>7, <3>8 DEF Lists
  <2>3. CASE q \in L /\ q # prev
    <3>1. next2[q] = next[q]
      BY <2>3
    <3>2. next2[q] # NULL => next2[q] \in L /\ up[next2[q]] = up[q] /\ pos2[q] < pos2[next2[q]]
      BY <1>3, <2>3, <3>1 DEF Lists
    <3>3. first[up[q]] = q \/ \E r \in L : up[r] = up[q] /\ next[r] = q
      BY <2>3 DEF Lists
    <3>4. q # NULL /\ up[q] \in DuPaths
      BY <1>1, <2>3, PathsAre DEF Lists
    <3>5. CASE first[up[q]] = q
      <4>1. first2[up[q]] = first[up[q]]
        BY <3>4, <3>5
      <4> QED
        BY <1>1, <2>3, <3>2, <3>5, <4>1 DEF Lists
    <3>6. CASE \E r \in L : up[r] = up[q] /\ next[r] = q
      <4>1. PICK r \in L : up[r] = up[q] /\ next[r] = q
        BY <3>6
      <4>2. r # prev
        BY <3>4, <4>1, PathsAre DEF Lists
      <4>3. next2[r] = q
        BY <4>1, <4>2
      <4> QED
        BY <2>3, <3>2, <4>1, <4>3 DEF Lists
    <3> QED
      BY <3>3, <3>5, <3>6
  <2> QED
    BY <2>1, <2>2, <2>3
<1>5. ASSUME NEW p \in DuPaths, first2[p] # NULL
      PROVE  first2[p] \in M /\ up[first2[p]] = p
  BY <1>5 DEF Lists
<1>6. Lists(next2, first2, M, pos2)
  BY <1>4, <1>5, Zenon DEF Lists
<1> QED
  BY <1>2, <1>6

(* Lists that lose whole directories, or nothing.                           *)
LEMMA ListsKept ==
  ASSUME TreeOK, NEW next, NEW first, NEW L, NEW pos \in [DuPaths -> Nat],
         Lists(next, first, L, pos), NEW next2, NEW first2, NEW M, M \subseteq L,
         \A q, r \in L : up[q] = up[r] /\ q \in M => r \in M,
         \A q \in M : next2[q] = next[q] /\ first2[up[q]] = first[up[q]],
         \A p \in DuPaths : first2[p] # NULL => first2[p] = first[p] /\ first[p] \in M
  PROVE  Lists(next2, first2, M, pos)
<1>1. ASSUME NEW q \in M
      PROVE  /\ q \in DuPaths \ {1}
             /\ next2[q] # NULL =>
                  next2[q] \in M /\ up[next2[q]] = up[q] /\ pos[q] < pos[next2[q]]
             /\ first2[up[q]] = q \/ \E r \in M : up[r] = up[q] /\ next2[r] = q
  <2>1. q \in L /\ next2[q] = next[q] /\ first2[up[q]] = first[up[q]]
    OBVIOUS
  <2>2. q \in DuPaths \ {1}
    BY <2>1 DEF Lists
  <2>3. next[q] # NULL => next[q] \in L /\ up[next[q]] = up[q] /\ pos[q] < pos[next[q]]
    BY <2>1 DEF Lists
  <2>4. first[up[q]] = q \/ \E r \in L : up[r] = up[q] /\ next[r] = q
    BY <2>1 DEF Lists
  <2>5. \A r \in L : up[r] = up[q] => r \in M /\ next2[r] = next[r]
    BY <2>1
  <2> QED
    BY <2>1, <2>2, <2>3, <2>4, <2>5
<1>2. ASSUME NEW p \in DuPaths, first2[p] # NULL
      PROVE  first2[p] \in M /\ up[first2[p]] = p
  BY <1>2 DEF Lists
<1> QED
  BY <1>1, <1>2, Zenon DEF Lists

\* A tree whose lists are done; in friend_help.c it has no node for the root.
Done(h, L, first, pos) ==
  /\ L \subseteq DOMAIN h /\ DOMAIN h \subseteq L \cup {1}
  /\ first \in [DuPaths -> Pointers] /\ pos \in [DuPaths -> Nat]
  /\ Lists([q \in DOMAIN h |-> h[q].next], first, L, pos)
  /\ \A q \in DOMAIN h :
       /\ h[q].contents = first[q]
       /\ q \notin L => h[q].next = NULL
       /\ (h[q].type = "File") = (kind[q] = "file")
       /\ kind[q] = "file" => h[q].size = FileSize(q)

(* Where the pointers of a finished tree go.                                *)
LEMMA DoneIs ==
  ASSUME TreeOK, NEW h, NEW L, NEW first, NEW pos, Done(h, L, first, pos)
  PROVE  /\ L \subseteq DuPaths \ {1} /\ DOMAIN h \subseteq DuPaths /\ NULL \notin DOMAIN h
         /\ \A q \in DOMAIN h :
              /\ h[q].contents # NULL => h[q].contents \in L /\ up[h[q].contents] = q
              /\ h[q].next # NULL =>
                   /\ q \in L /\ h[q].next \in L /\ up[h[q].next] = up[q]
                   /\ pos[q] < pos[h[q].next] /\ pos[q] \in Nat /\ pos[h[q].next] \in Nat
              /\ kind[q] # "dir" => h[q].contents = NULL
<1>1. L \subseteq DuPaths \ {1} /\ DOMAIN h \subseteq DuPaths /\ NULL \notin DOMAIN h
  BY PathsAre DEF Done, Lists
<1>2. ASSUME NEW q \in DOMAIN h, h[q].contents # NULL
      PROVE  h[q].contents \in L /\ up[h[q].contents] = q
  BY <1>1, <1>2 DEF Done, Lists
<1>3. ASSUME NEW q \in DOMAIN h, h[q].next # NULL
      PROVE  /\ q \in L /\ h[q].next \in L /\ up[h[q].next] = up[q]
             /\ pos[q] < pos[h[q].next] /\ pos[q] \in Nat /\ pos[h[q].next] \in Nat
  <2>1. q \in L /\ pos \in [DuPaths -> Nat]
    BY <1>3 DEF Done
  <2>2. h[q].next \in L /\ up[h[q].next] = up[q] /\ pos[q] < pos[h[q].next]
    BY <1>3, <2>1 DEF Done, Lists
  <2> QED
    BY <1>1, <2>1, <2>2
<1>4. ASSUME NEW q \in DOMAIN h, kind[q] # "dir"
      PROVE  h[q].contents = NULL
  <2> SUFFICES ASSUME h[q].contents # NULL PROVE FALSE
    OBVIOUS
  <2>1. h[q].contents \in DuPaths \ {1} /\ up[h[q].contents] = q
    BY <1>1, <1>2
  <2> QED
    BY <1>4, <2>1, PathsAre
<1> QED
  BY <1>1, <1>2, <1>3, <1>4

(* Everything from a node on: its chain and all under it.                   *)
Reach(h, p) ==
  {q \in DOMAIN h : \A S \in SUBSET DOMAIN h :
     p \in S \cup {NULL}
     /\ (\A r \in S : h[r].next \in S \cup {NULL} /\ h[r].contents \in S \cup {NULL}) => q \in S}

(* Reach is the least set with a node that has what its nodes point to.      *)
LEMMA ReachIs ==
  ASSUME NEW h, NEW p
  PROVE  /\ Reach(h, p) \subseteq DOMAIN h
         /\ p \in DOMAIN h /\ p # NULL => p \in Reach(h, p)
         /\ p = NULL => Reach(h, p) = {}
         /\ \A r \in Reach(h, p) :
              /\ h[r].next \in DOMAIN h /\ h[r].next # NULL => h[r].next \in Reach(h, p)
              /\ h[r].contents \in DOMAIN h /\ h[r].contents # NULL => h[r].contents \in Reach(h, p)
         /\ \A S \in SUBSET DOMAIN h :
              p \in S \cup {NULL}
              /\ (\A r \in S : h[r].next \in S \cup {NULL} /\ h[r].contents \in S \cup {NULL})
                => Reach(h, p) \subseteq S
<1>1. Reach(h, p) \subseteq DOMAIN h
  BY DEF Reach
<1>2. p \in DOMAIN h /\ p # NULL => p \in Reach(h, p)
  BY DEF Reach
<1>3. ASSUME NEW r \in Reach(h, p), h[r].next \in DOMAIN h, h[r].next # NULL
      PROVE  h[r].next \in Reach(h, p)
  BY <1>3 DEF Reach
<1>4. ASSUME NEW r \in Reach(h, p), h[r].contents \in DOMAIN h, h[r].contents # NULL
      PROVE  h[r].contents \in Reach(h, p)
  BY <1>4 DEF Reach
<1>5. ASSUME NEW S \in SUBSET DOMAIN h, p \in S \cup {NULL},
             \A r \in S : h[r].next \in S \cup {NULL} /\ h[r].contents \in S \cup {NULL}
      PROVE  Reach(h, p) \subseteq S
  BY <1>5 DEF Reach
<1>6. p = NULL => Reach(h, p) = {}
  <2>1. {} \in SUBSET DOMAIN h
    OBVIOUS
  <2>2. p = NULL => Reach(h, p) \subseteq {}
    BY <1>5, <2>1
  <2> QED
    BY <2>2
<1> QED
  BY <1>1, <1>2, <1>3, <1>4, <1>5, <1>6

(* A path and all paths under it.                                           *)
Beneath(p) ==
  {q \in DuPaths : \A S \in SUBSET DuPaths : p \in S /\ (\A r \in S : Kids(r) \subseteq S) => q \in S}

(* What is beneath a path comes behind it, and its directory is beneath too.  *)
LEMMA BeneathIs ==
  ASSUME TreeOK, NEW p \in DuPaths
  PROVE  /\ p \in Beneath(p) /\ Beneath(p) \subseteq DuPaths
         /\ \A q \in Beneath(p) : p <= q /\ (q # p => q # 1 /\ up[q] \in Beneath(p))
         /\ \A q \in DuPaths \ {1} : up[q] \in Beneath(p) => q \in Beneath(p)
<1> DEFINE B == Beneath(p)
           S == {q \in B : p <= q}
           V == {q \in B : q = p \/ (q # 1 /\ up[q] \in B)}
<1>1. p \in B /\ B \subseteq DuPaths
  BY DEF Beneath
<1>2. ASSUME NEW q \in DuPaths \ {1}, up[q] \in B
      PROVE  q \in B
  BY <1>2 DEF Beneath, Kids
<1>3. ASSUME NEW W \in SUBSET DuPaths, p \in W, \A r \in W : Kids(r) \subseteq W
      PROVE  B \subseteq W
  BY <1>3 DEF Beneath
<1> HIDE DEF B
<1>4. \A r \in B : \A q \in Kids(r) : q \in B /\ q \in DuPaths \ {1} /\ up[q] = r
  BY <1>1, <1>2 DEF Kids
<1>5. B \subseteq S
  <2>1. p \in S /\ S \in SUBSET DuPaths
    BY <1>1, PathsAre
  <2>2. ASSUME NEW r \in S, NEW q \in Kids(r)
        PROVE  q \in S
    <3>1. q \in B /\ r < q /\ p <= r /\ p \in Nat /\ q \in Nat /\ r \in Nat
      BY <1>1, <1>4, PathsAre
    <3> QED
      BY <3>1
  <2> HIDE DEF S
  <2> QED
    BY <1>3, <2>1, <2>2
<1>6. B \subseteq V
  <2>1. p \in V /\ V \in SUBSET DuPaths
    BY <1>1
  <2>2. \A r \in V : \A q \in Kids(r) : q \in V
    BY <1>4
  <2> HIDE DEF V
  <2> QED
    BY <1>3, <2>1, <2>2
<1> QED
  BY <1>1, <1>2, <1>5, <1>6 DEF B

(* From a node on there is the node, all from its contents on and all from   *)
(* the next node on; nothing is in two of them.                             *)
LEMMA ReachSplits ==
  ASSUME TreeOK, NEW h, NEW L, NEW first, NEW pos, Done(h, L, first, pos), NEW q \in DOMAIN h
  PROVE  LET c == Reach(h, h[q].contents)
             n == Reach(h, h[q].next)
         IN /\ Reach(h, q) = {q} \cup c \cup n
            /\ q \notin c /\ q \notin n /\ c \cap n = {}
<1> DEFINE c == Reach(h, h[q].contents)
           n == Reach(h, h[q].next)
           R == {q} \cup c \cup n
           S == {x \in DOMAIN h : x \in Beneath(q) /\ x # q}
           V == {x \in DOMAIN h : /\ x # 1 /\ x \notin Beneath(q)
                                  /\ up[x] > up[q] \/ (up[x] = up[q] /\ pos[x] > pos[q])}
<1>1. /\ L \subseteq DuPaths \ {1} /\ DOMAIN h \subseteq DuPaths /\ NULL \notin DOMAIN h
      /\ L \subseteq DOMAIN h
  BY DoneIs DEF Done
<1>2. \A x \in DOMAIN h :
        /\ h[x].contents # NULL => h[x].contents \in L /\ up[h[x].contents] = x
        /\ h[x].next # NULL =>
             /\ x \in L /\ h[x].next \in L /\ up[h[x].next] = up[x]
             /\ pos[x] < pos[h[x].next] /\ pos[x] \in Nat /\ pos[h[x].next] \in Nat
  BY DoneIs
<1>3. \A x \in DuPaths : x \in Nat /\ (x # 1 => up[x] \in Nat /\ up[x] \in DuPaths /\ up[x] < x)
  BY PathsAre
<1>4. /\ q \in Beneath(q)
      /\ \A x \in Beneath(q) : q <= x /\ (x # q => x # 1 /\ up[x] \in Beneath(q))
      /\ \A x \in DuPaths \ {1} : up[x] \in Beneath(q) => x \in Beneath(q)
  BY <1>1, BeneathIs
<1>5. Reach(h, q) \subseteq R
  <2>1. R \subseteq DOMAIN h
    BY ReachIs
  <2>2. ASSUME NEW x \in R
        PROVE  h[x].next \in R \cup {NULL} /\ h[x].contents \in R \cup {NULL}
    <3>1. CASE x = q
      BY <1>1, <1>2, <3>1, ReachIs
    <3>2. CASE x \in c
      BY <1>1, <1>2, <3>2, ReachIs
    <3>3. CASE x \in n
      BY <1>1, <1>2, <3>3, ReachIs
    <3> QED
      BY <3>1, <3>2, <3>3
  <2>3. q \in R
    OBVIOUS
  <2> HIDE DEF R
  <2> QED
    BY <2>1, <2>2, <2>3, ReachIs
<1>6. R \subseteq Reach(h, q)
  <2> DEFINE T == Reach(h, q)
  <2>1. T \subseteq DOMAIN h /\ q \in T
    BY <1>1, ReachIs
  <2>2. \A x \in T : h[x].next \in T \cup {NULL} /\ h[x].contents \in T \cup {NULL}
    BY <1>1, <1>2, <2>1, ReachIs
  <2> HIDE DEF T
  <2>3. c \subseteq T /\ n \subseteq T
    BY <2>1, <2>2, ReachIs
  <2> QED
    BY <2>1, <2>3 DEF T
<1>7. c \subseteq S
  <2>1. h[q].contents \in S \cup {NULL}
    <3>1. CASE h[q].contents # NULL
      <4> DEFINE y == h[q].contents
      <4>1. y \in L /\ up[y] = q
        BY <1>2, <3>1
      <4>2. y \in DOMAIN h /\ y \in DuPaths \ {1}
        BY <1>1, <4>1
      <4> HIDE DEF y
      <4>3. y \in Beneath(q) /\ y # q
        BY <1>1, <1>3, <1>4, <4>1, <4>2
      <4> QED
        BY <4>2, <4>3 DEF y
    <3> QED
      BY <3>1
  <2>2. ASSUME NEW x \in S
        PROVE  h[x].next \in S \cup {NULL} /\ h[x].contents \in S \cup {NULL}
    <3>1. x # 1 /\ x \in DuPaths /\ q \in DuPaths /\ up[x] \in Beneath(q) /\ q <= x /\ q <= up[x]
      BY <1>1, <1>4
    <3>2. ASSUME h[x].next # NULL
          PROVE  h[x].next \in S
      <4> DEFINE y == h[x].next
      <4>1. y \in L /\ up[y] = up[x]
        BY <1>2, <3>2
      <4>2. y \in DOMAIN h /\ y \in DuPaths \ {1}
        BY <1>1, <4>1
      <4> HIDE DEF y
      <4>3. y \in Beneath(q) /\ up[y] < y /\ up[y] \in Nat /\ y \in Nat /\ q \in Nat
        BY <1>1, <1>3, <1>4, <3>1, <4>1, <4>2
      <4>4. y # q
        BY <3>1, <4>1, <4>3
      <4> QED
        BY <4>2, <4>3, <4>4 DEF y
    <3>3. ASSUME h[x].contents # NULL
          PROVE  h[x].contents \in S
      <4> DEFINE y == h[x].contents
      <4>1. y \in L /\ up[y] = x
        BY <1>2, <3>3
      <4>2. y \in DOMAIN h /\ y \in DuPaths \ {1}
        BY <1>1, <4>1
      <4> HIDE DEF y
      <4>3. y \in Beneath(q) /\ x < y /\ x \in Nat /\ y \in Nat /\ q \in Nat
        BY <1>1, <1>3, <1>4, <3>1, <4>1, <4>2
      <4>4. y # q
        BY <3>1, <4>1, <4>3
      <4> QED
        BY <4>2, <4>3, <4>4 DEF y
    <3> QED
      BY <3>2, <3>3
  <2>3. S \subseteq DOMAIN h
    OBVIOUS
  <2> HIDE DEF S
  <2> QED
    BY <2>1, <2>2, <2>3, ReachIs
<1>8. n \subseteq V
  <2>1. CASE h[q].next = NULL
    BY <2>1, ReachIs
  <2>2. CASE h[q].next # NULL
    <3>0. q \in DuPaths \ {1} /\ q \in Nat /\ up[q] \in Nat /\ up[q] < q /\ pos[q] \in Nat
      BY <1>1, <1>2, <1>3, <2>2
    <3>1. h[q].next \in V
      <4> DEFINE y == h[q].next
      <4>1. y \in L /\ up[y] = up[q] /\ pos[y] > pos[q]
        BY <1>2, <2>2
      <4>2. y \in DOMAIN h /\ y \in DuPaths \ {1}
        BY <1>1, <4>1
      <4> HIDE DEF y
      <4>3. y # q
        BY <3>0, <4>1
      <4>4. y \notin Beneath(q)
        BY <1>3, <1>4, <3>0, <4>1, <4>2, <4>3
      <4> QED
        BY <4>1, <4>2, <4>4 DEF y
    <3>2. ASSUME NEW x \in V
          PROVE  h[x].next \in V \cup {NULL} /\ h[x].contents \in V \cup {NULL}
      <4>0. /\ x \in DuPaths \ {1} /\ x \in Nat /\ up[x] \in Nat /\ up[x] < x /\ up[x] >= up[q]
            /\ x \notin Beneath(q) /\ x \in DOMAIN h
        BY <1>1, <1>3, <3>0
      <4>1. ASSUME h[x].next # NULL
            PROVE  h[x].next \in V
        <5> DEFINE y == h[x].next
        <5>1. y \in L /\ up[y] = up[x] /\ pos[y] > pos[x] /\ pos[x] \in Nat /\ pos[y] \in Nat
          BY <1>2, <4>0, <4>1
        <5>2. y \in DOMAIN h /\ y \in DuPaths \ {1}
          BY <1>1, <5>1
        <5> HIDE DEF y
        <5>3. up[y] > up[q] \/ (up[y] = up[q] /\ pos[y] > pos[q])
          BY <3>0, <4>0, <5>1
        <5>4. y # q
          BY <3>0, <5>3
        <5>5. y \notin Beneath(q)
          BY <1>4, <4>0, <5>1, <5>2, <5>4
        <5> QED
          BY <5>2, <5>3, <5>5 DEF y
      <4>2. ASSUME h[x].contents # NULL
            PROVE  h[x].contents \in V
        <5> DEFINE y == h[x].contents
        <5>1. y \in L /\ up[y] = x
          BY <1>2, <4>0, <4>2
        <5>2. y \in DOMAIN h /\ y \in DuPaths \ {1}
          BY <1>1, <5>1
        <5> HIDE DEF y
        <5>3. up[y] > up[q]
          BY <3>0, <4>0, <5>1
        <5>4. y # q
          BY <3>0, <5>3
        <5>5. y \notin Beneath(q)
          BY <1>4, <4>0, <5>1, <5>2, <5>4
        <5> QED
          BY <5>2, <5>3, <5>5 DEF y
      <4> QED
        BY <4>1, <4>2
    <3>3. V \subseteq DOMAIN h
      OBVIOUS
    <3> HIDE DEF V
    <3> QED
      BY <3>1, <3>2, <3>3, ReachIs
  <2> QED
    BY <2>1, <2>2
<1>9. q \notin c /\ q \notin n /\ c \cap n = {}
  BY <1>4, <1>7, <1>8
<1> QED
  BY <1>5, <1>6, <1>9

(* Among some paths with a set of paths each, one has a set that none of the *)
(* others is a proper part of.                                              *)
LEMMA SmallestSet ==
  ASSUME TreeOK, NEW W, W \subseteq DuPaths, W # {}, NEW T \in [DuPaths -> SUBSET DuPaths]
  PROVE  \E q \in W : \A r \in W : T[r] \subseteq T[q] => T[r] = T[q]
<1> DEFINE C == {Cardinality(T[q]) : q \in W}
<1>1. \A q \in DuPaths : IsFiniteSet(T[q]) /\ Cardinality(T[q]) \in Nat
  <2>1. PICK n \in 1..MaxPaths : DuPaths = 1..n
    BY PathsAre
  <2>2. n \in Int /\ 1 \in Int
    OBVIOUS
  <2>3. IsFiniteSet(DuPaths)
    BY <2>1, <2>2, FS_Interval
  <2>4. \A q \in DuPaths : T[q] \in SUBSET DuPaths
    OBVIOUS
  <2>5. \A q \in DuPaths : IsFiniteSet(T[q])
    BY <2>3, <2>4, FS_Subset
  <2> QED
    BY <2>5, FS_CardinalityType
<1>2. C \subseteq Nat /\ C # {}
  BY <1>1
<1> HIDE DEF C
<1>3. PICK m \in C : \A k \in C : m <= k
  BY <1>2, LeastNatural
<1>4. PICK q \in W : m = Cardinality(T[q])
  BY <1>3 DEF C
<1>5. ASSUME NEW r \in W, T[r] \subseteq T[q]
      PROVE  T[r] = T[q]
  <2>1. Cardinality(T[q]) <= Cardinality(T[r])
    BY <1>3, <1>4 DEF C
  <2>2. /\ IsFiniteSet(T[q]) /\ T[r] \in SUBSET T[q] /\ q \in DuPaths /\ r \in DuPaths
        /\ Cardinality(T[q]) \in Nat /\ Cardinality(T[r]) \in Nat
    BY <1>1, <1>5
  <2>3. Cardinality(T[r]) <= Cardinality(T[q])
    BY <2>2, FS_Subset
  <2>4. Cardinality(T[q]) = Cardinality(T[r])
    BY <2>1, <2>2, <2>3
  <2> QED
    BY <2>2, <2>4, FS_Subset
<1> QED
  BY <1>5

\* What a node itself adds to the usage.
Own(h, q) == IF h[q].type = "File" THEN h[q].size ELSE 0

(* A node adds the size of its path.                                        *)
LEMMA OwnIs ==
  ASSUME TreeOK, NEW h, NEW L, NEW first, NEW pos, Done(h, L, first, pos), NEW q \in DOMAIN h
  PROVE  SizeOf({q}) = Own(h, q)
<1>1. q \in DuPaths
  BY DoneIs
<1> QED
  BY <1>1, SizeOfOne DEF Own, Done

(* The size from a node on splits as ReachSplits does.                       *)
LEMMA ReachSize ==
  ASSUME TreeOK, NEW h, NEW L, NEW first, NEW pos, Done(h, L, first, pos), NEW q \in DOMAIN h
  PROVE  SizeOf(Reach(h, q)) =
           (IF h[q].type = "File" THEN h[q].size ELSE SizeOf(Reach(h, h[q].contents)))
           + SizeOf(Reach(h, h[q].next))
<1> DEFINE c == Reach(h, h[q].contents)
           n == Reach(h, h[q].next)
<1>1. /\ DOMAIN h \subseteq DuPaths /\ q \in DuPaths
      /\ c \subseteq DuPaths /\ n \subseteq DuPaths
  BY DoneIs, ReachIs
<1>2. /\ Reach(h, q) = {q} \cup c \cup n
      /\ q \notin c /\ q \notin n /\ c \cap n = {}
  BY ReachSplits
<1>3. SizeOf({q} \cup c \cup n) = SizeOf({q} \cup c) + SizeOf(n)
  <2>1. {q} \cup c \subseteq DuPaths /\ ({q} \cup c) \cap n = {}
    BY <1>1, <1>2
  <2> QED
    BY <1>1, <2>1, SizeAdds
<1>4. SizeOf({q} \cup c) = SizeOf({q}) + SizeOf(c)
  <2>1. {q} \subseteq DuPaths /\ {q} \cap c = {}
    BY <1>1, <1>2
  <2> QED
    BY <1>1, <2>1, SizeAdds
<1>5. SizeOf({q}) = Own(h, q)
  BY OwnIs
<1>6. h[q].type = "File" => c = {}
  <2>1. h[q].type = "File" => kind[q] = "file"
    BY DEF Done
  <2>2. kind[q] # "dir" => h[q].contents = NULL
    BY DoneIs
  <2>3. h[q].contents = NULL => c = {}
    BY ReachIs
  <2> QED
    BY <2>1, <2>2, <2>3
<1>7. SizeOf(c) \in Nat /\ SizeOf(n) \in Nat /\ SizeOf({q}) \in Nat /\ SizeOf({}) = 0
  BY <1>1, SizeIs, SizeOfNone
<1> HIDE DEF c, n
<1>8. CASE h[q].type = "File"
  <2>1. SizeOf({q} \cup c) = h[q].size
    BY <1>4, <1>5, <1>6, <1>7, <1>8 DEF Own
  <2> QED
    BY <1>2, <1>3, <1>8, <2>1 DEF n
<1>9. CASE h[q].type # "File"
  <2>1. SizeOf({q} \cup c) = SizeOf(c)
    BY <1>4, <1>5, <1>7, <1>9 DEF Own
  <2> QED
    BY <1>2, <1>3, <1>9, <2>1 DEF n, c
<1> QED
  BY <1>8, <1>9

\* One step of ListUsage, of which f is a part.
UsageIn(f, h, q) ==
  IF q = NULL THEN 0
  ELSE (IF h[q].type = "File" THEN h[q].size ELSE f[h[q].contents]) + f[h[q].next]

\* And one of ListFiles.
FilesIn(f, h, q) ==
  IF q = NULL THEN 0
  ELSE (IF h[q].type = "File" THEN h[q].size ELSE 0) + f[h[q].next]

(* disk_usage of a list is the size of everything from its first node on.    *)
LEMMA ListUsageIs ==
  ASSUME TreeOK, NEW h, NEW L, NEW first, NEW pos, Done(h, L, first, pos),
         NEW p \in DOMAIN h \cup {NULL}
  PROVE  ListUsage(h, p) = SizeOf(Reach(h, p))
<1> DEFINE D == DOMAIN h \cup {NULL}
           IsUsage(f) == f = [q \in D |-> UsageIn(f, h, q)]
           g == [q \in D |-> SizeOf(Reach(h, q))]
<1>1. /\ DOMAIN h \subseteq DuPaths /\ NULL \notin DOMAIN h
      /\ \A q \in DOMAIN h : h[q].contents \in D /\ h[q].next \in D
  BY DoneIs DEF Done
<1>2. \A q \in D : g[q] = UsageIn(g, h, q)
  <2>1. ASSUME NEW q \in DOMAIN h
        PROVE  g[q] = UsageIn(g, h, q)
    <3>1. /\ g[q] = SizeOf(Reach(h, q)) /\ g[h[q].contents] = SizeOf(Reach(h, h[q].contents))
          /\ g[h[q].next] = SizeOf(Reach(h, h[q].next))
      BY <1>1
    <3>2. q # NULL
      BY <1>1
    <3> HIDE DEF g
    <3> QED
      BY <3>1, <3>2, ReachSize DEF UsageIn
  <2>2. g[NULL] = UsageIn(g, h, NULL)
    <3>1. g[NULL] = SizeOf({})
      BY ReachIs
    <3> HIDE DEF g
    <3> QED
      BY <3>1, SizeOfNone DEF UsageIn
  <2> HIDE DEF g
  <2> QED
    BY <2>1, <2>2
<1>3. IsUsage(g)
  <2>1. g = [q \in D |-> g[q]]
    OBVIOUS
  <2> HIDE DEF g
  <2> QED
    BY <1>2, <2>1
<1>4. PICK f : f = (CHOOSE e : IsUsage(e))
  OBVIOUS
<1>5. IsUsage(f)
  <2> HIDE DEF g
  <2> QED
    BY <1>3, <1>4, Zenon
<1>6. ListUsage(h, p) = f[p]
  BY <1>4 DEF ListUsage, UsageIn
<1>7. \A q \in D : f[q] = UsageIn(f, h, q)
  BY <1>5, Zenon
<1>8. \A q \in D : g[q] = SizeOf(Reach(h, q))
  OBVIOUS
<1> HIDE DEF g
<1>9. f[NULL] = g[NULL]
  BY <1>2, <1>7 DEF UsageIn
<1>10. \A q \in DOMAIN h : f[q] = g[q]
  <2> DEFINE W == {q \in DOMAIN h : f[q] # g[q]}
             T == [q \in DuPaths |-> Reach(h, q)]
  <2> SUFFICES ASSUME W # {} PROVE FALSE
    OBVIOUS
  <2>1. PICK q \in W : \A r \in W : T[r] \subseteq T[q] => T[r] = T[q]
    <3>1. W \subseteq DuPaths
      BY <1>1
    <3>2. \A x \in DuPaths : Reach(h, x) \in SUBSET DuPaths
      BY <1>1, ReachIs
    <3>3. T \in [DuPaths -> SUBSET DuPaths]
      BY <3>2
    <3> HIDE DEF T, W
    <3> QED
      BY <3>1, <3>3, SmallestSet
  <2>2. q \in DOMAIN h /\ f[q] # g[q] /\ q \in DuPaths /\ q # NULL
    BY <1>1
  <2>3. LET c == Reach(h, h[q].contents)
            n == Reach(h, h[q].next)
        IN Reach(h, q) = {q} \cup c \cup n /\ q \notin c /\ q \notin n
    BY <2>2, ReachSplits
  <2>4. ASSUME NEW y \in {h[q].contents, h[q].next}
        PROVE  f[y] = g[y]
    <3>1. y \in D
      BY <1>1, <2>2
    <3>2. CASE y = NULL
      BY <1>9, <3>2
    <3>3. CASE y \in DOMAIN h
      <4>1. Reach(h, y) \subseteq Reach(h, q) /\ q \notin Reach(h, y) /\ q \in Reach(h, q)
        BY <2>3, <2>4
      <4>2. y \in DuPaths /\ T[y] = Reach(h, y) /\ T[q] = Reach(h, q)
        BY <1>1, <2>2, <3>3
      <4>3. y \notin W
        BY <2>1, <4>1, <4>2
      <4> QED
        BY <3>3, <4>3
    <3> QED
      BY <3>1, <3>2, <3>3
  <2>5. f[q] = UsageIn(f, h, q) /\ g[q] = UsageIn(g, h, q)
    BY <1>2, <1>7, <2>2
  <2>6. f[q] = g[q]
    BY <2>2, <2>4, <2>5 DEF UsageIn
  <2> QED
    BY <2>2, <2>6
<1> QED
  BY <1>6, <1>8, <1>9, <1>10

(* The rest of a chain.                                                     *)
LEMMA ChainSplits ==
  ASSUME TreeOK, NEW h, NEW L, NEW first, NEW pos, Done(h, L, first, pos), NEW q \in DOMAIN h
  PROVE  Chain(h, q) = {q} \cup Chain(h, h[q].next) /\ q \notin Chain(h, h[q].next)
<1> DEFINE n == Chain(h, h[q].next)
           R == {q} \cup n
           T == Chain(h, q)
           V == Reach(h, h[q].next)
<1>1. /\ NULL \notin DOMAIN h /\ L \subseteq DOMAIN h
      /\ \A x \in DOMAIN h : h[x].next \in DOMAIN h \cup {NULL}
      /\ \A x \in DOMAIN h : h[x].contents \in DOMAIN h \cup {NULL}
  BY DoneIs DEF Done
<1>2. q \in T /\ T \subseteq DOMAIN h /\ n \subseteq DOMAIN h
  BY <1>1, ChainIs
<1>3. \A x \in T : h[x].next \in T \cup {NULL}
  BY <1>1, <1>2, ChainIs
<1>4. \A x \in R : h[x].next \in R \cup {NULL}
  <2>1. \A x \in n : h[x].next \in n \cup {NULL}
    BY <1>1, <1>2, ChainIs
  <2>2. h[q].next \in n \cup {NULL}
    BY <1>1, ChainIs
  <2> HIDE DEF n
  <2> QED
    BY <2>1, <2>2
<1>5. n \subseteq V
  <2>1. V \subseteq DOMAIN h /\ h[q].next \in V \cup {NULL}
    BY <1>1, ReachIs
  <2>2. \A x \in V : h[x].next \in V \cup {NULL}
    BY <1>1, ReachIs
  <2> HIDE DEF V
  <2> QED
    BY <2>1, <2>2, ChainIs
<1>6. q \notin V
  BY ReachSplits
<1> HIDE DEF T, R, V
<1>7. T \subseteq R
  <2>1. R \subseteq DOMAIN h /\ q \in R
    BY <1>2 DEF R
  <2> QED
    BY <1>4, <2>1, ChainIs DEF T
<1>8. n \subseteq T
  BY <1>2, <1>3, ChainIs
<1> QED
  BY <1>2, <1>5, <1>6, <1>7, <1>8 DEF R, T

(* file_size of a list is the size of the files in its chain.                *)
LEMMA ListFilesIs ==
  ASSUME TreeOK, NEW h, NEW L, NEW first, NEW pos, Done(h, L, first, pos),
         NEW p \in DOMAIN h \cup {NULL}
  PROVE  ListFiles(h, p) = SizeOf(Chain(h, p))
<1> DEFINE D == DOMAIN h \cup {NULL}
           IsFiles(f) == f = [q \in D |-> FilesIn(f, h, q)]
           g == [q \in D |-> SizeOf(Chain(h, q))]
<1>1. /\ DOMAIN h \subseteq DuPaths /\ NULL \notin DOMAIN h
      /\ \A q \in DOMAIN h : h[q].next \in D
  BY DoneIs DEF Done
<1>2. \A q \in D : g[q] = FilesIn(g, h, q)
  <2>1. ASSUME NEW q \in DOMAIN h
        PROVE  g[q] = FilesIn(g, h, q)
    <3> DEFINE n == Chain(h, h[q].next)
    <3>1. g[q] = SizeOf(Chain(h, q)) /\ g[h[q].next] = SizeOf(n)
      BY <1>1
    <3>2. q # NULL
      BY <1>1
    <3>3. Chain(h, q) = {q} \cup n /\ q \notin n
      BY ChainSplits
    <3>4. n \subseteq DuPaths /\ {q} \subseteq DuPaths
      BY <1>1, ChainIs
    <3> HIDE DEF g, n
    <3>5. SizeOf({q} \cup n) = SizeOf({q}) + SizeOf(n)
      <4>1. {q} \cap n = {}
        BY <3>3
      <4> QED
        BY <3>4, <4>1, SizeAdds
    <3>6. SizeOf({q}) = Own(h, q)
      BY OwnIs
    <3> QED
      BY <3>1, <3>2, <3>3, <3>5, <3>6 DEF FilesIn, Own
  <2>2. g[NULL] = FilesIn(g, h, NULL)
    <3>0. Chain(h, NULL) = {}
      <4>1. {} \in SUBSET DOMAIN h
        OBVIOUS
      <4>2. \A x \in Chain(h, NULL) : x \in {}
        BY <4>1 DEF Chain
      <4> QED
        BY <4>2
    <3>1. g[NULL] = SizeOf({})
      BY <3>0
    <3> HIDE DEF g
    <3> QED
      BY <3>1, SizeOfNone DEF FilesIn
  <2> HIDE DEF g
  <2> QED
    BY <2>1, <2>2
<1>3. IsFiles(g)
  <2>1. g = [q \in D |-> g[q]]
    OBVIOUS
  <2> HIDE DEF g
  <2> QED
    BY <1>2, <2>1
<1>4. PICK f : f = (CHOOSE e : IsFiles(e))
  OBVIOUS
<1>5. IsFiles(f)
  <2> HIDE DEF g
  <2> QED
    BY <1>3, <1>4, Zenon
<1>6. ListFiles(h, p) = f[p]
  BY <1>4 DEF ListFiles, FilesIn
<1>7. \A q \in D : f[q] = FilesIn(f, h, q)
  BY <1>5, Zenon
<1>8. \A q \in D : g[q] = SizeOf(Chain(h, q))
  OBVIOUS
<1> HIDE DEF g
<1>9. f[NULL] = g[NULL]
  BY <1>2, <1>7 DEF FilesIn
<1>10. \A q \in DOMAIN h : f[q] = g[q]
  <2> DEFINE W == {q \in DOMAIN h : f[q] # g[q]}
             T == [q \in DuPaths |-> Chain(h, q)]
  <2> SUFFICES ASSUME W # {} PROVE FALSE
    OBVIOUS
  <2>1. PICK q \in W : \A r \in W : T[r] \subseteq T[q] => T[r] = T[q]
    <3>1. W \subseteq DuPaths
      BY <1>1
    <3>2. \A x \in DuPaths : Chain(h, x) \in SUBSET DuPaths
      BY <1>1, ChainIs
    <3>3. T \in [DuPaths -> SUBSET DuPaths]
      BY <3>2
    <3> HIDE DEF T, W
    <3> QED
      BY <3>1, <3>3, SmallestSet
  <2>2. q \in DOMAIN h /\ f[q] # g[q] /\ q \in DuPaths /\ q # NULL
    BY <1>1
  <2> DEFINE y == h[q].next
  <2>3. Chain(h, q) = {q} \cup Chain(h, y) /\ q \notin Chain(h, y)
    BY <2>2, ChainSplits
  <2>4. f[y] = g[y]
    <3>1. y \in D
      BY <1>1, <2>2
    <3> HIDE DEF y
    <3>2. CASE y = NULL
      BY <1>9, <3>2
    <3>3. CASE y \in DOMAIN h
      <4>1. y \in DuPaths /\ T[y] = Chain(h, y) /\ T[q] = Chain(h, q)
        BY <1>1, <2>2, <3>3
      <4>2. y \notin W
        BY <2>1, <2>3, <4>1
      <4> QED
        BY <3>3, <4>2
    <3> QED
      BY <3>1, <3>2, <3>3
  <2>5. f[q] = FilesIn(f, h, q) /\ g[q] = FilesIn(g, h, q)
    BY <1>2, <1>7, <2>2
  <2>6. f[q] = g[q]
    BY <2>2, <2>4, <2>5 DEF FilesIn
  <2> QED
    BY <2>2, <2>6
<1> QED
  BY <1>6, <1>8, <1>9, <1>10

\* Level, as a function of what it depends on.
LevelOf(k, u, p) ==
  LET level[q \in DOMAIN k] == IF q = 1 THEN 0 ELSE 1 + level[u[q]] IN level[p]

(* Nothing changes the directories.                                         *)
LEMMA TreeKept ==
  ASSUME Untouched
  PROVE  /\ TreeOK => TreeOK'
         /\ DuPaths' = DuPaths /\ Pointers' = Pointers /\ Nodes' = Nodes
         /\ \A p : Kids(p)' = Kids(p) /\ Level(p)' = Level(p)
         /\ Wanted' = Wanted /\ Asked' = Asked /\ Expected' = Expected /\ Lost' = Lost
         /\ kind' = kind /\ up' = up /\ depth' = depth /\ duVersion' = duVersion
         /\ \A next, first, L, pos : Lists(next, first, L, pos) => Lists(next, first, L, pos)'
<1>1. kind' = kind /\ up' = up /\ depth' = depth /\ duVersion' = duVersion
  BY DEF Untouched
<1>2. DuPaths' = DuPaths
  BY <1>1 DEF DuPaths
<1>3. \A p : Level(p) = LevelOf(kind, up, p) /\ Level(p)' = LevelOf(kind', up', p)
  BY DEF Level, LevelOf, DuPaths
<1>4. \A p : Level(p)' = Level(p)
  BY <1>1, <1>3
<1>5. \A p : Kids(p)' = Kids(p)
  BY <1>1, <1>2 DEF Kids
<1>6. \A l : Within(l)' = Within(l)
  BY <1>2, <1>4 DEF Within
<1>7. \A p : Usable(p)' = Usable(p)
  BY <1>1, <1>4 DEF Usable
<1>8. Lost' = Lost
  BY <1>1, <1>2 DEF Lost
<1>9. Wanted' = Wanted
  BY <1>1, <1>6, <1>7 DEF Wanted
<1>10. Expected' = Expected
  BY <1>1, <1>2, <1>6, <1>7 DEF Expected
<1>11. TreeOK => TreeOK'
  BY <1>1, <1>2 DEF TreeOK
<1>12. Pointers' = Pointers /\ Nodes' = Nodes
  BY <1>2 DEF Pointers, Nodes
<1>13. \A next, first, L, pos : Lists(next, first, L, pos) => Lists(next, first, L, pos)'
  BY <1>1, <1>2 DEF Lists
<1>14. Asked' = Asked
  BY <1>1, <1>2, <1>9 DEF Asked
<1> QED
  BY <1>1, <1>2, <1>4, <1>5, <1>8, <1>9, <1>10, <1>11, <1>12, <1>13, <1>14

\* What the frame of a call can be.
Frames == [path : DuPaths, depth : Nat, todo : SUBSET DuPaths,
           head : Pointers, prev : Pointers, sub : Pointers]

(* The frames are a sequence of frames.                                     *)
LEMMA FramesAre ==
  ASSUME FramesOK
  PROVE  /\ frames \in Seq(Frames) /\ Len(frames) \in Nat
         /\ \A i \in 1..Len(frames) : frames[i] \in Frames
         /\ frames = <<>> \/ Len(frames) >= 1
         /\ frames # <<>> => Len(frames) \in 1..Len(frames)
<1>1. frames \in Seq(Frames)
  BY DEF FramesOK, Frames
<1>2. Len(frames) \in Nat
  BY <1>1, LenProperties
<1>3. \A i \in 1..Len(frames) : frames[i] \in Frames
  BY <1>1, ElementOfSeq
<1>4. Len(frames) = 0 => frames = <<>>
  BY <1>1, EmptySeq
<1> QED
  BY <1>1, <1>2, <1>3, <1>4

(* What the frames are after one of the three changes.                      *)
LEMMA TopChanged ==
  ASSUME TreeOK, FramesOK, Untouched, frames # <<>>, NEW t \in Frames,
         frames' = [frames EXCEPT ![Len(frames)] = t],
         t.path = Top.path, t.depth = Top.depth, t.todo \subseteq Top.todo
  PROVE  /\ FramesOK' /\ Stack' = Stack /\ Len(frames') = Len(frames) /\ frames' # <<>> /\ Top' = t
         /\ \A i \in 1..Len(frames) :
              /\ i # Len(frames) => frames'[i] = frames[i]
              /\ frames'[i].path = frames[i].path /\ frames'[i].todo \subseteq frames[i].todo
<1> DEFINE n == Len(frames)
<1>1. /\ frames \in Seq(Frames) /\ n \in Nat /\ n \in 1..n
      /\ \A i \in 1..n : frames[i] \in Frames
  BY FramesAre
<1>2. frames' \in Seq(Frames) /\ Len(frames') = n
  BY <1>1, ExceptSeq
<1>3. \A i \in 1..n : frames'[i] = IF i = n THEN t ELSE frames[i]
  BY <1>1
<1>4. Top' = t /\ frames' # <<>>
  BY <1>1, <1>2, <1>3, EmptySeq DEF Top
<1>5. \A i \in 1..n : /\ frames'[i].path = frames[i].path /\ frames'[i].depth = frames[i].depth
                      /\ frames'[i].todo \subseteq frames[i].todo
  BY <1>3 DEF Top
<1>6. Stack' = Stack
  <2>1. \A i \in 1..n : frames'[i].path = frames[i].path
    BY <1>5
  <2> QED
    BY <1>2, <2>1 DEF Stack
<1>7. /\ kind' = kind /\ Frames' = Frames /\ \A p : Kids(p)' = Kids(p) /\ Level(p)' = Level(p)
      /\ depth' = depth /\ duVersion' = duVersion
  BY TreeKept DEF Frames
<1>8. FramesOK'
  <2>1. frames' \in Seq([path : DuPaths, depth : Nat, todo : SUBSET DuPaths,
                         head : Pointers, prev : Pointers, sub : Pointers]')
    BY <1>2, <1>7 DEF Frames
  <2>2. ASSUME NEW i \in 1..n
        PROVE  /\ kind[frames'[i].path] = "dir" /\ frames'[i].todo \subseteq Kids(frames'[i].path)
               /\ frames'[i].depth + Level(frames'[i].path) = depth
               /\ frames'[i].depth >= IF duVersion = "burner" THEN 2 ELSE 1
               /\ i = 1 => frames'[i].path = 1
               /\ i > 1 => frames'[i].path \in Kids(frames'[i - 1].path) \ frames'[i - 1].todo
    <3>1. i > 1 => i - 1 \in 1..n
      BY <1>1
    <3>2. i > 1 => frames'[i].path \in Kids(frames'[i - 1].path) \ frames'[i - 1].todo
      BY <1>5, <3>1 DEF FramesOK
    <3> QED
      BY <1>5, <3>2 DEF FramesOK
  <2>3. \A i, j \in 1..n : i < j => frames'[i].path < frames'[j].path
    BY <1>5 DEF FramesOK
  <2> QED
    BY <1>2, <1>7, <2>1, <2>2, <2>3 DEF FramesOK
<1> QED
  BY <1>2, <1>3, <1>4, <1>5, <1>6, <1>8

(* The last call returns.                                                   *)
LEMMA TopPopped ==
  ASSUME TreeOK, FramesOK, Untouched, frames # <<>>,
         frames' = SubSeq(frames, 1, Len(frames) - 1)
  PROVE  /\ FramesOK' /\ Stack = Stack' \cup {Top.path} /\ Top.path \notin Stack'
         /\ Len(frames') = Len(frames) - 1
         /\ \A i \in 1..(Len(frames) - 1) : i \in 1..Len(frames) /\ frames'[i] = frames[i]
         /\ frames' = <<>> => Top.path = 1
         /\ frames' # <<>> => Top.path \in Kids(Top'.path) \ Top'.todo
         /\ \A i \in 1..(Len(frames) - 1) : frames[i].path < Top.path
<1> DEFINE n == Len(frames)
           m == n - 1
<1>1. /\ frames \in Seq(Frames) /\ n \in Nat /\ n \in 1..n /\ n >= 1
      /\ \A i \in 1..n : frames[i] \in Frames
  BY FramesAre
<1>2. m \in Nat /\ \A i \in 1..m : i \in 1..n /\ i < n
  BY <1>1
<1>3. frames' \in Seq(Frames) /\ Len(frames') = m /\ \A i \in 1..m : frames'[i] = frames[i]
  <2>1. 1 \in Int /\ m \in Int /\ \A i \in 1..m : frames[i] \in Frames
    BY <1>1, <1>2
  <2>2. /\ frames' \in Seq(Frames) /\ Len(frames') = (IF 1 <= m THEN m - 1 + 1 ELSE 0)
        /\ \A i \in 1..(m - 1 + 1) : frames'[i] = frames[1 + i - 1]
    <3> HIDE DEF m
    <3> QED
      BY <2>1, SubSeqProperties DEF m
  <2>3. m \in Nat
    BY <1>2
  <2> HIDE DEF m
  <2>4. m - 1 + 1 = m /\ (~(1 <= m) => m = 0)
    BY <2>3
  <2>5. \A i \in 1..m : 1 + i - 1 = i
    BY <2>3
  <2> QED
    BY <2>2, <2>4, <2>5
<1>0. m = n - 1
  OBVIOUS
<1> HIDE DEF m
<1>4. \A i \in 1..m : frames[i].path < Top.path
  BY <1>1, <1>2 DEF FramesOK, Top
<1>5. Top.path \in Nat /\ \A i \in 1..m : frames[i].path \in Nat
  BY <1>1, <1>2, PathsAre DEF Top, Frames
<1>6. Stack = Stack' \cup {Top.path} /\ Top.path \notin Stack'
  <2>1. Stack' = {frames[i].path : i \in 1..m}
    BY <1>3 DEF Stack
  <2>2. \A i \in 1..n : i = n \/ i \in 1..m
    BY <1>1 DEF m
  <2>3. Stack = Stack' \cup {Top.path}
    BY <1>1, <1>2, <2>1, <2>2 DEF Stack, Top
  <2>4. Top.path \notin Stack'
    BY <1>4, <1>5, <2>1
  <2> QED
    BY <2>3, <2>4
<1>7. frames' = <<>> => Top.path = 1
  <2>1. frames' = <<>> => m = 0
    BY <1>3, EmptySeq
  <2>2. m = 0 => n = 1
    BY <1>1 DEF m
  <2> QED
    BY <1>1, <2>1, <2>2 DEF FramesOK, Top
<1>8. frames' # <<>> => Top.path \in Kids(Top'.path) \ Top'.todo
  <2>1. frames' # <<>> => m # 0
    BY <1>3, EmptySeq
  <2>2. m # 0 => n > 1 /\ m \in 1..m
    <3>1. m \in Nat /\ n \in Nat /\ m = n - 1
      BY <1>0, <1>1, <1>2
    <3> HIDE DEF n
    <3> QED
      BY <3>1
  <2>3. m # 0 => Top' = frames[m]
    BY <1>3, <2>2 DEF Top
  <2>4. m # 0 => frames[n].path \in Kids(frames[m].path) \ frames[m].todo
    BY <1>1, <2>2 DEF FramesOK, m
  <2>5. \A p : Kids(p)' = Kids(p)
    BY TreeKept
  <2> QED
    BY <2>1, <2>3, <2>4 DEF Top
<1>9. /\ kind' = kind /\ Frames' = Frames /\ \A p : Kids(p)' = Kids(p) /\ Level(p)' = Level(p)
      /\ depth' = depth /\ duVersion' = duVersion
  BY TreeKept DEF Frames
<1>10. FramesOK'
  <2>1. frames' \in Seq([path : DuPaths, depth : Nat, todo : SUBSET DuPaths,
                         head : Pointers, prev : Pointers, sub : Pointers]')
    BY <1>3, <1>9 DEF Frames
  <2>2. ASSUME NEW i \in 1..m
        PROVE  /\ kind[frames'[i].path] = "dir" /\ frames'[i].todo \subseteq Kids(frames'[i].path)
               /\ frames'[i].depth + Level(frames'[i].path) = depth
               /\ frames'[i].depth >= IF duVersion = "burner" THEN 2 ELSE 1
               /\ i = 1 => frames'[i].path = 1
               /\ i > 1 => frames'[i].path \in Kids(frames'[i - 1].path) \ frames'[i - 1].todo
    <3>1. i \in 1..n /\ (i > 1 => i - 1 \in 1..m)
      BY <1>2
    <3>2. frames'[i] = frames[i] /\ (i > 1 => frames'[i - 1] = frames[i - 1])
      BY <1>3, <3>1
    <3> QED
      BY <3>1, <3>2 DEF FramesOK
  <2>3. \A i, j \in 1..m : i < j => frames'[i].path < frames'[j].path
    BY <1>2, <1>3 DEF FramesOK
  <2> QED
    BY <1>3, <1>9, <2>1, <2>2, <2>3 DEF FramesOK
<1> QED
  BY <1>2, <1>3, <1>4, <1>6, <1>7, <1>8, <1>10 DEF m

(* One more directory is open.                                              *)
LEMMA TopPushed ==
  ASSUME TreeOK, FramesOK, Untouched, NEW p \in DuPaths, NEW d \in Nat, kind[p] = "dir",
         frames' = Append(frames, Frame(p, d)),
         d + Level(p) = depth, d >= IF duVersion = "burner" THEN 2 ELSE 1,
         frames = <<>> => p = 1,
         frames # <<>> => p \in Kids(Top.path) \ Top.todo
  PROVE  /\ FramesOK' /\ Stack' = Stack \cup {p} /\ p \notin Stack
         /\ Len(frames') = Len(frames) + 1 /\ frames' # <<>>
         /\ \A i \in 1..Len(frames) : /\ frames'[i] = frames[i] /\ frames[i].path < p
                                      /\ p \notin frames[i].todo
         /\ frames'[Len(frames) + 1] = Frame(p, d) /\ Top' = Frame(p, d)
<1> DEFINE n == Len(frames)
           t == Frame(p, d)
<1>1. /\ frames \in Seq(Frames) /\ n \in Nat /\ (frames = <<>> \/ n \in 1..n) /\ (frames = <<>> => n = 0)
      /\ \A i \in 1..n : frames[i] \in Frames
  BY FramesAre, EmptySeq
<1>2. t \in Frames
  BY DEF Frame, Frames, Kids, Pointers
<1>3. t.path = p /\ t.depth = d /\ t.todo = Kids(p)
  BY DEF Frame
<1> HIDE DEF t
<1>4. /\ frames' \in Seq(Frames) /\ frames' # <<>> /\ Len(frames') = n + 1
      /\ \A i \in 1..n : frames'[i] = frames[i]
      /\ frames'[n + 1] = t
  BY <1>1, <1>2, AppendProperties DEF t
<1>5. n + 1 \in 1..(n + 1) /\ \A i \in 1..(n + 1) : i = n + 1 \/ i \in 1..n
  BY <1>1
<1>6. Top' = t
  BY <1>4 DEF Top
<1>7. ASSUME NEW i \in 1..n
      PROVE  frames[i].path < p /\ p \notin frames[i].todo
  <2>1. frames # <<>> /\ n \in 1..n
    BY <1>1
  <2>2. p \in DuPaths \ {1} /\ up[p] = Top.path /\ p \notin Top.todo
    BY <2>1 DEF Kids
  <2>3. Top.path < p /\ p \in Nat /\ Top.path \in Nat /\ frames[i].path \in Nat
    BY <1>1, <2>1, <2>2, PathsAre DEF Frames
  <2>4. i # n => frames[i].path < Top.path
    BY <1>1, <2>1 DEF FramesOK, Top
  <2>5. i # n => p \notin frames[i].todo
    <3>1. frames[i].todo \subseteq Kids(frames[i].path)
      BY DEF FramesOK
    <3> QED
      BY <2>2, <2>3, <2>4, <3>1 DEF Kids
  <2> QED
    BY <2>2, <2>3, <2>4, <2>5 DEF Top
<1>8. Stack' = Stack \cup {p} /\ p \notin Stack
  <2>1. Stack' = {frames'[i].path : i \in 1..(n + 1)}
    BY <1>4 DEF Stack
  <2>2. Stack' = Stack \cup {p}
    <3>1. \A i \in 1..n : i \in 1..(n + 1)
      BY <1>1
    <3> QED
      BY <1>3, <1>4, <1>5, <2>1, <3>1 DEF Stack
  <2>3. p \in Nat /\ \A i \in 1..n : frames[i].path \in Nat
    BY <1>1, PathsAre DEF Frames
  <2>4. p \notin Stack
    BY <1>7, <2>3 DEF Stack
  <2> QED
    BY <2>2, <2>4
<1>9. /\ kind' = kind /\ Frames' = Frames /\ \A q : Kids(q)' = Kids(q) /\ Level(q)' = Level(q)
      /\ depth' = depth /\ duVersion' = duVersion
  BY TreeKept DEF Frames
<1>10. FramesOK'
  <2>1. frames' \in Seq([path : DuPaths, depth : Nat, todo : SUBSET DuPaths,
                         head : Pointers, prev : Pointers, sub : Pointers]')
    BY <1>4, <1>9 DEF Frames
  <2>2. ASSUME NEW i \in 1..(n + 1)
        PROVE  /\ kind[frames'[i].path] = "dir" /\ frames'[i].todo \subseteq Kids(frames'[i].path)
               /\ frames'[i].depth + Level(frames'[i].path) = depth
               /\ frames'[i].depth >= IF duVersion = "burner" THEN 2 ELSE 1
               /\ i = 1 => frames'[i].path = 1
               /\ i > 1 => frames'[i].path \in Kids(frames'[i - 1].path) \ frames'[i - 1].todo
    <3>1. CASE i \in 1..n
      <4>1. i > 1 => i - 1 \in 1..n
        BY <1>1, <3>1
      <4>2. frames'[i] = frames[i] /\ (i > 1 => frames'[i - 1] = frames[i - 1])
        BY <1>4, <3>1, <4>1
      <4> QED
        BY <3>1, <4>1, <4>2 DEF FramesOK
    <3>2. CASE i = n + 1
      <4>1. frames'[i] = t
        BY <1>4, <3>2
      <4>2. i = 1 => frames = <<>>
        BY <1>1, <3>2
      <4>3. i > 1 => frames # <<>> /\ i - 1 = n /\ n \in 1..n
        BY <1>1, <3>2
      <4>4. i > 1 => frames'[i - 1] = Top
        BY <1>4, <4>3 DEF Top
      <4> QED
        BY <1>3, <4>1, <4>2, <4>3, <4>4
    <3> QED
      BY <1>5, <3>1, <3>2
  <2>3. ASSUME NEW i \in 1..(n + 1), NEW j \in 1..(n + 1), i < j
        PROVE  frames'[i].path < frames'[j].path
    <3>1. i \in 1..n /\ (j \in 1..n \/ j = n + 1)
      BY <1>1, <2>3
    <3> QED
      BY <1>3, <1>4, <1>7, <2>3, <3>1 DEF FramesOK
  <2> QED
    BY <1>4, <1>9, <2>1, <2>2, <2>3 DEF FramesOK
<1> QED
  BY <1>4, <1>6, <1>7, <1>8, <1>10 DEF t

(* The paths of the nodes and of the frames, bundled.                        *)
LEMMA NodeFacts ==
  ASSUME TreeOK, NodeInv
  PROVE  /\ DOMAIN heap \subseteq DuPaths /\ NULL \notin DOMAIN heap /\ Good \subseteq DOMAIN heap
         /\ NodeLinked \subseteq Good /\ Stack \subseteq Good /\ NULL \notin Stack
         /\ \A q \in DOMAIN heap : heap[q] \in Nodes
         /\ frames # <<>> => Top \in Frames /\ Top.path \in Stack
         /\ \A i \in 1..Len(frames) : frames[i].path \in Stack
<1>1. DOMAIN heap \subseteq DuPaths /\ Good \subseteq DOMAIN heap /\ NULL \notin DOMAIN heap
  BY PathsAre DEF NodeInv, NodeHeap, Good
<1>2. frames # <<>> => Top \in Frames /\ Top.path \in Stack
  BY FramesAre DEF Top, Stack, NodeInv
<1>3. \A q \in DOMAIN heap : heap[q] \in Nodes
  BY DEF NodeInv, NodeHeap
<1> QED
  BY <1>1, <1>2, <1>3 DEF NodeInv, NodeHeap, NodeLinked, Stack

(* Lists that stay as they are.                                             *)
LEMMA NodeListsKept ==
  ASSUME TreeOK, NodeInv, Untouched, NodeLinked' = NodeLinked,
         DOMAIN heap \subseteq DOMAIN heap', DOMAIN heap' \subseteq DuPaths,
         \A q \in DOMAIN heap :
           heap'[q].next = heap[q].next /\ heap'[q].contents = heap[q].contents,
         \A q \in DOMAIN heap' \ DOMAIN heap : heap'[q].contents = NULL
  PROVE  \E pos \in [DuPaths' -> Nat] : Lists(NextOf, NodeFirst, NodeLinked, pos)'
<1>1. PICK pos \in [DuPaths -> Nat] : Lists(NextOf, NodeFirst, NodeLinked, pos)
  BY DEF NodeInv
<1>2. up' = up /\ DuPaths' = DuPaths
  BY TreeKept
<1>3. NodeLinked \subseteq DOMAIN heap /\ DOMAIN heap \subseteq DuPaths
  BY NodeFacts
<1>4. PICK nx, fs : nx = NextOf' /\ fs = NodeFirst'
  OBVIOUS
<1>5. \A q \in NodeLinked : nx[q] = NextOf[q]
  BY <1>3, <1>4 DEF NextOf
<1>6. \A p \in DuPaths : fs[p] = NodeFirst[p]
  BY <1>2, <1>3, <1>4 DEF NodeFirst
<1>7. \A p \in DuPaths : NodeFirst[p] # NULL => NodeFirst[p] \in NodeLinked
  BY <1>1 DEF Lists
<1>8. \A q \in NodeLinked : up[q] \in DuPaths
  BY <1>1, PathsAre DEF Lists
<1>9. Lists(nx, fs, NodeLinked, pos)
  <2>1. PICK L, n1, f1 : L = NodeLinked /\ n1 = NextOf /\ f1 = NodeFirst
    OBVIOUS
  <2>2. Lists(n1, f1, L, pos)
    BY <1>1, <2>1
  <2>3. \A q \in L : nx[q] = n1[q] /\ fs[up[q]] = f1[up[q]]
    BY <1>5, <1>6, <1>8, <2>1
  <2>4. \A p \in DuPaths : fs[p] # NULL => fs[p] = f1[p] /\ f1[p] \in L
    BY <1>6, <1>7, <2>1
  <2>5. L \subseteq L /\ \A q, r \in L : up[q] = up[r] /\ q \in L => r \in L
    OBVIOUS
  <2>6. Lists(nx, fs, L, pos)
    BY <2>2, <2>3, <2>4, <2>5, ListsKept
  <2> QED
    BY <2>1, <2>6
<1>10. Lists(NextOf, NodeFirst, NodeLinked, pos)'
  BY <1>2, <1>4, <1>9 DEF Lists
<1> QED
  BY <1>2, <1>10

(* What a call is given.                                                    *)
LEMMA ArgIs ==
  ASSUME TreeOK, FramesOK, duPc = "call", frames = <<>> => ret = 1,
         frames # <<>> => ret \in Kids(Top.path) \ Top.todo
  PROVE  /\ ret \in DuPaths /\ ArgDepth \in Nat /\ Level(ret) \in Nat /\ ArgDepth + Level(ret) = depth
         /\ depth \in Nat
         /\ frames # <<>> => ArgDepth >= IF duVersion = "burner" THEN 1 ELSE 0
         /\ frames = <<>> => Level(ret) = 0
         /\ \A q \in Kids(ret) : Level(q) = Level(ret) + 1 /\ kind[ret] = "dir"
<1>1. depth \in Nat
  BY DEF TreeOK
<1>2. \A q \in Kids(ret) : Level(q) = Level(ret) + 1 /\ kind[ret] = "dir"
  <2>1. ASSUME NEW q \in Kids(ret)
        PROVE  Level(q) = Level(ret) + 1 /\ kind[ret] = "dir"
    <3>1. q \in DuPaths \ {1} /\ up[q] = ret
      BY DEF Kids
    <3>2. Level(q) = 1 + Level(up[q]) /\ Level(up[q]) \in Nat /\ kind[up[q]] = "dir"
      BY <3>1, LevelIs, PathsAre
    <3> QED
      BY <3>1, <3>2
  <2> QED
    BY <2>1
<1>3. CASE frames = <<>>
  <2>1. ret = 1 /\ ArgDepth = depth /\ Level(1) = 0
    BY <1>3, LevelIs DEF ArgDepth
  <2> QED
    BY <1>1, <1>2, <1>3, <2>1, PathsAre
<1>4. CASE frames # <<>>
  <2>1. /\ Top \in Frames /\ Top.depth + Level(Top.path) = depth
        /\ Top.depth >= IF duVersion = "burner" THEN 2 ELSE 1
    BY <1>4, FramesAre DEF FramesOK, Top
  <2>2. Level(ret) = 1 + Level(Top.path) /\ ret \in DuPaths /\ Level(Top.path) \in Nat
    BY <1>4, <2>1, LevelIs, PathsAre DEF Kids, Frames
  <2>3. ArgDepth = Top.depth - 1 /\ Top.depth \in Nat
    BY <1>4, <2>1 DEF ArgDepth, Frames
  <2>4. ArgDepth + Level(ret) = depth /\ ArgDepth >= (IF duVersion = "burner" THEN 1 ELSE 0)
    BY <2>1, <2>2, <2>3
  <2>5. ArgDepth \in Nat
    BY <2>3, <2>4
  <2> QED
    BY <1>1, <1>2, <1>4, <2>2, <2>4, <2>5
<1> QED
  BY <1>3, <1>4

(* A path that gets no node: burner.c does not want it, inconsistent.c gives *)
(* up.                                                                      *)
LEMMA GivesUp ==
  ASSUME TreeOK, duVersion = "inconsistent", NEW p \in DuPaths, p \notin Wanted
  PROVE  Expected = {}
<1>1. ~(p \in Within(depth - 1)) \/ kind[p] \notin {"file", "dir"}
  BY DEF Wanted
<1> QED
  BY <1>1 DEF Expected

(* A call that returns NULL and leaves no node, or a lost one.               *)
LEMMA NodeReturnsNull ==
  ASSUME TreeOK, Nodely, NodeInv, Untouched, duPc = "call", Returns(NULL), ret \notin Wanted,
         \/ UNCHANGED heap
         \/ /\ ret \in Lost
            /\ heap' = With(heap, ret, Node("Directory", 0))
  PROVE  NodeInv'
<1>1. /\ ret \in DuPaths \ DOMAIN heap /\ frames' = frames /\ duPc' = "return" /\ ret' = NULL
      /\ frames = <<>> => ret = 1 /\ DOMAIN heap = {}
      /\ frames # <<>> => ret \in Kids(Top.path) \ Top.todo
      /\ Good = DOMAIN heap /\ ~Failed
  BY DEF NodeInv, NodeAt, NodeHeap, Returns, Failed
<1>2. /\ TreeOK' /\ DuPaths' = DuPaths /\ Pointers' = Pointers /\ Nodes' = Nodes
      /\ \A p : Kids(p)' = Kids(p) /\ Level(p)' = Level(p)
      /\ Wanted' = Wanted /\ Asked' = Asked /\ Expected' = Expected /\ Lost' = Lost
      /\ kind' = kind /\ up' = up /\ depth' = depth /\ duVersion' = duVersion
  BY TreeKept
<1>3. /\ DOMAIN heap \subseteq DuPaths /\ NULL \notin DOMAIN heap /\ Stack \subseteq Good
      /\ \A q \in DOMAIN heap : heap[q] \in Nodes
  BY NodeFacts
<1>4. /\ DOMAIN heap \subseteq DOMAIN heap' /\ DOMAIN heap' \subseteq DuPaths
      /\ \A q \in DOMAIN heap : heap'[q] = heap[q]
      /\ \A q \in DOMAIN heap' \ DOMAIN heap :
           heap'[q].contents = NULL /\ q = ret /\ ret \in Lost /\ heap'[q] \in Nodes
      /\ heap' = [q \in DOMAIN heap' |-> heap'[q]]
  <2>1. CASE UNCHANGED heap
    BY <1>3, <2>1 DEF NodeInv, NodeHeap
  <2>2. CASE ret \in Lost /\ heap' = With(heap, ret, Node("Directory", 0))
    <3> DEFINE node == Node("Directory", 0)
    <3>1. node \in Nodes /\ node.contents = NULL
      BY DEF Node, Nodes, Pointers
    <3> HIDE DEF node
    <3>2. heap' = [q \in DOMAIN heap \cup {ret} |-> IF q = ret THEN node ELSE heap[q]]
      BY <2>2 DEF With, node
    <3> QED
      BY <1>1, <1>3, <2>2, <3>1, <3>2
  <2> QED
    BY <2>1, <2>2
<1>5. Good' = Good
  BY <1>1, <1>2, <1>4 DEF Good
<1>6. Stack' = Stack
  BY <1>1 DEF Stack
<1>7. NodeLinked' = NodeLinked
  <2>1. NodeLinked = Good \ Stack
    BY <1>1 DEF NodeLinked, NodeActive
  <2>2. NodeLinked' = Good \ (Stack \cup {NULL})
    BY <1>1, <1>5, <1>6 DEF NodeLinked, NodeActive
  <2> QED
    BY <1>1, <1>3, <2>1, <2>2
<1>8. \E pos \in [DuPaths' -> Nat] : Lists(NextOf, NodeFirst, NodeLinked, pos)'
  BY <1>4, <1>7, NodeListsKept
<1>9. FramesOK'
  BY <1>1, <1>2 DEF FramesOK, NodeInv
<1>10. Failed' = (duVersion = "inconsistent")
  BY <1>1, <1>2 DEF Failed
<1>11. NodeHeap'
  <2>1. DOMAIN heap' \subseteq DuPaths /\ heap' \in [DOMAIN heap' -> Nodes]
    BY <1>3, <1>4
  <2>2. \A q \in Good :
          /\ q \in Wanted /\ (q # 1 => up[q] \in Good)
          /\ heap'[q].type = (IF kind[q] = "file" THEN "File" ELSE "Directory")
          /\ kind[q] = "file" => heap'[q].size = FileSize(q)
          /\ q \notin NodeLinked => heap'[q].next = NULL
    BY <1>1, <1>4 DEF NodeInv, NodeHeap
  <2>3. Failed' \/ Good = DOMAIN heap'
    <3>1. duVersion = "burner" => Lost = {}
      BY DEF Lost
    <3> QED
      BY <1>1, <1>4, <1>10, <3>1 DEF Nodely
  <2>4. \A i \in 1..Len(frames) : frames[i].todo \cap DOMAIN heap' = {}
    <3>1. ASSUME NEW i \in 1..Len(frames)
          PROVE  ret \notin frames[i].todo
      <4>1. FramesOK /\ frames # <<>> /\ ret \in Kids(Top.path) \ Top.todo
        BY <1>1, FramesAre DEF NodeInv
      <4>2. frames[i].todo \subseteq Kids(frames[i].path)
        BY <4>1 DEF FramesOK
      <4>3. /\ Len(frames) \in 1..Len(frames) /\ Top = frames[Len(frames)]
            /\ i # Len(frames) => frames[i].path < Top.path
        BY <4>1, FramesAre DEF FramesOK, Top
      <4>4. frames[i].path \in Nat
        BY <4>1, FramesAre, PathsAre DEF Frames
      <4> QED
        BY <4>1, <4>2, <4>3, <4>4 DEF Kids
    <3> QED
      BY <1>4, <3>1 DEF NodeInv, NodeHeap
  <2> QED
    BY <1>1, <1>2, <1>3, <1>5, <1>6, <1>7, <2>1, <2>2, <2>3, <2>4 DEF NodeHeap
<1>12. NodeComplete'
  <2>1. CASE duVersion = "inconsistent"
    BY <1>10, <2>1 DEF NodeComplete
  <2>2. CASE duVersion = "burner"
    <3>1. Asked = Wanted
      BY <2>2 DEF Asked
    <3> QED
      BY <1>1, <1>2, <1>5, <3>1 DEF NodeComplete, NodeInv
  <2> QED
    BY <2>1, <2>2 DEF Nodely
<1>13. NodePrev'
  <2>1. \A i \in 1..Len(frames) : frames[i].path \in DOMAIN heap
    BY <1>3, NodeFacts
  <2>2. NodeLinked \subseteq DOMAIN heap
    BY NodeFacts
  <2>3. NodePrev
    BY DEF NodeInv
  <2> QED
    BY <1>1, <1>2, <1>4, <1>7, <2>1, <2>2, <2>3 DEF NodePrev
<1>14. NodeAt'
  <2>1. Failed' => Expected = {}
    BY <1>1, <1>10, GivesUp
  <2>2. frames = <<>> => 1 \notin Good /\ 1 \notin Wanted
    BY <1>1
  <2> QED
    BY <1>1, <1>2, <1>5, <2>1, <2>2 DEF NodeAt
<1> QED
  BY <1>8, <1>9, <1>11, <1>12, <1>13, <1>14 DEF NodeInv

(* A call that makes a node for its path.                                   *)
LEMMA NodeAdded ==
  ASSUME TreeOK, Nodely, NodeInv, Untouched, duPc = "call", NEW node \in Nodes,
         node.type = (IF kind[ret] = "file" THEN "File" ELSE "Directory"),
         kind[ret] = "file" => node.size = FileSize(ret),
         node.next = NULL, node.contents = NULL,
         heap' = With(heap, ret, node), ret \in Wanted,
         Stack' = Stack \/ Stack' = Stack \cup {ret},
         ret \in Stack' \cup NodeActive', NodeActive' \subseteq {ret}, ~Failed'
  PROVE  /\ ret \in DuPaths /\ ret \notin DOMAIN heap /\ \A q \in DOMAIN heap : up[q] # ret \/ q = 1
         /\ Good = DOMAIN heap /\ Good' = Good \cup {ret} /\ DOMAIN heap' = Good'
         /\ NodeLinked' = NodeLinked
         /\ \A q \in DOMAIN heap : heap'[q] = heap[q]
         /\ heap'[ret] = node
         /\ \E pos \in [DuPaths' -> Nat] : Lists(NextOf, NodeFirst, NodeLinked, pos)'
         /\ (\A i \in 1..Len(frames') : frames'[i].todo \cap DOMAIN heap' = {}) => NodeHeap'
<1>1. /\ ret \in DuPaths \ DOMAIN heap
      /\ frames = <<>> => ret = 1 /\ DOMAIN heap = {}
      /\ frames # <<>> => ret \in Kids(Top.path) \ Top.todo
      /\ Good = DOMAIN heap
  BY DEF NodeInv, NodeAt, NodeHeap, Failed
<1>2. /\ TreeOK' /\ DuPaths' = DuPaths /\ Pointers' = Pointers /\ Nodes' = Nodes
      /\ \A p : Kids(p)' = Kids(p) /\ Level(p)' = Level(p)
      /\ Wanted' = Wanted /\ Asked' = Asked /\ Expected' = Expected /\ Lost' = Lost
      /\ kind' = kind /\ up' = up /\ depth' = depth /\ duVersion' = duVersion
  BY TreeKept
<1>3. /\ DOMAIN heap \subseteq DuPaths /\ NULL \notin DOMAIN heap /\ Stack \subseteq Good
      /\ \A q \in DOMAIN heap : heap[q] \in Nodes
  BY NodeFacts
<1>4. heap' = [q \in DOMAIN heap \cup {ret} |-> IF q = ret THEN node ELSE heap[q]]
  BY DEF With
<1>5. /\ DOMAIN heap' = DOMAIN heap \cup {ret}
      /\ \A q \in DOMAIN heap : heap'[q] = heap[q]
      /\ heap'[ret] = node
  BY <1>1, <1>4
<1>6. ret \notin Lost
  BY DEF Wanted, Lost
<1>7. Good' = Good \cup {ret} /\ DOMAIN heap' = Good'
  BY <1>1, <1>2, <1>5, <1>6 DEF Good
<1>8. NodeLinked' = NodeLinked
  <2>1. NodeLinked = Good \ Stack
    BY DEF NodeLinked, NodeActive
  <2>2. NodeLinked' = (Good \cup {ret}) \ (Stack' \cup NodeActive')
    BY <1>7 DEF NodeLinked
  <2> QED
    BY <1>1, <2>1, <2>2
<1>9. \A q \in DOMAIN heap : up[q] # ret \/ q = 1
  BY <1>1 DEF NodeInv, NodeHeap
<1>10. \E pos \in [DuPaths' -> Nat] : Lists(NextOf, NodeFirst, NodeLinked, pos)'
  BY <1>1, <1>3, <1>5, <1>8, NodeListsKept
<1>11. ASSUME \A i \in 1..Len(frames') : frames'[i].todo \cap DOMAIN heap' = {}
       PROVE  NodeHeap'
  <2>1. DOMAIN heap' \subseteq DuPaths /\ heap' \in [DOMAIN heap' -> Nodes]
    BY <1>1, <1>3, <1>4, <1>5
  <2>2. ret # 1 => up[ret] \in Good
    <3>1. ret # 1 => up[ret] \in Stack
      BY <1>1, NodeFacts DEF Kids
    <3> QED
      BY <1>3, <3>1
  <2>3. \A q \in Good' :
          /\ q \in Wanted /\ (q # 1 => up[q] \in Good')
          /\ heap'[q].type = (IF kind[q] = "file" THEN "File" ELSE "Directory")
          /\ kind[q] = "file" => heap'[q].size = FileSize(q)
          /\ q \notin NodeLinked => heap'[q].next = NULL
    BY <1>1, <1>5, <1>7, <2>2 DEF NodeInv, NodeHeap
  <2>4. Stack' \subseteq Good'
    BY <1>3, <1>7
  <2> QED
    BY <1>2, <1>7, <1>8, <1>11, <2>1, <2>3, <2>4 DEF NodeHeap
<1> QED
  BY <1>1, <1>5, <1>7, <1>8, <1>9, <1>10, <1>11

(* A path on which no frame has still to come is in none of the lists.       *)
LEMMA NotToDo ==
  ASSUME TreeOK, FramesOK, NEW p, frames # <<>> => p \in Kids(Top.path) \ Top.todo
  PROVE  \A i \in 1..Len(frames) : p \notin frames[i].todo
<1> SUFFICES ASSUME NEW i \in 1..Len(frames) PROVE p \notin frames[i].todo
  OBVIOUS
<1>1. frames # <<>> /\ p \in Kids(Top.path) \ Top.todo
  BY FramesAre, EmptySeq
<1>2. frames[i].todo \subseteq Kids(frames[i].path)
  BY DEF FramesOK
<1>3. /\ Len(frames) \in 1..Len(frames) /\ Top = frames[Len(frames)]
      /\ i # Len(frames) => frames[i].path < Top.path
  BY <1>1, FramesAre DEF FramesOK, Top
<1>4. frames[i].path \in Nat
  BY FramesAre, PathsAre DEF Frames
<1> QED
  BY <1>1, <1>2, <1>3, <1>4 DEF Kids

(* A call that returns a node without contents.                             *)
LEMMA NodeReturnsNode ==
  ASSUME TreeOK, Nodely, NodeInv, Untouched, duPc = "call", Returns(ret), NEW node \in Nodes,
         node.type = (IF kind[ret] = "file" THEN "File" ELSE "Directory"),
         kind[ret] = "file" => node.size = FileSize(ret),
         node.next = NULL, node.contents = NULL,
         heap' = With(heap, ret, node), ret \in Wanted, \A q \in Kids(ret) : q \notin Asked
  PROVE  NodeInv'
<1>1. /\ frames' = frames /\ duPc' = "return" /\ ret' = ret
      /\ frames = <<>> => ret = 1
      /\ frames # <<>> => ret \in Kids(Top.path) \ Top.todo
      /\ ret \in DuPaths
  BY DEF NodeInv, NodeAt, Returns
<1>2. /\ TreeOK' /\ DuPaths' = DuPaths /\ \A p : Kids(p)' = Kids(p) /\ Level(p)' = Level(p)
      /\ Wanted' = Wanted /\ Asked' = Asked /\ Expected' = Expected /\ Lost' = Lost
      /\ kind' = kind /\ up' = up /\ depth' = depth /\ duVersion' = duVersion
      /\ Pointers' = Pointers
  BY TreeKept
<1>3. Stack' = Stack
  BY <1>1 DEF Stack
<1>4. NodeActive' = {ret} /\ ~Failed' /\ ret # NULL
  BY <1>1, PathsAre DEF NodeActive, Failed
<1>5. /\ ret \notin DOMAIN heap /\ Good = DOMAIN heap /\ Good' = Good \cup {ret} /\ DOMAIN heap' = Good'
      /\ NodeLinked' = NodeLinked
      /\ \A q \in DOMAIN heap : heap'[q] = heap[q]
      /\ \E pos \in [DuPaths' -> Nat] : Lists(NextOf, NodeFirst, NodeLinked, pos)'
      /\ (\A i \in 1..Len(frames') : frames'[i].todo \cap DOMAIN heap' = {}) => NodeHeap'
  BY <1>3, <1>4, NodeAdded
<1>6. NodeHeap'
  <2>1. \A i \in 1..Len(frames) : ret \notin frames[i].todo
    BY <1>1, NotToDo DEF NodeInv
  <2>2. \A i \in 1..Len(frames) : frames[i].todo \cap DOMAIN heap = {}
    BY DEF NodeInv, NodeHeap
  <2> QED
    BY <1>1, <1>5, <2>1, <2>2
<1>7. FramesOK'
  BY <1>1, <1>2 DEF FramesOK, NodeInv
<1>8. NodeComplete'
  <2>1. ASSUME NEW q \in Good', NEW r \in Asked \cap Kids(q)
        PROVE  r \in Good' \/ \E i \in 1..Len(frames) : frames[i].path = q /\ r \in frames[i].todo
    <3>1. q \in Good
      BY <1>5, <2>1
    <3>2. \/ r \in Good \/ ret = r
          \/ \E i \in 1..Len(frames) : frames[i].path = q /\ r \in frames[i].todo
      BY <2>1, <3>1 DEF NodeComplete, NodeInv, Failed
    <3> QED
      BY <1>5, <3>2
  <2> QED
    BY <1>1, <1>2, <2>1 DEF NodeComplete
<1>9. NodePrev'
  <2>1. \A i \in 1..Len(frames) : frames[i].path \in DOMAIN heap
    BY NodeFacts
  <2>2. NodeLinked \subseteq DOMAIN heap
    BY NodeFacts
  <2>3. NodePrev
    BY DEF NodeInv
  <2> QED
    BY <1>1, <1>2, <1>5, <2>1, <2>2, <2>3 DEF NodePrev
<1>10. NodeAt'
  <2>1. ret \in Good' \ Stack'
    BY <1>3, <1>5, NodeFacts
  <2>2. Top' = Top
    BY <1>1 DEF Top
  <2>3. frames # <<>> => ret \in Kids(Top.path)'
    BY <1>1, <1>2, <2>2 DEF Kids
  <2> QED
    BY <1>1, <1>4, <2>1, <2>3 DEF NodeAt
<1> QED
  BY <1>5, <1>6, <1>7, <1>8, <1>9, <1>10 DEF NodeInv

(* A call that opens its directory.                                         *)
LEMMA NodeOpens ==
  ASSUME TreeOK, Nodely, NodeInv, Untouched, duPc = "call", Opens(ret), kind[ret] = "dir",
         heap' = With(heap, ret, Node("Directory", 0)), ret \in Wanted,
         ArgDepth >= IF duVersion = "burner" THEN 2 ELSE 1
  PROVE  NodeInv'
<1> DEFINE node == Node("Directory", 0)
<1>1. /\ frames' = Append(frames, Frame(ret, ArgDepth)) /\ duPc' = "loop" /\ ret' = ret
      /\ frames = <<>> => ret = 1
      /\ frames # <<>> => ret \in Kids(Top.path) \ Top.todo
      /\ ret \in DuPaths /\ FramesOK
  BY DEF NodeInv, NodeAt, Opens
<1>2. /\ TreeOK' /\ DuPaths' = DuPaths /\ \A p : Kids(p)' = Kids(p) /\ Level(p)' = Level(p)
      /\ Wanted' = Wanted /\ Asked' = Asked /\ Expected' = Expected /\ Lost' = Lost
      /\ kind' = kind /\ up' = up /\ depth' = depth /\ duVersion' = duVersion
      /\ Pointers' = Pointers
  BY TreeKept
<1>3. ArgDepth \in Nat /\ ArgDepth + Level(ret) = depth
  BY <1>1, ArgIs
<1>4. /\ FramesOK' /\ Stack' = Stack \cup {ret} /\ ret \notin Stack
      /\ Len(frames') = Len(frames) + 1 /\ frames' # <<>>
      /\ \A i \in 1..Len(frames) : frames'[i] = frames[i] /\ ret \notin frames[i].todo
      /\ frames'[Len(frames) + 1] = Frame(ret, ArgDepth)
  BY <1>1, <1>3, TopPushed
<1>5. NodeActive' = {} /\ ~Failed'
  BY <1>1 DEF NodeActive, Failed
<1>6. /\ node \in Nodes /\ node.type = "Directory" /\ node.next = NULL /\ node.contents = NULL
  BY DEF Node, Nodes, Pointers
<1> HIDE DEF node
<1>7. /\ ret \notin DOMAIN heap /\ Good = DOMAIN heap /\ Good' = Good \cup {ret} /\ DOMAIN heap' = Good'
      /\ \A q \in DOMAIN heap : up[q] # ret \/ q = 1
      /\ NodeLinked' = NodeLinked
      /\ \A q \in DOMAIN heap : heap'[q] = heap[q]
      /\ heap'[ret] = node
      /\ \E pos \in [DuPaths' -> Nat] : Lists(NextOf, NodeFirst, NodeLinked, pos)'
      /\ (\A i \in 1..Len(frames') : frames'[i].todo \cap DOMAIN heap' = {}) => NodeHeap'
  <2>1. node.type = (IF kind[ret] = "file" THEN "File" ELSE "Directory")
    BY <1>6
  <2>2. heap' = With(heap, ret, node)
    BY DEF node
  <2>3. kind[ret] = "file" => node.size = FileSize(ret)
    OBVIOUS
  <2>4. ret \in Stack' \cup NodeActive' /\ NodeActive' \subseteq {ret}
    BY <1>4, <1>5
  <2> QED
    BY <1>4, <1>5, <1>6, <2>1, <2>2, <2>3, <2>4, NodeAdded
<1>8. \A i \in 1..(Len(frames) + 1) :
        \/ i \in 1..Len(frames) /\ frames'[i] = frames[i]
        \/ i = Len(frames) + 1 /\ frames'[i] = Frame(ret, ArgDepth)
  <2>1. Len(frames) \in Nat
    BY <1>1, FramesAre
  <2>2. \A i \in 1..(Len(frames) + 1) : i \in 1..Len(frames) \/ i = Len(frames) + 1
    BY <2>1
  <2> QED
    BY <1>4, <2>2
<1>9. /\ Frame(ret, ArgDepth).path = ret /\ Frame(ret, ArgDepth).todo = Kids(ret)
      /\ Frame(ret, ArgDepth).prev = NULL
  BY DEF Frame
<1>10. NodeHeap'
  <2>1. \A i \in 1..Len(frames) : frames[i].todo \cap DOMAIN heap = {}
    BY DEF NodeInv, NodeHeap
  <2>2. Kids(ret) \cap (DOMAIN heap \cup {ret}) = {}
    <3>1. up[ret] # ret \/ ret = 1
      BY <1>1, PathsAre
    <3> QED
      BY <1>7, <3>1 DEF Kids
  <2>3. \A i \in 1..Len(frames') : frames'[i].todo \cap DOMAIN heap' = {}
    BY <1>4, <1>7, <1>8, <1>9, <2>1, <2>2
  <2> QED
    BY <1>7, <2>3
<1>11. NodeComplete'
  <2>1. ASSUME NEW q \in Good', NEW r \in Asked \cap Kids(q)
        PROVE  r \in Good' \/ \E i \in 1..Len(frames') : frames'[i].path = q /\ r \in frames'[i].todo
    <3>1. Len(frames) \in Nat /\ Len(frames) + 1 \in 1..Len(frames')
          /\ \A i \in 1..Len(frames) : i \in 1..Len(frames')
      BY <1>1, <1>4, FramesAre
    <3>2. CASE q = ret
      BY <1>4, <1>9, <2>1, <3>1, <3>2
    <3>3. CASE q \in Good
      <4>1. \/ r \in Good \/ ret = r
            \/ \E i \in 1..Len(frames) : frames[i].path = q /\ r \in frames[i].todo
        BY <2>1, <3>3 DEF NodeComplete, NodeInv, Failed
      <4> QED
        BY <1>4, <1>7, <3>1, <4>1
    <3> QED
      BY <1>7, <3>2, <3>3
  <2> QED
    BY <1>1, <1>2, <2>1 DEF NodeComplete
<1>12. NodePrev'
  <2>1. \A i \in 1..Len(frames) : frames[i].path \in DOMAIN heap
    BY NodeFacts
  <2>2. NodeLinked \subseteq DOMAIN heap
    BY NodeFacts
  <2>3. NodePrev
    BY DEF NodeInv
  <2>4. ASSUME NEW i \in 1..(Len(frames) + 1)
        PROVE  /\ frames'[i].prev = NULL => heap'[frames'[i].path].contents = NULL
               /\ frames'[i].prev # NULL =>
                    /\ frames'[i].prev \in NodeLinked /\ up[frames'[i].prev] = frames'[i].path
                    /\ heap'[frames'[i].prev].next = NULL
    <3>1. CASE i \in 1..Len(frames) /\ frames'[i] = frames[i]
      BY <1>7, <2>1, <2>2, <2>3, <3>1 DEF NodePrev
    <3>2. CASE i = Len(frames) + 1 /\ frames'[i] = Frame(ret, ArgDepth)
      BY <1>6, <1>7, <1>9, <3>2
    <3> QED
      BY <1>8, <3>1, <3>2
  <2> QED
    BY <1>2, <1>4, <1>7, <2>4 DEF NodePrev
<1>13. NodeAt'
  BY <1>1, <1>4, <1>5 DEF NodeAt
<1> QED
  BY <1>4, <1>7, <1>10, <1>11, <1>12, <1>13 DEF NodeInv

(* New nodes are nodes.                                                     *)
LEMMA NodeTypes ==
  ASSUME TreeOK, NEW p \in DuPaths, NEW t \in {"File", "Directory"}, NEW s \in Nat
  PROVE  /\ Node(t, s) \in Nodes /\ Node(t, s).type = t /\ Node(t, s).size = s
         /\ Node(t, s).next = NULL /\ Node(t, s).contents = NULL
         /\ FileSize(p) \in Nat
<1>1. FileSize(p) \in Nat
  BY DuAssumption, PathsAre
<1> QED
  BY <1>1 DEF Node, Nodes, Pointers

(* build_tree of burner.c.                                                  *)
LEMMA BurnerKept ==
  ASSUME TreeOK, duVersion = "burner", NodeInv, Untouched, duPc = "call", BurnerCall(ret)
  PROVE  NodeInv'
<1> DEFINE k == kind[ret]
           top == IF depth = 0 THEN 0 ELSE depth - 1
<1>1. /\ frames = <<>> => ret = 1
      /\ frames # <<>> => ret \in Kids(Top.path) \ Top.todo
      /\ FramesOK /\ Nodely
  BY DEF NodeInv, NodeAt, Nodely
<1>2. /\ ret \in DuPaths /\ ArgDepth \in Nat /\ Level(ret) \in Nat /\ ArgDepth + Level(ret) = depth
      /\ depth \in Nat
      /\ frames # <<>> => ArgDepth >= 1
      /\ frames = <<>> => Level(ret) = 0
      /\ \A q \in Kids(ret) : Level(q) = Level(ret) + 1 /\ kind[ret] = "dir"
  BY <1>1, ArgIs
<1>3. k \in Kinds
  BY <1>2, PathsAre
<1>4. \A q : q \in Wanted <=> q \in DuPaths /\ Level(q) <= top /\ Usable(q)
  BY DEF Wanted, Within
<1>5. Level(ret) <= top
  BY <1>2
<1>6. Node("File", FileSize(ret)) \in Nodes /\ Node("Directory", 0) \in Nodes
  BY <1>2, NodeTypes
<1>7. CASE k \in {"gone", "other"}
  <2>1. ret \notin Wanted
    BY <1>4, <1>7 DEF Usable
  <2>2. Returns(NULL) /\ UNCHANGED heap
    BY <1>7 DEF BurnerCall
  <2> QED
    BY <1>1, <2>1, <2>2, NodeReturnsNull
<1>8. CASE k = "file"
  <2>1. ret \in Wanted
    BY <1>2, <1>4, <1>5, <1>8 DEF Usable
  <2>2. \A q \in Kids(ret) : q \notin Asked
    BY <1>2, <1>8
  <2>3. Returns(ret) /\ heap' = With(heap, ret, Node("File", FileSize(ret)))
    BY <1>8 DEF BurnerCall
  <2>4. /\ Node("File", FileSize(ret)).type = "File" /\ Node("File", FileSize(ret)).size = FileSize(ret)
        /\ Node("File", FileSize(ret)).next = NULL /\ Node("File", FileSize(ret)).contents = NULL
    BY DEF Node
  <2> QED
    BY <1>1, <1>6, <1>8, <2>1, <2>2, <2>3, <2>4, NodeReturnsNode
<1>9. CASE k \in {"dir", "closed"} /\ ArgDepth <= 1
  <2>1. ret \in Wanted
    BY <1>2, <1>4, <1>5, <1>9 DEF Usable
  <2>2. \A q \in Kids(ret) : q \notin Asked
    BY <1>2, <1>4, <1>9 DEF Asked
  <2>3. Returns(ret) /\ heap' = With(heap, ret, Node("Directory", 0))
    <3>1. ~(ArgDepth > 1) /\ k \notin {"gone", "other", "file"}
      BY <1>2, <1>9
    <3> QED
      BY <1>9, <3>1 DEF BurnerCall
  <2>4. /\ Node("Directory", 0).type = "Directory"
        /\ Node("Directory", 0).next = NULL /\ Node("Directory", 0).contents = NULL
    BY DEF Node
  <2> QED
    BY <1>1, <1>6, <1>9, <2>1, <2>2, <2>3, <2>4, NodeReturnsNode
<1>10. CASE k = "closed" /\ ArgDepth > 1
  <2>1. ret \notin Wanted
    BY <1>2, <1>4, <1>10 DEF Usable
  <2>2. Returns(NULL) /\ UNCHANGED heap
    BY <1>2, <1>10 DEF BurnerCall
  <2> QED
    BY <1>1, <2>1, <2>2, NodeReturnsNull
<1>11. CASE k = "dir" /\ ArgDepth > 1
  <2>1. ret \in Wanted
    BY <1>2, <1>4, <1>5, <1>11 DEF Usable
  <2>2. Opens(ret) /\ heap' = With(heap, ret, Node("Directory", 0))
    BY <1>2, <1>11 DEF BurnerCall
  <2>3. ArgDepth >= 2
    BY <1>2, <1>11
  <2> QED
    BY <1>1, <1>11, <2>1, <2>2, <2>3, NodeOpens
<1> QED
  BY <1>2, <1>3, <1>7, <1>8, <1>9, <1>10, <1>11 DEF Kinds

(* build_tree of inconsistent.c.                                            *)
LEMMA InconsistentKept ==
  ASSUME TreeOK, duVersion = "inconsistent", NodeInv, Untouched, duPc = "call",
         InconsistentCall(ret)
  PROVE  NodeInv'
<1> DEFINE k == kind[ret]
<1>1. /\ frames = <<>> => ret = 1
      /\ frames # <<>> => ret \in Kids(Top.path) \ Top.todo
      /\ FramesOK /\ Nodely
  BY DEF NodeInv, NodeAt, Nodely
<1>2. /\ ret \in DuPaths /\ ArgDepth \in Nat /\ Level(ret) \in Nat /\ ArgDepth + Level(ret) = depth
      /\ depth \in Nat
      /\ \A q \in Kids(ret) : Level(q) = Level(ret) + 1 /\ kind[ret] = "dir"
  BY <1>1, ArgIs
<1>3. k \in Kinds
  BY <1>2, PathsAre
<1>4. \A q : q \in Wanted <=> q \in DuPaths /\ Level(q) <= depth - 1 /\ kind[q] \in {"file", "dir"}
  BY DEF Wanted, Within
<1>5. Node("File", FileSize(ret)) \in Nodes /\ Node("Directory", 0) \in Nodes
  BY <1>2, NodeTypes
<1>6. CASE ArgDepth = 0 \/ k \in {"gone", "other"}
  <2>1. ret \notin Wanted
    BY <1>2, <1>4, <1>6
  <2>2. Returns(NULL) /\ UNCHANGED heap
    BY <1>6 DEF InconsistentCall
  <2> QED
    BY <1>1, <2>1, <2>2, NodeReturnsNull
<1>7. CASE ArgDepth # 0 /\ k = "file"
  <2>1. ret \in Wanted
    BY <1>2, <1>4, <1>7
  <2>2. \A q \in Kids(ret) : q \notin Asked
    BY <1>2, <1>7
  <2>3. Returns(ret) /\ heap' = With(heap, ret, Node("File", FileSize(ret)))
    BY <1>7 DEF InconsistentCall
  <2>4. /\ Node("File", FileSize(ret)).type = "File" /\ Node("File", FileSize(ret)).size = FileSize(ret)
        /\ Node("File", FileSize(ret)).next = NULL /\ Node("File", FileSize(ret)).contents = NULL
    BY DEF Node
  <2> QED
    BY <1>1, <1>5, <1>7, <2>1, <2>2, <2>3, <2>4, NodeReturnsNode
<1>8. CASE ArgDepth # 0 /\ k = "closed"
  <2>1. ret \notin Wanted /\ ret \in Lost
    BY <1>2, <1>4, <1>8 DEF Lost
  <2>2. Returns(NULL) /\ heap' = With(heap, ret, Node("Directory", 0))
    BY <1>8 DEF InconsistentCall
  <2> QED
    BY <1>1, <2>1, <2>2, NodeReturnsNull
<1>9. CASE ArgDepth # 0 /\ k = "dir"
  <2>1. ret \in Wanted
    BY <1>2, <1>4, <1>9
  <2>2. Opens(ret) /\ heap' = With(heap, ret, Node("Directory", 0))
    BY <1>9 DEF InconsistentCall
  <2>3. ArgDepth >= 1
    BY <1>2, <1>9
  <2> QED
    BY <1>1, <1>9, <2>1, <2>2, <2>3, NodeOpens
<1> QED
  BY <1>3, <1>6, <1>7, <1>8, <1>9 DEF Kinds

(* readdir hands out an entry.                                              *)
LEMMA NodeReads ==
  ASSUME TreeOK, Nodely, NodeInv, NEW p \in DuPaths, ReadDir(p)
  PROVE  NodeInv'
<1> DEFINE t == [Top EXCEPT !.todo = @ \ {p}]
<1>1. /\ duPc = "loop" /\ duPc' = "call" /\ p \in Top.todo /\ ret' = p /\ heap' = heap /\ Untouched
      /\ frames # <<>> /\ FramesOK
      /\ frames' = [frames EXCEPT ![Len(frames)].todo = @ \ {p}]
  BY DEF ReadDir, NodeInv, NodeAt
<1>2. /\ TreeOK' /\ DuPaths' = DuPaths /\ \A q : Kids(q)' = Kids(q) /\ Level(q)' = Level(q)
      /\ Wanted' = Wanted /\ Asked' = Asked /\ Expected' = Expected /\ Lost' = Lost
      /\ kind' = kind /\ up' = up /\ depth' = depth /\ duVersion' = duVersion
      /\ Pointers' = Pointers /\ Nodes' = Nodes
  BY <1>1, TreeKept
<1>3. /\ Len(frames) \in 1..Len(frames) /\ Top \in Frames /\ Top.todo \subseteq Kids(Top.path)
      /\ Top.todo \cap DOMAIN heap = {} /\ p \in DuPaths
  BY <1>1, FramesAre DEF FramesOK, NodeInv, NodeHeap, Top
<1>4. t \in Frames /\ t.path = Top.path /\ t.depth = Top.depth /\ t.todo = Top.todo \ {p}
      /\ t.prev = Top.prev
  BY <1>3 DEF Frames
<1>5. frames' = [frames EXCEPT ![Len(frames)] = t]
  BY <1>1, <1>3, FramesAre DEF Top
<1> HIDE DEF t
<1>6. /\ FramesOK' /\ Stack' = Stack /\ Len(frames') = Len(frames) /\ frames' # <<>> /\ Top' = t
      /\ \A i \in 1..Len(frames) :
           /\ i # Len(frames) => frames'[i] = frames[i]
           /\ frames'[i].path = frames[i].path /\ frames'[i].todo \subseteq frames[i].todo
  BY <1>1, <1>4, <1>5, TopChanged
<1>7. Good' = Good /\ NodeLinked' = NodeLinked /\ ~Failed /\ ~Failed'
  BY <1>1, <1>2, <1>6 DEF Good, NodeLinked, NodeActive, Failed
<1>8. \E pos \in [DuPaths' -> Nat] : Lists(NextOf, NodeFirst, NodeLinked, pos)'
  BY <1>1, <1>7, NodeListsKept, NodeFacts
<1>9. NodeHeap'
  <2>1. \A i \in 1..Len(frames') : frames'[i].todo \cap DOMAIN heap' = {}
    BY <1>1, <1>6 DEF NodeInv, NodeHeap
  <2> QED
    BY <1>1, <1>2, <1>6, <1>7, <2>1 DEF NodeInv, NodeHeap
<1>10. NodeComplete'
  <2>1. ASSUME NEW q \in Good, NEW r \in Asked \cap Kids(q), r \notin Good, r # p
        PROVE  \E i \in 1..Len(frames) : frames'[i].path = q /\ r \in frames'[i].todo
    <3>1. PICK i \in 1..Len(frames) : frames[i].path = q /\ r \in frames[i].todo
      BY <1>1, <1>7, <2>1 DEF NodeComplete, NodeInv
    <3>2. r \in frames'[i].todo
      <4>1. CASE i # Len(frames)
        BY <1>6, <3>1, <4>1
      <4>2. CASE i = Len(frames)
        <5>1. frames'[i] = t /\ frames[i] = Top
          BY <1>6, <4>2 DEF Top
        <5> QED
          BY <1>4, <2>1, <3>1, <5>1
      <4> QED
        BY <4>1, <4>2
    <3> QED
      BY <1>6, <3>1, <3>2
  <2> QED
    BY <1>1, <1>2, <1>6, <1>7, <2>1 DEF NodeComplete
<1>11. NodePrev'
  <2>1. \A i \in 1..Len(frames) : frames'[i].prev = frames[i].prev /\ frames'[i].path = frames[i].path
    <3>1. frames'[Len(frames)] = t /\ frames[Len(frames)] = Top
      BY <1>6 DEF Top
    <3> QED
      BY <1>4, <1>6, <3>1
  <2>2. NodePrev
    BY DEF NodeInv
  <2> QED
    BY <1>1, <1>2, <1>6, <1>7, <2>1, <2>2 DEF NodePrev
<1>12. NodeAt'
  <2>1. p \in Kids(Top.path)' \ Top'.todo
    BY <1>1, <1>2, <1>3, <1>4, <1>6 DEF Kids
  <2>2. p \notin DOMAIN heap'
    BY <1>1, <1>3
  <2> QED
    BY <1>1, <1>2, <1>3, <1>6, <2>1, <2>2 DEF NodeAt
<1> QED
  BY <1>6, <1>8, <1>9, <1>10, <1>11, <1>12 DEF NodeInv

(* closedir.                                                                *)
LEMMA NodeCloses ==
  ASSUME TreeOK, Nodely, NodeInv, CloseDir
  PROVE  NodeInv'
<1>1. /\ duPc = "loop" /\ duPc' = "return" /\ Top.todo = {} /\ heap' = heap /\ Untouched
      /\ frames # <<>> /\ FramesOK /\ frames' = SubSeq(frames, 1, Len(frames) - 1)
      /\ ret' = Top.path
  BY DEF CloseDir, NodeInv, NodeAt, Nodely
<1>2. /\ TreeOK' /\ DuPaths' = DuPaths /\ \A q : Kids(q)' = Kids(q) /\ Level(q)' = Level(q)
      /\ Wanted' = Wanted /\ Asked' = Asked /\ Expected' = Expected /\ Lost' = Lost
      /\ kind' = kind /\ up' = up /\ depth' = depth /\ duVersion' = duVersion
      /\ Pointers' = Pointers /\ Nodes' = Nodes
  BY <1>1, TreeKept
<1>3. /\ FramesOK' /\ Stack = Stack' \cup {Top.path} /\ Top.path \notin Stack'
      /\ Len(frames') = Len(frames) - 1
      /\ \A i \in 1..(Len(frames) - 1) : i \in 1..Len(frames) /\ frames'[i] = frames[i]
      /\ frames' = <<>> => Top.path = 1
      /\ frames' # <<>> => Top.path \in Kids(Top'.path) \ Top'.todo
  BY <1>1, TopPopped
<1>4. Top.path \in Good /\ Top.path # NULL /\ Top.path \in DuPaths
  BY <1>1, NodeFacts, PathsAre DEF Frames
<1>5. /\ Good' = Good /\ NodeLinked' = NodeLinked /\ ~Failed /\ ~Failed'
  <2>1. Good' = Good /\ ~Failed /\ ~Failed'
    BY <1>1, <1>2, <1>4 DEF Good, Failed
  <2>2. NodeActive = {} /\ NodeActive' = {Top.path}
    BY <1>1 DEF NodeActive
  <2> QED
    BY <1>3, <2>1, <2>2 DEF NodeLinked
<1>6. \E pos \in [DuPaths' -> Nat] : Lists(NextOf, NodeFirst, NodeLinked, pos)'
  BY <1>1, <1>5, NodeListsKept, NodeFacts
<1>7. NodeHeap'
  <2>1. \A i \in 1..Len(frames') : frames'[i].todo \cap DOMAIN heap' = {}
    BY <1>1, <1>3 DEF NodeInv, NodeHeap
  <2> QED
    BY <1>1, <1>2, <1>3, <1>5, <2>1 DEF NodeInv, NodeHeap
<1>8. NodeComplete'
  <2>1. ASSUME NEW q \in Good, NEW r \in Asked \cap Kids(q), r \notin Good
        PROVE  \E i \in 1..Len(frames') : frames'[i].path = q /\ r \in frames'[i].todo
    <3>1. PICK i \in 1..Len(frames) : frames[i].path = q /\ r \in frames[i].todo
      BY <1>1, <1>5, <2>1 DEF NodeComplete, NodeInv
    <3>2. i # Len(frames)
      BY <1>1, <3>1 DEF Top
    <3>3. i \in 1..(Len(frames) - 1)
      BY <1>1, <3>1, <3>2, FramesAre
    <3> QED
      BY <1>3, <3>1, <3>3
  <2>2. \A q \in Good : \A r \in Asked \cap Kids(q) :
          r \in Good \/ \E i \in 1..Len(frames') : frames'[i].path = q /\ r \in frames'[i].todo
    BY <2>1
  <2> QED
    BY <1>2, <1>5, <2>2, Zenon DEF NodeComplete
<1>9. NodePrev'
  BY <1>1, <1>2, <1>3, <1>5 DEF NodePrev, NodeInv
<1>10. NodeAt'
  <2>1. frames' # <<>> => Top.path \in Kids(Top'.path)
    BY <1>3
  <2>2. Top.path \in Good' \ Stack'
    BY <1>3, <1>4, <1>5
  <2>3. frames' # <<>> => ret' \in Kids(Top.path)'
    BY <1>1, <1>2, <2>1 DEF Kids
  <2> QED
    BY <1>1, <1>3, <1>4, <1>5, <2>2, <2>3 DEF NodeAt
<1> QED
  BY <1>3, <1>6, <1>7, <1>8, <1>9, <1>10 DEF NodeInv

(* A child that came back becomes the last in the list of its directory.     *)
LEMMA NodeLinks ==
  ASSUME TreeOK, Nodely, NodeInv, LinkChild
  PROVE  NodeInv'
<1> DEFINE t == [Top EXCEPT !.prev = ret]
<1>1. /\ duPc = "return" /\ duPc' = "loop" /\ ret # NULL /\ ret' = ret /\ Untouched
      /\ frames # <<>> /\ FramesOK /\ frames' = [frames EXCEPT ![Len(frames)].prev = ret]
      /\ ret \in Good \ Stack /\ ret \in Kids(Top.path)
      /\ heap' = IF Top.prev = NULL THEN Linked(heap, Top.path, "contents", ret)
                 ELSE Linked(heap, Top.prev, "next", ret)
  BY DEF LinkChild, NodeInv, NodeAt
<1>2. /\ TreeOK' /\ DuPaths' = DuPaths /\ \A q : Kids(q)' = Kids(q) /\ Level(q)' = Level(q)
      /\ Wanted' = Wanted /\ Asked' = Asked /\ Expected' = Expected /\ Lost' = Lost
      /\ kind' = kind /\ up' = up /\ depth' = depth /\ duVersion' = duVersion
      /\ Pointers' = Pointers /\ Nodes' = Nodes
      /\ \A next, first, L, pos : Lists(next, first, L, pos) => Lists(next, first, L, pos)'
  BY <1>1, TreeKept
<1>3. /\ Len(frames) \in 1..Len(frames) /\ Top \in Frames /\ Top = frames[Len(frames)]
      /\ \A i \in 1..Len(frames) : i # Len(frames) => frames[i].path < Top.path
      /\ \A i \in 1..Len(frames) : frames[i] \in Frames
  BY <1>1, FramesAre DEF FramesOK, Top
<1>4. /\ DOMAIN heap \subseteq DuPaths /\ NULL \notin DOMAIN heap /\ Good \subseteq DOMAIN heap
      /\ NodeLinked \subseteq Good /\ Stack \subseteq Good /\ NULL \notin Stack
      /\ \A q \in DOMAIN heap : heap[q] \in Nodes
      /\ Top.path \in Stack /\ \A i \in 1..Len(frames) : frames[i].path \in Stack
  BY <1>1, NodeFacts
<1>5. t \in Frames /\ t.path = Top.path /\ t.depth = Top.depth /\ t.todo = Top.todo /\ t.prev = ret
  BY <1>1, <1>3, <1>4 DEF Frames, Pointers
<1>6. frames' = [frames EXCEPT ![Len(frames)] = t]
  BY <1>1, <1>3, FramesAre DEF Top
<1> HIDE DEF t
<1>7. /\ FramesOK' /\ Stack' = Stack /\ Len(frames') = Len(frames) /\ frames' # <<>> /\ Top' = t
      /\ \A i \in 1..Len(frames) :
           /\ i # Len(frames) => frames'[i] = frames[i]
           /\ frames'[i].path = frames[i].path /\ frames'[i].todo \subseteq frames[i].todo
  BY <1>1, <1>5, <1>6, TopChanged
<1>8. frames'[Len(frames)] = t
  BY <1>7 DEF Top
<1>9. \A i \in 1..Len(frames) : frames'[i].todo = frames[i].todo
  BY <1>3, <1>5, <1>7, <1>8
<1>10. /\ Top.prev = NULL => heap[Top.path].contents = NULL
       /\ Top.prev # NULL => /\ Top.prev \in NodeLinked /\ up[Top.prev] = Top.path
                             /\ heap[Top.prev].next = NULL
  BY <1>3 DEF NodePrev, NodeInv
<1>11. up[ret] = Top.path /\ ret \in DuPaths \ {1} /\ ret # Top.path /\ heap[ret].next = NULL
  <2>1. ret \notin NodeLinked
    BY <1>1 DEF NodeLinked, NodeActive
  <2> QED
    BY <1>1, <1>4, <2>1 DEF Kids, NodeInv, NodeHeap
<1>12. /\ DOMAIN heap' = DOMAIN heap /\ heap' \in [DOMAIN heap -> Nodes]
       /\ \A q \in DOMAIN heap :
            /\ heap'[q].type = heap[q].type /\ heap'[q].size = heap[q].size
            /\ heap'[q].next = IF Top.prev # NULL /\ q = Top.prev THEN ret ELSE heap[q].next
            /\ heap'[q].contents = IF Top.prev = NULL /\ q = Top.path THEN ret ELSE heap[q].contents
  <2>1. ret \in Pointers
    BY <1>11 DEF Pointers
  <2>2. CASE Top.prev = NULL
    <3>1. heap' = [heap EXCEPT ![Top.path] = [heap[Top.path] EXCEPT !["contents"] = ret]]
      BY <1>1, <1>4, <2>2 DEF Linked, NodeInv, NodeHeap
    <3>2. [heap[Top.path] EXCEPT !["contents"] = ret] \in Nodes
      BY <1>4, <2>1 DEF Nodes
    <3>3. [heap[Top.path] EXCEPT !["contents"] = ret].type = heap[Top.path].type
          /\ [heap[Top.path] EXCEPT !["contents"] = ret].size = heap[Top.path].size
          /\ [heap[Top.path] EXCEPT !["contents"] = ret].next = heap[Top.path].next
          /\ [heap[Top.path] EXCEPT !["contents"] = ret].contents = ret
      BY <1>4 DEF Nodes
    <3> QED
      BY <1>4, <2>2, <3>1, <3>2, <3>3 DEF NodeInv, NodeHeap
  <2>3. CASE Top.prev # NULL
    <3>1. Top.prev \in DOMAIN heap
      BY <1>4, <1>10, <2>3
    <3>2. heap' = [heap EXCEPT ![Top.prev] = [heap[Top.prev] EXCEPT !["next"] = ret]]
      BY <1>1, <2>3, <3>1 DEF Linked, NodeInv, NodeHeap
    <3>3. [heap[Top.prev] EXCEPT !["next"] = ret] \in Nodes
      BY <1>4, <2>1, <3>1 DEF Nodes
    <3>4. [heap[Top.prev] EXCEPT !["next"] = ret].type = heap[Top.prev].type
          /\ [heap[Top.prev] EXCEPT !["next"] = ret].size = heap[Top.prev].size
          /\ [heap[Top.prev] EXCEPT !["next"] = ret].next = ret
          /\ [heap[Top.prev] EXCEPT !["next"] = ret].contents = heap[Top.prev].contents
      BY <1>4, <3>1 DEF Nodes
    <3> QED
      BY <2>3, <3>1, <3>2, <3>3, <3>4 DEF NodeInv, NodeHeap
  <2> QED
    BY <2>2, <2>3
<1>13. Good' = Good /\ ~Failed /\ ~Failed' /\ NodeLinked' = NodeLinked \cup {ret} /\ ret \notin NodeLinked
  <2>1. Good' = Good /\ ~Failed /\ ~Failed'
    BY <1>1, <1>2, <1>12 DEF Good, Failed
  <2>2. NodeActive = {ret} /\ NodeActive' = {}
    BY <1>1 DEF NodeActive
  <2> QED
    BY <1>1, <1>7, <2>1, <2>2 DEF NodeLinked
<1>14. \E pos \in [DuPaths' -> Nat] : Lists(NextOf, NodeFirst, NodeLinked, pos)'
  <2>1. PICK pos \in [DuPaths -> Nat] : Lists(NextOf, NodeFirst, NodeLinked, pos)
    BY DEF NodeInv
  <2>2. PICK nx, fs, n1, f1, L, prev :
          nx = NextOf' /\ fs = NodeFirst' /\ n1 = NextOf /\ f1 = NodeFirst /\ L = NodeLinked
          /\ prev = Top.prev
    OBVIOUS
  <2>3. \A q \in L : q # prev => nx[q] = n1[q]
    BY <1>4, <1>12, <2>2 DEF NextOf
  <2>4. nx[ret] = NULL
    BY <1>1, <1>4, <1>10, <1>11, <1>12, <1>13, <2>2 DEF NextOf
  <2>5. \A p \in DuPaths : p # up[ret] \/ prev # NULL => fs[p] = f1[p]
    BY <1>2, <1>11, <1>12, <2>2 DEF NodeFirst
  <2>6. prev = NULL => f1[up[ret]] = NULL /\ fs[up[ret]] = ret
    BY <1>2, <1>4, <1>10, <1>11, <1>12, <2>2 DEF NodeFirst
  <2>7. prev # NULL => prev \in L /\ up[prev] = up[ret] /\ n1[prev] = NULL /\ nx[prev] = ret
    BY <1>4, <1>10, <1>11, <1>12, <2>2 DEF NextOf
  <2>8. Lists(n1, f1, L, pos) /\ ret \notin L
    BY <1>13, <2>1, <2>2
  <2>9. PICK pos2 \in [DuPaths -> Nat] : Lists(nx, fs, L \cup {ret}, pos2)
    BY <1>11, <2>3, <2>4, <2>5, <2>6, <2>7, <2>8, ListAppended, SMTT(30)
  <2>10. Lists(NextOf, NodeFirst, NodeLinked, pos2)'
    BY <1>2, <1>13, <2>2, <2>9 DEF Lists
  <2> QED
    BY <1>2, <2>10
<1>15. NodeHeap'
  <2>1. \A i \in 1..Len(frames') : frames'[i].todo \cap DOMAIN heap' = {}
    BY <1>7, <1>9, <1>12 DEF NodeInv, NodeHeap
  <2>2. \A q \in Good : q \notin NodeLinked \cup {ret} => heap'[q].next = NULL
    BY <1>4, <1>10, <1>12 DEF NodeInv, NodeHeap
  <2>3. \A q \in Good :
          /\ q \in Wanted /\ (q # 1 => up[q] \in Good)
          /\ heap'[q].type = (IF kind[q] = "file" THEN "File" ELSE "Directory")
          /\ kind[q] = "file" => heap'[q].size = FileSize(q)
    BY <1>4, <1>12 DEF NodeInv, NodeHeap
  <2>4. Good = DOMAIN heap
    BY <1>13 DEF NodeInv, NodeHeap
  <2> QED
    BY <1>2, <1>4, <1>7, <1>12, <1>13, <2>1, <2>2, <2>3, <2>4 DEF NodeHeap
<1>16. NodeComplete'
  <2>1. ASSUME NEW q \in Good, NEW r \in Asked \cap Kids(q), r \notin Good
        PROVE  \E i \in 1..Len(frames) : frames'[i].path = q /\ r \in frames'[i].todo
    <3>1. PICK i \in 1..Len(frames) : frames[i].path = q /\ r \in frames[i].todo
      BY <1>1, <1>13, <2>1 DEF NodeComplete, NodeInv
    <3> QED
      BY <1>7, <1>9, <3>1
  <2> QED
    BY <1>1, <1>2, <1>7, <1>13, <2>1 DEF NodeComplete
<1>17. NodePrev'
  <2>1. ASSUME NEW i \in 1..Len(frames)
        PROVE  /\ frames'[i].prev = NULL => heap'[frames'[i].path].contents = NULL
               /\ frames'[i].prev # NULL =>
                    /\ frames'[i].prev \in NodeLinked \cup {ret}
                    /\ up[frames'[i].prev] = frames'[i].path
                    /\ heap'[frames'[i].prev].next = NULL
    <3>1. CASE i = Len(frames)
      <4>1. frames'[i].prev = ret /\ frames'[i].path = Top.path
        BY <1>5, <1>8, <3>1
      <4> QED
        BY <1>1, <1>4, <1>10, <1>11, <1>12, <1>13, <4>1
    <3>2. CASE i # Len(frames)
      <4>1. frames'[i] = frames[i] /\ frames[i].path # Top.path /\ frames[i].path \in DOMAIN heap
        <5>1. frames[i].path < Top.path /\ frames[i].path \in Nat /\ Top.path \in Nat
          BY <1>3, <3>2, PathsAre DEF Frames
        <5> QED
          BY <1>4, <1>7, <3>2, <5>1
      <4>2. /\ frames[i].prev = NULL => heap[frames[i].path].contents = NULL
            /\ frames[i].prev # NULL =>
                 /\ frames[i].prev \in NodeLinked /\ up[frames[i].prev] = frames[i].path
                 /\ heap[frames[i].prev].next = NULL
        BY DEF NodePrev, NodeInv
      <4>3. frames[i].prev # NULL => frames[i].prev # Top.prev /\ frames[i].prev \in DOMAIN heap
        BY <1>4, <1>10, <4>1, <4>2
      <4> QED
        BY <1>12, <4>1, <4>2, <4>3
    <3> QED
      BY <3>1, <3>2
  <2> QED
    BY <1>2, <1>7, <1>13, <2>1 DEF NodePrev
<1>18. NodeAt'
  BY <1>1, <1>7 DEF NodeAt
<1> QED
  BY <1>7, <1>14, <1>15, <1>16, <1>17, <1>18 DEF NodeInv

(* Two changes of the counter alone: burner.c goes on without a child, and   *)
(* the first call has returned.                                             *)
LEMMA NodeGoesOn ==
  ASSUME TreeOK, Nodely, NodeInv, SkipChild \/ Built
  PROVE  NodeInv'
<1>1. /\ duPc = "return" /\ UNCHANGED <<frames, heap, ret>> /\ Untouched
      /\ \/ duPc' = "loop" /\ ret = NULL /\ duVersion = "burner" /\ frames # <<>>
         \/ duPc' = "built" /\ frames = <<>>
  BY DEF SkipChild, Built
<1>2. /\ TreeOK' /\ DuPaths' = DuPaths /\ \A q : Kids(q)' = Kids(q) /\ Level(q)' = Level(q)
      /\ Wanted' = Wanted /\ Asked' = Asked /\ Expected' = Expected /\ Lost' = Lost
      /\ kind' = kind /\ up' = up /\ depth' = depth /\ duVersion' = duVersion
      /\ Pointers' = Pointers /\ Nodes' = Nodes
  BY <1>1, TreeKept
<1>3. Good' = Good /\ Stack' = Stack /\ (Failed' = Failed)
  BY <1>1, <1>2 DEF Good, Stack, Failed
<1>4. NULL \notin Good
  BY NodeFacts
<1>5. NodeLinked' = NodeLinked
  <2>1. NodeActive = {ret} /\ (NodeActive' = {ret} \/ (NodeActive' = {} /\ ret = NULL))
    BY <1>1 DEF NodeActive
  <2> QED
    BY <1>3, <1>4, <2>1 DEF NodeLinked
<1>6. \E pos \in [DuPaths' -> Nat] : Lists(NextOf, NodeFirst, NodeLinked, pos)'
  BY <1>1, <1>5, NodeListsKept, NodeFacts
<1>7. FramesOK'
  BY <1>1, <1>2 DEF FramesOK, NodeInv
<1>8. NodeHeap'
  BY <1>1, <1>2, <1>3, <1>5 DEF NodeHeap, NodeInv
<1>9. NodeComplete'
  BY <1>1, <1>2, <1>3 DEF NodeComplete, NodeInv
<1>10. NodePrev'
  BY <1>1, <1>2, <1>5 DEF NodePrev, NodeInv
<1>11. NodeAt'
  <2>1. NodeAt
    BY DEF NodeInv
  <2> QED
    BY <1>1, <1>2, <1>3, <2>1 DEF NodeAt
<1> QED
  BY <1>6, <1>7, <1>8, <1>9, <1>10, <1>11 DEF NodeInv

(* inconsistent.c frees what the directory has so far and returns NULL.      *)
LEMMA NodeGivesUp ==
  ASSUME TreeOK, Nodely, NodeInv, GiveUp
  PROVE  NodeInv'
<1> DEFINE p == Top.path
           U == Under(heap, p)
<1>1. /\ duPc = "return" /\ duPc' = "return" /\ ret = NULL /\ ret' = NULL /\ Untouched
      /\ frames # <<>> /\ FramesOK /\ frames' = SubSeq(frames, 1, Len(frames) - 1)
      /\ duVersion = "inconsistent" /\ heap' = Without(heap, U) /\ Failed
  BY DEF GiveUp, NodeInv, NodeAt, Freed, Failed
<1>2. /\ TreeOK' /\ DuPaths' = DuPaths /\ \A q : Kids(q)' = Kids(q) /\ Level(q)' = Level(q)
      /\ Wanted' = Wanted /\ Asked' = Asked /\ Expected' = Expected /\ Lost' = Lost
      /\ kind' = kind /\ up' = up /\ depth' = depth /\ duVersion' = duVersion
      /\ Pointers' = Pointers /\ Nodes' = Nodes
  BY <1>1, TreeKept
<1>3. /\ FramesOK' /\ Stack = Stack' \cup {p} /\ p \notin Stack'
      /\ Len(frames') = Len(frames) - 1
      /\ \A i \in 1..(Len(frames) - 1) : i \in 1..Len(frames) /\ frames'[i] = frames[i]
      /\ frames' = <<>> => p = 1
      /\ \A i \in 1..(Len(frames) - 1) : frames[i].path < p
  BY <1>1, TopPopped
<1>4. /\ DOMAIN heap \subseteq DuPaths /\ NULL \notin DOMAIN heap /\ Good \subseteq DOMAIN heap
      /\ NodeLinked \subseteq Good /\ Stack \subseteq Good /\ p \in Stack
      /\ \A q \in DOMAIN heap : heap[q] \in Nodes
  BY <1>1, NodeFacts
<1>5. DuPaths \subseteq Nat
  BY PathsAre
<1>6. \A q \in Stack' : q < p
  BY <1>3 DEF Stack
<1>7. NodeLinked = Good \ Stack
  BY <1>1, <1>4 DEF NodeLinked, NodeActive
<1>8. PICK pos \in [DuPaths -> Nat] : Lists(NextOf, NodeFirst, NodeLinked, pos)
  BY DEF NodeInv
<1>9. /\ p \in U /\ U \subseteq NodeLinked \cup {p}
      /\ \A q \in U : p <= q
      /\ \A q \in NodeLinked : q # p => (q \in U) = (up[q] \in U)
  <2>1. PICK nx, fs, L : nx = NextOf /\ fs = NodeFirst /\ L = NodeLinked
    OBVIOUS
  <2>2. Lists(nx, fs, L, pos)
    BY <1>8, <2>1
  <2>3. L \subseteq DOMAIN heap /\ p \in DuPaths /\ p \in DOMAIN heap
    BY <1>4, <2>1
  <2>4. \A q \in L : heap[q].next = nx[q]
    BY <2>1, <2>3 DEF NextOf
  <2>5. \A q \in L \cup {p} : heap[q].contents = fs[q]
    BY <1>4, <2>1, <2>3 DEF NodeFirst
  <2> HIDE DEF p
  <2> QED
    BY <2>1, <2>2, <2>3, <2>4, <2>5, UnderOfList
<1> HIDE DEF U
<1>10. /\ DOMAIN heap' = DOMAIN heap \ U
       /\ \A q \in DOMAIN heap \ U : heap'[q] = heap[q]
       /\ heap' = [q \in DOMAIN heap \ U |-> heap'[q]]
  BY <1>1 DEF Without
<1>11. Good' = Good \ U /\ Failed'
  BY <1>1, <1>2, <1>10 DEF Good, Failed
<1>12. Stack' \cap U = {}
  <2>0. p \in Nat /\ Stack' \subseteq Nat
    BY <1>3, <1>4, <1>5
  <2> HIDE DEF p
  <2>1. \A q \in Stack' : ~(p <= q)
    BY <1>6, <2>0
  <2> QED
    BY <1>9, <2>1
<1>13. NodeLinked' = NodeLinked \ U
  <2>1. NodeActive' = {NULL}
    BY <1>1 DEF NodeActive
  <2> QED
    BY <1>3, <1>4, <1>7, <1>9, <1>11, <2>1 DEF NodeLinked
<1>14. \A q \in Good \ U : q # 1 => up[q] \in Good \ U
  <2>1. ASSUME NEW q \in Good \ U, q # 1
        PROVE  up[q] \in Good \ U
    <3>1. up[q] \in Good /\ up[q] < q /\ q \in Nat /\ up[q] \in Nat
      BY <1>4, <1>5, <2>1, PathsAre DEF NodeInv, NodeHeap
    <3>2. q \in NodeLinked => up[q] \notin U
      BY <1>9, <2>1
    <3>3. q \in Stack' => up[q] \notin U
      <4>1. p \in Nat
        BY <1>4, <1>5
      <4> HIDE DEF p
      <4>2. q \in Stack' => ~(p <= up[q])
        BY <1>6, <3>1, <4>1
      <4> QED
        BY <1>9, <4>2
    <3> QED
      BY <1>3, <1>7, <1>9, <2>1, <3>1, <3>2, <3>3
  <2> QED
    BY <2>1
<1>15. \E pos2 \in [DuPaths' -> Nat] : Lists(NextOf, NodeFirst, NodeLinked, pos2)'
  <2>1. PICK nx, fs, n1, f1, L :
          nx = NextOf' /\ fs = NodeFirst' /\ n1 = NextOf /\ f1 = NodeFirst /\ L = NodeLinked
    OBVIOUS
  <2> DEFINE M == L \ U
  <2>2. Lists(n1, f1, L, pos)
    BY <1>8, <2>1
  <2>3. \A q \in L : q \in DuPaths \ {1} /\ up[q] \in DuPaths /\ q # p
    BY <1>4, <1>7, <2>1, <2>2, PathsAre DEF Lists
  <2>4. \A q \in L : (q \in U) = (up[q] \in U)
    BY <1>9, <2>1, <2>3
  <2>5. \A q \in M : nx[q] = n1[q] /\ fs[up[q]] = f1[up[q]]
    <3>1. \A q \in M : nx[q] = n1[q]
      BY <1>4, <1>10, <2>1 DEF NextOf
    <3>2. \A q \in M : fs[up[q]] = f1[up[q]]
      BY <1>2, <1>10, <2>1, <2>3, <2>4 DEF NodeFirst
    <3> QED
      BY <3>1, <3>2
  <2>6. \A q \in DuPaths : fs[q] # NULL => fs[q] = f1[q] /\ f1[q] \in M
    <3>1. \A q \in DuPaths : fs[q] # NULL => fs[q] = f1[q] /\ q \notin U
      BY <1>2, <1>10, <2>1 DEF NodeFirst
    <3>2. \A q \in DuPaths : f1[q] # NULL => f1[q] \in L /\ up[f1[q]] = q
      BY <2>2 DEF Lists
    <3> QED
      BY <2>4, <3>1, <3>2
  <2>7. \A q, r \in L : up[q] = up[r] /\ q \in M => r \in M
    BY <2>4
  <2>8. M \subseteq L
    OBVIOUS
  <2> HIDE DEF M
  <2>9. Lists(nx, fs, M, pos)
    BY <2>2, <2>5, <2>6, <2>7, <2>8, ListsKept
  <2>10. Lists(NextOf, NodeFirst, NodeLinked, pos)'
    BY <1>2, <1>13, <2>1, <2>9 DEF Lists, M
  <2> QED
    BY <1>2, <2>10
<1>16. NodeHeap'
  <2>1. \A i \in 1..Len(frames') : frames'[i].todo \cap DOMAIN heap' = {}
    BY <1>3, <1>10 DEF NodeInv, NodeHeap
  <2>2. \A q \in Good \ U :
          /\ q \in Wanted /\ (q # 1 => up[q] \in Good \ U)
          /\ heap'[q].type = (IF kind[q] = "file" THEN "File" ELSE "Directory")
          /\ kind[q] = "file" => heap'[q].size = FileSize(q)
          /\ q \notin NodeLinked \ U => heap'[q].next = NULL
    BY <1>4, <1>10, <1>14 DEF NodeInv, NodeHeap
  <2>3. DOMAIN heap' \subseteq DuPaths /\ heap' \in [DOMAIN heap' -> Nodes]
    BY <1>4, <1>10
  <2>4. Stack' \subseteq Good'
    BY <1>3, <1>4, <1>11, <1>12
  <2> QED
    BY <1>2, <1>11, <1>13, <2>1, <2>2, <2>3, <2>4 DEF NodeHeap
<1>17. NodeComplete'
  BY <1>11 DEF NodeComplete
<1>18. NodePrev'
  <2>1. ASSUME NEW i \in 1..(Len(frames) - 1)
        PROVE  /\ frames'[i].prev = NULL => heap'[frames'[i].path].contents = NULL
               /\ frames'[i].prev # NULL =>
                    /\ frames'[i].prev \in NodeLinked \ U
                    /\ up[frames'[i].prev] = frames'[i].path
                    /\ heap'[frames'[i].prev].next = NULL
    <3>1. i \in 1..Len(frames) /\ frames'[i] = frames[i]
      BY <1>3
    <3>2. frames[i].path \in DOMAIN heap \ U
      <4>1. frames[i].path \in Stack'
        BY <1>3, <3>1 DEF Stack
      <4> QED
        BY <1>3, <1>4, <1>12, <4>1
    <3>3. /\ frames[i].prev = NULL => heap[frames[i].path].contents = NULL
          /\ frames[i].prev # NULL =>
               /\ frames[i].prev \in NodeLinked /\ up[frames[i].prev] = frames[i].path
               /\ heap[frames[i].prev].next = NULL
      BY <3>1 DEF NodePrev, NodeInv
    <3>4. frames[i].prev # NULL => frames[i].prev \in DOMAIN heap \ U
      BY <1>4, <1>7, <1>9, <3>2, <3>3
    <3> QED
      BY <1>10, <3>1, <3>2, <3>3, <3>4
  <2> QED
    BY <1>2, <1>3, <1>13, <2>1 DEF NodePrev
<1>19. NodeAt'
  <2>1. frames' = <<>> => 1 \notin Good'
    BY <1>3, <1>9, <1>11
  <2>2. Expected' = {}
    BY <1>1, <1>2 DEF NodeAt, NodeInv
  <2> QED
    BY <1>1, <1>2, <2>1, <2>2 DEF NodeAt
<1> QED
  BY <1>3, <1>15, <1>16, <1>17, <1>18, <1>19 DEF NodeInv

(* Without a call under way everything good hangs from the root.            *)
LEMMA NodeRooted ==
  ASSUME TreeOK, NodeInv
  PROVE  /\ \A S \in SUBSET Good : 1 \notin S /\ (\A q \in S : up[q] \in S) => S = {}
         /\ 1 \notin Good => Good = {}
<1>1. ASSUME NEW S, S \subseteq Good, 1 \notin S, \A q \in S : up[q] \in S, S # {}
      PROVE  FALSE
  <2>1. S \subseteq DuPaths
    BY <1>1, NodeFacts
  <2>2. PICK q \in S : \A r \in S : q <= r
    BY <1>1, <2>1, FirstPath
  <2>3. q \in DuPaths \ {1} /\ up[q] \in S
    BY <1>1, <2>1
  <2>4. up[q] < q /\ q <= up[q] /\ q \in Nat /\ up[q] \in Nat
    BY <2>1, <2>2, <2>3, PathsAre
  <2> QED
    BY <2>4
<1>2. 1 \notin Good => \A q \in Good : up[q] \in Good
  BY DEF NodeInv, NodeHeap
<1> QED
  BY <1>1, <1>2

(* free_tree of burner.c and inconsistent.c frees all that is good.          *)
LEMMA NodeFreed ==
  ASSUME TreeOK, Nodely, NodeInv, FreeTree
  PROVE  DOMAIN heap' \subseteq Lost'
<1> DEFINE U == Under(heap, ret)
<1>1. duPc = "built" /\ frames = <<>> /\ Untouched /\ heap' = Without(heap, U)
  BY DEF FreeTree, Freed, NodeInv, NodeAt, Nodely
<1>2. Lost' = Lost
  BY <1>1, TreeKept
<1>3. DOMAIN heap' = DOMAIN heap \ U
  BY <1>1 DEF Without
<1>4. Good \subseteq U
  <2>1. CASE ret = NULL
    <3>1. 1 \notin Good
      BY <1>1, <2>1 DEF NodeInv, NodeAt
    <3> QED
      BY <3>1, NodeRooted
  <2>2. CASE ret # NULL
    <3>1. ret = 1 /\ 1 \in Good /\ Good \subseteq DOMAIN heap /\ DOMAIN heap \subseteq DuPaths
      BY <1>1, <2>2, NodeFacts DEF NodeInv, NodeAt
    <3>2. Stack = {}
      <4>1. Len(frames) = 0
        BY <1>1, EmptySeq, FramesAre DEF NodeInv
      <4> QED
        BY <4>1 DEF Stack
    <3>3. NodeLinked = Good \ {1}
      BY <1>1, <3>1, <3>2 DEF NodeLinked, NodeActive
    <3>4. PICK pos \in [DuPaths -> Nat] : Lists(NextOf, NodeFirst, NodeLinked, pos)
      BY DEF NodeInv
    <3>5. 1 \in U /\ \A q \in NodeLinked : q # 1 => (q \in U) = (up[q] \in U)
      <4>1. PICK nx, fs, L : nx = NextOf /\ fs = NodeFirst /\ L = NodeLinked
        OBVIOUS
      <4>2. Lists(nx, fs, L, pos)
        BY <3>4, <4>1
      <4>3. L \subseteq DOMAIN heap /\ 1 \in DuPaths /\ 1 \in DOMAIN heap
        BY <3>1, <3>3, <4>1
      <4>4. \A q \in L : heap[q].next = nx[q]
        BY <4>1, <4>3 DEF NextOf
      <4>5. \A q \in L \cup {1} : heap[q].contents = fs[q]
        BY <3>1, <4>1, <4>3 DEF NodeFirst
      <4> QED
        BY <3>1, <4>1, <4>2, <4>3, <4>4, <4>5, UnderOfList
    <3> HIDE DEF U
    <3>6. \A q \in Good \ U : up[q] \in Good \ U
      <4>1. \A q \in Good \ U : q # 1 /\ up[q] \in Good
        BY <3>5 DEF NodeInv, NodeHeap
      <4> QED
        BY <3>3, <3>5, <4>1
    <3>7. Good \ U = {}
      <4>1. Good \ U \in SUBSET Good /\ 1 \notin Good \ U
        BY <3>5
      <4> QED
        BY <3>6, <4>1, NodeRooted
    <3> QED
      BY <3>7
  <2> QED
    BY <2>1, <2>2
<1> QED
  BY <1>2, <1>3, <1>4 DEF Good

(* A step of burner.c or inconsistent.c.                                    *)
LEMMA NodeKept ==
  ASSUME TreeOK, Nodely, NodeInv, DuNext
  PROVE  IF duPc' = "freed" THEN DOMAIN heap' \subseteq Lost' ELSE duPc' # "crashed" /\ NodeInv'
<1>1. CASE BuildTree
  <2>1. /\ Untouched /\ duPc = "call"
        /\ \/ duVersion = "burner" /\ BurnerCall(ret)
           \/ duVersion = "inconsistent" /\ InconsistentCall(ret)
    BY <1>1 DEF BuildTree, Nodely
  <2>2. NodeInv'
    BY <2>1, BurnerKept, InconsistentKept
  <2> QED
    BY <2>2 DEF NodeInv, NodeAt
<1>2. CASE \E p \in DuPaths : ReadDir(p)
  <2>1. NodeInv'
    BY <1>2, NodeReads
  <2> QED
    BY <2>1 DEF NodeInv, NodeAt
<1>3. CASE CloseDir
  <2>1. NodeInv'
    BY <1>3, NodeCloses
  <2> QED
    BY <2>1 DEF NodeInv, NodeAt
<1>4. CASE LinkChild
  <2>1. NodeInv'
    BY <1>4, NodeLinks
  <2> QED
    BY <2>1 DEF NodeInv, NodeAt
<1>5. CASE SkipChild \/ Built
  <2>1. NodeInv'
    BY <1>5, NodeGoesOn
  <2> QED
    BY <2>1 DEF NodeInv, NodeAt
<1>6. CASE GiveUp
  <2>1. NodeInv'
    BY <1>6, NodeGivesUp
  <2> QED
    BY <2>1 DEF NodeInv, NodeAt
<1>7. CASE FreeTree
  <2>1. DOMAIN heap' \subseteq Lost' /\ duPc' = "freed"
    BY <1>7, NodeFreed DEF FreeTree
  <2> QED
    BY <2>1
<1>8. ~(duVersion = "friend")
  BY DEF Nodely
<1>9. /\ \A p \in DuPaths : ~FriendDescend(p) /\ ~FriendEntry(p)
      /\ ~FriendReturn
  BY <1>8 DEF FriendDescend, FriendEntry, FriendReturn
<1> QED
  BY <1>1, <1>2, <1>3, <1>4, <1>5, <1>6, <1>7, <1>9, Zenon DEF DuNext

(* What an invariant of friend_help.c says of the heap and of the call under *)
(* way.                                                                     *)
LEMMA FriendFacts ==
  ASSUME TreeOK, duVersion = "friend", FriendInv
  PROVE  /\ DOMAIN heap \subseteq DuPaths \ {1} /\ NULL \notin DOMAIN heap
         /\ FriendLinked \subseteq DOMAIN heap
         /\ \A q \in DOMAIN heap : heap[q] \in Nodes /\ kind[q] # "other" /\ Level(q) <= depth
         /\ \A q : q \in Wanted <=> q \in DuPaths \ {1} /\ Level(q) <= depth /\ kind[q] # "other"
         /\ Stack \subseteq DOMAIN heap \cup {1}
         /\ \A i \in 1..Len(frames) : frames[i].path \in Stack
         /\ frames # <<>> => /\ Top \in Frames /\ Top.path \in Stack /\ Len(frames) \in 1..Len(frames)
                             /\ Top.todo \subseteq Kids(Top.path) /\ Top.todo \cap DOMAIN heap = {}
                             /\ Top.depth \in Nat /\ Top.depth >= 1
                             /\ Top.depth + Level(Top.path) = depth
<1>1. \A q : q \in Wanted <=> q \in DuPaths \ {1} /\ Level(q) <= depth /\ kind[q] # "other"
  BY DEF Wanted, Within
<1>2. DOMAIN heap \subseteq DuPaths \ {1}
  BY <1>1 DEF FriendInv, FriendHeap
<1>3. frames # <<>> => /\ Top \in Frames /\ Top.path \in Stack /\ Len(frames) \in 1..Len(frames)
                       /\ Top.todo \subseteq Kids(Top.path) /\ Top.todo \cap DOMAIN heap = {}
                       /\ Top.depth \in Nat /\ Top.depth >= 1
                       /\ Top.depth + Level(Top.path) = depth
  BY FramesAre DEF FriendInv, FriendHeap, FramesOK, Top, Stack, Frames
<1> QED
  BY <1>1, <1>2, <1>3, PathsAre DEF FriendInv, FriendHeap, FriendLinked, Stack

(* Lists that stay as they are.                                             *)
LEMMA FriendListsKept ==
  ASSUME TreeOK, Untouched, FriendLinked' = FriendLinked, FriendLinked \subseteq DOMAIN heap,
         \A q \in FriendLinked :
           /\ q \in DOMAIN heap'
           /\ heap'[q].next = heap[q].next /\ heap'[q].contents = heap[q].contents,
         NEW first \in [DuPaths -> Pointers], NEW pos \in [DuPaths -> Nat],
         FriendFirst(first), Lists(NextOf, first, FriendLinked, pos),
         \A i \in 1..Len(frames') : first[frames'[i].path] = frames'[i].head,
         duPc' = "return" => \A p \in FriendActive' : first[p] = ret',
         duPc' = "built" => first[1] = ret'
  PROVE  \E f \in [DuPaths' -> Pointers'] : \E o \in [DuPaths' -> Nat] :
           FriendFirst(f)' /\ Lists(NextOf, f, FriendLinked, o)'
<1>1. up' = up /\ DuPaths' = DuPaths /\ Pointers' = Pointers
  BY TreeKept
<1>2. PICK nx, L : nx = NextOf' /\ L = FriendLinked
  OBVIOUS
<1>3. Lists(nx, first, L, pos)
  <2>1. \A q \in L : nx[q] = NextOf[q]
    BY <1>2 DEF NextOf
  <2>2. PICK n1 : n1 = NextOf
    OBVIOUS
  <2>3. Lists(n1, first, L, pos) /\ \A q \in L : nx[q] = n1[q]
    BY <1>2, <2>1, <2>2
  <2> QED
    BY <2>3 DEF Lists
<1>4. Lists(NextOf, first, FriendLinked, pos)'
  BY <1>1, <1>2, <1>3 DEF Lists
<1>5. FriendFirst(first)'
  BY DEF FriendFirst
<1> QED
  BY <1>1, <1>4, <1>5

(* A node with one of its pointers set.                                     *)
LEMMA LinkedIs ==
  ASSUME NEW h, NEW D, h \in [D -> Nodes], NEW p \in D, NEW q \in Pointers
  PROVE  /\ Linked(h, p, "next", q) \in [D -> Nodes]
         /\ \A r \in D : r # p => Linked(h, p, "next", q)[r] = h[r]
         /\ Linked(h, p, "next", q)[p].type = h[p].type
         /\ Linked(h, p, "next", q)[p].size = h[p].size
         /\ Linked(h, p, "next", q)[p].next = q
         /\ Linked(h, p, "next", q)[p].contents = h[p].contents
         /\ Linked(h, p, "contents", q) \in [D -> Nodes]
         /\ \A r \in D : r # p => Linked(h, p, "contents", q)[r] = h[r]
         /\ Linked(h, p, "contents", q)[p].type = h[p].type
         /\ Linked(h, p, "contents", q)[p].size = h[p].size
         /\ Linked(h, p, "contents", q)[p].next = h[p].next
         /\ Linked(h, p, "contents", q)[p].contents = q
<1>1. h[p] \in Nodes
  OBVIOUS
<1> DEFINE n == [h[p] EXCEPT !["next"] = q]
           c == [h[p] EXCEPT !["contents"] = q]
<1>2. n \in Nodes /\ n.type = h[p].type /\ n.size = h[p].size /\ n.next = q /\ n.contents = h[p].contents
  BY <1>1 DEF Nodes
<1>3. c \in Nodes /\ c.type = h[p].type /\ c.size = h[p].size /\ c.next = h[p].next /\ c.contents = q
  BY <1>1 DEF Nodes
<1>4. /\ Linked(h, p, "next", q) = [h EXCEPT ![p] = n]
      /\ Linked(h, p, "contents", q) = [h EXCEPT ![p] = c]
  BY DEF Linked
<1> HIDE DEF n, c
<1> QED
  BY <1>2, <1>3, <1>4

(* build_tree of friend_help.c returns nothing.                             *)
LEMMA FriendReturnsNull ==
  ASSUME TreeOK, duVersion = "friend", FriendInv, Untouched, duPc = "call",
         Returns(NULL), UNCHANGED heap, ArgDepth = 0 \/ kind[ret] # "dir"
  PROVE  FriendInv'
<1>1. /\ frames' = frames /\ duPc' = "return" /\ ret' = NULL /\ heap' = heap
      /\ ret \in FriendActive /\ \A q \in DOMAIN heap : up[q] # ret
      /\ FramesOK
  BY DEF FriendInv, FriendAt, Returns
<1>2. /\ TreeOK' /\ DuPaths' = DuPaths /\ \A q : Kids(q)' = Kids(q) /\ Level(q)' = Level(q)
      /\ Wanted' = Wanted /\ Expected' = Expected /\ Lost' = Lost
      /\ kind' = kind /\ up' = up /\ depth' = depth /\ duVersion' = duVersion
      /\ Pointers' = Pointers /\ Nodes' = Nodes
  BY TreeKept
<1>3. /\ DOMAIN heap \subseteq DuPaths \ {1} /\ FriendLinked \subseteq DOMAIN heap
      /\ \A q : q \in Wanted <=> q \in DuPaths \ {1} /\ Level(q) <= depth /\ kind[q] # "other"
      /\ frames # <<>> => Top.todo \cap DOMAIN heap = {}
  BY FriendFacts
<1>4. /\ FriendActive = {ret}
      /\ frames = <<>> => ret = 1
      /\ frames # <<>> => ret = Top.sub /\ ret \in Kids(Top.path) \ Top.todo
  BY <1>1, <1>3 DEF FriendActive, FriendInv, FriendAt
<1>5. FriendActive' = FriendActive /\ Stack' = Stack /\ FriendLinked' = FriendLinked
  <2>1. FriendActive' = FriendActive /\ Stack' = Stack
    BY <1>1 DEF FriendActive, Stack, Top
  <2> QED
    BY <1>1, <2>1 DEF FriendLinked
<1>6. /\ ArgDepth \in Nat /\ Level(ret) \in Nat /\ ArgDepth + Level(ret) = depth
      /\ \A q \in Kids(ret) : Level(q) = Level(ret) + 1 /\ kind[ret] = "dir"
      /\ ret \in DuPaths
  BY <1>1, <1>4, ArgIs
<1>7. \A q \in Kids(ret) : q \notin Wanted
  BY <1>3, <1>6
<1>8. \E f \in [DuPaths' -> Pointers'] : \E o \in [DuPaths' -> Nat] :
        FriendFirst(f)' /\ Lists(NextOf, f, FriendLinked, o)'
  <2>1. PICK first \in [DuPaths -> Pointers], pos \in [DuPaths -> Nat] :
          FriendFirst(first) /\ Lists(NextOf, first, FriendLinked, pos)
    BY DEF FriendInv
  <2>2. first[ret] = NULL
    BY <1>1, <1>3, <1>6, <2>1 DEF Lists
  <2>3. \A i \in 1..Len(frames') : first[frames'[i].path] = frames'[i].head
    BY <1>1, <2>1 DEF FriendFirst
  <2>4. duPc' = "return" => \A p \in FriendActive' : first[p] = ret'
    BY <1>1, <1>4, <1>5, <2>2
  <2> QED
    BY <1>1, <1>3, <1>5, <2>1, <2>3, <2>4, FriendListsKept
<1>9. FramesOK'
  BY <1>1, <1>2 DEF FramesOK
<1>10. FriendHeap'
  BY <1>1, <1>2, <1>5 DEF FriendHeap, FriendInv
<1>11. FriendComplete'
  <2>1. \A q \in DOMAIN heap \cup {1} : \A r \in Wanted \cap Kids(q) :
          r \in DOMAIN heap \/ \E i \in 1..Len(frames) : frames[i].path = q /\ r \in frames[i].todo
    BY <1>4, <1>7 DEF FriendComplete, FriendInv
  <2> QED
    BY <1>1, <1>2, <2>1 DEF FriendComplete
<1>12. FriendPrev'
  BY <1>1, <1>2, <1>5 DEF FriendPrev, FriendInv
<1>13. FriendAt'
  <2>1. Top' = Top
    BY <1>1 DEF Top
  <2>2. NULL \in Pointers'
    BY DEF Pointers
  <2> QED
    BY <1>1, <1>2, <1>5, <2>1, <2>2 DEF FriendAt, FriendInv, Kids
<1> QED
  BY <1>8, <1>9, <1>10, <1>11, <1>12, <1>13 DEF FriendInv

(* build_tree of friend_help.c opens the directory.                         *)
LEMMA FriendOpens ==
  ASSUME TreeOK, duVersion = "friend", FriendInv, Untouched, duPc = "call",
         Opens(ret), UNCHANGED heap, ArgDepth # 0, kind[ret] = "dir"
  PROVE  FriendInv'
<1> DEFINE t == Frame(ret, ArgDepth)
           n == Len(frames)
<1>1. /\ frames' = Append(frames, t) /\ duPc' = "loop" /\ ret' = ret /\ heap' = heap
      /\ ret \in FriendActive /\ \A q \in DOMAIN heap : up[q] # ret
      /\ FramesOK
  BY DEF FriendInv, FriendAt, Opens
<1>2. /\ TreeOK' /\ DuPaths' = DuPaths /\ \A q : Kids(q)' = Kids(q) /\ Level(q)' = Level(q)
      /\ Wanted' = Wanted /\ Expected' = Expected /\ Lost' = Lost
      /\ kind' = kind /\ up' = up /\ depth' = depth /\ duVersion' = duVersion
      /\ Pointers' = Pointers /\ Nodes' = Nodes
  BY TreeKept
<1>3. /\ DOMAIN heap \subseteq DuPaths \ {1} /\ FriendLinked \subseteq DOMAIN heap
      /\ frames # <<>> => Top.todo \cap DOMAIN heap = {}
      /\ Stack \subseteq DOMAIN heap \cup {1}
  BY FriendFacts
<1>4. /\ FriendActive = {ret} /\ ret \in DOMAIN heap \cup {1}
      /\ frames = <<>> => ret = 1
      /\ frames # <<>> => ret = Top.sub /\ ret \in Kids(Top.path) \ Top.todo
  BY <1>1, <1>3 DEF FriendActive, FriendInv, FriendAt
<1>5. /\ ArgDepth \in Nat /\ Level(ret) \in Nat /\ ArgDepth + Level(ret) = depth /\ ret \in DuPaths
  BY <1>1, <1>4, ArgIs
<1>6. /\ FramesOK' /\ Stack' = Stack \cup {ret} /\ ret \notin Stack
      /\ Len(frames') = n + 1 /\ frames' # <<>>
      /\ \A i \in 1..n : frames'[i] = frames[i]
      /\ frames'[n + 1] = t
  BY <1>1, <1>4, <1>5, TopPushed
<1>7. t.path = ret /\ t.todo = Kids(ret) /\ t.head = NULL /\ t.prev = NULL
  BY DEF Frame
<1> HIDE DEF t
<1>8. n \in Nat /\ n + 1 \in 1..(n + 1) /\ \A i \in 1..(n + 1) : i = n + 1 \/ i \in 1..n
  BY <1>1, FramesAre
<1>9. FriendActive' = {} /\ FriendLinked' = FriendLinked
  <2>1. FriendActive' = {}
    BY <1>1 DEF FriendActive
  <2> QED
    BY <1>1, <1>4, <1>6, <2>1 DEF FriendLinked
<1>10. \E f \in [DuPaths' -> Pointers'] : \E o \in [DuPaths' -> Nat] :
        FriendFirst(f)' /\ Lists(NextOf, f, FriendLinked, o)'
  <2>1. PICK first \in [DuPaths -> Pointers], pos \in [DuPaths -> Nat] :
          FriendFirst(first) /\ Lists(NextOf, first, FriendLinked, pos)
    BY DEF FriendInv
  <2>2. first[ret] = NULL
    BY <1>1, <1>3, <1>5, <2>1 DEF Lists
  <2>3. \A i \in 1..Len(frames') : first[frames'[i].path] = frames'[i].head
    BY <1>6, <1>7, <1>8, <2>1, <2>2 DEF FriendFirst
  <2> QED
    BY <1>1, <1>3, <1>9, <2>1, <2>3, FriendListsKept
<1>11. FriendHeap'
  <2>1. Kids(ret) \cap DOMAIN heap = {}
    BY <1>1 DEF Kids
  <2>2. \A i \in 1..Len(frames') : frames'[i].todo \cap DOMAIN heap = {}
    BY <1>6, <1>7, <1>8, <2>1 DEF FriendHeap, FriendInv
  <2>3. Stack' \subseteq DOMAIN heap \cup {1}
    BY <1>3, <1>4, <1>6
  <2> QED
    BY <1>1, <1>2, <1>9, <2>2, <2>3 DEF FriendHeap, FriendInv
<1>12. FriendComplete'
  <2>1. ASSUME NEW q \in DOMAIN heap \cup {1}, NEW r \in Wanted \cap Kids(q), r \notin DOMAIN heap
        PROVE  \E i \in 1..Len(frames') : frames'[i].path = q /\ r \in frames'[i].todo
    <3>1. CASE q = ret
      BY <1>6, <1>7, <1>8, <2>1, <3>1
    <3>2. CASE q # ret
      <4>1. PICK i \in 1..n : frames[i].path = q /\ r \in frames[i].todo
        BY <1>4, <2>1, <3>2 DEF FriendComplete, FriendInv
      <4>2. i \in 1..Len(frames')
        BY <1>6, <1>8
      <4> QED
        BY <1>6, <4>1, <4>2
    <3> QED
      BY <3>1, <3>2
  <2>2. \A q \in DOMAIN heap \cup {1} : \A r \in Wanted \cap Kids(q) :
          r \in DOMAIN heap \/ \E i \in 1..Len(frames') : frames'[i].path = q /\ r \in frames'[i].todo
    BY <2>1
  <2> QED
    BY <1>1, <1>2, <2>2 DEF FriendComplete
<1>13. FriendPrev'
  <2>1. FriendPrev
    BY DEF FriendInv
  <2>2. ASSUME NEW i \in 1..(n + 1)
        PROVE  /\ frames'[i].prev # NULL =>
                    /\ frames'[i].head # NULL
                    /\ frames'[i].prev \in FriendLinked /\ up[frames'[i].prev] = frames'[i].path
                    /\ heap[frames'[i].prev].next = NULL
               /\ frames'[i].head # NULL /\ frames'[i].prev = NULL =>
                    \E q \in Kids(frames'[i].path) \ frames'[i].todo : kind[q] = "other"
    <3>1. CASE i = n + 1
      BY <1>6, <1>7, <3>1
    <3>2. CASE i \in 1..n
      <4>1. frames'[i] = frames[i]
        BY <1>6, <3>2
      <4> QED
        BY <2>1, <3>2, <4>1 DEF FriendPrev
    <3> QED
      BY <1>8, <3>1, <3>2
  <2> QED
    BY <1>1, <1>2, <1>6, <1>9, <2>2 DEF FriendPrev
<1>14. FriendAt'
  <2>1. ASSUME NEW i \in 1..(n + 1), i > 1
        PROVE  frames'[i - 1].sub = frames'[i].path
    <3>1. i - 1 \in 1..n
      BY <1>8, <2>1
    <3>2. CASE i = n + 1
      <4>1. i - 1 = n
        BY <1>8, <3>2
      <4>2. frames # <<>>
        BY <1>8, <3>1, <4>1
      <4> QED
        BY <1>4, <1>6, <1>7, <3>1, <3>2, <4>1, <4>2 DEF Top
    <3>3. CASE i \in 1..n
      BY <1>6, <2>1, <3>1, <3>3 DEF FriendAt, FriendInv
    <3> QED
      BY <1>8, <3>2, <3>3
  <2> QED
    BY <1>1, <1>6, <2>1 DEF FriendAt
<1> QED
  BY <1>6, <1>10, <1>11, <1>12, <1>13, <1>14 DEF FriendInv

(* friend_help.c makes the node of a directory and goes down.               *)
LEMMA FriendDescends ==
  ASSUME TreeOK, FriendInv, NEW p \in DuPaths, FriendDescend(p)
  PROVE  FriendInv'
<1> DEFINE t == [Top EXCEPT !.todo = @ \ {p}, !.sub = p]
           n == Len(frames)
           node == Node("Directory", 0)
<1>1. /\ duVersion = "friend" /\ duPc = "loop" /\ duPc' = "call" /\ p \in Top.todo /\ ret' = p
      /\ Untouched /\ kind[p] \in {"dir", "closed"}
      /\ frames' = [frames EXCEPT ![n].todo = @ \ {p}, ![n].sub = p]
      /\ heap' = With(heap, p, node)
      /\ frames # <<>> /\ FramesOK
  BY DEF FriendDescend, FriendInv, FriendAt
<1>2. /\ TreeOK' /\ DuPaths' = DuPaths /\ \A q : Kids(q)' = Kids(q) /\ Level(q)' = Level(q)
      /\ Wanted' = Wanted /\ Expected' = Expected /\ Lost' = Lost
      /\ kind' = kind /\ up' = up /\ depth' = depth /\ duVersion' = duVersion
      /\ Pointers' = Pointers /\ Nodes' = Nodes
  BY <1>1, TreeKept
<1>3. /\ DOMAIN heap \subseteq DuPaths \ {1} /\ FriendLinked \subseteq DOMAIN heap
      /\ \A q \in DOMAIN heap : heap[q] \in Nodes
      /\ \A q : q \in Wanted <=> q \in DuPaths \ {1} /\ Level(q) <= depth /\ kind[q] # "other"
      /\ Stack \subseteq DOMAIN heap \cup {1}
      /\ Top \in Frames /\ Top.path \in Stack /\ n \in 1..n
      /\ Top.todo \subseteq Kids(Top.path) /\ Top.todo \cap DOMAIN heap = {}
      /\ Top.depth \in Nat /\ Top.depth >= 1 /\ Top.depth + Level(Top.path) = depth
  BY <1>1, FriendFacts
<1>4. /\ p \in DuPaths \ {1} /\ up[p] = Top.path /\ p \notin DOMAIN heap /\ p \notin Stack
      /\ up[p] # p
  BY <1>1, <1>3, PathsAre DEF Kids
<1>5. t \in Frames /\ t.path = Top.path /\ t.depth = Top.depth /\ t.todo = Top.todo \ {p}
      /\ t.prev = Top.prev /\ t.head = Top.head /\ t.sub = p
  BY <1>3, <1>4 DEF Frames, Pointers
<1>6. frames' = [frames EXCEPT ![n] = t]
  BY <1>1, <1>3, FramesAre DEF Top
<1> HIDE DEF t
<1>7. /\ FramesOK' /\ Stack' = Stack /\ Len(frames') = n /\ frames' # <<>> /\ Top' = t
      /\ \A i \in 1..n :
           /\ i # n => frames'[i] = frames[i]
           /\ frames'[i].path = frames[i].path /\ frames'[i].todo \subseteq frames[i].todo
  BY <1>1, <1>5, <1>6, TopChanged
<1>8. /\ frames'[n] = t /\ frames[n] = Top
      /\ \A i \in 1..n : frames'[i].head = frames[i].head /\ frames'[i].prev = frames[i].prev
  BY <1>3, <1>5, <1>7 DEF Top
<1>9. node \in Nodes /\ node.type = "Directory" /\ node.next = NULL /\ node.contents = NULL
  BY DEF Node, Nodes, Pointers
<1> HIDE DEF node
<1>10. /\ DOMAIN heap' = DOMAIN heap \cup {p} /\ heap'[p] = node
       /\ \A q \in DOMAIN heap : heap'[q] = heap[q]
       /\ heap' \in [DOMAIN heap \cup {p} -> Nodes]
  <2>1. heap' = [q \in DOMAIN heap \cup {p} |-> IF q = p THEN node ELSE heap[q]]
    BY <1>1 DEF With
  <2> QED
    BY <1>3, <1>4, <1>9, <2>1
<1>11. FriendActive' = {p} /\ FriendActive = {} /\ FriendLinked' = FriendLinked
  <2>1. FriendActive' = {p} /\ FriendActive = {}
    BY <1>1, <1>5, <1>7 DEF FriendActive
  <2> QED
    BY <1>4, <1>7, <1>10, <2>1 DEF FriendLinked
<1>12. p \in Wanted
  <2>1. Level(p) = 1 + Level(Top.path) /\ Level(Top.path) \in Nat
    BY <1>3, <1>4, LevelIs DEF Frames
  <2>2. Level(p) <= depth
    BY <1>3, <2>1
  <2> QED
    BY <1>1, <1>3, <1>4, <2>2
<1>13. \E f \in [DuPaths' -> Pointers'] : \E o \in [DuPaths' -> Nat] :
        FriendFirst(f)' /\ Lists(NextOf, f, FriendLinked, o)'
  <2>1. PICK first \in [DuPaths -> Pointers], pos \in [DuPaths -> Nat] :
          FriendFirst(first) /\ Lists(NextOf, first, FriendLinked, pos)
    BY DEF FriendInv
  <2>2. \A i \in 1..Len(frames') : first[frames'[i].path] = frames'[i].head
    BY <1>7, <1>8, <2>1 DEF FriendFirst
  <2>3. \A q \in FriendLinked :
           /\ q \in DOMAIN heap'
           /\ heap'[q].next = heap[q].next /\ heap'[q].contents = heap[q].contents
    BY <1>3, <1>10
  <2> QED
    BY <1>1, <1>3, <1>11, <2>1, <2>2, <2>3, FriendListsKept
<1>14. FriendHeap'
  <2>1. \A i \in 1..n : p \notin frames'[i].todo
    <3>1. frames' # <<>> => p \in Kids(Top.path)' \ Top'.todo
      BY <1>2, <1>4, <1>5, <1>7 DEF Kids
    <3>2. ASSUME NEW i \in 1..n, i # n
          PROVE  p \notin frames[i].todo
      <4>1. frames[i].todo \subseteq Kids(frames[i].path) /\ frames[i].path < Top.path
        BY <1>1, <1>3, <1>8, <3>2 DEF FramesOK
      <4>2. frames[i].path \in Nat /\ Top.path \in Nat
        BY <1>1, <1>3, FramesAre, PathsAre DEF Frames
      <4> QED
        BY <1>4, <4>1, <4>2 DEF Kids
    <3> QED
      BY <1>5, <1>7, <1>8, <3>2
  <2>2. \A i \in 1..n : frames'[i].todo \cap DOMAIN heap' = {}
    BY <1>7, <1>10, <2>1 DEF FriendHeap, FriendInv
  <2>3. \A q \in DOMAIN heap' :
          /\ q \in Wanted /\ (up[q] # 1 => up[q] \in DOMAIN heap')
          /\ heap'[q].type = (IF kind[q] \in {"file", "gone"} THEN "File" ELSE "Directory")
          /\ kind[q] = "file" => heap'[q].size = FileSize(q)
          /\ q \notin FriendLinked => heap'[q].next = NULL
    <3>1. up[p] # 1 => up[p] \in DOMAIN heap
      BY <1>3, <1>4
    <3> QED
      BY <1>1, <1>9, <1>10, <1>12, <3>1 DEF FriendHeap, FriendInv
  <2>4. DOMAIN heap' \subseteq DuPaths
    BY <1>3, <1>10
  <2> QED
    BY <1>2, <1>3, <1>7, <1>10, <1>11, <2>2, <2>3, <2>4 DEF FriendHeap
<1>15. FriendComplete'
  <2>1. ASSUME NEW q \in DOMAIN heap' \cup {1}, NEW r \in Wanted \cap Kids(q), q # p, r # p,
               r \notin DOMAIN heap
        PROVE  \E i \in 1..n : frames'[i].path = q /\ r \in frames'[i].todo
    <3>1. PICK i \in 1..n : frames[i].path = q /\ r \in frames[i].todo
      BY <1>1, <1>10, <2>1 DEF FriendComplete, FriendInv
    <3>2. r \in frames'[i].todo
      BY <1>5, <1>7, <1>8, <2>1, <3>1
    <3> QED
      BY <1>7, <3>1, <3>2
  <2>2. \A q \in DOMAIN heap' \cup {1} : \A r \in Wanted \cap Kids(q) :
          \/ r \in DOMAIN heap' \/ q = p
          \/ \E i \in 1..n : frames'[i].path = q /\ r \in frames'[i].todo
    BY <1>10, <2>1
  <2> QED
    BY <1>1, <1>2, <1>7, <1>11, <2>2 DEF FriendComplete
<1>16. FriendPrev'
  <2>1. FriendPrev
    BY DEF FriendInv
  <2>2. ASSUME NEW i \in 1..n
        PROVE  /\ frames'[i].prev # NULL =>
                    /\ frames'[i].head # NULL
                    /\ frames'[i].prev \in FriendLinked /\ up[frames'[i].prev] = frames'[i].path
                    /\ heap'[frames'[i].prev].next = NULL
               /\ frames'[i].head # NULL /\ frames'[i].prev = NULL =>
                    \E q \in Kids(frames'[i].path) \ frames'[i].todo : kind[q] = "other"
    BY <1>3, <1>7, <1>8, <1>10, <2>1 DEF FriendPrev
  <2> QED
    BY <1>2, <1>7, <1>11, <2>2 DEF FriendPrev
<1>17. FriendAt'
  <2>1. \A q \in DOMAIN heap' : up[q] # p
    BY <1>3, <1>4, <1>10 DEF FriendInv, FriendHeap
  <2>2. Top'.sub = p /\ p \in Kids(Top.path)'
    BY <1>2, <1>4, <1>5, <1>7 DEF Kids
  <2>3. p \in DOMAIN heap' /\ p \notin Stack'
    BY <1>4, <1>7, <1>10
  <2>4. \A i \in 1..n : i > 1 => frames'[i - 1].sub = frames'[i].path
    <3>1. ASSUME NEW i \in 1..n, i > 1
          PROVE  frames'[i - 1].sub = frames'[i].path
      <4>1. i - 1 \in 1..n /\ i - 1 # n
        BY <1>3, <3>1
      <4> QED
        BY <1>7, <3>1, <4>1 DEF FriendAt, FriendInv
    <3> QED
      BY <3>1
  <2> QED
    BY <1>1, <1>2, <1>7, <1>11, <2>1, <2>2, <2>3, <2>4 DEF FriendAt
<1> QED
  BY <1>7, <1>13, <1>14, <1>15, <1>16, <1>17 DEF FriendInv

(* closedir, and the head of the list is returned.                          *)
LEMMA FriendCloses ==
  ASSUME TreeOK, duVersion = "friend", FriendInv, CloseDir
  PROVE  FriendInv'
<1> DEFINE n == Len(frames)
           m == n - 1
<1>1. /\ duPc = "loop" /\ duPc' = "return" /\ Top.todo = {} /\ ret' = Top.head /\ heap' = heap
      /\ Untouched /\ frames' = SubSeq(frames, 1, n - 1)
      /\ frames # <<>> /\ FramesOK
  BY DEF CloseDir, FriendInv, FriendAt
<1>2. /\ TreeOK' /\ DuPaths' = DuPaths /\ \A q : Kids(q)' = Kids(q) /\ Level(q)' = Level(q)
      /\ Wanted' = Wanted /\ Expected' = Expected /\ Lost' = Lost
      /\ kind' = kind /\ up' = up /\ depth' = depth /\ duVersion' = duVersion
      /\ Pointers' = Pointers /\ Nodes' = Nodes
  BY <1>1, TreeKept
<1>3. /\ DOMAIN heap \subseteq DuPaths \ {1} /\ FriendLinked \subseteq DOMAIN heap
      /\ Stack \subseteq DOMAIN heap \cup {1}
      /\ Top \in Frames /\ Top.path \in Stack /\ n \in 1..n
  BY <1>1, FriendFacts
<1>4. /\ FramesOK' /\ Stack = Stack' \cup {Top.path} /\ Top.path \notin Stack'
      /\ Len(frames') = m
      /\ \A i \in 1..m : i \in 1..n /\ frames'[i] = frames[i]
      /\ frames' = <<>> => Top.path = 1
      /\ frames' # <<>> => Top.path \in Kids(Top'.path) \ Top'.todo
  BY <1>1, TopPopped
<1>5. frames' # <<>> => m \in 1..m /\ n > 1 /\ n - 1 = m
  <2>1. m \in Nat
    BY <1>3
  <2>2. frames' # <<>> => m # 0
    BY <1>4, EmptySeq DEF FramesOK
  <2>3. m # 0 => m \in 1..m /\ n > 1
    <3>1. n \in Nat /\ m = n - 1
      BY <1>1, FramesAre
    <3> HIDE DEF m, n
    <3> QED
      BY <2>1, <3>1
  <2> QED
    BY <2>2, <2>3
<1>6. frames' # <<>> => Top' = frames[m] /\ frames[m].sub = Top.path /\ Top.path \in DOMAIN heap
  <2>1. frames' # <<>> => Top' = frames[m]
    <3> HIDE DEF m
    <3> QED
      BY <1>4, <1>5 DEF Top
  <2>2. frames' # <<>> => frames[m].sub = Top.path
    <3>1. \A i \in 1..n : i > 1 => frames[i - 1].sub = frames[i].path
      BY DEF FriendInv, FriendAt
    <3>2. frames' # <<>> => frames[n - 1].sub = frames[n].path
      BY <1>3, <1>5, <3>1
    <3> QED
      BY <3>2 DEF Top
  <2>3. frames' # <<>> => Top.path # 1
    BY <1>4 DEF Kids
  <2> QED
    BY <1>3, <2>1, <2>2, <2>3
<1>7. FriendActive' = {Top.path} /\ FriendActive = {} /\ FriendLinked' = FriendLinked
  <2>1. FriendActive' = {Top.path} /\ FriendActive = {}
    BY <1>1, <1>4, <1>6 DEF FriendActive
  <2> QED
    BY <1>1, <1>4, <2>1 DEF FriendLinked
<1> HIDE DEF m
<1>8. \E f \in [DuPaths' -> Pointers'] : \E o \in [DuPaths' -> Nat] :
        FriendFirst(f)' /\ Lists(NextOf, f, FriendLinked, o)'
  <2>1. PICK first \in [DuPaths -> Pointers], pos \in [DuPaths -> Nat] :
          FriendFirst(first) /\ Lists(NextOf, first, FriendLinked, pos)
    BY DEF FriendInv
  <2>2. \A i \in 1..Len(frames') : first[frames'[i].path] = frames'[i].head
    BY <1>4, <2>1 DEF FriendFirst
  <2>3. \A q \in FriendActive' : first[q] = ret'
    BY <1>1, <1>3, <1>7, <2>1 DEF FriendFirst, Top
  <2> QED
    BY <1>1, <1>3, <1>7, <2>1, <2>2, <2>3, FriendListsKept
<1>9. FriendHeap'
  <2>1. \A i \in 1..m : frames'[i].todo \cap DOMAIN heap' = {}
    BY <1>1, <1>4 DEF FriendHeap, FriendInv
  <2> QED
    BY <1>1, <1>2, <1>3, <1>4, <1>7, <2>1 DEF FriendHeap, FriendInv
<1>10. FriendComplete'
  <2>1. ASSUME NEW q \in DOMAIN heap \cup {1}, NEW r \in Wanted \cap Kids(q), r \notin DOMAIN heap
        PROVE  \E i \in 1..m : frames'[i].path = q /\ r \in frames'[i].todo
    <3>1. PICK i \in 1..n : frames[i].path = q /\ r \in frames[i].todo
      BY <1>1, <2>1 DEF FriendComplete, FriendInv
    <3>2. i # n
      BY <1>1, <3>1 DEF Top
    <3>3. i \in 1..m
      BY <1>3, <3>1, <3>2 DEF m
    <3> QED
      BY <1>4, <3>1, <3>3
  <2>2. \A q \in DOMAIN heap \cup {1} : \A r \in Wanted \cap Kids(q) :
          r \in DOMAIN heap \/ \E i \in 1..m : frames'[i].path = q /\ r \in frames'[i].todo
    BY <2>1
  <2> QED
    BY <1>1, <1>2, <1>4, <2>2 DEF FriendComplete
<1>11. FriendPrev'
  BY <1>1, <1>2, <1>4, <1>7 DEF FriendPrev, FriendInv
<1>12. FriendAt'
  <2>1. ret' \in Pointers'
    BY <1>1, <1>2, <1>3 DEF Frames
  <2>2. frames' # <<>> => Top'.sub = Top.path /\ Top.path \in Kids(Top.path)'
    <3>1. frames' # <<>> => Top.path \in DuPaths \ {1} /\ up[Top.path] = Top'.path
      BY <1>4 DEF Kids
    <3> QED
      BY <1>2, <1>6, <3>1 DEF Kids
  <2>3. frames' # <<>> => Top.path \in DOMAIN heap' /\ Top.path \notin Stack'
    BY <1>1, <1>4, <1>6
  <2>4. \A i \in 1..m : i > 1 => frames'[i - 1].sub = frames'[i].path
    <3>1. ASSUME NEW i \in 1..m, i > 1
          PROVE  frames'[i - 1].sub = frames'[i].path
      <4>1. i - 1 \in 1..m /\ i \in 1..n
        BY <1>4, <3>1
      <4> QED
        BY <1>4, <3>1, <4>1 DEF FriendAt, FriendInv
    <3> QED
      BY <3>1
  <2> QED
    BY <1>1, <1>4, <2>1, <2>2, <2>3, <2>4 DEF FriendAt
<1> QED
  BY <1>4, <1>8, <1>9, <1>10, <1>11, <1>12 DEF FriendInv

(* The first call has returned.                                             *)
LEMMA FriendBuilt ==
  ASSUME TreeOK, duVersion = "friend", FriendInv, Built
  PROVE  FriendInv'
<1>1. /\ duPc = "return" /\ duPc' = "built" /\ UNCHANGED <<frames, heap, ret>> /\ Untouched
      /\ frames = <<>>
  BY DEF Built
<1>2. /\ TreeOK' /\ DuPaths' = DuPaths /\ \A q : Kids(q)' = Kids(q) /\ Level(q)' = Level(q)
      /\ Wanted' = Wanted /\ Expected' = Expected /\ Lost' = Lost
      /\ kind' = kind /\ up' = up /\ depth' = depth /\ duVersion' = duVersion
      /\ Pointers' = Pointers /\ Nodes' = Nodes
  BY <1>1, TreeKept
<1>3. DOMAIN heap \subseteq DuPaths \ {1} /\ FriendLinked \subseteq DOMAIN heap
  BY FriendFacts
<1>4. FriendActive = {1} /\ FriendActive' = {} /\ Stack' = Stack /\ FriendLinked' = FriendLinked
  <2>1. FriendActive = {1} /\ FriendActive' = {} /\ Stack' = Stack
    BY <1>1 DEF FriendActive, Stack
  <2> QED
    BY <1>1, <1>3, <2>1 DEF FriendLinked
<1>5. \E f \in [DuPaths' -> Pointers'] : \E o \in [DuPaths' -> Nat] :
        FriendFirst(f)' /\ Lists(NextOf, f, FriendLinked, o)'
  <2>1. PICK first \in [DuPaths -> Pointers], pos \in [DuPaths -> Nat] :
          FriendFirst(first) /\ Lists(NextOf, first, FriendLinked, pos)
    BY DEF FriendInv
  <2>2. /\ \A i \in 1..Len(frames') : first[frames'[i].path] = frames'[i].head
        /\ first[1] = ret'
    BY <1>1, <1>4, <2>1 DEF FriendFirst
  <2> QED
    BY <1>1, <1>3, <1>4, <2>1, <2>2, FriendListsKept
<1>6. FramesOK'
  BY <1>1, <1>2 DEF FramesOK, FriendInv
<1>7. FriendHeap' /\ FriendPrev'
  BY <1>1, <1>2, <1>4 DEF FriendHeap, FriendPrev, FriendInv
<1>8. FriendComplete'
  BY <1>1, <1>2, <1>4 DEF FriendComplete, FriendInv
<1>9. FriendAt'
  BY <1>1, <1>2 DEF FriendAt, FriendInv
<1> QED
  BY <1>5, <1>6, <1>7, <1>8, <1>9 DEF FriendInv

(* free_tree of friend_help.c frees all nodes.                              *)
LEMMA FriendFreed ==
  ASSUME TreeOK, duVersion = "friend", FriendInv, FreeTree
  PROVE  DOMAIN heap' = {}
<1> DEFINE U == UNION {Under(heap, q) : q \in Chain(heap, ret)}
<1>1. duPc = "built" /\ frames = <<>> /\ heap' = Without(heap, U) /\ FramesOK
  BY DEF FreeTree, Freed, FriendInv, FriendAt
<1>2. DOMAIN heap \subseteq DuPaths \ {1} /\ FriendLinked = DOMAIN heap
  <2>1. Len(frames) = 0
    BY <1>1, EmptySeq, FramesAre
  <2>2. Stack = {} /\ FriendActive = {}
    BY <1>1, <2>1 DEF Stack, FriendActive
  <2> QED
    BY <2>2, FriendFacts DEF FriendLinked
<1>3. PICK first \in [DuPaths -> Pointers], pos \in [DuPaths -> Nat] :
        FriendFirst(first) /\ Lists(NextOf, first, FriendLinked, pos)
  BY DEF FriendInv
<1>4. first[1] = ret /\ \A q \in DOMAIN heap : first[q] = heap[q].contents
  BY <1>1, <1>2, <1>3 DEF FriendFirst
<1>5. \A p \in DuPaths : Chain(heap, first[p]) = {q \in DOMAIN heap : up[q] = p}
  <2>1. PICK nx, L : nx = NextOf /\ L = DOMAIN heap
    OBVIOUS
  <2>2. Lists(nx, first, L, pos) /\ \A q \in L : heap[q].next = nx[q]
    BY <1>2, <1>3, <2>1 DEF NextOf
  <2> QED
    BY <2>1, <2>2, ChainOfList
<1>6. ASSUME DOMAIN heap \ U # {}
      PROVE  FALSE
  <2>1. PICK q \in DOMAIN heap \ U : \A r \in DOMAIN heap \ U : q <= r
    <3>1. DOMAIN heap \ U \subseteq DuPaths
      BY <1>2
    <3> HIDE DEF U
    <3> QED
      BY <1>6, <3>1, FirstPath
  <2>2. q \in DuPaths \ {1} /\ q # NULL /\ up[q] \in DuPaths /\ up[q] < q /\ q \in Nat /\ up[q] \in Nat
    BY <1>2, PathsAre
  <2>3. CASE up[q] = 1
    <3>1. q \in Chain(heap, ret)
      BY <1>4, <1>5, <2>2, <2>3
    <3>2. q \in Under(heap, q)
      BY <2>2, UnderIs
    <3> QED
      BY <3>1, <3>2
  <2>4. CASE up[q] # 1
    <3>1. up[q] \in DOMAIN heap
      BY <2>4 DEF FriendInv, FriendHeap
    <3>2. up[q] \in U
      <4> HIDE DEF U
      <4> QED
        BY <2>1, <2>2, <3>1
    <3>3. PICK r \in Chain(heap, ret) : up[q] \in Under(heap, r)
      BY <3>2
    <3>4. q \in Chain(heap, heap[up[q]].contents)
      BY <1>4, <1>5, <2>2, <3>1
    <3>5. q \in Under(heap, r)
      BY <3>3, <3>4, UnderIs
    <3> QED
      BY <3>5
  <2> QED
    BY <2>3, <2>4
<1> QED
  BY <1>1, <1>6 DEF Without

(* Three entries of a directory.                                            *)
LEMMA ThreeKids ==
  ASSUME TreeOK, NEW d, NEW a \in Kids(d), NEW b \in Kids(d), NEW c \in Kids(d),
         a # b, a # c, b # c
  PROVE  Cardinality(Kids(d)) >= 3
<1>1. IsFiniteSet(Kids(d))
  <2>1. PICK n \in 1..MaxPaths : DuPaths = 1..n
    BY PathsAre
  <2>2. 1 \in Int /\ n \in Int
    BY DuAssumption
  <2>3. IsFiniteSet(1..n)
    BY <2>2, FS_Interval
  <2>4. Kids(d) \in SUBSET (1..n)
    BY <2>1 DEF Kids
  <2> QED
    BY <2>3, <2>4, FS_Subset
<1>2. IsFiniteSet({a}) /\ Cardinality({a}) = 1
  BY FS_Singleton
<1>3. IsFiniteSet({a} \cup {b}) /\ Cardinality({a} \cup {b}) = 2
  <2>1. b \notin {a}
    OBVIOUS
  <2> QED
    BY <1>2, <2>1, FS_AddElement
<1>4. Cardinality(({a} \cup {b}) \cup {c}) = 3
  <2>1. c \notin {a} \cup {b}
    OBVIOUS
  <2> QED
    BY <1>3, <2>1, FS_AddElement
<1>5. Cardinality(({a} \cup {b}) \cup {c}) <= Cardinality(Kids(d))
  <2>1. ({a} \cup {b}) \cup {c} \in SUBSET Kids(d)
    OBVIOUS
  <2> QED
    BY <1>1, <2>1, FS_Subset
<1>6. Cardinality(Kids(d)) \in Nat
  BY <1>1, FS_CardinalityType
<1> QED
  BY <1>4, <1>5, <1>6

(* friend_help.c crashes: there is a node in the list, an entry that is       *)
(* neither file nor directory, and the one at hand.                         *)
LEMMA FriendCrashes ==
  ASSUME TreeOK, duVersion = "friend", FriendInv, Untouched, frames # <<>>,
         Top.head # NULL, Top.prev = NULL,
         NEW x \in Kids(Top.path), x \notin FriendLinked,
         x \in Top.todo \/ kind[x] # "other"
  PROVE  Crash'
<1>1. /\ \A q \in DOMAIN heap : kind[q] # "other"
      /\ FriendLinked \subseteq DOMAIN heap
      /\ Top.todo \cap DOMAIN heap = {} /\ Len(frames) \in 1..Len(frames)
      /\ Top.path \in DuPaths
  BY FriendFacts DEF Frames
<1>2. PICK q \in Kids(Top.path) \ Top.todo : kind[q] = "other"
  BY <1>1 DEF FriendInv, FriendPrev, Top
<1>3. PICK first, pos : FriendFirst(first) /\ Lists(NextOf, first, FriendLinked, pos)
  BY DEF FriendInv
<1>4. first[Top.path] = Top.head
  BY <1>1, <1>3 DEF FriendFirst, Top
<1>5. Top.head \in FriendLinked /\ up[Top.head] = Top.path /\ Top.head \in DuPaths \ {1}
  BY <1>1, <1>3, <1>4 DEF Lists
<1>6. Top.head \in Kids(Top.path)
  BY <1>5 DEF Kids
<1>7. q # Top.head /\ q # x /\ x # Top.head
  BY <1>1, <1>2, <1>5
<1>8. Cardinality(Kids(Top.path)) >= 3
  BY <1>2, <1>6, <1>7, ThreeKids
<1>9. q \in DuPaths \ {1} /\ up[q] = Top.path
  BY <1>2 DEF Kids
<1>11. DuPaths' = DuPaths /\ kind' = kind /\ up' = up /\ duVersion' = duVersion
       /\ \A p : Kids(p)' = Kids(p)
  BY TreeKept
<1>12. (kind[q] = "other" /\ Cardinality(Kids(up[q])) >= 3)'
  BY <1>2, <1>8, <1>9, <1>11 DEF Kids
<1> QED
  BY <1>9, <1>11, <1>12 DEF Crash

\* What putting x behind prev makes of the lists in L.
ListGrows(next, first, L, x, prev, next2, first2) ==
  /\ x \notin L /\ next2[x] = NULL
  /\ \A q \in L : q # prev => next2[q] = next[q]
  /\ \A p \in DuPaths : p # up[x] \/ prev # NULL => first2[p] = first[p]
  /\ prev = NULL => first[up[x]] = NULL /\ first2[up[x]] = x
  /\ prev # NULL => prev \in L /\ up[prev] = up[x] /\ next[prev] = NULL /\ next2[prev] = x

(* A list that has one more node is a list.                                 *)
LEMMA ListGrown ==
  ASSUME TreeOK, NEW next, NEW first, NEW L, NEW pos \in [DuPaths -> Nat],
         Lists(next, first, L, pos), NEW x \in DuPaths \ {1}, NEW prev, NEW next2, NEW first2,
         ListGrows(next, first, L, x, prev, next2, first2)
  PROVE  \E o \in [DuPaths -> Nat] : Lists(next2, first2, L \cup {x}, o)
  BY ListAppended DEF ListGrows

\* The node x, which h has with all others, is in no list yet.
Added(x, h, first, pos) ==
  /\ up[x] = Top.path /\ x \in Wanted /\ x \notin FriendLinked /\ x \notin Stack
  /\ FriendActive \subseteq {x} /\ duPc \in {"loop", "return"}
  /\ h \in [DOMAIN heap \cup {x} -> Nodes] /\ \A q \in DOMAIN heap : q # x => h[q] = heap[q]
  /\ h[x].type = (IF kind[x] \in {"file", "gone"} THEN "File" ELSE "Directory")
  /\ kind[x] = "file" => h[x].size = FileSize(x)
  /\ h[x].next = NULL /\ h[x].contents = first[x]
  /\ FriendFirst(first) /\ Lists(NextOf, first, FriendLinked, pos)
  /\ \A r \in Wanted \cap Kids(x) : r \in DOMAIN heap

\* It is put behind the last in the list of the running call.
Appends(x, h) ==
  /\ duPc' = "loop" /\ (Top.head # NULL => Top.prev # NULL)
  /\ frames' = [frames EXCEPT ![Len(frames)] =
                  [Top EXCEPT !.todo = @ \ {x}, !.prev = x, !.head = IF @ = NULL THEN x ELSE @]]
  /\ heap' = IF Top.head = NULL THEN h ELSE Linked(h, Top.prev, "next", x)

(* A node becomes the last in the list of the running call.                 *)
LEMMA FriendAppended ==
  ASSUME TreeOK, duVersion = "friend", FriendInv, Untouched, frames # <<>>,
         NEW x \in DuPaths \ {1}, NEW h,
         NEW first \in [DuPaths -> Pointers], NEW pos \in [DuPaths -> Nat],
         Added(x, h, first, pos), Appends(x, h)
  PROVE  FriendInv'
<1> DEFINE n == Len(frames)
           t == [Top EXCEPT !.todo = @ \ {x}, !.prev = x, !.head = IF @ = NULL THEN x ELSE @]
           todo == Top.todo \ {x}
<1>0. /\ up[x] = Top.path /\ x \in Wanted /\ x \notin FriendLinked /\ x \notin Stack
      /\ FriendActive \subseteq {x} /\ duPc \in {"loop", "return"} /\ duPc' = "loop"
      /\ h \in [DOMAIN heap \cup {x} -> Nodes] /\ \A q \in DOMAIN heap : q # x => h[q] = heap[q]
      /\ h[x].type = (IF kind[x] \in {"file", "gone"} THEN "File" ELSE "Directory")
      /\ kind[x] = "file" => h[x].size = FileSize(x)
      /\ h[x].next = NULL /\ h[x].contents = first[x]
      /\ FriendFirst(first) /\ Lists(NextOf, first, FriendLinked, pos)
      /\ \A r \in Wanted \cap Kids(x) : r \in DOMAIN heap
      /\ Top.head # NULL => Top.prev # NULL
      /\ frames' = [frames EXCEPT ![n] = t]
      /\ heap' = IF Top.head = NULL THEN h ELSE Linked(h, Top.prev, "next", x)
  BY DEF Added, Appends
<1>1. FramesOK
  BY DEF FriendInv
<1>2. /\ TreeOK' /\ DuPaths' = DuPaths /\ \A q : Kids(q)' = Kids(q) /\ Level(q)' = Level(q)
      /\ Wanted' = Wanted /\ Expected' = Expected /\ Lost' = Lost
      /\ kind' = kind /\ up' = up /\ depth' = depth /\ duVersion' = duVersion
      /\ Pointers' = Pointers /\ Nodes' = Nodes
  BY TreeKept
<1>3. /\ DOMAIN heap \subseteq DuPaths \ {1} /\ NULL \notin DOMAIN heap /\ FriendLinked \subseteq DOMAIN heap
      /\ Stack \subseteq DOMAIN heap \cup {1}
      /\ Top \in Frames /\ Top.path \in Stack /\ n \in 1..n
      /\ Top.todo \subseteq Kids(Top.path) /\ Top.todo \cap DOMAIN heap = {}
      /\ \A i \in 1..n : frames[i].path \in Stack
  BY FriendFacts
<1>4. /\ t \in Frames /\ t.path = Top.path /\ t.depth = Top.depth /\ t.todo = todo
      /\ t.prev = x /\ t.sub = Top.sub /\ t.head = (IF Top.head = NULL THEN x ELSE Top.head)
  <2>1. x \in Pointers /\ x # NULL /\ todo \in SUBSET DuPaths
    BY <1>3, PathsAre DEF Pointers, Frames
  <2> QED
    BY <1>3, <2>1 DEF Frames
<1>5. x # NULL /\ t.head # NULL
  BY <1>4, PathsAre
<1>6. frames' = [frames EXCEPT ![n] = t]
  BY <1>0
<1> HIDE DEF t
<1>7. /\ FramesOK' /\ Stack' = Stack /\ Len(frames') = n /\ frames' # <<>> /\ Top' = t
      /\ \A i \in 1..n :
           /\ i # n => frames'[i] = frames[i]
           /\ frames'[i].path = frames[i].path /\ frames'[i].todo \subseteq frames[i].todo
  <2>1. t.todo \subseteq Top.todo
    BY <1>4
  <2> QED
    BY <1>1, <1>4, <1>6, <2>1, TopChanged
<1>8. frames'[n] = t /\ frames[n] = Top
  BY <1>7 DEF Top
<1>9. \A i \in 1..n : i # n => frames[i].path # Top.path
  <2>1. \A i \in 1..n : i # n => frames[i].path < Top.path
    <3>1. \A i, j \in 1..n : i < j => frames[i].path < frames[j].path
      BY <1>1 DEF FramesOK
    <3>2. \A i \in 1..n : i # n => i < n
      BY <1>3
    <3> QED
      BY <1>3, <1>8, <3>1, <3>2
  <2>2. \A i \in 1..n : frames[i].path \in Nat
    BY <1>1, FramesAre, PathsAre DEF Frames
  <2> QED
    BY <1>3, <1>8, <2>1, <2>2
<1>10. /\ Top.prev # NULL => /\ Top.head # NULL
                             /\ Top.prev \in FriendLinked /\ up[Top.prev] = Top.path
                             /\ heap[Top.prev].next = NULL
  BY <1>3, <1>8 DEF FriendPrev, FriendInv
<1>11. (Top.head = NULL) = (Top.prev = NULL)
  BY <1>0, <1>10
<1>12. Top.prev # NULL => Top.prev \in DOMAIN heap /\ Top.prev # x
  BY <1>0, <1>3, <1>10
<1>13. /\ DOMAIN heap' = DOMAIN heap \cup {x} /\ heap' \in [DOMAIN heap \cup {x} -> Nodes]
       /\ \A q \in DOMAIN heap \cup {x} :
            /\ heap'[q].type = h[q].type /\ heap'[q].size = h[q].size
            /\ heap'[q].contents = h[q].contents
            /\ heap'[q].next = IF Top.prev # NULL /\ q = Top.prev THEN x ELSE h[q].next
  <2>1. CASE Top.prev = NULL
    BY <1>0, <1>11, <2>1
  <2>2. CASE Top.prev # NULL
    <3>1. heap' = Linked(h, Top.prev, "next", x)
      BY <1>0, <1>11, <2>2
    <3>2. PICK D : D = DOMAIN heap \cup {x}
      OBVIOUS
    <3>3. h \in [D -> Nodes] /\ Top.prev \in D /\ x \in Pointers
      BY <1>0, <1>12, <2>2, <3>2 DEF Pointers
    <3>4. /\ heap' \in [D -> Nodes]
          /\ \A r \in D : r # Top.prev => heap'[r] = h[r]
          /\ heap'[Top.prev].type = h[Top.prev].type /\ heap'[Top.prev].size = h[Top.prev].size
          /\ heap'[Top.prev].next = x /\ heap'[Top.prev].contents = h[Top.prev].contents
      BY <3>1, <3>3, LinkedIs
    <3> QED
      BY <2>2, <3>2, <3>3, <3>4
  <2> QED
    BY <2>1, <2>2
<1>14. FriendActive' = {} /\ FriendLinked' = FriendLinked \cup {x}
  <2>1. FriendActive' = {}
    BY <1>0 DEF FriendActive
  <2>2. /\ Stack' = Stack /\ DOMAIN heap' = DOMAIN heap \cup {x}
        /\ x \notin Stack /\ x \notin FriendLinked /\ FriendActive \subseteq {x}
    BY <1>0, <1>7, <1>13
  <2> QED
    BY <2>1, <2>2 DEF FriendLinked
<1>15. \E f \in [DuPaths' -> Pointers'] : \E o \in [DuPaths' -> Nat] :
         FriendFirst(f)' /\ Lists(NextOf, f, FriendLinked, o)'
  <2>0. PICK f : f = IF Top.head = NULL THEN [first EXCEPT ![Top.path] = x] ELSE first
    OBVIOUS
  <2>1. Top.path \in DuPaths /\ x \in Pointers
    BY <1>3 DEF Frames, Pointers
  <2>2. first[Top.path] = Top.head
    BY <1>0, <1>3, <1>8 DEF FriendFirst
  <2>3. /\ f \in [DuPaths -> Pointers] /\ f[Top.path] = t.head
        /\ \A q \in DuPaths : q # Top.path => f[q] = first[q]
    BY <1>4, <2>0, <2>1, <2>2
  <2>4. PICK nx, n1, L, prev : nx = NextOf' /\ n1 = NextOf /\ L = FriendLinked /\ prev = Top.prev
    OBVIOUS
  <2>5. \A q \in L : q # prev => nx[q] = n1[q]
    BY <1>0, <1>3, <1>13, <2>4 DEF NextOf
  <2>6. nx[x] = NULL
    BY <1>0, <1>12, <1>13, <2>4 DEF NextOf
  <2>7. \A p \in DuPaths : p # up[x] \/ prev # NULL => f[p] = first[p]
    BY <1>0, <1>4, <1>11, <2>2, <2>3, <2>4
  <2>8. prev = NULL => first[up[x]] = NULL /\ f[up[x]] = x
    BY <1>0, <1>4, <1>11, <2>2, <2>3, <2>4
  <2>9. prev # NULL => prev \in L /\ up[prev] = up[x] /\ n1[prev] = NULL /\ nx[prev] = x
    BY <1>0, <1>3, <1>10, <1>12, <1>13, <2>4 DEF NextOf
  <2>10. Lists(n1, first, L, pos) /\ x \notin L
    BY <1>0, <2>4
  <2>11. PICK o \in [DuPaths -> Nat] : Lists(nx, f, L \cup {x}, o)
    <3>1. ListGrows(n1, first, L, x, prev, nx, f)
      BY <2>5, <2>6, <2>7, <2>8, <2>9, <2>10 DEF ListGrows
    <3> QED
      BY <2>10, <3>1, ListGrown
  <2>12. Lists(NextOf, f, FriendLinked, o)'
    BY <1>2, <1>14, <2>4, <2>11 DEF Lists
  <2>13. FriendFirst(f)'
    <3>1. \A i \in 1..n : f[frames'[i].path] = frames'[i].head
      <4>1. ASSUME NEW i \in 1..n
            PROVE  f[frames'[i].path] = frames'[i].head
        <5>1. CASE i = n
          BY <1>4, <1>8, <2>3, <5>1
        <5>2. CASE i # n
          <6>1. frames[i].path \in DuPaths
            BY <1>1, FramesAre DEF Frames
          <6>2. first[frames[i].path] = frames[i].head
            BY <1>0 DEF FriendFirst
          <6> QED
            BY <1>7, <1>9, <2>3, <5>2, <6>1, <6>2
        <5> QED
          BY <5>1, <5>2
      <4> QED
        BY <4>1
    <3>2. \A q \in FriendLinked \cup {x} : f[q] = heap'[q].contents
      <4>1. \A q \in FriendLinked \cup {x} : q \in DuPaths /\ q # Top.path
        BY <1>0, <1>3, PathsAre DEF FriendLinked
      <4> QED
        BY <1>0, <1>3, <1>13, <2>3, <4>1 DEF FriendFirst
    <3> QED
      BY <1>0, <1>7, <1>14, <3>1, <3>2 DEF FriendFirst
  <2> QED
    BY <1>2, <2>3, <2>12, <2>13
<1>16. \A i \in 1..n : x \notin frames'[i].todo
  <2>1. ASSUME NEW i \in 1..n, i # n
        PROVE  x \notin frames[i].todo
    <3>1. frames[i].todo \subseteq Kids(frames[i].path)
      BY <1>1 DEF FramesOK
    <3> QED
      BY <1>0, <1>9, <2>1, <3>1 DEF Kids
  <2> QED
    BY <1>4, <1>7, <1>8, <2>1
<1>17. FriendHeap'
  <2>1. \A i \in 1..n : frames'[i].todo \cap DOMAIN heap' = {}
    BY <1>7, <1>13, <1>16 DEF FriendHeap, FriendInv
  <2>2. \A q \in DOMAIN heap \cup {x} :
          /\ q \in Wanted /\ (up[q] # 1 => up[q] \in DOMAIN heap)
          /\ heap'[q].type = (IF kind[q] \in {"file", "gone"} THEN "File" ELSE "Directory")
          /\ kind[q] = "file" => heap'[q].size = FileSize(q)
    <3>1. up[x] # 1 => up[x] \in DOMAIN heap
      BY <1>0, <1>3
    <3> QED
      BY <1>0, <1>13, <3>1 DEF FriendHeap, FriendInv
  <2>3. \A q \in DOMAIN heap \cup {x} : q \notin FriendLinked \cup {x} => heap'[q].next = NULL
    BY <1>0, <1>10, <1>13 DEF FriendHeap, FriendInv
  <2>4. DOMAIN heap' \subseteq DuPaths
    BY <1>3, <1>13
  <2> QED
    BY <1>2, <1>3, <1>7, <1>13, <1>14, <2>1, <2>2, <2>3, <2>4 DEF FriendHeap
<1>18. FriendComplete'
  <2>1. ASSUME NEW q \in DOMAIN heap' \cup {1}, NEW r \in Wanted \cap Kids(q), r \notin DOMAIN heap'
        PROVE  \E i \in 1..n : frames'[i].path = q /\ r \in frames'[i].todo
    <3>1. q # x /\ r # x /\ r \notin DOMAIN heap
      BY <1>0, <1>13, <2>1
    <3>2. PICK i \in 1..n : frames[i].path = q /\ r \in frames[i].todo
      <4>1. q \in DOMAIN heap \cup {1} /\ duPc # "call"
        BY <1>0, <1>13, <2>1, <3>1
      <4> QED
        BY <2>1, <3>1, <4>1 DEF FriendComplete, FriendInv
    <3>3. r \in frames'[i].todo
      BY <1>4, <1>7, <1>8, <3>1, <3>2
    <3> QED
      BY <1>7, <3>2, <3>3
  <2>2. \A q \in DOMAIN heap' \cup {1} : \A r \in Wanted \cap Kids(q) :
          r \in DOMAIN heap' \/ \E i \in 1..n : frames'[i].path = q /\ r \in frames'[i].todo
    BY <2>1
  <2>3. duPc' # "call" /\ Len(frames') = n /\ Wanted' = Wanted /\ \A q : Kids(q)' = Kids(q)
    BY <1>0, <1>2, <1>7
  <2> QED
    BY <2>2, <2>3 DEF FriendComplete
<1>19. FriendPrev'
  <2>1. ASSUME NEW i \in 1..n
        PROVE  /\ frames'[i].prev # NULL =>
                    /\ frames'[i].head # NULL
                    /\ frames'[i].prev \in FriendLinked \cup {x}
                    /\ up[frames'[i].prev] = frames'[i].path
                    /\ heap'[frames'[i].prev].next = NULL
               /\ frames'[i].head # NULL /\ frames'[i].prev = NULL =>
                    \E q \in Kids(frames'[i].path) \ frames'[i].todo : kind[q] = "other"
    <3>1. CASE i = n
      <4>1. heap'[x].next = NULL
        BY <1>0, <1>12, <1>13
      <4> QED
        BY <1>0, <1>4, <1>5, <1>8, <3>1, <4>1
    <3>2. CASE i # n
      <4>1. frames'[i] = frames[i] /\ frames[i].path # Top.path
        BY <1>7, <1>9, <3>2
      <4>2. /\ frames[i].prev # NULL =>
                 /\ frames[i].head # NULL
                 /\ frames[i].prev \in FriendLinked /\ up[frames[i].prev] = frames[i].path
                 /\ heap[frames[i].prev].next = NULL
            /\ frames[i].head # NULL /\ frames[i].prev = NULL =>
                 \E q \in Kids(frames[i].path) \ frames[i].todo : kind[q] = "other"
        BY DEF FriendPrev, FriendInv
      <4>3. frames[i].prev # NULL =>
              frames[i].prev \in DOMAIN heap /\ frames[i].prev # x
              /\ (Top.prev # NULL => frames[i].prev # Top.prev)
        BY <1>0, <1>3, <1>10, <4>1, <4>2
      <4>4. frames[i].prev # NULL => heap'[frames[i].prev].next = NULL
        BY <1>0, <1>13, <4>2, <4>3
      <4> QED
        BY <4>1, <4>2, <4>4
    <3> QED
      BY <3>1, <3>2
  <2> QED
    BY <1>2, <1>7, <1>14, <2>1 DEF FriendPrev
<1>20. FriendAt'
  <2>1. \A i \in 1..n : i > 1 => frames'[i - 1].sub = frames'[i].path
    <3>1. ASSUME NEW i \in 1..n, i > 1
          PROVE  frames'[i - 1].sub = frames'[i].path
      <4>1. i - 1 \in 1..n /\ i - 1 # n
        BY <1>3, <3>1
      <4> QED
        BY <1>7, <3>1, <4>1 DEF FriendAt, FriendInv
    <3> QED
      BY <3>1
  <2> QED
    BY <1>0, <1>7, <2>1 DEF FriendAt
<1> QED
  BY <1>7, <1>15, <1>17, <1>18, <1>19, <1>20 DEF FriendInv

(* The frames with another one on top.                                      *)
LEMMA TopReplaced ==
  ASSUME FramesOK, frames # <<>>, NEW u \in Frames, NEW fs,
         fs = [frames EXCEPT ![Len(frames)] = u]
  PROVE  /\ fs \in Seq(Frames) /\ Len(fs) = Len(frames) /\ DOMAIN fs = 1..Len(frames)
         /\ fs[Len(frames)] = u
<1>1. frames \in Seq(Frames) /\ Len(frames) \in 1..Len(frames)
  BY FramesAre
<1>2. fs \in Seq(Frames) /\ Len(fs) = Len(frames)
  BY <1>1, ExceptSeq
<1>3. DOMAIN fs = 1..Len(frames)
  BY <1>2, LenProperties
<1>4. fs[Len(frames)] = u
  BY <1>1
<1> QED
  BY <1>2, <1>3, <1>4

(* A node is added to the list of the running call, or the program crashes.  *)
LEMMA FriendAdds ==
  ASSUME TreeOK, duVersion = "friend", FriendInv, Untouched, frames # <<>>,
         NEW x \in DuPaths \ {1}, NEW h, NEW fs,
         NEW first \in [DuPaths -> Pointers], NEW pos \in [DuPaths -> Nat],
         Added(x, h, first, pos),
         fs = [frames EXCEPT ![Len(frames)] = [Top EXCEPT !.todo = @ \ {x}]],
         FriendAppend(fs, h, x)
  PROVE  (duPc' = "crashed" /\ Crash') \/ (duPc' = "loop" /\ FriendInv')
<1> DEFINE n == Len(frames)
           u == [Top EXCEPT !.todo = @ \ {x}]
<1>1. /\ frames \in Seq(Frames) /\ n \in 1..n /\ Top \in Frames /\ Top = frames[n]
  BY FramesAre, FriendFacts DEF FriendInv, Top
<1>2. u \in Frames /\ u.head = Top.head /\ u.prev = Top.prev
  BY <1>1 DEF Frames
<1>3. fs \in Seq(Frames) /\ Len(fs) = n /\ DOMAIN fs = 1..n /\ fs[n] = u
  <2>1. FramesOK
    BY DEF FriendInv
  <2> QED
    BY <1>2, <2>1, TopReplaced
<1>4. CASE Top.head # NULL /\ Top.prev = NULL
  <2>1. duPc' = "crashed"
    BY <1>2, <1>3, <1>4 DEF FriendAppend
  <2>2. x \in Kids(Top.path) /\ x \notin FriendLinked
    BY DEF Added, Kids
  <2>3. kind[x] # "other"
    BY FriendFacts DEF Added
  <2> QED
    BY <1>4, <2>1, <2>2, <2>3, FriendCrashes
<1>5. CASE ~(Top.head # NULL /\ Top.prev = NULL)
  <2>1. /\ frames' = [fs EXCEPT ![n].prev = x, ![n].head = IF @ = NULL THEN x ELSE @]
        /\ heap' = IF Top.head = NULL THEN h ELSE Linked(h, Top.prev, "next", x)
        /\ duPc' = "loop"
    BY <1>2, <1>3, <1>5 DEF FriendAppend
  <2> DEFINE t == [Top EXCEPT !.todo = @ \ {x}, !.prev = x, !.head = IF @ = NULL THEN x ELSE @]
  <2>2. [[u EXCEPT !.prev = x] EXCEPT !.head = IF u.head = NULL THEN x ELSE u.head] = t
    BY <1>1 DEF Frames
  <2>3. frames' = [frames EXCEPT ![n] = t]
    <3>1. frames' = [fs EXCEPT ![n] = [[u EXCEPT !.prev = x] EXCEPT !.head = IF u.head = NULL THEN x ELSE u.head]]
      <4> HIDE DEF u
      <4>1. n \in DOMAIN fs /\ fs[n] = u
        BY <1>1, <1>3
      <4>2. frames' = [fs EXCEPT ![n].prev = x, ![n].head = IF @ = NULL THEN x ELSE @]
        BY <2>1
      <4> QED
        BY <4>1, <4>2
    <3> HIDE DEF t, u
    <3>2. fs = [frames EXCEPT ![n] = u]
      BY DEF u
    <3> QED
      BY <1>1, <2>2, <3>1, <3>2
  <2>4. Appends(x, h)
    BY <1>5, <2>1, <2>3 DEF Appends
  <2>5. FriendInv'
    BY <2>4, FriendAppended
  <2> QED
    BY <2>1, <2>5
<1> QED
  BY <1>4, <1>5

(* An entry that is a file, or that is gone.                                *)
LEMMA FriendTakes ==
  ASSUME TreeOK, FriendInv, NEW p \in DuPaths, FriendEntry(p), kind[p] \in {"file", "gone"}
  PROVE  (duPc' = "crashed" /\ Crash') \/ (duPc' = "loop" /\ FriendInv')
<1> DEFINE n == Len(frames)
           fs == [frames EXCEPT ![n].todo = @ \ {p}]
<1>1. /\ duVersion = "friend" /\ duPc = "loop" /\ p \in Top.todo /\ Untouched /\ frames # <<>>
  BY DEF FriendEntry, FriendInv, FriendAt
<1>2. PICK s \in Nat : /\ FriendAppend(fs, With(heap, p, Node("File", s)), p)
                       /\ kind[p] = "file" => s = FileSize(p)
  <2>1. FileSize(p) \in Nat
    BY DuAssumption, PathsAre
  <2>2. CASE kind[p] = "file"
    <3>1. FriendAppend(fs, With(heap, p, Node("File", FileSize(p))), p)
      BY <2>2 DEF FriendEntry
    <3> QED
      BY <2>1, <3>1
  <2>3. CASE kind[p] = "gone"
    <3>1. \E s \in {0, 1} : FriendAppend(fs, With(heap, p, Node("File", s)), p)
      BY <2>3 DEF FriendEntry
    <3> QED
      BY <2>3, <3>1
  <2> QED
    BY <2>2, <2>3
<1> DEFINE node == Node("File", s)
           h == With(heap, p, node)
<1>3. /\ DOMAIN heap \subseteq DuPaths \ {1} /\ FriendLinked \subseteq DOMAIN heap
      /\ \A q \in DOMAIN heap : heap[q] \in Nodes
      /\ \A q : q \in Wanted <=> q \in DuPaths \ {1} /\ Level(q) <= depth /\ kind[q] # "other"
      /\ Stack \subseteq DOMAIN heap \cup {1}
      /\ Top \in Frames /\ Top.path \in Stack /\ n \in 1..n
      /\ Top.todo \subseteq Kids(Top.path) /\ Top.todo \cap DOMAIN heap = {}
      /\ Top.depth \in Nat /\ Top.depth >= 1 /\ Top.depth + Level(Top.path) = depth
  BY <1>1, FriendFacts
<1>4. /\ p \in DuPaths \ {1} /\ up[p] = Top.path /\ p \notin DOMAIN heap /\ p \notin Stack
  BY <1>1, <1>3 DEF Kids
<1>5. p \in Wanted
  <2>1. Level(p) = 1 + Level(Top.path) /\ Level(Top.path) \in Nat
    BY <1>3, <1>4, LevelIs DEF Frames
  <2>2. Level(p) <= depth
    BY <1>3, <2>1
  <2> QED
    BY <1>3, <1>4, <2>2
<1>6. node \in Nodes /\ node.type = "File" /\ node.size = s /\ node.next = NULL /\ node.contents = NULL
  BY DEF Node, Nodes, Pointers
<1>7. fs = [frames EXCEPT ![n] = [Top EXCEPT !.todo = @ \ {p}]]
  BY <1>1, <1>3, FramesAre DEF FriendInv, Top
<1>8. PICK first \in [DuPaths -> Pointers], pos \in [DuPaths -> Nat] :
        FriendFirst(first) /\ Lists(NextOf, first, FriendLinked, pos)
  BY DEF FriendInv
<1>9. first[p] = NULL
  <2>1. \A q \in DOMAIN heap : up[q] # p
    BY <1>4 DEF FriendInv, FriendHeap
  <2>2. first[p] # NULL => first[p] \in DOMAIN heap /\ up[first[p]] = p
    BY <1>3, <1>8 DEF Lists
  <2> QED
    BY <2>1, <2>2
<1> HIDE DEF node
<1>10. h = [q \in DOMAIN heap \cup {p} |-> IF q = p THEN node ELSE heap[q]]
  BY DEF With
<1>11. FriendActive = {}
  BY <1>1 DEF FriendActive
<1>12. Kids(p) = {}
  <2>1. \A q \in Kids(p) : kind[p] = "dir"
    BY PathsAre DEF Kids
  <2> QED
    BY <2>1
<1>13. Added(p, h, first, pos)
  <2>1. /\ h \in [DOMAIN heap \cup {p} -> Nodes] /\ h[p] = node
        /\ \A q \in DOMAIN heap : q # p => h[q] = heap[q]
    BY <1>3, <1>6, <1>10
  <2> HIDE DEF h
  <2> QED
    BY <1>1, <1>2, <1>3, <1>4, <1>5, <1>6, <1>8, <1>9, <1>11, <1>12, <2>1 DEF Added
<1>14. FriendAppend(fs, h, p)
  BY <1>2 DEF node
<1> HIDE DEF h, fs
<1> QED
  BY <1>1, <1>4, <1>7, <1>13, <1>14, FriendAdds

(* The contents of a directory came back.                                   *)
LEMMA FriendReturns ==
  ASSUME TreeOK, FriendInv, FriendReturn
  PROVE  (duPc' = "crashed" /\ Crash') \/ (duPc' = "loop" /\ FriendInv')
<1> DEFINE n == Len(frames)
           x == Top.sub
           h == Linked(heap, x, "contents", ret)
           fs == [frames EXCEPT ![n] = [Top EXCEPT !.todo = @ \ {x}]]
<1>1. /\ duVersion = "friend" /\ duPc = "return" /\ Untouched /\ frames # <<>>
      /\ FriendAppend(frames, h, x)
      /\ x \in (Kids(Top.path) \cap DOMAIN heap) \ Stack /\ ret \in Pointers
  BY DEF FriendReturn, FriendInv, FriendAt
<1>2. /\ DOMAIN heap \subseteq DuPaths \ {1} /\ FriendLinked \subseteq DOMAIN heap
      /\ Top \in Frames /\ Top.path \in Stack /\ n \in 1..n
      /\ Top.todo \cap DOMAIN heap = {}
  BY <1>1, FriendFacts
<1>3. x \in DuPaths \ {1} /\ up[x] = Top.path
  BY <1>1 DEF Kids
<1>4. FriendActive = {x} /\ x \notin FriendLinked
  BY <1>1 DEF FriendActive, FriendLinked
<1>5. frames = fs
  <2>1. Top.todo \ {x} = Top.todo
    BY <1>1, <1>2
  <2>2. [Top EXCEPT !.todo = @ \ {x}] = Top
    BY <1>2, <2>1 DEF Frames
  <2> QED
    BY <1>2, <2>2, FramesAre DEF FriendInv, Top
<1>6. PICK first \in [DuPaths -> Pointers], pos \in [DuPaths -> Nat] :
        FriendFirst(first) /\ Lists(NextOf, first, FriendLinked, pos)
  BY DEF FriendInv
<1>7. first[x] = ret
  BY <1>1, <1>4, <1>6 DEF FriendFirst
<1>8. /\ x \in Wanted
      /\ heap[x].type = (IF kind[x] \in {"file", "gone"} THEN "File" ELSE "Directory")
      /\ kind[x] = "file" => heap[x].size = FileSize(x)
      /\ heap[x].next = NULL
  BY <1>1, <1>4 DEF FriendInv, FriendHeap
<1>9. \A r \in Wanted \cap Kids(x) : r \in DOMAIN heap
  <2>1. \A i \in 1..n : frames[i].path # x
    BY <1>1 DEF Stack
  <2> QED
    BY <1>1, <2>1 DEF FriendInv, FriendComplete
<1> HIDE DEF x
<1>10. /\ h \in [DOMAIN heap -> Nodes] /\ \A q \in DOMAIN heap : q # x => h[q] = heap[q]
       /\ h[x].type = heap[x].type /\ h[x].size = heap[x].size
       /\ h[x].next = heap[x].next /\ h[x].contents = ret
  <2>1. PICK D : D = DOMAIN heap
    OBVIOUS
  <2>2. heap \in [D -> Nodes] /\ x \in D
    BY <1>1, <2>1 DEF FriendInv, FriendHeap
  <2> QED
    BY <1>1, <2>1, <2>2, LinkedIs
<1> HIDE DEF h, fs
<1>11. Added(x, h, first, pos)
  <2>1. DOMAIN heap \cup {x} = DOMAIN heap
    BY <1>1
  <2> QED
    BY <1>1, <1>3, <1>4, <1>6, <1>7, <1>8, <1>9, <1>10, <2>1 DEF Added
<1>12. FriendAppend(fs, h, x)
  BY <1>1, <1>5
<1>13. fs = [frames EXCEPT ![Len(frames)] = [Top EXCEPT !.todo = @ \ {x}]]
  BY DEF fs
<1> QED
  BY <1>1, <1>3, <1>11, <1>12, <1>13, FriendAdds

(* An entry of another type sets the tail of the list to NULL.              *)
LEMMA FriendSkips ==
  ASSUME TreeOK, FriendInv, NEW p \in DuPaths, FriendEntry(p), kind[p] = "other"
  PROVE  (duPc' = "crashed" /\ Crash') \/ (duPc' = "loop" /\ FriendInv')
<1> DEFINE n == Len(frames)
           u == [Top EXCEPT !.todo = @ \ {p}]
           t == [Top EXCEPT !.todo = @ \ {p}, !.prev = NULL]
           fs == [frames EXCEPT ![n].todo = @ \ {p}]
<1>1. /\ duVersion = "friend" /\ duPc = "loop" /\ p \in Top.todo /\ Untouched /\ frames # <<>>
      /\ FriendAppend(fs, heap, NULL) /\ FramesOK
  BY DEF FriendEntry, FriendInv, FriendAt
<1>2. /\ DOMAIN heap \subseteq DuPaths \ {1} /\ FriendLinked \subseteq DOMAIN heap
      /\ \A q \in DOMAIN heap : heap[q] \in Nodes
      /\ \A q : q \in Wanted <=> q \in DuPaths \ {1} /\ Level(q) <= depth /\ kind[q] # "other"
      /\ Top \in Frames /\ n \in 1..n /\ Top = frames[n]
      /\ Top.todo \subseteq Kids(Top.path) /\ Top.todo \cap DOMAIN heap = {}
  BY <1>1, FriendFacts DEF Top
<1>3. u \in Frames /\ u.head = Top.head /\ u.prev = Top.prev
  BY <1>2 DEF Frames
<1>4. /\ t \in Frames /\ t.path = Top.path /\ t.depth = Top.depth /\ t.todo = Top.todo \ {p}
      /\ t.prev = NULL /\ t.head = Top.head /\ t.sub = Top.sub
  BY <1>2 DEF Frames, Pointers
<1>5. t = [[u EXCEPT !.prev = NULL] EXCEPT !.head = IF u.head = NULL THEN NULL ELSE u.head]
  BY <1>2 DEF Frames
<1>6. fs = [frames EXCEPT ![n] = u]
  BY <1>1, <1>2, FramesAre
<1> HIDE DEF fs, t, u
<1>7. fs \in Seq(Frames) /\ Len(fs) = n /\ DOMAIN fs = 1..n /\ fs[n] = u
  BY <1>1, <1>3, <1>6, TopReplaced
<1>8. CASE Top.head # NULL /\ Top.prev = NULL
  <2>1. duPc' = "crashed"
    BY <1>1, <1>3, <1>7, <1>8 DEF FriendAppend
  <2>2. p \in Kids(Top.path) /\ p \notin FriendLinked
    BY <1>1, <1>2
  <2> QED
    BY <1>1, <1>8, <2>1, <2>2, FriendCrashes
<1>9. CASE ~(Top.head # NULL /\ Top.prev = NULL)
  <2>1. /\ frames' = [fs EXCEPT ![n].prev = NULL, ![n].head = IF @ = NULL THEN NULL ELSE @]
        /\ heap' = IF Top.head = NULL THEN heap ELSE Linked(heap, Top.prev, "next", NULL)
        /\ duPc' = "loop"
    BY <1>1, <1>3, <1>7, <1>9 DEF FriendAppend
  <2>2. frames' = [frames EXCEPT ![n] = t]
    <3>1. frames' = [fs EXCEPT ![n] = [[u EXCEPT !.prev = NULL] EXCEPT !.head = IF u.head = NULL THEN NULL ELSE u.head]]
      BY <1>2, <1>7, <2>1
    <3> QED
      BY <1>2, <1>5, <1>6, <3>1
  <2>3. /\ FramesOK' /\ Stack' = Stack /\ Len(frames') = n /\ frames' # <<>> /\ Top' = t
        /\ \A i \in 1..n :
             /\ i # n => frames'[i] = frames[i]
             /\ frames'[i].path = frames[i].path /\ frames'[i].todo \subseteq frames[i].todo
    BY <1>1, <1>4, <2>2, TopChanged
  <2>4. frames'[n] = t
    BY <2>3 DEF Top
  <2>5. DOMAIN heap' = DOMAIN heap /\ heap' \in [DOMAIN heap -> Nodes]
        /\ \A q \in DOMAIN heap : /\ heap'[q].type = heap[q].type /\ heap'[q].size = heap[q].size
                                  /\ heap'[q].contents = heap[q].contents
                                  /\ heap'[q].next = heap[q].next
    <3>1. heap \in [DOMAIN heap -> Nodes]
      BY DEF FriendInv, FriendHeap
    <3>2. CASE Top.head = NULL
      BY <2>1, <3>1, <3>2
    <3>3. CASE Top.head # NULL
      <4>1. Top.prev \in DOMAIN heap /\ heap[Top.prev].next = NULL
        BY <1>2, <1>9, <3>3 DEF FriendInv, FriendPrev
      <4>2. heap' = Linked(heap, Top.prev, "next", NULL) /\ NULL \in Pointers
        BY <2>1, <3>3 DEF Pointers
      <4>3. PICK D : D = DOMAIN heap
        OBVIOUS
      <4>4. heap \in [D -> Nodes] /\ Top.prev \in D
        BY <3>1, <4>1, <4>3
      <4>5. /\ heap' \in [D -> Nodes]
            /\ \A r \in D : r # Top.prev => heap'[r] = heap[r]
            /\ heap'[Top.prev].type = heap[Top.prev].type /\ heap'[Top.prev].size = heap[Top.prev].size
            /\ heap'[Top.prev].next = NULL /\ heap'[Top.prev].contents = heap[Top.prev].contents
        BY <4>2, <4>4, LinkedIs
      <4> QED
        BY <4>1, <4>3, <4>5
    <3> QED
      BY <3>2, <3>3
  <2>6. /\ TreeOK' /\ DuPaths' = DuPaths /\ \A q : Kids(q)' = Kids(q) /\ Level(q)' = Level(q)
        /\ Wanted' = Wanted /\ Expected' = Expected /\ Lost' = Lost
        /\ kind' = kind /\ up' = up /\ depth' = depth /\ duVersion' = duVersion
        /\ Pointers' = Pointers /\ Nodes' = Nodes
    BY <1>1, TreeKept
  <2>7. FriendActive' = {} /\ FriendActive = {} /\ FriendLinked' = FriendLinked
    <3>1. FriendActive' = {} /\ FriendActive = {}
      BY <1>1, <2>1 DEF FriendActive
    <3> QED
      BY <2>3, <2>5, <3>1 DEF FriendLinked
  <2>8. \A i \in 1..n : frames'[i].head = frames[i].head
    BY <1>2, <1>4, <2>3, <2>4
  <2>9. \E f \in [DuPaths' -> Pointers'] : \E o \in [DuPaths' -> Nat] :
          FriendFirst(f)' /\ Lists(NextOf, f, FriendLinked, o)'
    <3>1. PICK first \in [DuPaths -> Pointers], pos \in [DuPaths -> Nat] :
            FriendFirst(first) /\ Lists(NextOf, first, FriendLinked, pos)
      BY DEF FriendInv
    <3>2. \A i \in 1..Len(frames') : first[frames'[i].path] = frames'[i].head
      BY <2>3, <2>8, <3>1 DEF FriendFirst
    <3>3. \A q \in FriendLinked :
             /\ q \in DOMAIN heap'
             /\ heap'[q].next = heap[q].next /\ heap'[q].contents = heap[q].contents
      BY <1>2, <2>5
    <3> QED
      BY <1>1, <1>2, <2>1, <2>7, <3>1, <3>2, <3>3, FriendListsKept
  <2>10. FriendHeap'
    <3>1. \A i \in 1..n : frames'[i].todo \cap DOMAIN heap = {}
      BY <2>3 DEF FriendHeap, FriendInv
    <3>2. \A q \in DOMAIN heap :
            /\ q \in Wanted /\ (up[q] # 1 => up[q] \in DOMAIN heap)
            /\ heap'[q].type = (IF kind[q] \in {"file", "gone"} THEN "File" ELSE "Directory")
            /\ kind[q] = "file" => heap'[q].size = FileSize(q)
            /\ q \notin FriendLinked => heap'[q].next = NULL
      BY <2>5 DEF FriendHeap, FriendInv
    <3>3. Stack \subseteq DOMAIN heap \cup {1}
      BY DEF FriendHeap, FriendInv
    <3> QED
      BY <1>2, <2>3, <2>5, <2>6, <2>7, <3>1, <3>2, <3>3 DEF FriendHeap
  <2>11. FriendComplete'
    <3>1. ASSUME NEW q \in DOMAIN heap \cup {1}, NEW r \in Wanted \cap Kids(q), r \notin DOMAIN heap
          PROVE  \E i \in 1..n : frames'[i].path = q /\ r \in frames'[i].todo
      <4>1. PICK i \in 1..n : frames[i].path = q /\ r \in frames[i].todo
        BY <1>1, <3>1 DEF FriendComplete, FriendInv
      <4>2. r # p
        BY <1>2, <3>1
      <4>3. r \in frames'[i].todo
        BY <1>2, <1>4, <2>3, <2>4, <4>1, <4>2
      <4> QED
        BY <2>3, <4>1, <4>3
    <3>2. \A q \in DOMAIN heap \cup {1} : \A r \in Wanted \cap Kids(q) :
            r \in DOMAIN heap \/ \E i \in 1..n : frames'[i].path = q /\ r \in frames'[i].todo
      BY <3>1
    <3>3. /\ duPc' # "call" /\ DOMAIN heap' = DOMAIN heap /\ Len(frames') = n
          /\ Wanted' = Wanted /\ \A q : Kids(q)' = Kids(q)
      BY <2>1, <2>3, <2>5, <2>6
    <3> QED
      BY <3>2, <3>3 DEF FriendComplete
  <2>12. FriendPrev'
    <3>1. ASSUME NEW i \in 1..n
          PROVE  /\ frames'[i].prev # NULL =>
                      /\ frames'[i].head # NULL
                      /\ frames'[i].prev \in FriendLinked /\ up[frames'[i].prev] = frames'[i].path
                      /\ heap'[frames'[i].prev].next = NULL
                 /\ frames'[i].head # NULL /\ frames'[i].prev = NULL =>
                      \E q \in Kids(frames'[i].path) \ frames'[i].todo : kind[q] = "other"
      <4>1. CASE i = n
        <5>1. p \in Kids(t.path) \ t.todo
          BY <1>1, <1>2, <1>4
        <5> QED
          BY <1>4, <2>4, <4>1, <5>1
      <4>2. CASE i # n
        <5>1. frames'[i] = frames[i]
          BY <2>3, <4>2
        <5>2. /\ frames[i].prev # NULL =>
                   /\ frames[i].head # NULL
                   /\ frames[i].prev \in FriendLinked /\ up[frames[i].prev] = frames[i].path
                   /\ heap[frames[i].prev].next = NULL
              /\ frames[i].head # NULL /\ frames[i].prev = NULL =>
                   \E q \in Kids(frames[i].path) \ frames[i].todo : kind[q] = "other"
          BY DEF FriendPrev, FriendInv
        <5>3. frames[i].prev # NULL => heap'[frames[i].prev].next = NULL
          BY <1>2, <2>5, <5>2
        <5> QED
          BY <5>1, <5>2, <5>3
      <4> QED
        BY <4>1, <4>2
    <3> QED
      BY <2>3, <2>6, <2>7, <3>1 DEF FriendPrev
  <2>13. FriendAt'
    <3>1. \A i \in 1..n : i > 1 => frames'[i - 1].sub = frames'[i].path
      <4>1. ASSUME NEW i \in 1..n, i > 1
            PROVE  frames'[i - 1].sub = frames'[i].path
        <5>1. i - 1 \in 1..n /\ i - 1 # n
          BY <1>2, <4>1
        <5> QED
          BY <2>3, <4>1, <5>1 DEF FriendAt, FriendInv
      <4> QED
        BY <4>1
    <3> QED
      BY <2>1, <2>3, <3>1 DEF FriendAt
  <2> QED
    BY <2>1, <2>3, <2>9, <2>10, <2>11, <2>12, <2>13 DEF FriendInv
<1> QED
  BY <1>8, <1>9

(* A step of friend_help.c.                                                 *)
LEMMA FriendKept ==
  ASSUME TreeOK, duVersion = "friend", FriendInv, DuNext
  PROVE  \/ duPc' = "freed" /\ DOMAIN heap' = {}
         \/ duPc' = "crashed" /\ Crash'
         \/ duPc' \notin {"freed", "crashed"} /\ FriendInv'
<1>1. CASE BuildTree
  <2>1. Untouched /\ duPc = "call" /\ FriendCall(ret)
    BY <1>1 DEF BuildTree
  <2>2. UNCHANGED heap
    BY <2>1 DEF FriendCall
  <2>3. CASE ArgDepth = 0 \/ kind[ret] # "dir"
    <3>1. Returns(NULL)
      BY <2>1, <2>3 DEF FriendCall
    <3>2. FriendInv'
      BY <2>1, <2>2, <2>3, <3>1, FriendReturnsNull
    <3> QED
      BY <3>1, <3>2 DEF Returns
  <2>4. CASE ~(ArgDepth = 0 \/ kind[ret] # "dir")
    <3>1. Opens(ret)
      BY <2>1, <2>4 DEF FriendCall
    <3>2. FriendInv'
      BY <2>1, <2>2, <2>4, <3>1, FriendOpens
    <3> QED
      BY <3>1, <3>2 DEF Opens
  <2> QED
    BY <2>3, <2>4
<1>2. CASE \E p \in DuPaths : FriendDescend(p)
  <2>1. FriendInv'
    BY <1>2, FriendDescends
  <2> QED
    BY <2>1 DEF FriendInv, FriendAt
<1>3. CASE \E p \in DuPaths : FriendEntry(p)
  <2>1. PICK p \in DuPaths : FriendEntry(p)
    BY <1>3
  <2>2. kind[p] \in {"file", "gone"} \/ kind[p] = "other"
    BY <2>1, PathsAre DEF FriendEntry, Kinds
  <2> QED
    BY <2>1, <2>2, FriendTakes, FriendSkips
<1>4. CASE CloseDir
  <2>1. FriendInv' /\ duPc' = "return"
    BY <1>4, FriendCloses DEF CloseDir
  <2> QED
    BY <2>1
<1>5. CASE FriendReturn
  BY <1>5, FriendReturns
<1>6. CASE Built
  <2>1. FriendInv' /\ duPc' = "built"
    BY <1>6, FriendBuilt DEF Built
  <2> QED
    BY <2>1
<1>7. CASE FreeTree
  <2>1. DOMAIN heap' = {} /\ duPc' = "freed"
    BY <1>7, FriendFreed DEF FreeTree
  <2> QED
    BY <2>1
<1>8. /\ \A p \in DuPaths : ~ReadDir(p)
      /\ ~LinkChild /\ ~SkipChild /\ ~GiveUp
  BY DEF ReadDir, LinkChild, SkipChild, GiveUp
<1> QED
  BY <1>1, <1>2, <1>3, <1>4, <1>5, <1>6, <1>7, <1>8, Zenon DEF DuNext

(* A step of du.c.                                                          *)
LEMMA DuKept ==
  ASSUME TreeOK, duVersion = "du", DuInv, DuNext
  PROVE  \/ duPc' = "freed" /\ DOMAIN heap' = {}
         \/ duPc' \in {"call", "return", "built"} /\ DuInv'
<1>1. frames = <<>> /\ duPc \in {"call", "return", "built"}
  BY DEF DuInv
<1>2. CASE BuildTree
  <2>1. /\ duPc = "call" /\ ret = 1 /\ DOMAIN heap = {} /\ DuCall(1) /\ Untouched
    BY <1>2 DEF BuildTree, DuInv
  <2>2. kind' = kind
    BY <2>1 DEF Untouched
  <2>3. CASE Returns(NULL) /\ UNCHANGED heap
    BY <1>1, <2>1, <2>3 DEF Returns, DuInv
  <2>4. CASE ~(Returns(NULL) /\ UNCHANGED heap)
    <3>1. kind[1] = "gone" /\ Returns(1)
      BY <2>1, <2>4 DEF DuCall
    <3>2. PICK node : heap' = With(heap, 1, node)
      BY <2>1, <2>4 DEF DuCall
    <3>3. DOMAIN heap' = {1}
      BY <2>1, <3>2 DEF With
    <3> QED
      BY <1>1, <2>2, <3>1, <3>3 DEF Returns, DuInv
  <2> QED
    BY <2>3, <2>4
<1>3. CASE Built
  <2>1. duPc = "return" /\ duPc' = "built" /\ UNCHANGED <<frames, heap, ret>> /\ kind' = kind
    BY <1>3 DEF Built, Untouched
  <2> QED
    BY <2>1 DEF DuInv
<1>4. CASE FreeTree
  <2>1. duPc = "built" /\ duPc' = "freed" /\ heap' = Without(heap, Under(heap, ret))
    BY <1>4 DEF FreeTree, Freed
  <2>2. DOMAIN heap' = DOMAIN heap \ Under(heap, ret)
    BY <2>1 DEF Without
  <2>3. DOMAIN heap = {} \/ (ret = 1 /\ DOMAIN heap = {1})
    BY <2>1 DEF DuInv
  <2>4. ret = 1 /\ DOMAIN heap = {1} => 1 \in Under(heap, ret)
    BY UnderIs DEF NULL
  <2> QED
    BY <2>1, <2>2, <2>3, <2>4
<1>5. /\ \A p \in DuPaths : ~ReadDir(p) /\ ~FriendDescend(p) /\ ~FriendEntry(p)
      /\ ~CloseDir /\ ~LinkChild /\ ~SkipChild /\ ~GiveUp /\ ~FriendReturn
  BY <1>1 DEF ReadDir, FriendDescend, FriendEntry, CloseDir, LinkChild, SkipChild, GiveUp,
              FriendReturn
<1> QED
  BY <1>2, <1>3, <1>4, <1>5, Zenon DEF DuNext

(* The invariant holds before the first call.                               *)
LEMMA TreeStarts ==
  ASSUME DuInit
  PROVE  TreeInv
<1>1. TreeOK
  <2>1. PICK n \in 1..MaxPaths : kind \in [1..n -> Kinds] /\ up \in [2..n -> 1..n]
    BY DEF DuInit, Kinds
  <2>2. \A p \in DuPaths \ {1} : up[p] < p /\ kind[up[p]] = "dir"
    BY DEF DuInit
  <2>3. depth \in Nat
    BY DuAssumption DEF DuInit
  <2>4. duVersion \in DuVersions
    BY DEF DuInit
  <2> QED
    BY <2>1, <2>2, <2>3, <2>4 DEF TreeOK
<1>2. frames = <<>> /\ heap = <<>> /\ duPc = "call" /\ ret = 1
  BY DEF DuInit
<1>3. DOMAIN heap = {} /\ heap \in [DOMAIN heap -> Nodes] /\ Len(frames) = 0
  BY <1>2
<1>4. \A i : i \notin 1..Len(frames)
  BY <1>3
<1>5. Stack = {} /\ Good = {} /\ NodeLinked = {} /\ FriendLinked = {} /\ FriendActive = {1}
  BY <1>2, <1>3, <1>4 DEF Stack, Good, NodeLinked, FriendLinked, FriendActive
<1>6. FramesOK
  BY <1>2, <1>4 DEF FramesOK
<1>7. 1 \in DuPaths
  BY <1>1, PathsAre
<1>8. [p \in DuPaths |-> 0] \in [DuPaths -> Nat]
  OBVIOUS
<1>9. ASSUME Nodely
      PROVE  NodeInv
  <2>1. NodeHeap /\ NodeComplete /\ NodePrev
    BY <1>3, <1>4, <1>5 DEF NodeHeap, NodeComplete, NodePrev
  <2>2. NodeAt
    BY <1>2, <1>3, <1>5, <1>7 DEF NodeAt, Failed
  <2>3. Lists(NextOf, NodeFirst, NodeLinked, [p \in DuPaths |-> 0])
    BY <1>3, <1>5 DEF Lists, NodeFirst
  <2> QED
    BY <1>6, <1>8, <2>1, <2>2, <2>3 DEF NodeInv
<1>10. ASSUME duVersion = "friend"
       PROVE  FriendInv
  <2>1. FriendHeap /\ FriendComplete /\ FriendPrev
    BY <1>2, <1>3, <1>4, <1>5 DEF FriendHeap, FriendComplete, FriendPrev
  <2>2. FriendAt
    BY <1>2, <1>3, <1>4, <1>5, <1>7 DEF FriendAt
  <2> DEFINE f == [p \in DuPaths |-> NULL]
  <2>3. f \in [DuPaths -> Pointers] /\ \A p \in DuPaths : f[p] = NULL
    BY DEF Pointers
  <2> HIDE DEF f
  <2>4. Lists(NextOf, f, FriendLinked, [p \in DuPaths |-> 0])
    BY <1>5, <2>3 DEF Lists
  <2>5. FriendFirst(f)
    BY <1>2, <1>4, <1>5 DEF FriendFirst
  <2> QED
    BY <1>6, <1>8, <2>1, <2>2, <2>3, <2>4, <2>5 DEF FriendInv
<1>11. DuInv
  BY <1>2, <1>3 DEF DuInv
<1> QED
  BY <1>1, <1>2, <1>9, <1>10, <1>11 DEF TreeInv

(* Every step keeps it.                                                     *)
LEMMA TreeStays ==
  ASSUME TreeInv, [DuNext]_duVars
  PROVE  TreeInv'
<1>1. TreeOK
  BY DEF TreeInv
<1>2. CASE DuNext
  <2>1. Untouched /\ duPc \notin {"freed", "crashed"}
    BY <1>2 DEF DuNext, BuildTree, ReadDir, FriendDescend, FriendEntry, CloseDir, LinkChild, SkipChild,
                GiveUp, FriendReturn, Built, FreeTree
  <2>2. TreeOK' /\ duVersion' = duVersion
    BY <1>1, <2>1, TreeKept
  <2>3. CASE Nodely
    <3>1. NodeInv
      BY <2>1, <2>3 DEF TreeInv
    <3>2. IF duPc' = "freed" THEN DOMAIN heap' \subseteq Lost' ELSE duPc' # "crashed" /\ NodeInv'
      BY <1>1, <1>2, <2>3, <3>1, NodeKept
    <3>3. NodeInv' => duPc' \in {"call", "loop", "return", "built"}
      BY DEF NodeInv, NodeAt
    <3> QED
      BY <2>2, <2>3, <3>2, <3>3 DEF TreeInv, Nodely
  <2>4. CASE duVersion = "friend"
    <3>1. FriendInv
      BY <2>1, <2>4 DEF TreeInv
    <3>2. \/ duPc' = "freed" /\ DOMAIN heap' = {}
          \/ duPc' = "crashed" /\ Crash'
          \/ duPc' \notin {"freed", "crashed"} /\ FriendInv'
      BY <1>1, <1>2, <2>4, <3>1, FriendKept
    <3>3. FriendInv' => duPc' \in {"call", "loop", "return", "built"}
      BY DEF FriendInv, FriendAt
    <3> QED
      BY <2>2, <2>4, <3>2, <3>3 DEF TreeInv, Nodely
  <2>5. CASE duVersion = "du"
    <3>1. DuInv
      BY <2>1, <2>5 DEF TreeInv
    <3>2. \/ duPc' = "freed" /\ DOMAIN heap' = {}
          \/ duPc' \in {"call", "return", "built"} /\ DuInv'
      BY <1>1, <1>2, <2>5, <3>1, DuKept
    <3> QED
      BY <2>2, <2>5, <3>2 DEF TreeInv, Nodely
  <2>6. duVersion \in {"burner", "inconsistent", "friend", "du"}
    BY <1>1, DuAssumption DEF TreeOK
  <2> QED
    BY <2>3, <2>4, <2>5, <2>6 DEF Nodely
<1>3. CASE UNCHANGED duVars
  <2>1. Untouched /\ frames' = frames /\ heap' = heap /\ duPc' = duPc /\ ret' = ret
    BY <1>3 DEF duVars, Untouched
  <2>2. /\ TreeOK' /\ DuPaths' = DuPaths /\ \A q : Kids(q)' = Kids(q) /\ Level(q)' = Level(q)
        /\ Wanted' = Wanted /\ Asked' = Asked /\ Expected' = Expected /\ Lost' = Lost
        /\ kind' = kind /\ up' = up /\ depth' = depth /\ duVersion' = duVersion
        /\ Pointers' = Pointers /\ Nodes' = Nodes
    BY <1>1, <2>1, TreeKept
  <2>3. /\ Stack' = Stack /\ Good' = Good /\ Top' = Top /\ (Failed' = Failed)
        /\ NodeActive' = NodeActive /\ FriendActive' = FriendActive
        /\ NextOf' = NextOf /\ NodeFirst' = NodeFirst
    BY <2>1, <2>2 DEF Stack, Good, Top, Failed, NodeActive, FriendActive, NextOf, NodeFirst
  <2>4. NodeLinked' = NodeLinked /\ FriendLinked' = FriendLinked
    BY <2>1, <2>3 DEF NodeLinked, FriendLinked
  <2>5. FramesOK => FramesOK'
    BY <2>1, <2>2 DEF FramesOK
  <2>6. \A next, first, L, pos : Lists(next, first, L, pos) => Lists(next, first, L, pos)'
    BY <1>1, <2>1, TreeKept
  <2>7. NodeInv => NodeInv'
    <3>1. NodeHeap => NodeHeap'
      BY <2>1, <2>2, <2>3, <2>4 DEF NodeHeap
    <3>2. NodeComplete => NodeComplete'
      BY <2>1, <2>2, <2>3 DEF NodeComplete
    <3>3. NodePrev => NodePrev'
      BY <2>1, <2>2, <2>4 DEF NodePrev
    <3>4. NodeAt => NodeAt'
      <4>1. Kids(Top.path)' = Kids(Top.path)
        BY <2>2, <2>3 DEF Kids
      <4> QED
        BY <2>1, <2>2, <2>3, <4>1 DEF NodeAt
    <3>5. (\E pos \in [DuPaths -> Nat] : Lists(NextOf, NodeFirst, NodeLinked, pos)) =>
          (\E pos \in [DuPaths -> Nat] : Lists(NextOf, NodeFirst, NodeLinked, pos))'
      BY <2>2, <2>3, <2>4 DEF Lists
    <3> QED
      BY <2>5, <3>1, <3>2, <3>3, <3>4, <3>5 DEF NodeInv
  <2>8. FriendInv => FriendInv'
    <3>1. FriendHeap => FriendHeap'
      BY <2>1, <2>2, <2>3, <2>4 DEF FriendHeap
    <3>2. FriendComplete => FriendComplete'
      BY <2>1, <2>2, <2>3 DEF FriendComplete
    <3>3. FriendPrev => FriendPrev'
      BY <2>1, <2>2, <2>4 DEF FriendPrev
    <3>4. FriendAt => FriendAt'
      <4>1. Kids(Top.path)' = Kids(Top.path)
        BY <2>2, <2>3 DEF Kids
      <4> QED
        BY <2>1, <2>2, <2>3, <4>1 DEF FriendAt
    <3>5. ASSUME NEW first \in [DuPaths -> Pointers], NEW pos \in [DuPaths -> Nat],
                 FriendFirst(first) /\ Lists(NextOf, first, FriendLinked, pos)
          PROVE  (FriendFirst(first) /\ Lists(NextOf, first, FriendLinked, pos))'
      <4>1. FriendFirst(first)'
        BY <2>1, <2>3, <2>4, <3>5 DEF FriendFirst
      <4>2. Lists(NextOf, first, FriendLinked, pos)'
        BY <2>2, <2>3, <2>4, <3>5 DEF Lists
      <4> QED
        BY <4>1, <4>2
    <3>6. (\E first \in [DuPaths -> Pointers] : \E pos \in [DuPaths -> Nat] :
             FriendFirst(first) /\ Lists(NextOf, first, FriendLinked, pos)) =>
          (\E first \in [DuPaths -> Pointers] : \E pos \in [DuPaths -> Nat] :
             FriendFirst(first) /\ Lists(NextOf, first, FriendLinked, pos))'
      BY <2>2, <3>5
    <3> QED
      BY <2>5, <3>1, <3>2, <3>3, <3>4, <3>6 DEF FriendInv
  <2>9. DuInv => DuInv'
    BY <2>1, <2>2 DEF DuInv
  <2>10. Crash => Crash'
    <3>1. ASSUME NEW p \in DuPaths \ {1}, kind[p] = "other" /\ Cardinality(Kids(up[p])) >= 3
          PROVE  (kind[p] = "other" /\ Cardinality(Kids(up[p])) >= 3)'
      <4>1. Kids(up[p])' = Kids(up[p])
        BY <2>2 DEF Kids
      <4> QED
        BY <2>2, <3>1, <4>1
    <3> QED
      BY <2>2, <3>1 DEF Crash
  <2> QED
    BY <2>1, <2>2, <2>7, <2>8, <2>9, <2>10 DEF TreeInv, Nodely
<1> QED
  BY <1>2, <1>3

(* A set of paths has all of another if the first path that were missing in   *)
(* it had its directory missing too.                                        *)
LEMMA WholeTree ==
  ASSUME TreeOK, NEW S, NEW T, T \subseteq DuPaths,
         \A q \in T \ S : q # 1 /\ up[q] \in T \ S
  PROVE  T \subseteq S
<1> SUFFICES ASSUME T \ S # {} PROVE FALSE
  OBVIOUS
<1>1. PICK q \in T \ S : \A r \in T \ S : q <= r
  <2>1. T \ S \subseteq DuPaths
    OBVIOUS
  <2> QED
    BY <2>1, FirstPath
<1>2. q \in DuPaths \ {1} /\ up[q] \in T \ S
  BY <1>1
<1>3. up[q] < q /\ q \in Nat /\ up[q] \in Nat
  BY <1>2, PathsAre
<1> QED
  BY <1>1, <1>2, <1>3

(* A walk that wants a path wants its directory.                            *)
LEMMA WantedAbove ==
  ASSUME TreeOK, NEW q \in Wanted, q # 1
  PROVE  /\ q \in DuPaths /\ up[q] \in DuPaths
         /\ up[q] \in Wanted \/ (duVersion = "friend" /\ up[q] = 1)
<1>1. duVersion \in {"burner", "inconsistent", "friend", "du"}
  BY DuAssumption DEF TreeOK
<1>2. q \in DuPaths
  BY <1>1 DEF Wanted, Within
<1>3. up[q] \in DuPaths /\ kind[up[q]] = "dir"
  BY <1>2, PathsAre
<1>4. Level(q) = 1 + Level(up[q]) /\ Level(up[q]) \in Nat
  BY <1>2, <1>3, LevelIs
<1>5. \A l \in Int : Level(q) <= l => Level(up[q]) <= l
  BY <1>4
<1>6. Usable(up[q])
  BY <1>3 DEF Usable
<1>7. depth \in Nat /\ depth - 1 \in Int /\ 0 \in Int /\ depth \in Int
  BY DEF TreeOK
<1>8. CASE duVersion = "burner"
  <2> DEFINE top == IF depth = 0 THEN 0 ELSE depth - 1
  <2>1. \A p : p \in Wanted <=> p \in DuPaths /\ Level(p) <= top /\ Usable(p)
    BY <1>8 DEF Wanted, Within
  <2>2. top \in Int
    BY <1>7
  <2> HIDE DEF top
  <2> QED
    BY <1>2, <1>3, <1>5, <1>6, <2>1, <2>2
<1>9. CASE duVersion = "inconsistent"
  BY <1>2, <1>3, <1>5, <1>7, <1>9 DEF Wanted, Within
<1>10. CASE duVersion = "friend"
  BY <1>2, <1>3, <1>5, <1>7, <1>10 DEF Wanted, Within
<1>11. CASE duVersion = "du"
  BY <1>11 DEF Wanted
<1> QED
  BY <1>1, <1>2, <1>3, <1>8, <1>9, <1>10, <1>11

(* What a walk of burner.c or inconsistent.c has found when it is built.      *)
LEMMA NodesFound ==
  ASSUME TreeOK, Nodely, NodeInv, duPc = "built"
  PROVE  /\ Good = Expected /\ ret \in {NULL, 1} /\ frames = <<>> /\ Expected \subseteq DuPaths
         /\ ret = NULL => Expected = {}
         /\ ret # NULL => 1 \in Expected /\ DOMAIN heap = Expected /\ Lost \cap Expected = {}
<1>1. /\ frames = <<>> /\ ret \in {NULL, 1} /\ (ret = 1 => 1 \in Good)
      /\ ret = NULL => 1 \notin Good /\ (duVersion = "burner" => 1 \notin Wanted)
      /\ Failed => Expected = {}
  BY DEF NodeInv, NodeAt, NULL
<1>2. /\ DOMAIN heap \subseteq DuPaths /\ Good \subseteq DOMAIN heap
      /\ \A q \in Good : q \in Wanted /\ (q # 1 => up[q] \in Good)
      /\ Failed \/ Good = DOMAIN heap
  BY DEF NodeInv, NodeHeap, Good
<1>3. ~Failed => \A q \in Good : \A r \in Asked \cap Kids(q) : r \in Good
  <2>1. \A i \in 1..Len(frames) : FALSE
    BY <1>1, FramesAre DEF NodeInv
  <2> QED
    BY <2>1 DEF NodeInv, NodeComplete
<1>4. Lost \cap Good = {} /\ NULL # 1
  BY DEF Good, NULL
<1>5. CASE Failed
  <2>1. ret = NULL
    BY <1>5 DEF Failed
  <2>2. Good \subseteq {}
    BY <1>1, <1>2, <2>1, WholeTree
  <2> QED
    BY <1>1, <1>5, <2>1, <2>2
<1>6. CASE duVersion = "burner"
  <2>1. ~Failed /\ Asked = Wanted /\ Expected = Wanted /\ Wanted \subseteq DuPaths
    BY <1>6 DEF Failed, Asked, Expected, Wanted, Within
  <2>2. ASSUME NEW q \in Wanted \ Good
        PROVE  q # 1 /\ up[q] \in Wanted \ Good
    <3>1. q # 1
      BY <1>1, <1>6, <2>2
    <3>2. up[q] \in Wanted
      BY <1>6, <2>2, <3>1, WantedAbove
    <3>3. q \in Kids(up[q])
      BY <2>1, <2>2, <3>1 DEF Kids
    <3> QED
      BY <1>3, <2>1, <2>2, <3>1, <3>2, <3>3
  <2>3. Wanted \subseteq Good
    BY <2>1, <2>2, WholeTree
  <2>4. ASSUME ret = NULL
        PROVE  Wanted \subseteq {}
    <3>1. \A q \in Wanted \ {} : q # 1 /\ up[q] \in Wanted \ {}
      BY <1>1, <1>6, <2>4, WantedAbove
    <3> QED
      BY <2>1, <3>1, WholeTree
  <2> QED
    BY <1>1, <1>2, <1>4, <2>1, <2>3, <2>4
<1>7. CASE duVersion = "inconsistent" /\ ~Failed
  <2>1. ret = 1 /\ Asked = DuPaths
    BY <1>1, <1>7 DEF Failed, Asked
  <2>2. ASSUME NEW q \in DuPaths \ Good
        PROVE  q # 1 /\ up[q] \in DuPaths \ Good
    <3>1. q # 1
      BY <1>1, <2>1, <2>2
    <3>2. up[q] \in DuPaths
      BY <2>2, <3>1, PathsAre
    <3>3. q \in Kids(up[q])
      BY <2>2, <3>1 DEF Kids
    <3> QED
      BY <1>3, <1>7, <2>1, <2>2, <3>1, <3>2, <3>3
  <2>3. DuPaths \subseteq Good
    BY <2>2, WholeTree
  <2>4. Good = DuPaths /\ DOMAIN heap = DuPaths
    BY <1>2, <2>3
  <2>5. \A q \in DuPaths : q \in Within(depth - 1) /\ kind[q] \in {"file", "dir"}
    BY <1>2, <1>7, <2>4 DEF Wanted
  <2>6. Expected = DuPaths
    BY <1>7, <2>5 DEF Expected
  <2> QED
    BY <1>1, <1>4, <2>1, <2>4, <2>6
<1> QED
  BY <1>5, <1>6, <1>7 DEF Nodely

(* What a walk of friend_help.c has found when it is built.                  *)
LEMMA EntriesFound ==
  ASSUME TreeOK, duVersion = "friend", FriendInv, duPc = "built"
  PROVE  /\ DOMAIN heap = Expected /\ Expected \subseteq DuPaths \ {1} /\ Lost = {}
         /\ FriendLinked = Expected /\ frames = <<>>
         /\ \A q \in Expected : up[q] # 1 => up[q] \in Expected
<1>1. frames = <<>> /\ Stack = {} /\ FriendActive = {}
  <2>1. frames = <<>>
    BY DEF FriendInv, FriendAt
  <2> QED
    BY <2>1, FramesAre DEF FriendInv, FriendActive, Stack
<1>2. /\ Expected = Wanted /\ Lost = {} /\ Wanted \subseteq DuPaths \ {1}
  BY DEF Expected, Wanted, Lost, Within
<1>3. /\ DOMAIN heap \subseteq Wanted
      /\ \A q \in DOMAIN heap : up[q] # 1 => up[q] \in DOMAIN heap
  BY DEF FriendInv, FriendHeap
<1>4. \A q \in DOMAIN heap \cup {1} : \A r \in Wanted \cap Kids(q) : r \in DOMAIN heap
  <2>1. \A i \in 1..Len(frames) : FALSE
    BY <1>1, FramesAre DEF FriendInv
  <2> QED
    BY <2>1 DEF FriendInv, FriendComplete
<1>5. ASSUME NEW q \in Wanted \ DOMAIN heap
      PROVE  q # 1 /\ up[q] \in Wanted \ DOMAIN heap
  <2>1. q # 1 /\ q \in Kids(up[q])
    BY <1>2, <1>5 DEF Kids
  <2>2. up[q] \notin DOMAIN heap \cup {1}
    BY <1>4, <1>5, <2>1
  <2> QED
    BY <1>5, <2>1, <2>2, WantedAbove
<1>6. Wanted \subseteq DOMAIN heap
  BY <1>2, <1>5, WholeTree
<1> QED
  BY <1>1, <1>2, <1>3, <1>6 DEF FriendLinked

(* What hangs in a directory that is reached from p on is reached too.        *)
LEMMA ReachKids ==
  ASSUME TreeOK, NEW h, NEW L, NEW first, NEW pos, Done(h, L, first, pos), NEW p,
         NEW d \in DuPaths, first[d] \in Reach(h, p) \cup {NULL}
  PROVE  \A q \in L : up[q] = d => q \in Reach(h, p)
<1>1. /\ NULL \notin DOMAIN h /\ L \subseteq DOMAIN h
      /\ \A x \in DOMAIN h : h[x].next \in DOMAIN h \cup {NULL}
  BY DoneIs DEF Done
<1>2. Chain(h, first[d]) = {q \in L : up[q] = d}
  <2> DEFINE next == [q \in DOMAIN h |-> h[q].next]
  <2>1. Lists(next, first, L, pos) /\ pos \in [DuPaths -> Nat]
    BY DEF Done
  <2>2. \A q \in L : h[q].next = next[q]
    BY <1>1
  <2> HIDE DEF next
  <2> QED
    BY <1>1, <2>1, <2>2, ChainOfList
<1>3. Chain(h, first[d]) \subseteq Reach(h, p)
  <2>1. Reach(h, p) \in SUBSET DOMAIN h
    BY ReachIs
  <2>2. \A r \in Reach(h, p) : h[r].next \in Reach(h, p) \cup {NULL}
    BY <1>1, <2>1, ReachIs
  <2> QED
    BY <2>1, <2>2, ChainIs
<1> QED
  BY <1>2, <1>3

(* Nothing is in the chain of NULL.                                         *)
LEMMA NoChain ==
  ASSUME NEW h
  PROVE  Chain(h, NULL) = {} /\ Reach(h, NULL) = {}
<1>1. {} \in SUBSET DOMAIN h
  OBVIOUS
<1>2. Chain(h, NULL) \subseteq {}
  <2>1. NULL \in {} \cup {NULL} /\ \A r \in {} : h[r].next \in {} \cup {NULL}
    OBVIOUS
  <2>2. \A q \in Chain(h, NULL) : q \in {}
    BY <1>1, <2>1 DEF Chain
  <2> QED
    BY <2>2
<1> QED
  BY <1>2, ReachIs

\* A tree in heap h with the paths of S, its root is p: burner.c, inconsistent.c.
NodeTree(h, S, first, pos) ==
  /\ Done(h, S \ {1}, first, pos)
  /\ 1 \in S /\ DOMAIN h = S /\ h[1].next = NULL
  /\ \A q \in S \ {1} : up[q] \in S

(* What disk_usage and file_size count of a tree of burner.c or of            *)
(* inconsistent.c.                                                          *)
LEMMA NodeTreeIs ==
  ASSUME TreeOK, Nodely, NEW h, NEW S, NEW first, NEW pos, NodeTree(h, S, first, pos)
  PROVE  /\ Chain(h, 1) = {1}
         /\ \A p \in S : Chain(h, h[p].contents) = S \cap Kids(p)
         /\ DiskUsageOf(h, 1) = SizeOf(S)
         /\ FileSizeOf(h, 1) = SizeOf(S \cap (Kids(1) \cup {1}))
<1> DEFINE L == S \ {1}
<1>1. /\ Done(h, L, first, pos) /\ 1 \in S /\ DOMAIN h = S /\ h[1].next = NULL
      /\ \A q \in S \ {1} : up[q] \in S
  BY DEF NodeTree
<1>2. /\ NULL \notin S /\ S \subseteq DuPaths
      /\ \A q \in S : h[q].contents \in S \cup {NULL} /\ (kind[q] # "dir" => h[q].contents = NULL)
  BY <1>1, DoneIs
<1>3. /\ first \in [DuPaths -> Pointers] /\ pos \in [DuPaths -> Nat]
      /\ Lists([q \in DOMAIN h |-> h[q].next], first, L, pos)
      /\ \A q \in S : h[q].contents = first[q]
      /\ (h[1].type = "File") = (kind[1] = "file")
  BY <1>1 DEF Done
<1> HIDE DEF L
<1>4. Chain(h, 1) = {1}
  BY <1>1, ChainSplits, NoChain
<1>5. ASSUME NEW p \in S
      PROVE  Chain(h, h[p].contents) = S \cap Kids(p)
  <2> DEFINE next == [q \in DOMAIN h |-> h[q].next]
  <2>1. L \subseteq DOMAIN h /\ \A q \in L : h[q].next = next[q]
    BY <1>1 DEF L
  <2>2. Lists(next, first, L, pos) /\ p \in DuPaths
    BY <1>2, <1>3
  <2> HIDE DEF next
  <2>3. Chain(h, first[p]) = {q \in L : up[q] = p}
    BY <1>3, <2>1, <2>2, ChainOfList
  <2>4. {q \in L : up[q] = p} = S \cap Kids(p)
    BY <1>2 DEF L, Kids
  <2> QED
    BY <1>3, <2>3, <2>4
<1> DEFINE R == Reach(h, 1)
           c == h[1].contents
<1>6. R = S
  <2>1. R \subseteq S /\ 1 \in R /\ NULL # 1
    BY <1>1, ReachIs DEF NULL
  <2>2. \A r \in R : h[r].contents \in R \cup {NULL}
    BY <1>1, <1>2, <2>1, ReachIs
  <2>3. \A r \in R : \A q \in L : up[q] = r => q \in R
    BY <1>1, <1>2, <1>3, <2>1, <2>2, ReachKids
  <2> HIDE DEF R
  <2>4. \A q \in S \ R : q # 1 /\ up[q] \in S \ R
    BY <1>1, <2>1, <2>3 DEF L
  <2> QED
    BY <1>2, <2>1, <2>4, WholeTree
<1>7. SizeOf(S) = Usage(h, 1)
  <2>1. SizeOf(R) = (IF h[1].type = "File" THEN h[1].size ELSE SizeOf(Reach(h, c)))
                    + SizeOf(Reach(h, NULL))
    BY <1>1, ReachSize
  <2>2. SizeOf(Reach(h, NULL)) = 0 /\ NULL # 1
    BY NoChain, SizeOfNone DEF NULL
  <2>3. ListUsage(h, c) = SizeOf(Reach(h, c)) /\ SizeOf(Reach(h, c)) \in Nat
    <3>1. c \in DOMAIN h \cup {NULL} /\ Reach(h, c) \subseteq DuPaths
      BY <1>1, <1>2, ReachIs
    <3> QED
      BY <1>1, <3>1, ListUsageIs, SizeIs
  <2>4. h[1].type = "File" => h[1].size \in Nat
    <3>1. h[1].type = "File" => kind[1] = "file" /\ h[1].size = FileSize(1)
      BY <1>1, <1>3 DEF Done
    <3> QED
      BY <1>1, <1>2, <3>1, PathsAre, DuAssumption
  <2> HIDE DEF R, c
  <2>5. Usage(h, 1) = IF h[1].type = "File" THEN h[1].size ELSE ListUsage(h, c)
    BY <2>2 DEF Usage, c
  <2> QED
    BY <1>6, <2>1, <2>2, <2>3, <2>4, <2>5
<1>8. FileSizeOf(h, 1) = SizeOf(S \cap (Kids(1) \cup {1}))
  <2> DEFINE K == S \cap Kids(1)
  <2>1. FileSizeOf(h, 1) = IF h[1].type = "File" THEN h[1].size ELSE ListFiles(h, c)
    BY DEF FileSizeOf, Nodely, NULL
  <2>2. ListFiles(h, c) = SizeOf(K)
    <3>1. c \in DOMAIN h \cup {NULL} /\ Chain(h, c) = K
      BY <1>1, <1>2, <1>5
    <3> QED
      BY <1>1, <3>1, ListFilesIs
  <2>3. S \cap (Kids(1) \cup {1}) = {1} \cup K /\ {1} \cap K = {} /\ {1} \subseteq DuPaths
        /\ K \subseteq DuPaths
    BY <1>1, <1>2 DEF Kids
  <2>4. SizeOf({1} \cup K) = SizeOf({1}) + SizeOf(K)
    BY <2>3, SizeAdds
  <2>5. SizeOf({1}) = IF h[1].type = "File" THEN h[1].size ELSE 0
    BY <1>1, OwnIs DEF Own
  <2>6. h[1].type = "File" => K = {}
    <3>1. ASSUME kind[1] = "file", NEW q \in Kids(1)
          PROVE  FALSE
      BY <3>1, PathsAre DEF Kids
    <3> QED
      BY <1>3, <3>1
  <2>7. SizeOf(K) \in Nat /\ SizeOf({1}) \in Nat /\ SizeOf({}) = 0
    BY <2>3, SizeIs, SizeOfNone
  <2> HIDE DEF K, c
  <2>8. SizeOf(S \cap (Kids(1) \cup {1})) = SizeOf({1}) + SizeOf(K)
    BY <2>3, <2>4
  <2>9. CASE h[1].type = "File"
    <3>1. SizeOf(K) = 0
      BY <2>6, <2>7, <2>9
    <3>2. FileSizeOf(h, 1) = SizeOf({1})
      BY <2>1, <2>5, <2>9
    <3> QED
      BY <2>7, <2>8, <3>1, <3>2
  <2>10. CASE h[1].type # "File"
    BY <2>1, <2>2, <2>5, <2>7, <2>8, <2>10
  <2> QED
    BY <2>9, <2>10
<1>9. DiskUsageOf(h, 1) = Usage(h, 1)
  BY DEF DiskUsageOf, Nodely
<1> QED
  BY <1>4, <1>5, <1>7, <1>8, <1>9

\* The clauses of DiskUsageExact about a walk that is built.
BuiltExact(S) ==
  /\ DOMAIN heap \ Lost = S \ Lost
  /\ (ret = NULL) = (S = {})
  /\ Chain(heap, ret) = IF duVersion = "friend" THEN S \cap Kids(1) ELSE S \cap {1}
  /\ \A p \in S : Chain(heap, heap[p].contents) = S \cap Kids(p)
  /\ (\A p \in DuPaths : kind[p] # "gone") \/ duVersion # "friend" =>
       /\ DiskUsageOf(heap, ret) = SizeOf(S)
       /\ EmptyFirst \/ FileSizeOf(heap, ret) = SizeOf(S \cap (Kids(1) \cup {1}))

(* What burner.c or inconsistent.c builds is exact.                          *)
LEMMA NodesExact ==
  ASSUME TreeOK, Nodely, NodeInv, duPc = "built"
  PROVE  BuiltExact(Expected)
<1>1. /\ Good = Expected /\ ret \in {NULL, 1} /\ frames = <<>> /\ Expected \subseteq DuPaths
      /\ ret = NULL => Expected = {}
      /\ ret # NULL => 1 \in Expected /\ DOMAIN heap = Expected /\ Lost \cap Expected = {}
  BY NodesFound
<1>2. DOMAIN heap \ Lost = Expected \ Lost
  BY <1>1 DEF Good
<1>3. duVersion # "friend" /\ NULL # 1
  BY DEF Nodely, NULL
<1>4. CASE ret = NULL
  <2>1. Expected = {}
    BY <1>1, <1>4
  <2>2. DiskUsageOf(heap, NULL) = 0 /\ FileSizeOf(heap, NULL) = 0
    BY <1>3 DEF DiskUsageOf, Usage, FileSizeOf
  <2>3. Chain(heap, NULL) = {} /\ SizeOf({}) = 0
    BY NoChain, SizeOfNone
  <2>4. {} \cap {1} = {} /\ {} \cap (Kids(1) \cup {1}) = {}
    OBVIOUS
  <2> QED
    BY <1>2, <1>3, <1>4, <2>1, <2>2, <2>3, <2>4 DEF BuiltExact
<1>5. CASE ret = 1
  <2>1. 1 \in Expected /\ DOMAIN heap = Expected
    BY <1>1, <1>3, <1>5
  <2>2. NodeLinked = Expected \ {1}
    <3>1. Stack = {} /\ NodeActive = {1}
      BY <1>1, <1>5 DEF Stack, NodeActive
    <3> QED
      BY <1>1, <3>1 DEF NodeLinked
  <2>3. /\ heap \in [Expected -> Nodes]
        /\ \A q \in Expected :
             /\ q # 1 => up[q] \in Expected
             /\ heap[q].type = (IF kind[q] = "file" THEN "File" ELSE "Directory")
             /\ kind[q] = "file" => heap[q].size = FileSize(q)
             /\ q \notin NodeLinked => heap[q].next = NULL
    BY <1>1, <2>1 DEF NodeInv, NodeHeap
  <2>4. PICK pos \in [DuPaths -> Nat] : Lists(NextOf, NodeFirst, NodeLinked, pos)
    BY DEF NodeInv
  <2>5. NodeTree(heap, Expected, NodeFirst, pos)
    <3>1. NodeFirst \in [DuPaths -> Pointers]
      <4>1. \A q \in Expected : heap[q].contents \in Pointers
        BY <2>3 DEF Nodes
      <4> QED
        BY <2>1, <4>1 DEF NodeFirst, Pointers
    <3>2. \A q \in Expected : heap[q].contents = NodeFirst[q]
      BY <1>1, <2>1 DEF NodeFirst
    <3>3. Lists([q \in DOMAIN heap |-> heap[q].next], NodeFirst, Expected \ {1}, pos)
      BY <2>2, <2>4 DEF NextOf
    <3> QED
      BY <2>1, <2>2, <2>3, <3>1, <3>2, <3>3 DEF NodeTree, Done
  <2>6. /\ Chain(heap, 1) = {1}
        /\ \A p \in Expected : Chain(heap, heap[p].contents) = Expected \cap Kids(p)
        /\ DiskUsageOf(heap, 1) = SizeOf(Expected)
        /\ FileSizeOf(heap, 1) = SizeOf(Expected \cap (Kids(1) \cup {1}))
    BY <2>5, NodeTreeIs
  <2>7. Expected \cap {1} = {1} /\ Expected # {}
    BY <2>1
  <2> QED
    BY <1>2, <1>3, <1>5, <2>6, <2>7 DEF BuiltExact
<1> QED
  BY <1>1, <1>4, <1>5

\* The tree of friend_help.c: a list of what is in the root.
EntryTree(h, S, first, pos) ==
  /\ Done(h, S, first, pos)
  /\ DOMAIN h = S
  /\ \A q \in S : up[q] # 1 => up[q] \in S

(* What disk_usage and file_size count of a tree of friend_help.c.           *)
LEMMA EntryTreeIs ==
  ASSUME TreeOK, duVersion = "friend", NEW h, NEW S, NEW first, NEW pos,
         EntryTree(h, S, first, pos)
  PROVE  LET p == first[1]
         IN /\ DiskUsageOf(h, p) = SizeOf(S)
            /\ FileSizeOf(h, p) =
                 IF p # NULL /\ h[p].size = 0 /\ h[p].contents = NULL THEN 0
                 ELSE SizeOf(S \cap (Kids(1) \cup {1}))
<1> DEFINE p == first[1]
           R == Reach(h, p)
           C == Chain(h, p)
<1>1. /\ Done(h, S, first, pos) /\ DOMAIN h = S
      /\ \A q \in S : up[q] # 1 => up[q] \in S
  BY DEF EntryTree
<1>2. /\ NULL \notin S /\ S \subseteq DuPaths \ {1}
      /\ \A q \in S : h[q].contents \in S \cup {NULL}
  BY <1>1, DoneIs
<1>3. /\ first \in [DuPaths -> Pointers] /\ pos \in [DuPaths -> Nat]
      /\ Lists([q \in DOMAIN h |-> h[q].next], first, S, pos)
      /\ \A q \in S : h[q].contents = first[q]
  BY <1>1 DEF Done
<1>4. p \in S \cup {NULL} /\ 1 \in DuPaths
  BY <1>3, PathsAre DEF Lists
<1>5. C = S \cap Kids(1)
  <2> DEFINE next == [q \in DOMAIN h |-> h[q].next]
  <2>1. S \subseteq DOMAIN h /\ \A q \in S : h[q].next = next[q]
    BY <1>1
  <2>2. Lists(next, first, S, pos)
    BY <1>3
  <2> HIDE DEF next
  <2>3. C = {q \in S : up[q] = 1}
    BY <1>3, <1>4, <2>1, <2>2, ChainOfList
  <2> QED
    BY <1>2, <2>3 DEF Kids
<1>6. R = S
  <2>1. R \subseteq S /\ p \in R \cup {NULL}
    BY <1>1, <1>4, ReachIs
  <2>2. \A r \in R : h[r].contents \in R \cup {NULL}
    BY <1>1, <1>2, <2>1, ReachIs
  <2>3. \A r \in R \cup {1} : \A q \in S : up[q] = r => q \in R
    <3>1. \A r \in R \cup {1} : r \in DuPaths /\ first[r] \in R \cup {NULL}
      BY <1>2, <1>3, <1>4, <2>1, <2>2
    <3> QED
      BY <1>1, <3>1, ReachKids
  <2> HIDE DEF R
  <2>4. \A q \in S \ R : q # 1 /\ up[q] \in S \ R
    BY <1>1, <1>2, <2>3
  <2>5. S \subseteq DuPaths
    BY <1>2
  <2> QED
    BY <2>1, <2>4, <2>5, WholeTree
<1>7. ListUsage(h, p) = SizeOf(R) /\ ListFiles(h, p) = SizeOf(C)
  BY <1>1, <1>4, ListUsageIs, ListFilesIs
<1>8. S \cap (Kids(1) \cup {1}) = C
  BY <1>2, <1>5
<1>9. DiskUsageOf(h, p) = ListUsage(h, p)
  BY DEF DiskUsageOf
<1>10. p = NULL => SizeOf(C) = 0
  BY NoChain, SizeOfNone
<1> HIDE DEF p, R, C
<1>11. FileSizeOf(h, p) = IF p = NULL \/ (h[p].size = 0 /\ h[p].contents = NULL) THEN 0
                          ELSE ListFiles(h, p)
  BY DEF FileSizeOf
<1>12. FileSizeOf(h, p) = IF p # NULL /\ h[p].size = 0 /\ h[p].contents = NULL THEN 0
                          ELSE SizeOf(S \cap (Kids(1) \cup {1}))
  BY <1>7, <1>8, <1>10, <1>11
<1> QED
  BY <1>6, <1>7, <1>9, <1>12 DEF p

(* What friend_help.c builds is exact.                                      *)
LEMMA EntriesExact ==
  ASSUME TreeOK, duVersion = "friend", FriendInv, duPc = "built"
  PROVE  BuiltExact(Expected)
<1>1. /\ DOMAIN heap = Expected /\ Expected \subseteq DuPaths \ {1} /\ Lost = {}
      /\ FriendLinked = Expected /\ frames = <<>>
      /\ \A q \in Expected : up[q] # 1 => up[q] \in Expected
  BY EntriesFound
<1>2. PICK first \in [DuPaths -> Pointers] : \E pos \in [DuPaths -> Nat] :
        FriendFirst(first) /\ Lists(NextOf, first, FriendLinked, pos)
  BY DEF FriendInv
<1>3. PICK pos \in [DuPaths -> Nat] :
        FriendFirst(first) /\ Lists(NextOf, first, FriendLinked, pos)
  BY <1>2
<1>4. /\ \A q \in Expected : first[q] = heap[q].contents
      /\ first[1] = ret /\ 1 \in DuPaths
  BY <1>1, <1>3, PathsAre DEF FriendFirst
<1>5. Lists([q \in DOMAIN heap |-> heap[q].next], first, Expected, pos)
  BY <1>1, <1>3 DEF NextOf
<1>6. \A p \in DuPaths : Chain(heap, first[p]) = Expected \cap Kids(p)
  <2> DEFINE next == [q \in DOMAIN heap |-> heap[q].next]
  <2>1. Expected \subseteq DOMAIN heap /\ \A q \in Expected : heap[q].next = next[q]
    BY <1>1
  <2>2. Lists(next, first, Expected, pos)
    BY <1>5
  <2> HIDE DEF next
  <2>3. \A p \in DuPaths : Chain(heap, first[p]) = {q \in Expected : up[q] = p}
    BY <2>1, <2>2, ChainOfList
  <2> QED
    BY <1>1, <2>3 DEF Kids
<1>7. ret = NULL => Expected = {}
  <2>1. ASSUME ret = NULL
        PROVE  Expected \subseteq {}
    <3>1. Expected \cap Kids(1) = {}
      BY <1>4, <1>6, <2>1, NoChain
    <3>2. \A q \in Expected \ {} : q # 1 /\ up[q] \in Expected \ {}
      BY <1>1, <3>1 DEF Kids
    <3>3. Expected \subseteq DuPaths
      BY <1>1
    <3> QED
      BY <3>2, <3>3, WholeTree
  <2> QED
    BY <2>1
<1>8. Expected = {} => ret = NULL
  BY <1>4, <1>5 DEF Lists
<1>9. ASSUME \A p \in DuPaths : kind[p] # "gone"
      PROVE  EntryTree(heap, Expected, first, pos)
  <2>1. \A q \in Expected :
          /\ heap[q].type = (IF kind[q] \in {"file", "gone"} THEN "File" ELSE "Directory")
          /\ kind[q] = "file" => heap[q].size = FileSize(q)
    BY <1>1 DEF FriendInv, FriendHeap
  <2>2. \A q \in Expected : (heap[q].type = "File") = (kind[q] = "file")
    BY <1>1, <1>9, <2>1
  <2> QED
    BY <1>1, <1>4, <1>5, <2>1, <2>2 DEF EntryTree, Done
<1>10. ASSUME \A p \in DuPaths : kind[p] # "gone"
       PROVE  /\ DiskUsageOf(heap, ret) = SizeOf(Expected)
              /\ EmptyFirst \/ FileSizeOf(heap, ret) = SizeOf(Expected \cap (Kids(1) \cup {1}))
  <2>1. EntryTree(heap, Expected, first, pos) /\ first[1] = ret
    BY <1>4, <1>9, <1>10
  <2>2. DiskUsageOf(heap, ret) = SizeOf(Expected)
    BY <2>1, EntryTreeIs
  <2>3. FileSizeOf(heap, ret) =
          IF ret # NULL /\ heap[ret].size = 0 /\ heap[ret].contents = NULL THEN 0
          ELSE SizeOf(Expected \cap (Kids(1) \cup {1}))
    BY <2>1, EntryTreeIs
  <2> QED
    BY <2>2, <2>3 DEF EmptyFirst
<1>11. \A p \in Expected : Chain(heap, heap[p].contents) = Expected \cap Kids(p)
  BY <1>1, <1>4, <1>6
<1>12. Chain(heap, ret) = Expected \cap Kids(1)
  BY <1>4, <1>6
<1> QED
  BY <1>1, <1>7, <1>8, <1>10, <1>11, <1>12 DEF BuiltExact

(* The invariant says that the trees are exact.                             *)
LEMMA TreeExact ==
  ASSUME TreeInv
  PROVE  DiskUsageExact
<1>1. TreeOK /\ duVersion \in {"burner", "inconsistent", "friend", "du"}
  BY DuAssumption DEF TreeInv, TreeOK
<1>2. ASSUME duPc = "built", duVersion # "du"
      PROVE  BuiltExact(Expected)
  <2>1. CASE Nodely
    BY <1>1, <1>2, <2>1, NodesExact DEF TreeInv
  <2>2. CASE duVersion = "friend"
    BY <1>1, <1>2, <2>2, EntriesExact DEF TreeInv
  <2> QED
    BY <1>1, <1>2, <2>1, <2>2 DEF Nodely
<1>3. duPc = "built" /\ duVersion = "du" /\ kind[1] # "gone" => ret = NULL
  BY DEF TreeInv, DuInv
<1>4. duPc = "freed" => DOMAIN heap \subseteq Lost
  BY DEF TreeInv
<1>5. duPc = "crashed" => Crash
  BY DEF TreeInv
<1> QED
  BY <1>2, <1>3, <1>4, <1>5 DEF DiskUsageExact, BuiltExact, Crash

(* TLC's DiskUsageExact, for every tree of directories: whatever is in them   *)
(* and in whatever order readdir lists it, build_tree links every path it    *)
(* shall have once and in its directory, disk_usage and file_size add up     *)
(* exactly the files (file_size of friend_help.c when the first entry is not *)
(* empty), free_tree leaves at most the nodes that were lost.                *)
THEOREM TreesAreExact ==
  DuSpec => []DiskUsageExact
<1>1. DuInit => TreeInv
  BY TreeStarts
<1>2. TreeInv /\ [DuNext]_duVars => TreeInv'
  BY TreeStays
<1>3. TreeInv => DiskUsageExact
  BY TreeExact
<1> QED
  BY <1>1, <1>2, <1>3, PTL DEF DuSpec

=============================================================================
