----------------------------- MODULE DiskUsage -----------------------------
(***************************************************************************)
(* The disk usage lab, src/cs360/cc/ps/disk_usage: build_tree walks a      *)
(* directory and links one List node per file and directory, free_tree     *)
(* frees them, disk_usage and file_size add sizes up.  Four versions:      *)
(* burner.c, inconsistent.c, friend_help.c and du.c.  The recursion of     *)
(* build_tree is a stack of frames; a List node is named by its path.      *)
(***************************************************************************)
EXTENDS Naturals, Sequences, FiniteSets

CONSTANTS DuVersions,  \* the versions that are run
          MaxPaths,    \* paths are 1..n with n <= MaxPaths, 1 is the root
          MaxDepth,    \* the max_depth arguments are 0..MaxDepth
          FileSize(_)  \* the size of the file at a path

ASSUME DuAssumption ==
  /\ DuVersions \subseteq {"burner", "inconsistent", "friend", "du"}
  /\ MaxPaths \in Nat \ {0} /\ MaxDepth \in Nat
  /\ \A p \in 1..MaxPaths : FileSize(p) \in Nat

NULL == 0

VARIABLES duVersion,
          kind,        \* what is at a path; "closed": opendir fails, "gone": lstat fails
          up,          \* the directory that holds a path
          depth,       \* the max_depth of the root call
          frames,      \* the calls of build_tree under way, the last one runs
          heap,        \* the List nodes allocated and not freed
          duPc,        \* "call", "loop", "return", "built", "freed", "crashed"
          ret          \* what the last call returned, or whom the next is for

duVars == <<duVersion, kind, up, depth, frames, heap, duPc, ret>>

DuPaths == DOMAIN kind
Kids(d) == {p \in DuPaths \ {1} : up[p] = d}

\* A place to start: a tree of at most MaxPaths paths, in no particular order.
DuInit ==
  /\ duVersion \in DuVersions
  /\ \E n \in 1..MaxPaths :
       /\ kind \in [1..n -> {"file", "dir", "closed", "other", "gone"}]
       /\ up \in [2..n -> 1..n]
  /\ \A p \in DuPaths \ {1} :
       up[p] < p /\ kind[up[p]] = "dir" /\ \A q \in 2..p : up[q] <= up[p]
  /\ depth \in 0..MaxDepth
  /\ frames = <<>> /\ heap = <<>> /\ duPc = "call" /\ ret = 1

Node(t, s) == [type |-> t, size |-> s, contents |-> NULL, next |-> NULL]

\* The contents or the next pointer of a node is set.
Linked(h, p, field, q) == [h EXCEPT ![p][field] = q]
With(h, p, node) == [q \in DOMAIN h \cup {p} |-> IF q = p THEN node ELSE h[q]]
Without(h, S) == [q \in DOMAIN h \ S |-> h[q]]

Top == frames[Len(frames)]
ArgDepth == IF frames = <<>> THEN depth ELSE Top.depth - 1

Frame(p, d) ==
  [path |-> p, depth |-> d, todo |-> Kids(p), head |-> NULL, prev |-> NULL, sub |-> NULL]

\* The three ways a call ends or goes on: a pointer is returned, or the
\* directory is open and its entries are read.
Returns(p) == duPc' = "return" /\ ret' = p /\ UNCHANGED frames
Opens(p) == duPc' = "loop" /\ frames' = Append(frames, Frame(p, ArgDepth)) /\ UNCHANGED ret

Untouched == UNCHANGED <<duVersion, kind, up, depth>>

\* build_tree of burner.c.  A malloc or strdup that fails ends like an lstat.
BurnerCall(p) ==
  LET k == kind[p]
  IN CASE k \in {"gone", "other"} -> Returns(NULL) /\ UNCHANGED heap
       [] k = "file" -> Returns(p) /\ heap' = With(heap, p, Node("File", FileSize(p)))
       [] k \in {"dir", "closed"} /\ ArgDepth <= 1 ->
            Returns(p) /\ heap' = With(heap, p, Node("Directory", 0))
       [] k = "closed" /\ ArgDepth > 1 -> Returns(NULL) /\ UNCHANGED heap
       [] k = "dir" /\ ArgDepth > 1 ->
            Opens(p) /\ heap' = With(heap, p, Node("Directory", 0))

\* build_tree of inconsistent.c: no path at depth 0, and a directory that
\* cannot be opened loses its node.
InconsistentCall(p) ==
  LET k == kind[p]
  IN IF ArgDepth = 0 \/ k \in {"gone", "other"}
     THEN Returns(NULL) /\ UNCHANGED heap
     ELSE CASE k = "file" ->
                 Returns(p) /\ heap' = With(heap, p, Node("File", FileSize(p)))
            [] k = "closed" ->
                 Returns(NULL) /\ heap' = With(heap, p, Node("Directory", 0))
            [] k = "dir" -> Opens(p) /\ heap' = With(heap, p, Node("Directory", 0))

\* build_tree of friend_help.c is only called for directories and the root.
FriendCall(p) ==
  /\ IF ArgDepth = 0 \/ kind[p] # "dir" THEN Returns(NULL) ELSE Opens(p)
  /\ UNCHANGED heap

\* build_tree of du.c tests lstat the wrong way round: what exists is NULL, and
\* for what does not exist st is read uninitialised.
DuCall(p) ==
  IF kind[p] # "gone"
  THEN Returns(NULL) /\ UNCHANGED heap
  ELSE \/ Returns(p) /\ \E s \in {0, 1} : heap' = With(heap, p, Node("File", s))
       \/ Returns(p) /\ ArgDepth <= 1 /\ heap' = With(heap, p, Node("Directory", 0))
       \/ Returns(NULL) /\ UNCHANGED heap

BuildTree ==
  /\ duPc = "call"
  /\ CASE duVersion = "burner" -> BurnerCall(ret)
       [] duVersion = "inconsistent" -> InconsistentCall(ret)
       [] duVersion = "friend" -> FriendCall(ret)
       [] duVersion = "du" -> DuCall(ret)
  /\ Untouched

\* readdir hands out the entries of the directory in any order.
ReadDir(p) ==
  /\ duVersion # "friend" /\ duPc = "loop" /\ p \in Top.todo
  /\ frames' = [frames EXCEPT ![Len(frames)].todo = @ \ {p}]
  /\ duPc' = "call" /\ ret' = p /\ UNCHANGED heap /\ Untouched

\* friend_help.c allocates the node of a directory before it descends.
FriendDescend(p) ==
  /\ duVersion = "friend" /\ duPc = "loop" /\ p \in Top.todo
  /\ kind[p] \in {"dir", "closed"}
  /\ frames' = [frames EXCEPT ![Len(frames)].todo = @ \ {p}, ![Len(frames)].sub = p]
  /\ heap' = With(heap, p, Node("Directory", 0))
  /\ duPc' = "call" /\ ret' = p /\ Untouched

\* The list of the running call with one more node; a tail that an entry of
\* another type set to NULL is dereferenced by the entry after it.
FriendAppend(fs, h, temp) ==
  LET n == Len(fs)
      f == fs[n]
  IN IF f.head # NULL /\ f.prev = NULL
     THEN duPc' = "crashed" /\ heap' = h /\ UNCHANGED ret /\ frames' = fs
     ELSE /\ frames' = [fs EXCEPT ![n].prev = temp, ![n].head = IF @ = NULL THEN temp ELSE @]
          /\ heap' = IF f.head = NULL THEN h ELSE Linked(h, f.prev, "next", temp)
          /\ duPc' = "loop" /\ UNCHANGED ret

FriendEntry(p) ==
  /\ duVersion = "friend" /\ duPc = "loop" /\ p \in Top.todo
  /\ kind[p] \notin {"dir", "closed"}
  /\ LET read == [frames EXCEPT ![Len(frames)].todo = @ \ {p}]
     IN CASE kind[p] = "other" -> FriendAppend(read, heap, NULL)
          [] kind[p] = "file" ->
               FriendAppend(read, With(heap, p, Node("File", FileSize(p))), p)
          [] kind[p] = "gone" ->  \* stat fails and st is read uninitialised
               \E s \in {0, 1} : FriendAppend(read, With(heap, p, Node("File", s)), p)
  /\ Untouched

\* closedir, and the node (for friend_help.c the head of the list) is returned.
CloseDir ==
  /\ duPc = "loop" /\ Top.todo = {}
  /\ frames' = SubSeq(frames, 1, Len(frames) - 1)
  /\ duPc' = "return"
  /\ ret' = IF duVersion = "friend" THEN Top.head ELSE Top.path
  /\ UNCHANGED heap /\ Untouched

\* A slip to catch: prev stays at the first child, so the chain loses nodes.
PrevStays ==
  /\ duPc = "return" /\ frames # <<>> /\ ret # NULL /\ duVersion # "friend"
  /\ heap' = IF Top.prev = NULL THEN Linked(heap, Top.path, "contents", ret)
             ELSE Linked(heap, Top.prev, "next", ret)
  /\ frames' = [frames EXCEPT ![Len(frames)].prev = IF @ = NULL THEN ret ELSE @]
  /\ duPc' = "loop" /\ UNCHANGED ret /\ Untouched

\* A child came back: it becomes the contents or the next of the one before.
LinkChild ==
  /\ duPc = "return" /\ frames # <<>> /\ ret # NULL /\ duVersion # "friend"
  /\ heap' = IF Top.prev = NULL THEN Linked(heap, Top.path, "contents", ret)
             ELSE Linked(heap, Top.prev, "next", ret)
  /\ frames' = [frames EXCEPT ![Len(frames)].prev = ret]
  /\ duPc' = "loop" /\ UNCHANGED ret /\ Untouched

SkipChild ==
  /\ duPc = "return" /\ frames # <<>> /\ ret = NULL /\ duVersion = "burner"
  /\ duPc' = "loop" /\ UNCHANGED <<frames, heap, ret>> /\ Untouched

\* The nodes of the chain that starts at p: those in every set that has p and
\* what follows each of its nodes.
Chain(h, p) ==
  {q \in DOMAIN h : \A S \in SUBSET DOMAIN h :
     p \in S \cup {NULL} /\ (\A r \in S : h[r].next \in S \cup {NULL}) => q \in S}

\* The nodes under a node, itself included.
Under(h, p) ==
  {q \in DOMAIN h : \A S \in SUBSET DOMAIN h :
     p \in S \cup {NULL} /\ (\A r \in S : Chain(h, h[r].contents) \subseteq S) => q \in S}

\* The nodes free_tree frees: friend_help.c frees the siblings of the root too.
Freed(h, p) ==
  IF duVersion = "friend" THEN UNION {Under(h, q) : q \in Chain(h, p)} ELSE Under(h, p)

\* inconsistent.c gives the whole directory up when a child fails.
GiveUp ==
  /\ duPc = "return" /\ frames # <<>> /\ ret = NULL /\ duVersion = "inconsistent"
  /\ heap' = Without(heap, Freed(heap, Top.path))
  /\ frames' = SubSeq(frames, 1, Len(frames) - 1)
  /\ UNCHANGED <<duPc, ret>> /\ Untouched

\* friend_help.c: the contents of a subdirectory came back.
FriendReturn ==
  /\ duPc = "return" /\ frames # <<>> /\ duVersion = "friend"
  /\ FriendAppend(frames, Linked(heap, Top.sub, "contents", ret), Top.sub)
  /\ Untouched

Built ==
  /\ duPc = "return" /\ frames = <<>>
  /\ duPc' = "built" /\ UNCHANGED <<frames, heap, ret>> /\ Untouched

FreeTree ==
  /\ duPc = "built"
  /\ heap' = Without(heap, Freed(heap, ret))
  /\ duPc' = "freed" /\ UNCHANGED <<frames, ret>> /\ Untouched

DuNext ==
  \/ BuildTree
  \/ \E p \in DuPaths : ReadDir(p) \/ FriendDescend(p) \/ FriendEntry(p)
  \/ CloseDir \/ LinkChild \/ SkipChild \/ GiveUp \/ FriendReturn \/ Built \/ FreeTree

DuSpec == DuInit /\ [][DuNext]_duVars

-----------------------------------------------------------------------------
(* disk_usage and file_size, which only read the list. *)

\* The sizes of the nodes from p on and of all under them.
ListUsage(h, p) ==
  LET usage[q \in DOMAIN h \cup {NULL}] ==
        IF q = NULL THEN 0
        ELSE (IF h[q].type = "File" THEN h[q].size ELSE usage[h[q].contents])
             + usage[h[q].next]
  IN usage[p]

Usage(h, p) ==
  CASE p = NULL -> 0
    [] p # NULL /\ h[p].type = "File" -> h[p].size
    [] p # NULL /\ h[p].type # "File" -> ListUsage(h, h[p].contents)

ListFiles(h, p) ==
  LET files[q \in DOMAIN h \cup {NULL}] ==
        IF q = NULL THEN 0
        ELSE (IF h[q].type = "File" THEN h[q].size ELSE 0) + files[h[q].next]
  IN files[p]

\* friend_help.c is given a list, the others a node; its size shares the word
\* of contents, so that a first entry without either ends its file_size.
DiskUsageOf(h, p) == IF duVersion = "friend" THEN ListUsage(h, p) ELSE Usage(h, p)

FileSizeOf(h, p) ==
  CASE p = NULL -> 0
    [] p # NULL /\ duVersion = "friend" ->
         IF h[p].size = 0 /\ h[p].contents = NULL THEN 0 ELSE ListFiles(h, p)
    [] p # NULL /\ duVersion # "friend" ->
         IF h[p].type = "File" THEN h[p].size ELSE ListFiles(h, h[p].contents)

-----------------------------------------------------------------------------
(* Properties of the four versions. *)

\* How many directories are above a path.
Level(p) ==
  LET level[q \in DuPaths] == IF q = 1 THEN 0 ELSE 1 + level[up[q]] IN level[p]

\* The paths a walk down to the given level finds, root included.
Within(l) == {p \in DuPaths : Level(p) <= l}

\* What the tree shall have: friend_help.c lists one level more and not the
\* root, burner.c leaves out what it cannot use, inconsistent.c then gives up.
Usable(p) ==
  \/ kind[p] \in {"file", "dir"}
  \/ kind[p] = "closed" /\ Level(p) + 1 >= depth

Expected ==
  CASE duVersion = "burner" -> {p \in Within(IF depth = 0 THEN 0 ELSE depth - 1) : Usable(p)}
    [] duVersion = "inconsistent" ->
         IF DuPaths \subseteq Within(depth - 1) /\ \A p \in DuPaths : kind[p] \in {"file", "dir"}
         THEN DuPaths ELSE {}
    [] duVersion = "friend" ->
         {p \in Within(depth) \ {1} : kind[p] # "other"}

SizeOf(S) ==
  LET sum[n \in 0..MaxPaths] ==
        IF n = 0 THEN 0
        ELSE sum[n - 1] + (IF n \in S /\ kind[n] = "file" THEN FileSize(n) ELSE 0)
  IN sum[MaxPaths]

\* Nodes a directory that could not be opened leaves behind in inconsistent.c.
Lost == {p \in DuPaths : duVersion = "inconsistent" /\ kind[p] = "closed"}

\* The list of friend_help.c starts with an entry of no size and no contents.
EmptyFirst ==
  duVersion = "friend" /\ ret # NULL /\ heap[ret].size = 0 /\ heap[ret].contents = NULL

\* Whatever is in the directories and in whatever order readdir lists it, the
\* tree has every path of the walk once, each under its directory; disk_usage
\* is the sum of the files in it and file_size of those in its first level (of
\* friend_help.c only when the first entry is not empty, see FileSizeSums);
\* free_tree frees all of it.  inconsistent.c returns all or NULL, and
\* loses at most the nodes of directories it cannot open.  friend_help.c only
\* crashes on an entry that is neither file nor directory and has one before
\* and one behind it.  du.c has nothing for a path that exists.
DiskUsageExact ==
  /\ duPc = "built" /\ duVersion # "du" =>
       /\ DOMAIN heap \ Lost = Expected \ Lost
       /\ (ret = NULL) = (Expected = {})
       /\ Chain(heap, ret) = IF duVersion = "friend" THEN Expected \cap Kids(1)
                             ELSE Expected \cap {1}
       /\ \A p \in Expected :
            Chain(heap, heap[p].contents) = Expected \cap Kids(p)
       /\ (\A p \in DuPaths : kind[p] # "gone") \/ duVersion # "friend" =>
            /\ DiskUsageOf(heap, ret) = SizeOf(Expected)
            /\ EmptyFirst \/ FileSizeOf(heap, ret) = SizeOf(Expected \cap (Kids(1) \cup {1}))
  /\ duPc = "built" /\ duVersion = "du" /\ kind[1] # "gone" => ret = NULL
  /\ duPc = "freed" => DOMAIN heap \subseteq Lost
  /\ duPc = "crashed" =>
       /\ duVersion = "friend"
       /\ \E p \in DuPaths \ {1} : kind[p] = "other" /\ Cardinality(Kids(up[p])) >= 3

\* file_size of friend_help.c is the sum of the files of the level it is given,
\* whichever of them readdir lists first ("Disk Usage (POSIX ...).html", line 940).
FileSizeSums ==
  duPc = "built" /\ duVersion = "friend" /\ (\A p \in DuPaths : kind[p] # "gone") =>
    FileSizeOf(heap, ret) = SizeOf(Expected \cap Kids(1))

=============================================================================
