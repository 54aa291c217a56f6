----------------------------- MODULE ListStore -----------------------------
(***************************************************************************)
(* What the growable arrays of this repository promise: a list, changed    *)
(* and read by calls.  The vectors of vector_lab and the strings of        *)
(* cpp_strings implement it.  An index counts from zero, as in the code.   *)
(***************************************************************************)
EXTENDS Integers, Sequences, SequencesExt

CONSTANTS Item,     \* the elements
          Calls     \* the calls that are made: records [op, i, v, s]

VARIABLES list,     \* the elements in order
          call,     \* the last call
          answer    \* what it returned; <<>> for a function without a result

lists == <<list, call, answer>>

Ascending(l) == \A j, k \in DOMAIN l : j <= k => l[j] <= l[k]

Places(l, v) == {k - 1 : k \in {j \in DOMAIN l : l[j] = v}}

Permuted(l) == {[k \in DOMAIN l |-> l[p[k]]] : p \in Bijection(DOMAIN l, DOMAIN l)}

\* The lists a call may leave.
Results(c) ==
  CASE c.op \in {"new", "clear", "free"} -> {<<>>}
    [] c.op = "push" -> {Append(list, c.v)}
    [] c.op = "insert" /\ c.i <= Len(list) -> {InsertAt(list, c.i + 1, c.v)}
    \* ps/vector_lab/Vectors in C.html:1121: "or to the end of the vector".
    [] c.op = "insert" /\ c.i > Len(list) -> {Append(list, c.v)}
    [] c.op = "set" /\ c.i < Len(list) -> {[list EXCEPT ![c.i + 1] = c.v]}
    [] c.op = "remove" /\ c.i < Len(list) -> {RemoveAt(list, c.i + 1)}
    [] c.op = "sort" -> {m \in Permuted(list) : Ascending(m)}
    [] c.op = "resize" /\ c.i <= Len(list) -> {SubSeq(list, 1, c.i)}
    \* The new elements are whatever the memory holds.
    [] c.op = "resize" /\ c.i > Len(list) -> {list \o f : f \in [1..(c.i - Len(list)) -> Item]}
    [] c.op = "append" -> {list \o c.s}
    [] c.op = "prepend" -> {c.s \o list}
    [] c.op \in {"from", "exactly"} -> {c.s}
    \* stringer.c:38-39: "length is set to capacity - 1", which 0 does not have.
    [] c.op = "realloc" /\ c.v \in 1..Len(list) -> {SubSeq(list, 1, c.v - 1)}
    [] OTHER -> {list}

\* What a call may return.
Answers(c) ==
  CASE c.op = "get" -> {IF c.i < Len(list) THEN <<1, list[c.i + 1]>> ELSE <<0>>}
    [] c.op \in {"set", "remove"} -> {IF c.i < Len(list) THEN <<1>> ELSE <<0>>}
    [] c.op = "find" ->
         {<<k>> : k \in {k \in Places(list, c.v) : \A j \in Places(list, c.v) : k <= j}}
           \cup (IF Places(list, c.v) = {} THEN {<<-1>>} ELSE {})
    \* A binary search may miss only in a list that is not sorted.
    [] c.op = "bsearch" ->
         {<<k>> : k \in Places(list, c.v)}
           \cup (IF Places(list, c.v) = {} \/ ~Ascending(list) THEN {<<-1>>} ELSE {})
    [] c.op = "size" -> {<<Len(list)>>}
    [] OTHER -> {<<>>}

ListInit == list = <<>> /\ call = [op |-> "none", i |-> 0, v |-> 0, s |-> <<>>] /\ answer = <<>>

Perform(c) == call' = c /\ answer' \in Answers(c) /\ list' \in Results(c)

ListSpec == ListInit /\ [][\E c \in Calls : Perform(c)]_lists

=============================================================================
