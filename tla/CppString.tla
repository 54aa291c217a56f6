----------------------------- MODULE CppString -----------------------------
(***************************************************************************)
(* The strings of src/cs360/cc/ps/cpp_strings/stringer.c and of its twin   *)
(* src/cs360/cc/ic/cpp_strings/cpp_strings.c: a zero-terminated buffer     *)
(* with a length and a capacity that not every function keeps.  text is    *)
(* the block as it was allocated.  A read or a write outside it is         *)
(* recorded in outside and ends the behaviour.                             *)
(***************************************************************************)
EXTENDS Integers, Sequences, SequencesExt, FiniteSetsExt

CONSTANTS StringVersions,  \* subset of {"stringer", "cpp_strings"}
          Char,            \* the characters, positive integers
          Texts,           \* the C strings callers pass
          MaxLength        \* bound: the length and the capacity callers ask for

ASSUME StringAssumption ==
  Char \subseteq Nat \ {0} /\ Texts \subseteq Seq(Char) /\ MaxLength \in Nat

VARIABLES strVersion,
          exists,                      \* there is a string
          text, length, capa,        \* capa is the field capacity
          outside,
          lost,                        \* a text was dropped without free
          damaged,                     \* a call relied on a capacity the string had outgrown
          strCall

str     == <<exists, text, length, capa, outside, lost, damaged>>
strVars == <<strVersion, str, strCall>>

Nul == 0
\* What realloc leaves in the new part of a block.
Unset == -1

StrCall(op, v, s) == [op |-> op, i |-> 0, v |-> v, s |-> s]

StringInit ==
  /\ strVersion \in StringVersions
  /\ exists = FALSE /\ text = <<>> /\ length = 0 /\ capa = 0
  /\ outside = FALSE /\ lost = FALSE /\ damaged = FALSE
  /\ strCall = StrCall("none", 0, <<>>)

Calling(op, v, s) ==
  /\ exists /\ ~outside
  /\ strCall' = StrCall(op, v, s)
  /\ UNCHANGED <<strVersion, exists>>

\* The block after realloc to n bytes.
Resized(n) == [k \in 1..n |-> IF k <= Len(text) THEN text[k] ELSE Unset]

\* strlen of a block: the place of the first zero, or -1 when the scan runs out
\* of the block.
StrLen(b) == IF \E k \in DOMAIN b : b[k] = Nul THEN Min({k \in DOMAIN b : b[k] = Nul}) - 1 ELSE -1

CString(s) == Append(s, Nul)

Holds(b, len, cap) ==
  text' = b /\ length' = len /\ capa' = cap /\ UNCHANGED outside

\* A call that goes by the capacity.
Relies == damaged' = (damaged \/ capa <= length) /\ UNCHANGED lost

Breaks == outside' = TRUE /\ UNCHANGED <<text, length, capa>>

\* The bytes s written over b from index i, when they all fit.
Fits(b, i, s) == i + Len(s) <= Len(b)
Over(b, i, s) == [k \in DOMAIN b |-> IF k > i /\ k <= i + Len(s) THEN s[k - i] ELSE b[k]]

-----------------------------------------------------------------------------
(* Allocation. *)

Makes(op, s) ==
  /\ ~exists /\ ~outside
  /\ exists' = TRUE
  /\ Holds(CString(s), Len(s), Len(s) + 1)
  /\ damaged' = FALSE
  /\ strCall' = StrCall(op, 0, s)
  /\ UNCHANGED <<strVersion, lost>>

StringNew        == Makes("new", <<>>)
StringNewFrom(s) == Makes("from", s)

\* No memory: string_new returns NULL.
StringNewFails ==
  /\ ~exists
  /\ strCall' = StrCall("failed", 0, <<>>)
  /\ UNCHANGED <<strVersion, str>>

\* The second half shortens the string by one character, at another place.
StringRealloc(n) ==
  /\ Calling("realloc", n, <<>>)
  /\ LET b == IF n > capa THEN Resized(n) ELSE text
         c == IF n > capa THEN n ELSE capa
     IN CASE c > length -> Holds(b, length, c)
          [] c <= length /\ length - 2 \in 0..(Len(b) - 1) ->
               Holds(Over(b, length - 2, <<Nul>>), length - 1, c)
          [] OTHER -> Breaks
  /\ Relies

StringFree ==
  /\ exists /\ ~outside
  /\ exists' = FALSE
  /\ Holds(<<>>, 0, 0)
  /\ strCall' = StrCall("free", 0, <<>>)
  /\ UNCHANGED <<strVersion, lost, damaged>>

-----------------------------------------------------------------------------
(* Utilities. *)

\* realloc by the field capacity, then strncat behind the first zero.
StringPush(c) ==
  /\ Calling("push", c, <<>>)
  /\ LET b == Resized(capa + 1)
         n == StrLen(b)
     IN IF n # -1 /\ Fits(b, n, <<c, Nul>>)
        THEN Holds(Over(b, n, <<c, Nul>>), n + 1, n + 2)
        ELSE Breaks
  /\ Relies

\* A slip to catch: the capacity stays as it was.
StringAppendStale(s) ==
  /\ Calling("append", 0, s)
  /\ Holds(Over(Resized(length + Len(s) + 1), length, CString(s)), length + Len(s), capa)
  /\ UNCHANGED <<lost, damaged>>

StringAppend(s) ==
  /\ Calling("append", 0, s)
  /\ Holds(Over(Resized(length + Len(s) + 1), length, CString(s)), length + Len(s), length + Len(s) + 1)
  /\ UNCHANGED <<lost, damaged>>

\* A slip to catch: the terminator does not move with the characters.
StringPrependShort(s) ==
  /\ Calling("prepend", 0, s)
  /\ LET b == Resized(length + Len(s) + 1)
         moved == Over(b, Len(s), SubSeq(b, 1, length))
     IN Holds(Over(moved, 0, s), length + Len(s), capa)
  /\ UNCHANGED <<lost, damaged>>

\* stringer.c returns when there is no memory.
StringPrependFails(s) == Calling("failed", 0, s) /\ UNCHANGED <<text, length, capa, outside, lost, damaged>>

\* The capacity stays as it was.
StringPrepend(s) ==
  /\ Calling("prepend", 0, s)
  /\ LET b == Resized(length + Len(s) + 1)
         moved == Over(b, Len(s), SubSeq(b, 1, length + 1))
     IN Holds(Over(moved, 0, s), length + Len(s), capa)
  /\ UNCHANGED <<lost, damaged>>

StringClear ==
  /\ Calling("clear", 0, <<>>)
  /\ Holds(Over(text, 0, <<Nul>>), 0, capa)
  /\ UNCHANGED <<lost, damaged>>

\* A new copy; stringer.c forgets the old one.
Sets(s) == Calling("exactly", 0, s) /\ Holds(CString(s), Len(s), Len(s) + 1) /\ damaged' = FALSE

StringerExactly(s) == Sets(s) /\ lost' = TRUE
CppExactly(s)      == Sets(s) /\ UNCHANGED lost

-----------------------------------------------------------------------------
\* What the two files have in common.
StringCommon ==
  \/ StringNew \/ StringNewFails \/ StringFree \/ StringClear
  \/ \E n \in 0..MaxLength : StringRealloc(n)
  \/ \E c \in Char : length < MaxLength /\ StringPush(c)
  \/ \E s \in Texts :
       \/ StringNewFrom(s)
       \/ length + Len(s) <= MaxLength /\ (StringAppend(s) \/ StringPrepend(s))

StringerNext ==
  /\ strVersion = "stringer"
  /\ StringCommon \/ \E s \in Texts : StringerExactly(s) \/ StringPrependFails(s)

CppNext ==
  /\ strVersion = "cpp_strings"
  /\ StringCommon \/ \E s \in Texts : CppExactly(s)

StringNext == StringerNext \/ CppNext

StringSpec == StringInit /\ [][StringNext]_strVars

-----------------------------------------------------------------------------
(* Properties. *)

\* string_prepend alone lets a string outgrow its capacity, and only from there
\* do string_push and string_realloc leave the block.
StaysInside ==
  [][/\ outside' => capa <= length \/ damaged
     /\ exists /\ exists' /\ capa > length /\ capa' <= length' => strCall'.op = "prepend"]_strVars

\* Until a call has relied on a capacity that the string had outgrown, every
\* call leaves the characters a list would hold, terminated; string_realloc alone
\* leaves a text whole that fills the size it is asked for, where the list cuts it.
Characters == IF exists THEN SubSeq(text, 1, length) ELSE <<>>

StringCalls ==
  [op : {"new", "from", "failed", "realloc", "free", "push", "append", "prepend", "clear", "exactly"},
   i : {0}, v : Char \cup (0..MaxLength), s : Texts \cup {<<>>}]

C == INSTANCE ListStore WITH
       Item <- Char, Calls <- StringCalls, list <- Characters, call <- strCall, answer <- <<>>

Terminated == exists => length < Len(text) /\ text[length + 1] = Nul

NothingCut ==
  strCall'.op = "realloc" /\ strCall'.v \in 1..length /\ Characters' = Characters

StringIsList ==
  /\ C!ListInit
  /\ [][damaged' \/ (Terminated' /\ (NothingCut \/ \E c \in StringCalls : C!Perform(c)))]_strVars

=============================================================================
