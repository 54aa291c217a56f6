------------------------- MODULE VariableExpansion -------------------------
(***************************************************************************)
(* expand_variables of src/cs360/cc/ps/shelllab/helper.c: a word is copied *)
(* into a buffer that grows, every $NAME replaced by the variable's value. *)
(* One step is one iteration of one of the code's loops.                   *)
(***************************************************************************)
EXTENDS Naturals, Sequences, SequencesExt

CONSTANTS Chars,       \* the characters of words and values
          Inputs,      \* the words to expand: sequences of characters
          NameChars,   \* what isalpha accepts, and '_'
          NameMax,     \* sizeof(name) - 1: a longer name is cut
          Env          \* the environment: a function from names to values

ASSUME ExpansionAssumption ==
  /\ NameMax \in Nat
  /\ "$" \in Chars \ NameChars
  /\ Inputs \subseteq Seq(Chars)
  /\ \A n \in DOMAIN Env : Env[n] \in Seq(Chars)

VARIABLES phase,       \* "idle", "scan": the loop, "value": making room for one
          in, i,       \* the word and how much of it has been read
          out,         \* what has been written; the code's o is Len(out)
          out_cap,     \* the bytes of out
          val          \* the value to write

expandVars == <<phase, in, i, out, out_cap, val>>

ExpandInit ==
  phase = "idle" /\ in = <<>> /\ i = 0 /\ out = <<>> /\ out_cap = 1 /\ val = <<>>

Call(w) ==
  /\ phase = "idle"
  /\ phase' = "scan"
  /\ in' = w /\ i' = 0
  /\ out' = <<>> /\ out_cap' = (4 * Len(w)) + 1
  /\ UNCHANGED val

Scanning == phase = "scan" /\ i < Len(in)

\* One more character, in a buffer doubled first when the character and the
\* zero after it do not both fit.
Put(c) ==
  /\ out_cap' = IF Len(out) + 1 >= out_cap THEN 2 * out_cap ELSE out_cap
  /\ out' = Append(out, c)
  /\ i' = i + 1
  /\ UNCHANGED <<phase, in, val>>

StartsName(w, k) == w[k] = "$" /\ k < Len(w) /\ w[k + 1] \in NameChars

Character == Scanning /\ in[i + 1] # "$" /\ Put(in[i + 1])

\* A '$' at the end, or before something that starts no name, is kept.
LiteralDollar == Scanning /\ in[i + 1] = "$" /\ ~StartsName(in, i + 1) /\ Put("$")

\* The last character of the name that the '$' at k starts.
NameEnd(w, k) ==
  CHOOSE e \in (k + 1)..Len(w) :
    /\ \A j \in (k + 1)..e : w[j] \in NameChars
    /\ e = Len(w) \/ w[e + 1] \notin NameChars

NameAt(w, k) ==
  LET n == NameEnd(w, k) - k
  IN SubSeq(w, k + 1, k + IF n > NameMax THEN NameMax ELSE n)

\* A slip to catch: an undefined variable writes the value of the one before.
VariableStale ==
  /\ Scanning /\ StartsName(in, i + 1)
  /\ i' = NameEnd(in, i + 1)
  /\ phase' = "value"
  /\ val' = IF NameAt(in, i + 1) \in DOMAIN Env THEN Env[NameAt(in, i + 1)] ELSE val
  /\ UNCHANGED <<in, out, out_cap>>

Variable ==
  /\ Scanning /\ StartsName(in, i + 1)
  /\ i' = NameEnd(in, i + 1)
  /\ LET name == NameAt(in, i + 1)
     IN IF name \in DOMAIN Env
        THEN phase' = "value" /\ val' = Env[name]
        ELSE UNCHANGED <<phase, val>>
  /\ UNCHANGED <<in, out, out_cap>>

\* A slip to catch: the buffer is doubled once, however long the value is.
GrowOnce ==
  /\ phase = "value" /\ Len(out) + Len(val) >= out_cap
  /\ out_cap' = 2 * out_cap /\ out' = out \o val /\ phase' = "scan"
  /\ UNCHANGED <<in, i, val>>

GrowForValue ==
  /\ phase = "value" /\ Len(out) + Len(val) >= out_cap
  /\ out_cap' = 2 * out_cap
  /\ UNCHANGED <<phase, in, i, out, val>>

WriteValue ==
  /\ phase = "value" /\ Len(out) + Len(val) < out_cap
  /\ out' = out \o val
  /\ phase' = "scan"
  /\ UNCHANGED <<in, i, out_cap, val>>

\* out[o] = '\0'
Return ==
  /\ phase = "scan" /\ i = Len(in)
  /\ phase' = "idle"
  /\ UNCHANGED <<in, i, out, out_cap, val>>

ExpandNext ==
  \/ \E w \in Inputs : Call(w)
  \/ Character \/ LiteralDollar \/ Variable \/ GrowForValue \/ WriteValue \/ Return

ExpandSpec == ExpandInit /\ [][ExpandNext]_expandVars

-----------------------------------------------------------------------------
(* Properties of expand_variables. *)

\* Whatever the word and the environment, every character and the zero behind
\* the last one are written inside the buffer.
ExpansionInBounds == Len(out) < out_cap

\* The piece of the result that comes from position k of the word w.
Piece(w, k) ==
  CASE StartsName(w, k) ->
         IF NameAt(w, k) \in DOMAIN Env THEN Env[NameAt(w, k)] ELSE <<>>
    [] \E s \in 1..(k - 1) : StartsName(w, s) /\ k <= NameEnd(w, s) -> <<>>
    [] OTHER -> <<w[k]>>

\* The result is the word with each variable, read from left to right and with
\* the longest name, replaced by its value and everything else kept.
ExpansionExact ==
  phase = "scan" /\ i = Len(in) => out = FlattenSeq([k \in DOMAIN in |-> Piece(in, k)])

=============================================================================
