------------------------------ MODULE ByteQueue ------------------------------
(***************************************************************************)
(* A bounded queue of bytes, the promise of the ring buffer: what was      *)
(* accepted comes out once, in order, and no more than limit bytes wait.   *)
(* The last call, its arguments and its reply, both sequences of integers, *)
(* are kept: an answer is right only for what was asked.  A call does    *)
(* what ps/ring_lab/Ring Buffers.html says of the function of its name.    *)
(***************************************************************************)
EXTENDS Integers, Sequences

CONSTANTS Limits, Byte, MaxBytes, NoReply, NoCall

VARIABLES open, limit, contents, call, reply

vars == <<open, limit, contents, call, reply>>

Called(name, args) == call' = <<name, args>>

Yes == <<1>>
No == <<0>>

AtMost(n, k) == IF n < k THEN n ELSE k
First(n) == SubSeq(contents, 1, AtMost(n, Len(contents)))
Rest(n) == SubSeq(contents, AtMost(n, Len(contents)) + 1, Len(contents))

Init ==
  /\ ~open /\ limit = 0 /\ contents = <<>>
  /\ call = NoCall /\ reply = NoReply

New ==
  /\ ~open /\ open'
  /\ limit' \in Limits /\ Called("new", <<limit'>>)
  /\ contents' = <<>> /\ reply' = NoReply

Free ==
  /\ open /\ ~open'
  /\ limit' = 0 /\ Called("free", <<>>)
  /\ contents' = <<>> /\ reply' = NoReply

Push(d) ==
  IF Len(contents) < limit
  THEN reply' = Yes /\ contents' = Append(contents, d)
  ELSE reply' = No /\ UNCHANGED contents

(* Somebody who passes no place for the byte (data = 0) only drops it. *)
Pop(data) ==
  IF contents # <<>>
  THEN /\ reply' = IF data = 0 THEN Yes ELSE Yes \o <<Head(contents)>>
       /\ contents' = Tail(contents)
  ELSE reply' = No /\ UNCHANGED contents

Peek ==
  /\ reply' = IF contents = <<>> THEN <<0>> ELSE <<Head(contents)>>
  /\ UNCHANGED contents

Ignore(n) == contents' = Rest(n) /\ reply' = NoReply

Read(n) == reply' = First(n) /\ contents' = Rest(n)

Write(bytes) ==
  LET n == AtMost(Len(bytes), limit - Len(contents))
  IN  reply' = <<n>> /\ contents' = contents \o SubSeq(bytes, 1, n)

Clear == contents' = <<>> /\ reply' = NoReply

Call ==
  \/ \E d \in Byte : Called("push", <<d>>) /\ Push(d)
  \/ \E data \in {0, 1} : Called("pop", <<data>>) /\ Pop(data)
  \/ Called("peek", <<>>) /\ Peek
  \/ Called("clear", <<>>) /\ Clear
  \/ \E n \in 0..MaxBytes : Called("ignore", <<n>>) /\ Ignore(n)
  \/ \E n \in 0..MaxBytes : Called("read", <<n>>) /\ Read(n)
  \/ \E n \in 0..MaxBytes : \E bytes \in [1..n -> Byte] :
       Called("write", bytes) /\ Write(bytes)

Next == New \/ Free \/ (open /\ Call /\ UNCHANGED <<open, limit>>)

Spec == Init /\ [][Next]_vars

=============================================================================
