----------------------------- MODULE RingBuffer -----------------------------
(***************************************************************************)
(* The ring buffer of ps/ring_lab/ring.c: bytes are stored from index      *)
(* (at + size) % capacity on and read from index at.  rb_read and rb_write *)
(* copy in two chunks, up to the end of the array and from its start on.   *)
(* One action per function; the last call and its answer are kept: the     *)
(* function's name, its arguments and its reply, sequences of integers in  *)
(* which 1 and 0 are true and false.                                       *)
(***************************************************************************)
EXTENDS Integers, Sequences

CONSTANTS
  Capacities, (* the arguments of rb_new.  With 0, which rb_new accepts,   *)
              (* rb_read, rb_write and rb_ignore divide by zero.           *)
  Byte,       (* the values of type char that are stored                   *)
  MaxBytes    (* bound: the largest number of bytes of one call            *)

ASSUME CapacityAssumption == Capacities \subseteq Nat \ {0}
ASSUME ByteAssumption == Byte \subseteq -128..127 /\ MaxBytes \in Nat

VARIABLES
  live,       (* whether the caller holds a buffer                         *)
  at, size, capacity, buffer,
  call, reply (* the last call, and what it answered                       *)

vars == <<live, at, size, capacity, buffer, call, reply>>

(* What calloc leaves in the array; what rb_peek answers when it is empty. *)
Zero == 0
NoByte == -1
NoReply == <<>>
Yes == <<1>>
No == <<0>>
NoCall == <<"none", <<>>>>
CallNames == {"none", "new", "free", "push", "pop", "peek", "clear", "ignore",
              "read", "write"}
Called(name, args) == call' = <<name, args>>

Init ==
  /\ live = FALSE
  /\ at = 0 /\ size = 0 /\ capacity = 0
  /\ buffer = [i \in {} |-> Zero]
  /\ call = NoCall /\ reply = NoReply

(* Lines 18-37. *)
rb_new(c) ==
  /\ ~live /\ live' = TRUE
  /\ at' = 0 /\ size' = 0 /\ capacity' = c
  /\ buffer' = [i \in 0..c-1 |-> Zero]
  /\ Called("new", <<c>>) /\ reply' = NoReply

(* Lines 39-46. *)
rb_free ==
  /\ live /\ live' = FALSE
  /\ at' = 0 /\ size' = 0 /\ capacity' = 0
  /\ buffer' = [i \in {} |-> Zero]
  /\ Called("free", <<>>) /\ reply' = NoReply

-----------------------------------------------------------------------------

(* Mutant: the index is not wrapped. *)
AdvanceUnwrapped(n) == at + n
(* The index n bytes behind at (lines 72, 90, 110, 114, 144, 158). *)
Advance(n) == (at + n) % capacity

AtMost(n, k) == IF n < k THEN n ELSE k

(* How many of n bytes fit between index and the end of the array (lines   *)
(* 129-133 and 161-165); the rest goes to its start.                       *)
FirstChunk(index, n) == AtMost(n, capacity - index)

(* Lines 67-77. *)
rb_push(d) ==
  /\ IF size = capacity
     THEN reply' = No /\ UNCHANGED <<buffer, size>>
     ELSE /\ buffer' = [buffer EXCEPT ![Advance(size)] = d]
          /\ size' = size + 1
          /\ reply' = Yes
  /\ UNCHANGED at

(* Lines 79-93.  data is 0 for NULL; otherwise the byte goes where it      *)
(* points, behind the result.                                              *)
rb_pop(data) ==
  /\ IF size = 0
     THEN reply' = No /\ UNCHANGED <<at, size>>
     ELSE /\ reply' = IF data = 0 THEN Yes ELSE Yes \o <<buffer[at]>>
          /\ at' = Advance(1) /\ size' = size - 1
  /\ UNCHANGED buffer

(* Lines 95-102. *)
rb_peek ==
  /\ reply' = IF size = 0 THEN <<NoByte>> ELSE <<buffer[at]>>
  /\ UNCHANGED <<at, size, buffer>>

(* Lines 104-116. *)
rb_ignore(num) ==
  /\ reply' = NoReply
  /\ IF num = 0
     THEN UNCHANGED <<at, size>>
     ELSE /\ at' = Advance(AtMost(num, size))
          /\ size' = size - AtMost(num, size)
  /\ UNCHANGED buffer

(* Lines 119-146. *)
rb_read(max_bytes) ==
  LET bytes == AtMost(max_bytes, size)
      bytes_read == FirstChunk(at, bytes)
  IN  /\ reply' = [k \in 1..bytes |->
                     buffer[IF k <= bytes_read THEN at + k - 1
                                               ELSE k - bytes_read - 1]]
      /\ at' = Advance(bytes)
      /\ size' = size - bytes
      /\ UNCHANGED buffer

(* Mutant: the second chunk repeats the first bytes of buf. *)
SecondSourceFromStart(first_chunk) == 0
(* Line 171: where in buf the second chunk comes from. *)
SecondSource(first_chunk) == first_chunk

(* Lines 148-176. *)
rb_write(buf) ==
  LET write_bytes == AtMost(Len(buf), capacity - size)
      index == Advance(size)
      first_chunk == FirstChunk(index, write_bytes)
      second_chunk == write_bytes - first_chunk
  IN  /\ buffer' = [i \in DOMAIN buffer |->
                      IF i \in index..index + first_chunk - 1
                      THEN buf[i - index + 1]
                      ELSE IF i < second_chunk
                      THEN buf[SecondSource(first_chunk) + i + 1]
                      ELSE buffer[i]]
      /\ size' = size + write_bytes
      /\ reply' = <<write_bytes>>
      /\ UNCHANGED at

(* Lines 179-183. *)
rb_clear ==
  /\ at' = 0 /\ size' = 0
  /\ reply' = NoReply
  /\ UNCHANGED buffer

-----------------------------------------------------------------------------

Bufs == UNION { [1..n -> Byte] : n \in 0..MaxBytes }

Call ==
  \/ \E d \in Byte : Called("push", <<d>>) /\ rb_push(d)
  \/ \E data \in {0, 1} : Called("pop", <<data>>) /\ rb_pop(data)
  \/ Called("peek", <<>>) /\ rb_peek
  \/ Called("clear", <<>>) /\ rb_clear
  \/ \E num \in 0..MaxBytes : Called("ignore", <<num>>) /\ rb_ignore(num)
  \/ \E num \in 0..MaxBytes : Called("read", <<num>>) /\ rb_read(num)
  \/ \E buf \in Bufs : Called("write", buf) /\ rb_write(buf)

Next ==
  \/ \E c \in Capacities : rb_new(c)
  \/ rb_free
  \/ live /\ Call /\ UNCHANGED <<live, capacity>>

Spec == Init /\ [][Next]_vars

-----------------------------------------------------------------------------
(* Properties.                                                             *)

(* Both indices stay inside the array: at always names a slot, and no more *)
(* bytes are counted than there are slots (every memcpy and every access   *)
(* of ring.c is within the array because of these two).                    *)
TypeOK ==
  /\ live \in BOOLEAN
  /\ capacity \in Nat /\ (live <=> capacity > 0)
  /\ size \in 0..capacity
  /\ at \in Nat /\ (live => at < capacity)
  /\ buffer \in [0..capacity-1 -> Byte \cup {Zero}]
  /\ call \in CallNames \X Seq(Int) /\ reply \in Seq(Int)

(* The unread bytes, oldest first. *)
Unread == [k \in 1..size |-> buffer[Advance(k - 1)]]

(* The ring buffer is a bounded queue of bytes: whatever the mix of single *)
(* bytes and blocks, of reads, ignores and clears, and wherever the data   *)
(* wraps, bytes come out once, in order and unchanged, and every answer is *)
(* the queue's, but for one that differs: rb_peek of an empty buffer is -1. *)
Queue == INSTANCE ByteQueue WITH
  Limits <- Capacities, open <- live, limit <- capacity, contents <- Unread

EmptyPeekDiffers ==
  /\ live /\ size = 0
  /\ Called("peek", <<>>) /\ reply' = <<NoByte>>
  /\ UNCHANGED <<live, capacity, Unread>>

ImplementsQueue == Queue!Init /\ [][EmptyPeekDiffers \/ Queue!Next]_vars

=============================================================================
