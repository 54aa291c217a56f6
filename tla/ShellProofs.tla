----------------------------- MODULE ShellProofs -----------------------------
(***************************************************************************)
(* Safety of the shell for every set of pids, every size of the job table  *)
(* and of argv, and every set of lines: its job table and what it makes of *)
(* a line; of expand_variables for every word and every environment; and   *)
(* of the marshallers for any number of workers.                           *)
(***************************************************************************)
EXTENDS ShellJobs, VariableExpansion, Marshaller, WellFoundedInduction, FiniteSetTheorems,
        SequenceTheorems, TLAPS

ShellInv == ShellTypeOK /\ JobsMatchChildren

-----------------------------------------------------------------------------
(* The values that clear what was parsed have their types.            *)
LEMMA EmptyTyped ==
  NoFile \in Token /\ <<>> \in Seq(Token) /\ <<>> \in Seq(Texts) /\ Len(<<>>) = 0
<1>1. NoFile \in Token
  BY ShellAssumption DEF NoFile, Word, Token
<1> QED
  BY <1>1, EmptySeq

(* The table of jobs. *)

(* A pid has one active entry at most, which FirstEntry finds.             *)
LEMMA FirstEntryOnly ==
  ASSUME ShellInv, NEW p, NEW e \in Entries(p)
  PROVE  Entries(p) = {FirstEntry(p)} /\ FirstEntry(p) = e
<1>1. Entries(p) = {e}
  BY DEF ShellInv, JobsMatchChildren, Entries
<1>2. e \in Nat
  BY DEF ShellInv, ShellTypeOK, Entries
<1>3. FirstEntry(p) \in Entries(p)
  BY <1>1, <1>2 DEF FirstEntry
<1> QED
  BY <1>1, <1>3

(* What MarkDone leaves of the table: the entries of p are over, all others *)
(* are as they were.                                                       *)
LEMMA MarkDoneEntries ==
  ASSUME ShellInv, NEW p
  PROVE  /\ MarkDone(p) \in Seq([pid : Pids, active : BOOLEAN])
         /\ Len(MarkDone(p)) = Len(jobs)
         /\ \A n \in DOMAIN jobs :
              /\ MarkDone(p)[n].pid = jobs[n].pid
              /\ MarkDone(p)[n].active <=> jobs[n].active /\ jobs[n].pid # p
<1>1. jobs \in Seq([pid : Pids, active : BOOLEAN])
  BY DEF ShellInv, ShellTypeOK
<1>2. CASE Entries(p) = {}
  BY <1>1, <1>2 DEF MarkDone, Entries
<1>3. ASSUME NEW e \in Entries(p)
      PROVE  /\ MarkDone(p) \in Seq([pid : Pids, active : BOOLEAN])
             /\ Len(MarkDone(p)) = Len(jobs)
             /\ \A n \in DOMAIN jobs :
                  /\ MarkDone(p)[n].pid = jobs[n].pid
                  /\ MarkDone(p)[n].active <=> jobs[n].active /\ jobs[n].pid # p
  <2>1. MarkDone(p) = [jobs EXCEPT ![e].active = FALSE]
    BY <1>3, FirstEntryOnly DEF MarkDone
  <2>2. e \in DOMAIN jobs /\ jobs[e].pid = p
    BY <1>3 DEF Entries
  <2>3. \A n \in DOMAIN jobs : n # e => ~(jobs[n].active /\ jobs[n].pid = p)
    BY <1>3, FirstEntryOnly DEF Entries
  <2>4. e \in 1..Len(jobs) /\ DOMAIN jobs = 1..Len(jobs)
    BY <1>1, <2>2
  <2>5. jobs[e] \in [pid : Pids, active : BOOLEAN]
    BY <1>1, <2>4, ElementOfSeq, Zenon
  <2> DEFINE over == [jobs[e] EXCEPT !.active = FALSE]
  <2>6. over \in [pid : Pids, active : BOOLEAN] /\ over.pid = p /\ over.active = FALSE
    BY <2>2, <2>5
  <2>7. /\ [jobs EXCEPT ![e] = over] \in Seq([pid : Pids, active : BOOLEAN])
        /\ Len([jobs EXCEPT ![e] = over]) = Len(jobs)
        /\ \A n \in 1..Len(jobs) : [jobs EXCEPT ![e] = over][n] = IF n = e THEN over ELSE jobs[n]
    <3> HIDE DEF over
    <3> QED
      BY <1>1, <2>4, <2>6, ExceptSeq
  <2>8. MarkDone(p) = [jobs EXCEPT ![e] = over]
    BY <2>1
  <2> HIDE DEF over
  <2> QED
    BY <2>2, <2>3, <2>4, <2>6, <2>7, <2>8, Zenon
<1> QED
  BY <1>2, <1>3

(* Nothing else of the state plays a part in JobsMatchChildren.            *)
LEMMA TableSame ==
  ASSUME JobsMatchChildren, UNCHANGED table
  PROVE  JobsMatchChildren'
BY DEF JobsMatchChildren, Entries, table

-----------------------------------------------------------------------------
(* Each step of the shell preserves the invariant. *)

LEMMA ShellInitInv == ShellInit => ShellInv
<1> SUFFICES ASSUME ShellInit PROVE ShellInv
  OBVIOUS
<1>1. ShellTypeOK
  <2>1. jobs \in Seq([pid : Pids, active : BOOLEAN]) /\ Len(jobs) <= JobSlots
    BY EmptySeq, ShellAssumption DEF ShellInit
  <2>2. child \in [Pids -> Stages] /\ background \subseteq Pids
    BY DEF ShellInit, Stages
  <2>3. /\ line \in Seq(Token) /\ rest \in Seq(Token)
        /\ argv \in Seq(Texts) /\ Len(argv) <= ArgLimit
        /\ infile \in Token /\ outfile \in Token
    BY EmptyTyped, ShellAssumption DEF ShellInit
  <2> QED
    BY <2>1, <2>2, <2>3, ShellAssumption DEF ShellInit, ShellTypeOK
<1>2. JobsMatchChildren
  BY ShellAssumption DEF ShellInit, JobsMatchChildren, Entries
<1> QED
  BY <1>1, <1>2 DEF ShellInv

(* A zombie is waited for: its entry, and no other, is over with it.       *)
LEMMA ReapOneInv ==
  ASSUME ShellInv, NEW p \in Pids, ReapOne(p)
  PROVE  ShellInv'
<1>1. /\ MarkDone(p) \in Seq([pid : Pids, active : BOOLEAN])
      /\ Len(MarkDone(p)) = Len(jobs)
      /\ \A n \in DOMAIN jobs :
           /\ MarkDone(p)[n].pid = jobs[n].pid
           /\ MarkDone(p)[n].active <=> jobs[n].active /\ jobs[n].pid # p
  BY MarkDoneEntries
<1>2. DOMAIN jobs' = DOMAIN jobs /\ jobs' = MarkDone(p)
  BY <1>1 DEF ReapOne, ShellInv, ShellTypeOK
<1>3. ShellTypeOK'
  BY <1>1, <1>2 DEF ShellInv, ShellTypeOK, ReapOne, parsed, Stages
<1>4. \A q : q # p => Entries(q)' = Entries(q)
  BY <1>1, <1>2 DEF Entries
<1>5. waited = NoPid /\ p # NoPid
  BY ShellAssumption DEF ShellInv, ShellTypeOK, ReapOne
<1>6. JobsMatchChildren'
  <2>1. \A n \in DOMAIN jobs' : jobs'[n].active => jobs'[n].pid \in background'
    BY <1>1, <1>2 DEF ReapOne, ShellInv, JobsMatchChildren
  <2>2. \A n, m \in DOMAIN jobs' :
          jobs'[n].active /\ jobs'[m].active /\ jobs'[n].pid = jobs'[m].pid => n = m
    BY <1>1, <1>2 DEF ShellInv, JobsMatchChildren
  <2>3. \A q \in background' : Entries(q)' # {} \/ Len(jobs') = JobSlots
    BY <1>1, <1>2, <1>4 DEF ReapOne, ShellInv, JobsMatchChildren
  <2>4. \A q \in Pids : child'[q] # "free" <=> q \in background' \cup {waited'}
    BY <1>5 DEF ReapOne, ShellInv, ShellTypeOK, JobsMatchChildren
  <2> QED
    BY <2>1, <2>2, <2>3, <2>4 DEF JobsMatchChildren
<1> QED
  BY <1>3, <1>6 DEF ShellInv

(* A command in the background: a pid that is free is in no active entry.  *)
LEMMA RunBackgroundInv ==
  ASSUME ShellInv, NEW p \in Pids, RunBackground(p)
  PROVE  ShellInv'
<1> DEFINE entry == [pid |-> p, active |-> TRUE]
<1>1. /\ jobs \in Seq([pid : Pids, active : BOOLEAN]) /\ entry \in [pid : Pids, active : BOOLEAN]
      /\ Len(jobs) <= JobSlots /\ JobSlots \in Nat
  BY ShellAssumption DEF ShellInv, ShellTypeOK
<1>2. p \notin background /\ p # waited
  BY DEF ShellInv, JobsMatchChildren, RunBackground
<1>3. /\ jobs' \in Seq([pid : Pids, active : BOOLEAN])
      /\ Len(jobs') <= JobSlots
      /\ \A n \in DOMAIN jobs : n \in DOMAIN jobs' /\ jobs'[n] = jobs[n]
      /\ \A n \in DOMAIN jobs' : n \notin DOMAIN jobs => n = Len(jobs) + 1 /\ jobs'[n] = entry
      /\ Len(jobs) < JobSlots => Len(jobs) + 1 \in DOMAIN jobs'
      /\ Len(jobs) = JobSlots => Len(jobs') = JobSlots
  <2>1. CASE Len(jobs) < JobSlots
    <3>1. jobs' = Append(jobs, entry)
      BY <2>1 DEF RunBackground, AddJob
    <3> HIDE DEF entry
    <3> QED
      BY <1>1, <2>1, <3>1
  <2>2. CASE ~(Len(jobs) < JobSlots)
    BY <1>1, <2>2 DEF RunBackground, AddJob
  <2> QED
    BY <2>1, <2>2
<1>4. FirstStage \in Stages /\ FirstStage # "free"
  BY DEF FirstStage, Stages
<1>5. ShellTypeOK'
  BY <1>2, <1>3, <1>4 DEF ShellInv, ShellTypeOK, RunBackground, External, parsed
<1>6. JobsMatchChildren'
  <2>1. \A n \in DOMAIN jobs' : jobs'[n].active => jobs'[n].pid \in background'
    BY <1>3 DEF RunBackground, ShellInv, JobsMatchChildren
  <2>2. \A n, m \in DOMAIN jobs' :
          jobs'[n].active /\ jobs'[m].active /\ jobs'[n].pid = jobs'[m].pid => n = m
    BY <1>2, <1>3 DEF ShellInv, JobsMatchChildren
  <2>3. \A q \in background' : Entries(q)' # {} \/ Len(jobs') = JobSlots
    <3>1. \A q : Entries(q) \subseteq Entries(q)'
      BY <1>3 DEF Entries
    <3>2. Len(jobs) < JobSlots => Entries(p)' # {}
      BY <1>3 DEF Entries
    <3>3. background' = background \cup {p}
      BY DEF RunBackground
    <3> QED
      BY <1>1, <1>3, <3>1, <3>2, <3>3 DEF ShellInv, JobsMatchChildren
  <2>4. \A q \in Pids : child'[q] # "free" <=> q \in background' \cup {waited'}
    BY <1>4 DEF RunBackground, ShellInv, ShellTypeOK, JobsMatchChildren
  <2> QED
    BY <2>1, <2>2, <2>3, <2>4 DEF JobsMatchChildren
<1> QED
  BY <1>5, <1>6 DEF ShellInv

LEMMA RunForegroundInv ==
  ASSUME ShellInv, NEW p \in Pids, RunForeground(p)
  PROVE  ShellInv'
<1>1. p \notin background /\ p # NoPid
  BY ShellAssumption DEF ShellInv, JobsMatchChildren, RunForeground
<1>2. FirstStage \in Stages /\ FirstStage # "free"
  BY DEF FirstStage, Stages
<1>3. ShellTypeOK'
  BY <1>1, <1>2 DEF ShellInv, ShellTypeOK, RunForeground, External, parsed
<1>4. waited = NoPid
  BY DEF ShellInv, ShellTypeOK, RunForeground, External
<1>5. JobsMatchChildren'
  BY <1>1, <1>2, <1>4, ShellAssumption
     DEF ShellInv, ShellTypeOK, JobsMatchChildren, Entries, RunForeground
<1> QED
  BY <1>3, <1>5 DEF ShellInv

(* The foreground command was never in the table. *)
LEMMA WaitForegroundInv ==
  ASSUME ShellInv, WaitForeground
  PROVE  ShellInv'
<1>1. waited \in Pids /\ waited \notin background
  BY DEF ShellInv, ShellTypeOK, WaitForeground
<1>2. ShellTypeOK'
  BY <1>1, ShellAssumption DEF ShellInv, ShellTypeOK, WaitForeground, parsed, Stages
<1>3. JobsMatchChildren'
  BY <1>1, ShellAssumption
     DEF ShellInv, ShellTypeOK, JobsMatchChildren, Entries, WaitForeground
<1> QED
  BY <1>2, <1>3 DEF ShellInv

(* A child that goes on stays a child. *)
LEMMA ChildMovesInv ==
  ASSUME ShellInv, NEW p \in Pids, NEW from \in Stages \ {"free"}, NEW to \in Stages \ {"free"},
         ChildMoves(p, from, to)
  PROVE  ShellInv'
<1>1. ShellTypeOK'
  BY DEF ShellInv, ShellTypeOK, ChildMoves, parsed
<1>2. JobsMatchChildren'
  BY DEF ShellInv, ShellTypeOK, JobsMatchChildren, Entries, ChildMoves
<1> QED
  BY <1>1, <1>2 DEF ShellInv

(* parseline keeps what it has found within its arrays. *)
LEMMA ParseInv ==
  ASSUME ShellInv, Parse
  PROVE  ShellInv'
<1>1. UNCHANGED table
  BY DEF Parse, ParseIn, ParseOut, ParseMissing, ParseAmp, ParseArgument, ParseEnd
<1>2. at = "parse" /\ waited = NoPid
  BY DEF Parse, ParseIn, ParseOut, ParseMissing, ParseAmp, ParseArgument, ParseEnd,
         Parsing, ShellInv, ShellTypeOK
<1>3. /\ rest \in Seq(Token) /\ argv \in Seq(Texts) /\ Len(argv) <= ArgLimit
      /\ ArgLimit \in Nat
  BY ShellAssumption DEF ShellInv, ShellTypeOK
<1>4. ASSUME rest # <<>>
      PROVE  /\ rest[1] \in Token /\ Tail(rest) \in Seq(Token)
             /\ HasName => FileName \in Token /\ AfterName \in Seq(Token)
  <2>1. rest[1] \in Token /\ Tail(rest) \in Seq(Token)
    BY <1>3, <1>4
  <2>2. Len(rest) > 1 => rest[2] \in Token
    BY <1>3
  <2>3. HasName => FileName \in Token
    BY <2>1, <2>2 DEF HasName, FileName, Word, Token
  <2>4. AfterName \in Seq(Token)
    BY <1>3, SubSeqProperties DEF AfterName
  <2> QED
    BY <2>1, <2>3, <2>4
<1>5. leaked' \in BOOLEAN /\ append' \in BOOLEAN /\ amp' \in BOOLEAN
  BY Zenon DEF Parse, ParseIn, ParseOut, ParseMissing, ParseAmp, ParseArgument, ParseEnd,
               Parsing, parsed, ShellInv, ShellTypeOK
<1>6. ShellTypeOK'
  <2>1. CASE ParseIn
    BY <1>4, <1>5, <2>1 DEF ShellInv, ShellTypeOK, ParseIn, Parsing, table
  <2>2. CASE ParseOut
    BY <1>4, <1>5, <2>2 DEF ShellInv, ShellTypeOK, ParseOut, Parsing, table
  <2>3. CASE ParseMissing
    BY <1>2, <1>3, <1>5, <2>3 DEF ShellInv, ShellTypeOK, ParseMissing, table
  <2>4. CASE ParseAmp
    BY <1>4, <1>5, <2>4 DEF ShellInv, ShellTypeOK, ParseAmp, Parsing, table
  <2>5. CASE ParseArgument
    <3>1. rest[1].name \in Texts
      BY <1>4, <2>5 DEF ParseArgument, Parsing, Token
    <3>2. argv' \in Seq(Texts) /\ Len(argv') = Len(argv) + 1
      BY <1>3, <2>5, <3>1 DEF ParseArgument
    <3>3. Len(argv') <= ArgLimit
      BY <1>3, <2>5, <3>2 DEF ParseArgument, Parsing
    <3> QED
      BY <1>4, <1>5, <2>5, <3>2, <3>3 DEF ShellInv, ShellTypeOK, ParseArgument, Parsing, table
  <2>6. CASE ParseEnd
    BY <1>2, <1>5, <2>6 DEF ShellInv, ShellTypeOK, ParseEnd, table, parsed
  <2> QED
    BY <2>1, <2>2, <2>3, <2>4, <2>5, <2>6 DEF Parse
<1> QED
  BY <1>1, <1>6, TableSame DEF ShellInv

(* The steps of main that leave the table alone. *)
LEMMA OtherMainInv ==
  ASSUME ShellInv,
         \/ Prompt \/ EndOfInput \/ Exit \/ Cd \/ Jobs \/ ForkFails \/ FreeStrings
         \/ \E l \in Lines : ReadLine(l)
  PROVE  ShellInv'
<1>1. UNCHANGED table
  BY DEF Prompt, EndOfInput, Exit, Cd, Jobs, ForkFails, External, FreeStrings, ReadLine
<1>2. at \notin {"wait"} /\ waited = NoPid
  BY DEF ShellInv, ShellTypeOK, Prompt, EndOfInput, Exit, Cd, Jobs, ForkFails, External,
         FreeStrings, ReadLine
<1>3. NoFile \in Token /\ <<>> \in Seq(Token) /\ <<>> \in Seq(Texts) /\ Len(<<>>) <= ArgLimit
  BY ShellAssumption, EmptyTyped
<1>4. ShellTypeOK'
  <2>1. CASE Prompt \/ EndOfInput \/ Jobs \/ ForkFails
    BY <1>2, <2>1 DEF ShellInv, ShellTypeOK, Prompt, EndOfInput, Jobs, ForkFails, External,
                      table, parsed
  <2>2. CASE Exit \/ FreeStrings
    BY <1>2, <1>3, <2>2 DEF ShellInv, ShellTypeOK, Exit, FreeStrings, table
  <2>3. CASE Cd
    BY <1>2, <2>3 DEF ShellInv, ShellTypeOK, Cd, table, parsed
  <2>4. ASSUME NEW l \in Lines, ReadLine(l)
        PROVE  ShellTypeOK'
    <3>1. l \in Seq(Token)
      BY ShellAssumption
    <3>2. leaked' \in BOOLEAN
      BY <2>4, Zenon DEF ReadLine
    <3> QED
      BY <1>2, <1>3, <2>4, <3>1, <3>2 DEF ShellInv, ShellTypeOK, ReadLine, table
  <2> QED
    BY <2>1, <2>2, <2>3, <2>4
<1> QED
  BY <1>1, <1>4, TableSame DEF ShellInv

LEMMA ShellSameInv ==
  ASSUME ShellInv, UNCHANGED shellVars
  PROVE  ShellInv'
<1>1. ShellTypeOK'
  BY DEF ShellInv, ShellTypeOK, shellVars
<1>2. UNCHANGED table
  BY DEF shellVars, table
<1> QED
  BY <1>1, <1>2, TableSame DEF ShellInv

LEMMA ShellNextInv ==
  ASSUME ShellInv, [ShellNext]_shellVars
  PROVE  ShellInv'
<1>1. ASSUME NEW p \in Pids, ReapOne(p) \/ Run(p)
      PROVE  ShellInv'
  BY <1>1, ReapOneInv, RunBackgroundInv, RunForegroundInv DEF Run
<1>2. CASE Parse
  BY <1>2, ParseInv
<1>3. CASE WaitForeground
  BY <1>3, WaitForegroundInv
<1>4. CASE \/ Prompt \/ EndOfInput \/ Exit \/ Cd \/ Jobs \/ ForkFails \/ FreeStrings
           \/ \E l \in Lines : ReadLine(l)
  BY <1>4, OtherMainInv
<1>5. ASSUME NEW p \in Pids,
             ChildOpensIn(p) \/ ChildOpensOut(p) \/ ChildExecs(p) \/ ChildExits(p)
      PROVE  ShellInv'
  BY <1>5, ChildMovesInv DEF ChildOpensIn, ChildOpensOut, ChildExecs, ChildExits, Stages
<1>6. CASE UNCHANGED shellVars
  BY <1>6, ShellSameInv
<1> QED
  BY <1>1, <1>2, <1>3, <1>4, <1>5, <1>6 DEF ShellNext, Main

LEMMA ShellInvAlways == ShellSpec => []ShellInv
<1>1. ShellInv /\ [ShellNext]_shellVars => ShellInv'
  BY ShellNextInv
<1> QED
  BY ShellInitInv, <1>1, PTL DEF ShellSpec

(* The arrays of the shell are never overfull, and main waits for a child   *)
(* exactly when it has started one in the foreground.                      *)
THEOREM ShellTypeCorrect == ShellSpec => []ShellTypeOK
<1>1. ShellInv => ShellTypeOK
  BY DEF ShellInv
<1> QED
  BY ShellInvAlways, <1>1, PTL

(* The table agrees with the kernel however children end, pids come back    *)
(* and the table fills up: an active job is a background child that was not *)
(* waited for, and has one entry (reap_zombies, add_job, run_command).      *)
THEOREM JobsAlwaysMatch == ShellSpec => []JobsMatchChildren
<1>1. ShellInv => JobsMatchChildren
  BY DEF ShellInv
<1> QED
  BY ShellInvAlways, <1>1, PTL

-----------------------------------------------------------------------------
(* expand_variables. *)

ExpandTypeOK ==
  /\ phase \in {"idle", "scan", "value"}
  /\ in \in Seq(Chars) /\ i \in 0..Len(in)
  /\ out \in Seq(Chars) /\ val \in Seq(Chars)
  /\ out_cap \in Nat

(* The pieces of the result up to position n, joined. *)
Pieces(w) == [k \in DOMAIN w |-> Piece(w, k)]
Joined(s) ==
  CHOOSE f : f = [k \in 1..Len(s) |-> IF k = 1 THEN s[k] ELSE f[k - 1] \o s[k]]
Prefix(w, n) == IF n = 0 THEN <<>> ELSE Joined(Pieces(w))[n]

(* Position n is not in the middle of a name. *)
Outside(w, n) == \A s \in 1..n : StartsName(w, s) => NameEnd(w, s) <= n

(* What makes ExpansionExact inductive: what has been written, with the     *)
(* value still to be written, comes from what has been read.               *)
ExpandedSoFar ==
  /\ phase = "scan" => out = Prefix(in, i)
  /\ phase = "value" => out \o val = Prefix(in, i)
  /\ phase # "idle" => Outside(in, i)

ExpandInv == ExpandTypeOK /\ ExpansionInBounds /\ ExpandedSoFar

-----------------------------------------------------------------------------
(* Names. *)

(* A set of numbers that is not empty has a least element.                 *)
LEMMA LeastNatural ==
  ASSUME NEW S, S \subseteq Nat, S # {}
  PROVE  \E m \in S : \A k \in S : m <= k
<1>1. IsWellFoundedOn(OpToRel(<, Nat), Nat)
  BY NatLessThanWellFounded
<1>2. PICK m \in S : \A k \in S : <<k, m>> \notin OpToRel(<, Nat)
  BY <1>1, WFMin
<1>3. \A k \in S : ~(k < m)
  BY <1>2 DEF OpToRel
<1> QED
  BY <1>3, SMT

(* A '$' that starts a name is followed by the longest run of characters of *)
(* names, which NameEnd finds.                                             *)
LEMMA NameEndRight ==
  ASSUME NEW w \in Seq(Chars), NEW k \in 1..Len(w), StartsName(w, k)
  PROVE  /\ NameEnd(w, k) \in k + 1..Len(w)
         /\ \A j \in k + 1..NameEnd(w, k) : w[j] \in NameChars
<1> DEFINE ends == { e \in k + 1..Len(w) : e = Len(w) \/ w[e + 1] \notin NameChars }
<1>1. Len(w) \in ends /\ ends \subseteq Nat /\ w[k + 1] \in NameChars
  BY DEF StartsName
<1>2. PICK e \in ends : \A d \in ends : e <= d
  BY <1>1, LeastNatural
<1>3. ASSUME NEW j \in k + 1..e
      PROVE  w[j] \in NameChars
  <2>1. CASE j = k + 1
    BY <1>1, <2>1
  <2>2. CASE j # k + 1
    <3>1. j - 1 \notin ends /\ j - 1 \in k + 1..Len(w)
      <4>1. e \in k + 1..Len(w) /\ Len(w) \in Nat
        BY <1>2
      <4>2. j - 1 \in k + 1..Len(w) /\ ~(e <= j - 1)
        BY <2>2, <4>1
      <4> QED
        BY <1>2, <4>2, Zenon
    <3>2. w[(j - 1) + 1] \in NameChars
      BY <3>1
    <3> QED
      BY <3>2
  <2> QED
    BY <2>1, <2>2
<1>4. \E d \in (k + 1)..Len(w) :
        /\ \A j \in (k + 1)..d : w[j] \in NameChars
        /\ d = Len(w) \/ w[d + 1] \notin NameChars
  BY <1>2, <1>3
<1> QED
  BY <1>4 DEF NameEnd

(* What each position of the word contributes to the result.               *)
LEMMA PieceTyped ==
  ASSUME NEW w \in Seq(Chars), NEW k \in DOMAIN w
  PROVE  Piece(w, k) \in Seq(Chars)
<1>1. w[k] \in Chars
  OBVIOUS
<1>2. <<>> \in Seq(Chars) /\ <<w[k]>> \in Seq(Chars)
  BY <1>1
<1> QED
  BY <1>2, ExpansionAssumption DEF Piece

-----------------------------------------------------------------------------
(* Joining pieces. *)

(* The recursion by which FlattenSeq joins sequences is well defined: a     *)
(* function for the first k - 1 of them gives one for the first k.          *)
LEMMA JoinExists ==
  ASSUME NEW s, NEW n \in Nat
  PROVE  \E f : f = [k \in 1..n |-> IF k = 1 THEN s[k] ELSE f[k - 1] \o s[k]]
<1> DEFINE Join(f, m) == [k \in 1..m |-> IF k = 1 THEN s[k] ELSE f[k - 1] \o s[k]]
           undefined == { m \in Nat : ~ \E f : f = Join(f, m) }
<1> SUFFICES ASSUME n \in undefined PROVE FALSE
  OBVIOUS
<1>1. PICK m \in undefined : \A d \in undefined : m <= d
  BY LeastNatural
<1>2. m # 0
  <2>1. <<>> = Join(<<>>, 0)
    BY 1..0 = {}
  <2> QED
    BY <1>1, <2>1
<1>3. m - 1 \in Nat /\ m - 1 \notin undefined
  <2>1. m \in Nat
    BY <1>1
  <2>2. m - 1 \in Nat /\ ~(m <= m - 1)
    BY <1>2, <2>1
  <2> QED
    BY <1>1, <2>2, Zenon
<1>4. PICK f : f = Join(f, m - 1)
  BY <1>3
<1> DEFINE g == Join(f, m)
<1>5. \A k \in 1..m - 1 : g[k] = f[k]
  <2>1. \A k \in 1..m - 1 : f[k] = IF k = 1 THEN s[k] ELSE f[k - 1] \o s[k]
    BY <1>4
  <2>2. \A k \in 1..m - 1 : k \in 1..m
    BY <1>3
  <2> QED
    BY <2>1, <2>2
<1>6. \A k \in 1..m : k # 1 => k - 1 \in 1..m - 1
  BY <1>3
<1>7. g = Join(g, m)
  <2>1. \A k \in 1..m : g[k] = IF k = 1 THEN s[k] ELSE g[k - 1] \o s[k]
    BY <1>5, <1>6
  <2> QED
    BY <2>1
<1> QED
  BY <1>1, <1>7

(* So what is joined up to k is what is joined up to k - 1 and the k-th.    *)
LEMMA JoinedSteps ==
  ASSUME NEW s \in Seq(Seq(Chars))
  PROVE  /\ \A k \in 1..Len(s) :
              Joined(s)[k] = IF k = 1 THEN s[k] ELSE Joined(s)[k - 1] \o s[k]
         /\ \A k \in 1..Len(s) : Joined(s)[k] \in Seq(Chars)
         /\ FlattenSeq(s) = IF Len(s) = 0 THEN s ELSE Joined(s)[Len(s)]
<1>1. Joined(s) = [k \in 1..Len(s) |-> IF k = 1 THEN s[k] ELSE Joined(s)[k - 1] \o s[k]]
  <2>1. Len(s) \in Nat
    OBVIOUS
  <2>2. \E f : f = [k \in 1..Len(s) |-> IF k = 1 THEN s[k] ELSE f[k - 1] \o s[k]]
    BY <2>1, JoinExists
  <2> QED
    BY <2>2, Zenon DEF Joined
<1>2. FlattenSeq(s) = IF Len(s) = 0 THEN s ELSE Joined(s)[Len(s)]
  BY DEF FlattenSeq, Joined
<1>3. \A k \in 1..Len(s) :
        Joined(s)[k] = IF k = 1 THEN s[k] ELSE Joined(s)[k - 1] \o s[k]
  BY <1>1
<1>4. ASSUME NEW k \in 1..Len(s), Joined(s)[k] \notin Seq(Chars)
      PROVE  FALSE
  <2> DEFINE wrong == { d \in 1..Len(s) : Joined(s)[d] \notin Seq(Chars) }
  <2>1. k \in wrong /\ wrong \subseteq Nat
    BY <1>4
  <2>2. PICK m \in wrong : \A d \in wrong : m <= d
    BY <2>1, LeastNatural
  <2>3. m \in 1..Len(s) /\ Joined(s)[m] \notin Seq(Chars) /\ s[m] \in Seq(Chars)
    BY <2>2
  <2>4. m # 1
    BY <1>3, <2>3
  <2>5. m - 1 \in 1..Len(s) /\ m - 1 \notin wrong
    BY <2>2, <2>4
  <2>6. Joined(s)[m - 1] \in Seq(Chars)
    BY <2>5
  <2>7. Joined(s)[m] = Joined(s)[m - 1] \o s[m]
    BY <1>3, <2>3, <2>4
  <2> HIDE DEF wrong
  <2> QED
    BY <2>3, <2>6, <2>7, ConcatProperties
<1> QED
  BY <1>2, <1>3, <1>4

LEMMA PrefixSteps ==
  ASSUME NEW w \in Seq(Chars)
  PROVE  /\ Prefix(w, 0) = <<>>
         /\ \A n \in 0..Len(w) : Prefix(w, n) \in Seq(Chars)
         /\ \A n \in 1..Len(w) : Prefix(w, n) = Prefix(w, n - 1) \o Piece(w, n)
         /\ Prefix(w, Len(w)) = FlattenSeq(Pieces(w))
<1>1. Pieces(w) \in Seq(Seq(Chars)) /\ Len(Pieces(w)) = Len(w) /\ Len(w) \in Nat
  <2>1. DOMAIN w = 1..Len(w) /\ Len(w) \in Nat
    OBVIOUS
  <2>2. \A k \in 1..Len(w) : Piece(w, k) \in Seq(Chars)
    BY <2>1, PieceTyped
  <2> QED
    BY <2>1, <2>2 DEF Pieces
<1>2. \A k \in 1..Len(w) : Pieces(w)[k] = Piece(w, k) /\ Piece(w, k) \in Seq(Chars)
  BY PieceTyped DEF Pieces
<1>3. \A k \in 1..Len(w) :
        Joined(Pieces(w))[k] = IF k = 1 THEN Pieces(w)[k]
                               ELSE Joined(Pieces(w))[k - 1] \o Pieces(w)[k]
  BY <1>1, JoinedSteps
<1>4. \A n \in 0..Len(w) : Prefix(w, n) \in Seq(Chars)
  <2>1. \A k \in 1..Len(w) : Joined(Pieces(w))[k] \in Seq(Chars)
    BY <1>1, JoinedSteps
  <2>2. \A n \in 0..Len(w) : n = 0 \/ n \in 1..Len(w)
    BY <1>1
  <2>3. <<>> \in Seq(Chars)
    OBVIOUS
  <2> QED
    BY <2>1, <2>2, <2>3, Zenon DEF Prefix
<1>5. ASSUME NEW n \in 1..Len(w)
      PROVE  Prefix(w, n) = Prefix(w, n - 1) \o Piece(w, n)
  <2>1. CASE n = 1
    <3>1. Prefix(w, 1) = Piece(w, 1) /\ Prefix(w, 0) = <<>>
      BY <1>2, <1>3, <2>1 DEF Prefix
    <3>2. <<>> \o Piece(w, 1) = Piece(w, 1)
      BY <1>2, <2>1, ConcatEmptySeq
    <3> QED
      BY <2>1, <3>1, <3>2, 1 - 1 = 0, Zenon
  <2>2. CASE n # 1
    <3>1. n # 0 /\ n - 1 # 0
      BY <2>2
    <3> QED
      BY <1>2, <1>3, <2>2, <3>1, Zenon DEF Prefix
  <2> QED
    BY <2>1, <2>2
<1>6. Prefix(w, Len(w)) = FlattenSeq(Pieces(w))
  <2>1. CASE Len(w) = 0
    <3>1. Pieces(w) = <<>>
      BY <1>1, <2>1, EmptySeq
    <3> QED
      BY <1>1, <2>1, <3>1, JoinedSteps DEF Prefix
  <2>2. CASE Len(w) # 0
    BY <1>1, <2>2, JoinedSteps DEF Prefix
  <2> QED
    BY <2>1, <2>2
<1> QED
  BY <1>4, <1>5, <1>6 DEF Prefix

-----------------------------------------------------------------------------
(* What reading a character or a name adds. *)

(* Outside of names, position k is in none of those before it.             *)
LEMMA InNoName ==
  ASSUME NEW w \in Seq(Chars), NEW k \in 1..Len(w), Outside(w, k - 1)
  PROVE  \A s \in 1..k - 1 : StartsName(w, s) => ~(k <= NameEnd(w, s))
<1>1. \A s \in 1..k - 1 : s \in 1..Len(w)
  OBVIOUS
<1>2. ASSUME NEW s \in 1..k - 1, StartsName(w, s)
      PROVE  ~(k <= NameEnd(w, s))
  <2>1. NameEnd(w, s) <= k - 1 /\ NameEnd(w, s) \in s + 1..Len(w)
    BY <1>1, <1>2, NameEndRight DEF Outside
  <2> QED
    BY <2>1
<1> QED
  BY <1>2

(* A character that starts no name, where no name is being read, is kept.   *)
LEMMA CharacterKept ==
  ASSUME NEW w \in Seq(Chars), NEW k \in 1..Len(w), Outside(w, k - 1), ~StartsName(w, k)
  PROVE  /\ Outside(w, k)
         /\ Prefix(w, k) = Append(Prefix(w, k - 1), w[k])
<1>1. Outside(w, k)
  <2>1. ASSUME NEW s \in 1..k, StartsName(w, s)
        PROVE  NameEnd(w, s) <= k
    <3>1. s \in 1..k - 1 /\ s \in 1..Len(w)
      BY <2>1
    <3>2. NameEnd(w, s) <= k - 1 /\ NameEnd(w, s) \in s + 1..Len(w)
      BY <2>1, <3>1, NameEndRight DEF Outside
    <3> QED
      BY <3>2
  <2> QED
    BY <2>1 DEF Outside
<1>2. \A s \in 1..k - 1 : StartsName(w, s) => ~(k <= NameEnd(w, s))
  BY InNoName
<1>3. Piece(w, k) = <<w[k]>>
  BY <1>2 DEF Piece
<1>4. w[k] \in Chars /\ k - 1 \in 0..Len(w)
  OBVIOUS
<1>5. Prefix(w, k) = Prefix(w, k - 1) \o <<w[k]>> /\ Prefix(w, k - 1) \in Seq(Chars)
  BY <1>3, <1>4, PrefixSteps
<1>6. Prefix(w, k - 1) \o <<w[k]>> = Append(Prefix(w, k - 1), w[k])
  BY <1>4, <1>5, AppendIsConcat
<1> QED
  BY <1>1, <1>5, <1>6

(* A name adds the value of the variable, and nothing more.                 *)
LEMMA NameReplaced ==
  ASSUME NEW w \in Seq(Chars), NEW k \in 1..Len(w), Outside(w, k - 1), StartsName(w, k)
  PROVE  /\ Outside(w, NameEnd(w, k))
         /\ Prefix(w, NameEnd(w, k)) =
              Prefix(w, k - 1) \o (IF NameAt(w, k) \in DOMAIN Env THEN Env[NameAt(w, k)] ELSE <<>>)
<1> DEFINE e == NameEnd(w, k)
<1>1. /\ e \in k + 1..Len(w) /\ k \in Nat /\ Len(w) \in Nat
      /\ \A j \in k + 1..e : w[j] \in NameChars
  BY NameEndRight
<1>2. \A j \in k + 1..e : ~StartsName(w, j)
  BY <1>1, ExpansionAssumption DEF StartsName
<1> HIDE DEF e
<1>3. Outside(w, e)
  <2>1. ASSUME NEW s \in 1..e, StartsName(w, s)
        PROVE  NameEnd(w, s) <= e
    <3>1. s \notin k + 1..e
      BY <1>2, <2>1
    <3>2. s <= k
      BY <1>1, <3>1
    <3>3. CASE s = k
      BY <1>1, <3>3 DEF e
    <3>4. CASE s # k
      <4>1. s \in 1..k - 1 /\ s \in 1..Len(w)
        BY <1>1, <3>2, <3>4
      <4>2. NameEnd(w, s) <= k - 1 /\ NameEnd(w, s) \in s + 1..Len(w)
        BY <2>1, <4>1, NameEndRight DEF Outside
      <4> QED
        BY <1>1, <4>2
    <3> QED
      BY <3>3, <3>4
  <2> QED
    BY <2>1 DEF Outside
<1>4. ASSUME NEW j \in k + 1..e
      PROVE  Prefix(w, j) = Prefix(w, j - 1)
  <2>1. j \in 1..Len(w) /\ k \in 1..j - 1 /\ j <= NameEnd(w, k) /\ j - 1 \in 0..Len(w)
    BY <1>1 DEF e
  <2>2. Piece(w, j) = <<>>
    BY <1>2, <2>1 DEF Piece
  <2>3. Prefix(w, j) = Prefix(w, j - 1) \o <<>> /\ Prefix(w, j - 1) \in Seq(Chars)
    BY <2>1, <2>2, PrefixSteps
  <2> QED
    BY <2>3, ConcatEmptySeq
<1>5. Prefix(w, e) = Prefix(w, k)
  <2> DEFINE wrong == { j \in k + 1..e : Prefix(w, j) # Prefix(w, k) }
  <2>1. SUFFICES ASSUME wrong # {} PROVE FALSE
    BY <1>1
  <2>2. PICK m \in wrong : \A j \in wrong : m <= j
    <3>1. wrong \subseteq Nat
      BY <1>1
    <3> QED
      BY <2>1, <3>1, LeastNatural, Zenon
  <2>3. m \in k + 1..e /\ Prefix(w, m) # Prefix(w, k) /\ Prefix(w, m) = Prefix(w, m - 1)
    BY <1>4, <2>2
  <2>4. m - 1 \notin wrong
    <3>1. ~(m <= m - 1)
      BY <1>1, <2>3
    <3> QED
      BY <2>2, <3>1, Zenon
  <2>5. m - 1 = k \/ m - 1 \in k + 1..e
    BY <1>1, <2>3
  <2> QED
    BY <2>3, <2>4, <2>5
<1>6. Prefix(w, k) =
        Prefix(w, k - 1) \o (IF NameAt(w, k) \in DOMAIN Env THEN Env[NameAt(w, k)] ELSE <<>>)
  <2>1. Piece(w, k) = IF NameAt(w, k) \in DOMAIN Env THEN Env[NameAt(w, k)] ELSE <<>>
    <3>1. \A s \in 1..k - 1 : StartsName(w, s) => ~(k <= NameEnd(w, s))
      BY InNoName
    <3> QED
      BY <3>1 DEF Piece
  <2>2. Prefix(w, k) = Prefix(w, k - 1) \o Piece(w, k)
    BY PrefixSteps
  <2> QED
    BY <2>1, <2>2, Zenon
<1> QED
  BY <1>3, <1>5, <1>6 DEF e

-----------------------------------------------------------------------------
(* The steps of expand_variables. *)

LEMMA ExpandInitInv == ExpandInit => ExpandInv
BY DEF ExpandInit, ExpandInv, ExpandTypeOK, ExpansionInBounds, ExpandedSoFar

LEMMA CallInv ==
  ASSUME ExpandInv, NEW w \in Inputs, Call(w)
  PROVE  ExpandInv'
<1>1. w \in Seq(Chars) /\ Len(w) \in Nat /\ <<>> \in Seq(Chars) /\ Len(<<>>) = 0
  BY ExpansionAssumption
<1>2. ExpandTypeOK' /\ ExpansionInBounds'
  BY <1>1 DEF ExpandInv, ExpandTypeOK, ExpansionInBounds, Call
<1>3. Prefix(in, i)' = <<>> /\ Outside(in, i)'
  BY <1>1 DEF Call, Prefix, Outside
<1> QED
  BY <1>2, <1>3 DEF Call, ExpandInv, ExpandedSoFar

(* One character more: the buffer is doubled when it is full.              *)
LEMMA PutInv ==
  ASSUME ExpandInv, Scanning, Put(in[i + 1]), ~StartsName(in, i + 1)
  PROVE  ExpandInv'
<1>1. /\ i + 1 \in 1..Len(in) /\ in[i + 1] \in Chars /\ i \in Nat /\ (i + 1) - 1 = i
      /\ out = Prefix(in, i) /\ Outside(in, i) /\ out \in Seq(Chars) /\ out_cap \in Nat
      /\ Len(out) < out_cap
  BY DEF ExpandInv, ExpandTypeOK, ExpandedSoFar, ExpansionInBounds, Scanning
<1>2. out' \in Seq(Chars) /\ Len(out') = Len(out) + 1 /\ Len(out) \in Nat
  BY <1>1 DEF Put
<1>3. out_cap' \in Nat /\ Len(out') < out_cap'
  BY <1>1, <1>2 DEF Put
<1>4. Outside(in, i + 1) /\ Prefix(in, i + 1) = Append(Prefix(in, i), in[i + 1])
  BY <1>1, CharacterKept, Zenon DEF ExpandInv, ExpandTypeOK
<1>5. ExpandTypeOK'
  BY <1>1, <1>2, <1>3 DEF ExpandInv, ExpandTypeOK, Put
<1> QED
  BY <1>1, <1>3, <1>4, <1>5 DEF ExpandInv, ExpansionInBounds, ExpandedSoFar, Put, Scanning

LEMMA VariableInv ==
  ASSUME ExpandInv, Variable
  PROVE  ExpandInv'
<1> DEFINE e == NameEnd(in, i + 1)
           name == NameAt(in, i + 1)
           value == IF name \in DOMAIN Env THEN Env[name] ELSE <<>>
<1>1. /\ i + 1 \in 1..Len(in) /\ i \in Nat /\ (i + 1) - 1 = i /\ StartsName(in, i + 1)
      /\ out = Prefix(in, i) /\ Outside(in, i) /\ out \in Seq(Chars) /\ in \in Seq(Chars)
  BY DEF ExpandInv, ExpandTypeOK, ExpandedSoFar, Variable, Scanning
<1>2. e \in i + 2..Len(in)
  BY <1>1, NameEndRight
<1>3. Outside(in, e) /\ Prefix(in, e) = out \o value
  BY <1>1, NameReplaced, Zenon
<1>4. name \notin DOMAIN Env => out \o value = out
  BY <1>1, ConcatEmptySeq
<1>5. i' = e /\ UNCHANGED <<in, out, out_cap>> /\ phase = "scan"
  BY DEF Variable, Scanning
<1>6. IF name \in DOMAIN Env THEN phase' = "value" /\ val' = value
                             ELSE phase' = phase /\ val' = val
  BY DEF Variable
<1>7. val' \in Seq(Chars) /\ phase' \in {"scan", "value"}
  BY <1>5, <1>6, ExpansionAssumption DEF ExpandInv, ExpandTypeOK
<1> HIDE DEF e, name, value
<1>8. ExpandTypeOK' /\ ExpansionInBounds'
  BY <1>1, <1>2, <1>5, <1>7 DEF ExpandInv, ExpandTypeOK, ExpansionInBounds
<1> QED
  BY <1>3, <1>4, <1>5, <1>6, <1>8, Zenon DEF ExpandInv, ExpandedSoFar

LEMMA ValueInv ==
  ASSUME ExpandInv, GrowForValue \/ WriteValue
  PROVE  ExpandInv'
<1>1. /\ out \o val = Prefix(in, i) /\ Outside(in, i) /\ out \o val \in Seq(Chars)
      /\ Len(out \o val) = Len(out) + Len(val)
      /\ Len(out) \in Nat /\ Len(val) \in Nat
  BY ConcatProperties DEF ExpandInv, ExpandTypeOK, ExpandedSoFar, GrowForValue, WriteValue
<1>2. CASE GrowForValue
  BY <1>1, <1>2 DEF ExpandInv, ExpandTypeOK, ExpandedSoFar, ExpansionInBounds, GrowForValue
<1>3. CASE WriteValue
  BY <1>1, <1>3 DEF ExpandInv, ExpandTypeOK, ExpandedSoFar, ExpansionInBounds, WriteValue
<1> QED
  BY <1>2, <1>3

LEMMA ExpandNextInv ==
  ASSUME ExpandInv, [ExpandNext]_expandVars
  PROVE  ExpandInv'
<1>1. CASE Character
  <2>1. ~StartsName(in, i + 1)
    BY <1>1 DEF Character, StartsName
  <2> QED
    BY <1>1, <2>1, PutInv DEF Character
<1>2. CASE LiteralDollar
  <2>1. Scanning /\ Put(in[i + 1]) /\ ~StartsName(in, i + 1)
    BY <1>2 DEF LiteralDollar
  <2> QED
    BY <2>1, PutInv
<1>3. CASE Return \/ UNCHANGED expandVars
  BY <1>3 DEF ExpandInv, ExpandTypeOK, ExpandedSoFar, ExpansionInBounds, Return, expandVars
<1> QED
  BY <1>1, <1>2, <1>3, CallInv, VariableInv, ValueInv DEF ExpandNext

LEMMA ExpandInvAlways == ExpandSpec => []ExpandInv
<1>1. ExpandInv /\ [ExpandNext]_expandVars => ExpandInv'
  BY ExpandNextInv
<1> QED
  BY ExpandInitInv, <1>1, PTL DEF ExpandSpec

(* Whatever the words, the names and the values of the environment, nothing *)
(* is written behind the buffer: it is doubled before the character, and    *)
(* for a value until it fits.                                              *)
THEOREM ExpansionStaysInBounds == ExpandSpec => []ExpansionInBounds
<1>1. ExpandInv => ExpansionInBounds
  BY DEF ExpandInv
<1> QED
  BY ExpandInvAlways, <1>1, PTL

(* The result is the word with every longest name replaced by its value.   *)
THEOREM ExpansionAlwaysExact == ExpandSpec => []ExpansionExact
<1>1. ExpandInv => ExpansionExact
  BY PrefixSteps DEF ExpandInv, ExpandTypeOK, ExpandedSoFar, ExpansionExact, Pieces
<1> QED
  BY ExpandInvAlways, <1>1, PTL

-----------------------------------------------------------------------------
(* The marshallers, for every number of workers. *)

MarshalTypes ==
  /\ mpc \in {"idle", "sem", "shm", "fork", "wait", "close"}
  /\ num \in 0..MaxNum /\ waits \in 0..num
  /\ pids \in Seq(Nat) /\ Len(pids) <= num
  /\ worker \in [1..MaxNum -> {"none", "running", "zombie", "reaped"}]

(* A worker has an entry of its own in pids, and each wait that was done    *)
(* for such an entry took that worker, whatever the waits for -1 took.     *)
Enrolled ==
  /\ mpc \in {"sem", "shm"} => Len(pids) = 0 /\ \A k \in 1..MaxNum : worker[k] = "none"
  /\ mpc \in {"fork", "wait", "close"} =>
       \A k \in 1..MaxNum : worker[k] # "none" => k \in 1..Len(pids) /\ pids[k] = k
  /\ mpc \in {"sem", "shm", "fork"} => waits = 0

Waited ==
  /\ mpc \in {"wait", "close"} => Len(pids) = num
  /\ mpc \in {"wait", "close"} =>
       \A k \in 1..waits : pids[k] # NoWorker => worker[k] \notin {"running", "zombie"}
  /\ mpc = "close" => waits = num

OwnEntries == \A k \in 1..Len(pids) : pids[k] \in {k, NoWorker}

MarshalInv == MarshalTypes /\ OwnEntries /\ Enrolled /\ Waited

LEMMA MarshalInitInv == MarshalInit => MarshalInv
<1> SUFFICES ASSUME MarshalInit PROVE MarshalInv
  OBVIOUS
<1>1. pids \in Seq(Nat) /\ Len(pids) = 0
  BY EmptySeq DEF MarshalInit
<1> QED
  BY <1>1, MarshalAssumption
     DEF MarshalInit, MarshalInv, MarshalTypes, OwnEntries, Enrolled, Waited

LEMMA MarshalStartInv ==
  ASSUME MarshalInv, NEW k \in 1..MaxNum, MarshalStart(k)
  PROVE  MarshalInv'
<1>1. pids' \in Seq(Nat) /\ Len(pids') = 0
  BY EmptySeq DEF MarshalStart
<1> QED
  BY <1>1, MarshalAssumption
     DEF MarshalStart, MStep, MarshalInv, MarshalTypes, OwnEntries, Enrolled, Waited

LEMMA CreatesInv ==
  ASSUME MarshalInv, CreateSemaphore \/ CreateShared \/ CreateSharedFails
  PROVE  MarshalInv'
<1>1. UNCHANGED <<num, pids, waits, worker>>
  BY DEF CreateSemaphore, CreateShared, CreateSharedFails, Creates
<1>2. mpc \in {"sem", "shm"} /\ mpc' \in {"idle", "shm", "fork"}
  BY DEF CreateSemaphore, CreateShared, CreateSharedFails, Creates, MStep
<1>3. MarshalTypes' /\ OwnEntries'
  BY <1>1, <1>2 DEF MarshalInv, MarshalTypes, OwnEntries
<1>4. Enrolled' /\ Waited'
  BY <1>1, <1>2 DEF MarshalInv, Enrolled, Waited
<1> QED
  BY <1>3, <1>4 DEF MarshalInv

LEMMA ForkWorkerInv ==
  ASSUME MarshalInv, ForkWorker
  PROVE  MarshalInv'
<1>1. PICK p \in {Len(pids) + 1, NoWorker} :
        /\ pids' = Append(pids, p)
        /\ worker' = IF p = NoWorker THEN worker ELSE [worker EXCEPT ![Len(pids) + 1] = "running"]
  BY MarshalAssumption DEF ForkWorker, MarshalInv, MarshalTypes, NoWorker
<1>2. Len(pids) \in Nat /\ Len(pids) + 1 \in 1..MaxNum /\ Len(pids) < num
  BY MarshalAssumption DEF ForkWorker, MarshalInv, MarshalTypes
<1>3. /\ pids' \in Seq(Nat) /\ Len(pids') = Len(pids) + 1
      /\ \A k \in 1..Len(pids) : pids'[k] = pids[k]
      /\ pids'[Len(pids) + 1] = p
  BY <1>1, <1>2 DEF MarshalInv, MarshalTypes, NoWorker
<1>4. MarshalTypes'
  BY <1>1, <1>2, <1>3 DEF ForkWorker, MarshalInv, MarshalTypes
<1>5. OwnEntries'
  <2> SUFFICES ASSUME NEW k \in 1..Len(pids') PROVE pids'[k] \in {k, NoWorker}
    BY DEF OwnEntries
  <2>1. k \in 1..Len(pids) \/ k = Len(pids) + 1
    BY <1>2, <1>3
  <2> QED
    BY <1>3, <2>1 DEF MarshalInv, OwnEntries
<1>6. Enrolled'
  <2>1. mpc = "fork" /\ mpc' = "fork" /\ waits' = waits
    BY DEF ForkWorker
  <2>2. ASSUME NEW k \in 1..MaxNum, worker'[k] # "none"
        PROVE  k \in 1..Len(pids') /\ pids'[k] = k
    <3>1. CASE p # NoWorker /\ k = Len(pids) + 1
      BY <1>2, <1>3, <3>1
    <3>2. CASE p = NoWorker \/ k # Len(pids) + 1
      <4>1. worker[k] # "none"
        BY <1>1, <2>2, <3>2 DEF MarshalInv, MarshalTypes
      <4>2. k \in 1..Len(pids) /\ pids[k] = k
        BY <2>1, <4>1 DEF MarshalInv, Enrolled
      <4> QED
        BY <1>2, <1>3, <4>2
    <3> QED
      BY <3>1, <3>2
  <2> QED
    BY <2>1, <2>2 DEF MarshalInv, Enrolled
<1> QED
  BY <1>4, <1>5, <1>6 DEF MarshalInv, Waited, ForkWorker

(* Who is waited for by pid is reaped, and who was reaped stays so.        *)
LEMMA WaitWorkerInv ==
  ASSUME MarshalInv, WaitWorker
  PROVE  MarshalInv'
<1>1. /\ mpc = "wait" /\ mpc' = "wait" /\ waits \in Nat /\ waits' = waits + 1 /\ waits < num
      /\ UNCHANGED <<num, pids>> /\ Len(pids) = num /\ num \in 0..MaxNum
      /\ waits + 1 \in 1..Len(pids) /\ waits + 1 \in 1..MaxNum
  BY MarshalAssumption DEF WaitWorker, MarshalInv, MarshalTypes, Waited
<1>2. PICK S \in SUBSET (1..MaxNum) :
        /\ worker' = [k \in 1..MaxNum |-> IF k \in S THEN "reaped" ELSE worker[k]]
        /\ \A k \in S : worker[k] # "none"
        /\ pids[waits + 1] # NoWorker => waits + 1 \in S
  <2>1. CASE /\ pids[waits + 1] # NoWorker /\ worker[waits + 1] \in {"zombie", "reaped"}
             /\ worker' = [worker EXCEPT ![waits + 1] = "reaped"]
    <3>1. worker' = [k \in 1..MaxNum |-> IF k \in {waits + 1} THEN "reaped" ELSE worker[k]]
      BY <2>1 DEF MarshalInv, MarshalTypes
    <3> QED
      BY <1>1, <2>1, <3>1
  <2>2. ASSUME pids[waits + 1] = NoWorker, NEW z \in Zombies, worker' = [worker EXCEPT ![z] = "reaped"]
        PROVE  \E S \in SUBSET (1..MaxNum) :
                 /\ worker' = [k \in 1..MaxNum |-> IF k \in S THEN "reaped" ELSE worker[k]]
                 /\ \A k \in S : worker[k] # "none"
                 /\ pids[waits + 1] # NoWorker => waits + 1 \in S
    <3>1. worker' = [k \in 1..MaxNum |-> IF k \in {z} THEN "reaped" ELSE worker[k]]
      BY <2>2 DEF MarshalInv, MarshalTypes
    <3>2. z \in 1..MaxNum /\ worker[z] # "none"
      BY <2>2 DEF Zombies
    <3>3. {z} \in SUBSET (1..MaxNum)
      BY <3>2
    <3> WITNESS {z} \in SUBSET (1..MaxNum)
    <3> QED
      BY <2>2, <3>1, <3>2
  <2>3. CASE pids[waits + 1] = NoWorker /\ worker' = worker
    <3>1. worker' = [k \in 1..MaxNum |-> IF k \in {} THEN "reaped" ELSE worker[k]]
      BY <2>3 DEF MarshalInv, MarshalTypes
    <3> WITNESS {} \in SUBSET (1..MaxNum)
    <3> QED
      BY <2>3, <3>1
  <2> QED
    BY <2>1, <2>2, <2>3 DEF WaitWorker, Waitpid
<1>3. MarshalTypes'
  BY <1>1, <1>2 DEF MarshalInv, MarshalTypes
<1>4. OwnEntries'
  BY <1>1 DEF MarshalInv, OwnEntries
<1>5. Enrolled'
  BY <1>1, <1>2 DEF MarshalInv, MarshalTypes, Enrolled
<1>6. Waited'
  <2>1. ASSUME NEW k \in 1..waits', pids[k] # NoWorker
        PROVE  worker'[k] \notin {"running", "zombie"}
    <3>1. k \in 1..MaxNum /\ (k \in 1..waits \/ k = waits + 1)
      <4>1. k \in 1..waits + 1 /\ MaxNum \in Nat /\ num <= MaxNum
        BY <1>1, MarshalAssumption
      <4> QED
        BY <1>1, <4>1
    <3>2. CASE k \in 1..waits
      BY <1>1, <1>2, <2>1, <3>1, <3>2 DEF MarshalInv, Waited
    <3>3. CASE k = waits + 1
      BY <1>2, <2>1, <3>1, <3>3
    <3> QED
      BY <3>1, <3>2, <3>3
  <2> QED
    BY <1>1, <2>1 DEF Waited
<1> QED
  BY <1>3, <1>4, <1>5, <1>6 DEF MarshalInv

LEMMA MarshalOthersInv ==
  ASSUME MarshalInv, ForkedAll \/ WaitEnd \/ KeepNames \/ SkeleClose
  PROVE  MarshalInv'
<1>1. UNCHANGED <<num, pids, waits, worker>>
  BY DEF ForkedAll, WaitEnd, KeepNames, SkeleClose
<1>2. \/ mpc = "fork" /\ mpc' = "wait" /\ Len(pids) = num
      \/ mpc = "wait" /\ mpc' = "close" /\ waits = num
      \/ mpc = "close" /\ mpc' = "idle"
  BY DEF ForkedAll, WaitEnd, WaitedAll, KeepNames, SkeleClose, MStep
<1>3. MarshalTypes' /\ OwnEntries'
  BY <1>1, <1>2 DEF MarshalInv, MarshalTypes, OwnEntries
<1>4. Enrolled'
  BY <1>1, <1>2 DEF MarshalInv, Enrolled
<1>5. Waited'
  <2>1. mpc = "fork" => \A k \in 1..waits : FALSE
    BY DEF MarshalInv, Enrolled
  <2> QED
    BY <1>1, <1>2, <2>1 DEF MarshalInv, Waited
<1> QED
  BY <1>3, <1>4, <1>5 DEF MarshalInv

LEMMA WorkerEndsInv ==
  ASSUME MarshalInv, NEW k \in 1..MaxNum, WorkerEnds(k)
  PROVE  MarshalInv'
BY DEF WorkerEnds, MarshalInv, MarshalTypes, OwnEntries, Enrolled, Waited

LEMMA MarshalInterruptInv ==
  ASSUME MarshalInv, MarshalInterrupt
  PROVE  MarshalInv'
BY DEF MarshalInterrupt, MarshalInv, MarshalTypes, OwnEntries, Enrolled, Waited

LEMMA MarshalNextInv == MarshalInv /\ [MarshalNext]_mVars => MarshalInv'
<1> SUFFICES ASSUME MarshalInv, [MarshalNext]_mVars PROVE MarshalInv'
  OBVIOUS
<1>1. MarshalCommon => MarshalInv'
  BY CreatesInv, ForkWorkerInv, WaitWorkerInv, MarshalOthersInv, MarshalStartInv, Zenon
     DEF MarshalCommon
<1>2. MarshalNext => MarshalInv'
  BY <1>1, MarshalOthersInv, MarshalInterruptInv, WorkerEndsInv, Zenon
     DEF MarshalNext, ZybookRun, SharedRun, SkeleRun
<1>3. UNCHANGED mVars => MarshalInv'
  BY DEF mVars, MarshalInv, MarshalTypes, OwnEntries, Enrolled, Waited
<1> QED
  BY <1>2, <1>3

(* A marshaller ends with no worker left to wait for, for every number of   *)
(* workers and whichever forks fail: a wait for -1 takes the status of a     *)
(* worker that is waited for by its pid later, which then returns at once. *)
THEOREM WorkersAlwaysCollected == MarshalSpec => []WorkersCollected
<1>1. ASSUME MarshalInv
      PROVE  WorkersCollected
  <2>1. ASSUME mpc = "close"
        PROVE  Left = {}
    <3> SUFFICES ASSUME NEW k \in 1..MaxNum, worker[k] \in {"running", "zombie"} PROVE FALSE
      BY DEF Left
    <3>1. k \in 1..Len(pids) /\ pids[k] = k /\ waits = num /\ Len(pids) = num
      BY <1>1, <2>1 DEF MarshalInv, Enrolled, Waited
    <3>2. pids[k] # NoWorker /\ k \in 1..waits
      BY <3>1 DEF NoWorker
    <3> QED
      BY <1>1, <2>1, <3>2 DEF MarshalInv, Waited
  <2>2. mpc \in {"sem", "shm"} => Left = {}
    BY <1>1 DEF MarshalInv, Enrolled, Left
  <2> QED
    BY <2>1, <2>2 DEF WorkersCollected
<1> QED
  BY MarshalInitInv, MarshalNextInv, <1>1, PTL DEF MarshalSpec

-----------------------------------------------------------------------------
(* What a command is started with. *)

(* While a line is parsed, the tokens that are left are its end, the next of *)
(* them is not a file name, and what was found is what the tokens before     *)
(* them mean.                                                              *)
Parsed ==
  at = "parse" =>
    LET n == Len(line) - Len(rest)
    IN /\ Len(rest) <= Len(line)
       /\ \A k \in 1..Len(rest) : rest[k] = line[n + k]
       /\ rest # <<>> => ~IsName(line, n + 1)
       /\ LineMatches(line, n)

LineInv == ShellInv /\ Parsed /\ CommandIsLine

(* The run of bare redirections before a token has one length only, and it    *)
(* exists: a token is a name exactly when the one before is bare and no name. *)
LEMMA NameAfter ==
  ASSUME NEW l, NEW k \in Nat, k >= 1
  PROVE  IsName(l, k + 1) <=> BareAt(l, k) /\ ~IsName(l, k)
<1> DEFINE Ending(q, n) == /\ \A j \in (q - n)..(q - 1) : BareAt(l, j)
                           /\ q - n = 1 \/ ~BareAt(l, q - n - 1)
<1>1. ASSUME NEW n \in 1..k, Ending(k + 1, n)
      PROVE  BareAt(l, k) /\ (n # 1 => n - 1 \in 1..(k - 1) /\ Ending(k, n - 1))
  <2>1. k \in (k + 1 - n)..(k + 1 - 1)
    OBVIOUS
  <2>2. BareAt(l, k)
    BY <1>1, <2>1
  <2>3. ASSUME n # 1
        PROVE  n - 1 \in 1..(k - 1) /\ Ending(k, n - 1)
    <3>1. n - 1 \in 1..(k - 1) /\ k - (n - 1) = k + 1 - n
      BY <2>3
    <3>2. \A j \in (k - (n - 1))..(k - 1) : j \in (k + 1 - n)..(k + 1 - 1)
      BY <3>1
    <3>3. \A j \in (k - (n - 1))..(k - 1) : BareAt(l, j)
      BY <1>1, <3>2
    <3>4. k - (n - 1) = 1 \/ ~BareAt(l, k - (n - 1) - 1)
      BY <1>1, <3>1
    <3> QED
      BY <3>1, <3>3, <3>4
  <2> QED
    BY <2>2, <2>3
<1>2. ASSUME NEW m \in 1..(k - 1), NEW n \in 1..(k - 1), Ending(k, m), Ending(k, n), m < n
      PROVE  FALSE
  <2>1. k - m - 1 \in (k - n)..(k - 1) /\ k - m # 1
    BY <1>2
  <2> QED
    BY <1>2, <2>1
<1>3. ASSUME BareAt(l, k), NEW n \in 1..(k - 1), Ending(k, n)
      PROVE  n + 1 \in 1..k /\ Ending(k + 1, n + 1)
  <2>1. n + 1 \in 1..k /\ k + 1 - (n + 1) = k - n
    OBVIOUS
  <2>2. \A j \in (k + 1 - (n + 1))..(k + 1 - 1) : j \in (k - n)..(k - 1) \/ j = k
    BY <2>1
  <2>3. \A j \in (k + 1 - (n + 1))..(k + 1 - 1) : BareAt(l, j)
    BY <1>3, <2>2, Zenon
  <2>4. k + 1 - (n + 1) = 1 \/ ~BareAt(l, k + 1 - (n + 1) - 1)
    BY <1>3, <2>1
  <2> QED
    BY <2>1, <2>3, <2>4
<1>4. ASSUME BareAt(l, k), \A n \in 1..(k - 1) : ~Ending(k, n)
      PROVE  1 \in 1..k /\ Ending(k + 1, 1)
  <2>1. \A j \in (k + 1 - 1)..(k + 1 - 1) : j = k
    OBVIOUS
  <2>2. ASSUME k # 1, BareAt(l, k - 1)
        PROVE  FALSE
    <3> DEFINE S == {n \in Nat : n >= k - 1 \/ ~BareAt(l, k - 1 - n)}
    <3>1. S \subseteq Nat /\ k - 1 \in S
      BY <2>2
    <3>2. PICK n \in S : \A m \in S : n <= m
      BY <3>1, LeastNatural
    <3>3. n \in Nat /\ n <= k - 1 /\ n # 0
      BY <2>2, <3>1, <3>2
    <3>4. n \in 1..(k - 1)
      BY <3>3
    <3>5. \A j \in (k - n)..(k - 1) : BareAt(l, j)
      <4> SUFFICES ASSUME NEW j \in (k - n)..(k - 1) PROVE BareAt(l, j)
        OBVIOUS
      <4>1. k - 1 - j \in Nat /\ k - 1 - j < n /\ k - 1 - (k - 1 - j) = j
            /\ ~(k - 1 - j >= k - 1) /\ ~(n <= k - 1 - j)
        BY <3>3
      <4>2. k - 1 - j \notin S
        BY <3>2, <4>1
      <4> QED
        BY <4>1, <4>2
    <3>6. k - n = 1 \/ ~BareAt(l, k - n - 1)
      <4>1. n >= k - 1 \/ ~BareAt(l, k - 1 - n)
        BY <3>2
      <4>2. k - 1 - n = k - n - 1 /\ (n >= k - 1 => k - n = 1)
        BY <3>3
      <4> QED
        BY <4>1, <4>2
    <3> QED
      BY <1>4, <3>4, <3>5, <3>6
  <2>3. k + 1 - 1 = 1 \/ ~BareAt(l, k + 1 - 1 - 1)
    BY <2>2
  <2> QED
    BY <1>4, <2>1, <2>3
<1>5. IsName(l, k + 1) <=> \E n \in 1..k : Ending(k + 1, n) /\ n % 2 = 1
  <2>1. k + 1 - 1 = k
    OBVIOUS
  <2> QED
    BY <2>1 DEF IsName
<1>6. IsName(l, k) <=> \E n \in 1..(k - 1) : Ending(k, n) /\ n % 2 = 1
  BY DEF IsName
<1>7. \A n \in Nat : (n % 2 = 1) <=> ~((n + 1) % 2 = 1)
  BY SMT
<1> HIDE DEF Ending
<1>8. ASSUME NEW n \in 1..k, Ending(k + 1, n), n % 2 = 1
      PROVE  BareAt(l, k) /\ ~IsName(l, k)
  <2>1. BareAt(l, k)
    BY <1>1, <1>8
  <2>2. ASSUME NEW m \in 1..(k - 1), Ending(k, m), m % 2 = 1
        PROVE  FALSE
    <3>1. CASE n = 1
      <4>1. m + 1 \in 1..k /\ Ending(k + 1, m + 1)
        BY <1>3, <2>1, <2>2
      <4>2. k \in (k + 1 - (m + 1))..(k + 1 - 1) /\ k - 1 \in (k + 1 - (m + 1))..(k + 1 - 1)
            /\ k + 1 - 1 - 1 = k - 1 /\ k + 1 - 1 = k /\ k # 1
        BY <2>2
      <4>3. BareAt(l, k - 1)
        BY <4>1, <4>2 DEF Ending
      <4> QED
        BY <1>8, <3>1, <4>2, <4>3 DEF Ending
    <3>2. CASE n # 1
      <4>1. n - 1 \in 1..(k - 1) /\ Ending(k, n - 1)
        BY <1>1, <1>8, <3>2
      <4>2. ~(m < n - 1) /\ ~(n - 1 < m)
        BY <1>2, <2>2, <4>1
      <4>3. m = n - 1
        BY <4>1, <4>2
      <4>4. m \in Nat /\ n = m + 1
        BY <4>3
      <4> QED
        BY <1>7, <1>8, <2>2, <4>4
    <3> QED
      BY <3>1, <3>2
  <2> QED
    BY <1>6, <2>1, <2>2, Zenon
<1>9. ASSUME BareAt(l, k), ~IsName(l, k)
      PROVE  \E n \in 1..k : Ending(k + 1, n) /\ n % 2 = 1
  <2>1. CASE \A n \in 1..(k - 1) : ~Ending(k, n)
    BY <1>4, <1>9, <2>1
  <2>2. ASSUME NEW n \in 1..(k - 1), Ending(k, n)
        PROVE  \E m \in 1..k : Ending(k + 1, m) /\ m % 2 = 1
    <3>1. n \in Nat /\ ~(n % 2 = 1)
      BY <1>6, <1>9, <2>2
    <3>2. (n + 1) % 2 = 1
      BY <1>7, <3>1
    <3>3. n + 1 \in 1..k /\ Ending(k + 1, n + 1)
      BY <1>3, <1>9, <2>2
    <3> QED
      BY <3>2, <3>3
  <2> QED
    BY <2>1, <2>2
<1> QED
  BY <1>5, <1>8, <1>9

LEMMA FirstNoName ==
  ASSUME NEW l
  PROVE  ~IsName(l, 1)
BY DEF IsName

(* A prefix of a line that is one token longer. *)
LEMMA UptoNext ==
  ASSUME NEW l \in Seq(Token), NEW n \in Nat, n < Len(l), NEW ops
  PROVE  /\ l[n + 1].op \in ops /\ ~IsName(l, n + 1) =>
              /\ Upto(Plain(l, ops), n + 1) = Upto(Plain(l, ops), n) \cup {n + 1}
              /\ n + 1 \in Plain(l, ops)
         /\ ~(l[n + 1].op \in ops /\ ~IsName(l, n + 1)) =>
              Upto(Plain(l, ops), n + 1) = Upto(Plain(l, ops), n)
         /\ n + 1 \notin Upto(Plain(l, ops), n)
<1>1. DOMAIN l = 1..Len(l) /\ Len(l) \in Nat /\ n + 1 \in 1..Len(l)
  BY LenProperties
<1>2. \A k \in 1..Len(l) : k <= n + 1 <=> k <= n \/ k = n + 1
  BY <1>1
<1>3. ~(n + 1 <= n)
  OBVIOUS
<1> QED
  BY <1>1, <1>2, <1>3 DEF Upto, Plain

LEMMA UptoFinite ==
  ASSUME NEW l \in Seq(Token), NEW n \in Nat, NEW ops
  PROVE  IsFiniteSet(Upto(Plain(l, ops), n))
<1>1. DOMAIN l = 1..Len(l) /\ Len(l) \in Nat
  BY LenProperties
<1>2. IsFiniteSet(1..Len(l))
  BY <1>1, FS_Interval
<1>3. Upto(Plain(l, ops), n) \subseteq 1..Len(l)
  BY <1>1 DEF Upto, Plain
<1> QED
  BY <1>2, <1>3, FS_Subset

(* One more word is one more argument. *)
LEMMA ArgsMore ==
  ASSUME NEW l \in Seq(Token), NEW n \in Nat, n < Len(l),
         l[n + 1].op = "word", ~IsName(l, n + 1),
         NEW args \in Seq(Texts), ArgsMatch(l, n, args), l[n + 1].name \in Texts
  PROVE  ArgsMatch(l, n + 1, Append(args, l[n + 1].name))
<1> DEFINE old == Upto(Plain(l, {"word"}), n)
           new == Upto(Plain(l, {"word"}), n + 1)
           more == Append(args, l[n + 1].name)
<1>1. new = old \cup {n + 1} /\ n + 1 \notin old
  BY UptoNext
<1>2. IsFiniteSet(old) /\ old \subseteq Nat /\ \A k \in old : k <= n
  <2>1. DOMAIN l = 1..Len(l)
    BY LenProperties
  <2>2. old \subseteq 1..Len(l) /\ \A k \in old : k <= n
    BY <2>1 DEF Upto, Plain
  <2>3. IsFiniteSet(old)
    BY UptoFinite
  <2> QED
    BY <2>2, <2>3
<1>3. /\ Len(args) = Cardinality(old)
      /\ \A k \in old : args[Cardinality(Upto(old, k))] = l[k].name
  BY DEF ArgsMatch
<1> HIDE DEF old, new
<1>4. Cardinality(new) = Cardinality(old) + 1
  BY <1>1, <1>2, FS_AddElement
<1>5. /\ Len(args) \in Nat /\ Len(more) = Len(args) + 1 /\ more[Len(args) + 1] = l[n + 1].name
      /\ \A m \in 1..Len(args) : more[m] = args[m]
  BY AppendProperties, LenProperties
<1> HIDE DEF more
<1>6. Len(more) = Cardinality(new)
  BY <1>3, <1>4, <1>5
<1>7. Upto(new, n + 1) = new
  BY <1>1, <1>2 DEF Upto
<1>8. more[Cardinality(Upto(new, n + 1))] = l[n + 1].name
  BY <1>3, <1>4, <1>5, <1>7
<1>9. ASSUME NEW k \in old
      PROVE  more[Cardinality(Upto(new, k))] = l[k].name
  <2>1. Upto(new, k) = Upto(old, k)
    BY <1>1, <1>2 DEF Upto
  <2>2. Upto(old, k) \subseteq old /\ k \in Upto(old, k)
    BY <1>2 DEF Upto
  <2>3. IsFiniteSet(Upto(old, k)) /\ Cardinality(Upto(old, k)) <= Cardinality(old)
        /\ Cardinality(Upto(old, k)) \in Nat /\ Cardinality(Upto(old, k)) # 0
    BY <1>2, <2>2, FS_Subset, FS_CardinalityType, FS_EmptySet
  <2>4. Cardinality(Upto(old, k)) \in 1..Len(args)
    BY <1>3, <1>5, <2>3
  <2>5. more[Cardinality(Upto(old, k))] = args[Cardinality(Upto(old, k))]
    BY <1>5, <2>4
  <2> QED
    BY <1>3, <2>1, <2>5
<1>10. \A k \in new : more[Cardinality(Upto(new, k))] = l[k].name
  BY <1>1, <1>8, <1>9
<1> QED
  BY <1>6, <1>10 DEF ArgsMatch, new, more

(* What the tokens mean changes with the kinds that one more token has.     *)
LEMMA Unmoved ==
  ASSUME NEW l \in Seq(Token), NEW n \in Nat, n < Len(l), NEW ops,
         l[n + 1].op \notin ops \/ IsName(l, n + 1)
  PROVE  Upto(Plain(l, ops), n + 1) = Upto(Plain(l, ops), n)
BY UptoNext

LEMMA FileMore ==
  ASSUME NEW l \in Seq(Token), NEW n \in Nat, n < Len(l), NEW ops,
         l[n + 1].op \in ops, ~IsName(l, n + 1)
  PROVE  FileMatches(l, n + 1, ops, FileAt(l, n + 1))
<1>1. Upto(Plain(l, ops), n + 1) = Upto(Plain(l, ops), n) \cup {n + 1}
  BY UptoNext
<1>2. \A j \in Upto(Plain(l, ops), n + 1) : j <= n + 1
  BY DEF Upto
<1> QED
  BY <1>1, <1>2 DEF FileMatches

LEMMA AppendsMore ==
  ASSUME NEW l \in Seq(Token), NEW n \in Nat, n < Len(l),
         l[n + 1].op \in {">", ">>"}, ~IsName(l, n + 1)
  PROVE  Appends(l, n + 1) <=> l[n + 1].op = ">>"
<1>1. \A ops : \A j \in Upto(Plain(l, ops), n) : j \in Nat /\ j <= n
  BY LenProperties DEF Upto, Plain
<1>2. CASE l[n + 1].op = ">>"
  <2>1. n + 1 \in Upto(Plain(l, {">>"}), n + 1)
    BY <1>2, UptoNext
  <2>2. Upto(Plain(l, {">"}), n + 1) = Upto(Plain(l, {">"}), n)
    BY <1>2, UptoNext
  <2>3. \A j \in Upto(Plain(l, {">"}), n + 1) : j < n + 1
    BY <1>1, <2>2
  <2> QED
    BY <1>2, <2>1, <2>3 DEF Appends
<1>3. CASE l[n + 1].op = ">"
  <2>1. n + 1 \in Upto(Plain(l, {">"}), n + 1)
    BY <1>3, UptoNext
  <2>2. Upto(Plain(l, {">>"}), n + 1) = Upto(Plain(l, {">>"}), n)
    BY <1>3, UptoNext
  <2>3. \A k \in Upto(Plain(l, {">>"}), n + 1) : ~(n + 1 < k)
    BY <1>1, <2>2
  <2> QED
    BY <1>3, <2>1, <2>3 DEF Appends
<1> QED
  BY <1>2, <1>3

(* Prefixes with the same redirections, words and & mean the same. *)
LEMMA SameMeaning ==
  ASSUME NEW l, NEW m, NEW n, \A ops : Upto(Plain(l, ops), m) = Upto(Plain(l, ops), n)
  PROVE  /\ \A a : ArgsMatch(l, m, a) <=> ArgsMatch(l, n, a)
         /\ \A ops, f : FileMatches(l, m, ops, f) <=> FileMatches(l, n, ops, f)
         /\ Appends(l, m) = Appends(l, n)
<1>1. \A a : ArgsMatch(l, m, a) <=> ArgsMatch(l, n, a)
  BY DEF ArgsMatch
<1>2. \A ops, f : FileMatches(l, m, ops, f) <=> FileMatches(l, n, ops, f)
  BY DEF FileMatches
<1>3. Appends(l, m) = Appends(l, n)
  BY DEF Appends
<1> QED
  BY <1>1, <1>2, <1>3

(* The token that is read next. *)
LEMMA NextToken ==
  ASSUME ShellInv, Parsed, at = "parse", rest # <<>>, NEW n, n = Len(line) - Len(rest)
  PROVE  /\ n \in Nat /\ n < Len(line) /\ line \in Seq(Token)
         /\ rest \in Seq(Token) /\ Len(rest) \in Nat /\ Len(line) \in Nat /\ Len(rest) >= 1
         /\ rest[1] = line[n + 1] /\ line[n + 1] \in Token
         /\ ~IsName(line, n + 1)
         /\ Len(rest) > 1 => n + 1 < Len(line) /\ rest[2] = line[n + 2]
<1>1. line \in Seq(Token) /\ rest \in Seq(Token)
  BY DEF ShellInv, ShellTypeOK
<1>2. Len(line) \in Nat /\ Len(rest) \in Nat
  BY <1>1, LenProperties
<1>3. Len(rest) >= 1
  BY <1>1, <1>2, EmptySeq
<1>4. /\ Len(rest) <= Len(line) /\ ~IsName(line, n + 1)
      /\ \A k \in 1..Len(rest) : rest[k] = line[n + k]
  BY DEF Parsed
<1>5. n \in Nat /\ n < Len(line) /\ n + 1 \in 1..Len(line)
  BY <1>2, <1>3, <1>4
<1>6. rest[1] = line[n + 1]
  BY <1>2, <1>3, <1>4
<1>7. Len(rest) > 1 => n + 1 < Len(line) /\ rest[2] = line[n + 2]
  BY <1>2, <1>4
<1>8. line[n + 1] \in Token
  BY <1>1, <1>5, ElementOfSeq
<1> QED
  BY <1>1, <1>2, <1>3, <1>4, <1>5, <1>6, <1>7, <1>8

(* The tokens behind the next one or two. *)
LEMMA Behind ==
  ASSUME ShellInv, Parsed, at = "parse", rest # <<>>, NEW n, n = Len(line) - Len(rest),
         NEW d \in 1..2, d <= Len(rest)
  PROVE  LET r == SubSeq(rest, d + 1, Len(rest))
         IN /\ Len(line) - Len(r) = n + d /\ Len(r) <= Len(line)
            /\ \A k \in 1..Len(r) : r[k] = line[n + d + k]
            /\ r # <<>> => n + d < Len(line)
<1> DEFINE r == SubSeq(rest, d + 1, Len(rest))
<1>1. /\ rest \in Seq(Token) /\ Len(rest) \in Nat /\ Len(line) \in Nat /\ n \in Nat
      /\ n < Len(line)
  BY NextToken
<1>2. \A k \in 1..Len(rest) : rest[k] = line[n + k]
  BY DEF Parsed
<1>3. \A k \in (d + 1)..Len(rest) : rest[k] \in Token
  BY <1>1, ElementOfSeq
<1>4. /\ r \in Seq(Token)
      /\ Len(r) = IF d + 1 <= Len(rest) THEN Len(rest) - (d + 1) + 1 ELSE 0
      /\ \A k \in 1..(Len(rest) - (d + 1) + 1) : r[k] = rest[(d + 1) + k - 1]
  <2>1. d + 1 \in Int /\ Len(rest) \in Int
    BY <1>1
  <2> QED
    BY <1>1, <1>3, <2>1, SubSeqProperties
<1> HIDE DEF r
<1>5. Len(r) = Len(rest) - d
  BY <1>1, <1>4
<1>6. \A k \in 1..Len(r) : r[k] = line[n + d + k]
  <2> SUFFICES ASSUME NEW k \in 1..Len(r) PROVE r[k] = line[n + d + k]
    OBVIOUS
  <2>1. k \in 1..(Len(rest) - (d + 1) + 1) /\ (d + 1) + k - 1 = d + k /\ d + k \in 1..Len(rest)
        /\ n + (d + k) = n + d + k
    BY <1>1, <1>5
  <2>2. r[k] = rest[d + k]
    BY <1>4, <2>1
  <2>3. rest[d + k] = line[n + (d + k)]
    BY <1>2, <2>1
  <2> QED
    BY <2>1, <2>2, <2>3
<1>7. r # <<>> => Len(r) # 0
  BY <1>4, EmptySeq
<1>8. Len(line) - Len(r) = n + d /\ Len(r) <= Len(line)
  <2>1. \A a, b, c \in Nat : c = b - d => a - c = a - b + d /\ (b <= a => c <= a)
    BY SMT
  <2>2. Len(r) \in Nat
    BY <1>4, LenProperties
  <2>3. Len(rest) <= Len(line)
    BY DEF Parsed
  <2> QED
    BY <1>1, <1>5, <2>1, <2>2, <2>3, Zenon
<1>9. r # <<>> => n + d < Len(line)
  BY <1>1, <1>5, <1>7
<1> QED
  BY <1>6, <1>8, <1>9 DEF r

(* A redirection is read with its name. *)
LEMMA RedirectionMoves ==
  ASSUME ShellInv, Parsed, at = "parse", rest # <<>>, HasName,
         rest[1].op \in {"<", ">", ">>"}, NEW n, n = Len(line) - Len(rest),
         NEW r, r = AfterName, NEW m, m = Len(line) - Len(r)
  PROVE  /\ m \in Nat /\ Len(r) <= Len(line) /\ \A k \in 1..Len(r) : r[k] = line[m + k]
         /\ r # <<>> => ~IsName(line, m + 1)
         /\ \A ops : Upto(Plain(line, ops), m) = Upto(Plain(line, ops), n + 1)
         /\ FileName = FileAt(line, n + 1)
<1>1. /\ n \in Nat /\ n < Len(line) /\ line \in Seq(Token) /\ Len(rest) \in Nat /\ Len(rest) >= 1
      /\ Len(line) \in Nat
      /\ rest[1] = line[n + 1] /\ ~IsName(line, n + 1)
      /\ Len(rest) > 1 => n + 1 < Len(line) /\ rest[2] = line[n + 2]
  BY NextToken
<1>2. n + 1 \in Nat /\ n + 1 >= 1 /\ n + 2 \in Nat /\ n + 2 >= 1 /\ (n + 1) + 1 = n + 2
      /\ (n + 2) + 1 = n + 3 /\ 1 + 1 = 2 /\ 2 + 1 = 3
  BY <1>1
<1>3. CASE Attached
  <2>1. PICK d \in 1..2 : d = 1 /\ r = SubSeq(rest, d + 1, Len(rest)) /\ d <= Len(rest)
    BY <1>1, <1>2, <1>3 DEF AfterName
  <2>2. /\ m = n + d /\ Len(r) <= Len(line)
        /\ \A k \in 1..Len(r) : r[k] = line[n + d + k]
    <3>1. d <= Len(rest) /\ r = SubSeq(rest, d + 1, Len(rest))
      BY <2>1
    <3>2. /\ Len(line) - Len(r) = n + d /\ Len(r) <= Len(line)
          /\ \A k \in 1..Len(r) : r[k] = line[n + d + k]
      BY <3>1, Behind, Zenon
    <3> QED
      BY <3>2
  <2>3. ~BareAt(line, n + 1)
    BY <1>1, <1>3 DEF Attached, BareAt
  <2>4. ~IsName(line, n + 1 + 1)
    BY <1>2, <2>3, NameAfter
  <2>5. FileName = FileAt(line, n + 1)
    BY <1>1, <1>3 DEF FileName, FileAt, Attached
  <2> QED
    BY <1>2, <2>1, <2>2, <2>4, <2>5
<1>4. CASE ~Attached
  <2>1. Len(rest) > 1
    BY <1>4 DEF HasName
  <2>2. PICK d \in 1..2 : d = 2 /\ r = SubSeq(rest, d + 1, Len(rest)) /\ d <= Len(rest)
    BY <1>1, <1>2, <1>4, <2>1 DEF AfterName
  <2>3. /\ m = n + d /\ Len(r) <= Len(line)
        /\ \A k \in 1..Len(r) : r[k] = line[n + d + k]
    <3>1. d <= Len(rest) /\ r = SubSeq(rest, d + 1, Len(rest))
      BY <2>2
    <3>2. /\ Len(line) - Len(r) = n + d /\ Len(r) <= Len(line)
          /\ \A k \in 1..Len(r) : r[k] = line[n + d + k]
      BY <3>1, Behind, Zenon
    <3> QED
      BY <3>2
  <2>4. BareAt(line, n + 1)
    BY <1>1, <1>4 DEF Attached, BareAt
  <2>5. IsName(line, n + 1 + 1)
    BY <1>1, <1>2, <2>4, NameAfter
  <2>6. ~IsName(line, n + 2 + 1)
    BY <1>2, <2>5, NameAfter
  <2>7. n + 1 < Len(line)
    BY <1>1, <2>1
  <2>8. \A ops : Upto(Plain(line, ops), n + 1 + 1) = Upto(Plain(line, ops), n + 1)
    BY <1>1, <1>2, <2>5, <2>7, Unmoved
  <2>9. FileName = FileAt(line, n + 1)
    BY <1>1, <1>2, <1>4, <2>1 DEF FileName, FileAt, Attached
  <2> QED
    BY <1>2, <2>2, <2>3, <2>6, <2>8, <2>9
<1> QED
  BY <1>3, <1>4

(* Each step of parseline adds what its token means. *)
LEMMA ParseInParsed ==
  ASSUME ShellInv, Parsed, ParseIn
  PROVE  Parsed'
<1>1. PICK n : n = Len(line) - Len(rest)
  OBVIOUS
<1>2. PICK m : m = Len(line) - Len(AfterName)
  OBVIOUS
<1>3. at = "parse" /\ rest # <<>> /\ rest[1].op = "<" /\ HasName
  BY DEF ParseIn, Parsing
<1>4. /\ n \in Nat /\ n < Len(line) /\ line \in Seq(Token)
      /\ line[n + 1].op = "<" /\ ~IsName(line, n + 1)
  BY <1>1, <1>3, NextToken
<1>5. PICK r : r = AfterName
  OBVIOUS
<1>6. /\ m \in Nat /\ Len(r) <= Len(line) /\ \A k \in 1..Len(r) : r[k] = line[m + k]
      /\ r # <<>> => ~IsName(line, m + 1)
      /\ \A ops : Upto(Plain(line, ops), m) = Upto(Plain(line, ops), n + 1)
      /\ FileName = FileAt(line, n + 1)
  BY <1>1, <1>2, <1>3, <1>5, RedirectionMoves
<1>7. LineMatches(line, n)
  BY <1>1, <1>3 DEF Parsed
<1>8. FileMatches(line, n + 1, {"<"}, FileName)
  BY <1>4, <1>6, FileMore
<1>9. /\ Upto(Plain(line, {"word"}), n + 1) = Upto(Plain(line, {"word"}), n)
      /\ Upto(Plain(line, {">", ">>"}), n + 1) = Upto(Plain(line, {">", ">>"}), n)
      /\ Upto(Plain(line, {">>"}), n + 1) = Upto(Plain(line, {">>"}), n)
      /\ Upto(Plain(line, {">"}), n + 1) = Upto(Plain(line, {">"}), n)
      /\ Upto(Plain(line, {"&"}), n + 1) = Upto(Plain(line, {"&"}), n)
  BY <1>4, Unmoved
<1>10. ArgsMatch(line, m, argv)
  BY <1>6, <1>7, <1>9 DEF LineMatches, ArgsMatch
<1>11. FileMatches(line, m, {"<"}, FileName)
  BY <1>6, <1>8, SameMeaning
<1>12. FileMatches(line, m, {">", ">>"}, outfile)
  BY <1>6, <1>7, <1>9 DEF LineMatches, FileMatches
<1>13. append = Appends(line, m)
  BY <1>6, <1>7, <1>9 DEF LineMatches, Appends
<1>14. amp = (Upto(Plain(line, {"&"}), m) # {})
  BY <1>6, <1>7, <1>9 DEF LineMatches
<1>15. /\ at' = at /\ line' = line /\ rest' = r /\ infile' = FileName
       /\ argv' = argv /\ outfile' = outfile /\ append' = append /\ amp' = amp
  BY <1>5 DEF ParseIn
<1>16. LineMatches(line, m)'
  BY <1>10, <1>11, <1>12, <1>13, <1>14, <1>15 DEF LineMatches
<1> QED
  BY <1>2, <1>5, <1>6, <1>15, <1>16 DEF Parsed

LEMMA ParseOutParsed ==
  ASSUME ShellInv, Parsed, ParseOut
  PROVE  Parsed'
<1>1. PICK n : n = Len(line) - Len(rest)
  OBVIOUS
<1>2. PICK m : m = Len(line) - Len(AfterName)
  OBVIOUS
<1>3. /\ at = "parse" /\ rest # <<>> /\ rest[1].op \in {">", ">>"} /\ HasName
      /\ append' = (rest[1].op = ">>")
  BY DEF ParseOut, Parsing
<1>4. /\ n \in Nat /\ n < Len(line) /\ line \in Seq(Token) /\ rest[1] = line[n + 1]
      /\ line[n + 1].op \in {">", ">>"} /\ ~IsName(line, n + 1)
  BY <1>1, <1>3, NextToken
<1>5. PICK r : r = AfterName
  OBVIOUS
<1>6. /\ m \in Nat /\ Len(r) <= Len(line) /\ \A k \in 1..Len(r) : r[k] = line[m + k]
      /\ r # <<>> => ~IsName(line, m + 1)
      /\ \A ops : Upto(Plain(line, ops), m) = Upto(Plain(line, ops), n + 1)
      /\ FileName = FileAt(line, n + 1)
  BY <1>1, <1>2, <1>3, <1>5, RedirectionMoves
<1>7. LineMatches(line, n)
  BY <1>1, <1>3 DEF Parsed
<1>8. FileMatches(line, n + 1, {">", ">>"}, FileName)
  BY <1>4, <1>6, FileMore
<1>9. /\ Upto(Plain(line, {"word"}), n + 1) = Upto(Plain(line, {"word"}), n)
      /\ Upto(Plain(line, {"<"}), n + 1) = Upto(Plain(line, {"<"}), n)
      /\ Upto(Plain(line, {"&"}), n + 1) = Upto(Plain(line, {"&"}), n)
  BY <1>4, Unmoved
<1>10. ArgsMatch(line, m, argv)
  BY <1>6, <1>7, <1>9 DEF LineMatches, ArgsMatch
<1>11. FileMatches(line, m, {">", ">>"}, FileName)
  BY <1>6, <1>8, SameMeaning
<1>12. FileMatches(line, m, {"<"}, infile)
  BY <1>6, <1>7, <1>9 DEF LineMatches, FileMatches
<1>13. Appends(line, m) <=> rest[1].op = ">>"
  <2>1. Appends(line, n + 1) <=> line[n + 1].op = ">>"
    BY <1>4, AppendsMore
  <2>2. Appends(line, m) = Appends(line, n + 1)
    BY <1>6, SameMeaning
  <2> QED
    BY <1>4, <2>1, <2>2
<1>14. amp = (Upto(Plain(line, {"&"}), m) # {})
  BY <1>6, <1>7, <1>9 DEF LineMatches
<1>15. /\ at' = at /\ line' = line /\ rest' = r /\ outfile' = FileName
       /\ argv' = argv /\ infile' = infile /\ amp' = amp
  BY <1>5 DEF ParseOut
<1>16. append' = Appends(line, m)
  <2>1. Appends(line, m) \in BOOLEAN
    BY DEF Appends
  <2> QED
    BY <1>3, <1>13, <2>1
<1>17. LineMatches(line, m)'
  BY <1>10, <1>11, <1>12, <1>14, <1>15, <1>16 DEF LineMatches
<1> QED
  BY <1>2, <1>5, <1>6, <1>15, <1>17 DEF Parsed

(* A word or an & is a token of its own. *)
LEMMA SingleMoves ==
  ASSUME ShellInv, Parsed, at = "parse", rest # <<>>,
         rest[1].op \in {"word", "&"}, NEW n, n = Len(line) - Len(rest),
         NEW r, r = Tail(rest)
  PROVE  /\ n \in Nat /\ n < Len(line) /\ line \in Seq(Token) /\ rest[1] = line[n + 1]
         /\ ~IsName(line, n + 1)
         /\ Len(line) - Len(r) = n + 1 /\ Len(r) <= Len(line)
         /\ \A k \in 1..Len(r) : r[k] = line[n + 1 + k]
         /\ ~IsName(line, n + 1 + 1)
<1>1. /\ n \in Nat /\ n < Len(line) /\ line \in Seq(Token) /\ rest \in Seq(Token)
      /\ Len(rest) \in Nat /\ Len(rest) >= 1
      /\ rest[1] = line[n + 1] /\ ~IsName(line, n + 1)
  BY NextToken
<1>2. Tail(rest) = SubSeq(rest, 1 + 1, Len(rest))
  BY <1>1
<1>3. PICK d \in 1..2 : d = 1 /\ r = SubSeq(rest, d + 1, Len(rest)) /\ d <= Len(rest)
  BY <1>1, <1>2
<1>4. /\ Len(line) - Len(r) = n + d /\ Len(r) <= Len(line)
      /\ \A k \in 1..Len(r) : r[k] = line[n + d + k]
  <2>1. d <= Len(rest) /\ r = SubSeq(rest, d + 1, Len(rest))
    BY <1>3
  <2> QED
    BY <2>1, Behind, Zenon
<1>5. ~BareAt(line, n + 1)
  BY <1>1 DEF BareAt
<1>6. ~IsName(line, n + 1 + 1)
  <2>1. n + 1 \in Nat /\ n + 1 >= 1
    BY <1>1
  <2> QED
    BY <1>5, <2>1, NameAfter
<1> QED
  BY <1>1, <1>3, <1>4, <1>6

LEMMA ParseArgumentParsed ==
  ASSUME ShellInv, Parsed, ParseArgument
  PROVE  Parsed'
<1>1. PICK n : n = Len(line) - Len(rest)
  OBVIOUS
<1>2. PICK r : r = Tail(rest)
  OBVIOUS
<1>3. at = "parse" /\ rest # <<>> /\ rest[1].op = "word"
  BY DEF ParseArgument, Parsing
<1>4. /\ n \in Nat /\ n < Len(line) /\ line \in Seq(Token) /\ rest[1] = line[n + 1]
      /\ ~IsName(line, n + 1)
      /\ Len(line) - Len(r) = n + 1 /\ Len(r) <= Len(line)
      /\ \A k \in 1..Len(r) : r[k] = line[n + 1 + k]
      /\ ~IsName(line, n + 1 + 1)
  BY <1>1, <1>2, <1>3, SingleMoves
<1>5. LineMatches(line, n) /\ line[n + 1] \in Token
  BY <1>1, <1>3, NextToken DEF Parsed
<1>6. argv \in Seq(Texts) /\ line[n + 1].name \in Texts
  BY <1>5 DEF ShellInv, ShellTypeOK, Token
<1>7. ArgsMatch(line, n + 1, Append(argv, line[n + 1].name))
  <2>1. ArgsMatch(line, n, argv) /\ line[n + 1].op = "word"
    BY <1>3, <1>4, <1>5 DEF LineMatches
  <2> QED
    BY <1>4, <1>6, <2>1, ArgsMore
<1>8. /\ Upto(Plain(line, {"<"}), n + 1) = Upto(Plain(line, {"<"}), n)
      /\ Upto(Plain(line, {">", ">>"}), n + 1) = Upto(Plain(line, {">", ">>"}), n)
      /\ Upto(Plain(line, {">>"}), n + 1) = Upto(Plain(line, {">>"}), n)
      /\ Upto(Plain(line, {">"}), n + 1) = Upto(Plain(line, {">"}), n)
      /\ Upto(Plain(line, {"&"}), n + 1) = Upto(Plain(line, {"&"}), n)
  BY <1>3, <1>4, Unmoved
<1>9. /\ FileMatches(line, n + 1, {"<"}, infile)
      /\ FileMatches(line, n + 1, {">", ">>"}, outfile)
      /\ append = Appends(line, n + 1)
      /\ amp = (Upto(Plain(line, {"&"}), n + 1) # {})
  BY <1>5, <1>8 DEF LineMatches, FileMatches, Appends
<1>10. /\ at' = at /\ line' = line /\ rest' = r /\ argv' = Append(argv, line[n + 1].name)
       /\ infile' = infile /\ outfile' = outfile /\ append' = append /\ amp' = amp
  BY <1>2, <1>4 DEF ParseArgument
<1>11. LineMatches(line, n + 1)'
  BY <1>7, <1>9, <1>10 DEF LineMatches
<1> QED
  BY <1>4, <1>10, <1>11 DEF Parsed

LEMMA ParseAmpParsed ==
  ASSUME ShellInv, Parsed, ParseAmp
  PROVE  Parsed'
<1>1. PICK n : n = Len(line) - Len(rest)
  OBVIOUS
<1>2. PICK r : r = Tail(rest)
  OBVIOUS
<1>3. at = "parse" /\ rest # <<>> /\ rest[1].op = "&"
  BY DEF ParseAmp, Parsing
<1>4. /\ n \in Nat /\ n < Len(line) /\ line \in Seq(Token) /\ rest[1] = line[n + 1]
      /\ ~IsName(line, n + 1)
      /\ Len(line) - Len(r) = n + 1 /\ Len(r) <= Len(line)
      /\ \A k \in 1..Len(r) : r[k] = line[n + 1 + k]
      /\ ~IsName(line, n + 1 + 1)
  BY <1>1, <1>2, <1>3, SingleMoves
<1>5. LineMatches(line, n)
  BY <1>1, <1>3 DEF Parsed
<1>6. /\ Upto(Plain(line, {"<"}), n + 1) = Upto(Plain(line, {"<"}), n)
      /\ Upto(Plain(line, {">", ">>"}), n + 1) = Upto(Plain(line, {">", ">>"}), n)
      /\ Upto(Plain(line, {">>"}), n + 1) = Upto(Plain(line, {">>"}), n)
      /\ Upto(Plain(line, {">"}), n + 1) = Upto(Plain(line, {">"}), n)
      /\ Upto(Plain(line, {"word"}), n + 1) = Upto(Plain(line, {"word"}), n)
  BY <1>3, <1>4, Unmoved
<1>7. Upto(Plain(line, {"&"}), n + 1) # {}
  <2>1. line[n + 1].op \in {"&"}
    BY <1>3, <1>4
  <2>2. Upto(Plain(line, {"&"}), n + 1) = Upto(Plain(line, {"&"}), n) \cup {n + 1}
    BY <1>4, <2>1, UptoNext
  <2> QED
    BY <2>2
<1>8. /\ ArgsMatch(line, n + 1, argv)
      /\ FileMatches(line, n + 1, {"<"}, infile)
      /\ FileMatches(line, n + 1, {">", ">>"}, outfile)
      /\ append = Appends(line, n + 1)
  BY <1>5, <1>6 DEF LineMatches, ArgsMatch, FileMatches, Appends
<1>9. /\ at' = at /\ line' = line /\ rest' = r /\ argv' = argv
      /\ infile' = infile /\ outfile' = outfile /\ append' = append /\ amp' = TRUE
  BY <1>2 DEF ParseAmp
<1>10. LineMatches(line, n + 1)'
  BY <1>7, <1>8, <1>9 DEF LineMatches
<1> QED
  BY <1>4, <1>9, <1>10 DEF Parsed

(* Before the first token nothing was found. *)
LEMMA NothingFound ==
  ASSUME NEW l \in Seq(Token)
  PROVE  /\ ArgsMatch(l, 0, <<>>) /\ ~Appends(l, 0)
         /\ \A ops : FileMatches(l, 0, ops, NoFile) /\ Upto(Plain(l, ops), 0) = {}
<1>1. \A ops : Upto(Plain(l, ops), 0) = {}
  <2>1. DOMAIN l = 1..Len(l) /\ Len(l) \in Nat
    BY LenProperties
  <2>2. \A k \in 1..Len(l) : ~(k <= 0)
    BY <2>1
  <2> QED
    BY <2>1, <2>2 DEF Upto, Plain
<1>2. Len(<<>>) = Cardinality({})
  BY FS_EmptySet
<1> QED
  BY <1>1, <1>2 DEF ArgsMatch, Appends, FileMatches

LEMMA ReadLineParsed ==
  ASSUME ShellInv, NEW l \in Lines, ReadLine(l)
  PROVE  Parsed'
<1>1. l \in Seq(Token) /\ Len(l) \in Nat
  BY ShellAssumption, LenProperties
<1>2. /\ line' = l /\ rest' = l /\ argv' = <<>> /\ infile' = NoFile /\ outfile' = NoFile
      /\ append' = FALSE /\ amp' = FALSE
  BY DEF ReadLine
<1>3. LineMatches(line, 0)'
  <2>1. /\ ArgsMatch(l, 0, <<>>) /\ ~Appends(l, 0)
        /\ FileMatches(l, 0, {"<"}, NoFile) /\ FileMatches(l, 0, {">", ">>"}, NoFile)
        /\ Upto(Plain(l, {"&"}), 0) = {}
    BY <1>1, NothingFound
  <2>2. ArgsMatch(line', 0, argv') /\ FileMatches(line', 0, {"<"}, infile')
        /\ FileMatches(line', 0, {">", ">>"}, outfile')
    BY <1>2, <2>1
  <2>3. append' = Appends(line', 0)
    <3>1. Appends(l, 0) \in BOOLEAN
      BY DEF Appends
    <3> QED
      BY <1>2, <2>1, <3>1
  <2>4. amp' = (Upto(Plain(line', {"&"}), 0) # {})
    BY <1>2, <2>1
  <2> QED
    BY <2>2, <2>3, <2>4 DEF LineMatches
<1>4. Len(l) - Len(l) = 0 /\ Len(l) <= Len(l) /\ 0 + 1 = 1 /\ \A k \in 1..Len(l) : 0 + k = k
  BY <1>1
<1>5. ~IsName(l, 0 + 1)
  BY <1>4, FirstNoName
<1> QED
  BY <1>2, <1>3, <1>4, <1>5 DEF Parsed

(* When the line has ended, the command is what the whole line means; when   *)
(* argv is full first, the line has as many words at least.                *)
LEMMA EndMatches ==
  ASSUME ShellInv, Parsed, ParseEnd
  PROVE  CommandIsLine'
<1>1. (at = "parse" /\ line' = line) \/ at' = "reap"
  BY DEF ParseEnd
<1>2. PICK n : n = Len(line) - Len(rest)
  OBVIOUS
<1>3. /\ line \in Seq(Token) /\ rest \in Seq(Token) /\ Len(line) \in Nat /\ Len(rest) \in Nat
      /\ at = "parse" /\ UNCHANGED parsed
  BY LenProperties DEF ShellInv, ShellTypeOK, ParseEnd
<1>4. LineMatches(line, n) /\ Len(rest) <= Len(line) /\ n \in Nat /\ n <= Len(line)
  <2>1. LineMatches(line, n) /\ Len(rest) <= Len(line)
    BY <1>2, <1>3 DEF Parsed
  <2> QED
    BY <1>2, <1>3, <2>1
<1>5. CASE rest = <<>>
  <2>1. n = Len(line)
    BY <1>2, <1>3, <1>5
  <2> QED
    BY <1>1, <1>3, <1>4, <2>1 DEF CommandIsLine, LineMatches, parsed
<1>6. CASE Len(argv) = ArgLimit
  <2>1. Cardinality(Upto(Plain(line, {"word"}), n)) = ArgLimit
    BY <1>4, <1>6 DEF LineMatches, ArgsMatch
  <2>2. DOMAIN line = 1..Len(line) /\ IsFiniteSet(1..Len(line))
    BY <1>3, FS_Interval, LenProperties
  <2>3. Plain(line, {"word"}) \subseteq 1..Len(line)
    BY <2>2 DEF Plain
  <2>4. IsFiniteSet(Plain(line, {"word"}))
    BY <2>2, <2>3, FS_Subset
  <2>5. Upto(Plain(line, {"word"}), n) \in SUBSET Plain(line, {"word"})
    BY DEF Upto
  <2>6. ArgLimit <= Cardinality(Plain(line, {"word"}))
    BY <2>1, <2>4, <2>5, FS_Subset
  <2>7. ~(Cardinality(Plain(line, {"word"})) < ArgLimit)
    <3>1. Cardinality(Plain(line, {"word"})) \in Nat
      BY <2>4, FS_CardinalityType
    <3> QED
      BY <2>6, <3>1, ShellAssumption
  <2>8. at' = "dispatch" => line' = line
    BY <1>1
  <2> QED
    BY <2>7, <2>8 DEF CommandIsLine
<1> QED
  BY <1>5, <1>6 DEF ParseEnd

LEMMA LineInitInv == ShellInit => LineInv
<1>1. ShellInit => ShellInv
  BY ShellInitInv
<1>2. ShellInit => Parsed /\ CommandIsLine
  BY DEF ShellInit, Parsed, CommandIsLine
<1> QED
  BY <1>1, <1>2 DEF LineInv

(* A step that leaves the line, the tokens and what was found as they are,    *)
(* and comes to no parsing or dispatching, keeps what was known.           *)
LEMMA LineKept ==
  ASSUME LineInv,
         \/ UNCHANGED <<at, line, rest, parsed>>
         \/ at' \notin {"parse", "dispatch"}
  PROVE  Parsed' /\ CommandIsLine'
<1>1. CASE UNCHANGED <<at, line, rest, parsed>>
  <2>1. Parsed'
    BY <1>1 DEF LineInv, Parsed, LineMatches, parsed
  <2>2. CommandIsLine'
    BY <1>1 DEF LineInv, CommandIsLine, LineMatches, parsed
  <2> QED
    BY <2>1, <2>2
<1>2. CASE at' \notin {"parse", "dispatch"}
  BY <1>2 DEF Parsed, CommandIsLine
<1> QED
  BY <1>1, <1>2

LEMMA LineNextInv ==
  ASSUME LineInv, [ShellNext]_shellVars
  PROVE  LineInv'
<1>1. ShellInv'
  BY ShellNextInv DEF LineInv
<1>2. CASE ParseIn \/ ParseOut \/ ParseAmp \/ ParseArgument
  <2>1. Parsed'
    BY <1>2, ParseInParsed, ParseOutParsed, ParseAmpParsed, ParseArgumentParsed DEF LineInv
  <2>2. at' = "parse"
    BY <1>2 DEF ParseIn, ParseOut, ParseAmp, ParseArgument, Parsing
  <2> QED
    BY <1>1, <2>1, <2>2 DEF LineInv, CommandIsLine
<1>3. CASE ParseEnd
  <2>1. CommandIsLine'
    BY <1>3, EndMatches DEF LineInv
  <2>2. at' # "parse"
    BY <1>3 DEF ParseEnd
  <2> QED
    BY <1>1, <2>1, <2>2 DEF LineInv, Parsed
<1>4. ASSUME NEW l \in Lines, ReadLine(l)
      PROVE  LineInv'
  <2>1. Parsed'
    BY <1>4, ReadLineParsed DEF LineInv
  <2>2. at' = "parse"
    BY <1>4 DEF ReadLine
  <2> QED
    BY <1>1, <2>1, <2>2 DEF LineInv, CommandIsLine
<1>5. CASE ParseMissing \/ Prompt \/ EndOfInput \/ Exit \/ Cd \/ Jobs \/ ForkFails
           \/ WaitForeground \/ FreeStrings
  <2>1. at' \notin {"parse", "dispatch"}
    BY <1>5 DEF ParseMissing, Prompt, EndOfInput, Exit, Cd, Jobs, ForkFails,
                WaitForeground, FreeStrings
  <2> QED
    BY <1>1, <2>1, LineKept DEF LineInv
<1>6. ASSUME NEW p \in Pids,
             \/ ReapOne(p) \/ Run(p)
             \/ ChildOpensIn(p) \/ ChildOpensOut(p) \/ ChildExecs(p) \/ ChildExits(p)
      PROVE  LineInv'
  <2>1. UNCHANGED <<at, line, rest, parsed>> \/ at' \notin {"parse", "dispatch"}
    BY <1>6 DEF ReapOne, Run, RunBackground, RunForeground, ChildOpensIn, ChildOpensOut,
                ChildExecs, ChildExits, ChildMoves
  <2> QED
    BY <1>1, <2>1, LineKept DEF LineInv
<1>7. CASE UNCHANGED shellVars
  <2>1. UNCHANGED <<at, line, rest, parsed>>
    BY <1>7 DEF shellVars, parsed
  <2> QED
    BY <1>1, <2>1, LineKept DEF LineInv
<1> QED
  BY <1>2, <1>3, <1>4, <1>5, <1>6, <1>7, Zenon DEF ShellNext, Main, Parse

(* Whatever is typed, in whatever order, a command is started with the        *)
(* arguments, files, mode and & of its line, unless the line has more words *)
(* than argv holds (parseline).                                            *)
THEOREM CommandAlwaysLine == ShellSpec => []CommandIsLine
<1>1. LineInv /\ [ShellNext]_shellVars => LineInv'
  BY LineNextInv
<1>2. LineInv => CommandIsLine
  BY DEF LineInv
<1> QED
  BY LineInitInv, <1>1, <1>2, PTL DEF ShellSpec

=============================================================================
