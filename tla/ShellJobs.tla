----------------------------- MODULE ShellJobs -----------------------------
(***************************************************************************)
(* The shell of src/cs360/cc/ps/shelllab/helper.c: its main loop, the       *)
(* parsing of a line, the built-in commands, the children it forks and the *)
(* table of background jobs.  The kernel's process table is part of the    *)
(* state: a pid is used again as soon as its process has been waited for.  *)
(***************************************************************************)
EXTENDS Naturals, Sequences, FiniteSets, SequencesExt

CONSTANTS Pids,        \* the pids the kernel gives out
          NoPid,       \* no child is waited for
          JobSlots,    \* MAX_JOBS
          ArgLimit,    \* MAX_ARGS - 1, the number of arguments parseline keeps
          Texts,       \* the words that occur in lines, the empty one included
          Lines,       \* the lines a user may type, as sequences of tokens
          Dirs,        \* the directories that can be entered
          Home,        \* the value of HOME, or NoHome when it is not set
          NoHome

\* A token of strtok: a plain word, or an operator; a redirection carries the
\* file name attached to it, or NoName when the name is the next token.
NoName == ""
Token == [op : {"word", "<", ">", ">>", "&"}, name : Texts]
Word(w) == [op |-> "word", name |-> w]

ASSUME ShellAssumption ==
  /\ JobSlots \in Nat /\ ArgLimit \in Nat
  /\ NoPid \notin Pids
  /\ NoName \in Texts /\ Lines \subseteq Seq(Token)
  /\ NoHome \notin Dirs /\ Home \in Dirs \cup {NoHome}

NoFile  == Word(NoName)

VARIABLES
  at,          \* where main is
  jobs,        \* jobs[0 .. num_jobs-1]
  child,       \* what each pid is: a stage of a child's life, or "free"
  background,  \* the pids that were started with &
  waited,      \* the pid of the foreground command
  line,        \* the line being handled
  rest,        \* the tokens strtok has not returned yet
  argv, infile, outfile, append, amp,   \* what parseline has found; amp is *background
  cwd,
  leaked       \* a string of expand_variables was dropped without free

parsed == <<argv, infile, outfile, append, amp>>
table  == <<jobs, child, background, waited>>
shellVars == <<at, jobs, child, background, waited, line, rest, argv, infile, outfile,
               append, amp, cwd, leaked>>

ShellInit ==
  /\ at = "reap"
  /\ jobs = <<>>
  /\ child = [p \in Pids |-> "free"]
  /\ background = {}
  /\ waited = NoPid
  /\ line = <<>> /\ rest = <<>>
  /\ argv = <<>> /\ infile = NoFile /\ outfile = NoFile /\ append = FALSE /\ amp = FALSE
  /\ cwd \in Dirs
  /\ leaked = FALSE

-----------------------------------------------------------------------------
(* reap_zombies and the prompt. *)

\* A slip to catch: the entries by pid alone, the jobs that are over included.
EntriesByPid(p) == {i \in DOMAIN jobs : jobs[i].pid = p}

Entries(p) == {i \in DOMAIN jobs : jobs[i].active /\ jobs[i].pid = p}

FirstEntry(p) == CHOOSE i \in Entries(p) : \A j \in Entries(p) : i <= j

MarkDone(p) ==
  IF Entries(p) = {} THEN jobs ELSE [jobs EXCEPT ![FirstEntry(p)].active = FALSE]

\* A slip to catch: only the children in the table are waited for.
ReapListed(p) ==
  /\ at = "reap"
  /\ child[p] = "zombie" /\ Entries(p) # {}
  /\ child' = [child EXCEPT ![p] = "free"]
  /\ background' = background \ {p}
  /\ jobs' = MarkDone(p)
  /\ UNCHANGED <<at, waited, line, rest, parsed, cwd, leaked>>

\* waitpid(-1, &status, WNOHANG) > 0
ReapOne(p) ==
  /\ at = "reap"
  /\ child[p] = "zombie"
  /\ child' = [child EXCEPT ![p] = "free"]
  /\ background' = background \ {p}
  /\ jobs' = MarkDone(p)
  /\ UNCHANGED <<at, waited, line, rest, parsed, cwd, leaked>>

Prompt ==
  /\ at = "reap"
  /\ \A p \in Pids : child[p] # "zombie"
  /\ at' = "prompt"
  /\ UNCHANGED <<table, line, rest, parsed, cwd, leaked>>

\* fgets, and the first lines of parseline, which forget the file names that a
\* line given up half way has left.
ReadLine(l) ==
  /\ at = "prompt"
  /\ at' = "parse"
  /\ line' = l /\ rest' = l
  /\ argv' = <<>> /\ infile' = NoFile /\ outfile' = NoFile /\ append' = FALSE /\ amp' = FALSE
  /\ leaked' = (leaked \/ infile # NoFile \/ outfile # NoFile)
  /\ UNCHANGED <<table, cwd>>

EndOfInput ==
  /\ at = "prompt"
  /\ at' = "exited"
  /\ UNCHANGED <<table, line, rest, parsed, cwd, leaked>>

-----------------------------------------------------------------------------
(* parseline, one token at a time. *)

Parsing(op) == at = "parse" /\ rest # <<>> /\ Len(argv) < ArgLimit /\ rest[1].op = op

Attached == rest[1].name # NoName

\* The name of a redirection: the rest of its token, or the next token whole.
FileName == IF Attached THEN Word(rest[1].name) ELSE rest[2]

\* A slip to catch: a name that is a token of its own is read again.
AfterNameAttached == Tail(rest)

AfterName == SubSeq(rest, IF Attached THEN 2 ELSE 3, Len(rest))

HasName == Attached \/ Len(rest) > 1

ParseIn ==
  /\ Parsing("<") /\ HasName
  /\ infile' = FileName
  /\ rest' = AfterName
  /\ leaked' = (leaked \/ infile # NoFile)
  /\ UNCHANGED <<at, table, line, argv, outfile, append, amp, cwd>>

ParseOut ==
  /\ \E op \in {">", ">>"} : Parsing(op) /\ append' = (op = ">>")
  /\ HasName
  /\ outfile' = FileName
  /\ rest' = AfterName
  /\ leaked' = (leaked \/ outfile # NoFile)
  /\ UNCHANGED <<at, table, line, argv, infile, amp, cwd>>

\* "Missing filename": main goes on with the next prompt; the arguments found
\* so far are forgotten.
ParseMissing ==
  /\ \E op \in {"<", ">", ">>"} :
       /\ Parsing(op)
       /\ append' = IF op = "<" THEN append ELSE op = ">>"
  /\ ~HasName
  /\ at' = "reap"
  /\ rest' = <<>> /\ line' = <<>>
  /\ argv' = <<>>
  /\ leaked' = (leaked \/ argv # <<>>)
  /\ UNCHANGED <<table, infile, outfile, amp, cwd>>

ParseAmp ==
  /\ Parsing("&")
  /\ amp' = TRUE
  /\ rest' = Tail(rest)
  /\ UNCHANGED <<at, table, line, argv, infile, outfile, append, cwd, leaked>>

ParseArgument ==
  /\ Parsing("word")
  /\ argv' = Append(argv, rest[1].name)
  /\ rest' = Tail(rest)
  /\ UNCHANGED <<at, table, line, infile, outfile, append, amp, cwd, leaked>>

\* The end of the line, or as many arguments as argv holds: what is left of
\* the line then is dropped.
ParseEnd ==
  /\ at = "parse"
  /\ rest = <<>> \/ Len(argv) = ArgLimit
  /\ IF argv = <<>> THEN at' = "reap" /\ line' = <<>> ELSE at' = "dispatch" /\ UNCHANGED line
  /\ rest' = <<>>
  /\ UNCHANGED <<table, parsed, cwd, leaked>>

Parse == ParseIn \/ ParseOut \/ ParseMissing \/ ParseAmp \/ ParseArgument \/ ParseEnd

-----------------------------------------------------------------------------
(* The commands. *)

Exit ==
  /\ at = "dispatch" /\ argv[1] = "exit"
  /\ at' = "exited"
  /\ argv' = <<>> /\ infile' = NoFile /\ outfile' = NoFile
  /\ UNCHANGED <<table, line, rest, append, amp, cwd, leaked>>

CdTarget == IF Len(argv) = 1 \/ argv[2] = "~" THEN Home ELSE argv[2]

Cd ==
  /\ at = "dispatch" /\ argv[1] = "cd"
  /\ at' = "free"
  /\ cwd' = IF CdTarget \in Dirs THEN CdTarget ELSE cwd
  /\ UNCHANGED <<table, line, rest, parsed, leaked>>

\* jobs prints the active entries and changes nothing.
Jobs ==
  /\ at = "dispatch" /\ argv[1] = "jobs"
  /\ at' = "free"
  /\ UNCHANGED <<table, line, rest, parsed, cwd, leaked>>

External == at = "dispatch" /\ argv[1] \notin {"exit", "cd", "jobs"}

\* A slip to catch: no test of num_jobs.
AddJobUnchecked(p) == Append(jobs, [pid |-> p, active |-> TRUE])

AddJob(p) ==
  IF Len(jobs) < JobSlots THEN Append(jobs, [pid |-> p, active |-> TRUE]) ELSE jobs

\* What the new process does first.
FirstStage ==
  CASE infile # NoFile /\ outfile # NoFile -> "openBoth"
    [] infile # NoFile /\ outfile = NoFile -> "openIn"
    [] infile = NoFile /\ outfile # NoFile -> "openOut"
    [] OTHER -> "exec"

RunBackground(p) ==
  /\ External /\ amp
  /\ child[p] = "free"
  /\ child' = [child EXCEPT ![p] = FirstStage]
  /\ background' = background \cup {p}
  /\ jobs' = AddJob(p)
  /\ at' = "free"
  /\ UNCHANGED <<waited, line, rest, parsed, cwd, leaked>>

RunForeground(p) ==
  /\ External /\ ~amp
  /\ child[p] = "free"
  /\ child' = [child EXCEPT ![p] = FirstStage]
  /\ waited' = p
  /\ at' = "wait"
  /\ UNCHANGED <<jobs, background, line, rest, parsed, cwd, leaked>>

ForkFails ==
  /\ External
  /\ at' = "free"
  /\ UNCHANGED <<table, line, rest, parsed, cwd, leaked>>

\* waitpid(pid, &status, 0): only the foreground command, whoever else ended.
WaitForeground ==
  /\ at = "wait" /\ child[waited] = "zombie"
  /\ child' = [child EXCEPT ![waited] = "free"]
  /\ waited' = NoPid
  /\ at' = "free"
  /\ UNCHANGED <<jobs, background, line, rest, parsed, cwd, leaked>>

\* The end of an iteration of main's loop.
FreeStrings ==
  /\ at = "free"
  /\ argv' = <<>> /\ infile' = NoFile /\ outfile' = NoFile
  /\ at' = "reap" /\ line' = <<>>
  /\ UNCHANGED <<table, rest, append, amp, cwd, leaked>>

-----------------------------------------------------------------------------
(* The children.  A redirection or an exec that fails ends in _exit(1).      *)

ChildMoves(p, from, to) ==
  /\ child[p] = from
  /\ child' = [child EXCEPT ![p] = to]
  /\ UNCHANGED <<at, jobs, background, waited, line, rest, parsed, cwd, leaked>>

ChildOpensIn(p)  == ChildMoves(p, "openBoth", "openOut") \/ ChildMoves(p, "openIn", "exec")
ChildOpensOut(p) == ChildMoves(p, "openOut", "exec")
ChildExecs(p)    == ChildMoves(p, "exec", "running")
ChildExits(p)    == \E s \in {"openBoth", "openIn", "openOut", "exec", "running"} : ChildMoves(p, s, "zombie")

-----------------------------------------------------------------------------
Run(p) == RunBackground(p) \/ RunForeground(p)

\* What main does without waiting for the user or for a child.
Main ==
  \/ (\E p \in Pids : ReapOne(p) \/ Run(p)) \/ Prompt \/ Parse
  \/ Exit \/ Cd \/ Jobs \/ ForkFails \/ WaitForeground \/ FreeStrings

ShellNext ==
  \/ Main \/ EndOfInput
  \/ \E l \in Lines : ReadLine(l)
  \/ \E p \in Pids : ChildOpensIn(p) \/ ChildOpensOut(p) \/ ChildExecs(p) \/ ChildExits(p)

ShellSpec == ShellInit /\ [][ShellNext]_shellVars /\ WF_shellVars(Main)

-----------------------------------------------------------------------------
(* Properties. *)

Stages == {"free", "openBoth", "openIn", "openOut", "exec", "running", "zombie"}

ShellTypeOK ==
  /\ at \in {"reap", "prompt", "parse", "dispatch", "wait", "free", "exited"}
  /\ jobs \in Seq([pid : Pids, active : BOOLEAN]) /\ Len(jobs) <= JobSlots
  /\ child \in [Pids -> Stages]
  /\ background \subseteq Pids
  /\ waited \in (Pids \cup {NoPid}) \ background /\ (at = "wait" <=> waited # NoPid)
  /\ line \in Seq(Token) /\ rest \in Seq(Token)
  /\ argv \in Seq(Texts) /\ Len(argv) <= ArgLimit
  /\ infile \in Token /\ outfile \in Token
  /\ append \in BOOLEAN /\ amp \in BOOLEAN /\ leaked \in BOOLEAN
  /\ cwd \in Dirs

\* The table agrees with the kernel (reap_zombies, add_job): an active entry is
\* a background child that has not been waited for, no child has two of them,
\* and a child without one was started when the table was full.  A pid that is
\* used again must never be taken for the job that had it before.
JobsMatchChildren ==
  /\ \A i \in DOMAIN jobs : jobs[i].active => jobs[i].pid \in background
  /\ \A i, j \in DOMAIN jobs :
       jobs[i].active /\ jobs[j].active /\ jobs[i].pid = jobs[j].pid => i = j
  /\ \A p \in background : Entries(p) # {} \/ Len(jobs) = JobSlots
  /\ \A p \in Pids : child[p] # "free" <=> p \in background \cup {waited}

\* What a line means, read from the tokens at once: token k is the name of the
\* redirection before it when that one is bare and is not itself a name.
BareAt(l, k) == l[k].op \in {"<", ">", ">>"} /\ l[k].name = NoName
IsName(l, k) ==
  \E n \in 1..(k - 1) :
    /\ \A j \in (k - n)..(k - 1) : BareAt(l, j)
    /\ k - n = 1 \/ ~BareAt(l, k - n - 1)
    /\ n % 2 = 1
Plain(l, ops) == {k \in DOMAIN l : l[k].op \in ops /\ ~IsName(l, k)}

\* What the first n tokens mean: the words are the arguments in their order, the
\* last redirection of each kind counts.
Upto(S, n) == {k \in S : k <= n}
ArgsMatch(l, n, args) ==
  LET words == Upto(Plain(l, {"word"}), n)
  IN /\ Len(args) = Cardinality(words)
     /\ \A k \in words : args[Cardinality(Upto(words, k))] = l[k].name
FileAt(l, k) == IF l[k].name # NoName THEN Word(l[k].name) ELSE l[k + 1]
FileMatches(l, n, ops, file) ==
  LET S == Upto(Plain(l, ops), n)
  IN IF S = {} THEN file = NoFile
     ELSE \E k \in S : file = FileAt(l, k) /\ \A j \in S : j <= k
Appends(l, n) ==
  \E k \in Upto(Plain(l, {">>"}), n) : \A j \in Upto(Plain(l, {">"}), n) : j < k

LineMatches(l, n) ==
  /\ ArgsMatch(l, n, argv)
  /\ FileMatches(l, n, {"<"}, infile)
  /\ FileMatches(l, n, {">", ">>"}, outfile)
  /\ append = Appends(l, n)
  /\ amp = (Upto(Plain(l, {"&"}), n) # {})

\* A command is started with the arguments, the files, the mode and the & that
\* were typed, in whatever order, when its line has fewer arguments than argv
\* holds (parseline).
CommandIsLine ==
  at = "dispatch" /\ Cardinality(Plain(line, {"word"})) < ArgLimit =>
    LineMatches(line, Len(line))

\* As long as the loop keeps coming round, every child that ends is waited for
\* (reap_zombies, run_command): no zombie stays.
ZombiesReaped ==
  []<>(at = "reap") => \A p \in Pids : (child[p] = "zombie") ~> (child[p] = "free")

\* What the comments at the end of main's loop promise: the strings of a line
\* are freed.
StringsFreed == ~leaked

=============================================================================
