------------------------------ MODULE MCShell ------------------------------
(* The programs that create and wait for processes, and the shell's variable *)
(* expansion: a behaviour is one of the shell's loop, of calls of            *)
(* expand_variables, of p4.c or of a marshaller.                             *)
EXTENDS ShellJobs, VariableExpansion, TaskQueue, Marshaller

VARIABLE part

allVars == <<shellVars, expandVars, taskVars, mVars, part>>

Shell(A)   == part = "shell" /\ A /\ UNCHANGED <<expandVars, taskVars, mVars, part>>
Expand(A)  == part = "expansion" /\ A /\ UNCHANGED <<shellVars, taskVars, mVars, part>>
Task(A)    == part = "tasks" /\ A /\ UNCHANGED <<shellVars, expandVars, mVars, part>>
Marshal(A) == part = "marshaller" /\ A /\ UNCHANGED <<shellVars, expandVars, taskVars, part>>

PartsInit ==
  /\ part \in {"shell", "expansion", "tasks", "marshaller"}
  /\ ShellInit /\ ExpandInit /\ TaskInit /\ MarshalInit
  /\ part # "marshaller" => mVersion = "zybook"

Spec ==
  /\ PartsInit
  /\ [][Shell(ShellNext) \/ Expand(ExpandNext) \/ Task(TaskNext) \/ Marshal(MarshalNext)]_allVars
  /\ WF_allVars(Shell(Main))
  /\ WF_allVars(Task(ParentSteps)) /\ WF_allVars(Task(Produce)) /\ WF_allVars(Task(ConsumerSteps))

Op(o) == [op |-> o, name |-> NoName]
Mid == {Word("run"), Word("tmp"), Op("<"), [op |-> ">", name |-> "f"], Op(">>"), Op("&")}
UpTo(S, n) == UNION {[1..k -> S] : k \in 0..n}

\* With one, two and three arguments, in both orders, around redirections and &.
MCLines ==
  UpTo(Mid, 2) \cup {<<Word("run")>> \o m : m \in [1..2 -> Mid]} \cup {<<Word("exit")>>, <<Word("jobs")>>, <<Word("cd")>>, <<Word("cd"), Word("tmp")>>,
    <<Word("run"), Op("<"), Word("f"), Word("tmp")>>, <<Word("tmp"), Op(">"), Word("f"), Word("run"), Op("&")>>,
    <<Word("run"), Word("tmp"), Word("f")>>, <<Word("run"), Op("<"), Op("<"), Op("<"), Word("f")>>}

MCTexts == {NoName, "run", "f", "exit", "jobs", "cd", "tmp"}

MCInputs == UpTo({"$", "a", "_", "/"}, 4)
MCChars  == {"$", "a", "_", "/", "x"}
MCNames  == {"a", "_"}
MCEnv    == (<<"a">> :> [k \in 1..40 |-> "x"]) @@ (<<"a", "a">> :> <<"$", "a">>)
=============================================================================
