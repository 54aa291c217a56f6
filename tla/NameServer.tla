----------------------------- MODULE NameServer -----------------------------
(***************************************************************************)
(* The name servers of src/cs360/cc/ps/sockets: one process that accepts   *)
(* clients on a Unix socket, greets them, and answers their requests in    *)
(* rounds of select.  There are three versions of the program, server.c    *)
(* (graded), scratch.c and helper.c; they share the loop and differ in how *)
(* they start, greet, read and stop.  Clients connect, send and hang up as *)
(* they like.  A run that was killed may have left its socket file.        *)
(***************************************************************************)
EXTENDS Naturals, Sequences, FiniteSets, FiniteSetsExt

CONSTANTS Versions,   \* subset of {"server", "scratch", "helper"}
          Conns,      \* the connections clients may make, each once
          Fds,        \* descriptors the kernel can give to clients,
          Limits,     \* up to one of these limits
          Says,       \* what each client may send
          MaxSaid     \* bound: how often each client sends

\* What a client sends: "hello", "bye", "junk", a request in one piece, or one
\* in two pieces ("head", "tail").  Requests are numbered.
Tokens == {"hello", "bye", "junk", "req", "head", "tail"}

ASSUME NameServerAssumption ==
  /\ Versions \subseteq {"server", "scratch", "helper"}
  /\ Fds \subseteq Nat /\ 0 \notin Fds
  /\ Limits \subseteq Nat
  /\ Says \in [Conns -> SUBSET Tokens]
  /\ MaxSaid \in [Conns -> Nat]

\* The listening socket and "no descriptor".
Sfd == 0
NoConn == 0

VARIABLES
  version, limit,
  spc,       \* where the server is: "start", "loop", "accept", "greet", "serve", "down"
  file,      \* the socket file: "none", "stale" (left by another run), "bound"
  handler,   \* SIGINT has a handler
  stop,
  listening,
  owner,     \* open descriptors and their connections
  fds, temp, \* the sets of descriptors watched and found ready
  ncc, tfd,  \* the connection being greeted; the highest descriptor
  backlog,   \* connections not accepted yet
  stage,     \* of a connection: "new", "waiting", "open", "closed"
  hup,       \* connections the client has closed
  inbox,     \* what a client has sent and the server has not read
  sent, asked, \* how many messages and how many requests that is in all
  half,      \* clients in the middle of a request
  hasty,     \* clients that did more than greet and ask, one whole request at a time
  rude,      \* clients that did not greet first, or said goodbye
  answers    \* what it has been answered: the number of the request, or 0

setup   == <<version, limit>>
server  == <<spc, file, handler, stop, listening>>
sets    == <<owner, fds, temp, ncc, tfd>>
clients == <<hup, sent, asked, half, hasty, rude>>
nsVars  == <<setup, server, sets, backlog, stage, clients, inbox, answers>>

Say(t) == [t |-> t, n |-> 0]

NSInit ==
  /\ version \in Versions /\ limit \in Limits
  /\ spc = "start" /\ file \in {"none", "stale"}
  /\ handler = FALSE /\ stop = FALSE /\ listening = FALSE
  /\ owner = <<>> /\ fds = {} /\ temp = {} /\ ncc = NoConn /\ tfd = Sfd
  /\ backlog = <<>>
  /\ stage = [c \in Conns |-> "new"]
  /\ hup = {} /\ half = {} /\ hasty = {} /\ rude = {}
  /\ sent = [c \in Conns |-> 0] /\ asked = sent
  /\ inbox = [c \in Conns |-> <<>>] /\ answers = inbox

-----------------------------------------------------------------------------
(* Starting. *)

Listens(handled) ==
  /\ listening' = TRUE /\ file' = "bound"
  /\ handler' = handled
  /\ spc' = "loop"
  /\ fds' = {Sfd} /\ tfd' = Sfd
  /\ UNCHANGED <<setup, stop, owner, temp, ncc, backlog, stage, clients, inbox, answers>>

\* A path that exists makes bind fail; server.c and helper.c do not look, and
\* go on with a socket that does not listen.
Deaf ==
  /\ file = "stale"
  /\ spc' = "loop"
  /\ fds' = {Sfd} /\ tfd' = Sfd
  /\ UNCHANGED <<setup, file, handler, stop, listening, owner, temp, ncc, backlog, stage,
                 clients, inbox, answers>>

ServerStart == spc = "start" /\ (Deaf \/ (file = "none" /\ Listens(FALSE)))

\* signal, then unlink of whatever is at the path.
ScratchStart == spc = "start" /\ Listens(TRUE)

ScratchStartFails ==
  /\ spc = "start"
  /\ spc' = "down" /\ file' = "none"
  /\ UNCHANGED <<setup, handler, stop, listening, sets, backlog, stage, clients, inbox, answers>>

\* The handler is set at the top of the loop.
HelperStart == spc = "start" /\ (Deaf \/ (file = "none" /\ Listens(FALSE)))

-----------------------------------------------------------------------------
(* A round of the loop. *)

\* A descriptor is ready when there is something to read or the peer has gone;
\* a socket that does not listen always is.
Ready ==
  {d \in fds \ {Sfd} : inbox[owner[d]] # <<>> \/ owner[d] \in hup}
    \cup (IF backlog # <<>> \/ ~listening THEN {Sfd} ELSE {})

\* select finds something; with nothing ready the server sleeps and asks again.
Poll ==
  /\ spc = "loop" /\ ~stop
  /\ handler' = (handler \/ version = "helper")
  /\ temp' = Ready
  /\ spc' = CASE Ready = {} -> "loop" [] Sfd \in Ready -> "accept" [] OTHER -> "serve"
  /\ UNCHANGED <<setup, file, stop, listening, owner, fds, ncc, tfd, backlog, stage, clients,
                 inbox, answers>>

FreeFds == {d \in Fds : d <= limit} \ DOMAIN owner

\* The clients found ready come next, then the next round.
Onwards(ready) == IF ready \subseteq {Sfd} THEN "loop" ELSE "serve"

\* A slip to catch: every version goes back to select.
AfterAcceptLoop == "loop"

\* helper.c goes back to select after a new client, the others go on.
AfterAccept == IF version = "helper" THEN "loop" ELSE Onwards(temp)

Accept ==
  /\ spc = "accept"
  /\ IF listening /\ FreeFds # {}
     THEN /\ ncc' = Min(FreeFds)
          /\ owner' = [d \in DOMAIN owner \cup {ncc'} |-> IF d = ncc' THEN backlog[1] ELSE owner[d]]
          /\ stage' = [stage EXCEPT ![backlog[1]] = "open"]
          /\ backlog' = Tail(backlog)
          /\ spc' = "greet"
     ELSE spc' = AfterAccept /\ UNCHANGED <<ncc, owner, stage, backlog>>
  /\ UNCHANGED <<setup, file, handler, stop, listening, fds, temp, tfd, clients, inbox, answers>>

Without(d) == [x \in DOMAIN owner \ {d} |-> owner[x]]

Highest(d) == IF d > tfd THEN d ELSE tfd

\* The greeting of the client on ncc is read; taken is what recv returned.
Welcome(taken) ==
  /\ fds' = fds \cup {ncc}
  /\ tfd' = Highest(ncc)
  /\ inbox' = [inbox EXCEPT ![owner[ncc]] = taken]
  /\ UNCHANGED <<owner, stage>>

Dismiss ==
  /\ owner' = Without(ncc)
  /\ stage' = [stage EXCEPT ![owner[ncc]] = "closed"]
  /\ inbox' = [inbox EXCEPT ![owner[ncc]] = <<>>]
  /\ UNCHANGED <<fds, tfd>>

Greeting ==
  /\ spc = "greet"
  /\ ncc' = NoConn
  /\ spc' = AfterAccept
  /\ UNCHANGED <<setup, file, handler, stop, listening, temp, backlog, clients, answers>>

Heard == inbox[owner[ncc]]

\* Slips to catch: a request that comes with the greeting is read with it and
\* lost, or makes the greeting a bad one.
GreetAndLose ==
  /\ Greeting
  /\ Heard # <<>> \/ owner[ncc] \in hup
  /\ IF Heard # <<>> /\ Head(Heard).t = "hello" THEN Welcome(<<>>) ELSE Dismiss

GreetExactly ==
  /\ Greeting
  /\ Heard # <<>> \/ owner[ncc] \in hup
  /\ IF Heard = <<Say("hello")>> THEN Welcome(<<>>) ELSE Dismiss

\* server.c and scratch.c read five bytes, helper.c all there is.
GreetFive ==
  /\ Greeting
  /\ Heard # <<>> \/ owner[ncc] \in hup
  /\ IF Heard # <<>> /\ Head(Heard).t = "hello" THEN Welcome(Tail(Heard)) ELSE Dismiss

GreetAll ==
  /\ Greeting
  /\ Heard # <<>> \/ owner[ncc] \in hup
  /\ IF Heard = <<Say("hello")>> THEN Welcome(<<>>) ELSE Dismiss

\* Nothing for a second, or a signal before anything.
GreetTimeout ==
  /\ Greeting
  /\ Heard = <<>> /\ owner[ncc] \notin hup
  /\ Dismiss

\* A slip to catch: a descriptor that is closed stays in the set.
UnwatchNever(d) == fds

\* FD_CLR
Unwatch(d) == fds \ {d}

\* The number of the request a chunk of data is taken to be, 0 for a name no
\* client asked for.  One recv is one request: what is behind it is its tail.
Understood(data) ==
  IF \/ Len(data) = 1 /\ data[1].t = "req"
     \/ Len(data) = 2 /\ data[1].t = "head" /\ data[2].t = "tail"
  THEN data[1].n ELSE 0

\* A goodbye, or the end of what the client had to say.
Leaves(data) ==
  IF data = <<>> THEN version # "helper" ELSE data[1].t = "bye"

Part(d) ==
  /\ owner' = Without(d) /\ fds' = Unwatch(d)
  /\ stage' = [stage EXCEPT ![owner[d]] = "closed"]
  /\ UNCHANGED answers

\* What is not a request is not answered.
Reply(c, data) ==
  /\ answers' = IF data # <<>> /\ data[1].t \in {"req", "head"}
                THEN [answers EXCEPT ![c] = Append(@, Understood(data))] ELSE answers
  /\ UNCHANGED <<owner, fds, stage>>

\* recv of everything, and what follows from its first bytes.
Serve(d) ==
  /\ spc = "serve"
  /\ d \in temp /\ \A e \in temp : e = Sfd \/ d <= e
  /\ d # Sfd
  /\ temp' = temp \ {d}
  /\ spc' = Onwards(temp')
  /\ inbox' = [inbox EXCEPT ![owner[d]] = <<>>]
  /\ IF Leaves(inbox[owner[d]]) THEN Part(d) ELSE Reply(owner[d], inbox[owner[d]])
  /\ UNCHANGED <<setup, file, handler, stop, listening, ncc, tfd, backlog, clients>>

-----------------------------------------------------------------------------
(* Stopping. *)

\* The process ends: the kernel closes what is open.
Ends(path) ==
  /\ spc' = "down" /\ file' = path
  /\ listening' = FALSE /\ handler' = FALSE /\ stop' = FALSE
  /\ owner' = <<>> /\ fds' = {} /\ temp' = {} /\ ncc' = NoConn
  /\ backlog' = <<>>
  /\ stage' = [c \in Conns |-> IF stage[c] = "new" THEN "new" ELSE "closed"]
  /\ inbox' = [c \in Conns |-> <<>>]
  /\ UNCHANGED <<setup, tfd, clients, answers>>

Shutdown == spc = "loop" /\ stop /\ Ends("none")

\* SIGINT without a handler.
Killed ==
  /\ spc # "down" /\ ~handler
  /\ Ends(IF file = "bound" THEN "stale" ELSE file)

\* stop is looked at in "loop" only: a signal in the middle of a round is one
\* that comes at its end.
Interrupt ==
  /\ spc = "loop" /\ handler
  /\ stop' = TRUE
  /\ UNCHANGED <<setup, spc, file, handler, listening, sets, backlog, stage, clients, inbox, answers>>

-----------------------------------------------------------------------------
(* The clients. *)

Connect(c) ==
  /\ listening /\ stage[c] = "new"
  /\ stage' = [stage EXCEPT ![c] = "waiting"]
  /\ backlog' = Append(backlog, c)
  /\ UNCHANGED <<setup, server, sets, clients, inbox, answers>>

\* The next message of kind t; a tail continues the request before it.
Message(c, t) ==
  CASE t \in {"req", "head"} -> [t |-> t, n |-> asked[c] + 1]
    [] t = "tail" -> [t |-> t, n |-> asked[c]]
    [] OTHER -> Say(t)

Polite(c, t) ==
  \/ t = "hello" /\ sent[c] = 0
  \/ t = "req" /\ sent[c] > 0 /\ Len(answers[c]) = asked[c]

Put(S, c, test) == IF test THEN S \cup {c} ELSE S

Send(c, t) ==
  /\ stage[c] \in {"waiting", "open"} /\ c \notin hup
  /\ sent[c] < MaxSaid[c]
  /\ t = "tail" => c \in half
  /\ sent' = [sent EXCEPT ![c] = @ + 1]
  /\ asked' = [asked EXCEPT ![c] = IF t \in {"req", "head"} THEN @ + 1 ELSE @]
  /\ inbox' = [inbox EXCEPT ![c] = Append(@, Message(c, t))]
  /\ half' = Put(half \ {c}, c, t = "head")
  /\ hasty' = Put(hasty, c, ~Polite(c, t))
  /\ rude' = Put(rude, c, t = "bye" \/ (t # "hello" /\ sent[c] = 0))
  /\ UNCHANGED <<setup, server, sets, backlog, stage, hup, answers>>

HangUp(c) ==
  /\ stage[c] \in {"waiting", "open"} /\ c \notin hup
  /\ hup' = hup \cup {c}
  /\ UNCHANGED <<setup, server, sets, backlog, stage, sent, asked, half, hasty, rude, inbox, answers>>

-----------------------------------------------------------------------------
\* The loop that the three versions share.
Loop == Poll \/ Accept \/ GreetTimeout \/ (\E d \in Fds : Serve(d)) \/ Shutdown

ServerRun  == version = "server" /\ (ServerStart \/ GreetFive \/ Loop)
ScratchRun == version = "scratch" /\ (ScratchStart \/ ScratchStartFails \/ GreetFive \/ Loop)
HelperRun  == version = "helper" /\ (HelperStart \/ GreetAll \/ Loop)

\* What the server does by itself; the time limit of a greeting runs out too.
Server == ServerRun \/ ScratchRun \/ HelperRun

NSNext ==
  \/ Server \/ Killed \/ Interrupt
  \/ \E c \in Conns : Connect(c) \/ HangUp(c) \/ \E t \in Says[c] : Send(c, t)

NSSpec == NSInit /\ [][NSNext]_nsVars /\ WF_nsVars(Server)

-----------------------------------------------------------------------------
(* Properties. *)

NSTypeOK ==
  /\ version \in Versions /\ limit \in Limits
  /\ spc \in {"start", "loop", "accept", "greet", "serve", "down"}
  /\ file \in {"none", "stale", "bound"}
  /\ handler \in BOOLEAN /\ stop \in BOOLEAN /\ listening \in BOOLEAN
  /\ DOMAIN owner \subseteq Fds /\ owner \in [DOMAIN owner -> Conns]
  /\ fds \subseteq Fds \cup {Sfd} /\ temp \subseteq Fds \cup {Sfd}
  /\ ncc \in Fds \cup {NoConn} /\ (spc = "greet" <=> ncc # NoConn)
  /\ tfd \in Nat
  /\ backlog \in Seq(Conns)
  /\ stage \in [Conns -> {"new", "waiting", "open", "closed"}]
  /\ hup \subseteq Conns /\ half \subseteq Conns /\ hasty \subseteq Conns /\ rude \subseteq Conns
  /\ inbox \in [Conns -> Seq([t : Tokens, n : Nat])]
  /\ sent \in [Conns -> Nat] /\ asked \in [Conns -> Nat]
  /\ answers \in [Conns -> Seq(Nat)]

\* No descriptor is lost and none is used after it was closed, whatever accept
\* and close do to the set that select returned: the open ones are those that
\* are watched and the one being greeted, each belongs to one connection, what
\* is still to be served is open, and tfd covers them all.
DescriptorsHeld ==
  /\ DOMAIN owner = (fds \ {Sfd}) \cup (IF spc = "greet" THEN {ncc} ELSE {})
  /\ \A d, e \in DOMAIN owner : owner[d] = owner[e] => d = e
  /\ {c \in Conns : stage[c] = "open"} = {owner[d] : d \in DOMAIN owner}
  /\ spc = "serve" => temp \subseteq fds /\ temp # {}
  /\ \A d \in fds : d <= tfd

\* A client that greets, and asks one whole request at a time, gets the answers
\* to its requests, each once and in order, as long as it is connected.
AnswersMatchRequests ==
  \A c \in Conns \ hasty :
    /\ answers[c] = [k \in 1..Len(answers[c]) |-> k]
    /\ Len(answers[c]) <= asked[c]
    /\ stage[c] = "open" /\ inbox[c] = <<>> => Len(answers[c]) = asked[c]

\* A client that has been accepted with its greeting sent in time is not turned
\* away: server.c and scratch.c close a connection only after BYE, a hang-up,
\* a bad greeting or a silent second, or when they end.
ClosedForCause ==
  [][\A c \in Conns :
       /\ stage[c] = "open" /\ stage'[c] = "closed" /\ spc' # "down"
       /\ version # "helper"
       => c \in hup \cup rude \/ sent[c] = 0]_nsVars

\* Whatever other clients do, what a greeted client sends is read, and a client
\* that connects is accepted or turned away while there are descriptors.  When
\* there are none helper.c, which goes back to select after every accept, does
\* not come to its clients any more.
ClientsServed ==
  \A c \in Conns :
    /\ (stage[c] = "open" /\ inbox[c] # <<>>) ~>
         (stage[c] = "closed" \/ inbox[c] = <<>> \/ (version = "helper" /\ FreeFds = {}))
    /\ (stage[c] = "waiting") ~> (stage[c] # "waiting" \/ FreeFds = {})

\* What a run leaves must not keep the next one from listening.
SocketRemoved == spc = "down" => file = "none"

=============================================================================
