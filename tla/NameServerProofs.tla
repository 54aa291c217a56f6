-------------------------- MODULE NameServerProofs --------------------------
(***************************************************************************)
(* Safety of the name servers for every set of connections and             *)
(* descriptors and whatever the clients may say.                           *)
(***************************************************************************)
EXTENDS NameServer, SequenceTheorems, WellFoundedInduction, TLAPS

(* Nothing is watched before the loop and after it; in it the socket is,    *)
(* and the client that is being greeted is not yet.                        *)
Watching ==
  /\ spc \in {"start", "down"} => fds = {} /\ DOMAIN owner = {}
  /\ spc \notin {"start", "down"} => Sfd \in fds
  /\ spc = "greet" => ncc \notin fds

(* A connection waits in the backlog at most once, and accept is called     *)
(* when there is one to take or when it fails at once.                     *)
Lined ==
  /\ \A k \in 1..Len(backlog) : stage[backlog[k]] = "waiting"
  /\ \A k, l \in 1..Len(backlog) : backlog[k] = backlog[l] => k = l
  /\ spc = "accept" => Len(backlog) > 0 \/ ~listening

(* What select found in this round and was not served yet is still watched, *)
(* and there is still something to read or the end of it.                  *)
Found ==
  spc \in {"accept", "greet", "serve"} =>
    /\ temp \subseteq fds
    /\ \A d \in temp \ {Sfd} : Len(inbox[owner[d]]) > 0 \/ owner[d] \in hup

Held == NSTypeOK /\ Watching /\ Lined /\ DescriptorsHeld

Welcomed == {owner[d] : d \in fds \ {Sfd}}

(* Who said goodbye did, and who is not welcomed yet begins with hello.     *)
Told(c) ==
  /\ \A k \in 1..Len(inbox[c]) : inbox[c][k].t = "bye" => c \in rude
  /\ c \notin rude /\ c \notin Welcomed /\ stage[c] # "closed" =>
       IF Len(inbox[c]) = 0 THEN sent[c] = 0 ELSE inbox[c][1].t = "hello"
  /\ stage[c] = "new" => Len(inbox[c]) = 0 /\ sent[c] = 0

Request(n) == [t |-> "req", n |-> n]

(* What the server has still to read of a client that is not hasty: before  *)
(* it is welcomed its greeting and perhaps a request, then one request.    *)
Ahead(c) ==
  /\ Len(answers[c]) = 0 /\ asked[c] <= 1
  /\ Len(inbox[c]) = (IF sent[c] = 0 THEN 0 ELSE 1 + asked[c])
  /\ sent[c] = 0 => asked[c] = 0
  /\ Len(inbox[c]) >= 1 => inbox[c][1] = Say("hello")
  /\ Len(inbox[c]) >= 2 => inbox[c][2] = Request(1)

Behind(c) ==
  /\ sent[c] > 0 /\ Len(inbox[c]) <= 1
  /\ asked[c] = Len(answers[c]) + Len(inbox[c])
  /\ Len(inbox[c]) = 1 => inbox[c][1] = Request(asked[c])

Asking(c) ==
  /\ \A k \in 1..Len(answers[c]) : answers[c][k] = k
  /\ Len(answers[c]) <= asked[c]
  /\ stage[c] # "closed" => IF c \in Welcomed THEN Behind(c) ELSE Ahead(c)

Books(c) == Told(c) /\ (c \notin hasty => Asking(c))

NSInv == Held /\ Found /\ \A c \in Conns : Books(c)

-----------------------------------------------------------------------------
(* The steps of the server, with the greetings of all versions as two: a    *)
(* client is welcome when it begins with hello, and one is dismissed that    *)
(* begins otherwise, says nothing, or - by helper.c - says too much.       *)

Starts == spc = "start" /\ (Deaf \/ (\E handled \in BOOLEAN : Listens(handled)))

Welcomes ==
  /\ Greeting /\ Heard # <<>> /\ Heard[1].t = "hello"
  /\ Welcome(Tail(Heard))

Dismisses ==
  /\ Greeting /\ Dismiss
  /\ \/ Heard = <<>>
     \/ Heard # <<>> /\ Heard[1].t # "hello"
     \/ version = "helper"

Quits == \E path \in {"none", "stale", "bound"} : Ends(path)

LEMMA ServerSteps ==
  ASSUME NSTypeOK, Server
  PROVE  \/ Starts \/ ScratchStartFails \/ Poll \/ Accept \/ Welcomes \/ Dismisses \/ Quits
         \/ \E d \in Fds : Serve(d)
<1>1. GreetFive => Welcomes \/ Dismisses
  BY DEF GreetFive, Welcomes, Dismisses
<1>2. GreetTimeout => Dismisses
  BY DEF GreetTimeout, Dismisses
<1>3. GreetAll /\ version = "helper" => Welcomes \/ Dismisses
  <2> SUFFICES ASSUME GreetAll, version = "helper", Heard = <<Say("hello")>>
               PROVE  Welcomes
    BY DEF GreetAll, Dismisses
  <2>1. Heard # <<>> /\ Heard[1].t = "hello" /\ Tail(Heard) = <<>>
    BY DEF Say
  <2> QED
    BY <2>1 DEF GreetAll, Welcomes
<1>4. ServerStart \/ ScratchStart \/ HelperStart => Starts
  BY DEF ServerStart, ScratchStart, HelperStart, Starts
<1>5. Shutdown => Quits
  BY DEF Shutdown, Quits
<1>6. Loop => \/ Poll \/ Accept \/ Dismisses \/ Quits \/ \E d \in Fds : Serve(d)
  BY <1>2, <1>5 DEF Loop
<1> QED
  BY <1>1, <1>3, <1>4, <1>6, Zenon DEF Server, ServerRun, ScratchRun, HelperRun

LEMMA KilledQuits == NSTypeOK /\ Killed => Quits /\ spc' = "down"
BY DEF NSTypeOK, Killed, Quits, Ends

-----------------------------------------------------------------------------
(* Types, the watched descriptors and the backlog, action by action. *)

LEMMA InitHeld == NSInit => Held
<1> SUFFICES ASSUME NSInit PROVE Held
  OBVIOUS
<1>1. DOMAIN owner = {} /\ Len(backlog) = 0 /\ backlog \in Seq(Conns)
  BY EmptySeq DEF NSInit
<1>2. NSTypeOK
  <2>1. <<>> \in Seq([t : Tokens, n : Nat]) /\ <<>> \in Seq(Nat)
    BY EmptySeq
  <2>2. owner \in [DOMAIN owner -> Conns]
    BY <1>1 DEF NSInit
  <2>3. inbox \in [Conns -> Seq([t : Tokens, n : Nat])] /\ answers \in [Conns -> Seq(Nat)]
    BY <2>1, Zenon DEF NSInit
  <2> QED
    BY <1>1, <2>2, <2>3 DEF NSInit, NSTypeOK, NoConn, Sfd
<1>3. Watching /\ Lined
  BY <1>1 DEF NSInit, Watching, Lined
<1>4. DescriptorsHeld
  BY <1>1 DEF NSInit, DescriptorsHeld
<1> QED
  BY <1>2, <1>3, <1>4 DEF Held

LEMMA StartsHeld == Held /\ Starts => Held'
<1> SUFFICES ASSUME Held, Starts PROVE Held'
  OBVIOUS
<1>1. /\ spc = "start" /\ spc' = "loop" /\ fds' = {Sfd} /\ tfd' = Sfd
      /\ handler' \in BOOLEAN /\ listening' \in BOOLEAN /\ file' \in {"none", "stale", "bound"}
      /\ UNCHANGED <<setup, stop, owner, temp, ncc, backlog, stage, clients, inbox, answers>>
  BY DEF Held, NSTypeOK, Starts, Deaf, Listens
<1>2. NSTypeOK'
  BY <1>1 DEF Held, NSTypeOK, setup, clients, Sfd
<1>3. Watching' /\ Lined'
  BY <1>1 DEF Held, Watching, Lined
<1>4. DescriptorsHeld'
  BY <1>1 DEF Held, Watching, DescriptorsHeld, Sfd
<1> QED
  BY <1>2, <1>3, <1>4 DEF Held

LEMMA ScratchStartFailsHeld == Held /\ ScratchStartFails => Held'
<1> SUFFICES ASSUME Held, ScratchStartFails PROVE Held'
  OBVIOUS
<1>1. NSTypeOK'
  BY DEF Held, NSTypeOK, ScratchStartFails, setup, sets, clients
<1>2. Watching' /\ Lined'
  BY DEF Held, Watching, Lined, ScratchStartFails, sets
<1>3. DescriptorsHeld'
  BY DEF Held, DescriptorsHeld, ScratchStartFails, sets
<1> QED
  BY <1>1, <1>2, <1>3 DEF Held

LEMMA ReadyFound ==
  ASSUME Held
  PROVE  /\ Ready \subseteq fds \cup {Sfd}
         /\ Sfd \in Ready <=> (Len(backlog) > 0 \/ ~listening)
         /\ \A d \in Ready \ {Sfd} : Len(inbox[owner[d]]) > 0 \/ owner[d] \in hup
BY DEF Held, NSTypeOK, Ready, DescriptorsHeld

LEMMA PollHeld == Held /\ Poll => Held'
<1> SUFFICES ASSUME Held, Poll PROVE Held'
  OBVIOUS
<1>1. spc' \in {"loop", "accept", "serve"} /\ temp' \subseteq fds
  BY ReadyFound DEF Poll, Held, Watching
<1>2. NSTypeOK'
  BY <1>1 DEF Held, NSTypeOK, Poll, setup, clients
<1>3. Watching'
  BY <1>1 DEF Held, Watching, Poll
<1>4. Lined'
  BY ReadyFound DEF Held, Lined, Poll
<1>5. DescriptorsHeld'
  BY <1>1 DEF Held, DescriptorsHeld, Poll
<1> QED
  BY <1>2, <1>3, <1>4, <1>5 DEF Held

LEMMA QuitsHeld == Held /\ Quits => Held'
<1> SUFFICES ASSUME Held, NEW path \in {"none", "stale", "bound"}, Ends(path) PROVE Held'
  BY DEF Quits
<1>1. DOMAIN owner' = {} /\ Len(backlog') = 0 /\ backlog' \in Seq(Conns)
  BY EmptySeq DEF Ends
<1>2. NSTypeOK'
  <2>1. <<>> \in Seq([t : Tokens, n : Nat])
    BY EmptySeq
  <2>2. owner' \in [DOMAIN owner' -> Conns]
    BY <1>1 DEF Ends
  <2>3. inbox' \in [Conns -> Seq([t : Tokens, n : Nat])]
    BY <2>1, Zenon DEF Ends
  <2> QED
    BY <1>1, <2>2, <2>3 DEF Held, NSTypeOK, Ends, setup, clients, NoConn
<1>3. Watching' /\ Lined'
  BY <1>1 DEF Watching, Lined, Ends
<1>4. DescriptorsHeld'
  BY <1>1 DEF DescriptorsHeld, Ends
<1> QED
  BY <1>2, <1>3, <1>4 DEF Held

LEMMA InterruptHeld == Held /\ Interrupt => Held'
<1> SUFFICES ASSUME Held, Interrupt PROVE Held'
  OBVIOUS
<1>1. NSTypeOK'
  BY DEF Held, NSTypeOK, Interrupt, setup, sets, clients
<1>2. Watching' /\ Lined' /\ DescriptorsHeld'
  BY DEF Held, Watching, Lined, DescriptorsHeld, Interrupt, sets
<1> QED
  BY <1>1, <1>2 DEF Held

(* accept gives the client a descriptor that is not open: the least one.   *)
LEMMA FreshFd ==
  ASSUME Held, FreeFds # {}
  PROVE  Min(FreeFds) \in Fds \ DOMAIN owner
<1>1. FreeFds \subseteq Nat /\ FreeFds \subseteq Fds \ DOMAIN owner
  BY NameServerAssumption DEF FreeFds
<1>2. IsWellFoundedOn(OpToRel(<, Nat), Nat)
  BY NatLessThanWellFounded
<1>3. PICK m \in FreeFds : \A k \in FreeFds : <<k, m>> \notin OpToRel(<, Nat)
  BY <1>1, <1>2, WFMin
<1>4. \A k \in FreeFds : k \in Nat /\ ~(k < m)
  <2> SUFFICES ASSUME NEW k \in FreeFds PROVE k \in Nat /\ ~(k < m)
    OBVIOUS
  <2>1. k \in Nat /\ m \in Nat /\ <<k, m>> \notin OpToRel(<, Nat)
    BY <1>1, <1>3
  <2> HIDE DEF FreeFds
  <2> QED
    BY <2>1 DEF OpToRel
<1>5. \A k \in FreeFds : m <= k
  BY <1>1, <1>4
<1>6. Min(FreeFds) \in FreeFds
  BY <1>5, Zenon DEF Min
<1> QED
  BY <1>1, <1>6

(* The two outcomes of accept. *)
Accepts(d, c) ==
  /\ spc = "accept" /\ spc' = "greet"
  /\ d \in Fds \ DOMAIN owner /\ Len(backlog) > 0 /\ c = backlog[1]
  /\ ncc' = d
  /\ owner' = [x \in DOMAIN owner \cup {d} |-> IF x = d THEN c ELSE owner[x]]
  /\ stage' = [stage EXCEPT ![c] = "open"]
  /\ backlog' = Tail(backlog)
  /\ UNCHANGED <<setup, file, handler, stop, listening, fds, temp, tfd, clients, inbox, answers>>

AcceptFails ==
  /\ spc = "accept" /\ spc' = AfterAccept
  /\ UNCHANGED <<setup, file, handler, stop, listening, sets, backlog, stage, clients, inbox,
                 answers>>

LEMMA AcceptCases ==
  ASSUME Held, Accept
  PROVE  AcceptFails \/ \E d \in Fds, c \in Conns : Accepts(d, c)
<1>1. CASE listening /\ FreeFds # {}
  <2>1. Len(backlog) > 0 /\ backlog[1] \in Conns
    BY <1>1 DEF Held, NSTypeOK, Lined, Accept
  <2>2. Accepts(Min(FreeFds), backlog[1])
    <3> DEFINE m == Min(FreeFds)
    <3>1. m \in Fds \ DOMAIN owner /\ ncc' = m
      BY <1>1, FreshFd DEF Accept
    <3> HIDE DEF m
    <3>2. Accepts(m, backlog[1])
      BY <1>1, <2>1, <3>1 DEF Accept, Accepts
    <3> QED
      BY <3>2 DEF m
  <2> QED
    BY <1>1, <2>1, <2>2, FreshFd
<1>2. CASE ~(listening /\ FreeFds # {})
  BY <1>2 DEF Accept, AcceptFails, sets
<1> QED
  BY <1>1, <1>2

(* After an accept that came to nothing and after a greeting the round goes *)
(* on with what it found.                                                  *)
LEMMA AfterAcceptPlace ==
  AfterAccept \in {"loop", "serve"} /\ (AfterAccept = "serve" => ~(temp \subseteq {Sfd}))
BY DEF AfterAccept, Onwards

(* What is left of a sequence without its head. *)
LEMMA TailFacts ==
  ASSUME NEW S, NEW q \in Seq(S), Len(q) > 0
  PROVE  /\ Tail(q) \in Seq(S) /\ Len(Tail(q)) = Len(q) - 1
         /\ \A k \in 1..Len(Tail(q)) : k + 1 \in 1..Len(q) /\ Tail(q)[k] = q[k + 1]
<1>1. Tail(q) \in Seq(S) /\ Len(Tail(q)) = Len(q) - 1
  BY HeadTailProperties, EmptySeq
<1> QED
  BY <1>1

LEMMA AcceptsHeld ==
  ASSUME Held, NEW d \in Fds, NEW c \in Conns, Accepts(d, c)
  PROVE  Held'
<1>1. DOMAIN owner' = DOMAIN owner \cup {d} /\ owner'[d] = c
      /\ \A x \in DOMAIN owner : owner'[x] = owner[x]
  BY DEF Accepts
<1>2. /\ stage[c] = "waiting" /\ \A x \in DOMAIN owner : owner[x] # c
  <2>1. stage[c] = "waiting"
    <3>1. Len(backlog) > 0 /\ Len(backlog) \in Nat /\ c = backlog[1]
      BY DEF Held, NSTypeOK, Accepts
    <3>2. 1 \in 1..Len(backlog)
      BY <3>1
    <3> QED
      BY <3>1, <3>2, Zenon DEF Held, Lined
  <2> QED
    BY <2>1 DEF Held, NSTypeOK, DescriptorsHeld
<1>3. /\ Len(backlog') = Len(backlog) - 1 /\ backlog' \in Seq(Conns)
      /\ \A k \in 1..Len(backlog') : k + 1 \in 1..Len(backlog) /\ backlog'[k] = backlog[k + 1]
  <2>1. backlog \in Seq(Conns) /\ Len(backlog) > 0 /\ backlog' = Tail(backlog)
    BY DEF Held, NSTypeOK, Accepts
  <2> QED
    BY <2>1, TailFacts
<1>4. NSTypeOK'
  <2>1. owner' \in [DOMAIN owner' -> Conns] /\ DOMAIN owner' \subseteq Fds
    BY <1>1 DEF Held, NSTypeOK, Accepts
  <2>2. stage' \in [Conns -> {"new", "waiting", "open", "closed"}]
    BY DEF Held, NSTypeOK, Accepts
  <2> QED
    BY <1>3, <2>1, <2>2, NameServerAssumption DEF Held, NSTypeOK, Accepts, setup, clients, NoConn
<1>5. Watching'
  <2>1. d \notin fds
    BY NameServerAssumption DEF Held, DescriptorsHeld, Accepts, Sfd
  <2> QED
    BY <2>1 DEF Held, Watching, Accepts
<1>6. Lined'
  <2>1. \A k \in 1..Len(backlog') : stage'[backlog'[k]] = "waiting"
    <3> SUFFICES ASSUME NEW k \in 1..Len(backlog') PROVE stage'[backlog'[k]] = "waiting"
      OBVIOUS
    <3>1. k + 1 \in 1..Len(backlog) /\ backlog'[k] = backlog[k + 1] /\ k + 1 # 1
      BY <1>3
    <3>2. stage[backlog[k + 1]] = "waiting" /\ backlog[k + 1] # c /\ backlog[k + 1] \in Conns
      <4>1. stage[backlog[k + 1]] = "waiting"
        BY <3>1, Zenon DEF Held, Lined
      <4>2. backlog \in Seq(Conns) /\ 1 \in 1..Len(backlog) /\ c = backlog[1]
        BY <3>1 DEF Held, NSTypeOK, Accepts
      <4>3. backlog[k + 1] # c
        BY <3>1, <4>2, Zenon DEF Held, Lined
      <4> QED
        BY <3>1, <4>1, <4>2, <4>3, ElementOfSeq, Zenon
    <3> QED
      BY <3>1, <3>2 DEF Held, NSTypeOK, Accepts
  <2>2. \A k, l \in 1..Len(backlog') : backlog'[k] = backlog'[l] => k = l
    BY <1>3 DEF Held, Lined
  <2> QED
    BY <2>1, <2>2 DEF Lined, Accepts
<1>7. DescriptorsHeld'
  <2>1. DOMAIN owner' = (fds' \ {Sfd}) \cup {ncc'}
    BY <1>1 DEF Held, DescriptorsHeld, Accepts
  <2>2. \A x, y \in DOMAIN owner' : owner'[x] = owner'[y] => x = y
    BY <1>1, <1>2 DEF Held, DescriptorsHeld, Accepts
  <2>3. \A e \in Conns : stage'[e] = "open" <=> e = c \/ stage[e] = "open"
    BY DEF Held, NSTypeOK, Accepts
  <2>4. {e \in Conns : stage'[e] = "open"} = {owner'[x] : x \in DOMAIN owner'}
    BY <1>1, <2>3 DEF Held, DescriptorsHeld
  <2> QED
    BY <2>1, <2>2, <2>4 DEF Held, DescriptorsHeld, Accepts
<1> QED
  BY <1>4, <1>5, <1>6, <1>7 DEF Held

LEMMA AcceptFailsHeld == Held /\ Found /\ AcceptFails => Held'
<1> SUFFICES ASSUME Held, Found, AcceptFails PROVE Held'
  OBVIOUS
<1>1. spc' \in {"loop", "serve"} /\ (spc' = "serve" => temp \subseteq fds /\ temp # {})
  BY AfterAcceptPlace DEF AcceptFails, Found
<1>2. NSTypeOK'
  BY <1>1 DEF Held, NSTypeOK, AcceptFails, setup, sets, clients
<1>3. Watching' /\ Lined' /\ DescriptorsHeld'
  BY <1>1 DEF Held, Watching, Lined, DescriptorsHeld, AcceptFails, sets
<1> QED
  BY <1>2, <1>3 DEF Held

LEMMA WelcomesHeld == Held /\ Found /\ Welcomes => Held'
<1> SUFFICES ASSUME Held, Found, Welcomes PROVE Held'
  OBVIOUS
<1>1. spc' \in {"loop", "serve"} /\ (spc' = "serve" => temp \subseteq fds /\ temp # {})
  BY AfterAcceptPlace DEF Welcomes, Greeting, Found
<1>2. ncc \in DOMAIN owner /\ ncc \in Fds /\ owner[ncc] \in Conns
  BY DEF Held, NSTypeOK, DescriptorsHeld, Welcomes, Greeting
<1>3. Tail(Heard) \in Seq([t : Tokens, n : Nat])
  <2>1. Heard \in Seq([t : Tokens, n : Nat])
    BY <1>2, Zenon DEF Held, NSTypeOK, Heard
  <2> QED
    BY <2>1, HeadTailProperties DEF Welcomes
<1>4. tfd' \in Nat /\ tfd' >= tfd /\ tfd' >= ncc
  BY <1>2, NameServerAssumption DEF Held, NSTypeOK, Welcomes, Welcome, Highest
<1>5. NSTypeOK'
  <2>1. inbox' \in [Conns -> Seq([t : Tokens, n : Nat])]
    BY <1>2, <1>3 DEF Held, NSTypeOK, Welcomes, Welcome
  <2> QED
    BY <1>1, <1>2, <1>4, <2>1
    DEF Held, NSTypeOK, Welcomes, Welcome, Greeting, setup, clients
<1>6. Watching' /\ Lined'
  BY <1>1 DEF Held, Watching, Lined, Welcomes, Welcome, Greeting
<1>7. DescriptorsHeld'
  <2>1. ncc # Sfd
    BY <1>2, NameServerAssumption DEF Sfd
  <2>2. \A d \in fds' : d <= tfd'
    <3> SUFFICES ASSUME NEW d \in fds' PROVE d <= tfd'
      OBVIOUS
    <3>1. d = ncc \/ d \in fds
      BY DEF Welcomes, Welcome
    <3>2. fds \subseteq Nat /\ tfd \in Nat /\ ncc \in Nat
      BY <1>2, NameServerAssumption DEF Held, NSTypeOK, Sfd
    <3>3. d \in fds => d <= tfd
      BY DEF Held, DescriptorsHeld
    <3>4. CASE d = ncc
      BY <1>4, <3>4
    <3>5. CASE d \in fds
      <4>1. d \in Nat /\ d <= tfd
        BY <3>2, <3>3, <3>5
      <4> QED
        BY <1>4, <3>2, <4>1
    <3> QED
      BY <3>1, <3>4, <3>5
  <2> QED
    BY <1>1, <1>2, <2>1, <2>2 DEF Held, DescriptorsHeld, Welcomes, Welcome, Greeting
<1> QED
  BY <1>5, <1>6, <1>7 DEF Held

(* A descriptor that is closed belongs to nobody any more.                 *)
LEMMA WithoutFacts ==
  ASSUME Held, NEW d \in DOMAIN owner, owner' = Without(d),
         stage' = [stage EXCEPT ![owner[d]] = "closed"]
  PROVE  /\ DOMAIN owner' = DOMAIN owner \ {d} /\ owner' \in [DOMAIN owner' -> Conns]
         /\ \A x \in DOMAIN owner' : owner'[x] = owner[x]
         /\ stage' \in [Conns -> {"new", "waiting", "open", "closed"}]
         /\ owner[d] \in Conns /\ stage[owner[d]] = "open" /\ stage'[owner[d]] = "closed"
         /\ \A c \in Conns : c # owner[d] => stage'[c] = stage[c]
         /\ {c \in Conns : stage'[c] = "open"} = {owner'[x] : x \in DOMAIN owner'}
<1>1. /\ DOMAIN owner' = DOMAIN owner \ {d} /\ owner' \in [DOMAIN owner' -> Conns]
      /\ \A x \in DOMAIN owner' : owner'[x] = owner[x]
  BY DEF Held, NSTypeOK, Without
<1>2. /\ stage' \in [Conns -> {"new", "waiting", "open", "closed"}]
      /\ owner[d] \in Conns /\ stage[owner[d]] = "open" /\ stage'[owner[d]] = "closed"
      /\ \A c \in Conns : c # owner[d] => stage'[c] = stage[c]
  BY DEF Held, NSTypeOK, DescriptorsHeld
<1>3. {c \in Conns : stage'[c] = "open"} = {owner'[x] : x \in DOMAIN owner'}
  <2>1. \A x \in DOMAIN owner : owner[x] = owner[d] => x = d
    BY DEF Held, DescriptorsHeld
  <2>2. ASSUME NEW c \in Conns, stage'[c] = "open"
        PROVE  c \in {owner'[x] : x \in DOMAIN owner'}
    <3>1. c # owner[d] /\ stage[c] = "open"
      BY <1>2, <2>2
    <3>2. PICK x \in DOMAIN owner : c = owner[x]
      BY <3>1 DEF Held, DescriptorsHeld
    <3> QED
      BY <1>1, <3>1, <3>2
  <2>3. ASSUME NEW x \in DOMAIN owner'
        PROVE  owner'[x] \in Conns /\ stage'[owner'[x]] = "open"
    <3>1. x \in DOMAIN owner /\ x # d /\ owner'[x] = owner[x]
      BY <1>1, <2>3
    <3>2. owner[x] \in Conns /\ stage[owner[x]] = "open" /\ owner[x] # owner[d]
      BY <2>1, <3>1 DEF Held, NSTypeOK, DescriptorsHeld
    <3> QED
      BY <1>2, <3>1, <3>2
  <2> QED
    BY <2>2, <2>3
<1> QED
  BY <1>1, <1>2, <1>3

LEMMA DismissesHeld == Held /\ Found /\ Dismisses => Held'
<1> SUFFICES ASSUME Held, Found, Dismisses PROVE Held'
  OBVIOUS
<1>1. spc' \in {"loop", "serve"} /\ (spc' = "serve" => temp \subseteq fds /\ temp # {})
  BY AfterAcceptPlace DEF Dismisses, Greeting, Found
<1>2. /\ ncc \in DOMAIN owner /\ ncc \in Fds /\ ncc \notin fds
      /\ DOMAIN owner \ {ncc} = fds \ {Sfd}
  BY DEF Held, NSTypeOK, Watching, DescriptorsHeld, Dismisses, Greeting
<1>3. /\ DOMAIN owner' = DOMAIN owner \ {ncc} /\ owner' \in [DOMAIN owner' -> Conns]
      /\ \A x \in DOMAIN owner' : owner'[x] = owner[x]
      /\ stage' \in [Conns -> {"new", "waiting", "open", "closed"}]
      /\ owner[ncc] \in Conns /\ stage[owner[ncc]] = "open"
      /\ \A c \in Conns : c # owner[ncc] => stage'[c] = stage[c]
      /\ {c \in Conns : stage'[c] = "open"} = {owner'[x] : x \in DOMAIN owner'}
  BY <1>2, WithoutFacts DEF Dismisses, Dismiss
<1>4. NSTypeOK'
  <2>1. inbox' \in [Conns -> Seq([t : Tokens, n : Nat])]
    BY <1>3, EmptySeq DEF Held, NSTypeOK, Dismisses, Dismiss
  <2>2. DOMAIN owner' \subseteq Fds
    BY <1>3 DEF Held, NSTypeOK
  <2> QED
    BY <1>1, <1>3, <2>1, <2>2
    DEF Held, NSTypeOK, Dismisses, Dismiss, Greeting, setup, clients, NoConn
<1>5. Watching'
  BY <1>1 DEF Held, Watching, Dismisses, Dismiss, Greeting
<1>6. Lined'
  <2>1. \A k \in 1..Len(backlog) : stage'[backlog[k]] = "waiting"
    <3> SUFFICES ASSUME NEW k \in 1..Len(backlog) PROVE stage'[backlog[k]] = "waiting"
      OBVIOUS
    <3>1. stage[backlog[k]] = "waiting" /\ backlog[k] \in Conns
      BY ElementOfSeq DEF Held, NSTypeOK, Lined
    <3> QED
      BY <1>3, <3>1
  <2> QED
    BY <1>1, <2>1 DEF Held, Lined, Dismisses, Greeting
<1>7. DescriptorsHeld'
  <2>1. \A x, y \in DOMAIN owner' : owner'[x] = owner'[y] => x = y
    BY <1>3 DEF Held, DescriptorsHeld
  <2>2. DOMAIN owner' = fds' \ {Sfd} /\ fds' = fds /\ tfd' = tfd
    BY <1>2, <1>3 DEF Dismisses, Dismiss
  <2> QED
    BY <1>1, <1>3, <2>1, <2>2 DEF Held, DescriptorsHeld, Dismisses, Greeting
<1> QED
  BY <1>4, <1>5, <1>6, <1>7 DEF Held

(* A descriptor found ready is served: its client is gone or gets an answer *)
(* to what it said.                                                        *)
LEMMA OnwardsPlace ==
  ASSUME NEW S
  PROVE  Onwards(S) \in {"loop", "serve"} /\ (Onwards(S) = "serve" => ~(S \subseteq {Sfd}))
BY DEF Onwards

LEMMA UnderstoodNumber ==
  ASSUME NEW q \in Seq([t : Tokens, n : Nat])
  PROVE  Understood(q) \in Nat
<1>1. Len(q) > 0 => q[1].n \in Nat
  <2> SUFFICES ASSUME Len(q) > 0 PROVE q[1].n \in Nat
    OBVIOUS
  <2>1. 1 \in 1..Len(q)
    BY LenProperties
  <2>2. q[1] \in [t : Tokens, n : Nat]
    BY <2>1, ElementOfSeq, Zenon
  <2> QED
    BY <2>2
<1> QED
  BY <1>1 DEF Understood

LEMMA ServeHeld ==
  ASSUME Held, Found, NEW d \in Fds, Serve(d)
  PROVE  Held'
<1>1. spc' \in {"loop", "serve"} /\ (spc' = "serve" => temp' \subseteq fds /\ temp' # {})
  BY OnwardsPlace DEF Serve, Found
<1>2. /\ d \in DOMAIN owner /\ d \in fds /\ d # Sfd /\ owner[d] \in Conns
      /\ DOMAIN owner = fds \ {Sfd} /\ ncc = NoConn
  BY DEF Held, NSTypeOK, DescriptorsHeld, Found, Serve
<1>3. inbox' \in [Conns -> Seq([t : Tokens, n : Nat])]
  BY <1>2, EmptySeq DEF Held, NSTypeOK, Serve
<1>4. CASE Leaves(inbox[owner[d]])
  <2>1. /\ owner' = Without(d) /\ fds' = fds \ {d}
        /\ stage' = [stage EXCEPT ![owner[d]] = "closed"] /\ answers' = answers
    BY <1>4 DEF Serve, Part, Unwatch
  <2>2. /\ DOMAIN owner' = DOMAIN owner \ {d} /\ owner' \in [DOMAIN owner' -> Conns]
        /\ \A x \in DOMAIN owner' : owner'[x] = owner[x]
        /\ stage' \in [Conns -> {"new", "waiting", "open", "closed"}]
        /\ stage[owner[d]] = "open"
        /\ \A c \in Conns : c # owner[d] => stage'[c] = stage[c]
        /\ {c \in Conns : stage'[c] = "open"} = {owner'[x] : x \in DOMAIN owner'}
    BY <1>2, <2>1, WithoutFacts
  <2>3. NSTypeOK'
    <3>1. DOMAIN owner' \subseteq Fds /\ fds' \subseteq Fds \cup {Sfd}
          /\ temp' \subseteq Fds \cup {Sfd}
      BY <2>1, <2>2 DEF Held, NSTypeOK, Serve
    <3> QED
      BY <1>1, <1>2, <1>3, <2>1, <2>2, <3>1
      DEF Held, NSTypeOK, Serve, setup, clients, NoConn
  <2>4. Watching'
    BY <1>1, <1>2, <2>1 DEF Held, Watching, Serve
  <2>5. Lined'
    <3>1. \A k \in 1..Len(backlog) : stage'[backlog[k]] = "waiting"
      <4> SUFFICES ASSUME NEW k \in 1..Len(backlog) PROVE stage'[backlog[k]] = "waiting"
        OBVIOUS
      <4>1. stage[backlog[k]] = "waiting" /\ backlog[k] \in Conns
        BY ElementOfSeq DEF Held, NSTypeOK, Lined
      <4> QED
        BY <2>2, <4>1
    <3> QED
      BY <1>1, <3>1 DEF Held, Lined, Serve
  <2>6. DescriptorsHeld'
    <3>1. \A x, y \in DOMAIN owner' : owner'[x] = owner'[y] => x = y
      BY <2>2 DEF Held, DescriptorsHeld
    <3>2. DOMAIN owner' = fds' \ {Sfd} /\ tfd' = tfd
      BY <1>2, <2>1, <2>2 DEF Serve
    <3>3. spc' = "serve" => temp' \subseteq fds' /\ temp' # {}
      BY <1>1, <2>1 DEF Serve
    <3> QED
      BY <1>1, <2>1, <2>2, <3>1, <3>2, <3>3 DEF Held, DescriptorsHeld
  <2> QED
    BY <2>3, <2>4, <2>5, <2>6 DEF Held
<1>5. CASE ~Leaves(inbox[owner[d]])
  <2>1. UNCHANGED <<owner, fds, stage>>
    BY <1>5 DEF Serve, Reply
  <2>2. answers' \in [Conns -> Seq(Nat)]
    <3>1. inbox[owner[d]] \in Seq([t : Tokens, n : Nat]) /\ answers[owner[d]] \in Seq(Nat)
      BY <1>2 DEF Held, NSTypeOK
    <3>2. Append(answers[owner[d]], Understood(inbox[owner[d]])) \in Seq(Nat)
      <4>1. Understood(inbox[owner[d]]) \in Nat
        BY <3>1, UnderstoodNumber, Zenon
      <4> QED
        BY <3>1, <4>1
    <3> QED
      BY <1>2, <1>5, <3>2 DEF Held, NSTypeOK, Serve, Reply
  <2>3. NSTypeOK'
    <3>1. temp' \subseteq Fds \cup {Sfd}
      BY DEF Held, NSTypeOK, Serve
    <3> QED
      BY <1>1, <1>2, <1>3, <2>1, <2>2, <3>1 DEF Held, NSTypeOK, Serve, setup, clients, NoConn
  <2>4. Watching' /\ Lined'
    BY <1>1, <1>2, <2>1 DEF Held, Watching, Lined, Serve
  <2>5. DescriptorsHeld'
    BY <1>1, <1>2, <2>1 DEF Held, DescriptorsHeld, Serve
  <2> QED
    BY <2>3, <2>4, <2>5 DEF Held
<1> QED
  BY <1>4, <1>5

LEMMA ConnectHeld ==
  ASSUME Held, NEW c \in Conns, Connect(c)
  PROVE  Held'
<1>1. /\ backlog' \in Seq(Conns) /\ Len(backlog') = Len(backlog) + 1
      /\ \A k \in 1..Len(backlog) : backlog'[k] = backlog[k]
      /\ backlog'[Len(backlog) + 1] = c
  BY DEF Held, NSTypeOK, Connect
<1>2. /\ stage' \in [Conns -> {"new", "waiting", "open", "closed"}]
      /\ stage[c] = "new" /\ stage'[c] = "waiting"
      /\ \A e \in Conns : e # c => stage'[e] = stage[e]
  BY DEF Held, NSTypeOK, Connect
<1>3. \A k \in 1..Len(backlog) : stage[backlog[k]] = "waiting" /\ backlog[k] \in Conns \ {c}
  <2> SUFFICES ASSUME NEW k \in 1..Len(backlog)
               PROVE  stage[backlog[k]] = "waiting" /\ backlog[k] \in Conns \ {c}
    OBVIOUS
  <2>1. stage[backlog[k]] = "waiting" /\ backlog[k] \in Conns
    BY ElementOfSeq DEF Held, NSTypeOK, Lined
  <2> QED
    BY <1>2, <2>1
<1>4. Len(backlog) \in Nat
  BY DEF Held, NSTypeOK
<1>5. NSTypeOK'
  BY <1>1, <1>2 DEF Held, NSTypeOK, Connect, setup, server, sets, clients
<1>6. Watching'
  BY DEF Held, Watching, Connect, server, sets
<1>7. Lined'
  <2>1. \A k \in 1..Len(backlog') : k = Len(backlog) + 1 \/ k \in 1..Len(backlog)
    BY <1>1, <1>4
  <2>2. \A k \in 1..Len(backlog') : stage'[backlog'[k]] = "waiting"
    BY <1>1, <1>2, <1>3, <2>1
  <2>3. \A k, l \in 1..Len(backlog') : backlog'[k] = backlog'[l] => k = l
    BY <1>1, <1>3, <2>1 DEF Held, Lined
  <2>4. Len(backlog') > 0
    BY <1>1, <1>4
  <2> QED
    BY <2>2, <2>3, <2>4 DEF Lined
<1>8. DescriptorsHeld'
  <2>1. {e \in Conns : stage'[e] = "open"} = {e \in Conns : stage[e] = "open"}
    BY <1>2
  <2> QED
    BY <2>1 DEF Held, DescriptorsHeld, Connect, server, sets
<1> QED
  BY <1>5, <1>6, <1>7, <1>8 DEF Held

LEMMA HangUpHeld ==
  ASSUME Held, NEW c \in Conns, HangUp(c)
  PROVE  Held'
<1>1. NSTypeOK'
  BY DEF Held, NSTypeOK, HangUp, setup, server, sets
<1>2. Watching' /\ Lined'
  BY DEF Held, Watching, Lined, HangUp, server, sets
<1>3. DescriptorsHeld'
  BY DEF Held, DescriptorsHeld, HangUp, server, sets
<1> QED
  BY <1>1, <1>2, <1>3 DEF Held

LEMMA SendHeld ==
  ASSUME Held, NEW c \in Conns, NEW t \in Says[c], Send(c, t)
  PROVE  Held'
<1>1. t \in Tokens /\ asked[c] \in Nat /\ inbox[c] \in Seq([t : Tokens, n : Nat])
  BY NameServerAssumption DEF Held, NSTypeOK
<1>2. Message(c, t) \in [t : Tokens, n : Nat]
  BY <1>1 DEF Message, Say
<1>3. /\ sent' \in [Conns -> Nat] /\ asked' \in [Conns -> Nat]
      /\ half' \subseteq Conns /\ hasty' \subseteq Conns /\ rude' \subseteq Conns
  BY DEF Held, NSTypeOK, Send, Put
<1>4. inbox' \in [Conns -> Seq([t : Tokens, n : Nat])]
  <2>1. Append(inbox[c], Message(c, t)) \in Seq([t : Tokens, n : Nat])
    BY <1>1, <1>2
  <2> QED
    BY <2>1 DEF Held, NSTypeOK, Send
<1>5. NSTypeOK'
  BY <1>3, <1>4 DEF Held, NSTypeOK, Send, setup, server, sets
<1>6. Watching' /\ Lined'
  BY DEF Held, Watching, Lined, Send, server, sets
<1>7. DescriptorsHeld'
  BY DEF Held, DescriptorsHeld, Send, server, sets
<1> QED
  BY <1>5, <1>6, <1>7 DEF Held

-----------------------------------------------------------------------------
(* What was found and what the clients said, action by action. *)

(* The books of a client stay right when nothing is written in them, but    *)
(* that the connection gets on in its life.                                *)
LEMMA SameBooks ==
  ASSUME NEW c \in Conns, Books(c),
         inbox'[c] = inbox[c], sent'[c] = sent[c], asked'[c] = asked[c],
         answers'[c] = answers[c], c \in rude' <=> c \in rude, c \in hasty' <=> c \in hasty,
         \/ stage'[c] = "closed"
         \/ /\ c \in Welcomed' <=> c \in Welcomed
            /\ stage[c] # "closed" /\ (stage'[c] = "new" => stage[c] = "new")
  PROVE  Books(c)'
<1>1. Told(c)'
  BY DEF Books, Told
<1>2. (c \in hasty \/ Asking(c)) => (c \in hasty' \/ Asking(c)')
  BY DEF Asking, Ahead, Behind
<1> QED
  BY <1>1, <1>2 DEF Books

LEMMA UnchangedBooks ==
  ASSUME NEW c \in Conns, Books(c), UNCHANGED <<stage, clients, inbox, answers>>,
         Welcomed' = Welcomed
  PROVE  Books(c)'
<1>1. CASE stage[c] = "closed"
  BY <1>1, SameBooks DEF clients
<1>2. CASE stage[c] # "closed"
  BY <1>2, SameBooks DEF clients
<1> QED
  BY <1>1, <1>2

LEMMA SameWelcomed ==
  ASSUME fds' \ {Sfd} = fds \ {Sfd}, \A d \in fds \ {Sfd} : owner'[d] = owner[d]
  PROVE  Welcomed' = Welcomed
BY DEF Welcomed

LEMMA InitBooks ==
  ASSUME NSInit, NEW c \in Conns
  PROVE  Books(c)
<1>1. /\ Len(inbox[c]) = 0 /\ sent[c] = 0 /\ asked[c] = 0 /\ Len(answers[c]) = 0
      /\ stage[c] = "new" /\ Welcomed = {}
  BY DEF NSInit, Welcomed
<1> QED
  BY <1>1 DEF Books, Told, Asking, Ahead

(* The steps that leave clients and connections alone. *)
LEMMA QuietSteps ==
  ASSUME NSInv, Starts \/ ScratchStartFails \/ Poll \/ AcceptFails \/ Interrupt
  PROVE  Found' /\ \A c \in Conns : Books(c)'
<1>1. UNCHANGED <<owner, stage, clients, inbox, answers>>
  BY DEF Starts, Deaf, Listens, ScratchStartFails, Poll, AcceptFails, Interrupt, sets
<1>2. Welcomed' = Welcomed
  <2>1. fds' \ {Sfd} = fds \ {Sfd}
    BY DEF NSInv, Held, Watching, Starts, Deaf, Listens, ScratchStartFails, Poll, AcceptFails,
           Interrupt, sets
  <2> QED
    BY <1>1, <2>1, SameWelcomed
<1>3. Found'
  <2>1. CASE Starts \/ ScratchStartFails \/ Interrupt
    BY <2>1 DEF Starts, Deaf, Listens, ScratchStartFails, Interrupt, Found
  <2>2. CASE Poll
    BY <2>2, ReadyFound DEF Poll, Found, NSInv, Held, Watching, clients
  <2>3. CASE AcceptFails
    BY <2>3 DEF AcceptFails, Found, NSInv, sets, clients
  <2> QED
    BY <2>1, <2>2, <2>3
<1> QED
  BY <1>1, <1>2, <1>3, UnchangedBooks DEF NSInv

LEMMA AcceptsBooks ==
  ASSUME NSInv, NEW d \in Fds, NEW e \in Conns, Accepts(d, e)
  PROVE  Found' /\ \A c \in Conns : Books(c)'
<1>1. /\ \A x \in fds \ {Sfd} : x \in DOMAIN owner /\ owner'[x] = owner[x]
      /\ UNCHANGED <<fds, temp, clients, inbox, answers>>
  BY DEF NSInv, Held, DescriptorsHeld, Accepts
<1>2. Welcomed' = Welcomed
  BY <1>1, SameWelcomed
<1>3. Found'
  BY <1>1 DEF NSInv, Found, Accepts, clients
<1>4. ASSUME NEW c \in Conns
      PROVE  Books(c)'
  <2>1. stage[e] = "waiting"
    <3>1. Len(backlog) > 0 /\ Len(backlog) \in Nat /\ e = backlog[1]
      BY DEF NSInv, Held, NSTypeOK, Accepts
    <3>2. 1 \in 1..Len(backlog)
      BY <3>1
    <3> QED
      BY <3>1, <3>2, Zenon DEF NSInv, Held, Lined
  <2>2. stage'[c] = stage[c] \/ (c = e /\ stage'[c] = "open" /\ stage[c] = "waiting")
    BY <2>1 DEF NSInv, Held, NSTypeOK, Accepts
  <2>3. Books(c) /\ UNCHANGED <<inbox, sent, asked, answers, rude, hasty>>
    BY <1>1 DEF NSInv, clients
  <2> QED
    BY <1>2, <2>2, <2>3, SameBooks
<1> QED
  BY <1>3, <1>4

LEMMA QuitsBooks ==
  ASSUME NSInv, Quits
  PROVE  Found' /\ \A c \in Conns : Books(c)'
<1>1. /\ spc' = "down" /\ fds' = {} /\ UNCHANGED <<clients, answers>>
      /\ stage' = [c \in Conns |-> IF stage[c] = "new" THEN "new" ELSE "closed"]
      /\ inbox' = [c \in Conns |-> <<>>]
  BY DEF Quits, Ends
<1>2. Found'
  BY <1>1 DEF Found
<1>3. ASSUME NEW c \in Conns
      PROVE  Books(c)'
  <2>1. Books(c) /\ UNCHANGED <<sent, asked, answers, rude, hasty>> /\ c \notin Welcomed'
    BY <1>1 DEF NSInv, clients, Welcomed
  <2>2. Len(inbox'[c]) = 0
    BY <1>1
  <2>3. CASE stage[c] = "new"
    <3>1. stage'[c] = "new" /\ c \notin Welcomed
      BY <1>1, <2>3 DEF NSInv, Held, DescriptorsHeld, Welcomed
    <3> QED
      BY <2>1, <2>2, <2>3, <3>1 DEF Books, Told, Asking, Ahead
  <2>4. CASE stage[c] # "new"
    <3>1. stage'[c] = "closed"
      BY <1>1, <2>4
    <3> QED
      BY <2>1, <2>2, <3>1 DEF Books, Told, Asking
  <2> QED
    BY <2>3, <2>4
<1> QED
  BY <1>2, <1>3

(* What is read of one client is not read of another. *)
LEMMA OtherInboxes ==
  ASSUME NSInv, NEW d \in DOMAIN owner, NEW q,
         inbox' = [inbox EXCEPT ![owner[d]] = q]
  PROVE  /\ owner[d] \in Conns /\ inbox'[owner[d]] = q
         /\ \A c \in Conns : c # owner[d] => inbox'[c] = inbox[c]
         /\ \A x \in DOMAIN owner : x # d => inbox'[owner[x]] = inbox[owner[x]]
BY DEF NSInv, Held, NSTypeOK, DescriptorsHeld

(* The client that is being greeted is none of those that are watched.     *)
LEMMA NotWelcomedYet ==
  ASSUME NSInv, spc = "greet"
  PROVE  /\ ncc \in DOMAIN owner /\ ncc \notin fds
         /\ owner[ncc] \in Conns /\ stage[owner[ncc]] = "open" /\ owner[ncc] \notin Welcomed
         /\ \A x \in fds \ {Sfd} : x \in DOMAIN owner /\ x # ncc
<1>1. /\ ncc \in DOMAIN owner /\ ncc \notin fds
      /\ \A x \in fds \ {Sfd} : x \in DOMAIN owner /\ x # ncc
  BY DEF NSInv, Held, Watching, DescriptorsHeld
<1>2. owner[ncc] \in Conns /\ stage[owner[ncc]] = "open"
  BY <1>1 DEF NSInv, Held, NSTypeOK, DescriptorsHeld
<1>3. owner[ncc] \notin Welcomed
  BY <1>1 DEF NSInv, Held, DescriptorsHeld, Welcomed
<1> QED
  BY <1>1, <1>2, <1>3

(* While the greeting is read, what was found stays found. *)
LEMMA GreetingFound ==
  ASSUME NSInv, Greeting, NEW q, inbox' = [inbox EXCEPT ![owner[ncc]] = q],
         fds \subseteq fds', \A x \in fds \ {Sfd} : owner'[x] = owner[x]
  PROVE  Found'
<1>1. /\ \A x \in fds \ {Sfd} : x \in DOMAIN owner /\ x # ncc /\ inbox'[owner[x]] = inbox[owner[x]]
  BY NotWelcomedYet, OtherInboxes DEF Greeting
<1>2. temp \subseteq fds /\ \A d \in temp \ {Sfd} : Len(inbox[owner[d]]) > 0 \/ owner[d] \in hup
  BY DEF NSInv, Found, Greeting
<1>3. temp' = temp /\ hup' = hup
  BY DEF Greeting, clients
<1>4. \A d \in temp' \ {Sfd} : Len(inbox'[owner'[d]]) > 0 \/ owner'[d] \in hup'
  BY <1>1, <1>2, <1>3
<1> QED
  BY <1>2, <1>3, <1>4 DEF Found

LEMMA WelcomesBooks ==
  ASSUME NSInv, Welcomes
  PROVE  Found' /\ \A c \in Conns : Books(c)'
<1>0. PICK e \in Conns : e = owner[ncc]
  BY NotWelcomedYet DEF Welcomes, Dismisses, Greeting
<1>1. /\ Greeting /\ spc = "greet" /\ Len(Heard) > 0 /\ Heard = inbox[e] /\ Heard[1].t = "hello"
      /\ inbox' = [inbox EXCEPT ![owner[ncc]] = Tail(Heard)]
      /\ fds' = fds \cup {ncc}
      /\ UNCHANGED <<owner, stage, clients, answers>>
  <2>1. Heard \in Seq([t : Tokens, n : Nat])
    BY <1>0 DEF Heard, NSInv, Held, NSTypeOK
  <2> QED
    BY <1>0, <2>1 DEF Welcomes, Welcome, Greeting, Heard
<1>2. /\ e \in Conns /\ stage[e] = "open" /\ e \notin Welcomed /\ ncc \in Fds /\ ncc # Sfd
      /\ ncc \in DOMAIN owner
  BY <1>0, <1>1, NotWelcomedYet, NameServerAssumption DEF NSInv, Held, NSTypeOK, Sfd
<1>3. Welcomed' = Welcomed \cup {e}
  BY <1>0, <1>1, <1>2 DEF Welcomed
<1>4. Found'
  BY <1>1, GreetingFound
<1>5. /\ inbox'[e] = Tail(inbox[e])
      /\ \A c \in Conns : c # e => inbox'[c] = inbox[c]
  <2>1. inbox' = [inbox EXCEPT ![owner[ncc]] = Tail(inbox[e])]
    BY <1>1, Zenon
  <2> QED
    BY <1>0, <1>2, <2>1, OtherInboxes, Zenon
<1>6. ASSUME NEW c \in Conns, c # e
      PROVE  Books(c)'
  <2>1. Books(c) /\ UNCHANGED <<stage, sent, asked, answers, rude, hasty>>
        /\ inbox'[c] = inbox[c] /\ (c \in Welcomed' <=> c \in Welcomed)
    BY <1>1, <1>3, <1>5, <1>6 DEF NSInv, clients
  <2>2. stage[c] = "closed" \/ stage[c] # "closed"
    OBVIOUS
  <2> QED
    BY <2>1, <2>2, SameBooks
<1>7. Books(e)'
  <2>1. Books(e) /\ UNCHANGED <<stage, sent, asked, answers, rude, hasty>> /\ e \in Welcomed'
    BY <1>1, <1>2, <1>3 DEF NSInv, clients
  <2>2. /\ inbox[e] \in Seq([t : Tokens, n : Nat]) /\ Len(inbox[e]) > 0 /\ Len(inbox[e]) \in Nat
        /\ asked[e] \in Nat /\ sent[e] \in Nat /\ Len(answers[e]) \in Nat
    <3>1. /\ inbox[e] \in Seq([t : Tokens, n : Nat]) /\ answers[e] \in Seq(Nat)
          /\ asked[e] \in Nat /\ sent[e] \in Nat
      BY <1>2 DEF NSInv, Held, NSTypeOK
    <3> QED
      BY <1>1, <3>1
  <2>3. /\ Len(inbox'[e]) = Len(inbox[e]) - 1
        /\ \A k \in 1..Len(inbox'[e]) : k + 1 \in 1..Len(inbox[e]) /\ inbox'[e][k] = inbox[e][k + 1]
    BY <1>5, <2>2, TailFacts
  <2>4. Told(e)'
    <3>1. \A k \in 1..Len(inbox'[e]) : inbox'[e][k].t = "bye" => e \in rude'
      BY <2>1, <2>3 DEF Books, Told
    <3> QED
      BY <1>1, <1>2, <2>1, <3>1 DEF Told
  <2>5. ASSUME e \notin hasty'
        PROVE  Asking(e)'
    <3>1. Asking(e) /\ Ahead(e)
      BY <1>2, <2>1, <2>5 DEF Books, Asking
    <3>2. /\ sent[e] > 0 /\ Len(answers[e]) = 0 /\ asked[e] <= 1
          /\ Len(inbox[e]) = 1 + asked[e]
      BY <2>2, <3>1 DEF Ahead
    <3>3. Len(inbox'[e]) = 1 => inbox'[e][1] = Request(1) /\ asked[e] = 1
      <4> SUFFICES ASSUME Len(inbox'[e]) = 1 PROVE inbox'[e][1] = Request(1) /\ asked[e] = 1
        OBVIOUS
      <4>1. 1 \in 1..Len(inbox'[e])
        OBVIOUS
      <4>2. inbox'[e][1] = inbox[e][1 + 1]
        BY <2>3, <4>1, Zenon
      <4>3. Len(inbox[e]) = 2
        <5>1. Len(inbox[e]) - 1 = 1
          BY <2>3, Zenon
        <5>2. \A n \in Nat : n - 1 = 1 => n = 2
          OBVIOUS
        <5> QED
          BY <2>2, <5>1, <5>2, Zenon
      <4>4. inbox[e][2] = Request(1)
        BY <3>1, <4>3 DEF Ahead
      <4> QED
        BY <2>2, <3>2, <4>2, <4>3, <4>4
    <3>4. Behind(e)'
      <4>1. asked[e] = Len(answers[e]) + Len(inbox'[e]) /\ Len(inbox'[e]) <= 1
        BY <2>2, <2>3, <3>2
      <4>2. sent'[e] = sent[e] /\ asked'[e] = asked[e] /\ answers'[e] = answers[e]
        BY <2>1
      <4>3. Len(inbox'[e]) = 1 => inbox'[e][1] = Request(asked[e])
        BY <3>3
      <4> QED
        BY <3>2, <4>1, <4>2, <4>3 DEF Behind
    <3> QED
      BY <2>1, <3>1, <3>4 DEF Asking
  <2> QED
    BY <2>4, <2>5 DEF Books
<1> QED
  BY <1>4, <1>6, <1>7

LEMMA DismissesBooks ==
  ASSUME NSInv, Dismisses
  PROVE  Found' /\ \A c \in Conns : Books(c)'
<1>0. PICK e \in Conns : e = owner[ncc]
  BY NotWelcomedYet DEF Welcomes, Dismisses, Greeting
<1>1. /\ Greeting /\ spc = "greet"
      /\ inbox' = [inbox EXCEPT ![owner[ncc]] = <<>>]
      /\ owner' = Without(ncc) /\ stage' = [stage EXCEPT ![owner[ncc]] = "closed"]
      /\ UNCHANGED <<fds, clients, answers>>
  BY DEF Dismisses, Dismiss, Greeting
<1>2. /\ e \in Conns /\ ncc \in DOMAIN owner
      /\ \A x \in fds \ {Sfd} : x \in DOMAIN owner /\ x # ncc
  BY <1>0, <1>1, NotWelcomedYet
<1>3. \A x \in fds \ {Sfd} : owner'[x] = owner[x]
  BY <1>1, <1>2 DEF Without
<1>4. Welcomed' = Welcomed
  BY <1>1, <1>3, SameWelcomed
<1>5. Found'
  BY <1>1, <1>3, GreetingFound
<1>6. /\ inbox'[e] = <<>> /\ stage'[e] = "closed"
      /\ \A c \in Conns : c # e => inbox'[c] = inbox[c] /\ stage'[c] = stage[c]
  BY <1>0, <1>1, <1>2, OtherInboxes DEF NSInv, Held, NSTypeOK
<1>7. ASSUME NEW c \in Conns, c # e
      PROVE  Books(c)'
  <2>1. Books(c) /\ UNCHANGED <<sent, asked, answers, rude, hasty>>
        /\ inbox'[c] = inbox[c] /\ stage'[c] = stage[c]
    BY <1>1, <1>6, <1>7 DEF NSInv, clients
  <2>2. stage[c] = "closed" \/ stage[c] # "closed"
    OBVIOUS
  <2> QED
    BY <1>4, <2>1, <2>2, SameBooks
<1>8. Books(e)'
  <2>1. Books(e) /\ UNCHANGED <<sent, asked, answers, rude, hasty>> /\ Len(inbox'[e]) = 0
    BY <1>1, <1>2, <1>6 DEF NSInv, clients
  <2> QED
    BY <1>6, <2>1 DEF Books, Told, Asking
<1> QED
  BY <1>5, <1>7, <1>8

LEMMA ClientTypes ==
  ASSUME NSInv, NEW c \in Conns
  PROVE  /\ inbox[c] \in Seq([t : Tokens, n : Nat]) /\ Len(inbox[c]) \in Nat
         /\ answers[c] \in Seq(Nat) /\ Len(answers[c]) \in Nat
         /\ asked[c] \in Nat /\ sent[c] \in Nat
<1>1. /\ inbox[c] \in Seq([t : Tokens, n : Nat]) /\ answers[c] \in Seq(Nat)
      /\ asked[c] \in Nat /\ sent[c] \in Nat
  BY DEF NSInv, Held, NSTypeOK
<1> QED
  BY <1>1

(* A request in one piece is understood, with its number. *)
LEMMA UnderstoodRequest ==
  ASSUME NEW q, NEW n, Len(q) = 1, q[1] = Request(n)
  PROVE  Understood(q) = n
BY DEF Understood, Request

LEMMA ServeBooks ==
  ASSUME NSInv, NEW d \in Fds, Serve(d)
  PROVE  Found' /\ \A c \in Conns : Books(c)'
<1>0. PICK e \in Conns : e = owner[d]
  BY DEF NSInv, Held, NSTypeOK, DescriptorsHeld, Found, Serve
<1>1. /\ d \in DOMAIN owner /\ d \in fds /\ d # Sfd /\ DOMAIN owner = fds \ {Sfd}
      /\ spc = "serve" /\ d \in temp /\ temp' = temp \ {d} /\ temp \subseteq fds
      /\ inbox' = [inbox EXCEPT ![owner[d]] = <<>>]
      /\ UNCHANGED clients
  BY DEF NSInv, Held, DescriptorsHeld, Found, Serve
<1>2. e \in Welcomed /\ stage[e] = "open" /\ \A x \in DOMAIN owner : owner[x] = e => x = d
  BY <1>0, <1>1 DEF NSInv, Held, DescriptorsHeld, Welcomed
<1>3. /\ inbox'[e] = <<>>
      /\ \A c \in Conns : c # e => inbox'[c] = inbox[c]
      /\ \A x \in DOMAIN owner : x # d => inbox'[owner[x]] = inbox[owner[x]]
  BY <1>0, <1>1, OtherInboxes
<1>4. ASSUME fds \ {d} \subseteq fds', \A x \in fds \ {Sfd, d} : owner'[x] = owner[x]
      PROVE  Found'
  <2>1. temp' \subseteq fds'
    BY <1>1, <1>4
  <2>2. \A x \in temp \ {Sfd} : Len(inbox[owner[x]]) > 0 \/ owner[x] \in hup
    BY <1>1 DEF NSInv, Found
  <2>3. \A x \in temp' \ {Sfd} : Len(inbox'[owner'[x]]) > 0 \/ owner'[x] \in hup'
    BY <1>1, <1>3, <1>4, <2>2 DEF clients
  <2> QED
    BY <2>1, <2>3 DEF Found
<1>5. CASE Leaves(inbox[owner[d]])
  <2>1. /\ owner' = Without(d) /\ fds' = fds \ {d} /\ answers' = answers
        /\ stage' = [stage EXCEPT ![owner[d]] = "closed"]
    BY <1>5 DEF Serve, Part, Unwatch
  <2>2. \A x \in fds \ {Sfd, d} : owner'[x] = owner[x]
    BY <1>1, <2>1 DEF Without
  <2>3. stage'[e] = "closed" /\ \A c \in Conns : c # e => stage'[c] = stage[c]
    BY <1>0, <2>1 DEF NSInv, Held, NSTypeOK
  <2>4. \A c \in Conns : c # e => (c \in Welcomed' <=> c \in Welcomed)
    BY <1>0, <2>1, <2>2 DEF Welcomed
  <2>5. ASSUME NEW c \in Conns, c # e
        PROVE  Books(c)'
    <3>1. Books(c) /\ UNCHANGED <<sent, asked, answers, rude, hasty>>
          /\ inbox'[c] = inbox[c] /\ stage'[c] = stage[c] /\ (c \in Welcomed' <=> c \in Welcomed)
      BY <1>1, <1>3, <2>1, <2>3, <2>4, <2>5 DEF NSInv, clients
    <3>2. stage[c] = "closed" \/ stage[c] # "closed"
      OBVIOUS
    <3> QED
      BY <3>1, <3>2, SameBooks
  <2>6. Books(e)'
    <3>1. Books(e) /\ UNCHANGED <<sent, asked, answers, rude, hasty>> /\ Len(inbox'[e]) = 0
      BY <1>1, <1>3, <2>1 DEF NSInv, clients
    <3> QED
      BY <2>3, <3>1 DEF Books, Told, Asking
  <2> QED
    BY <1>4, <2>1, <2>2, <2>5, <2>6
<1>6. CASE ~Leaves(inbox[owner[d]])
  <2>1. /\ UNCHANGED <<owner, fds, stage>>
        /\ answers' = IF inbox[e] # <<>> /\ inbox[e][1].t \in {"req", "head"}
                      THEN [answers EXCEPT ![e] = Append(@, Understood(inbox[e]))] ELSE answers
    BY <1>0, <1>6 DEF Serve, Reply
  <2>2. Welcomed' = Welcomed
    BY <2>1 DEF Welcomed
  <2>3. ASSUME NEW c \in Conns, c # e
        PROVE  Books(c)'
    <3>1. answers'[c] = answers[c]
      BY <2>1, <2>3 DEF NSInv, Held, NSTypeOK
    <3>2. Books(c) /\ UNCHANGED <<sent, asked, rude, hasty>>
          /\ inbox'[c] = inbox[c] /\ stage'[c] = stage[c]
      BY <1>1, <1>3, <2>1, <2>3 DEF NSInv, clients
    <3>3. stage[c] = "closed" \/ stage[c] # "closed"
      OBVIOUS
    <3> QED
      BY <2>2, <3>1, <3>2, <3>3, SameBooks
  <2>4. Books(e)'
    <3>1. Books(e) /\ UNCHANGED <<sent, asked, rude, hasty, stage>> /\ Len(inbox'[e]) = 0
          /\ e \in Welcomed'
      BY <1>1, <1>2, <1>3, <2>1, <2>2 DEF NSInv, clients
    <3>2. Told(e)'
      BY <1>2, <3>1 DEF Told
    <3>3. ASSUME e \notin hasty'
          PROVE  Asking(e)'
      <4>1. Asking(e) /\ Behind(e)
        BY <1>2, <3>1, <3>3 DEF Books, Asking
      <4>2. /\ inbox[e] \in Seq([t : Tokens, n : Nat]) /\ answers[e] \in Seq(Nat)
            /\ asked[e] \in Nat /\ sent[e] \in Nat /\ Len(answers[e]) \in Nat
            /\ Len(inbox[e]) \in Nat
        BY ClientTypes
      <4>3. CASE Len(inbox[e]) = 0
        <5>1. inbox[e] = <<>> /\ answers' = answers
          BY <2>1, <4>2, <4>3
        <5>2. Behind(e)'
          BY <3>1, <4>1, <4>3, <5>1 DEF Behind
        <5> QED
          BY <3>1, <4>1, <5>1, <5>2 DEF Asking
      <4>4. CASE Len(inbox[e]) # 0
        <5>1. Len(inbox[e]) = 1 /\ inbox[e][1] = Request(asked[e])
              /\ asked[e] = Len(answers[e]) + 1 /\ sent[e] > 0
          <6>1. Len(inbox[e]) <= 1 /\ Len(inbox[e]) \in Nat
            BY <4>1, <4>2 DEF Behind
          <6>2. Len(inbox[e]) = 1
            <7>1. \A n \in Nat : n <= 1 /\ n # 0 => n = 1
              OBVIOUS
            <7> QED
              BY <4>4, <6>1, <7>1, Zenon
          <6> QED
            BY <4>1, <6>2, Zenon DEF Behind
        <5>2. inbox[e] # <<>> /\ inbox[e][1].t = "req" /\ Understood(inbox[e]) = asked[e]
          BY <5>1, UnderstoodRequest DEF Request
        <5>3. answers'[e] = Append(answers[e], asked[e])
          BY <2>1, <5>2 DEF NSInv, Held, NSTypeOK
        <5>4. /\ Len(answers'[e]) = Len(answers[e]) + 1 /\ Len(answers'[e]) = asked[e]
              /\ \A k \in 1..Len(answers'[e]) : answers'[e][k] = k
          BY <4>1, <4>2, <5>1, <5>3 DEF Asking
        <5>5. asked'[e] = asked[e] /\ sent'[e] = sent[e] /\ stage'[e] = "open"
          BY <1>2, <3>1
        <5>6. Behind(e)'
          BY <3>1, <4>2, <5>1, <5>4, <5>5 DEF Behind
        <5> QED
          BY <3>1, <4>2, <5>4, <5>5, <5>6 DEF Asking
      <4> QED
        BY <4>3, <4>4
    <3> QED
      BY <3>2, <3>3 DEF Books
  <2>5. Found'
    BY <1>4, <2>1
  <2> QED
    BY <2>3, <2>4, <2>5
<1> QED
  BY <1>5, <1>6

LEMMA ConnectBooks ==
  ASSUME NSInv, NEW e \in Conns, Connect(e)
  PROVE  Found' /\ \A c \in Conns : Books(c)'
<1>1. /\ UNCHANGED <<spc, owner, fds, temp, clients, inbox, answers>>
      /\ stage[e] = "new" /\ stage'[e] = "waiting"
      /\ \A c \in Conns : c # e => stage'[c] = stage[c]
  BY DEF NSInv, Held, NSTypeOK, Connect, server, sets
<1>2. Welcomed' = Welcomed
  BY <1>1 DEF Welcomed
<1>3. Found'
  BY <1>1 DEF NSInv, Found, clients
<1>4. ASSUME NEW c \in Conns
      PROVE  Books(c)'
  <2>1. Books(c) /\ UNCHANGED <<inbox, sent, asked, answers, rude, hasty>>
    BY <1>1 DEF NSInv, clients
  <2>2. stage'[c] = "closed" \/ (stage[c] # "closed" /\ (stage'[c] = "new" => stage[c] = "new"))
    BY <1>1
  <2> QED
    BY <1>2, <2>1, <2>2, SameBooks
<1> QED
  BY <1>3, <1>4

LEMMA HangUpBooks ==
  ASSUME NSInv, NEW e \in Conns, HangUp(e)
  PROVE  Found' /\ \A c \in Conns : Books(c)'
<1>1. /\ UNCHANGED <<spc, owner, fds, temp, stage, inbox, answers, sent, asked, rude, hasty>>
      /\ hup \subseteq hup'
  BY DEF HangUp, server, sets
<1>2. Welcomed' = Welcomed
  BY <1>1 DEF Welcomed
<1>3. Found'
  BY <1>1 DEF NSInv, Found
<1>4. ASSUME NEW c \in Conns
      PROVE  Books(c)'
  <2>1. Books(c) /\ UNCHANGED <<stage, inbox, sent, asked, answers, rude, hasty>>
    BY <1>1 DEF NSInv
  <2>2. stage[c] = "closed" \/ stage[c] # "closed"
    OBVIOUS
  <2> QED
    BY <1>2, <2>1, <2>2, SameBooks
<1> QED
  BY <1>3, <1>4

LEMMA SendBooks ==
  ASSUME NSInv, NEW e \in Conns, NEW t \in Says[e], Send(e, t)
  PROVE  Found' /\ \A c \in Conns : Books(c)'
<1>1. /\ UNCHANGED <<spc, owner, fds, temp, stage, answers, hup>>
      /\ stage[e] \in {"waiting", "open"}
      /\ inbox' = [inbox EXCEPT ![e] = Append(@, Message(e, t))]
      /\ sent'[e] = sent[e] + 1
      /\ asked'[e] = IF t \in {"req", "head"} THEN asked[e] + 1 ELSE asked[e]
      /\ e \in hasty' <=> (e \in hasty \/ ~Polite(e, t))
      /\ e \in rude' <=> (e \in rude \/ t = "bye" \/ (t # "hello" /\ sent[e] = 0))
  BY DEF NSInv, Held, NSTypeOK, Send, Put, server, sets
<1>2. \A c \in Conns : c # e =>
        /\ sent'[c] = sent[c] /\ asked'[c] = asked[c] /\ inbox'[c] = inbox[c]
        /\ c \in hasty' <=> c \in hasty
        /\ c \in rude' <=> c \in rude
  BY DEF NSInv, Held, NSTypeOK, Send, Put
<1>3. Welcomed' = Welcomed
  BY <1>1 DEF Welcomed
<1>4. inbox[e] \in Seq([t : Tokens, n : Nat]) /\ Len(inbox[e]) \in Nat
      /\ Len(answers[e]) \in Nat /\ asked[e] \in Nat /\ sent[e] \in Nat
  BY ClientTypes
<1>5. /\ Len(inbox'[e]) = Len(inbox[e]) + 1
      /\ \A k \in 1..Len(inbox[e]) : inbox'[e][k] = inbox[e][k]
      /\ inbox'[e][Len(inbox[e]) + 1] = Message(e, t)
  <2>1. inbox'[e] = Append(inbox[e], Message(e, t))
    BY <1>1 DEF NSInv, Held, NSTypeOK
  <2> QED
    BY <1>4, <2>1
<1>6. Found'
  <2>1. \A c \in Conns : Len(inbox[c]) > 0 => Len(inbox'[c]) > 0
    BY <1>2, <1>4, <1>5
  <2>2. spc \in {"accept", "greet", "serve"} => \A d \in temp \ {Sfd} : owner[d] \in Conns
    BY DEF NSInv, Held, NSTypeOK, DescriptorsHeld, Found
  <2> QED
    BY <1>1, <2>1, <2>2 DEF NSInv, Found
<1>7. ASSUME NEW c \in Conns, c # e
      PROVE  Books(c)'
  <2>1. /\ Books(c) /\ stage'[c] = stage[c] /\ answers'[c] = answers[c]
        /\ sent'[c] = sent[c] /\ asked'[c] = asked[c] /\ inbox'[c] = inbox[c]
        /\ c \in hasty' <=> c \in hasty
        /\ c \in rude' <=> c \in rude
    BY <1>1, <1>2, <1>7 DEF NSInv
  <2>2. stage[c] = "closed" \/ stage[c] # "closed"
    OBVIOUS
  <2> QED
    BY <1>3, <2>1, <2>2, SameBooks
<1>8. Books(e)'
  <2>1. Books(e) /\ stage'[e] = stage[e] /\ answers'[e] = answers[e]
    BY <1>1 DEF NSInv
  <2>2. Message(e, t).t = t
    BY NameServerAssumption DEF Message, Say, Tokens
  <2>3. Told(e)'
    <3>1. \A k \in 1..Len(inbox'[e]) : inbox'[e][k].t = "bye" => e \in rude'
      <4> SUFFICES ASSUME NEW k \in 1..Len(inbox'[e]), inbox'[e][k].t = "bye"
                   PROVE  e \in rude'
        OBVIOUS
      <4>1. k \in 1..Len(inbox[e]) \/ k = Len(inbox[e]) + 1
        BY <1>4, <1>5
      <4>2. CASE k \in 1..Len(inbox[e])
        BY <1>1, <1>5, <2>1, <4>2 DEF Books, Told
      <4>3. CASE k = Len(inbox[e]) + 1
        BY <1>1, <1>5, <2>2, <4>3
      <4> QED
        BY <4>1, <4>2, <4>3
    <3>2. Len(inbox'[e]) # 0 /\ stage'[e] # "new"
      BY <1>1, <1>4, <1>5, <2>1
    <3>3. ASSUME e \notin rude', e \notin Welcomed'
          PROVE  inbox'[e][1].t = "hello"
      <4>1. /\ e \notin rude /\ t # "bye" /\ (t = "hello" \/ sent[e] # 0)
            /\ IF Len(inbox[e]) = 0 THEN sent[e] = 0 ELSE inbox[e][1].t = "hello"
        BY <1>1, <1>3, <2>1, <3>3 DEF Books, Told
      <4>2. CASE Len(inbox[e]) = 0
        BY <1>5, <2>2, <4>1, <4>2
      <4>3. CASE Len(inbox[e]) # 0
        <5>1. 1 \in 1..Len(inbox[e])
          BY <1>4, <4>3
        <5> QED
          BY <1>5, <4>1, <4>3, <5>1
      <4> QED
        BY <4>2, <4>3
    <3> QED
      BY <3>1, <3>2, <3>3 DEF Told
  <2>4. ASSUME e \notin hasty'
        PROVE  Asking(e)'
    <3>1. Asking(e) /\ Polite(e, t)
      BY <1>1, <2>1, <2>4 DEF Books
    <3>2. sent'[e] > 0 /\ stage[e] # "closed"
      BY <1>1, <1>4
    <3>3. CASE t = "hello" /\ sent[e] = 0
      <4>1. Message(e, t) = Say("hello") /\ asked'[e] = asked[e]
        BY <1>1, <3>3 DEF Message
      <4>2. e \notin Welcomed /\ Ahead(e)
        BY <3>1, <3>2, <3>3 DEF Asking, Behind
      <4>3. Len(inbox[e]) = 0 /\ asked[e] = 0 /\ Len(answers[e]) = 0
        BY <3>3, <4>2 DEF Ahead
      <4>4. Len(inbox'[e]) = 1 /\ inbox'[e][1] = Say("hello")
        BY <1>5, <4>1, <4>3
      <4>5. Ahead(e)'
        BY <2>1, <3>2, <4>1, <4>3, <4>4 DEF Ahead
      <4> QED
        BY <1>3, <2>1, <3>1, <4>1, <4>2, <4>5 DEF Asking
    <3>4. CASE t = "req" /\ sent[e] > 0 /\ Len(answers[e]) = asked[e]
      <4>1. Message(e, t) = Request(asked[e] + 1) /\ asked'[e] = asked[e] + 1
        BY <1>1, <3>4 DEF Message, Request
      <4>2. CASE e \in Welcomed
        <5>1. Behind(e)
          BY <3>1, <3>2, <4>2 DEF Asking
        <5>2. Len(inbox[e]) = 0
          BY <1>4, <3>4, <5>1 DEF Behind
        <5>3. Len(inbox'[e]) = 1 /\ inbox'[e][1] = Request(asked'[e])
          BY <1>5, <4>1, <5>2
        <5>4. Behind(e)'
          BY <1>4, <2>1, <3>2, <3>4, <4>1, <5>3 DEF Behind
        <5> QED
          BY <1>3, <1>4, <2>1, <3>1, <3>4, <4>1, <4>2, <5>4 DEF Asking
      <4>3. CASE e \notin Welcomed
        <5>1. Ahead(e)
          BY <3>1, <3>2, <4>3 DEF Asking
        <5>2. asked[e] = 0 /\ Len(inbox[e]) = 1 /\ inbox[e][1] = Say("hello")
          <6>1. asked[e] = 0 /\ sent[e] # 0
            BY <1>4, <3>4, <5>1 DEF Ahead
          <6>2. Len(inbox[e]) = 1
            BY <5>1, <6>1 DEF Ahead
          <6> QED
            BY <5>1, <6>1, <6>2 DEF Ahead
        <5>3. /\ Len(inbox'[e]) = 2 /\ inbox'[e][1] = Say("hello")
              /\ inbox'[e][2] = Request(1) /\ asked'[e] = 1
          <6>1. 1 \in 1..Len(inbox[e]) /\ Len(inbox[e]) + 1 = 2 /\ asked[e] + 1 = 1
            BY <5>2
          <6> QED
            BY <1>5, <4>1, <5>2, <6>1
        <5>4. Ahead(e)'
          BY <2>1, <3>2, <5>1, <5>3 DEF Ahead
        <5> QED
          BY <1>3, <1>4, <2>1, <3>1, <3>4, <4>1, <4>3, <5>4 DEF Asking
      <4> QED
        BY <4>2, <4>3
    <3> QED
      BY <3>1, <3>3, <3>4 DEF Polite
  <2> QED
    BY <2>3, <2>4 DEF Books
<1> QED
  BY <1>6, <1>7, <1>8

-----------------------------------------------------------------------------
(* The invariant. *)

LEMMA NSInitInv == NSInit => NSInv
BY InitHeld, InitBooks DEF NSInv, Found, NSInit

LEMMA NSStutter == NSInv /\ UNCHANGED nsVars => NSInv'
<1> SUFFICES ASSUME NSInv, UNCHANGED nsVars PROVE NSInv'
  OBVIOUS
<1> USE DEF nsVars, setup, server, sets, clients
<1>1. NSTypeOK'
  BY DEF NSInv, Held, NSTypeOK
<1>2. Watching' /\ Lined' /\ Found'
  BY DEF NSInv, Held, Watching, Lined, Found
<1>3. DescriptorsHeld'
  BY DEF NSInv, Held, DescriptorsHeld
<1>4. Welcomed' = Welcomed
  BY DEF Welcomed
<1>5. \A c \in Conns : Books(c)'
  BY <1>4, UnchangedBooks DEF NSInv
<1> QED
  BY <1>1, <1>2, <1>3, <1>5 DEF NSInv, Held

LEMMA AcceptInv == NSInv /\ Accept => NSInv'
<1> SUFFICES ASSUME NSInv, Accept PROVE NSInv'
  OBVIOUS
<1>1. AcceptFails => NSInv'
  BY AcceptFailsHeld, QuietSteps DEF NSInv
<1>2. ASSUME NEW d \in Fds, NEW c \in Conns, Accepts(d, c)
      PROVE  NSInv'
  BY <1>2, AcceptsHeld, AcceptsBooks DEF NSInv
<1> QED
  BY <1>1, <1>2, AcceptCases DEF NSInv

LEMMA NSNextInv == NSInv /\ NSNext => NSInv'
<1> SUFFICES ASSUME NSInv, NSNext PROVE NSInv'
  OBVIOUS
<1>1. Starts \/ ScratchStartFails \/ Poll \/ Interrupt => NSInv'
  BY StartsHeld, ScratchStartFailsHeld, PollHeld, InterruptHeld, QuietSteps, Zenon DEF NSInv
<1>2. Accept => NSInv'
  BY AcceptInv
<1>3. Welcomes => NSInv'
  BY WelcomesHeld, WelcomesBooks, Zenon DEF NSInv
<1>4. Dismisses => NSInv'
  BY DismissesHeld, DismissesBooks, Zenon DEF NSInv
<1>5. Quits => NSInv'
  BY QuitsHeld, QuitsBooks, Zenon DEF NSInv
<1>6. ASSUME NEW d \in Fds, Serve(d)
      PROVE  NSInv'
  BY <1>6, ServeHeld, ServeBooks, Zenon DEF NSInv
<1>7. Server => NSInv'
  <2>1. NSTypeOK
    BY DEF NSInv, Held
  <2> QED
    BY <1>1, <1>2, <1>3, <1>4, <1>5, <1>6, <2>1, ServerSteps, Zenon
<1>8. Killed => NSInv'
  BY <1>5, KilledQuits, Zenon DEF NSInv, Held
<1>9. ASSUME NEW c \in Conns, Connect(c)
      PROVE  NSInv'
  BY <1>9, ConnectHeld, ConnectBooks, Zenon DEF NSInv
<1>10. ASSUME NEW c \in Conns, HangUp(c)
       PROVE  NSInv'
  BY <1>10, HangUpHeld, HangUpBooks, Zenon DEF NSInv
<1>11. ASSUME NEW c \in Conns, NEW t \in Says[c], Send(c, t)
       PROVE  NSInv'
  BY <1>11, SendHeld, SendBooks, Zenon DEF NSInv
<1> QED
  BY <1>1, <1>7, <1>8, <1>9, <1>10, <1>11, Zenon DEF NSNext

LEMMA Invariance == NSSpec => []NSInv
<1>1. NSInv /\ [NSNext]_nsVars => NSInv'
  BY NSNextInv, NSStutter
<1> QED
  BY NSInitInv, <1>1, PTL DEF NSSpec

(* Every variable of a name server keeps its type: what is watched and what *)
(* was found are descriptors the kernel gave out or the socket itself, and   *)
(* a connection is being greeted exactly in the middle of accept.          *)
THEOREM NSTypeCorrect == NSSpec => []NSTypeOK
<1>1. NSInv => NSTypeOK
  BY DEF NSInv, Held
<1> QED
  BY Invariance, <1>1, PTL

(* No descriptor is lost and none is served after it was closed, however    *)
(* many clients come and go in between: the open ones are those that are    *)
(* watched and the one being greeted, each belongs to one connection.      *)
THEOREM DescriptorsAlwaysHeld == NSSpec => []DescriptorsHeld
<1>1. NSInv => DescriptorsHeld
  BY DEF NSInv, Held
<1> QED
  BY Invariance, <1>1, PTL

(* A client that greets, and asks one whole request at a time, gets the     *)
(* answers to its requests, each once and in order, whatever the others do *)
(* and wherever its request is read, behind its greeting or by itself.     *)
THEOREM AnswersAlwaysMatch == NSSpec => []AnswersMatchRequests
<1>1. ASSUME NSInv
      PROVE  AnswersMatchRequests
  <2> SUFFICES ASSUME NEW c \in Conns \ hasty
               PROVE  /\ answers[c] = [k \in 1..Len(answers[c]) |-> k]
                      /\ Len(answers[c]) <= asked[c]
                      /\ stage[c] = "open" /\ inbox[c] = <<>> => Len(answers[c]) = asked[c]
    BY DEF AnswersMatchRequests
  <2>1. Asking(c) /\ answers[c] \in Seq(Nat) /\ asked[c] \in Nat /\ Len(answers[c]) \in Nat
        /\ sent[c] \in Nat
    BY <1>1, ClientTypes DEF NSInv, Books
  <2>2. answers[c] = [k \in 1..Len(answers[c]) |-> k]
    BY <2>1 DEF Asking
  <2>3. ASSUME stage[c] = "open", inbox[c] = <<>>
        PROVE  Len(answers[c]) = asked[c]
    <3>1. Len(inbox[c]) = 0 /\ (Behind(c) \/ Ahead(c))
      BY <2>1, <2>3 DEF Asking
    <3> QED
      BY <2>1, <3>1 DEF Behind, Ahead
  <2> QED
    BY <2>1, <2>2, <2>3 DEF Asking
<1> QED
  BY Invariance, <1>1, PTL

(* server.c and scratch.c close a connection only after a goodbye, a         *)
(* hang-up, a bad greeting or a silent second, or when they end.           *)
LEMMA ClosedSteps ==
  ASSUME NSInv, NSNext, NEW c \in Conns,
         stage[c] = "open", stage'[c] = "closed", spc' # "down", version # "helper"
  PROVE  c \in hup \cup rude \/ sent[c] = 0
<1>1. CASE Dismisses
  <2>1. /\ spc = "greet" /\ stage' = [stage EXCEPT ![owner[ncc]] = "closed"]
        /\ Heard = <<>> \/ (Heard # <<>> /\ Heard[1].t # "hello")
    BY <1>1 DEF Dismisses, Dismiss, Greeting
  <2>2. c = owner[ncc] /\ c \notin Welcomed /\ Heard = inbox[c]
    BY <2>1, NotWelcomedYet DEF NSInv, Held, NSTypeOK, Heard
  <2>3. Told(c)
    BY DEF NSInv, Books
  <2>4. Len(inbox[c]) = 0 \/ (Len(inbox[c]) # 0 /\ inbox[c][1].t # "hello")
    BY <2>1, <2>2, ClientTypes
  <2> QED
    BY <2>2, <2>3, <2>4 DEF Told
<1>2. ASSUME NEW d \in Fds, Serve(d)
      PROVE  c \in hup \cup rude \/ sent[c] = 0
  <2>1. Leaves(inbox[owner[d]]) /\ stage' = [stage EXCEPT ![owner[d]] = "closed"]
    BY <1>2 DEF Serve, Part, Reply
  <2>2. c = owner[d] /\ d \in temp \ {Sfd} /\ spc = "serve"
    BY <1>2, <2>1 DEF NSInv, Held, NSTypeOK, Serve
  <2>3. Len(inbox[c]) > 0 \/ c \in hup
    BY <2>2 DEF NSInv, Found
  <2>4. CASE Len(inbox[c]) > 0
    <3>1. inbox[c] # <<>> /\ 1 \in 1..Len(inbox[c])
      BY <2>4, ClientTypes
    <3>2. inbox[c][1].t = "bye"
      BY <2>1, <2>2, <3>1 DEF Leaves
    <3> QED
      BY <3>1, <3>2 DEF NSInv, Books, Told
  <2> QED
    BY <2>3, <2>4
<1>3. CASE Starts \/ ScratchStartFails \/ Poll \/ Welcomes \/ Interrupt
  BY <1>3 DEF Starts, Deaf, Listens, ScratchStartFails, Poll, Welcomes, Welcome, Interrupt
<1>4. CASE Accept
  <2>1. AcceptFails => stage' = stage
    BY DEF AcceptFails
  <2>2. ASSUME NEW d \in Fds, NEW e \in Conns, Accepts(d, e)
        PROVE  stage'[c] \in {stage[c], "open"}
    BY <2>2 DEF NSInv, Held, NSTypeOK, Accepts
  <2>3. AcceptFails \/ \E d \in Fds, e \in Conns : Accepts(d, e)
    BY <1>4, AcceptCases DEF NSInv
  <2> QED
    BY <2>1, <2>2, <2>3
<1>5. CASE Quits
  BY <1>5 DEF Quits, Ends
<1>6. CASE Killed
  BY <1>6, KilledQuits DEF NSInv, Held
<1>7. ASSUME NEW e \in Conns, Connect(e) \/ HangUp(e) \/ (\E t \in Says[e] : Send(e, t))
      PROVE  FALSE
  BY <1>7 DEF Connect, HangUp, Send, NSInv, Held, NSTypeOK
<1>8. NSTypeOK
  BY DEF NSInv, Held
<1> QED
  BY <1>1, <1>2, <1>3, <1>4, <1>5, <1>6, <1>7, <1>8, ServerSteps, Zenon DEF NSNext

(* In server.c and scratch.c a client loses its connection before the end   *)
(* of the server only when it hung up, said something else than a greeting  *)
(* and requests, or said nothing, whatever the other clients do meanwhile.  *)
THEOREM AlwaysClosedForCause == NSSpec => ClosedForCause
<1>1. NSInv /\ [NSNext]_nsVars =>
        [\A c \in Conns :
           /\ stage[c] = "open" /\ stage'[c] = "closed" /\ spc' # "down"
           /\ version # "helper"
           => c \in hup \cup rude \/ sent[c] = 0]_nsVars
  BY ClosedSteps, Zenon
<1> QED
  BY Invariance, <1>1, PTL DEF NSSpec, ClosedForCause

=============================================================================
