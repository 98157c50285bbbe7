-------------------------------- MODULE Reactor --------------------------------
(***************************************************************************)
(* How connections and messages reach a handler: the main loop with its    *)
(* acceptor and the subloops (src/eventloop.cpp, src/acceptor.cpp), epoll  *)
(* in edge-triggered mode (src/epoll.cpp), the registration of channels    *)
(* (src/channel.cpp) and the part of the handlers (src/server.cpp) that    *)
(* reads, answers, re-arms and closes.  What a handler does to a database  *)
(* is Server's matter; here a message only says how its handler ends.      *)
(*                                                                         *)
(* The main loop makes and registers the channel of a client that another  *)
(* thread handles from then on, so the two are cut into steps where they   *)
(* touch the same channel.  inEpoll is a plain bool both may access; each  *)
(* access has a system call next to it and is a step.                      *)
(***************************************************************************)
EXTENDS Integers, Sequences, FiniteSets

CONSTANTS
  Conns,       \* connections clients make, each with its own Channel
  Fds,         \* descriptors
  NumLoops,    \* subloops.size()
  MaxEvents,   \* MAX_EVENTS
  Main,        \* the main loop
  Listener,    \* accept_channel
  None         \* no descriptor, no channel

ASSUME ReactorAssumption ==
  /\ Fds \subseteq Nat /\ NumLoops \in Nat \ {0} /\ MaxEvents \in Nat \ {0}
  /\ Main \notin Nat /\ Listener \notin Conns /\ None \notin Nat \cup Conns \cup {Listener}

VARIABLES
  backlog,   \* connections the kernel completed and nobody accepted
  unread,    \* connection -> messages in its socket
  watched,   \* loop -> channels in its epoll
  ready,     \* loop -> those whose edge epoll_wait has not reported
  batch,     \* loop -> what poll() returned and is not handled to its end
  at,        \* loop -> where its thread is, and with which channel
  stage,     \* connection -> none, made, callable or closed: its Channel
  inEpoll,   \* connection -> the Channel's flag
  spare,     \* the descriptors the process has for connections, its limit
  fd,        \* connection -> its descriptor
  client,    \* connection -> away, connecting, ready, awaiting, sending (the
             \* bytes of a SET), early (the same, answered), leaving, gone
  ended,     \* why the process ended, or no
  merged     \* history: a connection came while an edge was unreported

revars == <<backlog, unread, watched, ready, batch, at, stage, inEpoll, spare, fd, client, ended,
            merged>>

Subloops  == 0..(NumLoops - 1)
EventLoops == Subloops \cup {Main}
Channels  == Conns \cup {Listener}
Messages  == {"ask", "set", "leave", "bytes", "eof"}
Places    == {"off", "polling", "dead", "callback", "adding", "marking",
              "receiving", "answering", "rearming", "closing"}

LoopOfConn(c) == fd[c] % NumLoops
Open      == {c \in Conns : stage[c] \in {"made", "callable"}}
FreeFds   == spare \ {fd[c] : c \in Conns}
Lowest(S) == CHOOSE d \in S : \A e \in S : d <= e

Move(l, to, c)  == at' = [at EXCEPT ![l] = <<to, c>>]
IsAt(l, place)  == ended = "no" /\ at[l][1] = place
Tell(c, s)      == client' = [client EXCEPT ![c] = s]

-----------------------------------------------------------------------------
(* The kernel: an edge of a watched channel, and what a call of epoll_wait *)
(* finds still readable.                                                   *)

Edge(l, x)  == IF x \in watched[l] THEN [ready EXCEPT ![l] = @ \cup {x}] ELSE ready
Readable(x) == IF x = Listener THEN backlog # <<>> ELSE unread[x] # <<>>

\* EPOLL_CTL_ADD fails for what is there, EPOLL_CTL_MOD for what is not; both
\* look whether there is something to report.
Control(l, c, ope) ==
  /\ watched' = IF ope = "ADD" THEN [watched EXCEPT ![l] = @ \cup {c}] ELSE watched
  /\ ready' = IF (ope = "ADD" <=> c \notin watched[l]) /\ unread[c] # <<>>
              THEN [ready EXCEPT ![l] = @ \cup {c}] ELSE ready

-----------------------------------------------------------------------------
(* The clients: one request at a time, but for the second message of a SET *)
(* and the end of the stream.                                              *)

serverside == <<backlog, watched, batch, at, stage, inEpoll, spare, fd, ended, merged>>

Sends(c, msg) ==
  /\ ended = "no"
  /\ unread' = [unread EXCEPT ![c] = Append(@, msg)]
  /\ ready' = IF fd[c] = None THEN ready ELSE Edge(LoopOfConn(c), c)
  /\ UNCHANGED serverside

\* The handshake is the kernel's; the listening socket is there first.
Connect(c) ==
  /\ ended = "no" /\ client[c] = "away"
  /\ backlog' = Append(backlog, c)
  /\ merged' = (merged \/ Listener \in ready[Main])
  /\ ready' = Edge(Main, Listener)
  /\ Tell(c, "connecting")
  /\ UNCHANGED <<unread, watched, batch, at, stage, inEpoll, spare, fd, ended>>

\* A login or an operation; a SET; a QUIT or a login that is refused.
AskFor(c, msg) ==
  /\ client[c] = "ready" /\ msg \in {"ask", "set", "leave"}
  /\ Sends(c, msg)
  /\ Tell(c, CASE msg = "ask" -> "awaiting" [] msg = "set" -> "sending" [] msg = "leave" -> "leaving")

SendValue(c) ==
  /\ client[c] \in {"sending", "early"}
  /\ Sends(c, "bytes")
  /\ Tell(c, IF client[c] = "early" THEN "ready" ELSE "awaiting")

Disconnect(c) ==
  /\ client[c] \in {"connecting", "ready", "awaiting", "sending", "early"}
  /\ Sends(c, "eof") /\ Tell(c, "gone")

-----------------------------------------------------------------------------
(* A loop, eventloop.cpp:46-53.                                            *)

\* The pool gives the loop a thread; the main loop has the process's.
StartLoop(l) ==
  /\ IsAt(l, "off") /\ Move(l, "polling", None)
  /\ UNCHANGED <<backlog, unread, watched, ready, batch, stage, inEpoll, spare, fd, client, ended, merged>>

\* poll(): up to MaxEvents channels; an edge is reported once.
Poll(l) ==
  /\ IsAt(l, "polling") /\ batch[l] = {}
  /\ LET found == {x \in ready[l] : Readable(x)}
     IN  \E E \in SUBSET found :
           /\ E # {}
           /\ IF Cardinality(found) <= MaxEvents THEN E = found ELSE Cardinality(E) = MaxEvents
           /\ batch' = [batch EXCEPT ![l] = E]
           /\ ready' = [ready EXCEPT ![l] = found \ E]
  /\ UNCHANGED <<backlog, unread, watched, at, stage, inEpoll, spare, fd, client, ended, merged>>

Handled(l, x) == batch' = [batch EXCEPT ![l] = @ \ {x}]

-----------------------------------------------------------------------------
(* The main loop: acceptConnection and handleConnectionEvent.              *)

\* updateChannel(): the flag tells ADD from MOD.
UpdateChannel(c) == Control(LoopOfConn(c), c, IF inEpoll[c] THEN "MOD" ELSE "ADD")

\* Mutant: the flag is set before epoll is called.
RegistrationMarked == <<"callback", "marking", "adding">>

\* What is left to do for a new channel, lines 74-76 and epoll.cpp:86-87.
Registration == <<"callback", "adding", "marking">>

Step(i) == IsAt(Main, Registration[i])
Then(i) == IF i = Len(Registration) THEN Move(Main, "polling", None) /\ Handled(Main, Listener)
           ELSE Move(Main, Registration[i + 1], at[Main][2]) /\ UNCHANGED batch

\* accept() gave d for c: its Channel is made on the loop d names; s is what
\* the client is then.
NewChannel(c, d, s) ==
  /\ backlog' = Tail(backlog)
  /\ fd' = [fd EXCEPT ![c] = d] /\ stage' = [stage EXCEPT ![c] = "made"]
  /\ Tell(c, s) /\ Move(Main, Registration[1], c)
  /\ UNCHANGED <<unread, watched, ready, batch, inEpoll, spare, merged>>

\* The first OK reaches a client that is still there.
Greeted(c) == IF client[c] = "connecting" THEN "ready" ELSE client[c]

AcceptFails ==
  /\ ended' = "accept"
  /\ UNCHANGED <<backlog, unread, watched, ready, batch, at, stage, inEpoll, spare, fd, client, merged>>

Accepting == IsAt(Main, "polling") /\ Listener \in batch[Main]

\* Mutant: connections are accepted until accept() fails, and that ends the
\* process.
AcceptToTheEnd ==
  /\ Accepting /\ backlog # <<>> /\ FreeFds # {}
  /\ NewChannel(Head(backlog), Lowest(FreeFds), Greeted(Head(backlog)))
  /\ ended' = IF Len(backlog) = 1 THEN "accept" ELSE "no"

\* Mutant: the OK of line 73 is not sent.
AcceptMute ==
  /\ Accepting /\ backlog # <<>> /\ FreeFds # {}
  /\ NewChannel(Head(backlog), Lowest(FreeFds), client[Head(backlog)])
  /\ UNCHANGED ended

\* One connection is accepted; a failing accept() ends the process
\* (socket.cpp:63).
AcceptOne ==
  /\ Accepting
  /\ \/ backlog = <<>> /\ AcceptFails
     \/ FreeFds = {} /\ AcceptFails
     \/ /\ backlog # <<>> /\ FreeFds # {}
        /\ NewChannel(Head(backlog), Lowest(FreeFds), Greeted(Head(backlog)))
        /\ UNCHANGED ended

SetCallback(i) ==
  /\ Registration[i] = "callback" /\ Step(i)
  /\ stage' = [stage EXCEPT ![at[Main][2]] = IF @ = "made" THEN "callable" ELSE @]
  /\ Then(i)
  /\ UNCHANGED <<backlog, unread, watched, ready, inEpoll, spare, fd, client, ended, merged>>

\* enableReading(); the flag of a new channel is down.
Add(i) ==
  /\ Registration[i] = "adding" /\ Step(i)
  /\ UpdateChannel(at[Main][2])
  /\ Then(i)
  /\ UNCHANGED <<backlog, unread, stage, inEpoll, spare, fd, client, ended, merged>>

\* setInEpoll(), when the channel's loop may have had it for long, or closed it.
Mark(i) ==
  /\ Registration[i] = "marking" /\ Step(i)
  /\ inEpoll' = [inEpoll EXCEPT ![at[Main][2]] = TRUE]
  /\ Then(i)
  /\ UNCHANGED <<backlog, unread, watched, ready, stage, spare, fd, client, ended, merged>>

-----------------------------------------------------------------------------
(* A subloop: handleLoginEvent and handleTaskChoose, by how they end.      *)

handled == <<backlog, watched, ready, inEpoll, spare, fd, merged>>

\* sRead() blocks while there is nothing.  A callback that was not set throws;
\* what is no command ends the loop or the process (Server, Garbage).
Receive(l, c) ==
  /\ IsAt(l, "polling") /\ c \in batch[l]
  /\ IF stage[c] # "callable" THEN Move(l, "dead", None) /\ UNCHANGED <<unread, ended>>
     ELSE /\ unread[c] # <<>>
          /\ unread' = [unread EXCEPT ![c] = Tail(@)]
          /\ LET msg == Head(unread[c])
             IN  \/ msg \in {"ask", "set"} /\ Move(l, "answering", c) /\ UNCHANGED ended
                 \/ msg = "set" /\ Move(l, "receiving", c) /\ UNCHANGED ended
                 \/ msg = "leave" /\ Move(l, "closing", c) /\ UNCHANGED ended
                 \/ msg \in {"bytes", "eof"} /\ Move(l, "dead", None) /\ UNCHANGED ended
                 \/ msg \in {"bytes", "eof"} /\ ended' = "garbage" /\ UNCHANGED at
  /\ UNCHANGED <<handled, batch, stage, client>>

\* The second recv() of a SET, server.cpp:253; the end of the stream stays.
ReceiveValue(l, c) ==
  /\ IsAt(l, "receiving") /\ at[l][2] = c /\ unread[c] # <<>>
  /\ unread' = IF Head(unread[c]) = "bytes" THEN [unread EXCEPT ![c] = Tail(@)] ELSE unread
  /\ Move(l, "answering", c)
  /\ UNCHANGED <<handled, batch, stage, client, ended>>

\* sWrite("OK"): the client may go on before the channel is re-armed.
Answer(l, c) ==
  /\ IsAt(l, "answering") /\ at[l][2] = c
  /\ Tell(c, CASE client[c] = "awaiting" -> "ready" [] client[c] = "sending" -> "early"
               [] OTHER -> client[c])
  /\ Move(l, "rearming", c)
  /\ UNCHANGED <<handled, unread, batch, stage, ended>>

\* enableReading(): with the flag up a MOD, which reports what is unread;
\* with the flag still down an ADD, which fails and reports nothing.
Rearm(l, c) ==
  /\ IsAt(l, "rearming") /\ at[l][2] = c
  /\ UpdateChannel(c)
  /\ inEpoll' = [inEpoll EXCEPT ![c] = TRUE]
  /\ Handled(l, c) /\ Move(l, "polling", None)
  /\ UNCHANGED <<backlog, unread, stage, spare, fd, client, ended, merged>>

\* Mutant: the return after ~Channel() is missing, and the handler goes on.
CloseFallsThrough(l, c) ==
  /\ IsAt(l, "closing") /\ at[l][2] = c
  /\ watched' = [watched EXCEPT ![l] = @ \ {c}]
  /\ ready' = [ready EXCEPT ![l] = @ \ {c}]
  /\ stage' = [stage EXCEPT ![c] = "closed"] /\ unread' = [unread EXCEPT ![c] = <<>>]
  /\ fd' = [fd EXCEPT ![c] = None]
  /\ Tell(c, "gone") /\ Move(l, "answering", c)
  /\ UNCHANGED <<backlog, batch, inEpoll, spare, ended, merged>>

\* disableReading(), then ~Channel() closes the descriptor.
CloseConn(l, c) ==
  /\ IsAt(l, "closing") /\ at[l][2] = c
  /\ watched' = [watched EXCEPT ![l] = @ \ {c}]
  /\ ready' = [ready EXCEPT ![l] = @ \ {c}]
  /\ stage' = [stage EXCEPT ![c] = "closed"] /\ unread' = [unread EXCEPT ![c] = <<>>]
  /\ fd' = [fd EXCEPT ![c] = None]
  /\ Tell(c, "gone") /\ Handled(l, c) /\ Move(l, "polling", None)
  /\ UNCHANGED <<backlog, inEpoll, spare, ended, merged>>

-----------------------------------------------------------------------------
\* Acceptor's constructor has registered the listening channel.
ReactorInit ==
  /\ backlog = <<>> /\ unread = [c \in Conns |-> <<>>]
  /\ watched = [l \in EventLoops |-> IF l = Main THEN {Listener} ELSE {}]
  /\ ready = [l \in EventLoops |-> {}] /\ batch = [l \in EventLoops |-> {}]
  /\ at = [l \in EventLoops |-> <<"off", None>>]
  /\ stage = [c \in Conns |-> "none"] /\ inEpoll = [c \in Conns |-> FALSE]
  /\ spare \in SUBSET Fds /\ fd = [c \in Conns |-> None] /\ client = [c \in Conns |-> "away"]
  /\ ended = "no" /\ merged = FALSE

MainStep == AcceptOne \/ \E i \in 1..Len(Registration) : SetCallback(i) \/ Add(i) \/ Mark(i)

SubStep(l, c) == Receive(l, c) \/ ReceiveValue(l, c) \/ Answer(l, c) \/ Rearm(l, c) \/ CloseConn(l, c)

ThreadStep(l) ==
  \/ StartLoop(l) \/ Poll(l)
  \/ l = Main /\ MainStep
  \/ l # Main /\ \E c \in Conns : SubStep(l, c)

ClientStep(c) ==
  \/ Connect(c) \/ SendValue(c) \/ Disconnect(c)
  \/ \E msg \in {"ask", "set", "leave"} : AskFor(c, msg)

ReactorNext == (\E l \in EventLoops : ThreadStep(l)) \/ (\E c \in Conns : ClientStep(c))

\* Threads are scheduled, and every subloop gets one (CommittedStarts of
\* ThreadsPool: as many workers as loops).  Clients do what they like.
ReactorSpec == ReactorInit /\ [][ReactorNext]_revars /\ \A l \in EventLoops : WF_revars(ThreadStep(l))

-----------------------------------------------------------------------------
(* Properties.                                                             *)

\* Every variable keeps its type.
ReactorTypeOK ==
  /\ backlog \in Seq(Conns) /\ unread \in [Conns -> Seq(Messages)]
  /\ watched \in [EventLoops -> SUBSET Channels] /\ ready \in [EventLoops -> SUBSET Channels]
  /\ batch \in [EventLoops -> SUBSET Channels]
  /\ at \in [EventLoops -> Places \X (Conns \cup {None})]
  /\ stage \in [Conns -> {"none", "made", "callable", "closed"}]
  /\ inEpoll \in [Conns -> BOOLEAN] /\ spare \subseteq Fds /\ fd \in [Conns -> spare \cup {None}]
  /\ client \in [Conns -> {"away", "connecting", "ready", "awaiting", "sending", "early",
                           "leaving", "gone"}]
  /\ ended \in {"no", "accept", "garbage"} /\ merged \in BOOLEAN

\* README.md (server):204: a client is handled in one thread only.  Its channel
\* is in one loop's epoll, list, batch or hands, and in none once it was
\* closed, when its descriptor may be another client's already; and a loop
\* that handles it finds its callback set, however early the first message comes
\* and however late the main thread gets to its next step (server.cpp:73-76).
OneThread ==
  \A c \in Conns :
    LET holders == {l \in EventLoops :
                      c \in watched[l] \cup ready[l] \cup batch[l] \/ (l # Main /\ at[l][2] = c)}
    IN  /\ Cardinality(holders) <= 1
        /\ stage[c] = "closed" => holders = {}
        /\ \A l \in Subloops : c \in batch[l] => stage[c] = "callable"

\* A request in the socket of a client whose channel the main thread has
\* registered is in the epoll's list or in the hands of its loop: no edge is
\* lost between the callback, the system call and the flag, nor while the
\* channel is handled.  What is no request may be missed: the end of a stream,
\* and the bytes of a SET that was answered without them.
NoRequestForgotten ==
  \A c \in Conns :
    /\ stage[c] = "callable" /\ at[Main][2] # c
    /\ unread[c] # <<>> /\ Head(unread[c]) \in {"ask", "set", "leave"}
    => \E l \in Subloops : /\ l = LoopOfConn(c)
                           /\ c \in ready[l] \cup batch[l] \/ at[l][1] = "dead"

\* The process ended at a message that is no command, or because accept() was
\* called for a connection while every descriptor belonged to a channel that is
\* open (socket.cpp:63); never because it had nothing to accept, and however
\* many clients came and left before.
Ended ==
  \/ ended = "garbage"
  \/ ended = "accept" /\ backlog # <<>> /\ Cardinality(Open) = Cardinality(spare)

\* The loop of a client cannot serve it: it or the process ended, or it waits
\* for the bytes of another client.
Excused(c) ==
  \/ Ended
  \/ \E l \in Subloops : /\ fd[c] # None /\ l = LoopOfConn(c)
                         /\ at[l][1] = "dead" \/ (at[l][1] = "receiving" /\ at[l][2] # c)

\* A client that was accepted and waits is answered, whatever thread is where
\* when its request comes.
RequestsServed ==
  \A c \in Conns :
    (client[c] = "awaiting" /\ fd[c] # None) ~> (client[c] # "awaiting" \/ Excused(c))

\* A connection is accepted, if connections come one by one.
AcceptedUnlessMerged ==
  \A c \in Conns : (client[c] = "connecting") ~> (client[c] # "connecting" \/ Ended \/ merged)

\* README.md (server):230: who connects receives an OK.
EveryConnectionGreeted ==
  \A c \in Conns : (client[c] = "connecting") ~> (client[c] # "connecting" \/ ended # "no")

=============================================================================
