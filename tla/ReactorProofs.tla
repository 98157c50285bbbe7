----------------------------- MODULE ReactorProofs -----------------------------
(***************************************************************************)
(* Theorems about Reactor, for any number of clients, loops and            *)
(* descriptors: one loop handles a client, and no request is forgotten     *)
(* between the threads.                                                    *)
(***************************************************************************)
EXTENDS Reactor, FiniteSetTheorems, NaturalsInduction, SequenceTheorems, TLAPS

-----------------------------------------------------------------------------
(* The inductive invariant.                                                *)

\* Loop l may touch the channel of c.
Held(l, c) == \/ c \in watched[l] \cup ready[l] \cup batch[l]
              \/ l # Main /\ at[l][2] = c

\* A channel is only ever in the hands of the loop its descriptor names, and
\* only from the callback to the end.
HeldInv ==
  \A c \in Conns : \A l \in EventLoops :
    Held(l, c) => l \in Subloops /\ stage[c] = "callable" /\ l = LoopOfConn(c)

\* What the main thread is doing to a channel says how far the channel is.  The
\* flag stays down until epoll has the channel, or the ADD would be a MOD.
MainInv ==
  \/ at[Main][1] \in {"off", "polling"} /\ at[Main][2] = None
  \/ /\ at[Main][2] \in Conns
     /\ \/ at[Main][1] = "callback" /\ stage[at[Main][2]] = "made"
        \/ /\ at[Main][1] = "adding" /\ stage[at[Main][2]] = "callable"
           /\ ~inEpoll[at[Main][2]]
           /\ \A l \in EventLoops : ~Held(l, at[Main][2])
        \/ at[Main][1] = "marking" /\ stage[at[Main][2]] \in {"callable", "closed"}

Adding(c) == at[Main][1] = "adding" /\ at[Main][2] = c

StageInv ==
  \A c \in Conns :
    /\ stage[c] \in {"made", "callable"} <=> fd[c] # None
    /\ stage[c] = "made" => at[Main][1] = "callback" /\ at[Main][2] = c
    /\ stage[c] = "callable" => c \in watched[LoopOfConn(c)] \/ Adding(c)
    /\ stage[c] \in {"none", "made"} => ~inEpoll[c]
    /\ client[c] = "away" => stage[c] = "none"

\* A subloop in a handler has the channel still in its batch.
LoopInv ==
  \A l \in Subloops :
    \/ at[l][1] \in {"off", "polling", "dead"} /\ at[l][2] = None
    \/ /\ at[l][1] \in {"receiving", "answering", "rearming", "closing"}
       /\ at[l][2] \in Conns /\ at[l][2] \in batch[l]

\* Who waits to be accepted waits once, and has no channel.
BacklogInv ==
  /\ \A i \in DOMAIN backlog : stage[backlog[i]] = "none" /\ client[backlog[i]] # "away"
  /\ \A i, j \in DOMAIN backlog : backlog[i] = backlog[j] => i = j

Requests == {"ask", "set", "leave"}
NoRequest(s) == \A i \in DOMAIN s : s[i] \notin Requests

\* A client sends its next request when the last one was answered, so a socket
\* never holds two, and none while one is being answered.
ProtocolInv ==
  \A c \in Conns :
    /\ \A i, j \in DOMAIN unread[c] : unread[c][i] \in Requests /\ unread[c][j] \in Requests => i = j
    /\ client[c] \in {"away", "connecting", "ready", "early"} => NoRequest(unread[c])
    /\ \A l \in Subloops :
         at[l][1] \in {"receiving", "answering"} /\ at[l][2] = c =>
           /\ NoRequest(unread[c])
           /\ client[c] \notin {"away", "connecting", "ready", "early"}

\* A request that came while its channel was handled has an edge of its own:
\* the re-arming of a channel whose flag is down reports nothing.
PendingInv ==
  \A c \in Conns :
    stage[c] = "callable" /\ ~Adding(c) /\ unread[c] # <<>> /\ Head(unread[c]) \in Requests
    => \/ c \in ready[LoopOfConn(c)]
       \/ c \in batch[LoopOfConn(c)] /\ at[LoopOfConn(c)][2] # c
       \/ at[LoopOfConn(c)][1] = "dead"

ReactorInv ==
  /\ ReactorTypeOK /\ HeldInv /\ MainInv /\ StageInv /\ LoopInv /\ BacklogInv
  /\ ProtocolInv /\ PendingInv

-----------------------------------------------------------------------------
(* Facts about the operators.                                              *)

\* A set of descriptors that is not empty has a lowest one.
LEMMA LowestIsIn ==
  ASSUME NEW S \in SUBSET Nat, S # {}
  PROVE  Lowest(S) \in S
PROOF
  <1>1. PICK d \in S : \A e \in S : <<e, d>> \notin OpToRel(<, Nat)
    BY NatLessThanWellFounded, WFMin
  <1>2. \A e \in S : ~(e < d)
    BY <1>1 DEF OpToRel
  <1>3. \A e \in S : d <= e
    BY <1>2
  <1> QED BY <1>3 DEF Lowest

\* An open channel belongs to a subloop.
LEMMA LoopIsSubloop ==
  ASSUME ReactorTypeOK, NEW c \in Conns, fd[c] # None
  PROVE  LoopOfConn(c) \in Subloops
PROOF
  <1>a. fd \in [Conns -> spare \cup {None}] /\ spare \subseteq Fds
    BY DEF ReactorTypeOK
  <1>b. Fds \subseteq Nat /\ NumLoops \in Nat \ {0}
    BY ReactorAssumption
  <1>1. fd[c] \in Nat
    BY <1>a, <1>b
  <1>2. \A m, n \in Nat : n # 0 => m % n \in 0..(n - 1)
    OBVIOUS
  <1>3. NumLoops \in Nat /\ NumLoops # 0
    BY <1>b
  <1>4. fd[c] % NumLoops \in 0..(NumLoops - 1)
    BY <1>1, <1>2, <1>3
  <1> QED BY <1>4 DEF LoopOfConn, Subloops

\* The main loop is no subloop.
LEMMA MainIsApart ==
  /\ Main \in EventLoops /\ Main \notin Subloops
  /\ EventLoops = Subloops \cup {Main} /\ Subloops \subseteq EventLoops
  /\ \A l \in EventLoops : l # Main => l \in Subloops
  /\ Listener \in Channels /\ Conns \subseteq Channels
PROOF BY ReactorAssumption DEF EventLoops, Subloops, Channels

\* The main thread's four steps.
LEMMA MainSteps ==
  MainStep <=> AcceptOne \/ SetCallback(1) \/ Add(2) \/ Mark(3)
PROOF
  <1>1. /\ Registration[1] = "callback" /\ Registration[2] = "adding"
        /\ Registration[3] = "marking" /\ Len(Registration) = 3
    BY DEF Registration
  <1>2. 1..Len(Registration) = {1, 2, 3}
    BY <1>1
  <1>3. ASSUME NEW i \in {1, 2, 3}
        PROVE  /\ SetCallback(i) <=> i = 1 /\ SetCallback(1)
               /\ Add(i) <=> i = 2 /\ Add(2)
               /\ Mark(i) <=> i = 3 /\ Mark(3)
    BY <1>1, <1>3 DEF SetCallback, Add, Mark
  <1> QED BY <1>2, <1>3 DEF MainStep

\* Where a channel is registered, a new one is in three steps.
LEMMA RegistrationSteps ==
  /\ Registration[1] = "callback" /\ Registration[2] = "adding"
  /\ Registration[3] = "marking"
  /\ Then(1) <=> Move(Main, "adding", at[Main][2]) /\ UNCHANGED batch
  /\ Then(2) <=> Move(Main, "marking", at[Main][2]) /\ UNCHANGED batch
  /\ Then(3) <=> Move(Main, "polling", None) /\ Handled(Main, Listener)
PROOF BY DEF Registration, Then

-----------------------------------------------------------------------------
(* Every step keeps the invariant: the clients.                            *)

\* What a client may be doing.
ClientStates == {"away", "connecting", "ready", "awaiting", "sending", "early", "leaving", "gone"}

\* A client connects, and waits to be accepted.
LEMMA ConnectKeeps ==
  ASSUME ReactorInv, NEW c \in Conns, Connect(c)
  PROVE  ReactorInv'
PROOF
  <1> USE DEF ReactorInv
  <1>1. /\ client[c] = "away" /\ backlog' = Append(backlog, c)
        /\ client' = [client EXCEPT ![c] = "connecting"]
        /\ ready' = ready \/ ready' = [ready EXCEPT ![Main] = @ \cup {Listener}]
        /\ UNCHANGED <<unread, watched, batch, at, stage, inEpoll, spare, fd, ended>>
        /\ merged' \in BOOLEAN
    BY DEF Connect, Edge, Tell, ReactorTypeOK
  <1>2. /\ backlog \in Seq(Conns) /\ ready \in [EventLoops -> SUBSET Channels]
        /\ client \in [Conns -> ClientStates]
    BY DEF ReactorTypeOK, ClientStates
  <1>3. backlog' \in Seq(Conns)
    BY <1>1, <1>2
  <1>4. ready' \in [EventLoops -> SUBSET Channels]
    BY <1>1, <1>2, MainIsApart
  <1>5. client' \in [Conns -> ClientStates]
    BY <1>1, <1>2 DEF ClientStates
  <1>6. ReactorTypeOK'
    BY <1>1, <1>3, <1>4, <1>5 DEF ReactorTypeOK, ClientStates
  <1>7. \A l \in EventLoops : \A x \in Conns : x \in ready'[l] <=> x \in ready[l]
    BY <1>1, <1>2, ReactorAssumption
  <1>8. \A l \in EventLoops : \A x \in Conns : Held(l, x)' <=> Held(l, x)
    BY <1>1, <1>7 DEF Held
  <1>9. HeldInv'
    BY <1>1, <1>8 DEF HeldInv, LoopOfConn
  <1>10. MainInv'
    BY <1>1, <1>8 DEF MainInv
  <1>11. StageInv'
    BY <1>1, <1>2 DEF StageInv, LoopOfConn, Adding
  <1>12. LoopInv'
    BY <1>1 DEF LoopInv
  <1>13. BacklogInv'
    <2>1. stage[c] = "none"
      BY <1>1 DEF StageInv
    <2>2. \A i \in DOMAIN backlog : backlog[i] \in Conns /\ backlog[i] # c
      BY <1>1, <1>2 DEF BacklogInv
    <2>3. /\ DOMAIN backlog' = DOMAIN backlog \cup {Len(backlog) + 1}
          /\ backlog'[Len(backlog) + 1] = c
          /\ \A i \in DOMAIN backlog : backlog'[i] = backlog[i]
      BY <1>1, <1>2
    <2>4. \A i \in DOMAIN backlog' : stage'[backlog'[i]] = "none" /\ client'[backlog'[i]] # "away"
      BY <1>1, <1>2, <2>1, <2>2, <2>3 DEF BacklogInv
    <2>5. \A i, j \in DOMAIN backlog' : backlog'[i] = backlog'[j] => i = j
      BY <2>2, <2>3 DEF BacklogInv
    <2> QED BY <2>4, <2>5 DEF BacklogInv
  <1>14. ProtocolInv'
    BY <1>1, <1>2 DEF ProtocolInv, NoRequest
  <1>15. PendingInv'
    BY <1>1, <1>2, <1>7, LoopIsSubloop, MainIsApart DEF PendingInv, StageInv, LoopOfConn, Adding
  <1> QED BY <1>6, <1>9, <1>10, <1>11, <1>12, <1>13, <1>14, <1>15

\* A socket that holds no request, and a message more.
LEMMA NoRequestAppend ==
  ASSUME NEW s \in Seq(Messages), NEW msg \in Messages, NoRequest(s)
  PROVE  /\ msg \notin Requests => NoRequest(Append(s, msg))
         /\ \A i \in DOMAIN Append(s, msg) : Append(s, msg)[i] \in Requests => i = Len(s) + 1
PROOF
  <1>1. /\ DOMAIN Append(s, msg) = DOMAIN s \cup {Len(s) + 1}
        /\ \A i \in DOMAIN s : Append(s, msg)[i] = s[i]
        /\ Append(s, msg)[Len(s) + 1] = msg
    OBVIOUS
  <1> QED BY <1>1 DEF NoRequest

\* A client sends: a request only when it is ready, and what is no request
\* leaves it ready only when it was answered early.
LEMMA SendsKeeps ==
  ASSUME ReactorInv, NEW c \in Conns, NEW msg \in Messages, NEW st \in ClientStates,
         Sends(c, msg), Tell(c, st), client[c] # "away",
         st \notin {"away", "connecting", "early"},
         msg \in Requests => client[c] = "ready" /\ st # "ready",
         st = "ready" => client[c] = "early"
  PROVE  ReactorInv'
PROOF
  <1> USE DEF ReactorInv
  <1>1. /\ unread' = [unread EXCEPT ![c] = Append(@, msg)]
        /\ client' = [client EXCEPT ![c] = st]
        /\ UNCHANGED <<backlog, watched, batch, at, stage, inEpoll, spare, fd, ended, merged>>
    BY DEF Sends, Tell, serverside
  <1>2. /\ unread \in [Conns -> Seq(Messages)] /\ ready \in [EventLoops -> SUBSET Channels]
        /\ watched \in [EventLoops -> SUBSET Channels]
        /\ client \in [Conns -> ClientStates] /\ backlog \in Seq(Conns)
    BY DEF ReactorTypeOK, ClientStates
  <1>3. ready' = ready \/ (/\ fd[c] # None /\ c \in watched[LoopOfConn(c)]
                           /\ ready' = [ready EXCEPT ![LoopOfConn(c)] = @ \cup {c}])
    BY DEF Sends, Edge
  <1>3b. fd[c] # None /\ c \in watched[LoopOfConn(c)] => c \in ready'[LoopOfConn(c)]
    BY <1>2, LoopIsSubloop, MainIsApart DEF Sends, Edge
  <1>4. unread' \in [Conns -> Seq(Messages)]
    BY <1>1, <1>2
  <1>5. client' \in [Conns -> ClientStates]
    BY <1>1, <1>2
  <1>6. /\ ready' \in [EventLoops -> SUBSET Channels]
        /\ \A l \in EventLoops : \A x \in Channels : x \in ready[l] => x \in ready'[l]
        /\ \A l \in EventLoops : \A x \in Conns : x \in ready'[l] => x \in ready[l] \cup watched[l]
    <2>1. CASE ready' = ready
      BY <2>1, <1>2
    <2>2. CASE ready' # ready
      <3>1. PICK L \in EventLoops : /\ c \in watched[L]
                                    /\ ready' = [ready EXCEPT ![L] = @ \cup {c}]
        BY <2>2, <1>3, LoopIsSubloop, MainIsApart
      <3>2. c \in Channels
        BY MainIsApart
      <3> QED BY <3>1, <3>2, <1>2
    <2> QED BY <2>1, <2>2
  <1>7. ReactorTypeOK'
    BY <1>1, <1>4, <1>5, <1>6 DEF ReactorTypeOK, ClientStates
  <1>8. \A l \in EventLoops : \A x \in Conns : Held(l, x)' <=> Held(l, x)
    BY <1>1, <1>6, MainIsApart DEF Held
  <1>9. HeldInv'
    BY <1>1, <1>8 DEF HeldInv, LoopOfConn
  <1>10. MainInv'
    BY <1>1, <1>8 DEF MainInv
  <1>11. StageInv'
    BY <1>1, <1>2 DEF StageInv, LoopOfConn, Adding
  <1>12. LoopInv'
    BY <1>1 DEF LoopInv
  <1>13. BacklogInv'
    <2>1. \A i \in DOMAIN backlog : backlog[i] \in Conns
      BY <1>2
    <2> QED BY <1>1, <1>2, <2>1 DEF BacklogInv
  <1>14. ASSUME NEW x \in Conns, x # c
         PROVE  unread'[x] = unread[x] /\ client'[x] = client[x]
    BY <1>1, <1>2, <1>14
  <1>15. unread'[c] = Append(unread[c], msg) /\ client'[c] = st
    BY <1>1, <1>2
  <1>16. ProtocolInv'
    <2>1. ASSUME NEW i \in DOMAIN unread'[c], NEW j \in DOMAIN unread'[c],
                 unread'[c][i] \in Requests, unread'[c][j] \in Requests
          PROVE  i = j
      <3>1. CASE msg \in Requests
        <4>1. NoRequest(unread[c])
          BY <3>1, <1>2 DEF ProtocolInv
        <4> QED BY <4>1, <2>1, <1>2, <1>15, NoRequestAppend
      <3>2. CASE msg \notin Requests
        <4>1. /\ DOMAIN unread'[c] = DOMAIN unread[c] \cup {Len(unread[c]) + 1}
              /\ \A k \in DOMAIN unread[c] : unread'[c][k] = unread[c][k]
              /\ unread'[c][Len(unread[c]) + 1] = msg
          BY <1>2, <1>15
        <4>2. i \in DOMAIN unread[c] /\ j \in DOMAIN unread[c]
          BY <4>1, <3>2, <2>1
        <4> QED BY <4>1, <4>2, <2>1 DEF ProtocolInv
      <3> QED BY <3>1, <3>2
    <2>2. client'[c] \in {"away", "connecting", "ready", "early"} => NoRequest(unread'[c])
      <3>1. SUFFICES ASSUME st = "ready" PROVE NoRequest(unread'[c])
        BY <1>15
      <3>2. NoRequest(unread[c]) /\ msg \notin Requests
        BY <3>1 DEF ProtocolInv
      <3> QED BY <3>2, <1>2, <1>15, NoRequestAppend
    <2>3. ASSUME NEW l \in Subloops, at[l][1] \in {"receiving", "answering"}, at[l][2] = c
          PROVE  NoRequest(unread'[c]) /\ client'[c] \notin {"away", "connecting", "ready", "early"}
      <3>1. NoRequest(unread[c]) /\ client[c] \notin {"away", "connecting", "ready", "early"}
        BY <2>3 DEF ProtocolInv
      <3> QED BY <3>1, <1>2, <1>15, NoRequestAppend
    <2>4. \A x \in Conns : x # c =>
            /\ \A i, j \in DOMAIN unread'[x] :
                 unread'[x][i] \in Requests /\ unread'[x][j] \in Requests => i = j
            /\ client'[x] \in {"away", "connecting", "ready", "early"} => NoRequest(unread'[x])
            /\ \A l \in Subloops :
                 at[l][1] \in {"receiving", "answering"} /\ at[l][2] = x =>
                   /\ NoRequest(unread'[x])
                   /\ client'[x] \notin {"away", "connecting", "ready", "early"}
      BY <1>14 DEF ProtocolInv
    <2> QED BY <1>1, <2>1, <2>2, <2>3, <2>4 DEF ProtocolInv, NoRequest
  <1>17. PendingInv'
    <2>1. ASSUME NEW x \in Conns, stage[x] = "callable", ~Adding(x)
          PROVE  /\ LoopOfConn(x) \in EventLoops /\ x \in watched[LoopOfConn(x)]
                 /\ fd[x] # None
      BY <2>1, LoopIsSubloop, MainIsApart DEF StageInv
    <2>2. ASSUME NEW x \in Conns, stage[x] = "callable", ~Adding(x),
                 unread'[x] # <<>>, Head(unread'[x]) \in Requests
          PROVE  \/ x \in ready'[LoopOfConn(x)]
                 \/ x \in batch[LoopOfConn(x)] /\ at[LoopOfConn(x)][2] # x
                 \/ at[LoopOfConn(x)][1] = "dead"
      <3>1. CASE x = c
        BY <3>1, <2>1, <2>2, <1>3b
      <3>2. CASE x # c
        BY <3>2, <2>1, <2>2, <1>6, <1>14, MainIsApart DEF PendingInv
      <3> QED BY <3>1, <3>2
    <2> QED BY <1>1, <2>2 DEF PendingInv, LoopOfConn, Adding
  <1> QED BY <1>7, <1>9, <1>10, <1>11, <1>12, <1>13, <1>16, <1>17

\* The clients' steps that send.
LEMMA ClientKeeps ==
  ASSUME ReactorInv, NEW c \in Conns, ClientStep(c)
  PROVE  ReactorInv'
PROOF
  <1>1. client \in [Conns -> ClientStates]
    BY DEF ReactorInv, ReactorTypeOK, ClientStates
  <1>2. CASE Connect(c)
    BY <1>2, ConnectKeeps
  <1>3. CASE SendValue(c)
    <2> DEFINE st == IF client[c] = "early" THEN "ready" ELSE "awaiting"
    <2>1. st \in ClientStates /\ "bytes" \in Messages /\ "bytes" \notin Requests
      BY DEF ClientStates, Messages, Requests
    <2>2. Sends(c, "bytes") /\ Tell(c, st) /\ client[c] \in {"sending", "early"}
      BY <1>3 DEF SendValue
    <2> QED BY <2>1, <2>2, SendsKeeps
  <1>4. CASE Disconnect(c)
    <2>1. "gone" \in ClientStates /\ "eof" \in Messages /\ "eof" \notin Requests
      BY DEF ClientStates, Messages, Requests
    <2>2. Sends(c, "eof") /\ Tell(c, "gone") /\ client[c] # "away"
      BY <1>4 DEF Disconnect
    <2> QED BY <2>1, <2>2, SendsKeeps
  <1>5. ASSUME NEW msg \in {"ask", "set", "leave"}, AskFor(c, msg)
        PROVE  ReactorInv'
    <2>1. PICK st \in {"awaiting", "sending", "leaving"} : Tell(c, st)
      BY <1>5 DEF AskFor
    <2>2. st \in ClientStates /\ msg \in Messages
      BY <2>1 DEF ClientStates, Messages
    <2>3. Sends(c, msg) /\ client[c] = "ready"
      BY <1>5 DEF AskFor
    <2> QED BY <2>1, <2>2, <2>3, SendsKeeps
  <1> QED BY <1>2, <1>3, <1>4, <1>5 DEF ClientStep

-----------------------------------------------------------------------------
(* Every step keeps the invariant: the loops and the main thread.          *)

\* Where a thread that moved is, and the others are.
LEMMA MoveTo ==
  ASSUME ReactorTypeOK, NEW l \in EventLoops, NEW to \in Places, NEW c \in Conns \cup {None},
         Move(l, to, c)
  PROVE  /\ at' \in [EventLoops -> Places \X (Conns \cup {None})]
         /\ at'[l][1] = to /\ at'[l][2] = c
         /\ \A m \in EventLoops : m # l => at'[m] = at[m]
PROOF
  <1>1. at \in [EventLoops -> Places \X (Conns \cup {None})]
    BY DEF ReactorTypeOK
  <1>2. at' = [at EXCEPT ![l] = <<to, c>>]
    BY DEF Move
  <1> QED BY <1>1, <1>2

LEMMA StartLoopKeeps ==
  ASSUME ReactorInv, NEW l \in EventLoops, StartLoop(l)
  PROVE  ReactorInv'
PROOF
  <1> USE DEF ReactorInv
  <1>1. /\ at[l][1] = "off" /\ Move(l, "polling", None)
        /\ UNCHANGED <<backlog, unread, watched, ready, batch, stage, inEpoll, spare, fd,
                       client, ended, merged>>
    BY DEF StartLoop, IsAt
  <1>2. at[l][2] = None
    BY <1>1, MainIsApart DEF LoopInv, MainInv
  <1>3. /\ at' \in [EventLoops -> Places \X (Conns \cup {None})]
        /\ at'[l][1] = "polling" /\ at'[l][2] = None
        /\ \A m \in EventLoops : m # l => at'[m] = at[m]
    BY <1>1, MoveTo DEF Places
  <1>4. \A m \in EventLoops : at'[m][2] = at[m][2]
    BY <1>2, <1>3
  <1>5. ReactorTypeOK'
    BY <1>1, <1>3 DEF ReactorTypeOK
  <1>6. \A m \in EventLoops : \A x \in Conns : Held(m, x)' <=> Held(m, x)
    BY <1>1, <1>4 DEF Held
  <1>7. HeldInv'
    BY <1>1, <1>6 DEF HeldInv, LoopOfConn
  <1>8. MainInv'
    BY <1>1, <1>3, <1>4, <1>6, MainIsApart DEF MainInv
  <1>9. at[Main][2] # None => at'[Main] = at[Main]
    BY <1>2, <1>3, MainIsApart
  <1>10. StageInv'
    BY <1>1, <1>4, <1>9, ReactorAssumption DEF StageInv, LoopOfConn, Adding
  <1>11. LoopInv'
    BY <1>1, <1>3, <1>4, MainIsApart DEF LoopInv
  <1>12. BacklogInv'
    BY <1>1 DEF BacklogInv
  <1>13. ProtocolInv'
    BY <1>1, <1>3, <1>4, MainIsApart DEF ProtocolInv, NoRequest
  <1>14. ASSUME NEW x \in Conns, stage[x] = "callable"
         PROVE  /\ LoopOfConn(x) \in EventLoops
                /\ Adding(x)' <=> Adding(x)
    BY <1>14, <1>4, <1>9, LoopIsSubloop, MainIsApart, ReactorAssumption DEF StageInv, Adding
  <1>15. PendingInv'
    BY <1>1, <1>3, <1>4, <1>14 DEF PendingInv, LoopOfConn
  <1> QED BY <1>5, <1>7, <1>8, <1>10, <1>11, <1>12, <1>13, <1>15

\* What poll() returns was in the list, and what it leaves has nothing to read
\* or stays there.
LEMMA PollKeeps ==
  ASSUME ReactorInv, NEW l \in EventLoops, Poll(l)
  PROVE  ReactorInv'
PROOF
  <1> USE DEF ReactorInv
  <1>1. /\ at[l][1] = "polling" /\ batch[l] = {}
        /\ UNCHANGED <<backlog, unread, watched, at, stage, inEpoll, spare, fd, client, ended,
                       merged>>
    BY DEF Poll, IsAt
  <1>2. PICK found, E : /\ found = {x \in ready[l] : Readable(x)} /\ E \subseteq found
                        /\ batch' = [batch EXCEPT ![l] = E]
                        /\ ready' = [ready EXCEPT ![l] = found \ E]
    BY DEF Poll
  <1>3. /\ ready \in [EventLoops -> SUBSET Channels] /\ batch \in [EventLoops -> SUBSET Channels]
        /\ unread \in [Conns -> Seq(Messages)]
    BY DEF ReactorTypeOK
  <1>4. /\ ready' \in [EventLoops -> SUBSET Channels] /\ batch' \in [EventLoops -> SUBSET Channels]
        /\ batch'[l] = E /\ ready'[l] = found \ E
        /\ \A m \in EventLoops : m # l => ready'[m] = ready[m] /\ batch'[m] = batch[m]
    BY <1>2, <1>3
  <1>5. at[l][2] = None
    BY <1>1, MainIsApart DEF LoopInv, MainInv
  <1>6. ReactorTypeOK'
    BY <1>1, <1>4 DEF ReactorTypeOK
  <1>7. \A m \in EventLoops : \A x \in Conns : Held(m, x)' => Held(m, x)
    BY <1>1, <1>2, <1>4 DEF Held
  <1>8. HeldInv'
    BY <1>1, <1>7 DEF HeldInv, LoopOfConn
  <1>9. MainInv'
    BY <1>1, <1>7 DEF MainInv
  <1>10. StageInv'
    BY <1>1 DEF StageInv, LoopOfConn, Adding
  <1>11. LoopInv'
    <2>1. ASSUME NEW m \in Subloops, m # l
          PROVE  batch'[m] = batch[m]
      BY <2>1, <1>4, MainIsApart
    <2> QED BY <1>1, <1>5, <2>1 DEF LoopInv
  <1>12. BacklogInv'
    BY <1>1 DEF BacklogInv
  <1>13. ProtocolInv'
    BY <1>1 DEF ProtocolInv, NoRequest
  <1>14. ASSUME NEW x \in Conns, stage[x] = "callable", ~Adding(x), unread[x] # <<>>,
                Head(unread[x]) \in Requests
         PROVE  \/ x \in ready'[LoopOfConn(x)]
                \/ x \in batch'[LoopOfConn(x)] /\ at[LoopOfConn(x)][2] # x
                \/ at[LoopOfConn(x)][1] = "dead"
    <2>1. LoopOfConn(x) \in EventLoops
      BY <1>14, LoopIsSubloop, MainIsApart DEF StageInv
    <2>2. CASE LoopOfConn(x) # l
      BY <2>1, <2>2, <1>4, <1>14 DEF PendingInv
    <2>3. CASE LoopOfConn(x) = l
      <3>1. x \in ready[l]
        BY <2>3, <1>1, <1>14 DEF PendingInv
      <3>2. x \in found
        BY <3>1, <1>2, <1>14, ReactorAssumption DEF Readable
      <3> QED BY <3>2, <2>3, <1>4, <1>5, ReactorAssumption
    <2> QED BY <2>2, <2>3
  <1>15. PendingInv'
    BY <1>1, <1>14 DEF PendingInv, LoopOfConn, Adding
  <1> QED BY <1>6, <1>8, <1>9, <1>10, <1>11, <1>12, <1>13, <1>15

\* A channel is made for a client that had none.
LEMMA NewChannelKeeps ==
  ASSUME ReactorInv, NEW d \in spare, NEW s \in ClientStates,
         at[Main][1] = "polling", backlog # <<>>, UNCHANGED ended,
         s \in {client[Head(backlog)], "ready"},
         s = "ready" => client[Head(backlog)] \in {"ready", "connecting"},
         NewChannel(Head(backlog), d, s)
  PROVE  ReactorInv'
PROOF
  <1> USE DEF ReactorInv
  <1>1. PICK c : c = Head(backlog)
    OBVIOUS
  <1>2. /\ backlog \in Seq(Conns) /\ fd \in [Conns -> spare \cup {None}] /\ spare \subseteq Fds
        /\ client \in [Conns -> ClientStates]
        /\ stage \in [Conns -> {"none", "made", "callable", "closed"}]
    BY DEF ReactorTypeOK, ClientStates
  <1>3. /\ backlog[1] = c /\ 1 \in DOMAIN backlog /\ c \in Conns
    BY <1>1, <1>2
  <1>4. /\ backlog' = Tail(backlog)
        /\ fd' = [fd EXCEPT ![c] = d] /\ stage' = [stage EXCEPT ![c] = "made"]
        /\ client' = [client EXCEPT ![c] = s] /\ Move(Main, "callback", c)
        /\ UNCHANGED <<unread, watched, ready, batch, inEpoll, spare, merged, ended>>
    BY <1>1, RegistrationSteps DEF NewChannel, Tell
  <1>5. /\ at' \in [EventLoops -> Places \X (Conns \cup {None})]
        /\ at'[Main][1] = "callback" /\ at'[Main][2] = c
        /\ \A m \in EventLoops : m # Main => at'[m] = at[m]
    BY <1>3, <1>4, MoveTo, MainIsApart DEF Places
  <1>6. backlog' \in Seq(Conns)
    BY <1>2, <1>4
  <1>7. /\ fd' \in [Conns -> spare \cup {None}] /\ stage' \in [Conns -> {"none", "made", "callable", "closed"}]
        /\ client' \in [Conns -> ClientStates]
    BY <1>2, <1>4
  <1>8. ReactorTypeOK'
    BY <1>4, <1>5, <1>6, <1>7 DEF ReactorTypeOK, ClientStates
  <1>9. \A m \in EventLoops : \A x \in Conns : Held(m, x)' <=> Held(m, x)
    BY <1>4, <1>5 DEF Held
  <1>10. stage[c] = "none" /\ client[c] # "away" /\ at[Main][2] = None
    BY <1>3, ReactorAssumption DEF BacklogInv, MainInv
  <1>11. /\ fd'[c] = d /\ d # None /\ stage'[c] = "made" /\ client'[c] = s
         /\ \A x \in Conns : x # c => fd'[x] = fd[x] /\ stage'[x] = stage[x] /\ client'[x] = client[x]
    BY <1>2, <1>3, <1>4, ReactorAssumption
  <1>12. HeldInv'
    BY <1>9, <1>10, <1>11 DEF HeldInv, LoopOfConn
  <1>13. MainInv'
    BY <1>3, <1>5, <1>11 DEF MainInv
  <1>14. StageInv'
    <2>1. \A x \in Conns : stage[x] # "made" /\ ~Adding(x) /\ ~Adding(x)'
      BY <1>5, <1>10, ReactorAssumption DEF StageInv, Adding
    <2> QED BY <1>1, <1>4, <1>5, <1>10, <1>11, <2>1 DEF StageInv, LoopOfConn
  <1>15. LoopInv'
    BY <1>4, <1>5, MainIsApart DEF LoopInv
  <1>16. BacklogInv'
    <2>1. \A i \in DOMAIN backlog' : i \in Nat /\ i + 1 \in DOMAIN backlog /\ backlog'[i] = backlog[i + 1]
      BY <1>2, <1>4
    <2>2. \A i \in DOMAIN backlog' : backlog'[i] \in Conns /\ backlog'[i] # c
      <3>1. \A i \in DOMAIN backlog' : i + 1 # 1
        BY <2>1
      <3> QED BY <2>1, <3>1, <1>2, <1>3 DEF BacklogInv
    <2>3. \A i \in DOMAIN backlog' : stage'[backlog'[i]] = "none" /\ client'[backlog'[i]] # "away"
      BY <2>1, <2>2, <1>11 DEF BacklogInv
    <2>4. \A i, j \in DOMAIN backlog' : backlog'[i] = backlog'[j] => i = j
      <3>1. \A i, j \in DOMAIN backlog' : backlog'[i] = backlog'[j] => i + 1 = j + 1
        BY <2>1 DEF BacklogInv
      <3> QED BY <3>1, <2>1
    <2> QED BY <2>3, <2>4 DEF BacklogInv
  <1>17. ProtocolInv'
    <2>1. client'[c] \in {"away", "connecting", "ready", "early"}
              => client[c] \in {"away", "connecting", "ready", "early"}
      BY <1>1, <1>11
    <2>2. \A l \in Subloops : at[l][2] # c
      BY <1>3, <1>10, MainIsApart DEF HeldInv, Held
    <2> QED BY <1>4, <1>5, <1>11, <2>1, <2>2, MainIsApart DEF ProtocolInv, NoRequest
  <1>18. PendingInv'
    <2>1. ASSUME NEW x \in Conns, stage'[x] = "callable"
          PROVE  /\ x # c /\ stage[x] = "callable" /\ ~Adding(x)
                 /\ LoopOfConn(x)' = LoopOfConn(x) /\ LoopOfConn(x) \in Subloops
                 /\ at'[LoopOfConn(x)] = at[LoopOfConn(x)]
      BY <2>1, <1>3, <1>5, <1>10, <1>11, LoopIsSubloop, MainIsApart, ReactorAssumption
      DEF LoopOfConn, Adding, StageInv
    <2> QED BY <1>4, <2>1 DEF PendingInv
  <1> QED BY <1>8, <1>12, <1>13, <1>14, <1>15, <1>16, <1>17, <1>18

LEMMA AcceptKeeps ==
  ASSUME ReactorInv, AcceptOne
  PROVE  ReactorInv'
PROOF
  <1>1. CASE AcceptFails
    <2>1. /\ ended' = "accept"
          /\ UNCHANGED <<backlog, unread, watched, ready, batch, at, stage, inEpoll, spare, fd,
                         client, merged>>
      BY <1>1 DEF AcceptFails
    <2> QED BY <2>1 DEF ReactorInv, ReactorTypeOK, HeldInv, Held, MainInv, StageInv, LoopInv,
                        BacklogInv, ProtocolInv, NoRequest, PendingInv, Adding, LoopOfConn
  <1>2. CASE ~AcceptFails
    <2>1. /\ backlog # <<>> /\ FreeFds # {} /\ UNCHANGED ended /\ at[Main][1] = "polling"
          /\ NewChannel(Head(backlog), Lowest(FreeFds), Greeted(Head(backlog)))
      BY <1>2 DEF AcceptOne, Accepting, IsAt
    <2>2. spare \subseteq Nat /\ FreeFds \subseteq spare
      BY ReactorAssumption DEF FreeFds, ReactorInv, ReactorTypeOK
    <2>3. Lowest(FreeFds) \in spare
      BY <2>1, <2>2, LowestIsIn
    <2>4. backlog \in Seq(Conns) /\ client \in [Conns -> ClientStates]
      BY DEF ReactorInv, ReactorTypeOK, ClientStates
    <2>5. Head(backlog) \in Conns
      BY <2>1, <2>4
    <2>6. PICK s : s = Greeted(Head(backlog))
      OBVIOUS
    <2>7. /\ s \in {client[Head(backlog)], "ready"}
          /\ s = "ready" => client[Head(backlog)] \in {"ready", "connecting"}
          /\ s \in ClientStates
      BY <2>4, <2>5, <2>6 DEF Greeted, ClientStates
    <2>8. PICK d \in spare : d = Lowest(FreeFds)
      BY <2>3
    <2>9. NewChannel(Head(backlog), d, s)
      BY <2>1, <2>6, <2>8
    <2> QED BY <2>1, <2>7, <2>9, NewChannelKeeps
  <1> QED BY <1>1, <1>2

\* The callback is set, and epoll does not have the channel yet.
LEMMA SetCallbackKeeps ==
  ASSUME ReactorInv, SetCallback(1)
  PROVE  ReactorInv'
PROOF
  <1> USE DEF ReactorInv
  <1>1. PICK c : c = at[Main][2]
    OBVIOUS
  <1>2. /\ at[Main][1] = "callback" /\ Move(Main, "adding", c)
        /\ stage' = [stage EXCEPT ![c] = IF @ = "made" THEN "callable" ELSE @]
        /\ UNCHANGED <<backlog, unread, watched, ready, batch, inEpoll, spare, fd, client, ended,
                       merged>>
    BY <1>1, RegistrationSteps DEF SetCallback, Step, IsAt
  <1>3. c \in Conns /\ stage[c] = "made" /\ ~inEpoll[c] /\ fd[c] # None
    BY <1>1, <1>2 DEF MainInv, StageInv
  <1>4. stage \in [Conns -> {"none", "made", "callable", "closed"}]
    BY DEF ReactorTypeOK
  <1>5. /\ at' \in [EventLoops -> Places \X (Conns \cup {None})]
        /\ at'[Main][1] = "adding" /\ at'[Main][2] = c
        /\ \A m \in EventLoops : m # Main => at'[m] = at[m]
    BY <1>2, <1>3, MoveTo, MainIsApart DEF Places
  <1>6. /\ stage' \in [Conns -> {"none", "made", "callable", "closed"}]
        /\ stage'[c] = "callable" /\ \A x \in Conns : x # c => stage'[x] = stage[x]
    BY <1>2, <1>3, <1>4
  <1>7. ReactorTypeOK'
    BY <1>2, <1>5, <1>6 DEF ReactorTypeOK
  <1>8. \A m \in EventLoops : \A x \in Conns : Held(m, x)' <=> Held(m, x)
    BY <1>2, <1>5 DEF Held
  <1>9. \A m \in EventLoops : ~Held(m, c)
    BY <1>3 DEF HeldInv
  <1>10. HeldInv'
    BY <1>2, <1>6, <1>8 DEF HeldInv, LoopOfConn
  <1>11. MainInv'
    BY <1>2, <1>3, <1>5, <1>6, <1>8, <1>9 DEF MainInv
  <1>12. \A x \in Conns : x # c => stage[x] # "made" /\ ~Adding(x) /\ ~Adding(x)'
    BY <1>1, <1>2, <1>5 DEF StageInv, Adding
  <1>13. StageInv'
    <2>1. Adding(c)'
      BY <1>5 DEF Adding
    <2>2. client[c] # "away"
      BY <1>3 DEF StageInv
    <2> QED BY <1>2, <1>3, <1>6, <1>12, <2>1, <2>2 DEF StageInv, LoopOfConn
  <1>14. LoopInv'
    BY <1>2, <1>5, MainIsApart DEF LoopInv
  <1>15. BacklogInv'
    <2>1. backlog \in Seq(Conns)
      BY DEF ReactorTypeOK
    <2>2. \A i \in DOMAIN backlog : backlog[i] \in Conns /\ backlog[i] # c
      BY <2>1, <1>3 DEF BacklogInv
    <2> QED BY <1>2, <1>6, <2>2 DEF BacklogInv
  <1>16. ProtocolInv'
    BY <1>2, <1>5, MainIsApart DEF ProtocolInv, NoRequest
  <1>17. PendingInv'
    <2>1. ASSUME NEW x \in Conns, stage'[x] = "callable", ~Adding(x)'
          PROVE  /\ stage[x] = "callable" /\ ~Adding(x)
                 /\ LoopOfConn(x)' = LoopOfConn(x) /\ LoopOfConn(x) \in Subloops
                 /\ at'[LoopOfConn(x)] = at[LoopOfConn(x)]
      <3>1. x # c
        BY <2>1, <1>5 DEF Adding
      <3> QED BY <2>1, <3>1, <1>2, <1>5, <1>6, <1>12, LoopIsSubloop, MainIsApart
              DEF LoopOfConn, StageInv
    <2> QED BY <1>2, <2>1 DEF PendingInv
  <1> QED BY <1>7, <1>10, <1>11, <1>13, <1>14, <1>15, <1>16, <1>17

\* epoll learns of the channel, and reports what came before; the flag of a
\* new channel is down, so it is an ADD.
LEMMA AddKeeps ==
  ASSUME ReactorInv, Add(2)
  PROVE  ReactorInv'
PROOF
  <1> USE DEF ReactorInv
  <1>1. PICK c : c = at[Main][2]
    OBVIOUS
  <1>2. /\ at[Main][1] = "adding" /\ Move(Main, "marking", c) /\ UpdateChannel(c)
        /\ UNCHANGED <<backlog, unread, batch, stage, inEpoll, spare, fd, client, ended, merged>>
    BY <1>1, RegistrationSteps DEF Add, Step, IsAt
  <1>3. /\ c \in Conns /\ stage[c] = "callable" /\ ~inEpoll[c] /\ fd[c] # None
        /\ \A l \in EventLoops : ~Held(l, c)
    BY <1>1, <1>2 DEF MainInv, StageInv
  <1>4. PICK L \in Subloops : L = LoopOfConn(c)
    BY <1>3, LoopIsSubloop
  <1>5. L \in EventLoops /\ L # Main /\ c \in Channels
    BY <1>3, MainIsApart
  <1>6. /\ watched \in [EventLoops -> SUBSET Channels] /\ ready \in [EventLoops -> SUBSET Channels]
    BY DEF ReactorTypeOK
  <1>7. /\ watched' = [watched EXCEPT ![L] = @ \cup {c}]
        /\ ready' = ready \/ ready' = [ready EXCEPT ![L] = @ \cup {c}]
        /\ unread[c] # <<>> => ready' = [ready EXCEPT ![L] = @ \cup {c}]
    BY <1>2, <1>3, <1>4, <1>5 DEF UpdateChannel, Control, Held
  <1>8. /\ watched' \in [EventLoops -> SUBSET Channels] /\ ready' \in [EventLoops -> SUBSET Channels]
        /\ c \in watched'[L]
        /\ \A m \in EventLoops : \A x \in Channels :
             /\ x \in watched'[m] <=> x \in watched[m] \/ (m = L /\ x = c)
             /\ x \in ready'[m] => x \in ready[m] \/ (m = L /\ x = c)
             /\ x \in ready[m] => x \in ready'[m]
        /\ unread[c] # <<>> => c \in ready'[L]
    BY <1>5, <1>6, <1>7
  <1>9. /\ at' \in [EventLoops -> Places \X (Conns \cup {None})]
        /\ at'[Main][1] = "marking" /\ at'[Main][2] = c
        /\ \A m \in EventLoops : m # Main => at'[m] = at[m]
    BY <1>2, <1>3, MoveTo, MainIsApart DEF Places
  <1>10. ReactorTypeOK'
    BY <1>2, <1>8, <1>9 DEF ReactorTypeOK
  <1>11. \A m \in EventLoops : \A x \in Conns : Held(m, x)' => Held(m, x) \/ (m = L /\ x = c)
    BY <1>2, <1>8, <1>9, MainIsApart DEF Held
  <1>12. HeldInv'
    BY <1>2, <1>3, <1>4, <1>11 DEF HeldInv, LoopOfConn
  <1>13. MainInv'
    BY <1>2, <1>3, <1>9 DEF MainInv
  <1>14. \A x \in Conns : ~Adding(x)' /\ (x # c => ~Adding(x))
    BY <1>1, <1>9 DEF Adding
  <1>15. \A x \in Conns : stage[x] = "callable" => LoopOfConn(x)' = LoopOfConn(x) /\ LoopOfConn(x) \in Subloops
    BY <1>2, LoopIsSubloop DEF StageInv, LoopOfConn
  <1>16. StageInv'
    <2>1. ASSUME NEW x \in Conns, stage'[x] = "callable"
          PROVE  x \in watched'[LoopOfConn(x)']
      <3>1. CASE x = c
        BY <3>1, <1>3, <1>4, <1>8, <1>15
      <3>2. CASE x # c
        <4>1. x \in watched[LoopOfConn(x)]
          BY <2>1, <3>2, <1>2, <1>14 DEF StageInv
        <4> QED BY <4>1, <2>1, <1>2, <1>8, <1>15, MainIsApart
      <3> QED BY <3>1, <3>2
    <2>2. \A x \in Conns : stage[x] # "made"
      BY <1>2 DEF StageInv
    <2> QED BY <1>2, <2>1, <2>2 DEF StageInv
  <1>17. LoopInv'
    BY <1>2, <1>9, MainIsApart DEF LoopInv
  <1>18. BacklogInv'
    BY <1>2 DEF BacklogInv
  <1>19. ProtocolInv'
    BY <1>2, <1>9, MainIsApart DEF ProtocolInv, NoRequest
  <1>20. PendingInv'
    <2>1. ASSUME NEW x \in Conns, stage[x] = "callable", unread[x] # <<>>,
                 Head(unread[x]) \in Requests
          PROVE  \/ x \in ready'[LoopOfConn(x)]
                 \/ x \in batch[LoopOfConn(x)] /\ at[LoopOfConn(x)][2] # x
                 \/ at[LoopOfConn(x)][1] = "dead"
      <3>1. CASE x = c
        BY <3>1, <2>1, <1>4, <1>8
      <3>2. CASE x # c
        BY <3>2, <2>1, <1>8, <1>14, <1>15, MainIsApart DEF PendingInv
      <3> QED BY <3>1, <3>2
    <2>2. \A m \in Subloops : at'[m] = at[m]
      BY <1>9, MainIsApart
    <2> QED BY <1>2, <1>15, <2>1, <2>2 DEF PendingInv
  <1> QED BY <1>10, <1>12, <1>13, <1>16, <1>17, <1>18, <1>19, <1>20

LEMMA MarkKeeps ==
  ASSUME ReactorInv, Mark(3)
  PROVE  ReactorInv'
PROOF
  <1> USE DEF ReactorInv
  <1>1. PICK c : c = at[Main][2]
    OBVIOUS
  <1>2. /\ at[Main][1] = "marking" /\ Move(Main, "polling", None) /\ Handled(Main, Listener)
        /\ inEpoll' = [inEpoll EXCEPT ![c] = TRUE]
        /\ UNCHANGED <<backlog, unread, watched, ready, stage, spare, fd, client, ended, merged>>
    BY <1>1, RegistrationSteps DEF Mark, Step, IsAt
  <1>3. c \in Conns /\ stage[c] \in {"callable", "closed"}
    BY <1>1, <1>2 DEF MainInv
  <1>4. inEpoll \in [Conns -> BOOLEAN] /\ batch \in [EventLoops -> SUBSET Channels]
    BY DEF ReactorTypeOK
  <1>5. /\ inEpoll' \in [Conns -> BOOLEAN]
        /\ \A x \in Conns : x # c => inEpoll'[x] = inEpoll[x]
    BY <1>2, <1>4
  <1>6. /\ batch' \in [EventLoops -> SUBSET Channels]
        /\ \A m \in EventLoops : m # Main => batch'[m] = batch[m]
        /\ batch'[Main] \subseteq batch[Main]
    BY <1>2, <1>4, MainIsApart DEF Handled
  <1>7. /\ at' \in [EventLoops -> Places \X (Conns \cup {None})]
        /\ at'[Main][1] = "polling" /\ at'[Main][2] = None
        /\ \A m \in EventLoops : m # Main => at'[m] = at[m]
    BY <1>2, <1>3, MoveTo, MainIsApart DEF Places
  <1>8. \A m \in Subloops : batch'[m] = batch[m] /\ at'[m] = at[m]
    BY <1>6, <1>7, MainIsApart
  <1>9. ReactorTypeOK'
    BY <1>2, <1>5, <1>6, <1>7 DEF ReactorTypeOK
  <1>10. \A m \in EventLoops : \A x \in Conns : Held(m, x)' => Held(m, x)
    BY <1>2, <1>6, <1>7 DEF Held
  <1>11. HeldInv'
    BY <1>2, <1>10 DEF HeldInv, LoopOfConn
  <1>12. MainInv'
    BY <1>7 DEF MainInv
  <1>13. \A x \in Conns : ~Adding(x)' /\ ~Adding(x)
    BY <1>2, <1>7 DEF Adding
  <1>14. StageInv'
    BY <1>2, <1>3, <1>5, <1>13 DEF StageInv, LoopOfConn
  <1>15. LoopInv'
    BY <1>8 DEF LoopInv
  <1>16. BacklogInv'
    BY <1>2 DEF BacklogInv
  <1>17. ProtocolInv'
    BY <1>2, <1>8 DEF ProtocolInv, NoRequest
  <1>18. \A x \in Conns : stage[x] = "callable" => LoopOfConn(x)' = LoopOfConn(x) /\ LoopOfConn(x) \in Subloops
    BY <1>2, LoopIsSubloop DEF StageInv, LoopOfConn
  <1>19. PendingInv'
    BY <1>2, <1>8, <1>13, <1>18 DEF PendingInv
  <1> QED BY <1>9, <1>11, <1>12, <1>14, <1>15, <1>16, <1>17, <1>19

\* The main thread.
LEMMA MainKeeps ==
  ASSUME ReactorInv, MainStep
  PROVE  ReactorInv'
PROOF BY MainSteps, AcceptKeeps, SetCallbackKeeps, AddKeeps, MarkKeeps

-----------------------------------------------------------------------------
(* Every step keeps the invariant: the handlers.                           *)

\* A message is taken from a socket: the requests left are among those before,
\* and none is left when it was one.
LEMMA TailRequests ==
  ASSUME NEW s \in Seq(Messages), s # <<>>,
         \A i, j \in DOMAIN s : s[i] \in Requests /\ s[j] \in Requests => i = j
  PROVE  /\ Tail(s) \in Seq(Messages) /\ Head(s) \in Messages
         /\ \A i, j \in DOMAIN Tail(s) :
              Tail(s)[i] \in Requests /\ Tail(s)[j] \in Requests => i = j
         /\ NoRequest(s) => NoRequest(Tail(s))
         /\ Head(s) \in Requests => NoRequest(Tail(s)) /\ ~NoRequest(s)
         /\ NoRequest(s) => Head(s) \notin Requests
PROOF
  <1>1. /\ Tail(s) \in Seq(Messages) /\ Head(s) \in Messages /\ 1 \in DOMAIN s /\ Head(s) = s[1]
    OBVIOUS
  <1>2. \A i \in DOMAIN Tail(s) : i \in Nat /\ i # 0 /\ i + 1 \in DOMAIN s /\ Tail(s)[i] = s[i + 1]
    OBVIOUS
  <1>3. \A i, j \in DOMAIN Tail(s) :
           Tail(s)[i] \in Requests /\ Tail(s)[j] \in Requests => i = j
    <2>1. \A i, j \in DOMAIN Tail(s) :
            Tail(s)[i] \in Requests /\ Tail(s)[j] \in Requests => i + 1 = j + 1
      BY <1>2
    <2> QED BY <2>1, <1>2
  <1>4. NoRequest(s) => NoRequest(Tail(s)) /\ Head(s) \notin Requests
    BY <1>1, <1>2 DEF NoRequest
  <1>5. Head(s) \in Requests => NoRequest(Tail(s))
    <2>1. \A i \in DOMAIN Tail(s) : i + 1 # 1
      BY <1>2
    <2> QED BY <1>1, <1>2, <2>1 DEF NoRequest
  <1> QED BY <1>1, <1>3, <1>4, <1>5

\* What a subloop may rely on for a channel that poll() gave it.
LEMMA InBatch ==
  ASSUME ReactorInv, NEW l \in EventLoops, l # Main, NEW c \in Conns, c \in batch[l]
  PROVE  /\ l \in Subloops /\ l = LoopOfConn(c) /\ stage[c] = "callable" /\ fd[c] # None
         /\ ~Adding(c)
         /\ \A m \in EventLoops : m # l => ~Held(m, c)
PROOF
  <1>1. l \in Subloops /\ stage[c] = "callable" /\ l = LoopOfConn(c) /\ Held(l, c)
    BY DEF ReactorInv, HeldInv, Held
  <1>2. fd[c] # None
    BY <1>1 DEF ReactorInv, StageInv
  <1>3. ~Adding(c)
    <2>1. Adding(c) => ~Held(l, c)
      BY DEF ReactorInv, MainInv, Adding
    <2> QED BY <1>1, <2>1
  <1>4. \A m \in EventLoops : m # l => ~Held(m, c)
    BY <1>1 DEF ReactorInv, HeldInv
  <1> QED BY <1>1, <1>2, <1>3, <1>4

\* An open channel keeps its loop while descriptors stay as they are.
LEMMA LoopStays ==
  ASSUME ReactorInv, UNCHANGED fd
  PROVE  \A x \in Conns : LoopOfConn(x)' = LoopOfConn(x)
                          /\ (stage[x] = "callable" => LoopOfConn(x) \in Subloops)
PROOF BY LoopIsSubloop DEF ReactorInv, StageInv, LoopOfConn

\* The message is taken, and its handler goes on, or the loop or the process
\* ends.
LEMMA ReceiveKeeps ==
  ASSUME ReactorInv, NEW l \in EventLoops, l # Main, NEW c \in Conns, Receive(l, c)
  PROVE  ReactorInv'
PROOF
  <1> USE DEF ReactorInv
  <1>1. /\ at[l][1] = "polling" /\ c \in batch[l]
        /\ UNCHANGED <<backlog, watched, ready, inEpoll, spare, fd, merged, batch, stage, client>>
    BY DEF Receive, IsAt, handled
  <1>2. /\ l \in Subloops /\ l = LoopOfConn(c) /\ stage[c] = "callable" /\ ~Adding(c)
        /\ \A m \in EventLoops : m # l => ~Held(m, c)
    BY <1>1, InBatch
  <1>3. at[l][2] = None
    BY <1>1, <1>2 DEF LoopInv
  <1>4. /\ unread[c] # <<>> /\ unread' = [unread EXCEPT ![c] = Tail(@)]
    BY <1>1, <1>2 DEF Receive
  <1>5. PICK msg : msg = Head(unread[c])
    OBVIOUS
  <1>6. PICK to \in {"answering", "receiving", "closing", "dead", "polling"}, x \in {c, None} :
           /\ Move(l, to, x) \/ (UNCHANGED at /\ to = "polling" /\ x = None)
           /\ to \in {"answering", "receiving", "closing"} => x = c /\ msg \in Requests
           /\ to \in {"dead", "polling"} => x = None
           /\ to = "polling" => msg \notin Requests
           /\ ended' \in {ended, "garbage"}
    BY <1>1, <1>2, <1>5 DEF Receive, Requests
  <1>7. /\ unread \in [Conns -> Seq(Messages)] /\ ended \in {"no", "accept", "garbage"}
        /\ at \in [EventLoops -> Places \X (Conns \cup {None})]
    BY DEF ReactorTypeOK
  <1>8. /\ at' \in [EventLoops -> Places \X (Conns \cup {None})]
        /\ at'[l][1] = to /\ at'[l][2] = x
        /\ \A m \in EventLoops : m # l => at'[m] = at[m]
    <2>1. CASE Move(l, to, x)
      BY <2>1, <1>6, MoveTo DEF Places
    <2>2. CASE UNCHANGED at /\ to = "polling" /\ x = None
      BY <2>2, <1>1, <1>3, <1>7
    <2> QED BY <2>1, <2>2, <1>6
  <1>9. /\ Tail(unread[c]) \in Seq(Messages)
        /\ \A i, j \in DOMAIN Tail(unread[c]) :
             Tail(unread[c])[i] \in Requests /\ Tail(unread[c])[j] \in Requests => i = j
        /\ NoRequest(unread[c]) => NoRequest(Tail(unread[c])) /\ msg \notin Requests
        /\ msg \in Requests => NoRequest(Tail(unread[c])) /\ ~NoRequest(unread[c])
    <2>1. \A i, j \in DOMAIN unread[c] :
             unread[c][i] \in Requests /\ unread[c][j] \in Requests => i = j
      BY DEF ProtocolInv
    <2>2. unread[c] \in Seq(Messages)
      BY <1>7
    <2> QED BY <2>1, <2>2, <1>4, <1>5, TailRequests
  <1>10. /\ unread' \in [Conns -> Seq(Messages)] /\ unread'[c] = Tail(unread[c])
         /\ \A y \in Conns : y # c => unread'[y] = unread[y]
    BY <1>4, <1>7, <1>9
  <1>11. ReactorTypeOK'
    BY <1>1, <1>6, <1>7, <1>8, <1>10 DEF ReactorTypeOK
  <1>12. \A m \in EventLoops : \A y \in Conns : Held(m, y)' <=> Held(m, y)
    BY <1>1, <1>3, <1>6, <1>8, ReactorAssumption DEF Held
  <1>13. HeldInv'
    BY <1>1, <1>12 DEF HeldInv, LoopOfConn
  <1>14. at'[Main] = at[Main]
    BY <1>8, MainIsApart
  <1>15. MainInv'
    BY <1>1, <1>12, <1>14 DEF MainInv
  <1>16. \A y \in Conns : Adding(y)' <=> Adding(y)
    BY <1>14 DEF Adding
  <1>17. StageInv'
    BY <1>1, <1>14, <1>16 DEF StageInv, LoopOfConn
  <1>18. LoopInv'
    BY <1>1, <1>6, <1>8, MainIsApart DEF LoopInv
  <1>19. BacklogInv'
    BY <1>1 DEF BacklogInv
  <1>20. ProtocolInv'
    <2>1. \A y \in Conns : y # c => ~(to \in {"receiving", "answering"} /\ x = y)
      BY <1>6
    <2>2. to \in {"receiving", "answering"} =>
            NoRequest(unread'[c]) /\ client[c] \notin {"away", "connecting", "ready", "early"}
      BY <1>6, <1>9, <1>10 DEF ProtocolInv
    <2>3. ASSUME NEW m \in Subloops, NEW y \in Conns,
                 at'[m][1] \in {"receiving", "answering"}, at'[m][2] = y
          PROVE  NoRequest(unread'[y]) /\ client[y] \notin {"away", "connecting", "ready", "early"}
      <3>1. CASE m = l
        BY <3>1, <2>1, <2>2, <2>3, <1>8
      <3>2. CASE m # l
        <4>1. at'[m] = at[m]
          BY <3>2, <1>8, MainIsApart
        <4>2. NoRequest(unread[y]) /\ client[y] \notin {"away", "connecting", "ready", "early"}
          BY <4>1, <2>3 DEF ProtocolInv
        <4>3. NoRequest(unread'[y])
          BY <4>2, <1>9, <1>10
        <4> QED BY <4>2, <4>3
      <3> QED BY <3>1, <3>2
    <2>4. ASSUME NEW y \in Conns
          PROVE  /\ \A i, j \in DOMAIN unread'[y] :
                      unread'[y][i] \in Requests /\ unread'[y][j] \in Requests => i = j
                 /\ client[y] \in {"away", "connecting", "ready", "early"} => NoRequest(unread'[y])
      <3>1. CASE y = c
        BY <3>1, <1>9, <1>10 DEF ProtocolInv
      <3>2. CASE y # c
        BY <3>2, <1>10 DEF ProtocolInv
      <3> QED BY <3>1, <3>2
    <2> QED BY <1>1, <2>3, <2>4 DEF ProtocolInv, NoRequest
  <1>21. ASSUME NEW y \in Conns, stage[y] = "callable", ~Adding(y), unread'[y] # <<>>,
                Head(unread'[y]) \in Requests
         PROVE  \/ y \in ready[LoopOfConn(y)]
                \/ y \in batch[LoopOfConn(y)] /\ at'[LoopOfConn(y)][2] # y
                \/ at'[LoopOfConn(y)][1] = "dead"
    <2>1. CASE y = c
      <3>1. CASE NoRequest(Tail(unread[c]))
        <4>1. Head(unread'[c]) = unread'[c][1] /\ 1 \in DOMAIN unread'[c]
          BY <2>1, <1>10, <1>21
        <4>2. Head(unread'[c]) \notin Requests
          BY <4>1, <3>1, <1>10 DEF NoRequest
        <4> QED BY <4>2, <2>1, <1>21
      <3>2. CASE ~NoRequest(Tail(unread[c]))
        <4>1. to \in {"dead", "polling"} /\ x = None
          BY <3>2, <1>6, <1>9
        <4> QED BY <4>1, <2>1, <1>1, <1>2, <1>8, ReactorAssumption
      <3> QED BY <3>1, <3>2
    <2>2. CASE y # c
      <3>1. LoopOfConn(y) \in EventLoops
        BY <1>21, LoopIsSubloop, MainIsApart DEF StageInv
      <3>2. unread[y] # <<>> /\ Head(unread[y]) \in Requests
        BY <2>2, <1>10, <1>21
      <3>3. \/ y \in ready[LoopOfConn(y)]
            \/ y \in batch[LoopOfConn(y)] /\ at[LoopOfConn(y)][2] # y
            \/ at[LoopOfConn(y)][1] = "dead"
        BY <3>2, <1>21 DEF PendingInv
      <3>4. CASE LoopOfConn(y) = l
        <4>1. x # y
          BY <2>2, <1>6, ReactorAssumption
        <4> QED BY <3>3, <3>4, <4>1, <1>1, <1>8
      <3>5. CASE LoopOfConn(y) # l
        BY <3>1, <3>3, <3>5, <1>8
      <3> QED BY <3>4, <3>5
    <2> QED BY <2>1, <2>2
  <1>22. PendingInv'
    BY <1>1, <1>16, <1>21 DEF PendingInv, LoopOfConn
  <1> QED BY <1>11, <1>13, <1>15, <1>17, <1>18, <1>19, <1>20, <1>22

\* The second message of a SET: no request is in the socket yet.
LEMMA ReceiveValueKeeps ==
  ASSUME ReactorInv, NEW l \in EventLoops, l # Main, NEW c \in Conns, ReceiveValue(l, c)
  PROVE  ReactorInv'
PROOF
  <1> USE DEF ReactorInv
  <1>1. /\ at[l][1] = "receiving" /\ at[l][2] = c /\ unread[c] # <<>> /\ Move(l, "answering", c)
        /\ unread' = unread \/ unread' = [unread EXCEPT ![c] = Tail(@)]
        /\ UNCHANGED <<backlog, watched, ready, inEpoll, spare, fd, merged, batch, stage, client,
                       ended>>
    BY DEF ReceiveValue, IsAt, handled
  <1>2. l \in Subloops
    BY MainIsApart
  <1>3. NoRequest(unread[c]) /\ client[c] \notin {"away", "connecting", "ready", "early"}
    BY <1>1, <1>2 DEF ProtocolInv
  <1>4. unread \in [Conns -> Seq(Messages)]
    BY DEF ReactorTypeOK
  <1>5. /\ Tail(unread[c]) \in Seq(Messages) /\ NoRequest(Tail(unread[c]))
    <2>1. \A i, j \in DOMAIN unread[c] :
             unread[c][i] \in Requests /\ unread[c][j] \in Requests => i = j
      BY DEF ProtocolInv
    <2>2. unread[c] \in Seq(Messages)
      BY <1>4
    <2> QED BY <2>1, <2>2, <1>1, <1>3, TailRequests
  <1>6. /\ unread' \in [Conns -> Seq(Messages)] /\ NoRequest(unread'[c])
        /\ \A y \in Conns : y # c => unread'[y] = unread[y]
    BY <1>1, <1>3, <1>4, <1>5
  <1>7. /\ at' \in [EventLoops -> Places \X (Conns \cup {None})]
        /\ at'[l][1] = "answering" /\ at'[l][2] = c
        /\ \A m \in EventLoops : m # l => at'[m] = at[m]
    BY <1>1, MoveTo DEF Places
  <1>8. ReactorTypeOK'
    BY <1>1, <1>6, <1>7 DEF ReactorTypeOK
  <1>9. \A m \in EventLoops : \A y \in Conns : Held(m, y)' <=> Held(m, y)
    BY <1>1, <1>7 DEF Held
  <1>10. HeldInv'
    BY <1>1, <1>9 DEF HeldInv, LoopOfConn
  <1>11. at'[Main] = at[Main]
    BY <1>7, MainIsApart
  <1>12. MainInv'
    BY <1>1, <1>9, <1>11 DEF MainInv
  <1>13. \A y \in Conns : Adding(y)' <=> Adding(y)
    BY <1>11 DEF Adding
  <1>14. StageInv'
    BY <1>1, <1>11, <1>13 DEF StageInv, LoopOfConn
  <1>15. LoopInv'
    BY <1>1, <1>7, MainIsApart DEF LoopInv
  <1>16. BacklogInv'
    BY <1>1 DEF BacklogInv
  <1>17. ProtocolInv'
    <2>1. ASSUME NEW y \in Conns
          PROVE  /\ \A i, j \in DOMAIN unread'[y] :
                      unread'[y][i] \in Requests /\ unread'[y][j] \in Requests => i = j
                 /\ client[y] \in {"away", "connecting", "ready", "early"} => NoRequest(unread'[y])
      <3>1. CASE y = c
        BY <3>1, <1>6 DEF NoRequest
      <3>2. CASE y # c
        BY <3>2, <1>6 DEF ProtocolInv
      <3> QED BY <3>1, <3>2
    <2>2. ASSUME NEW m \in Subloops, NEW y \in Conns,
                 at'[m][1] \in {"receiving", "answering"}, at'[m][2] = y
          PROVE  NoRequest(unread'[y]) /\ client[y] \notin {"away", "connecting", "ready", "early"}
      <3>1. CASE y = c
        BY <3>1, <1>3, <1>6
      <3>2. CASE y # c
        <4>1. at'[m] = at[m]
          BY <2>2, <3>2, <1>7, MainIsApart
        <4> QED BY <4>1, <3>2, <2>2, <1>6 DEF ProtocolInv
      <3> QED BY <3>1, <3>2
    <2> QED BY <1>1, <2>1, <2>2 DEF ProtocolInv, NoRequest
  <1>18. ASSUME NEW y \in Conns, stage[y] = "callable", ~Adding(y), unread'[y] # <<>>,
                Head(unread'[y]) \in Requests
         PROVE  \/ y \in ready[LoopOfConn(y)]
                \/ y \in batch[LoopOfConn(y)] /\ at'[LoopOfConn(y)][2] # y
                \/ at'[LoopOfConn(y)][1] = "dead"
    <2>1. y # c
      <3>1. y = c => Head(unread'[c]) = unread'[c][1] /\ 1 \in DOMAIN unread'[c]
        BY <1>6, <1>18
      <3> QED BY <3>1, <1>6, <1>18 DEF NoRequest
    <2>2. LoopOfConn(y) \in EventLoops
      BY <1>18, LoopIsSubloop, MainIsApart DEF StageInv
    <2>3. \/ y \in ready[LoopOfConn(y)]
          \/ y \in batch[LoopOfConn(y)] /\ at[LoopOfConn(y)][2] # y
          \/ at[LoopOfConn(y)][1] = "dead"
      BY <2>1, <1>6, <1>18 DEF PendingInv
    <2> QED BY <2>1, <2>2, <2>3, <1>1, <1>7
  <1>19. PendingInv'
    BY <1>1, <1>13, <1>18 DEF PendingInv, LoopOfConn
  <1> QED BY <1>8, <1>10, <1>12, <1>14, <1>15, <1>16, <1>17, <1>19

\* The client is answered, and may go on while its channel is handled.
LEMMA AnswerKeeps ==
  ASSUME ReactorInv, NEW l \in EventLoops, l # Main, NEW c \in Conns, Answer(l, c)
  PROVE  ReactorInv'
PROOF
  <1> USE DEF ReactorInv
  <1>1. /\ at[l][1] = "answering" /\ at[l][2] = c /\ Move(l, "rearming", c)
        /\ UNCHANGED <<backlog, watched, ready, inEpoll, spare, fd, merged, unread, batch, stage,
                       ended>>
    BY DEF Answer, IsAt, handled
  <1>2. l \in Subloops
    BY MainIsApart
  <1>3. NoRequest(unread[c]) /\ client[c] \notin {"away", "connecting", "ready", "early"}
    BY <1>1, <1>2 DEF ProtocolInv
  <1>4. client \in [Conns -> ClientStates]
    BY DEF ReactorTypeOK, ClientStates
  <1>5. PICK st \in ClientStates \ {"away"} : client' = [client EXCEPT ![c] = st]
    BY <1>3, <1>4 DEF Answer, Tell, ClientStates
  <1>6. /\ client' \in [Conns -> ClientStates] /\ client'[c] # "away"
        /\ \A y \in Conns : y # c => client'[y] = client[y]
    BY <1>4, <1>5
  <1>7. /\ at' \in [EventLoops -> Places \X (Conns \cup {None})]
        /\ at'[l][1] = "rearming" /\ at'[l][2] = c
        /\ \A m \in EventLoops : m # l => at'[m] = at[m]
    BY <1>1, MoveTo DEF Places
  <1>8. ReactorTypeOK'
    BY <1>1, <1>6, <1>7 DEF ReactorTypeOK, ClientStates
  <1>9. \A m \in EventLoops : \A y \in Conns : Held(m, y)' <=> Held(m, y)
    BY <1>1, <1>7 DEF Held
  <1>10. HeldInv'
    BY <1>1, <1>9 DEF HeldInv, LoopOfConn
  <1>11. at'[Main] = at[Main]
    BY <1>7, MainIsApart
  <1>12. MainInv'
    BY <1>1, <1>9, <1>11 DEF MainInv
  <1>13. \A y \in Conns : Adding(y)' <=> Adding(y)
    BY <1>11 DEF Adding
  <1>14. StageInv'
    BY <1>1, <1>6, <1>11, <1>13 DEF StageInv, LoopOfConn
  <1>15. LoopInv'
    BY <1>1, <1>7, MainIsApart DEF LoopInv
  <1>16. BacklogInv'
    <2>1. \A i \in DOMAIN backlog : backlog[i] \in Conns
      BY DEF ReactorTypeOK
    <2> QED BY <1>1, <1>6, <2>1 DEF BacklogInv
  <1>17. ProtocolInv'
    <2>1. ASSUME NEW m \in Subloops, NEW y \in Conns,
                 at'[m][1] \in {"receiving", "answering"}, at'[m][2] = y
          PROVE  NoRequest(unread[y]) /\ client'[y] \notin {"away", "connecting", "ready", "early"}
      <3>1. m # l
        BY <2>1, <1>7
      <3>2. at'[m] = at[m]
        BY <3>1, <1>7, MainIsApart
      <3>3. m = LoopOfConn(y) /\ l = LoopOfConn(c)
        BY <3>2, <2>1, <1>1, <1>2, MainIsApart DEF HeldInv, Held
      <3> QED BY <3>1, <3>2, <3>3, <2>1, <1>6 DEF ProtocolInv
    <2>2. \A y \in Conns :
             client'[y] \in {"away", "connecting", "ready", "early"} => NoRequest(unread[y])
      BY <1>3, <1>6 DEF ProtocolInv
    <2> QED BY <1>1, <2>1, <2>2 DEF ProtocolInv, NoRequest
  <1>18. \A y \in Conns : stage[y] = "callable" => LoopOfConn(y) \in EventLoops
    BY LoopIsSubloop, MainIsApart DEF StageInv
  <1>19. PendingInv'
    <2>1. \A m \in EventLoops : at'[m][2] = at[m][2] /\ (at[m][1] = "dead" => at'[m][1] = "dead")
      BY <1>1, <1>7
    <2> QED BY <1>1, <1>13, <1>18, <2>1 DEF PendingInv, LoopOfConn
  <1> QED BY <1>8, <1>10, <1>12, <1>14, <1>15, <1>16, <1>17, <1>19

\* The channel is given back to epoll: whatever the flag says, a request that
\* came meanwhile has left its edge in the list.
LEMMA RearmKeeps ==
  ASSUME ReactorInv, NEW l \in EventLoops, l # Main, NEW c \in Conns, Rearm(l, c)
  PROVE  ReactorInv'
PROOF
  <1> USE DEF ReactorInv
  <1>1. /\ at[l][1] = "rearming" /\ at[l][2] = c /\ Move(l, "polling", None)
        /\ UpdateChannel(c) /\ Handled(l, c) /\ inEpoll' = [inEpoll EXCEPT ![c] = TRUE]
        /\ UNCHANGED <<backlog, unread, stage, spare, fd, client, ended, merged>>
    BY DEF Rearm, IsAt
  <1>2. c \in batch[l]
    BY <1>1, MainIsApart DEF LoopInv
  <1>3. /\ l \in Subloops /\ l = LoopOfConn(c) /\ stage[c] = "callable" /\ ~Adding(c)
        /\ c \in Channels
    BY <1>2, InBatch, MainIsApart
  <1>4. /\ watched \in [EventLoops -> SUBSET Channels] /\ ready \in [EventLoops -> SUBSET Channels]
        /\ batch \in [EventLoops -> SUBSET Channels] /\ inEpoll \in [Conns -> BOOLEAN]
    BY DEF ReactorTypeOK
  <1>5. /\ watched' = watched \/ watched' = [watched EXCEPT ![l] = @ \cup {c}]
        /\ ready' = ready \/ ready' = [ready EXCEPT ![l] = @ \cup {c}]
    BY <1>1, <1>3 DEF UpdateChannel, Control
  <1>6. /\ watched' \in [EventLoops -> SUBSET Channels]
        /\ \A m \in EventLoops : \A y \in Channels :
             /\ y \in watched'[m] => y \in watched[m] \/ (m = l /\ y = c)
             /\ y \in watched[m] => y \in watched'[m]
    BY <1>3, <1>4, <1>5
  <1>7. /\ ready' \in [EventLoops -> SUBSET Channels]
        /\ \A m \in EventLoops : \A y \in Channels :
             /\ y \in ready'[m] => y \in ready[m] \/ (m = l /\ y = c)
             /\ y \in ready[m] => y \in ready'[m]
    BY <1>3, <1>4, <1>5
  <1>8. /\ batch' \in [EventLoops -> SUBSET Channels]
        /\ \A m \in EventLoops : \A y \in Channels :
             y \in batch'[m] <=> y \in batch[m] /\ ~(m = l /\ y = c)
    BY <1>1, <1>4 DEF Handled
  <1>9. inEpoll' \in [Conns -> BOOLEAN] /\ \A y \in Conns : y # c => inEpoll'[y] = inEpoll[y]
    BY <1>1, <1>4
  <1>10. /\ at' \in [EventLoops -> Places \X (Conns \cup {None})]
         /\ at'[l][1] = "polling" /\ at'[l][2] = None
         /\ \A m \in EventLoops : m # l => at'[m] = at[m]
    BY <1>1, MoveTo DEF Places
  <1>11. ReactorTypeOK'
    BY <1>1, <1>6, <1>7, <1>8, <1>9, <1>10 DEF ReactorTypeOK
  <1>12. \A m \in EventLoops : \A y \in Conns : Held(m, y)' => Held(m, y) \/ (m = l /\ y = c)
    BY <1>6, <1>7, <1>8, <1>10, MainIsApart, ReactorAssumption DEF Held
  <1>13. HeldInv'
    BY <1>1, <1>3, <1>12 DEF HeldInv, LoopOfConn
  <1>14. at'[Main] = at[Main]
    BY <1>10, MainIsApart
  <1>15. \A y \in Conns : Adding(y)' <=> Adding(y)
    BY <1>14 DEF Adding
  <1>16. MainInv'
    <2>1. at[Main][1] = "adding" => at[Main][2] # c
      BY <1>3 DEF Adding
    <2> QED BY <1>1, <1>9, <1>12, <1>14, <2>1 DEF MainInv
  <1>17. \A y \in Conns : LoopOfConn(y)' = LoopOfConn(y)
                          /\ (stage[y] = "callable" => LoopOfConn(y) \in EventLoops)
    BY <1>1, LoopStays, MainIsApart
  <1>18. StageInv'
    <2>1. ASSUME NEW y \in Conns
          PROVE  stage[y] = "callable" => y \in watched'[LoopOfConn(y)] \/ Adding(y)
      BY <1>6, <1>17, MainIsApart DEF StageInv
    <2> QED BY <1>1, <1>3, <1>9, <1>14, <1>15, <1>17, <2>1 DEF StageInv
  <1>19. LoopInv'
    <2>1. ASSUME NEW m \in Subloops, m # l, at[m][2] \in Conns, at[m][2] \in batch[m]
          PROVE  at[m][2] \in batch'[m]
      BY <2>1, <1>8, MainIsApart
    <2> QED BY <1>10, <2>1, MainIsApart DEF LoopInv
  <1>20. BacklogInv'
    BY <1>1 DEF BacklogInv
  <1>21. ProtocolInv'
    BY <1>1, <1>10, MainIsApart DEF ProtocolInv, NoRequest
  <1>22. ASSUME NEW y \in Conns, stage[y] = "callable", ~Adding(y), unread[y] # <<>>,
                Head(unread[y]) \in Requests
         PROVE  \/ y \in ready'[LoopOfConn(y)]
                \/ y \in batch'[LoopOfConn(y)] /\ at'[LoopOfConn(y)][2] # y
                \/ at'[LoopOfConn(y)][1] = "dead"
    <2>1. \/ y \in ready[LoopOfConn(y)]
          \/ y \in batch[LoopOfConn(y)] /\ at[LoopOfConn(y)][2] # y
          \/ at[LoopOfConn(y)][1] = "dead"
      BY <1>22 DEF PendingInv
    <2>2. CASE y = c
      BY <2>1, <2>2, <1>1, <1>3, <1>7
    <2>3. CASE y # c
      BY <2>1, <2>3, <1>1, <1>7, <1>8, <1>10, <1>17, <1>22, MainIsApart, ReactorAssumption
    <2> QED BY <2>2, <2>3
  <1>23. PendingInv'
    BY <1>1, <1>15, <1>17, <1>22 DEF PendingInv
  <1> QED BY <1>11, <1>13, <1>16, <1>18, <1>19, <1>20, <1>21, <1>23

\* The channel is gone from everywhere before its descriptor can be another's.
LEMMA CloseConnKeeps ==
  ASSUME ReactorInv, NEW l \in EventLoops, l # Main, NEW c \in Conns, CloseConn(l, c)
  PROVE  ReactorInv'
PROOF
  <1> USE DEF ReactorInv
  <1>1. /\ at[l][1] = "closing" /\ at[l][2] = c /\ Move(l, "polling", None) /\ Handled(l, c)
        /\ watched' = [watched EXCEPT ![l] = @ \ {c}]
        /\ ready' = [ready EXCEPT ![l] = @ \ {c}]
        /\ stage' = [stage EXCEPT ![c] = "closed"] /\ unread' = [unread EXCEPT ![c] = <<>>]
        /\ fd' = [fd EXCEPT ![c] = None] /\ client' = [client EXCEPT ![c] = "gone"]
        /\ UNCHANGED <<backlog, inEpoll, spare, ended, merged>>
    BY DEF CloseConn, IsAt, Tell
  <1>2. c \in batch[l]
    BY <1>1, MainIsApart DEF LoopInv
  <1>3. /\ l \in Subloops /\ l = LoopOfConn(c) /\ stage[c] = "callable" /\ ~Adding(c)
        /\ c \in Channels /\ \A m \in EventLoops : m # l => ~Held(m, c)
    BY <1>2, InBatch, MainIsApart
  <1>4. /\ watched \in [EventLoops -> SUBSET Channels] /\ ready \in [EventLoops -> SUBSET Channels]
        /\ batch \in [EventLoops -> SUBSET Channels] /\ fd \in [Conns -> spare \cup {None}]
        /\ stage \in [Conns -> {"none", "made", "callable", "closed"}]
        /\ client \in [Conns -> ClientStates] /\ unread \in [Conns -> Seq(Messages)]
    BY DEF ReactorTypeOK, ClientStates
  <1>5. /\ watched' \in [EventLoops -> SUBSET Channels] /\ ready' \in [EventLoops -> SUBSET Channels]
        /\ batch' \in [EventLoops -> SUBSET Channels]
        /\ \A m \in EventLoops : \A y \in Channels :
             /\ y \in watched'[m] <=> y \in watched[m] /\ ~(m = l /\ y = c)
             /\ y \in ready'[m] <=> y \in ready[m] /\ ~(m = l /\ y = c)
             /\ y \in batch'[m] <=> y \in batch[m] /\ ~(m = l /\ y = c)
    BY <1>1, <1>4 DEF Handled
  <1>6. /\ fd' \in [Conns -> spare \cup {None}] /\ client' \in [Conns -> ClientStates]
        /\ stage' \in [Conns -> {"none", "made", "callable", "closed"}]
        /\ unread' \in [Conns -> Seq(Messages)]
    BY <1>1, <1>4 DEF ClientStates
  <1>7. /\ fd'[c] = None /\ client'[c] = "gone" /\ stage'[c] = "closed" /\ unread'[c] = <<>>
        /\ \A y \in Conns : y # c => /\ fd'[y] = fd[y] /\ client'[y] = client[y]
                                     /\ stage'[y] = stage[y] /\ unread'[y] = unread[y]
                                     /\ LoopOfConn(y)' = LoopOfConn(y)
    BY <1>1, <1>4 DEF LoopOfConn
  <1>8. /\ at' \in [EventLoops -> Places \X (Conns \cup {None})]
        /\ at'[l][1] = "polling" /\ at'[l][2] = None
        /\ \A m \in EventLoops : m # l => at'[m] = at[m]
    BY <1>1, MoveTo DEF Places
  <1>9. ReactorTypeOK'
    BY <1>1, <1>5, <1>6, <1>8 DEF ReactorTypeOK, ClientStates
  <1>10. \A m \in EventLoops : \A y \in Conns : Held(m, y)' => Held(m, y) /\ ~(m = l /\ y = c)
    BY <1>5, <1>8, MainIsApart, ReactorAssumption DEF Held
  <1>11. \A m \in EventLoops : ~Held(m, c)'
    BY <1>3, <1>10
  <1>12. HeldInv'
    BY <1>7, <1>10, <1>11 DEF HeldInv
  <1>13. at'[Main] = at[Main]
    BY <1>8, MainIsApart
  <1>14. \A y \in Conns : Adding(y)' <=> Adding(y)
    BY <1>13 DEF Adding
  <1>15. MainInv'
    <2>1. at[Main][2] = c => at[Main][1] # "callback" /\ at[Main][1] # "adding"
      BY <1>3, ReactorAssumption DEF MainInv, Adding
    <2> QED BY <1>1, <1>7, <1>10, <1>13, <2>1 DEF MainInv
  <1>16. \A y \in Conns : stage[y] = "callable" => LoopOfConn(y) \in EventLoops
    BY LoopIsSubloop, MainIsApart DEF StageInv
  <1>17. StageInv'
    <2>1. ASSUME NEW y \in Conns, stage'[y] = "callable"
          PROVE  y \in watched'[LoopOfConn(y)'] \/ Adding(y)'
      <3>1. y # c /\ stage[y] = "callable"
        BY <2>1, <1>7
      <3> QED BY <3>1, <1>5, <1>7, <1>14, <1>16, MainIsApart DEF StageInv
    <2> QED BY <1>1, <1>3, <1>7, <1>13, <2>1 DEF StageInv
  <1>18. LoopInv'
    <2>1. ASSUME NEW m \in Subloops, m # l, at[m][2] \in Conns, at[m][2] \in batch[m]
          PROVE  at[m][2] \in batch'[m]
      BY <2>1, <1>5, MainIsApart
    <2> QED BY <1>8, <2>1, MainIsApart DEF LoopInv
  <1>19. BacklogInv'
    <2>1. \A i \in DOMAIN backlog : backlog[i] \in Conns
      BY DEF ReactorTypeOK
    <2>2. \A i \in DOMAIN backlog : backlog[i] # c
      BY <1>3 DEF BacklogInv
    <2> QED BY <1>1, <1>7, <2>1, <2>2 DEF BacklogInv
  <1>20. ProtocolInv'
    <2>1. ASSUME NEW m \in Subloops, NEW y \in Conns,
                 at'[m][1] \in {"receiving", "answering"}, at'[m][2] = y
          PROVE  y # c /\ at'[m] = at[m]
      <3>1. m # l
        BY <2>1, <1>8
      <3>2. at'[m] = at[m] /\ m # Main /\ m \in EventLoops
        BY <3>1, <1>8, MainIsApart
      <3>3. Held(m, y)
        BY <3>2, <2>1 DEF Held
      <3> QED BY <3>1, <3>2, <3>3, <1>3
    <2>2. /\ NoRequest(unread'[c])
          /\ \A i, j \in DOMAIN unread'[c] : FALSE
      BY <1>7 DEF NoRequest
    <2> QED BY <1>7, <2>1, <2>2 DEF ProtocolInv, NoRequest
  <1>21. ASSUME NEW y \in Conns, stage'[y] = "callable", ~Adding(y), unread'[y] # <<>>,
                Head(unread'[y]) \in Requests
         PROVE  \/ y \in ready'[LoopOfConn(y)']
                \/ y \in batch'[LoopOfConn(y)'] /\ at'[LoopOfConn(y)'][2] # y
                \/ at'[LoopOfConn(y)'][1] = "dead"
    <2>1. /\ y # c /\ stage[y] = "callable" /\ unread'[y] = unread[y]
          /\ LoopOfConn(y)' = LoopOfConn(y)
      BY <1>7, <1>21
    <2>2. \/ y \in ready[LoopOfConn(y)]
          \/ y \in batch[LoopOfConn(y)] /\ at[LoopOfConn(y)][2] # y
          \/ at[LoopOfConn(y)][1] = "dead"
      BY <2>1, <1>21 DEF PendingInv
    <2> QED BY <2>1, <2>2, <1>1, <1>5, <1>8, <1>16, MainIsApart, ReactorAssumption
  <1>22. PendingInv'
    BY <1>14, <1>21 DEF PendingInv
  <1> QED BY <1>9, <1>12, <1>15, <1>17, <1>18, <1>19, <1>20, <1>22

-----------------------------------------------------------------------------
(* The theorems.                                                           *)

LEMMA InitHolds ==
  ASSUME ReactorInit
  PROVE  ReactorInv
PROOF
  <1>1. ReactorTypeOK
    <2>1. backlog \in Seq(Conns) /\ unread \in [Conns -> Seq(Messages)]
      BY DEF ReactorInit
    <2>2. /\ watched \in [EventLoops -> SUBSET Channels] /\ ready \in [EventLoops -> SUBSET Channels]
          /\ batch \in [EventLoops -> SUBSET Channels]
      BY MainIsApart DEF ReactorInit
    <2>3. at \in [EventLoops -> Places \X (Conns \cup {None})]
      BY DEF ReactorInit, Places
    <2>4. /\ stage \in [Conns -> {"none", "made", "callable", "closed"}]
          /\ inEpoll \in [Conns -> BOOLEAN] /\ spare \subseteq Fds
          /\ fd \in [Conns -> spare \cup {None}]
      BY DEF ReactorInit
    <2>5. client \in [Conns -> ClientStates] /\ ended \in {"no"} /\ merged \in BOOLEAN
      BY DEF ReactorInit, ClientStates
    <2> QED BY <2>1, <2>2, <2>3, <2>4, <2>5 DEF ReactorTypeOK, ClientStates
  <1>2. \A l \in EventLoops : \A c \in Conns : ~Held(l, c)
    BY ReactorAssumption DEF ReactorInit, Held
  <1>3. at[Main] = <<"off", None>> /\ \A l \in Subloops : at[l] = <<"off", None>>
    BY MainIsApart DEF ReactorInit
  <1>4. /\ backlog = <<>>
        /\ \A c \in Conns : /\ unread[c] = <<>> /\ stage[c] = "none" /\ ~inEpoll[c]
                            /\ fd[c] = None
    BY DEF ReactorInit
  <1>5. HeldInv /\ MainInv /\ StageInv /\ LoopInv /\ BacklogInv
    BY <1>2, <1>3, <1>4 DEF HeldInv, MainInv, StageInv, LoopInv, BacklogInv
  <1>6. ProtocolInv /\ PendingInv
    BY <1>3, <1>4 DEF ProtocolInv, PendingInv, NoRequest
  <1> QED BY <1>1, <1>5, <1>6 DEF ReactorInv

LEMMA NextKeeps ==
  ASSUME ReactorInv, [ReactorNext]_revars
  PROVE  ReactorInv'
PROOF
  <1>1. ASSUME NEW c \in Conns, ClientStep(c)
        PROVE  ReactorInv'
    BY <1>1, ClientKeeps
  <1>2. ASSUME NEW l \in EventLoops, ThreadStep(l)
        PROVE  ReactorInv'
    <2>1. CASE StartLoop(l)
      BY <2>1, StartLoopKeeps
    <2>2. CASE Poll(l)
      BY <2>2, PollKeeps
    <2>3. CASE l = Main /\ MainStep
      BY <2>3, MainKeeps
    <2>4. ASSUME l # Main, NEW c \in Conns, SubStep(l, c)
          PROVE  ReactorInv'
      BY <2>4, ReceiveKeeps, ReceiveValueKeeps, AnswerKeeps, RearmKeeps, CloseConnKeeps DEF SubStep
    <2> QED BY <1>2, <2>1, <2>2, <2>3, <2>4 DEF ThreadStep
  <1>3. CASE UNCHANGED revars
    BY <1>3 DEF revars, ReactorInv, ReactorTypeOK, HeldInv, Held, MainInv, StageInv, LoopInv,
                BacklogInv, ProtocolInv, NoRequest, PendingInv, Adding, LoopOfConn
  <1> QED BY <1>1, <1>2, <1>3 DEF ReactorNext

LEMMA Invariance == ReactorSpec => []ReactorInv
PROOF
  <1>1. ReactorInit => ReactorInv
    BY InitHolds
  <1>2. ReactorInv /\ [ReactorNext]_revars => ReactorInv'
    BY NextKeeps
  <1> QED BY <1>1, <1>2, PTL DEF ReactorSpec

\* The variables keep their types: a descriptor is one the process has, and
\* what a loop watches, lists and handles are channels.
THEOREM ReactorIsTyped == ReactorSpec => []ReactorTypeOK
PROOF
  <1>1. ReactorInv => ReactorTypeOK
    BY DEF ReactorInv
  <1> QED BY <1>1, Invariance, PTL

\* A client's channel is in the hands of one loop only, of none once it is
\* closed, and of none that would find no callback (README.md:204, server.cpp:73-76).
THEOREM OneLoopHandlesAClient == ReactorSpec => []OneThread
PROOF
  <1>1. ASSUME ReactorInv
        PROVE  OneThread
    <2>1. ASSUME NEW c \in Conns
          PROVE  LET holders == {l \in EventLoops :
                                   \/ c \in watched[l] \cup ready[l] \cup batch[l]
                                   \/ l # Main /\ at[l][2] = c}
                 IN  /\ Cardinality(holders) <= 1
                     /\ stage[c] = "closed" => holders = {}
                     /\ \A l \in Subloops : c \in batch[l] => stage[c] = "callable"
      <3> DEFINE holders == {l \in EventLoops : Held(l, c)}
      <3>1. holders \subseteq {LoopOfConn(c)} /\ (holders # {} => stage[c] = "callable")
        BY <1>1 DEF ReactorInv, HeldInv
      <3>2. Cardinality(holders) <= 1
        <4>1. IsFiniteSet({LoopOfConn(c)}) /\ Cardinality({LoopOfConn(c)}) = 1
          BY FS_Singleton
        <4>2. Cardinality(holders) <= Cardinality({LoopOfConn(c)})
          BY <3>1, <4>1, FS_Subset
        <4> QED BY <4>1, <4>2
      <3>3. \A l \in Subloops : c \in batch[l] => stage[c] = "callable"
        BY <1>1, MainIsApart DEF ReactorInv, HeldInv, Held
      <3>4. holders = {l \in EventLoops : \/ c \in watched[l] \cup ready[l] \cup batch[l]
                                          \/ l # Main /\ at[l][2] = c}
        BY DEF Held
      <3> HIDE DEF holders
      <3> QED BY <3>1, <3>2, <3>3, <3>4
    <2> QED BY <2>1 DEF OneThread
  <1> QED BY <1>1, Invariance, PTL

\* No request is lost between the threads: once its client's channel is
\* registered, it is in epoll's list or in the hands of the loop, or the loop
\* is dead.
THEOREM RequestsAreNotForgotten == ReactorSpec => []NoRequestForgotten
PROOF
  <1>1. ASSUME ReactorInv
        PROVE  NoRequestForgotten
    <2>1. ASSUME NEW c \in Conns, stage[c] = "callable", at[Main][2] # c, unread[c] # <<>>,
                 Head(unread[c]) \in Requests
          PROVE  /\ LoopOfConn(c) \in Subloops
                 /\ \/ c \in ready[LoopOfConn(c)] \cup batch[LoopOfConn(c)]
                    \/ at[LoopOfConn(c)][1] = "dead"
      <3>1. LoopOfConn(c) \in Subloops
        BY <1>1, <2>1, LoopIsSubloop DEF ReactorInv, StageInv
      <3> QED BY <1>1, <2>1, <3>1 DEF ReactorInv, PendingInv, Adding
    <2> QED BY <2>1 DEF NoRequestForgotten, Requests
  <1> QED BY <1>1, Invariance, PTL

=============================================================================
