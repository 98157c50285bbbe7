----------------------------- MODULE ServerProofs -----------------------------
(***************************************************************************)
(* Theorems about Server, for every set of descriptors, loops, users and   *)
(* variables.                                                              *)
(***************************************************************************)
EXTENDS Server, SequenceTheorems, TLAPS

Database == [user : Users, open : BOOLEAN, map : Map]

\* A loop that wants bytes is inside the SET of a connection whose database it
\* has, and does nothing else until it has them.
ReceivingInv ==
  \A l \in Loops : wanted[l] # None =>
    /\ loop[l] = "receiving"
    /\ LET fd == wanted[l][1] IN LoopOf(fd) = l /\ chan[fd] = "task" /\ Db(fd) # None

\* An entry leads to a database of the user it is for, shared or not.
EntriesInv ==
  /\ \A fd \in Fds : chan[fd] = "task" => name[fd] \in Users
  /\ \A l \in Loops, u \in Users : memKV[l][u] # None => dbs[memKV[l][u]].user = u

\* Routed is not inductive: a QUIT of one of two connections of a user would
\* close the database of both.  There is one connection for each user who
\* never had two databases open.
OneConnection ==
  \A f, g \in Fds : /\ chan[f] = "task" /\ chan[g] = "task"
                    /\ name[f] = name[g] /\ name[f] \notin shared
                    => f = g

\* A connection without a login belongs to no user and changes nothing, and
\* whoever has bytes to send has asked for a SET.
RequestsInv ==
  \A fd \in Fds :
    /\ chan[fd] # "task" => name[fd] = None /\ request[fd] = None
    /\ client[fd] \in {"sending", "early"} => request[fd] # None /\ request[fd].value \in Bytes

ServerInv ==
  /\ ServerTypeOK /\ dbs \in Seq(Database)
  /\ ReceivingInv /\ EntriesInv /\ RequestsInv
  /\ OneConnection /\ Routed

-----------------------------------------------------------------------------
(* Loops, messages and inboxes.                                            *)

LEMMA LoopType ==
  ASSUME NEW fd \in Fds
  PROVE  LoopOf(fd) \in Loops
<1>1. fd \in Nat /\ NumLoops \in Nat \ {0}
  BY FdsAssumption
<1>2. fd % NumLoops \in 0..(NumLoops - 1)
  BY <1>1
<1> QED BY <1>2 DEF LoopOf, Loops

LEMMA MessageFields ==
  ASSUME NEW m \in Message
  PROVE  /\ m.op \in {"NEW", "GET", "SET", "DES"} => m.var \in Vars
         /\ m.op = "LOGIN" => m.user \in Users \cup {None}
         /\ m.op = "BYTES" => m.bytes \in Bytes
BY DEF Message

LEMMA HeadType ==
  ASSUME ServerTypeOK, NEW fd \in Fds, inbox[fd] # <<>>
  PROVE  Head(inbox[fd]) \in Message
BY DEF ServerTypeOK

LEMMA ReadsType ==
  ASSUME ServerTypeOK, NEW fd \in Fds, inbox[fd] # <<>>, Reads(fd)
  PROVE  inbox' \in [Fds -> Seq(Message)]
<1>1. Tail(inbox[fd]) \in Seq(Message)
  BY DEF ServerTypeOK
<1> QED BY <1>1 DEF ServerTypeOK, Reads

LEMMA SaysType ==
  ASSUME ServerTypeOK, NEW fd \in Fds, NEW m \in Message, Says(fd, m)
  PROVE  inbox' \in [Fds -> Seq(Message)]
<1>1. Append(inbox[fd], m) \in Seq(Message)
  BY DEF ServerTypeOK
<1> QED BY <1>1 DEF ServerTypeOK, Says

LEMMA ClientType ==
  ASSUME ServerTypeOK, NEW fd \in Fds,
         NEW to \in {"off", "ready", "awaiting", "sending", "early", "gone"}, Client(fd, to)
  PROVE  client' \in [Fds -> {"off", "ready", "awaiting", "sending", "early", "gone"}]
BY DEF ServerTypeOK, Client

\* What an OK does to what clients were told.
Told(fd) ==
  /\ truth' \in [Users -> Map] /\ request' \in [Fds -> Change \cup {None}]
  /\ \A f \in Fds : f # fd => request'[f] = request[f]
  /\ request'[fd] \in {request[fd], None}
  /\ \A u \in Users : u # name[fd] => truth'[u] = truth[u]
  /\ request[fd] = None => truth' = truth

LEMMA AcknowledgedFacts ==
  ASSUME ServerTypeOK, EntriesInv, RequestsInv, NEW fd \in Fds, Acknowledged(fd)
  PROVE  Told(fd)
<1>1. request' \in [Fds -> Change \cup {None}] /\ request'[fd] = None
  BY DEF ServerTypeOK, Acknowledged
<1>2. \A f \in Fds : f # fd => request'[f] = request[f]
  BY DEF ServerTypeOK, Acknowledged
<1>3. CASE request[fd] = None
  BY <1>1, <1>2, <1>3 DEF ServerTypeOK, Acknowledged, Told
<1>4. CASE request[fd] # None
  <2>1. PICK u, v, x : u = name[fd] /\ v = request[fd].var /\ x = request[fd].value
    OBVIOUS
  <2>2. u \in Users /\ v \in Vars /\ x \in Bytes \cup {Fresh, Absent}
    BY <1>4, <2>1 DEF ServerTypeOK, EntriesInv, RequestsInv, Change
  <2>3. truth' = [truth EXCEPT ![u] = [truth[u] EXCEPT ![v] = x]]
    BY <1>4, <2>1 DEF Acknowledged
  <2>4. truth \in [Users -> Map] /\ [truth[u] EXCEPT ![v] = x] \in Map
    BY <2>2 DEF ServerTypeOK, Map
  <2>5. truth' \in [Users -> Map] /\ \A w \in Users : w # u => truth'[w] = truth[w]
    BY <2>2, <2>3, <2>4
  <2> QED BY <1>1, <1>2, <1>4, <2>1, <2>5 DEF Told
<1> QED BY <1>3, <1>4

LEMMA AnswersFacts ==
  ASSUME ServerTypeOK, EntriesInv, RequestsInv, NEW fd \in Fds, Answers(fd)
  PROVE  /\ client' \in [Fds -> {"off", "ready", "awaiting", "sending", "early", "gone"}]
         /\ Told(fd)
<1>1. client' \in [Fds -> {"off", "ready", "awaiting", "sending", "early", "gone"}]
  BY DEF ServerTypeOK, Answers, Client
<1>2. CASE client[fd] = "awaiting"
  BY <1>1, <1>2, AcknowledgedFacts DEF Answers
<1>3. CASE client[fd] # "awaiting"
  BY <1>1, <1>3 DEF ServerTypeOK, Answers, Told
<1> QED BY <1>2, <1>3

LEMMA MayLoseType ==
  ASSUME ServerTypeOK, NEW fd \in Fds, name[fd] \in Users,
         MayLose(fd) \/ lost' = lost \cup {name[fd]}
  PROVE  lost' \subseteq Users
BY DEF ServerTypeOK, MayLose

-----------------------------------------------------------------------------
(* Steps that leave the databases and who reaches them alone.              *)

LEMMA SameRouting ==
  ASSUME ServerInv, UNCHANGED <<memKV, dbs, shared>>,
         \A fd \in Fds : chan'[fd] = "task" <=> chan[fd] = "task",
         \A fd \in Fds : chan[fd] = "task" => name'[fd] = name[fd]
  PROVE  /\ dbs' \in Seq(Database)
         /\ EntriesInv' /\ OneConnection' /\ Routed'
<1>1. dbs' \in Seq(Database) /\ EntriesInv' /\ OneConnection'
  BY DEF ServerInv, EntriesInv, OneConnection
<1>2. \A u : OpenOf(u)' = OpenOf(u)
  BY DEF OpenOf
<1>3. \A fd \in Fds : chan[fd] = "task" => Db(fd)' = Db(fd)
  BY DEF Db
<1>4. Routed'
  BY <1>2, <1>3 DEF ServerInv, Routed
<1> QED BY <1>1, <1>4

\* The loops go on receiving what they received.
LEMMA SameReceiving ==
  ASSUME ServerInv, UNCHANGED <<loop, wanted, memKV>>,
         \A fd \in Fds : chan[fd] = "task" => chan'[fd] = "task" /\ name'[fd] = name[fd]
  PROVE  ReceivingInv'
<1>1. \A l \in Loops : wanted[l] # None => wanted[l][1] \in Fds
  BY DEF ServerInv, ServerTypeOK
<1> QED BY <1>1 DEF ServerInv, ReceivingInv, Db

\* Requests stay as they are, but where no bytes are due.
LEMMA SameRequests ==
  ASSUME ServerInv, UNCHANGED <<chan, name>>,
         \A fd \in Fds :
           \/ client'[fd] = client[fd] /\ request'[fd] = request[fd]
           \/ client'[fd] \in {"off", "ready", "awaiting", "gone"} /\ request'[fd] \in {request[fd], None}
  PROVE  RequestsInv'
BY DEF ServerInv, RequestsInv

LEMMA AnswersRequests ==
  ASSUME ServerInv, NEW fd \in Fds, Answers(fd), UNCHANGED <<chan, name>>
  PROVE  RequestsInv'
<1>1. Told(fd)
  BY AnswersFacts DEF ServerInv
<1>2. \A f \in Fds : f # fd => request'[f] = request[f] /\ client'[f] = client[f]
  BY <1>1 DEF ServerInv, ServerTypeOK, Answers, Client, Told
<1>3. client[fd] # "awaiting" => request'[fd] = request[fd]
  BY DEF Answers
<1>4. client'[fd] \in {"sending", "early"} => client[fd] \in {"sending", "early"}
  BY DEF ServerInv, ServerTypeOK, Answers, Client
<1>5. request'[fd] \in {request[fd], None}
  BY <1>1 DEF Told
<1> QED BY <1>2, <1>3, <1>4, <1>5 DEF ServerInv, RequestsInv

\* A client does something.
LEMMA ClientKeeps ==
  ASSUME ServerInv, NEW fd \in Fds, Request(fd) \/ SendBytes(fd) \/ Vanish(fd)
  PROVE  ServerInv'
<1> USE DEF ServerInv
<1> DEFINE Fine == /\ inbox' \in [Fds -> Seq(Message)]
                   /\ client' \in [Fds -> {"off", "ready", "awaiting", "sending", "early", "gone"}]
                   /\ truth' \in [Users -> Map] /\ request' \in [Fds -> Change \cup {None}]
                   /\ RequestsInv'
                   /\ UNCHANGED servervars
<1>1. ASSUME NEW op \in {"NEW", "GET", "SET", "DES"}, NEW v \in Vars, Ask(fd, op, v)
      PROVE  Fine
  <2>1. [op |-> op, var |-> v] \in Message
    BY DEF Message
  <2>2. Changes(op, v) \subseteq Change \cup {None}
    BY DEF Changes, Change
  <2>3. /\ request' \in [Fds -> Change \cup {None}] /\ chan[fd] = "task" /\ UNCHANGED <<chan, name, truth>>
        /\ \A f \in Fds : f # fd => request'[f] = request[f]
    BY <1>1, <2>2 DEF Ask, ServerTypeOK, servervars
  <2>4. RequestsInv'
    <3>1. /\ \A f \in Fds : f # fd => client'[f] = client[f]
          /\ client'[fd] = IF op = "SET" THEN "sending" ELSE "awaiting"
      BY <1>1 DEF Ask, Client, ServerTypeOK
    <3>2. op = "SET" => request'[fd] # None /\ request'[fd].value \in Bytes
      BY <1>1, NoneAssumption DEF Ask, Changes, Change, ServerTypeOK
    <3> QED BY <2>3, <3>1, <3>2 DEF RequestsInv
  <2>5. truth' \in [Users -> Map]
    BY <2>3 DEF ServerTypeOK
  <2>6. inbox' \in [Fds -> Seq(Message)]
    BY <1>1, <2>1, SaysType DEF Ask
  <2>7. client' \in [Fds -> {"off", "ready", "awaiting", "sending", "early", "gone"}]
    BY <1>1, ClientType DEF Ask
  <2>8. UNCHANGED servervars
    BY <1>1 DEF Ask
  <2> QED BY <2>3, <2>4, <2>5, <2>6, <2>7, <2>8
<1>2. ASSUME NEW m \in Message, Says(fd, m), UNCHANGED <<servervars, request, truth>>,
             NEW to \in {"awaiting", "gone"}, Client(fd, to)
      PROVE  Fine
  <2>1. RequestsInv'
    BY <1>2, SameRequests DEF servervars, Client, ServerTypeOK
  <2> QED BY <1>2, <2>1, SaysType, ClientType DEF ServerTypeOK
<1>3. ASSUME NEW u \in Users \cup {None}, AskLogin(fd, u)
      PROVE  Fine
  <2>1. [op |-> "LOGIN", user |-> u] \in Message
    BY DEF Message
  <2> QED BY <1>2, <1>3, <2>1 DEF AskLogin
<1>4. ASSUME AskQuit(fd)
      PROVE  Fine
  <2>1. [op |-> "QUIT"] \in Message
    BY DEF Message
  <2> QED BY <1>2, <1>4, <2>1 DEF AskQuit
<1>5. ASSUME Vanish(fd)
      PROVE  Fine
  <2>1. [op |-> "EOF"] \in Message
    BY DEF Message
  <2> QED BY <1>2, <1>5, <2>1 DEF Vanish
<1>6. ASSUME SendBytes(fd)
      PROVE  Fine
  <2>1. client[fd] \in {"sending", "early"} /\ UNCHANGED servervars
    BY <1>6 DEF SendBytes
  <2>2. Told(fd) /\ \A f \in Fds : f # fd => client'[f] = client[f]
    BY <1>6, AcknowledgedFacts DEF SendBytes, Told, ServerTypeOK, Client
  <2>3. client' \in [Fds -> {"off", "ready", "awaiting", "sending", "early", "gone"}]
    BY <1>6, ClientType DEF SendBytes
  <2>4. RequestsInv'
    <3>1. client'[fd] \in {"ready", "awaiting"}
      BY <1>6 DEF SendBytes, Client, ServerTypeOK
    <3> QED BY <2>1, <2>2, <3>1, SameRequests DEF servervars, Told
  <2>5. [op |-> "BYTES", bytes |-> request[fd].value] \in Message
    BY <2>1 DEF RequestsInv, Message
  <2>6. inbox' \in [Fds -> Seq(Message)]
    BY <1>6, <2>5, SaysType DEF SendBytes
  <2> QED BY <2>1, <2>2, <2>3, <2>4, <2>6 DEF Told
<1>7. Fine
  BY <1>1, <1>3, <1>4, <1>5, <1>6 DEF Request
<1>8. ServerTypeOK'
  BY <1>7 DEF servervars, ServerTypeOK
<1>9. ReceivingInv'
  BY <1>7, SameReceiving DEF servervars
<1>10. dbs' \in Seq(Database) /\ EntriesInv' /\ OneConnection' /\ Routed'
  BY <1>7, SameRouting DEF servervars
<1> QED BY <1>7, <1>8, <1>9, <1>10

\* A connection comes, or one that did not log in goes.
LEMMA AcceptKeeps ==
  ASSUME ServerInv, NEW fd \in Fds, Accept(fd)
  PROVE  ServerInv'
<1> USE DEF ServerInv
<1>1. client' \in [Fds -> {"off", "ready", "awaiting", "sending", "early", "gone"}]
  BY ClientType DEF Accept
<1>2. inbox' \in [Fds -> Seq(Message)]
  BY DEF Accept, ServerTypeOK
<1>3. ServerTypeOK'
  BY <1>1, <1>2 DEF Accept, history, ServerTypeOK
<1>4. ReceivingInv'
  BY SameReceiving DEF Accept, ServerTypeOK
<1>5. dbs' \in Seq(Database) /\ EntriesInv' /\ OneConnection' /\ Routed'
  BY SameRouting DEF Accept, history, ServerTypeOK
<1>6. RequestsInv'
  BY DEF Accept, history, Client, ServerTypeOK, RequestsInv
<1> QED BY <1>3, <1>4, <1>5, <1>6

LEMMA CloseChannelType ==
  ASSUME ServerTypeOK, NEW fd \in Fds, CloseChannel(fd)
  PROVE  /\ chan' \in [Fds -> {"none", "login", "task"}] /\ name' \in [Fds -> Users \cup {None}]
         /\ inbox' \in [Fds -> Seq(Message)]
         /\ client' \in [Fds -> {"off", "ready", "awaiting", "sending", "early", "gone"}]
         /\ request' \in [Fds -> Change \cup {None}]
         /\ RequestsInv => RequestsInv'
<1>1. client' \in [Fds -> {"off", "ready", "awaiting", "sending", "early", "gone"}]
  BY ClientType DEF CloseChannel
<1>2. <<>> \in Seq(Message)
  OBVIOUS
<1>3. RequestsInv => RequestsInv'
  <2>1. \A f \in Fds : /\ f # fd => chan'[f] = chan[f] /\ name'[f] = name[f] /\ client'[f] = client[f]
                       /\ f # fd => request'[f] = request[f]
    BY DEF CloseChannel, Client, ServerTypeOK
  <2>2. name'[fd] = None /\ client'[fd] = "off" /\ request'[fd] = None
    BY DEF CloseChannel, Client, ServerTypeOK
  <2> QED BY <2>1, <2>2 DEF RequestsInv
<1> QED BY <1>1, <1>2, <1>3 DEF CloseChannel, ServerTypeOK

LEMMA RefuseLoginKeeps ==
  ASSUME ServerInv, NEW fd \in Fds, RefuseLogin(fd)
  PROVE  ServerInv'
<1> USE DEF ServerInv
<1>1. ServerTypeOK'
  BY CloseChannelType DEF RefuseLogin, ServerTypeOK
<1>2. /\ \A f \in Fds : chan'[f] = "task" <=> chan[f] = "task"
      /\ \A f \in Fds : chan[f] = "task" => name'[f] = name[f]
  BY DEF RefuseLogin, CloseChannel, ServerTypeOK
<1>3. ReceivingInv'
  BY <1>2, SameReceiving DEF RefuseLogin
<1>4. dbs' \in Seq(Database) /\ EntriesInv' /\ OneConnection' /\ Routed'
  BY <1>2, SameRouting DEF RefuseLogin
<1>5. RequestsInv'
  BY CloseChannelType DEF RefuseLogin
<1> QED BY <1>1, <1>3, <1>4, <1>5

\* The database a connection reaches is its user's, shared or not.
LEMMA DbType ==
  ASSUME ServerInv, NEW fd \in Fds, chan[fd] = "task", Db(fd) # None
  PROVE  /\ name[fd] \in Users
         /\ Db(fd) \in DOMAIN dbs /\ dbs[Db(fd)] \in Database
         /\ dbs[Db(fd)].user = name[fd]
<1>1. name[fd] \in Users /\ LoopOf(fd) \in Loops
  BY LoopType DEF ServerInv, EntriesInv
<1>2. Db(fd) \in DOMAIN dbs /\ dbs[Db(fd)].user = name[fd]
  BY <1>1 DEF ServerInv, ServerTypeOK, EntriesInv, Db
<1> QED BY <1>1, <1>2 DEF ServerInv

\* A SET begins.
LEMMA BeginSetKeeps ==
  ASSUME ServerInv, NEW fd \in Fds, BeginSet(fd)
  PROVE  ServerInv'
<1> USE DEF ServerInv
<1> DEFINE l == LoopOf(fd)
           v == Head(inbox[fd]).var
<1>1. l \in Loops /\ v \in Vars
  BY LoopType, HeadType, MessageFields DEF BeginSet, Polls
<1>2. /\ loop' = [loop EXCEPT ![l] = "receiving"] /\ wanted' = [wanted EXCEPT ![l] = <<fd, v>>]
      /\ chan[fd] = "task" /\ Db(fd) # None
      /\ UNCHANGED <<chan, name, memKV, dbs, files, alive, client, request, truth, shared>>
  BY DEF BeginSet
<1>2a. lost' \subseteq Users
  BY <1>2, DbType, MayLoseType DEF BeginSet
<1>3. inbox' \in [Fds -> Seq(Message)]
  BY ReadsType DEF BeginSet, Polls
<1> HIDE DEF l, v
<1>4. ServerTypeOK'
  BY <1>1, <1>2, <1>2a, <1>3 DEF ServerTypeOK
<1>5. ReceivingInv'
  <2> SUFFICES ASSUME NEW k \in Loops, wanted'[k] # None
               PROVE  /\ loop'[k] = "receiving"
                      /\ LoopOf(wanted'[k][1]) = k /\ chan[wanted'[k][1]] = "task"
                      /\ Db(wanted'[k][1]) # None
    BY <1>2 DEF ReceivingInv, Db
  <2>1. CASE k = l
    BY <1>1, <1>2, <2>1 DEF ServerTypeOK, l
  <2>2. CASE k # l
    BY <1>1, <1>2, <2>2 DEF ServerTypeOK, ReceivingInv
  <2> QED BY <2>1, <2>2
<1>6. dbs' \in Seq(Database) /\ EntriesInv' /\ OneConnection' /\ Routed'
  BY <1>2, SameRouting
<1>7. RequestsInv'
  BY <1>2, SameRequests
<1> QED BY <1>4, <1>5, <1>6, <1>7

\* The process ends, or a loop: the one whose handler is in its database wants
\* nothing any more, the one that met garbage was polling.
LEMMA EndsKeep ==
  ASSUME ServerInv, NEW fd \in Fds, Dies(fd) \/ Breaks(fd) \/ Garbage(fd)
  PROVE  ServerInv'
<1> USE DEF ServerInv
<1> DEFINE l == LoopOf(fd)
<1>1. l \in Loops
  BY LoopType
<1>2. /\ alive' \in BOOLEAN
      /\ \/ UNCHANGED <<loop, wanted>>
         \/ loop[l] = "polling" /\ UNCHANGED wanted /\ loop' = [loop EXCEPT ![l] = "dead"]
         \/ /\ \E end \in {"hung", "dead"} : loop' = [loop EXCEPT ![l] = end]
            /\ wanted' = [wanted EXCEPT ![l] = None]
      /\ UNCHANGED <<chan, name, memKV, dbs, files, client, history>>
  BY DEF Dies, Breaks, Garbage, Polls, ServerTypeOK
<1>3. inbox' \in [Fds -> Seq(Message)]
  BY ReadsType DEF Dies, Breaks, InDatabase, Garbage, Polls, ServerTypeOK
<1> HIDE DEF l
<1>4. ServerTypeOK'
  <2>1. /\ loop' \in [Loops -> {"polling", "receiving", "hung", "dead"}]
        /\ wanted' \in [Loops -> (Fds \X Vars) \cup {None}]
    BY <1>1, <1>2 DEF ServerTypeOK
  <2> QED BY <1>2, <1>3, <2>1 DEF ServerTypeOK, history
<1>5. ReceivingInv'
  <2>1. \A k \in Loops : wanted'[k] # None => loop'[k] = loop[k] /\ wanted'[k] = wanted[k]
    BY <1>1, <1>2 DEF ServerTypeOK, ReceivingInv
  <2> QED BY <1>2, <2>1 DEF ReceivingInv, Db
<1>6. dbs' \in Seq(Database) /\ EntriesInv' /\ OneConnection' /\ Routed'
  BY <1>2, SameRouting DEF history
<1>7. RequestsInv'
  BY <1>2, SameRequests DEF history
<1> QED BY <1>4, <1>5, <1>6, <1>7

-----------------------------------------------------------------------------
(* Steps that change a database.                                           *)

\* A user who never had two databases open has one at most.
LEMMA OneOpen ==
  ASSUME ServerInv, NEW fd \in Fds, chan[fd] = "task", name[fd] \notin shared
  PROVE  OpenOf(name[fd]) = {Db(fd)}
<1>1. name[fd] \in Users /\ Db(fd) \in OpenOf(name[fd])
  BY DEF ServerInv, EntriesInv, Routed
<1>2. ASSUME NEW i \in OpenOf(name[fd])
      PROVE  i = Db(fd)
  <2>1. PICK f \in Fds : chan[f] = "task" /\ name[f] = name[fd] /\ Db(f) = i
    BY <1>1 DEF ServerInv, Routed
  <2>2. f = fd
    BY <2>1 DEF ServerInv, OneConnection
  <2> QED BY <2>1, <2>2
<1> QED BY <1>1, <1>2

Value == Bytes \cup {Fresh, Nuls, Absent}

\* One variable of one database changes.
LEMMA StoresFacts ==
  ASSUME ServerInv, NEW fd \in Fds, chan[fd] = "task", Db(fd) # None,
         NEW v \in Vars, NEW x \in Value, Stores(fd, v, x)
  PROVE  /\ dbs' \in Seq(Database) /\ DOMAIN dbs' = DOMAIN dbs
         /\ \A i \in DOMAIN dbs : dbs'[i].user = dbs[i].user /\ dbs'[i].open = dbs[i].open
         /\ \A i \in DOMAIN dbs : i # Db(fd) => dbs'[i] = dbs[i]
         /\ dbs'[Db(fd)].map = [dbs[Db(fd)].map EXCEPT ![v] = x]
<1> DEFINE d == Db(fd)
           e == [dbs[d] EXCEPT !.map = [dbs[d].map EXCEPT ![v] = x]]
<1>1. d \in DOMAIN dbs /\ dbs[d] \in Database
  BY DbType
<1>2. [dbs[d].map EXCEPT ![v] = x] \in Map
  BY <1>1 DEF Database, Map, Value
<1>3. /\ e \in Database /\ e.user = dbs[d].user /\ e.open = dbs[d].open
      /\ e.map = [dbs[d].map EXCEPT ![v] = x]
  BY <1>1, <1>2 DEF Database
<1>4. dbs' = [dbs EXCEPT ![d] = e]
  BY DEF Stores
<1>5. dbs \in Seq(Database)
  BY DEF ServerInv
<1> HIDE DEF d, e
<1>6. dbs' \in Seq(Database) /\ DOMAIN dbs' = DOMAIN dbs /\ dbs'[d] = e
  BY <1>1, <1>3, <1>4, <1>5
<1>7. \A i \in DOMAIN dbs : i # d => dbs'[i] = dbs[i]
  BY <1>4, <1>5
<1> QED BY <1>1, <1>3, <1>6, <1>7 DEF d

\* Whoever reaches a database still does.
LEMMA StoresKeep ==
  ASSUME ServerInv, NEW fd \in Fds, chan[fd] = "task", Db(fd) # None,
         NEW v \in Vars, NEW x \in Value, Stores(fd, v, x),
         UNCHANGED <<chan, name, memKV, shared>>
  PROVE  EntriesInv' /\ OneConnection' /\ Routed'
<1>1. /\ DOMAIN dbs' = DOMAIN dbs
      /\ \A i \in DOMAIN dbs : dbs'[i].user = dbs[i].user /\ dbs'[i].open = dbs[i].open
  BY StoresFacts
<1>2. \A u : OpenOf(u)' = OpenOf(u)
  BY <1>1 DEF OpenOf
<1>3. \A f : Db(f)' = Db(f)
  BY DEF Db
<1>4. EntriesInv'
  BY <1>1 DEF ServerInv, ServerTypeOK, EntriesInv
<1>5. OneConnection'
  BY DEF ServerInv, OneConnection
<1>6. Routed'
  BY <1>2, <1>3 DEF ServerInv, Routed
<1> QED BY <1>4, <1>5, <1>6

\* Entries, databases and files of the right type again.
LEMMA StoresTypes ==
  ASSUME ServerInv, NEW fd \in Fds, chan[fd] = "task", Db(fd) # None,
         NEW v \in Vars, NEW x \in Value, Stores(fd, v, x),
         UNCHANGED <<chan, name, memKV, files, alive, shared>>,
         inbox' \in [Fds -> Seq(Message)],
         loop' \in [Loops -> {"polling", "receiving", "hung", "dead"}],
         wanted' \in [Loops -> (Fds \X Vars) \cup {None}],
         client' \in [Fds -> {"off", "ready", "awaiting", "sending", "early", "gone"}],
         truth' \in [Users -> Map], request' \in [Fds -> Change \cup {None}],
         lost' \subseteq Users
  PROVE  ServerTypeOK' /\ dbs' \in Seq(Database)
<1>1. dbs' \in Seq(Database) /\ DOMAIN dbs' = DOMAIN dbs
  BY StoresFacts
<1>2. \A i \in DOMAIN dbs' : dbs'[i] \in Database
  BY <1>1
<1> QED BY <1>1, <1>2 DEF ServerInv, ServerTypeOK, Database

\* NEW, GET and DES.
LEMMA DoKeeps ==
  ASSUME ServerInv, NEW fd \in Fds, Do(fd)
  PROVE  ServerInv'
<1> USE DEF ServerInv
<1> DEFINE m == Head(inbox[fd])
<1>1. /\ chan[fd] = "task" /\ Db(fd) # None /\ m \in Message
      /\ m.op \in {"NEW", "GET", "DES"} /\ m.var \in Vars
      /\ UNCHANGED <<chan, name, loop, wanted, memKV, files, alive, shared>>
  BY HeadType, MessageFields DEF Do, Polls
<1>2. /\ inbox' \in [Fds -> Seq(Message)]
      /\ client' \in [Fds -> {"off", "ready", "awaiting", "sending", "early", "gone"}]
      /\ truth' \in [Users -> Map] /\ request' \in [Fds -> Change \cup {None}]
  BY ReadsType, AnswersFacts DEF Do, Polls, Told
<1>3. (\E x \in Value : Stores(fd, m.var, x)) \/ UNCHANGED dbs
  BY <1>1 DEF Do, Frees, Value
<1>4. lost' \subseteq Users
  BY <1>1, DbType, MayLoseType DEF Do, Frees
<1>5. RequestsInv'
  BY <1>1, AnswersRequests DEF Do
<1> HIDE DEF m
<1>6. ReceivingInv'
  BY <1>1, SameReceiving
<1>7. CASE UNCHANGED dbs
  <2>1. ServerTypeOK'
    BY <1>1, <1>2, <1>4, <1>7 DEF ServerTypeOK
  <2>2. dbs' \in Seq(Database) /\ EntriesInv' /\ OneConnection' /\ Routed'
    BY <1>1, <1>7, SameRouting
  <2> QED BY <1>5, <1>6, <2>1, <2>2
<1>8. ASSUME NEW x \in Value, Stores(fd, m.var, x)
      PROVE  ServerInv'
  <2>1. ServerTypeOK' /\ dbs' \in Seq(Database)
    BY <1>1, <1>2, <1>4, <1>8, StoresTypes DEF ServerTypeOK
  <2>2. EntriesInv' /\ OneConnection' /\ Routed'
    BY <1>1, <1>8, StoresKeep
  <2> QED BY <1>5, <1>6, <2>1, <2>2
<1> QED BY <1>3, <1>7, <1>8

\* A SET of a variable the database does not have.
LEMMA SetNothingKeeps ==
  ASSUME ServerInv, NEW fd \in Fds, SetNothing(fd)
  PROVE  ServerInv'
<1> USE DEF ServerInv
<1> DEFINE v == Head(inbox[fd]).var
<1>1. /\ chan[fd] = "task" /\ Db(fd) # None /\ v \in Vars
      /\ Stores(fd, v, Absent) /\ Absent \in Value
      /\ UNCHANGED <<chan, name, loop, wanted, memKV, files, alive, shared>>
  BY HeadType, MessageFields DEF SetNothing, MissesVar, Polls, Value
<1>2. /\ inbox' \in [Fds -> Seq(Message)]
      /\ client' \in [Fds -> {"off", "ready", "awaiting", "sending", "early", "gone"}]
      /\ truth' \in [Users -> Map] /\ request' \in [Fds -> Change \cup {None}]
  BY ReadsType, AnswersFacts DEF SetNothing, MissesVar, Polls, Told
<1>3. lost' \subseteq Users
  BY <1>1, DbType, MayLoseType DEF SetNothing
<1>4. RequestsInv'
  BY <1>1, AnswersRequests DEF SetNothing
<1> HIDE DEF v
<1>5. ReceivingInv'
  BY <1>1, SameReceiving
<1>6. ServerTypeOK' /\ dbs' \in Seq(Database)
  BY <1>1, <1>2, <1>3, StoresTypes DEF ServerTypeOK
<1>7. EntriesInv' /\ OneConnection' /\ Routed'
  BY <1>1, StoresKeep
<1> QED BY <1>4, <1>5, <1>6, <1>7

\* The bytes of a SET, or zeros: ReceivingInv says the database is still there.
LEMMA EndSetKeeps ==
  ASSUME ServerInv, NEW fd \in Fds, EndSet(fd)
  PROVE  ServerInv'
<1> USE DEF ServerInv
<1> DEFINE l == LoopOf(fd)
<1>1. PICK v \in Vars :
        /\ wanted[l] = <<fd, v>>
        /\ IF Head(inbox[fd]).op = "BYTES"
           THEN Stores(fd, v, Head(inbox[fd]).bytes) /\ Reads(fd) /\ Answers(fd)
           ELSE Stores(fd, v, Nuls) /\ UNCHANGED <<inbox, client, request, truth>>
  BY DEF EndSet
<1>2. /\ l \in Loops /\ inbox[fd] # <<>> /\ MayLose(fd)
      /\ loop' = [loop EXCEPT ![l] = "polling"] /\ wanted' = [wanted EXCEPT ![l] = None]
      /\ UNCHANGED <<chan, name, memKV, files, alive, shared>>
  BY LoopType DEF EndSet
<1>3. wanted[l] # None /\ wanted[l][1] = fd
  BY <1>1, NoneAssumption
<1>4. chan[fd] = "task" /\ Db(fd) # None
  BY <1>2, <1>3 DEF ReceivingInv
<1>5. \E x \in Value : Stores(fd, v, x)
  BY <1>1, <1>2, HeadType, MessageFields DEF Value
<1>6. /\ inbox' \in [Fds -> Seq(Message)]
      /\ client' \in [Fds -> {"off", "ready", "awaiting", "sending", "early", "gone"}]
      /\ truth' \in [Users -> Map] /\ request' \in [Fds -> Change \cup {None}]
      /\ RequestsInv'
  <2>1. CASE Head(inbox[fd]).op = "BYTES"
    BY <1>1, <1>2, <2>1, ReadsType, AnswersFacts, AnswersRequests DEF Told
  <2>2. CASE Head(inbox[fd]).op # "BYTES"
    <3>1. UNCHANGED <<inbox, client, request, truth>>
      BY <1>1, <2>2
    <3>2. RequestsInv'
      BY <1>2, <3>1 DEF RequestsInv
    <3> QED BY <3>1, <3>2 DEF ServerTypeOK
  <2> QED BY <2>1, <2>2
<1>7. lost' \subseteq Users
  BY <1>2, <1>4, DbType, MayLoseType
<1> HIDE DEF l
<1>8. /\ loop' \in [Loops -> {"polling", "receiving", "hung", "dead"}]
      /\ wanted' \in [Loops -> (Fds \X Vars) \cup {None}]
  BY <1>2 DEF ServerTypeOK
<1>9. ServerTypeOK' /\ dbs' \in Seq(Database)
  BY <1>2, <1>4, <1>5, <1>6, <1>7, <1>8, StoresTypes
<1>10. EntriesInv' /\ OneConnection' /\ Routed'
  BY <1>2, <1>4, <1>5, StoresKeep
<1>11. ReceivingInv'
  BY <1>2 DEF ServerTypeOK, ReceivingInv, Db
<1> QED BY <1>6, <1>9, <1>10, <1>11

-----------------------------------------------------------------------------
(* A user comes and a user goes.                                           *)

\* What a login does to the databases and to who reaches them.
LEMMA AdmitFacts ==
  ASSUME ServerInv, NEW fd \in Fds, Admit(fd), NEW u, u = Head(inbox[fd]).user
  PROVE  /\ u \in Users /\ Len(dbs) + 1 \notin DOMAIN dbs
         /\ dbs' \in Seq(Database) /\ DOMAIN dbs' = DOMAIN dbs \cup {Len(dbs) + 1}
         /\ \A i \in DOMAIN dbs : dbs'[i] = dbs[i]
         /\ dbs'[Len(dbs) + 1].user = u /\ dbs'[Len(dbs) + 1].open
         /\ dbs'[Len(dbs) + 1].map \in Openings(u)
<1> USE DEF ServerInv
<1>0. PICK n : n = Len(dbs) + 1
  OBVIOUS
<1>1. u \in Users
  BY HeadType, MessageFields DEF Admit, Polls
<1>2. PICK m \in Openings(u) : dbs' = Append(dbs, [user |-> u, open |-> TRUE, map |-> m])
  BY DEF Admit
<1>2a. PICK e : e = [user |-> u, open |-> TRUE, map |-> m]
  OBVIOUS
<1>3. e \in Database /\ e.user = u /\ e.open /\ e.map = m
  BY <1>1, <1>2a DEF Database, Openings
<1>4. dbs' = Append(dbs, e) /\ dbs \in Seq(Database)
  BY <1>2, <1>2a
<1>5. /\ dbs' \in Seq(Database) /\ n \notin DOMAIN dbs /\ DOMAIN dbs' = DOMAIN dbs \cup {n}
      /\ dbs'[n] = e /\ \A i \in DOMAIN dbs : dbs'[i] = dbs[i]
  BY <1>0, <1>3, <1>4
<1> QED BY <1>0, <1>1, <1>2, <1>3, <1>5

\* A login: the new database is the user's only one, or the user is among the
\* shared from now on.
LEMMA AdmitKeeps ==
  ASSUME ServerInv, NEW fd \in Fds, Admit(fd)
  PROVE  ServerInv'
<1> USE DEF ServerInv
<1> DEFINE l == LoopOf(fd)
<1>0. PICK u, n : u = Head(inbox[fd]).user /\ n = Len(dbs) + 1
  OBVIOUS
<1>1. /\ u \in Users /\ n \notin DOMAIN dbs
      /\ dbs' \in Seq(Database) /\ DOMAIN dbs' = DOMAIN dbs \cup {n}
      /\ \A i \in DOMAIN dbs : dbs'[i] = dbs[i]
      /\ dbs'[n].user = u /\ dbs'[n].open /\ dbs'[n].map \in Openings(u)
  BY <1>0, AdmitFacts
<1>2. /\ l \in Loops /\ n \in Nat /\ n # None /\ chan[fd] = "login"
      /\ memKV' = [memKV EXCEPT ![l][u] = n]
      /\ shared' = IF OpenOf(u) = {} THEN shared ELSE shared \cup {u}
      /\ name' = [name EXCEPT ![fd] = u] /\ chan' = [chan EXCEPT ![fd] = "task"]
      /\ UNCHANGED <<loop, wanted, files, alive, lost>>
  BY <1>0, LoopType, NoneAssumption DEF Admit
<1>3. /\ inbox' \in [Fds -> Seq(Message)]
      /\ client' \in [Fds -> {"off", "ready", "awaiting", "sending", "early", "gone"}]
      /\ Told(fd)
  BY ReadsType, AnswersFacts DEF Admit, Polls
<1> HIDE DEF l
<1>4. ServerTypeOK'
  <2>1. memKV' \in [Loops -> [Users -> DOMAIN dbs' \cup {None}]]
    BY <1>1, <1>2 DEF ServerTypeOK
  <2>2. \A i \in DOMAIN dbs' : dbs'[i] \in Database
    BY <1>1
  <2> QED BY <1>1, <1>2, <1>3, <2>1, <2>2 DEF ServerTypeOK, Database, Told
<1>5. /\ \A w : w # u => OpenOf(w)' = OpenOf(w)
      /\ OpenOf(u)' = OpenOf(u) \cup {n}
  BY <1>1 DEF OpenOf
<1>6. /\ chan'[fd] = "task" /\ name'[fd] = u /\ Db(fd)' = n
      /\ \A f \in Fds : f # fd => chan'[f] = chan[f] /\ name'[f] = name[f]
      /\ \A f \in Fds : /\ chan[f] = "task"
                        => /\ f # fd
                           /\ name[f] # u => Db(f)' = Db(f)
                           /\ Db(f) # None => Db(f)' # None
  BY <1>1, <1>2, LoopType DEF ServerTypeOK, EntriesInv, Db, l
<1>7. EntriesInv'
  BY <1>1, <1>2, <1>6 DEF ServerTypeOK, EntriesInv
<1>8. ReceivingInv'
  <2>1. \A k \in Loops : wanted[k] # None => wanted[k][1] \in Fds
    BY DEF ServerTypeOK
  <2> QED BY <1>2, <1>6, <2>1 DEF ReceivingInv
<1>9. ASSUME u \notin shared'
      PROVE  OpenOf(u) = {} /\ u \notin shared /\ \A f \in Fds : chan[f] = "task" => name[f] # u
  BY <1>2, <1>9 DEF Routed
<1>10. shared \subseteq shared'
  BY <1>2
<1>11. OneConnection'
  BY <1>6, <1>9, <1>10 DEF OneConnection
<1>12. Routed'
  <2>1. ASSUME NEW f \in Fds, chan'[f] = "task", name'[f] \notin shared'
        PROVE  (Db(f) \in OpenOf(name[f]))'
    BY <1>5, <1>6, <1>9, <1>10, <2>1 DEF Routed
  <2>2. ASSUME NEW w \in Users \ shared', NEW i \in OpenOf(w)'
        PROVE  \E f \in Fds : chan'[f] = "task" /\ name'[f] = w /\ Db(f)' = i
    <3>1. CASE w = u
      BY <1>5, <1>6, <1>9, <2>2, <3>1
    <3>2. CASE w # u
      <4>1. PICK f \in Fds : chan[f] = "task" /\ name[f] = w /\ Db(f) = i
        BY <1>5, <1>10, <2>2, <3>2 DEF Routed
      <4> QED BY <1>6, <3>2, <4>1
    <3> QED BY <3>1, <3>2
  <2> QED BY <2>1, <2>2 DEF Routed
<1>13. RequestsInv'
  <2>1. \A f \in Fds : f # fd => request'[f] = request[f] /\ client'[f] = client[f]
    BY <1>3 DEF Admit, Answers, Client, ServerTypeOK, Told
  <2>2. request[fd] = None /\ request'[fd] = None
    BY <1>2, <1>3 DEF RequestsInv, Told
  <2>3. client[fd] \notin {"sending", "early"}
    BY <2>2 DEF RequestsInv
  <2>4. client'[fd] \notin {"sending", "early"}
    BY <2>3 DEF Admit, Answers, Client, ServerTypeOK
  <2> QED BY <1>6, <2>1, <2>2, <2>4 DEF RequestsInv
<1> QED BY <1>1, <1>4, <1>7, <1>8, <1>11, <1>12, <1>13

\* A QUIT: the database that is closed was its user's only one, or its user is
\* among the shared.
LEMMA QuitKeeps ==
  ASSUME ServerInv, NEW fd \in Fds, Quit(fd)
  PROVE  ServerInv'
<1> USE DEF ServerInv
<1> DEFINE l == LoopOf(fd)
<1>0. PICK u, d, e : u = name[fd] /\ d = Db(fd) /\ e = [dbs[d] EXCEPT !.open = FALSE]
  OBVIOUS
<1>1. /\ l \in Loops /\ loop[l] = "polling" /\ chan[fd] = "task" /\ d # None
      /\ dbs' = [dbs EXCEPT ![d] = e]
      /\ files' = [files EXCEPT ![u] = dbs[d].map]
      /\ memKV' = [memKV EXCEPT ![l][u] = None]
      /\ MayLose(fd) /\ UNCHANGED <<loop, wanted, alive, truth, shared>>
  BY <1>0, LoopType DEF Quit, Polls
<1>2. u \in Users /\ d \in DOMAIN dbs /\ dbs[d] \in Database /\ dbs[d].user = u
  BY <1>0, <1>1, DbType
<1>3. /\ chan' = [chan EXCEPT ![fd] = "none"] /\ name' = [name EXCEPT ![fd] = None]
      /\ chan' \in [Fds -> {"none", "login", "task"}] /\ name' \in [Fds -> Users \cup {None}]
      /\ inbox' \in [Fds -> Seq(Message)]
      /\ client' \in [Fds -> {"off", "ready", "awaiting", "sending", "early", "gone"}]
      /\ request' \in [Fds -> Change \cup {None}] /\ RequestsInv'
  BY CloseChannelType DEF Quit, CloseChannel
<1>4. e \in Database /\ e.user = u /\ ~e.open /\ e.map = dbs[d].map
  BY <1>0, <1>2 DEF Database
<1>5. u \notin shared => OpenOf(u) = {d}
  BY <1>0, <1>1, OneOpen
<1>6. \A f \in Fds : chan[f] = "task" /\ name[f] = u /\ u \notin shared => f = fd
  BY <1>0, <1>1 DEF OneConnection
<1>7. \A f \in Fds : f # fd => chan'[f] = chan[f] /\ name'[f] = name[f]
  BY <1>3 DEF ServerTypeOK
<1>8. \A f \in Fds : f # fd /\ (name[f] # u \/ LoopOf(f) # l) /\ chan[f] = "task" => Db(f)' = Db(f)
  BY <1>1, <1>2, <1>7, LoopType DEF ServerTypeOK, EntriesInv, Db
<1>9. chan'[fd] = "none" /\ \A f \in Fds : chan'[f] = "task" => f # fd
  BY <1>3 DEF ServerTypeOK
<1> HIDE DEF l
<1>10. /\ dbs' \in Seq(Database) /\ DOMAIN dbs' = DOMAIN dbs /\ dbs'[d] = e
       /\ \A i \in DOMAIN dbs : i # d => dbs'[i] = dbs[i]
  BY <1>1, <1>2, <1>4
<1>11. \A w : OpenOf(w)' = OpenOf(w) \ {d}
  BY <1>4, <1>10 DEF OpenOf
<1>12. ServerTypeOK'
  <2>1. memKV' \in [Loops -> [Users -> DOMAIN dbs' \cup {None}]]
    BY <1>1, <1>10 DEF ServerTypeOK
  <2>2. files' \in [Users -> Map]
    BY <1>1, <1>2 DEF ServerTypeOK, Database
  <2>3. \A i \in DOMAIN dbs' : dbs'[i] \in Database
    BY <1>10
  <2>4. lost' \subseteq Users
    BY <1>0, <1>1, <1>2, MayLoseType
  <2> QED BY <1>1, <1>3, <2>1, <2>2, <2>3, <2>4 DEF ServerTypeOK, Database
<1>13. EntriesInv'
  <2>1. \A i \in DOMAIN dbs : dbs'[i].user = dbs[i].user
    BY <1>2, <1>4, <1>10
  <2>2. \A k \in Loops, w \in Users :
          memKV'[k][w] # None => memKV'[k][w] = memKV[k][w] /\ memKV[k][w] \in DOMAIN dbs
    BY <1>1, <1>2 DEF ServerTypeOK
  <2>3. \A f \in Fds : chan'[f] = "task" => name'[f] \in Users
    BY <1>7, <1>9 DEF EntriesInv
  <2> QED BY <2>1, <2>2, <2>3 DEF EntriesInv
<1>14. ReceivingInv'
  <2> SUFFICES ASSUME NEW k \in Loops, wanted[k] # None, NEW f, f = wanted[k][1]
               PROVE  loop[k] = "receiving" /\ LoopOf(f) = k /\ chan'[f] = "task" /\ Db(f)' # None
    BY <1>1 DEF ReceivingInv
  <2>1. f \in Fds /\ loop[k] = "receiving" /\ LoopOf(f) = k /\ chan[f] = "task" /\ Db(f) # None
    BY DEF ServerTypeOK, ReceivingInv
  <2>2. k # l /\ f # fd
    BY <1>1, <2>1 DEF l
  <2> QED BY <1>7, <1>8, <2>1, <2>2
<1>15. OneConnection'
  BY <1>1, <1>7, <1>9 DEF OneConnection
<1>16. Routed'
  <2>1. ASSUME NEW f \in Fds, chan'[f] = "task", name'[f] \notin shared
        PROVE  (Db(f) \in OpenOf(name[f]))'
    <3>1. f # fd /\ chan[f] = "task" /\ name'[f] = name[f] /\ name[f] # u
      BY <1>6, <1>7, <1>9, <2>1
    <3>2. Db(f)' = Db(f) /\ Db(f) \in OpenOf(name[f])
      BY <1>8, <2>1, <3>1 DEF Routed
    <3>3. Db(f) # d
      BY <1>2, <3>1, <3>2 DEF OpenOf
    <3> QED BY <1>11, <3>1, <3>2, <3>3
  <2>2. ASSUME NEW w \in Users \ shared, NEW i \in OpenOf(w)'
        PROVE  \E f \in Fds : chan'[f] = "task" /\ name'[f] = w /\ Db(f)' = i
    <3>1. i \in OpenOf(w) /\ i # d /\ w # u
      BY <1>5, <1>11, <2>2
    <3>2. PICK f \in Fds : chan[f] = "task" /\ name[f] = w /\ Db(f) = i
      BY <3>1 DEF Routed
    <3>3. f # fd
      BY <1>0, <3>1, <3>2
    <3> QED BY <1>7, <1>8, <3>1, <3>2, <3>3
  <2> QED BY <1>1, <2>1, <2>2 DEF Routed
<1> QED BY <1>3, <1>10, <1>12, <1>13, <1>14, <1>15, <1>16

-----------------------------------------------------------------------------
(* The theorems.                                                           *)

LEMMA ServerStarts ==
  ServerInit => ServerInv
<1> SUFFICES ASSUME ServerInit PROVE ServerInv
  OBVIOUS
<1> USE DEF ServerInit
<1>1. dbs \in Seq(Database) /\ DOMAIN dbs = {} /\ <<>> \in Seq(Message)
  OBVIOUS
<1>2. files \in [Users -> Map]
  BY DEF Map
<1>3. ServerTypeOK
  BY <1>1, <1>2 DEF ServerTypeOK
<1>4. ReceivingInv /\ EntriesInv /\ RequestsInv /\ OneConnection
  BY DEF ReceivingInv, EntriesInv, RequestsInv, OneConnection
<1>5. \A u : OpenOf(u) = {}
  BY <1>1 DEF OpenOf
<1>6. Routed
  BY <1>5 DEF Routed
<1> QED BY <1>1, <1>3, <1>4, <1>6 DEF ServerInv

LEMMA ServerKeeps ==
  ServerInv /\ [ServerNext]_svars => ServerInv'
<1> SUFFICES ASSUME ServerInv, [ServerNext]_svars PROVE ServerInv'
  OBVIOUS
<1>1. ASSUME NEW fd \in Fds,
             Accept(fd) \/ Request(fd) \/ SendBytes(fd) \/ Vanish(fd) \/ Handle(fd)
      PROVE  ServerInv'
  <2>1. CASE Accept(fd)
    BY <2>1, AcceptKeeps
  <2>2. CASE Request(fd) \/ SendBytes(fd) \/ Vanish(fd)
    BY <2>2, ClientKeeps
  <2>3. CASE Handle(fd)
    BY <2>3, RefuseLoginKeeps, AdmitKeeps, DoKeeps, BeginSetKeeps, EndSetKeeps,
       SetNothingKeeps, QuitKeeps, EndsKeep DEF Handle
  <2> QED BY <1>1, <2>1, <2>2, <2>3
<1>2. CASE UNCHANGED svars
  <2>1. /\ UNCHANGED <<chan, name, inbox, loop, wanted, memKV>>
        /\ UNCHANGED <<dbs, files, alive, client, request, truth, shared, lost>>
    BY <1>2 DEF svars
  <2>2. ServerTypeOK'
    BY <2>1 DEF ServerInv, ServerTypeOK
  <2> QED BY <2>1, <2>2, SameRouting, SameReceiving, SameRequests DEF ServerInv
<1> QED BY <1>1, <1>2 DEF ServerNext

LEMMA ServerAlways ==
  ServerSpec => []ServerInv
<1> QED BY ServerStarts, ServerKeeps, PTL DEF ServerSpec

\* Every variable of the sessions keeps its type, however many clients come,
\* go and vanish: an entry of memKV always leads to a database that was made.
THEOREM ServerIsTyped ==
  ServerSpec => []ServerTypeOK
<1>1. ServerInv => ServerTypeOK
  BY DEF ServerInv
<1> QED BY <1>1, ServerAlways, PTL

\* A connection that logged in reaches an open database of its own user, and an
\* open database has its connection, for users who never had two open at once:
\* memKV[username] = new DB(username), and the erasure at QUIT, never cross the
\* users of a loop, for any number of loops, descriptors and users.
THEOREM SessionsAreRouted ==
  ServerSpec => []Routed
<1>1. ServerInv => Routed
  BY DEF ServerInv
<1> QED BY <1>1, ServerAlways, PTL

-----------------------------------------------------------------------------
(* What clients were told.  AcknowledgedKept is not inductive: whether the  *)
(* value an OK confirms is the one that was asked for depends on what a     *)
(* client may have under way.                                               *)

\* Users whose database still promises what it holds.
Trusted == Users \ (shared \cup lost)

\* A message that is not read yet agrees with what its client asked for.
Fits(fd, m) ==
  /\ m.op = "NEW" => request[fd] # None /\ request[fd].var = m.var /\ request[fd].value = Fresh
  /\ m.op = "GET" => request[fd] = None
  /\ m.op = "SET" => /\ request[fd] # None /\ request[fd].var = m.var /\ request[fd].value \in Bytes
                     /\ truth[name[fd]][m.var] # Absent
  /\ m.op = "BYTES" => request[fd] # None /\ request[fd].value = m.bytes
  /\ m.op \in {"QUIT", "EOF"} => client[fd] = "gone"
  /\ m.op = "QUIT" => request[fd] = None

Wants(fd, v) == wanted[LoopOf(fd)] = <<fd, v>>

\* A request is under way only while its client waits or is gone; only bytes and
\* the end of the stream come behind a message.
Conversation(fd) ==
  /\ client[fd] \in {"ready", "awaiting", "sending", "gone"}
  /\ client[fd] = "ready" => /\ inbox[fd] = <<>> /\ request[fd] = None
                             /\ \A v \in Vars : ~Wants(fd, v)
  /\ client[fd] = "sending" => /\ chan[fd] = "task" /\ Len(inbox[fd]) <= 1
                               /\ \A i \in DOMAIN inbox[fd] : inbox[fd][i].op = "SET"
  /\ client[fd] = "awaiting" => \/ Len(inbox[fd]) <= 1
                                \/ Len(inbox[fd]) = 2 /\ inbox[fd][1].op = "SET"
  /\ \A i \in DOMAIN inbox[fd] : /\ Fits(fd, inbox[fd][i])
                                 /\ i > 1 => inbox[fd][i].op \in {"BYTES", "EOF"}
                                 /\ chan[fd] = "login" => inbox[fd][i].op \in {"LOGIN", "EOF"}
  /\ \A v \in Vars : Wants(fd, v) =>
       /\ request[fd] # None /\ request[fd].var = v /\ request[fd].value \in Bytes
       /\ \A i \in DOMAIN inbox[fd] : inbox[fd][i].op \in {"BYTES", "EOF"}

\* The value of v is what the client was told, or what it asked for.
Held(fd) ==
  \A v \in Vars :
    /\ \/ dbs[Db(fd)].map[v] = truth[name[fd]][v]
       \/ /\ request[fd] # None /\ request[fd].var = v
          /\ \/ dbs[Db(fd)].map[v] = request[fd].value
             \/ client[fd] = "gone" /\ dbs[Db(fd)].map[v] = Nuls
    /\ dbs[Db(fd)].map[v] = Absent => truth[name[fd]][v] = Absent

KeptInv ==
  /\ \A fd \in Fds : chan[fd] = "login" => Conversation(fd)
  /\ \A fd \in Fds : chan[fd] = "task" /\ name[fd] \in Trusted => Conversation(fd) /\ Held(fd)
  /\ \A u \in Trusted : (\A fd \in Fds : chan[fd] = "task" => name[fd] # u) => files[u] = truth[u]

\* What the step of the connection fd, of the user u, leaves to the others.
Aside(fd, u) ==
  /\ shared \subseteq shared' /\ lost \subseteq lost'
  /\ \A f \in Fds \ {fd} :
       /\ chan'[f] = chan[f] /\ name'[f] = name[f]
       /\ inbox'[f] = inbox[f] /\ client'[f] = client[f] /\ request'[f] = request[f]
       /\ \A v \in Vars : Wants(f, v)' => Wants(f, v)
       /\ chan[f] = "task" /\ name[f] # u /\ name[f] \notin shared
            => Db(f)' = Db(f) /\ dbs'[Db(f)].map = dbs[Db(f)].map
  /\ \A w \in Users \ {u} : truth'[w] = truth[w] /\ files'[w] = files[w]
  /\ u \in Users => chan[fd] = "task" \/ chan'[fd] = "task"
  /\ chan[fd] = "task" => name[fd] = u
  /\ chan'[fd] = "task" => name'[fd] = u

\* It is enough to look at the connection, and at its user if that one is trusted.
LEMMA AsideKeeps ==
  ASSUME ServerInv, ServerInv', KeptInv, NEW fd \in Fds, NEW u, Aside(fd, u),
         chan'[fd] = "login" => Conversation(fd)',
         chan'[fd] = "task" /\ u \in Trusted' => Conversation(fd)' /\ Held(fd)',
         chan'[fd] # "task" /\ u \in Trusted' => files'[u] = truth'[u]
  PROVE  KeptInv'
<1>1. Trusted' \subseteq Trusted
  BY DEF Aside, Trusted
<1>2. ASSUME NEW f \in Fds, f # fd, u \in Trusted', chan'[f] = "task", name'[f] = u
      PROVE  FALSE
  <2>1. u \in Users /\ u \notin shared /\ u \notin shared' /\ chan[f] = "task" /\ name[f] = u
    BY <1>1, <1>2 DEF Aside, Trusted
  <2>2. (chan[fd] = "task" /\ name[fd] = u) \/ (chan'[fd] = "task" /\ name'[fd] = u)
    BY <2>1 DEF Aside
  <2> QED BY <1>2, <2>1, <2>2 DEF ServerInv, OneConnection
<1>3. ASSUME NEW f \in Fds, f # fd, Conversation(f), chan[f] = "login" \/ truth'[name[f]] = truth[name[f]]
      PROVE  Conversation(f)'
  <2>1. /\ chan'[f] = chan[f] /\ name'[f] = name[f]
        /\ inbox'[f] = inbox[f] /\ client'[f] = client[f] /\ request'[f] = request[f]
        /\ \A v \in Vars : Wants(f, v)' => Wants(f, v)
    BY <1>3 DEF Aside
  <2>2. \A i \in DOMAIN inbox[f] : Fits(f, inbox[f][i])'
    <3> TAKE i \in DOMAIN inbox[f]
    <3>1. Fits(f, inbox[f][i]) /\ (chan[f] = "login" => inbox[f][i].op \in {"LOGIN", "EOF"})
      BY <1>3 DEF Conversation
    <3> QED BY <1>3, <2>1, <3>1 DEF Fits
  <2> QED BY <1>3, <2>1, <2>2 DEF Conversation
<1>4. ASSUME NEW f \in Fds, chan'[f] = "login"
      PROVE  Conversation(f)'
  <2>1. CASE f # fd
    <3>1. chan[f] = "login" /\ Conversation(f)
      BY <1>4, <2>1 DEF Aside, KeptInv
    <3> QED BY <1>3, <2>1, <3>1
  <2> QED BY <1>4, <2>1
<1>5. ASSUME NEW f \in Fds, chan'[f] = "task", name'[f] \in Trusted'
      PROVE  Conversation(f)' /\ Held(f)'
  <2>1. CASE f # fd
    <3>1. /\ chan[f] = "task" /\ name'[f] = name[f] /\ name[f] # u
          /\ name[f] \in Users /\ name[f] \notin shared
          /\ Conversation(f) /\ Held(f)
      BY <1>1, <1>2, <1>5, <2>1 DEF Aside, KeptInv, Trusted
    <3>2. truth'[name[f]] = truth[name[f]]
      BY <3>1 DEF Aside
    <3>3. Conversation(f)'
      BY <1>3, <2>1, <3>1, <3>2
    <3>4. /\ request'[f] = request[f] /\ client'[f] = client[f]
          /\ dbs'[Db(f)'].map = dbs[Db(f)].map
      BY <2>1, <3>1 DEF Aside
    <3>5. Held(f)'
      BY <3>1, <3>2, <3>4 DEF Held
    <3> QED BY <3>3, <3>5
  <2>2. CASE f = fd
    BY <1>5, <2>2 DEF Aside
  <2> QED BY <2>1, <2>2
<1>6. ASSUME NEW w \in Trusted', \A f \in Fds : chan'[f] = "task" => name'[f] # w
      PROVE  files'[w] = truth'[w]
  <2>1. CASE w = u
    BY <1>6, <2>1 DEF Aside
  <2>2. CASE w # u
    <3>1. w \in Trusted /\ w \in Users
      BY <1>1, <1>6 DEF Trusted
    <3>2. \A f \in Fds : chan[f] = "task" => name[f] # w
      BY <1>6, <2>2 DEF Aside
    <3>3. files[w] = truth[w]
      BY <3>1, <3>2 DEF KeptInv
    <3> QED BY <2>2, <3>1, <3>3 DEF Aside
  <2> QED BY <2>1, <2>2
<1> QED BY <1>4, <1>5, <1>6 DEF KeptInv

\* Inboxes.
LEMMA SaysFacts ==
  ASSUME ServerTypeOK, NEW fd \in Fds, NEW m, Says(fd, m)
  PROVE  /\ \A f \in Fds : f # fd => inbox'[f] = inbox[f]
         /\ Len(inbox'[fd]) = Len(inbox[fd]) + 1
         /\ \A i \in DOMAIN inbox'[fd] :
              \/ i \in DOMAIN inbox[fd] /\ inbox'[fd][i] = inbox[fd][i]
              \/ i = Len(inbox[fd]) + 1 /\ inbox'[fd][i] = m
         /\ inbox[fd] # <<>> => inbox'[fd][1] = inbox[fd][1]
<1>1. PICK q : q = inbox[fd] /\ q \in Seq(Message)
  BY DEF ServerTypeOK
<1>2. inbox'[fd] = Append(q, m) /\ \A f \in Fds : f # fd => inbox'[f] = inbox[f]
  BY <1>1 DEF ServerTypeOK, Says
<1>3. Len(Append(q, m)) = Len(q) + 1 /\ DOMAIN Append(q, m) = 1..(Len(q) + 1) /\ DOMAIN q = 1..Len(q)
  BY <1>1
<1>4. \A i \in 1..(Len(q) + 1) : Append(q, m)[i] = IF i = Len(q) + 1 THEN m ELSE q[i]
  BY <1>1
<1>5. Len(q) \in Nat /\ (q # <<>> => Len(q) > 0)
  BY <1>1
<1> QED BY <1>1, <1>2, <1>3, <1>4, <1>5

LEMMA ReadsFacts ==
  ASSUME ServerTypeOK, NEW fd \in Fds, inbox[fd] # <<>>, Reads(fd)
  PROVE  /\ \A f \in Fds : f # fd => inbox'[f] = inbox[f]
         /\ Len(inbox[fd]) \in Nat /\ Len(inbox'[fd]) = Len(inbox[fd]) - 1
         /\ 1 \in DOMAIN inbox[fd] /\ Head(inbox[fd]) = inbox[fd][1]
         /\ \A i \in DOMAIN inbox'[fd] :
              i \in Nat /\ i + 1 \in DOMAIN inbox[fd] /\ i + 1 > 1 /\ inbox'[fd][i] = inbox[fd][i + 1]
<1>1. PICK q : q = inbox[fd] /\ q \in Seq(Message) /\ q # <<>>
  BY DEF ServerTypeOK
<1>2. inbox'[fd] = Tail(q) /\ \A f \in Fds : f # fd => inbox'[f] = inbox[f]
  BY <1>1 DEF ServerTypeOK, Reads
<1>3. Len(q) \in Nat /\ Len(q) > 0 /\ DOMAIN q = 1..Len(q) /\ Head(q) = q[1]
  BY <1>1
<1>4. /\ Len(Tail(q)) = Len(q) - 1 /\ DOMAIN Tail(q) = 1..(Len(q) - 1)
      /\ \A i \in 1..(Len(q) - 1) : Tail(q)[i] = q[i + 1]
  BY <1>1, <1>3
<1> QED BY <1>1, <1>2, <1>3, <1>4

\* Only the connection's own loop changes what it wants.
LEMMA WantsAside ==
  ASSUME ServerInv, NEW fd \in Fds,
         \/ UNCHANGED wanted
         \/ wanted' = [wanted EXCEPT ![LoopOf(fd)] = None]
         \/ \E v \in Vars : wanted' = [wanted EXCEPT ![LoopOf(fd)] = <<fd, v>>]
  PROVE  \A f \in Fds \ {fd}, v \in Vars : Wants(f, v)' => Wants(f, v)
<1> SUFFICES ASSUME NEW f \in Fds \ {fd}, NEW v \in Vars, Wants(f, v)' PROVE Wants(f, v)
  OBVIOUS
<1>1. LoopOf(fd) \in Loops /\ LoopOf(f) \in Loops
  BY LoopType
<1>2. wanted'[LoopOf(f)] = <<f, v>> /\ <<f, v>> # None
  BY NoneAssumption DEF Wants
<1>3. CASE LoopOf(f) # LoopOf(fd)
  BY <1>1, <1>2, <1>3 DEF ServerInv, ServerTypeOK, Wants
<1>4. CASE LoopOf(f) = LoopOf(fd) /\ ~UNCHANGED wanted
  <2>1. wanted'[LoopOf(f)] = None \/ \E x \in Vars : wanted'[LoopOf(f)] = <<fd, x>>
    BY <1>1, <1>4 DEF ServerInv, ServerTypeOK
  <2> QED BY <1>2, <2>1
<1> QED BY <1>2, <1>3, <1>4 DEF Wants

\* A step inside a conversation.
LEMMA TalkAside ==
  ASSUME ServerInv, NEW fd \in Fds,
         UNCHANGED <<chan, name, memKV, files, shared>>, lost \subseteq lost',
         \A f \in Fds \ {fd} : inbox'[f] = inbox[f] /\ client'[f] = client[f] /\ request'[f] = request[f],
         \A f \in Fds \ {fd}, v \in Vars : Wants(f, v)' => Wants(f, v),
         \A w \in Users : w # name[fd] => truth'[w] = truth[w],
         \/ UNCHANGED dbs
         \/ chan[fd] = "task" /\ Db(fd) # None /\ \E v \in Vars, x \in Value : Stores(fd, v, x)
  PROVE  Aside(fd, name[fd])
<1>1. ASSUME NEW f \in Fds \ {fd}, chan[f] = "task", name[f] # name[fd], name[f] \notin shared
      PROVE  Db(f)' = Db(f) /\ dbs'[Db(f)].map = dbs[Db(f)].map
  <2>1. Db(f)' = Db(f)
    BY DEF Db
  <2>2. CASE UNCHANGED dbs
    BY <2>1, <2>2
  <2>3. ASSUME chan[fd] = "task", Db(fd) # None, NEW v \in Vars, NEW x \in Value, Stores(fd, v, x)
        PROVE  dbs'[Db(f)].map = dbs[Db(f)].map
    <3>1. Db(f) \in DOMAIN dbs /\ dbs[Db(f)].user = name[f]
      BY <1>1 DEF ServerInv, Routed, OpenOf
    <3>2. Db(f) # Db(fd)
      BY <1>1, <2>3, <3>1, DbType
    <3> QED BY <2>3, <3>1, <3>2, StoresFacts
  <2> QED BY <2>1, <2>2, <2>3
<1>2. name[fd] \in Users => chan[fd] = "task"
  BY NoneAssumption DEF ServerInv, RequestsInv
<1> QED BY <1>1, <1>2 DEF Aside

LEMMA FirstSays ==
  ASSUME ServerTypeOK, NEW fd \in Fds, inbox[fd] = <<>>, NEW m, Says(fd, m)
  PROVE  inbox'[fd] = <<m>> /\ Len(inbox'[fd]) = 1 /\ DOMAIN inbox'[fd] = {1} /\ inbox'[fd][1] = m
<1>1. inbox'[fd] = Append(<<>>, m)
  BY DEF ServerTypeOK, Says
<1> QED BY <1>1

\* A client that is ready asks.
LEMMA AskTells ==
  ASSUME ServerInv, ServerInv', KeptInv, NEW fd \in Fds,
         NEW op \in {"NEW", "GET", "SET", "DES"}, NEW v \in Vars, Ask(fd, op, v)
  PROVE  KeptInv'
<1> DEFINE m == [op |-> op, var |-> v]
<1>1. /\ client[fd] = "ready" /\ chan[fd] = "task" /\ Says(fd, m)
      /\ op # "NEW" => truth[name[fd]][v] # Absent
      /\ Client(fd, IF op = "SET" THEN "sending" ELSE "awaiting")
      /\ UNCHANGED <<chan, name, wanted, memKV, dbs, files, shared, lost, truth>>
  BY DEF Ask, servervars
<1>2. PICK change \in Changes(op, v) : request' = [request EXCEPT ![fd] = change]
  BY DEF Ask
<1>3. client'[fd] = (IF op = "SET" THEN "sending" ELSE "awaiting") /\ request'[fd] = change
  BY <1>1, <1>2 DEF ServerInv, ServerTypeOK, Client
<1>4. Aside(fd, name[fd])
  <2>1. \A f \in Fds \ {fd} : inbox'[f] = inbox[f] /\ client'[f] = client[f] /\ request'[f] = request[f]
    BY <1>1, <1>2, SaysFacts DEF ServerInv, ServerTypeOK, Client
  <2> QED BY <1>1, <2>1, WantsAside, TalkAside
<1>5. ASSUME name[fd] \in Trusted'
      PROVE  Conversation(fd)' /\ Held(fd)'
  <2>1. Conversation(fd) /\ Held(fd)
    BY <1>1, <1>5 DEF KeptInv, Trusted
  <2>2. inbox[fd] = <<>> /\ request[fd] = None /\ \A w \in Vars : ~Wants(fd, w)
    BY <1>1, <2>1 DEF Conversation
  <2>3. Len(inbox'[fd]) = 1 /\ DOMAIN inbox'[fd] = {1} /\ inbox'[fd][1] = m
    BY <1>1, <2>2, FirstSays DEF ServerInv
  <2>4. /\ op = "NEW" => change # None /\ change.var = v /\ change.value = Fresh
        /\ op = "GET" => change = None
        /\ op = "SET" => change # None /\ change.var = v /\ change.value \in Bytes
    BY NoneAssumption DEF Changes, Change
  <2>5. Fits(fd, m)'
    BY <1>1, <1>3, <2>4 DEF Fits
  <2>6. \A w \in Vars : ~Wants(fd, w)'
    BY <1>1, <2>2 DEF Wants
  <2>7. Conversation(fd)'
    BY <1>1, <1>3, <2>3, <2>5, <2>6 DEF Conversation
  <2>8. Held(fd)'
    BY <1>1, <2>1, <2>2 DEF Held, Db
  <2> QED BY <2>7, <2>8
<1> QED BY <1>1, <1>4, <1>5, AsideKeeps

\* A client that is ready logs in or quits.
LEMMA AskLoginTells ==
  ASSUME ServerInv, ServerInv', KeptInv, NEW fd \in Fds, NEW u \in Users \cup {None}, AskLogin(fd, u)
  PROVE  KeptInv'
<1> DEFINE m == [op |-> "LOGIN", user |-> u]
<1>1. /\ client[fd] = "ready" /\ chan[fd] = "login" /\ Says(fd, m) /\ Client(fd, "awaiting")
      /\ UNCHANGED <<chan, name, wanted, memKV, dbs, files, shared, lost, truth, request>>
  BY DEF AskLogin, servervars
<1>2. client'[fd] = "awaiting"
  BY <1>1 DEF ServerInv, ServerTypeOK, Client
<1>3. Aside(fd, name[fd])
  <2>1. \A f \in Fds \ {fd} : inbox'[f] = inbox[f] /\ client'[f] = client[f] /\ request'[f] = request[f]
    BY <1>1, SaysFacts DEF ServerInv, ServerTypeOK, Client
  <2> QED BY <1>1, <2>1, WantsAside, TalkAside
<1>4. Conversation(fd)'
  <2>1. inbox[fd] = <<>> /\ \A w \in Vars : ~Wants(fd, w)
    BY <1>1 DEF KeptInv, Conversation
  <2>2. Len(inbox'[fd]) = 1 /\ DOMAIN inbox'[fd] = {1} /\ inbox'[fd][1] = m
    BY <1>1, <2>1, FirstSays DEF ServerInv
  <2>3. Fits(fd, m)' /\ \A w \in Vars : ~Wants(fd, w)'
    BY <1>1, <2>1 DEF Fits, Wants
  <2> QED BY <1>1, <1>2, <2>2, <2>3 DEF Conversation
<1>5. name[fd] \notin Trusted'
  BY <1>1, NoneAssumption DEF ServerInv, RequestsInv, Trusted
<1> QED BY <1>1, <1>3, <1>4, <1>5, AsideKeeps

LEMMA AskQuitTells ==
  ASSUME ServerInv, ServerInv', KeptInv, NEW fd \in Fds, AskQuit(fd)
  PROVE  KeptInv'
<1> DEFINE m == [op |-> "QUIT"]
<1>1. /\ client[fd] = "ready" /\ chan[fd] = "task" /\ Says(fd, m) /\ Client(fd, "gone")
      /\ UNCHANGED <<chan, name, wanted, memKV, dbs, files, shared, lost, truth, request>>
  BY DEF AskQuit, servervars
<1>2. client'[fd] = "gone"
  BY <1>1 DEF ServerInv, ServerTypeOK, Client
<1>3. Aside(fd, name[fd])
  <2>1. \A f \in Fds \ {fd} : inbox'[f] = inbox[f] /\ client'[f] = client[f] /\ request'[f] = request[f]
    BY <1>1, SaysFacts DEF ServerInv, ServerTypeOK, Client
  <2> QED BY <1>1, <2>1, WantsAside, TalkAside
<1>4. ASSUME name[fd] \in Trusted'
      PROVE  Conversation(fd)' /\ Held(fd)'
  <2>1. Conversation(fd) /\ Held(fd)
    BY <1>1, <1>4 DEF KeptInv, Trusted
  <2>2. inbox[fd] = <<>> /\ request[fd] = None /\ \A w \in Vars : ~Wants(fd, w)
    BY <1>1, <2>1 DEF Conversation
  <2>3. Len(inbox'[fd]) = 1 /\ DOMAIN inbox'[fd] = {1} /\ inbox'[fd][1] = m
    BY <1>1, <2>2, FirstSays DEF ServerInv
  <2>4. Fits(fd, m)' /\ \A w \in Vars : ~Wants(fd, w)'
    BY <1>1, <1>2, <2>2 DEF Fits, Wants
  <2>5. Conversation(fd)'
    BY <1>1, <1>2, <2>3, <2>4 DEF Conversation
  <2>6. Held(fd)'
    BY <1>1, <2>1, <2>2 DEF Held, Db
  <2> QED BY <2>5, <2>6
<1> QED BY <1>1, <1>3, <1>4, AsideKeeps

\* A client's process ends, whatever it has under way.
LEMMA VanishTells ==
  ASSUME ServerInv, ServerInv', KeptInv, NEW fd \in Fds, Vanish(fd)
  PROVE  KeptInv'
<1> DEFINE m == [op |-> "EOF"]
<1>1. /\ Says(fd, m) /\ Client(fd, "gone")
      /\ UNCHANGED <<chan, name, wanted, memKV, dbs, files, shared, lost, truth, request>>
  BY DEF Vanish, servervars
<1>2. client'[fd] = "gone" /\ client[fd] # "gone"
  BY <1>1 DEF ServerInv, ServerTypeOK, Client, Vanish
<1>3. Aside(fd, name[fd])
  <2>1. \A f \in Fds \ {fd} : inbox'[f] = inbox[f] /\ client'[f] = client[f] /\ request'[f] = request[f]
    BY <1>1, SaysFacts DEF ServerInv, ServerTypeOK, Client
  <2> QED BY <1>1, <2>1, WantsAside, TalkAside
<1>4. ASSUME Conversation(fd)
      PROVE  Conversation(fd)'
  <2>1. \A i \in DOMAIN inbox'[fd] :
          \/ i \in DOMAIN inbox[fd] /\ inbox'[fd][i] = inbox[fd][i]
          \/ inbox'[fd][i] = m
    BY <1>1, SaysFacts DEF ServerInv
  <2>2. ASSUME NEW i \in DOMAIN inbox[fd], NEW q, q = inbox[fd][i]
        PROVE  Fits(fd, q)'
    <3>1. Fits(fd, q)
      BY <1>4, <2>2 DEF Conversation
    <3> QED BY <1>1, <1>2, <3>1 DEF Fits
  <2>3. Fits(fd, m)'
    BY <1>2 DEF Fits
  <2>4. \A w \in Vars : Wants(fd, w)' <=> Wants(fd, w)
    BY <1>1 DEF Wants
  <2>5. \A i \in DOMAIN inbox'[fd] :
          /\ Fits(fd, inbox[fd][i])'
          /\ i > 1 => inbox'[fd][i].op \in {"BYTES", "EOF"}
          /\ chan[fd] = "login" => inbox'[fd][i].op \in {"LOGIN", "EOF"}
    BY <1>4, <2>1, <2>2, <2>3 DEF Conversation
  <2>6. \A w \in Vars : Wants(fd, w) => \A i \in DOMAIN inbox'[fd] : inbox'[fd][i].op \in {"BYTES", "EOF"}
    BY <1>4, <2>1 DEF Conversation
  <2>7. \A w \in Vars : Wants(fd, w) => request[fd] # None /\ request[fd].var = w /\ request[fd].value \in Bytes
    BY <1>4 DEF Conversation
  <2> QED BY <1>1, <1>2, <2>4, <2>5, <2>6, <2>7 DEF Conversation
<1>5. Held(fd) => Held(fd)'
  BY <1>1, <1>2 DEF Held, Db
<1>6. chan[fd] = "task" /\ name[fd] \in Trusted' => Conversation(fd)' /\ Held(fd)'
  BY <1>1, <1>4, <1>5 DEF KeptInv, Trusted
<1>7. chan[fd] = "login" => Conversation(fd)'
  BY <1>4 DEF KeptInv
<1>8. chan[fd] # "task" => name[fd] \notin Trusted'
  BY <1>1, NoneAssumption DEF ServerInv, RequestsInv, Trusted
<1> QED BY <1>1, <1>3, <1>6, <1>7, <1>8, AsideKeeps

\* The bytes of a SET follow its line; a trusted client was not answered before.
LEMMA SendBytesTells ==
  ASSUME ServerInv, ServerInv', KeptInv, NEW fd \in Fds, SendBytes(fd)
  PROVE  KeptInv'
<1>1. PICK m : m = [op |-> "BYTES", bytes |-> request[fd].value]
  OBVIOUS
<1>2. /\ client[fd] \in {"sending", "early"} /\ Says(fd, m)
      /\ UNCHANGED <<chan, name, wanted, memKV, dbs, files, shared, lost>>
  BY <1>1 DEF SendBytes, servervars
<1>3. client[fd] = "sending" =>
        client'[fd] = "awaiting" /\ UNCHANGED <<truth, request>>
  BY <1>2 DEF ServerInv, ServerTypeOK, Client, SendBytes
<1>4. Aside(fd, name[fd])
  <2>1. Told(fd)
    BY AcknowledgedFacts DEF SendBytes, ServerInv, Told, ServerTypeOK
  <2>2. \A f \in Fds \ {fd} : inbox'[f] = inbox[f] /\ client'[f] = client[f] /\ request'[f] = request[f]
    BY <1>2, <2>1, SaysFacts DEF ServerInv, ServerTypeOK, Client, SendBytes, Told
  <2>3. \A w \in Users : w # name[fd] => truth'[w] = truth[w]
    BY <2>1 DEF Told
  <2> QED BY <1>2, <2>2, <2>3, WantsAside, TalkAside
<1>5. (chan[fd] = "task" /\ client[fd] # "early") \/ name[fd] \notin Trusted
  BY <1>2, NoneAssumption DEF ServerInv, RequestsInv, KeptInv, Conversation, Trusted
<1>6. ASSUME name[fd] \in Trusted'
      PROVE  Conversation(fd)' /\ Held(fd)'
  <2>1. Conversation(fd) /\ Held(fd) /\ client[fd] = "sending" /\ chan[fd] = "task"
    BY <1>2, <1>5, <1>6 DEF KeptInv, Trusted
  <2>2. client'[fd] = "awaiting" /\ truth' = truth /\ request' = request
    BY <1>3, <2>1
  <2>3. /\ Len(inbox[fd]) <= 1 /\ Len(inbox[fd]) \in Nat
        /\ \A i \in DOMAIN inbox[fd] : inbox[fd][i].op = "SET" /\ Fits(fd, inbox[fd][i]) /\ ~(i > 1)
    <3>1. inbox[fd] \in Seq(Message)
      BY DEF ServerInv, ServerTypeOK
    <3> QED BY <2>1, <3>1 DEF Conversation
  <2>4. /\ Len(inbox'[fd]) = Len(inbox[fd]) + 1
        /\ \A i \in DOMAIN inbox'[fd] :
             \/ i \in DOMAIN inbox[fd] /\ inbox'[fd][i] = inbox[fd][i]
             \/ i = Len(inbox[fd]) + 1 /\ inbox'[fd][i] = m
        /\ inbox[fd] # <<>> => inbox'[fd][1] = inbox[fd][1]
    BY <1>2, SaysFacts DEF ServerInv
  <2>5. Fits(fd, m)' /\ m.op = "BYTES"
    BY <1>1, <2>1, <2>2 DEF Fits, ServerInv, RequestsInv
  <2>6. ASSUME NEW i \in DOMAIN inbox[fd], NEW q, q = inbox[fd][i]
        PROVE  Fits(fd, q)'
    BY <1>2, <2>2, <2>3, <2>6 DEF Fits
  <2>7. \A w \in Vars : Wants(fd, w)' <=> Wants(fd, w)
    BY <1>2 DEF Wants
  <2>8. \A i \in DOMAIN inbox'[fd] :
          /\ Fits(fd, inbox[fd][i])'
          /\ i > 1 => inbox'[fd][i].op \in {"BYTES", "EOF"}
    BY <2>3, <2>4, <2>5, <2>6
  <2>9. \A w \in Vars : Wants(fd, w) =>
          /\ request[fd] # None /\ request[fd].var = w /\ request[fd].value \in Bytes
          /\ \A i \in DOMAIN inbox'[fd] : inbox'[fd][i].op \in {"BYTES", "EOF"}
    BY <2>1, <2>3, <2>4, <2>5 DEF Conversation
  <2>10. Len(inbox'[fd]) <= 1 \/ (Len(inbox'[fd]) = 2 /\ inbox'[fd][1].op = "SET")
    <3>1. CASE inbox[fd] = <<>>
      BY <2>3, <2>4, <3>1
    <3>2. CASE inbox[fd] # <<>>
      <4>1. PICK q : q = inbox[fd] /\ q \in Seq(Message) /\ q # <<>> /\ Len(q) <= 1
        BY <2>3, <3>2 DEF ServerInv, ServerTypeOK
      <4>2. Len(q) \in Nat /\ Len(q) # 0 /\ DOMAIN q = 1..Len(q)
        BY <4>1
      <4>2a. PICK n : n = Len(q)
        OBVIOUS
      <4>2b. n \in Nat /\ n # 0 /\ n <= 1
        BY <4>1, <4>2, <4>2a
      <4>2c. n = 1
        BY ONLY <4>2b
      <4>3. Len(q) = 1 /\ 1 \in DOMAIN q
        BY <4>2, <4>2a, <4>2c
      <4> QED BY <2>3, <2>4, <3>2, <4>1, <4>3
    <3> QED BY <3>1, <3>2
  <2>11. Conversation(fd)'
    BY <1>2, <2>1, <2>2, <2>7, <2>8, <2>9, <2>10 DEF Conversation
  <2>12. Held(fd)'
    BY <1>2, <2>1, <2>2 DEF Held, Db
  <2> QED BY <2>11, <2>12
<1>7. chan'[fd] # "login" /\ (chan'[fd] # "task" => name[fd] \notin Trusted')
  <2>1. request[fd] # None
    BY <1>2 DEF ServerInv, RequestsInv
  <2> QED BY <1>2, <2>1 DEF ServerInv, RequestsInv
<1> QED BY <1>2, <1>4, <1>6, <1>7, AsideKeeps

\* A connection comes, or one that did not log in goes.
LEMMA AcceptTells ==
  ASSUME ServerInv, ServerInv', KeptInv, NEW fd \in Fds, Accept(fd)
  PROVE  KeptInv'
<1>1. /\ chan[fd] = "none" /\ chan'[fd] = "login" /\ inbox'[fd] = <<>> /\ client'[fd] = "ready"
      /\ name[fd] = None /\ request[fd] = None
      /\ UNCHANGED <<name, wanted, memKV, dbs, files, request, truth, shared, lost>>
      /\ \A f \in Fds \ {fd} : chan'[f] = chan[f] /\ inbox'[f] = inbox[f] /\ client'[f] = client[f]
  BY DEF Accept, history, Client, ServerInv, ServerTypeOK, RequestsInv
<1>2. Aside(fd, None)
  <2>1. \A f \in Fds, v \in Vars : Wants(f, v)' <=> Wants(f, v)
    BY <1>1 DEF Wants
  <2>2. \A f : Db(f)' = Db(f)
    BY <1>1 DEF Db
  <2> QED BY <1>1, <2>1, <2>2, NoneAssumption DEF Aside
<1>3. Conversation(fd)'
  <2>1. ASSUME NEW v \in Vars, Wants(fd, v)'
        PROVE  FALSE
    <3>1. wanted[LoopOf(fd)] = <<fd, v>> /\ LoopOf(fd) \in Loops
      BY <1>1, <2>1, LoopType DEF Wants
    <3>2. wanted[LoopOf(fd)] # None /\ wanted[LoopOf(fd)][1] = fd
      BY <3>1, NoneAssumption
    <3>3. PICK l : l = LoopOf(fd)
      OBVIOUS
    <3>4. l \in Loops /\ wanted[l] # None /\ wanted[l][1] = fd
      BY <3>1, <3>2, <3>3
    <3>5. chan[fd] = "task"
      BY <3>4 DEF ServerInv, ReceivingInv
    <3> QED BY <1>1, <3>5
  <2> QED BY <1>1, <2>1 DEF Conversation
<1> QED BY <1>1, <1>2, <1>3, NoneAssumption, AsideKeeps DEF Trusted

LEMMA RefuseLoginTells ==
  ASSUME ServerInv, ServerInv', KeptInv, NEW fd \in Fds, RefuseLogin(fd)
  PROVE  KeptInv'
<1>1. /\ chan[fd] = "login" /\ chan'[fd] = "none"
      /\ UNCHANGED <<wanted, memKV, dbs, files, truth, shared, lost>>
      /\ \A f \in Fds \ {fd} :
           /\ chan'[f] = chan[f] /\ name'[f] = name[f] /\ inbox'[f] = inbox[f]
           /\ client'[f] = client[f] /\ request'[f] = request[f]
  BY DEF RefuseLogin, CloseChannel, Client, ServerInv, ServerTypeOK
<1>2. Aside(fd, None)
  <2>1. \A f \in Fds, v \in Vars : Wants(f, v)' <=> Wants(f, v)
    BY <1>1 DEF Wants
  <2>2. \A f \in Fds \ {fd} : Db(f)' = Db(f)
    BY <1>1 DEF Db
  <2> QED BY <1>1, <2>1, <2>2, NoneAssumption DEF Aside
<1> QED BY <1>1, <1>2, NoneAssumption, AsideKeeps DEF Trusted

\* The process or the loop ends: a message may be read and nothing is answered.
LEMMA EndsTell ==
  ASSUME ServerInv, ServerInv', KeptInv, NEW fd \in Fds, Dies(fd) \/ Breaks(fd) \/ Garbage(fd)
  PROVE  KeptInv'
<1>1. /\ UNCHANGED <<chan, name, memKV, dbs, files, client, request, truth, shared, lost>>
      /\ UNCHANGED wanted \/ wanted' = [wanted EXCEPT ![LoopOf(fd)] = None]
  BY DEF Dies, Breaks, Garbage, history
<1>2. UNCHANGED inbox \/ (inbox[fd] # <<>> /\ Reads(fd))
  BY DEF Dies, Breaks, InDatabase, Garbage, Polls
<1>3. Aside(fd, name[fd])
  <2>1. \A f \in Fds \ {fd} : inbox'[f] = inbox[f]
    BY <1>2, ReadsFacts DEF ServerInv
  <2> QED BY <1>1, <2>1, WantsAside, TalkAside
<1>4. ASSUME Conversation(fd)
      PROVE  Conversation(fd)'
  <2>1. \A v \in Vars : Wants(fd, v)' => Wants(fd, v)
    <3>1. LoopOf(fd) \in Loops
      BY LoopType
    <3>2. CASE wanted' = [wanted EXCEPT ![LoopOf(fd)] = None]
      <4>1. wanted'[LoopOf(fd)] = None
        BY <3>1, <3>2 DEF ServerInv, ServerTypeOK
      <4> QED BY <4>1, NoneAssumption DEF Wants
    <3>3. CASE UNCHANGED wanted
      BY <3>3 DEF Wants
    <3> QED BY <1>1, <3>2, <3>3
  <2>2. \A m : Fits(fd, m) => Fits(fd, m)'
    BY <1>1 DEF Fits
  <2>3. CASE UNCHANGED inbox
    BY <1>1, <1>4, <2>1, <2>2, <2>3 DEF Conversation
  <2>4. CASE inbox[fd] # <<>> /\ Reads(fd)
    <3>1. /\ Len(inbox[fd]) \in Nat /\ Len(inbox'[fd]) = Len(inbox[fd]) - 1
          /\ \A i \in DOMAIN inbox'[fd] :
               i \in Nat /\ i + 1 \in DOMAIN inbox[fd] /\ i + 1 > 1 /\ inbox'[fd][i] = inbox[fd][i + 1]
      BY <2>4, ReadsFacts DEF ServerInv
    <3>2. \A i \in DOMAIN inbox'[fd] :
            /\ Fits(fd, inbox[fd][i])'
            /\ inbox'[fd][i].op \in {"BYTES", "EOF"}
            /\ chan[fd] = "login" => inbox'[fd][i].op \in {"LOGIN", "EOF"}
            /\ client[fd] = "sending" => inbox'[fd][i].op = "SET"
      BY <1>4, <2>2, <3>1 DEF Conversation
    <3>3. client[fd] # "ready"
      BY <1>4, <2>4 DEF Conversation
    <3>4. client[fd] \in {"sending", "awaiting"} => Len(inbox'[fd]) <= 1
      <4>1. client[fd] \in {"sending", "awaiting"} => Len(inbox[fd]) <= 1 \/ Len(inbox[fd]) = 2
        BY <1>4 DEF Conversation
      <4>2. PICK n, k : n = Len(inbox[fd]) /\ k = Len(inbox'[fd])
        OBVIOUS
      <4>3. n \in Nat /\ k = n - 1
        BY <3>1, <4>2
      <4>4. n <= 1 \/ n = 2 => k <= 1
        BY ONLY <4>3
      <4> QED BY <4>1, <4>2, <4>4
    <3>5. \A v \in Vars : Wants(fd, v) =>
            request[fd] # None /\ request[fd].var = v /\ request[fd].value \in Bytes
      BY <1>4 DEF Conversation
    <3> QED BY <1>1, <1>4, <2>1, <3>2, <3>3, <3>4, <3>5 DEF Conversation
  <2> QED BY <1>2, <2>3, <2>4
<1>5. Held(fd) => Held(fd)'
  BY <1>1 DEF Held, Db
<1>6. chan[fd] = "task" /\ name[fd] \in Trusted' => Conversation(fd)' /\ Held(fd)'
  BY <1>1, <1>4, <1>5 DEF KeptInv, Trusted
<1>7. chan[fd] = "login" => Conversation(fd)'
  BY <1>4 DEF KeptInv
<1>8. chan[fd] # "task" => name[fd] \notin Trusted'
  BY <1>1, NoneAssumption DEF ServerInv, RequestsInv, Trusted
<1> QED BY <1>1, <1>3, <1>6, <1>7, <1>8, AsideKeeps

\* What is left behind a message that was read: the bytes, and the end.
LEMMA RestFits ==
  ASSUME ServerInv, NEW fd \in Fds, Conversation(fd), inbox[fd] # <<>>, Reads(fd),
         request'[fd] = request[fd], client'[fd] = client[fd]
  PROVE  \A i \in DOMAIN inbox'[fd] :
           /\ Fits(fd, inbox[fd][i])' /\ inbox'[fd][i].op \in {"BYTES", "EOF"}
           /\ chan[fd] = "login" => inbox'[fd][i].op \in {"LOGIN", "EOF"}
<1>1. \A i \in DOMAIN inbox'[fd] :
        i \in Nat /\ i + 1 \in DOMAIN inbox[fd] /\ i + 1 > 1 /\ inbox'[fd][i] = inbox[fd][i + 1]
  BY ReadsFacts DEF ServerInv
<1>2. ASSUME NEW m, Fits(fd, m), m.op \in {"BYTES", "EOF"}
      PROVE  Fits(fd, m)'
  BY <1>2 DEF Fits
<1>3. \A i \in DOMAIN inbox'[fd] :
        /\ Fits(fd, inbox'[fd][i]) /\ inbox'[fd][i].op \in {"BYTES", "EOF"}
        /\ chan[fd] = "login" => inbox'[fd][i].op \in {"LOGIN", "EOF"}
  BY <1>1 DEF Conversation
<1> QED BY <1>2, <1>3

\* A client that waits sent nothing behind a message that is no SET.
LEMMA RestEmpty ==
  ASSUME ServerInv, NEW fd \in Fds, Conversation(fd), client[fd] = "awaiting",
         inbox[fd] # <<>>, Head(inbox[fd]).op # "SET", Reads(fd)
  PROVE  inbox'[fd] = <<>>
<1>1. PICK q : q = inbox[fd] /\ q \in Seq(Message) /\ q # <<>>
  BY DEF ServerInv, ServerTypeOK
<1>2. Head(q) = q[1] /\ inbox'[fd] = Tail(q)
  BY <1>1 DEF ServerInv, ServerTypeOK, Reads
<1>3. Len(q) <= 1
  BY <1>1, <1>2 DEF Conversation
<1>4. PICK n : n = Len(q)
  OBVIOUS
<1>5. n \in Nat /\ n # 0 /\ n <= 1
  BY <1>1, <1>3, <1>4
<1>6. n = 1
  BY ONLY <1>5
<1>7. Tail(q) \in Seq(Message) /\ Len(Tail(q)) = n - 1
  BY <1>1, <1>4
<1>8. Len(Tail(q)) = 0
  BY <1>6, <1>7
<1> QED BY <1>2, <1>7, <1>8, EmptySeq

\* The variable that was asked for gets the value that was asked for, and the
\* client is told, or gone.
LEMMA PutHeld ==
  ASSUME ServerInv, NEW fd \in Fds, chan[fd] = "task", Db(fd) # None, Held(fd),
         UNCHANGED <<chan, name, memKV>>,
         NEW v \in Vars, NEW x \in Value \ {Absent}, Stores(fd, v, x),
         request[fd] # None, request[fd].var = v,
         x = request[fd].value \/ (client[fd] = "gone" /\ x = Nuls),
         \/ /\ x = request[fd].value
            /\ truth' = [truth EXCEPT ![name[fd]][v] = x]
         \/ truth' = truth /\ request'[fd] = request[fd] /\ client'[fd] = client[fd]
  PROVE  Held(fd)'
<1>1. PICK u, d, M, T : u = name[fd] /\ d = Db(fd) /\ M = dbs[d].map /\ T = truth[u]
  OBVIOUS
<1>2. u \in Users /\ M \in Map /\ T \in Map
  BY <1>1, DbType DEF ServerInv, ServerTypeOK, Database
<1>3. Db(fd)' = d /\ name'[fd] = u /\ dbs'[d].map = [M EXCEPT ![v] = x]
  BY <1>1, StoresFacts DEF Db
<1>4. \A w \in Vars :
        /\ [M EXCEPT ![v] = x][w] = IF w = v THEN x ELSE M[w]
        /\ [T EXCEPT ![v] = x][w] = IF w = v THEN x ELSE T[w]
  BY <1>2 DEF Map
<1>5. \A w \in Vars : w # v => M[w] = T[w]
  BY <1>1 DEF Held
<1>6. CASE truth' = [truth EXCEPT ![u][v] = x]
  <2>1. truth'[u] = [T EXCEPT ![v] = x]
    BY <1>1, <1>2, <1>6 DEF ServerInv, ServerTypeOK
  <2> QED BY <1>3, <1>4, <1>5, <2>1 DEF Held
<1>7. CASE truth' = truth /\ request'[fd] = request[fd] /\ client'[fd] = client[fd]
  BY <1>1, <1>3, <1>4, <1>5, <1>7 DEF Held
<1> QED BY <1>1, <1>6, <1>7

\* NEW and GET; after a DES nothing is promised any more.
LEMMA DoTells ==
  ASSUME ServerInv, ServerInv', KeptInv, NEW fd \in Fds, Do(fd)
  PROVE  KeptInv'
<1>1. PICK m : m = Head(inbox[fd])
  OBVIOUS
<1>2. /\ chan[fd] = "task" /\ Db(fd) # None /\ inbox[fd] # <<>> /\ Reads(fd) /\ Answers(fd)
      /\ m.op \in {"NEW", "GET", "DES"} /\ m \in Message /\ m.var \in Vars
      /\ m.op = "NEW" => Stores(fd, m.var, Fresh) /\ MayLose(fd)
      /\ m.op = "DES" => Stores(fd, m.var, Absent) /\ lost' = lost \cup {name[fd]}
      /\ m.op = "GET" => UNCHANGED dbs /\ MayLose(fd)
      /\ UNCHANGED <<chan, name, loop, wanted, memKV, files, alive, shared>>
  BY <1>1, HeadType, MessageFields DEF Do, Frees, Polls, ServerInv
<1>3. Told(fd)
  BY <1>2, AnswersFacts DEF ServerInv
<1>4. Aside(fd, name[fd])
  <2>1. \A f \in Fds \ {fd} : inbox'[f] = inbox[f] /\ client'[f] = client[f] /\ request'[f] = request[f]
    BY <1>2, <1>3, ReadsFacts DEF Told, Answers, Client, ServerInv, ServerTypeOK
  <2>2. UNCHANGED dbs \/ \E v \in Vars, x \in Value : Stores(fd, v, x)
    BY <1>2 DEF Value
  <2>3. lost \subseteq lost'
    BY <1>2 DEF MayLose
  <2> QED BY <1>2, <1>3, <2>1, <2>2, <2>3, WantsAside, TalkAside DEF Told
<1>5. ASSUME name[fd] \in Trusted'
      PROVE  Conversation(fd)' /\ Held(fd)'
  <2>1. name[fd] \in Trusted
    BY <1>4, <1>5 DEF Aside, Trusted
  <2>2. Conversation(fd) /\ Held(fd)
    BY <1>2, <2>1 DEF KeptInv
  <2>3. m.op \in {"NEW", "GET"}
    BY <1>2, <1>5 DEF Trusted
  <2>4. m = inbox[fd][1] /\ 1 \in DOMAIN inbox[fd] /\ Fits(fd, m)
    BY <1>1, <1>2, <2>2, ReadsFacts DEF Conversation, ServerInv
  <2>5. \A v \in Vars : ~Wants(fd, v)'
    BY <1>2, <2>2, <2>3, <2>4 DEF Conversation, Wants
  <2>6. client[fd] \in {"awaiting", "gone"}
    BY <1>2, <2>2, <2>3, <2>4 DEF Conversation
  <2>7. CASE client[fd] = "awaiting"
    <3>1. inbox'[fd] = <<>> /\ client'[fd] = "ready" /\ Acknowledged(fd)
      BY <1>1, <1>2, <2>2, <2>3, <2>7, RestEmpty DEF Answers, Client, ServerInv, ServerTypeOK
    <3>2. request'[fd] = None
      BY <3>1 DEF Acknowledged, ServerInv, ServerTypeOK
    <3>3. Conversation(fd)'
      BY <2>5, <3>1, <3>2 DEF Conversation
    <3>4. CASE m.op = "NEW"
      <4>1. /\ request[fd] # None /\ request[fd].var = m.var /\ request[fd].value = Fresh
            /\ truth' = [truth EXCEPT ![name[fd]][m.var] = Fresh]
        BY <2>4, <3>1, <3>4 DEF Fits, Acknowledged
      <4>2. Fresh \in Value \ {Absent}
        BY BytesAssumption DEF Value
      <4> QED BY <1>2, <2>2, <3>3, <3>4, <4>1, <4>2, PutHeld
    <3>5. CASE m.op = "GET"
      <4>1. request[fd] = None /\ truth' = truth
        BY <2>4, <3>1, <3>5 DEF Fits, Acknowledged
      <4> QED BY <1>2, <2>2, <3>3, <3>5, <4>1 DEF Held, Db
    <3> QED BY <2>3, <3>4, <3>5
  <2>8. CASE client[fd] = "gone"
    <3>1. client'[fd] = "gone" /\ UNCHANGED <<truth, request>>
      BY <1>2, <2>8 DEF Answers, Client, ServerInv, ServerTypeOK
    <3>2. Conversation(fd)'
      <4>1. \A i \in DOMAIN inbox'[fd] : Fits(fd, inbox[fd][i])' /\ inbox'[fd][i].op \in {"BYTES", "EOF"}
        BY <1>2, <2>2, <2>8, <3>1, RestFits
      <4> QED BY <1>2, <2>5, <3>1, <4>1 DEF Conversation
    <3>3. CASE m.op = "NEW"
      <4>1. request[fd] # None /\ request[fd].var = m.var /\ request[fd].value = Fresh
        BY <2>4, <3>3 DEF Fits
      <4>2. Fresh \in Value \ {Absent}
        BY BytesAssumption DEF Value
      <4> QED BY <1>2, <2>2, <2>8, <3>1, <3>2, <3>3, <4>1, <4>2, PutHeld
    <3>4. CASE m.op = "GET"
      BY <1>2, <2>2, <2>8, <3>1, <3>2, <3>4 DEF Held, Db
    <3> QED BY <2>3, <3>3, <3>4
  <2> QED BY <2>6, <2>7, <2>8
<1> QED BY <1>2, <1>4, <1>5, AsideKeeps

\* A SET begins: the request is for the variable whose bytes are wanted.
LEMMA BeginSetTells ==
  ASSUME ServerInv, ServerInv', KeptInv, NEW fd \in Fds, BeginSet(fd)
  PROVE  KeptInv'
<1>1. PICK m : m = Head(inbox[fd])
  OBVIOUS
<1>2. /\ chan[fd] = "task" /\ inbox[fd] # <<>> /\ Reads(fd) /\ MayLose(fd)
      /\ m.op = "SET" /\ m.var \in Vars
      /\ wanted' = [wanted EXCEPT ![LoopOf(fd)] = <<fd, m.var>>]
      /\ UNCHANGED <<chan, name, memKV, dbs, files, client, request, truth, shared>>
  BY <1>1, HeadType, MessageFields DEF BeginSet, Polls, ServerInv
<1>3. Aside(fd, name[fd])
  <2>1. \A f \in Fds \ {fd} : inbox'[f] = inbox[f]
    BY <1>2, ReadsFacts DEF ServerInv
  <2>2. lost \subseteq lost'
    BY <1>2 DEF MayLose
  <2> QED BY <1>2, <2>1, <2>2, WantsAside, TalkAside
<1>4. ASSUME name[fd] \in Trusted'
      PROVE  Conversation(fd)' /\ Held(fd)'
  <2>1. name[fd] \in Trusted
    BY <1>3, <1>4 DEF Aside, Trusted
  <2>2. Conversation(fd) /\ Held(fd)
    BY <1>2, <2>1 DEF KeptInv
  <2>3. m = inbox[fd][1] /\ 1 \in DOMAIN inbox[fd] /\ Fits(fd, m)
    BY <1>1, <1>2, <2>2, ReadsFacts DEF Conversation, ServerInv
  <2>4. request[fd] # None /\ request[fd].var = m.var /\ request[fd].value \in Bytes
    BY <1>2, <2>3 DEF Fits
  <2>5. \A v \in Vars : Wants(fd, v)' => v = m.var
    <3>1. LoopOf(fd) \in Loops
      BY LoopType
    <3>2. wanted'[LoopOf(fd)] = <<fd, m.var>>
      BY <1>2, <3>1 DEF ServerInv, ServerTypeOK
    <3> QED BY <3>2 DEF Wants
  <2>6. client[fd] # "ready" /\ client[fd] \in {"awaiting", "sending", "gone"}
    BY <1>2, <2>2 DEF Conversation
  <2>7. \A i \in DOMAIN inbox'[fd] : Fits(fd, inbox[fd][i])' /\ inbox'[fd][i].op \in {"BYTES", "EOF"}
    BY <1>2, <2>2, RestFits
  <2>8. PICK n, k : n = Len(inbox[fd]) /\ k = Len(inbox'[fd])
    OBVIOUS
  <2>9. n \in Nat /\ k = n - 1
    BY <1>2, <2>8, ReadsFacts DEF ServerInv
  <2>10. n <= 1 \/ n = 2 => k <= 1
    BY ONLY <2>9
  <2>11. client[fd] \in {"awaiting", "sending"} => k <= 1
    BY <2>2, <2>8, <2>10 DEF Conversation
  <2>12. client[fd] = "sending" => \A i \in DOMAIN inbox'[fd] : inbox'[fd][i].op = "SET"
    BY <1>2, <2>2, ReadsFacts DEF Conversation, ServerInv
  <2>13. Conversation(fd)'
    BY <1>2, <2>4, <2>5, <2>6, <2>7, <2>8, <2>11, <2>12 DEF Conversation
  <2>14. Held(fd)'
    BY <1>2, <2>2 DEF Held, Db
  <2> QED BY <2>13, <2>14
<1> QED BY <1>2, <1>3, <1>4, AsideKeeps

\* The bytes of a SET, or zeros if its client is gone, as it is if it is trusted
\* and something else than bytes comes.
LEMMA EndSetTells ==
  ASSUME ServerInv, ServerInv', KeptInv, NEW fd \in Fds, EndSet(fd)
  PROVE  KeptInv'
<1>1. PICK v \in Vars :
        /\ wanted[LoopOf(fd)] = <<fd, v>>
        /\ IF Head(inbox[fd]).op = "BYTES"
           THEN Stores(fd, v, Head(inbox[fd]).bytes) /\ Reads(fd) /\ Answers(fd)
           ELSE Stores(fd, v, Nuls) /\ UNCHANGED <<inbox, client, request, truth>>
  BY DEF EndSet
<1>2. PICK m : m = Head(inbox[fd])
  OBVIOUS
<1>3. /\ inbox[fd] # <<>> /\ MayLose(fd) /\ Wants(fd, v)
      /\ wanted' = [wanted EXCEPT ![LoopOf(fd)] = None]
      /\ UNCHANGED <<chan, name, memKV, files, shared>>
  BY <1>1 DEF EndSet, Wants
<1>4. chan[fd] = "task" /\ Db(fd) # None
  <2>1. PICK l \in Loops : l = LoopOf(fd)
    BY LoopType
  <2>2. wanted[l] # None /\ wanted[l][1] = fd
    BY <1>1, <2>1, NoneAssumption
  <2> QED BY <2>1, <2>2 DEF ServerInv, ReceivingInv
<1>5. \A w \in Vars : ~Wants(fd, w)'
  <2>1. wanted'[LoopOf(fd)] = None
    BY <1>3, LoopType DEF ServerInv, ServerTypeOK
  <2> QED BY <2>1, NoneAssumption DEF Wants
<1>6. m \in Message /\ (m.op = "BYTES" => m.bytes \in Bytes)
  BY <1>2, <1>3, HeadType, MessageFields DEF ServerInv
<1>7. Told(fd)
  BY <1>1, AnswersFacts DEF ServerInv, ServerTypeOK, Told
<1>8. Aside(fd, name[fd])
  <2>1. \A f \in Fds \ {fd} : inbox'[f] = inbox[f] /\ client'[f] = client[f] /\ request'[f] = request[f]
    BY <1>1, <1>3, <1>7, ReadsFacts DEF Told, Answers, Client, ServerInv, ServerTypeOK
  <2>2. \E x \in Value : Stores(fd, v, x)
    BY <1>1, <1>2, <1>6 DEF Value
  <2>3. lost \subseteq lost'
    BY <1>3 DEF MayLose
  <2> QED BY <1>3, <1>4, <1>7, <2>1, <2>2, <2>3, WantsAside, TalkAside DEF Told
<1>9. ASSUME name[fd] \in Trusted'
      PROVE  Conversation(fd)' /\ Held(fd)'
  <2>1. name[fd] \in Trusted
    BY <1>8, <1>9 DEF Aside, Trusted
  <2>2. Conversation(fd) /\ Held(fd)
    BY <1>4, <2>1 DEF KeptInv
  <2>3. m = inbox[fd][1] /\ 1 \in DOMAIN inbox[fd]
    <3>1. inbox[fd] \in Seq(Message)
      BY DEF ServerInv, ServerTypeOK
    <3> QED BY <1>2, <1>3, <3>1
  <2>4. Fits(fd, m) /\ m.op \in {"BYTES", "EOF"}
    BY <1>3, <2>2, <2>3 DEF Conversation
  <2>5. request[fd] # None /\ request[fd].var = v /\ request[fd].value \in Bytes
    BY <1>3, <2>2 DEF Conversation
  <2>6. CASE m.op = "BYTES"
    <3>1. Stores(fd, v, m.bytes) /\ Reads(fd) /\ Answers(fd)
      BY <1>1, <1>2, <2>6
    <3>2. m.bytes = request[fd].value /\ m.bytes \in Value \ {Absent}
      BY <2>4, <2>5, <2>6, BytesAssumption DEF Fits, Value
    <3>3. client[fd] \in {"awaiting", "gone"}
      BY <1>3, <2>2, <2>3, <2>6 DEF Conversation
    <3>4. CASE client[fd] = "awaiting"
      <4>1. inbox'[fd] = <<>> /\ client'[fd] = "ready" /\ Acknowledged(fd)
        BY <1>2, <1>3, <2>2, <2>6, <3>1, <3>4, RestEmpty DEF Answers, Client, ServerInv, ServerTypeOK
      <4>2. request'[fd] = None
        BY <4>1 DEF Acknowledged, ServerInv, ServerTypeOK
      <4>3. Conversation(fd)'
        BY <1>5, <4>1, <4>2 DEF Conversation
      <4>4. truth' = [truth EXCEPT ![name[fd]][v] = m.bytes]
        BY <2>5, <3>2, <4>1 DEF Acknowledged
      <4> QED BY <1>3, <1>4, <2>2, <2>5, <3>1, <3>2, <4>3, <4>4, PutHeld
    <3>5. CASE client[fd] = "gone"
      <4>1. client'[fd] = "gone" /\ UNCHANGED <<truth, request>>
        BY <3>1, <3>5 DEF Answers, Client, ServerInv, ServerTypeOK
      <4>2. \A i \in DOMAIN inbox'[fd] : Fits(fd, inbox[fd][i])' /\ inbox'[fd][i].op \in {"BYTES", "EOF"}
        BY <1>3, <2>2, <3>1, <3>5, <4>1, RestFits
      <4>3. Conversation(fd)'
        BY <1>3, <1>4, <1>5, <4>1, <4>2 DEF Conversation
      <4> QED BY <1>3, <1>4, <2>2, <2>5, <3>1, <3>2, <3>5, <4>1, <4>3, PutHeld
    <3> QED BY <3>3, <3>4, <3>5
  <2>7. CASE m.op = "EOF"
    <3>1. Stores(fd, v, Nuls) /\ UNCHANGED <<inbox, client, request, truth>>
      BY <1>1, <1>2, <2>7
    <3>2. client[fd] = "gone" /\ Nuls \in Value \ {Absent}
      BY <2>4, <2>7, BytesAssumption DEF Fits, Value
    <3>3. \A q : Fits(fd, q) => Fits(fd, q)'
      BY <1>3, <3>1 DEF Fits
    <3>4. Conversation(fd)'
      BY <1>3, <1>5, <2>2, <3>1, <3>3 DEF Conversation
    <3>5. Held(fd)'
      BY <1>3, <1>4, <2>2, <2>5, <3>1, <3>2, PutHeld
    <3> QED BY <3>4, <3>5
  <2> QED BY <2>4, <2>6, <2>7
<1> QED BY <1>3, <1>4, <1>8, <1>9, AsideKeeps

\* A trusted database has the variable of a SET.
LEMMA SetNothingTells ==
  ASSUME ServerInv, ServerInv', KeptInv, NEW fd \in Fds, SetNothing(fd)
  PROVE  KeptInv'
<1>1. PICK m : m = Head(inbox[fd])
  OBVIOUS
<1>2. /\ chan[fd] = "task" /\ Db(fd) # None /\ inbox[fd] # <<>> /\ Reads(fd) /\ Answers(fd)
      /\ m.op = "SET" /\ m.var \in Vars /\ Stores(fd, m.var, Absent) /\ MayLose(fd)
      /\ dbs[Db(fd)].map[m.var] = Absent \/ name[fd] \in lost
      /\ UNCHANGED <<chan, name, wanted, memKV, files, shared>>
  BY <1>1, HeadType, MessageFields DEF SetNothing, MissesVar, Polls, ServerInv
<1>3. Told(fd)
  BY <1>2, AnswersFacts DEF ServerInv
<1>4. Aside(fd, name[fd])
  <2>1. \A f \in Fds \ {fd} : inbox'[f] = inbox[f] /\ client'[f] = client[f] /\ request'[f] = request[f]
    BY <1>2, <1>3, ReadsFacts DEF Told, Answers, Client, ServerInv, ServerTypeOK
  <2>2. lost \subseteq lost'
    BY <1>2 DEF MayLose
  <2>3. Absent \in Value
    BY DEF Value
  <2> QED BY <1>2, <1>3, <2>1, <2>2, <2>3, WantsAside, TalkAside DEF Told
<1>5. name[fd] \notin Trusted'
  <2> SUFFICES ASSUME name[fd] \in Trusted'
               PROVE  FALSE
    OBVIOUS
  <2>1. name[fd] \in Trusted
    BY <1>4 DEF Aside, Trusted
  <2>2. Conversation(fd) /\ Held(fd)
    BY <1>2, <2>1 DEF KeptInv
  <2>3. Fits(fd, m)
    BY <1>1, <1>2, <2>2, ReadsFacts DEF Conversation, ServerInv
  <2>4. truth[name[fd]][m.var] # Absent
    BY <1>2, <2>3 DEF Fits
  <2>5. dbs[Db(fd)].map[m.var] # Absent
    BY <1>2, <2>2, <2>4 DEF Held
  <2> QED BY <1>2, <2>1, <2>5 DEF Trusted
<1> QED BY <1>2, <1>4, <1>5, AsideKeeps

\* The database of a trusted user is opened from files that hold what the
\* user's clients were told.
LEMMA AdmitTells ==
  ASSUME ServerInv, ServerInv', KeptInv, NEW fd \in Fds, Admit(fd)
  PROVE  KeptInv'
<1>0. PICK u, n : u = Head(inbox[fd]).user /\ n = Len(dbs) + 1
  OBVIOUS
<1>1. /\ u \in Users /\ n \notin DOMAIN dbs
      /\ DOMAIN dbs' = DOMAIN dbs \cup {n}
      /\ \A i \in DOMAIN dbs : dbs'[i] = dbs[i]
      /\ dbs'[n].map \in Openings(u)
  BY <1>0, AdmitFacts
<1>2. /\ chan[fd] = "login" /\ inbox[fd] # <<>> /\ Head(inbox[fd]).op = "LOGIN"
      /\ Reads(fd) /\ Answers(fd)
      /\ memKV' = [memKV EXCEPT ![LoopOf(fd)][u] = n]
      /\ shared' = IF OpenOf(u) = {} THEN shared ELSE shared \cup {u}
      /\ name' = [name EXCEPT ![fd] = u] /\ chan' = [chan EXCEPT ![fd] = "task"]
      /\ UNCHANGED <<wanted, files, lost>>
  BY <1>0 DEF Admit, Polls
<1>3. Told(fd) /\ request[fd] = None
  BY <1>2, AnswersFacts DEF ServerInv, RequestsInv
<1>4. truth' = truth /\ request'[fd] = None
  BY <1>3 DEF Told
<1>5. chan'[fd] = "task" /\ name'[fd] = u /\ Db(fd)' = n
  BY <1>1, <1>2, LoopType DEF ServerInv, ServerTypeOK, Db
<1>6. Aside(fd, u)
  <2>1. ASSUME NEW f \in Fds \ {fd}
        PROVE  /\ chan'[f] = chan[f] /\ name'[f] = name[f]
               /\ inbox'[f] = inbox[f] /\ client'[f] = client[f] /\ request'[f] = request[f]
    BY <1>2, <1>3, <2>1, ReadsFacts DEF Told, Answers, Client, ServerInv, ServerTypeOK
  <2>2. ASSUME NEW f \in Fds \ {fd}, chan[f] = "task", name[f] # u, name[f] \notin shared
        PROVE  Db(f)' = Db(f) /\ dbs'[Db(f)].map = dbs[Db(f)].map
    <3>1. name[f] \in Users /\ Db(f) \in DOMAIN dbs
      BY <2>2 DEF ServerInv, EntriesInv, Routed, OpenOf
    <3>2. Db(f)' = Db(f)
      BY <1>1, <1>2, <2>1, <2>2, <3>1, LoopType DEF ServerInv, ServerTypeOK, Db
    <3> QED BY <1>1, <3>1, <3>2
  <2>3. \A f \in Fds \ {fd}, v \in Vars : Wants(f, v)' => Wants(f, v)
    BY <1>2, WantsAside
  <2>4. shared \subseteq shared' /\ chan[fd] # "task"
    BY <1>2
  <2> QED BY <1>2, <1>4, <1>5, <2>1, <2>2, <2>3, <2>4 DEF Aside
<1>7. ASSUME u \in Trusted'
      PROVE  Conversation(fd)' /\ Held(fd)'
  <2>1. u \in Trusted /\ OpenOf(u) = {}
    BY <1>2, <1>7 DEF Trusted
  <2>2. \A f \in Fds : chan[f] = "task" => name[f] # u
    BY <2>1 DEF ServerInv, Routed, Trusted
  <2>3. files[u] = truth[u]
    BY <2>1, <2>2 DEF KeptInv
  <2>4. \A v \in Vars : dbs'[n].map[v] = truth[u][v]
    BY <1>1, <2>1, <2>3 DEF Openings
  <2>5. Held(fd)'
    BY <1>4, <1>5, <2>4 DEF Held
  <2>6. Conversation(fd)
    BY <1>2 DEF KeptInv
  <2>7. client[fd] \in {"awaiting", "gone"}
    BY <1>2, <2>6 DEF Conversation
  <2>8. \A v \in Vars : ~Wants(fd, v)'
    <3>1. inbox[fd][1].op = "LOGIN" /\ 1 \in DOMAIN inbox[fd]
      BY <1>2, ReadsFacts DEF ServerInv
    <3>2. \A v \in Vars : ~Wants(fd, v)
      BY <2>6, <3>1 DEF Conversation
    <3> QED BY <1>2, <3>2 DEF Wants
  <2>9. CASE client[fd] = "awaiting"
    <3>1. inbox'[fd] = <<>> /\ client'[fd] = "ready"
      BY <1>2, <2>6, <2>9, RestEmpty DEF Answers, Client, ServerInv, ServerTypeOK
    <3> QED BY <1>4, <2>5, <2>8, <3>1 DEF Conversation
  <2>10. CASE client[fd] = "gone"
    <3>1. client'[fd] = "gone"
      BY <1>2, <2>10 DEF Answers, Client, ServerInv, ServerTypeOK
    <3>2. \A i \in DOMAIN inbox'[fd] : Fits(fd, inbox[fd][i])' /\ inbox'[fd][i].op \in {"BYTES", "EOF"}
      BY <1>2, <1>3, <1>4, <2>6, <2>10, <3>1, RestFits
    <3> QED BY <1>5, <2>5, <2>8, <3>1, <3>2 DEF Conversation
  <2> QED BY <2>7, <2>9, <2>10
<1> QED BY <1>5, <1>6, <1>7, AsideKeeps

\* Nothing is under way at a QUIT: what is written to the files is what the
\* clients were told.
LEMMA QuitTells ==
  ASSUME ServerInv, ServerInv', KeptInv, NEW fd \in Fds, Quit(fd)
  PROVE  KeptInv'
<1>0. PICK u, d : u = name[fd] /\ d = Db(fd)
  OBVIOUS
<1>1. /\ chan[fd] = "task" /\ d # None /\ inbox[fd] # <<>> /\ Head(inbox[fd]).op = "QUIT"
      /\ dbs' = [dbs EXCEPT ![d].open = FALSE]
      /\ files' = [files EXCEPT ![u] = dbs[d].map]
      /\ memKV' = [memKV EXCEPT ![LoopOf(fd)][u] = None]
      /\ MayLose(fd) /\ UNCHANGED <<wanted, truth, shared>>
      /\ CloseChannel(fd)
  BY <1>0 DEF Quit, Polls
<1>2. u \in Users /\ d \in DOMAIN dbs /\ dbs[d] \in Database /\ dbs[d].user = u
  BY <1>0, <1>1, DbType
<1>3. chan'[fd] = "none" /\ files'[u] = dbs[d].map
      /\ \A w \in Users \ {u} : files'[w] = files[w]
  BY <1>1, <1>2 DEF CloseChannel, ServerInv, ServerTypeOK
<1>4. Aside(fd, u)
  <2>1. ASSUME NEW f \in Fds \ {fd}
        PROVE  /\ chan'[f] = chan[f] /\ name'[f] = name[f]
               /\ inbox'[f] = inbox[f] /\ client'[f] = client[f] /\ request'[f] = request[f]
    BY <1>1, <2>1 DEF CloseChannel, Client, ServerInv, ServerTypeOK
  <2>2. ASSUME NEW f \in Fds \ {fd}, chan[f] = "task", name[f] # u, name[f] \notin shared
        PROVE  Db(f)' = Db(f) /\ dbs'[Db(f)].map = dbs[Db(f)].map
    <3>1. name[f] \in Users /\ Db(f) \in DOMAIN dbs /\ dbs[Db(f)].user = name[f]
      BY <2>2 DEF ServerInv, EntriesInv, Routed, OpenOf
    <3>2. Db(f)' = Db(f)
      BY <1>1, <1>2, <2>1, <2>2, <3>1, LoopType DEF ServerInv, ServerTypeOK, Db
    <3>3. Db(f) # d
      BY <1>2, <2>2, <3>1
    <3>4. dbs'[Db(f)] = dbs[Db(f)]
      BY <1>1, <3>1, <3>3 DEF ServerInv
    <3> QED BY <3>2, <3>4
  <2>3. \A f \in Fds \ {fd}, v \in Vars : Wants(f, v)' => Wants(f, v)
    BY <1>1, WantsAside
  <2>4. lost \subseteq lost'
    BY <1>1 DEF MayLose
  <2> QED BY <1>0, <1>1, <1>3, <2>1, <2>2, <2>3, <2>4 DEF Aside
<1>5. ASSUME u \in Trusted'
      PROVE  files'[u] = truth'[u]
  <2>1. u \in Trusted
    BY <1>4, <1>5 DEF Aside, Trusted
  <2>2. Conversation(fd) /\ Held(fd)
    BY <1>0, <1>1, <2>1 DEF KeptInv
  <2>3. PICK q : q = inbox[fd] /\ q \in Seq(Message) /\ q # <<>>
    BY <1>1 DEF ServerInv, ServerTypeOK
  <2>4. Head(q) = q[1] /\ 1 \in DOMAIN q
    BY <2>3
  <2>5. request[fd] = None
    BY <1>1, <2>2, <2>3, <2>4 DEF Conversation, Fits
  <2>6. \A v \in Vars : dbs[d].map[v] = truth[u][v]
    BY <1>0, <2>2, <2>5 DEF Held
  <2>7. dbs[d].map \in Map /\ truth[u] \in Map
    BY <1>2 DEF Database, ServerInv, ServerTypeOK
  <2>8. dbs[d].map = truth[u]
    BY <2>6, <2>7 DEF Map
  <2> QED BY <1>1, <1>3, <2>8
<1> QED BY <1>3, <1>4, <1>5, AsideKeeps

-----------------------------------------------------------------------------
(* The theorem.                                                            *)

LEMMA KeptStarts ==
  ServerInit => KeptInv
<1> SUFFICES ASSUME ServerInit PROVE KeptInv
  OBVIOUS
<1> QED BY DEF ServerInit, KeptInv

LEMMA KeptKeeps ==
  ServerInv /\ ServerInv' /\ KeptInv /\ [ServerNext]_svars => KeptInv'
<1> SUFFICES ASSUME ServerInv, ServerInv', KeptInv, [ServerNext]_svars PROVE KeptInv'
  OBVIOUS
<1>1. ASSUME NEW fd \in Fds,
             Accept(fd) \/ Request(fd) \/ SendBytes(fd) \/ Vanish(fd) \/ Handle(fd)
      PROVE  KeptInv'
  <2>1. CASE Request(fd)
    BY <2>1, AskTells, AskLoginTells, AskQuitTells DEF Request
  <2>2. CASE Accept(fd) \/ SendBytes(fd) \/ Vanish(fd)
    BY <2>2, AcceptTells, SendBytesTells, VanishTells
  <2>3. CASE Handle(fd)
    BY <2>3, RefuseLoginTells, AdmitTells, DoTells, BeginSetTells, EndSetTells,
       SetNothingTells, QuitTells, EndsTell DEF Handle
  <2> QED BY <1>1, <2>1, <2>2, <2>3
<1>2. CASE UNCHANGED svars
  <2>1. /\ UNCHANGED <<chan, name, inbox, loop, wanted, memKV, dbs, files, client>>
        /\ UNCHANGED <<request, truth, shared, lost>>
    BY <1>2 DEF svars
  <2>2. \A fd, m : Fits(fd, m)' <=> Fits(fd, m)
    BY <2>1 DEF Fits
  <2>3. \A fd, v : Wants(fd, v)' <=> Wants(fd, v)
    BY <2>1 DEF Wants
  <2>4. \A fd : Conversation(fd)' <=> Conversation(fd)
    BY <2>1, <2>2, <2>3 DEF Conversation
  <2>5. \A fd : Held(fd)' <=> Held(fd)
    BY <2>1 DEF Held, Db
  <2> QED BY <2>1, <2>4, <2>5 DEF KeptInv, Trusted
<1> QED BY <1>1, <1>2 DEF ServerNext

\* What is held is owed: the request is its connection's.
LEMMA HeldIsOwed ==
  ServerInv /\ KeptInv => AcknowledgedKept
<1> SUFFICES ASSUME ServerInv, KeptInv, NEW u \in Users \ (shared \cup lost), NEW v \in Vars
             PROVE  IF OpenOf(u) = {} THEN files[u][v] = truth[u][v]
                    ELSE \A i \in OpenOf(u) : dbs[i].map[v] \in Owed(u, v)
  BY DEF AcknowledgedKept
<1>1. u \in Trusted
  BY DEF Trusted
<1>2. CASE OpenOf(u) = {}
  <2>1. \A fd \in Fds : chan[fd] = "task" => name[fd] # u
    BY <1>2 DEF ServerInv, Routed
  <2> QED BY <1>1, <1>2, <2>1 DEF KeptInv
<1>3. ASSUME NEW i \in OpenOf(u)
      PROVE  dbs[i].map[v] \in Owed(u, v)
  <2>1. PICK fd \in Fds : chan[fd] = "task" /\ name[fd] = u /\ Db(fd) = i
    BY <1>3 DEF ServerInv, Routed
  <2>2. \/ dbs[i].map[v] = truth[u][v]
        \/ /\ request[fd] # None /\ request[fd].var = v
           /\ \/ dbs[i].map[v] = request[fd].value
              \/ client[fd] = "gone" /\ dbs[i].map[v] = Nuls
    BY <1>1, <2>1 DEF KeptInv, Held
  <2>3. CASE dbs[i].map[v] = truth[u][v]
    BY <2>3 DEF Owed
  <2>4. CASE /\ request[fd] # None /\ request[fd].var = v
             /\ \/ dbs[i].map[v] = request[fd].value
                \/ client[fd] = "gone" /\ dbs[i].map[v] = Nuls
    <3>1. dbs[i].map[v] \in {request[fd].value} \cup (IF client[fd] = "gone" THEN {Nuls} ELSE {})
      BY <2>4
    <3>2. fd \in {f \in Fds : name[f] = u /\ request[f] # None /\ request[f].var = v}
      BY <2>1, <2>4
    <3> QED BY <3>1, <3>2 DEF Owed
  <2> QED BY <2>2, <2>3, <2>4
<1> QED BY <1>2, <1>3

\* A change that a client was told of is in its user's database, or in the files
\* that close() wrote at QUIT, and one that no client was told of changes the
\* variable it is for only, to the value asked for, or to zeros when the client
\* of a SET is gone.  For users who never had two databases open, freed no
\* variable (erase() and put() both free its block) and lost no file to a
\* compaction, for any number of loops, descriptors, users and variables.
THEOREM AcknowledgedIsKept ==
  ServerSpec => []AcknowledgedKept
<1>1. ServerInit => ServerInv /\ KeptInv
  BY ServerStarts, KeptStarts
<1>2. (ServerInv /\ KeptInv) /\ [ServerNext]_svars => (ServerInv /\ KeptInv)'
  BY ServerKeeps, KeptKeeps
<1> QED BY <1>1, <1>2, HeldIsOwed, PTL DEF ServerSpec

=============================================================================
