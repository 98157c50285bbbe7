-------------------------------- MODULE Server --------------------------------
(***************************************************************************)
(* The server's sessions: class Server (src/server.cpp) with its event     *)
(* loops, channels and acceptor, and the requests of the client library    *)
(* (src/mem_socket_client).  A loop is one thread; it runs one handler at  *)
(* a time, and the loops share nothing but the users' files.  A database   *)
(* is KVStore, which DBImpl refines: a map, until an erase found its key   *)
(* or a compaction missed a file, and nothing that is promised after that. *)
(* Logs that cannot be parsed are DBImpl's matter.                         *)
(*                                                                         *)
(* A handler is one step, but for SET, which waits for a second message    *)
(* in the middle; it may also never end, or end its loop.  Client and      *)
(* server exchange whole messages: both sides send buffers of 128 bytes,   *)
(* and the client waits for each answer.                                   *)
(***************************************************************************)
EXTENDS Integers, Sequences, FiniteSets

CONSTANTS
  Fds,        \* descriptors accept() may return
  NumLoops,   \* subloops.size()
  Users,      \* rows of the user table
  Vars,       \* names of variables
  Bytes,      \* what a client writes into a variable
  Fresh,      \* what NEW leaves in one
  Nuls,       \* what is there of bytes that were not received
  Absent,     \* no value: {nullptr, 0}, or the mark of a deleted one
  None        \* no database, no user, no client

ASSUME FdsAssumption   == Fds \subseteq Nat /\ NumLoops \in Nat \ {0}
ASSUME BytesAssumption == Fresh \notin Bytes /\ Absent \notin Bytes \cup {Fresh, Nuls}

\* A variable, and the value that a request is to give it.
Change == [var : Vars, value : Bytes \cup {Fresh, Absent}]

ASSUME NoneAssumption  == None \notin Users \cup Nat \cup (Fds \X Vars) \cup Change

VARIABLES
  chan,    \* fd -> which handler is its callback: none, login or task
  name,    \* fd -> the user it logged in as
  inbox,   \* fd -> messages sent and not read
  loop,    \* loop -> polling, receiving (inside a SET), hung (in a compaction
           \* that does not end) or dead
  wanted,  \* loop -> whose bytes it is receiving, <<fd, variable>>, or None
  memKV,   \* loop -> (user -> number of a database, or None)
  dbs,     \* the databases made so far: whose, whether open, the map it is
  files,   \* user -> the map a closed database left
  alive,   \* the process runs
  client,  \* fd -> off, ready, awaiting (an OK), sending (the bytes of a SET),
           \* early (the same, and the OK is there), gone
  request, \* history: fd -> the variable its client changes and has no OK for,
           \* and the value it is to have, or None
  truth,   \* history: user -> the map of what clients were told is stored
  shared,  \* history: users who had two databases open at once
  lost     \* history: users whose database promises nothing any more

svars == <<chan, name, inbox, loop, wanted, memKV, dbs, files, alive, client, request,
           truth, shared, lost>>
history == <<request, truth, shared, lost>>

Loops     == 0..(NumLoops - 1)
LoopOf(fd) == fd % NumLoops
Map       == [Vars -> Bytes \cup {Fresh, Nuls, Absent}]

Message == [op : {"LOGIN"}, user : Users \cup {None}]
      \cup [op : {"NEW", "GET", "SET", "DES"}, var : Vars]
      \cup [op : {"BYTES"}, bytes : Bytes]
      \cup [op : {"QUIT", "EOF"}]

OpenOf(u) == {i \in DOMAIN dbs : dbs[i].user = u /\ dbs[i].open}
Db(fd)    == memKV[LoopOf(fd)][name[fd]]
Says(fd, m)  == inbox' = [inbox EXCEPT ![fd] = Append(@, m)]
Reads(fd)    == inbox' = [inbox EXCEPT ![fd] = Tail(@)]
Client(fd, to) == client' = [client EXCEPT ![fd] = to]

\* The client is told that its request was carried out.
Acknowledged(fd) ==
  /\ truth' = IF request[fd] = None THEN truth
              ELSE [truth EXCEPT ![name[fd]][request[fd].var] = request[fd].value]
  /\ request' = [request EXCEPT ![fd] = None]

\* The OK; it finds a client gone, or still busy with the bytes of a SET.
Answers(fd) ==
  /\ Client(fd, CASE client[fd] = "gone" -> "gone"
                  [] client[fd] = "sending" -> "early"
                  [] OTHER -> "ready")
  /\ IF client[fd] = "awaiting" THEN Acknowledged(fd) ELSE UNCHANGED <<truth, request>>

-----------------------------------------------------------------------------
(* The clients.  A client sends one request and waits for its OK, reads    *)
(* and writes variables its user has, and may vanish at any time.          *)

servervars == <<chan, name, loop, wanted, memKV, dbs, files, alive, shared, lost>>

\* What a request is to make of the variable v.
Changes(op, v) ==
  IF op = "GET" THEN {None}
  ELSE [var : {v}, value : CASE op = "NEW" -> {Fresh} [] op = "SET" -> Bytes [] op = "DES" -> {Absent}]

\* memAsk, memRead, memWrite, memFree.
Ask(fd, op, v) ==
  /\ client[fd] = "ready" /\ chan[fd] = "task"
  /\ op # "NEW" => truth[name[fd]][v] # Absent
  /\ Says(fd, [op |-> op, var |-> v])
  /\ Client(fd, IF op = "SET" THEN "sending" ELSE "awaiting")
  /\ \E change \in Changes(op, v) : request' = [request EXCEPT ![fd] = change]
  /\ UNCHANGED <<servervars, truth>>

\* Login: a pair the user table knows, or one it does not (None).
AskLogin(fd, u) ==
  /\ client[fd] = "ready" /\ chan[fd] = "login"
  /\ Says(fd, [op |-> "LOGIN", user |-> u]) /\ Client(fd, "awaiting")
  /\ UNCHANGED <<servervars, request, truth>>

\* The second send of memWrite.
SendBytes(fd) ==
  /\ client[fd] \in {"sending", "early"}
  /\ Says(fd, [op |-> "BYTES", bytes |-> request[fd].value])
  /\ IF client[fd] = "early" THEN Client(fd, "ready") /\ Acknowledged(fd)
     ELSE Client(fd, "awaiting") /\ UNCHANGED <<truth, request>>
  /\ UNCHANGED servervars

\* Exit: no answer is waited for.
AskQuit(fd) ==
  /\ client[fd] = "ready" /\ chan[fd] = "task"
  /\ Says(fd, [op |-> "QUIT"]) /\ Client(fd, "gone")
  /\ UNCHANGED <<servervars, request, truth>>

\* The client's process ends: its socket is closed.
Vanish(fd) ==
  /\ client[fd] \in {"ready", "awaiting", "sending", "early"}
  /\ Says(fd, [op |-> "EOF"]) /\ Client(fd, "gone")
  /\ UNCHANGED <<servervars, request, truth>>

-----------------------------------------------------------------------------
(* The main loop.                                                          *)

\* handleConnectionEvent: a channel on one of the loops, and the first OK.
Accept(fd) ==
  /\ alive /\ chan[fd] = "none" /\ client[fd] = "off"
  /\ chan' = [chan EXCEPT ![fd] = "login"]
  /\ inbox' = [inbox EXCEPT ![fd] = <<>>]
  /\ Client(fd, "ready")
  /\ UNCHANGED <<name, loop, wanted, memKV, dbs, files, alive, history>>

-----------------------------------------------------------------------------
(* A loop.                                                                 *)

\* The channel's loop is polling and reads the message from it.
Polls(fd, ops) ==
  /\ alive /\ loop[LoopOf(fd)] = "polling"
  /\ inbox[fd] # <<>> /\ Head(inbox[fd]).op \in ops

\* disableReading() and ~Channel(): the descriptor is free again.
CloseChannel(fd) ==
  /\ chan' = [chan EXCEPT ![fd] = "none"]
  /\ name' = [name EXCEPT ![fd] = None]
  /\ inbox' = [inbox EXCEPT ![fd] = <<>>]
  /\ request' = [request EXCEPT ![fd] = None]
  /\ Client(fd, "off")

\* handleLoginEvent, line 98: no such row.
RefuseLogin(fd) ==
  /\ chan[fd] = "login" /\ Polls(fd, {"LOGIN"}) /\ Head(inbox[fd]).user = None
  /\ CloseChannel(fd)
  /\ UNCHANGED <<loop, wanted, memKV, dbs, files, alive, truth, shared, lost>>

\* Mutant: the new database does not read the user's files.
OpeningsEmpty(u) == {[v \in Vars |-> Absent]}

\* A database opened while others of the user are open finds some of their
\* pairs in the files and the log, whichever they have let go of so far.
Openings(u) ==
  {m \in Map : \A v \in Vars : m[v] \in {files[u][v]} \cup {dbs[i].map[v] : i \in OpenOf(u)}}

\* Mutant: the entry is set before the new database is there.
AdmitStale(fd) ==
  /\ chan[fd] = "login" /\ Polls(fd, {"LOGIN"})
  /\ LET u == Head(inbox[fd]).user
     IN  /\ u # None
         /\ \E m \in Openings(u) : dbs' = Append(dbs, [user |-> u, open |-> TRUE, map |-> m])
         /\ memKV' = [memKV EXCEPT ![LoopOf(fd)][u] = Len(dbs)]
         /\ shared' = IF OpenOf(u) = {} THEN shared ELSE shared \cup {u}
         /\ name' = [name EXCEPT ![fd] = u]
  /\ chan' = [chan EXCEPT ![fd] = "task"]
  /\ Reads(fd) /\ Answers(fd)
  /\ UNCHANGED <<loop, wanted, files, alive, lost>>

\* Lines 106-115: memKV[username] = new DB(username), whatever was there.
Admit(fd) ==
  /\ chan[fd] = "login" /\ Polls(fd, {"LOGIN"})
  /\ LET u == Head(inbox[fd]).user
     IN  /\ u # None
         /\ \E m \in Openings(u) : dbs' = Append(dbs, [user |-> u, open |-> TRUE, map |-> m])
         /\ memKV' = [memKV EXCEPT ![LoopOf(fd)][u] = Len(dbs) + 1]
         /\ shared' = IF OpenOf(u) = {} THEN shared ELSE shared \cup {u}
         /\ name' = [name EXCEPT ![fd] = u]
  /\ chan' = [chan EXCEPT ![fd] = "task"]
  /\ Reads(fd) /\ Answers(fd)
  /\ UNCHANGED <<loop, wanted, files, alive, lost>>

\* Any operation may write a table, and the compaction that follows may miss a
\* file of the next level (KVStore's Lose): the map says nothing from then on.
MayLose(fd) == lost' \in {lost, lost \cup {name[fd]}}

\* The database answers for v from now on with x.
Stores(fd, v, x) == dbs' = [dbs EXCEPT ![Db(fd)].map[v] = x]

\* handleFreeMemplace: the mark of a deleted variable takes its place.  Its block
\* is given back by erase() and again by put() (db_impl.cpp:209, 93), so values of
\* other variables may be overwritten later.
Frees(fd, v) == Stores(fd, v, Absent) /\ lost' = lost \cup {name[fd]}

\* Mutant: a DES is carried out and not answered.
DoSilent(fd) ==
  /\ chan[fd] = "task" /\ Polls(fd, {"NEW", "GET", "DES"}) /\ Db(fd) # None
  /\ LET m == Head(inbox[fd])
     IN  /\ CASE m.op = "NEW" -> Stores(fd, m.var, Fresh) /\ MayLose(fd)
              [] m.op = "DES" -> Frees(fd, m.var)
              [] m.op = "GET" -> UNCHANGED dbs /\ MayLose(fd)
         /\ IF m.op = "DES" THEN UNCHANGED <<client, request, truth>> ELSE Answers(fd)
  /\ Reads(fd)
  /\ UNCHANGED <<chan, name, loop, wanted, memKV, files, alive, shared>>

\* handleNewMemplace, handleInputValue, handleFreeMemplace: the operation,
\* then the OK.
Do(fd) ==
  /\ chan[fd] = "task" /\ Polls(fd, {"NEW", "GET", "DES"}) /\ Db(fd) # None
  /\ LET m == Head(inbox[fd])
     IN  CASE m.op = "NEW" -> Stores(fd, m.var, Fresh) /\ MayLose(fd)
           [] m.op = "DES" -> Frees(fd, m.var)
           [] m.op = "GET" -> UNCHANGED dbs /\ MayLose(fd)
  /\ Reads(fd) /\ Answers(fd)
  /\ UNCHANGED <<chan, name, loop, wanted, memKV, files, alive, shared>>

\* handleOutputValue up to recv(): the loop waits for the bytes.
BeginSet(fd) ==
  /\ chan[fd] = "task" /\ Polls(fd, {"SET"}) /\ Db(fd) # None
  /\ MayLose(fd)
  /\ loop' = [loop EXCEPT ![LoopOf(fd)] = "receiving"]
  /\ wanted' = [wanted EXCEPT ![LoopOf(fd)] = <<fd, Head(inbox[fd]).var>>]
  /\ Reads(fd)
  /\ UNCHANGED <<chan, name, memKV, dbs, files, alive, client, request, truth, shared>>

\* Lines 253-283: the bytes, or nothing from a client that is gone: what was
\* not received is zero.  The end of the stream stays to be read.
EndSet(fd) ==
  /\ alive /\ inbox[fd] # <<>> /\ MayLose(fd)
  /\ \E v \in Vars :
       /\ wanted[LoopOf(fd)] = <<fd, v>>
       /\ IF Head(inbox[fd]).op = "BYTES"
          THEN Stores(fd, v, Head(inbox[fd]).bytes) /\ Reads(fd) /\ Answers(fd)
          ELSE Stores(fd, v, Nuls) /\ UNCHANGED <<inbox, client, request, truth>>
  /\ loop' = [loop EXCEPT ![LoopOf(fd)] = "polling"]
  /\ wanted' = [wanted EXCEPT ![LoopOf(fd)] = None]
  /\ UNCHANGED <<chan, name, memKV, files, alive, shared>>

\* The database has no value for the variable the message is about, or may have
\* none.
MissesVar(fd, ops) ==
  /\ chan[fd] = "task" /\ Polls(fd, ops) /\ Db(fd) # None
  /\ dbs[Db(fd)].map[Head(inbox[fd]).var] = Absent \/ name[fd] \in lost

\* A SET of a variable the database does not have: nothing is received and an
\* empty value is put, which reads as none; the bytes stay to be read.
SetNothing(fd) ==
  /\ MissesVar(fd, {"SET"}) /\ MayLose(fd)
  /\ Stores(fd, Head(inbox[fd]).var, Absent)
  /\ Reads(fd) /\ Answers(fd)
  /\ UNCHANGED <<chan, name, loop, wanted, memKV, files, alive, shared>>

\* Mutant: the entry is erased and the database is not closed.
QuitUnclosed(fd) ==
  /\ chan[fd] = "task" /\ Polls(fd, {"QUIT"}) /\ Db(fd) # None
  /\ MayLose(fd)
  /\ memKV' = [memKV EXCEPT ![LoopOf(fd)][name[fd]] = None]
  /\ CloseChannel(fd)
  /\ UNCHANGED <<loop, wanted, dbs, files, alive, truth, shared>>

\* Lines 146-151: close() writes the user's files; the entry goes, the channel
\* too.  Another connection of the user is not asked.
Quit(fd) ==
  /\ chan[fd] = "task" /\ Polls(fd, {"QUIT"}) /\ Db(fd) # None
  /\ MayLose(fd)
  /\ dbs' = [dbs EXCEPT ![Db(fd)].open = FALSE]
  /\ files' = [files EXCEPT ![name[fd]] = dbs[Db(fd)].map]
  /\ memKV' = [memKV EXCEPT ![LoopOf(fd)][name[fd]] = None]
  /\ CloseChannel(fd)
  /\ UNCHANGED <<loop, wanted, alive, truth, shared>>

\* The process ends: a handler follows the null pointer that operator [] makes
\* for a user without a database; it reads the value of a missing variable or
\* frees it; or a value and then an OK are sent to a client that is gone
\* (SIGPIPE).
Dies(fd) ==
  /\ \/ /\ chan[fd] = "task" /\ Db(fd) = None
        /\ Polls(fd, {"NEW", "GET", "SET", "DES", "QUIT"})
     \/ MissesVar(fd, {"GET", "DES"})
     \/ chan[fd] = "task" /\ Polls(fd, {"GET"}) /\ client[fd] = "gone"
  /\ alive' = FALSE
  /\ UNCHANGED <<chan, name, inbox, loop, wanted, memKV, dbs, files, client, history>>

\* The handler is in an operation of its database, or about to put the bytes of
\* a SET.
InDatabase(fd) ==
  \/ chan[fd] = "task" /\ Polls(fd, {"NEW", "GET", "SET", "DES", "QUIT"}) /\ Db(fd) # None
  \/ alive /\ inbox[fd] # <<>> /\ \E v \in Vars : wanted[LoopOf(fd)] = <<fd, v>>

\* The operation does not return.  A compaction it runs draws file ids for ever
\* (ManiFest's NoVictim, manifest.cpp:123); or it throws, for a file that is
\* missing from the folders (CompactThrows) or from the ring (Throws): the
\* exception ends loop(), and the pool keeps it in the future.
Breaks(fd) ==
  /\ InDatabase(fd)
  /\ \E end \in {"hung", "dead"} : loop' = [loop EXCEPT ![LoopOf(fd)] = end]
  /\ wanted' = [wanted EXCEPT ![LoopOf(fd)] = None]
  /\ Reads(fd)
  /\ UNCHANGED <<chan, name, memKV, dbs, files, alive, client, history>>

\* Something that is no command, the end of the stream among it: sRead runs
\* past its buffer.  It meets the end of the stack, or something stoi() throws
\* on, which ends loop() in the same way.
Garbage(fd) ==
  /\ chan[fd] # "none" /\ Polls(fd, {"EOF", "BYTES"})
  /\ Reads(fd)
  /\ \/ alive' = FALSE /\ UNCHANGED loop
     \/ loop' = [loop EXCEPT ![LoopOf(fd)] = "dead"] /\ UNCHANGED alive
  /\ UNCHANGED <<chan, name, wanted, memKV, dbs, files, client, history>>

-----------------------------------------------------------------------------
ServerInit ==
  /\ chan = [fd \in Fds |-> "none"] /\ name = [fd \in Fds |-> None]
  /\ inbox = [fd \in Fds |-> <<>>]
  /\ loop = [l \in Loops |-> "polling"] /\ wanted = [l \in Loops |-> None]
  /\ memKV = [l \in Loops |-> [u \in Users |-> None]]
  /\ dbs = <<>>
  /\ files = [u \in Users |-> [v \in Vars |-> Absent]]
  /\ alive = TRUE
  /\ client = [fd \in Fds |-> "off"]
  /\ request = [fd \in Fds |-> None]
  /\ truth = files /\ shared = {} /\ lost = {}

Handle(fd) ==
  \/ RefuseLogin(fd) \/ Admit(fd) \/ Do(fd) \/ BeginSet(fd) \/ EndSet(fd)
  \/ SetNothing(fd) \/ Quit(fd) \/ Dies(fd) \/ Breaks(fd) \/ Garbage(fd)

Request(fd) ==
  \/ \E op \in {"NEW", "GET", "SET", "DES"}, v \in Vars : Ask(fd, op, v)
  \/ \E u \in Users \cup {None} : AskLogin(fd, u)
  \/ AskQuit(fd)

ServerNext ==
  \E fd \in Fds : Accept(fd) \/ Request(fd) \/ SendBytes(fd) \/ Vanish(fd) \/ Handle(fd)

\* A loop that polls goes on to the channels that are ready; epoll_wait
\* returns all of them, and each is handled before the next poll.
ServerSpec ==
  ServerInit /\ [][ServerNext]_svars /\ \A fd \in Fds : WF_svars(Handle(fd))

-----------------------------------------------------------------------------
(* Properties.                                                             *)

\* Every variable keeps its type.
ServerTypeOK ==
  /\ chan \in [Fds -> {"none", "login", "task"}] /\ name \in [Fds -> Users \cup {None}]
  /\ inbox \in [Fds -> Seq(Message)]
  /\ loop \in [Loops -> {"polling", "receiving", "hung", "dead"}]
  /\ wanted \in [Loops -> (Fds \X Vars) \cup {None}]
  /\ memKV \in [Loops -> [Users -> DOMAIN dbs \cup {None}]]
  /\ \A i \in DOMAIN dbs : dbs[i] \in [user : Users, open : BOOLEAN, map : Map]
  /\ files \in [Users -> Map] /\ truth \in [Users -> Map]
  /\ request \in [Fds -> Change \cup {None}]
  /\ alive \in BOOLEAN /\ shared \subseteq Users /\ lost \subseteq Users
  /\ client \in [Fds -> {"off", "ready", "awaiting", "sending", "early", "gone"}]

\* A connection that logged in reaches an open database of its own user, and
\* every open database is reached by one, for users who never had two open
\* at once: whatever others on the same loop do, and whatever descriptor
\* the user comes back on.
Routed ==
  /\ \A fd \in Fds : chan[fd] = "task" /\ name[fd] \notin shared =>
       Db(fd) \in OpenOf(name[fd])
  /\ \A u \in Users \ shared : \A i \in OpenOf(u) :
       \E fd \in Fds : chan[fd] = "task" /\ name[fd] = u /\ Db(fd) = i

\* What the user's database may answer for v: what clients were last told, or
\* what a request without an answer was to make of it; zeros if its client is
\* gone, for then the bytes of a SET may not have come.
Owed(u, v) ==
  {truth[u][v]} \cup
  UNION {{request[fd].value} \cup (IF client[fd] = "gone" THEN {Nuls} ELSE {}) :
           fd \in {f \in Fds : name[f] = u /\ request[f] # None /\ request[f].var = v}}

\* A change a client was told of is in the user's database, and in the files
\* while none is open, across QUIT and the next login on whatever loop; one it
\* was not told of changes its own variable only.  For users whose database
\* still promises what it holds (KVStore): none of their variables was freed and
\* no compaction missed a file.
AcknowledgedKept ==
  \A u \in Users \ (shared \cup lost) : \A v \in Vars :
    IF OpenOf(u) = {} THEN files[u][v] = truth[u][v]
    ELSE \A i \in OpenOf(u) : dbs[i].map[v] \in Owed(u, v)

\* A waiting client is answered, unless the process has ended or its own loop
\* has, hangs in a compaction, or waits for the bytes of a client that does not
\* send them: nothing on another loop can keep it waiting.
Answered ==
  \A fd \in Fds :
    (client[fd] = "awaiting") ~>
       \/ client[fd] # "awaiting" \/ ~alive \/ loop[LoopOf(fd)] \in {"hung", "dead"}
       \/ \E f \in Fds : LoopOf(f) = LoopOf(fd) /\ client[f] = "sending"

\* README.md (server), "after connecting, after login and after every
\* operation an OK is received": while a client waits for its OK, the process
\* that should send it runs.
OkIsComing == (\E fd \in Fds : client[fd] = "awaiting") => alive

\* The same: a waiting client is answered as long as its loop works, whatever
\* other clients of the loop do or leave undone.
AnsweredWhateverOthersDo ==
  \A fd \in Fds :
    (client[fd] = "awaiting") ~>
       client[fd] # "awaiting" \/ ~alive \/ loop[LoopOf(fd)] \in {"hung", "dead"}

\* server.cpp:238, "one recv, of the bytes of the value": a variable is what NEW
\* made it or what a client sent for it.
OnlySentIsStored ==
  \A u \in Users \ (shared \cup lost) : \A i \in OpenOf(u) : \A v \in Vars : dbs[i].map[v] # Nuls

\* server.cpp:130, "QUIT, or anything else: the connection is closed", which the
\* end of the stream is.
EndCloses ==
  [][\A fd \in Fds : chan[fd] = "task" /\ inbox[fd] = <<[op |-> "EOF"]>> /\ inbox'[fd] = <<>>
                     => chan'[fd] = "none"]_svars

=============================================================================
