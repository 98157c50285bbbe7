------------------------------- MODULE MCRuntime -------------------------------
(***************************************************************************)
(* What the server runs on, on small instances: the memory pool, the       *)
(* thread pool, the reactor and the loops' connections to MySQL.  They     *)
(* share no state, so a behaviour is of one of them, which `part' names,   *)
(* and leaves the others alone.                                            *)
(***************************************************************************)
EXTENDS MemPool, ThreadsPool, Reactor, SqlManager

CONSTANTS
  Parts,         \* of memory, threads, events and users
  Spares,        \* sets of descriptors for connections
  MaxRequests,   \* bound: requests clients send, or logins
  MaxVanish      \* bound: clients that disconnect unasked

VARIABLES part, requests, vanished

bounds == <<part, requests, vanished>>
rtvars == <<poolvars, poolstate, revars, sqlvars, bounds>>

MCInit ==
  /\ part \in Parts /\ requests = 0 /\ vanished = 0
  /\ PoolInit /\ (part = "memory" \/ fit = "FIRST_FIT")
  /\ ThreadsInit
  /\ ReactorInit /\ spare \in Spares /\ (part = "events" \/ spare = {})
  /\ SqlInit /\ (part = "users" \/ (infos = {} /\ m_result = Null))

Memory  == part = "memory" /\ PoolNext /\ UNCHANGED <<poolstate, revars, sqlvars, bounds>>

Unowned == /\ part = "threads" /\ UNCHANGED <<poolvars, revars, sqlvars, bounds>>
           /\ \/ \E t \in Tasks : Commit(t)
              \/ Stop
Ending  == part = "threads" /\ (Post \/ Join) /\ UNCHANGED <<poolvars, revars, sqlvars, bounds>>
Working(w) == part = "threads" /\ WorkerStep(w) /\ UNCHANGED <<poolvars, revars, sqlvars, bounds>>

\* Clients that are away are alike, so one of them stands for all.
NextToCome == IF \E c \in Conns : client[c] = "away"
              THEN CHOOSE c \in Conns : client[c] = "away" ELSE None

Events  == part = "events" /\ UNCHANGED <<part, poolvars, poolstate, sqlvars>>
Asking  == /\ Events /\ requests < MaxRequests
           /\ \E c \in Conns, msg \in {"ask", "set", "leave"} : AskFor(c, msg)
           /\ requests' = requests + 1 /\ UNCHANGED vanished
Leaving == /\ Events /\ vanished < MaxVanish
           /\ \E c \in Conns : Disconnect(c)
           /\ vanished' = vanished + 1 /\ UNCHANGED requests
Going   == /\ Events
           /\ \/ \E c \in Conns : c = NextToCome /\ Connect(c)
              \/ \E c \in Conns : SendValue(c)
           /\ UNCHANGED <<requests, vanished>>
Looping(l) == Events /\ ThreadStep(l) /\ UNCHANGED <<requests, vanished>>

Users   == part = "users" /\ UNCHANGED <<part, vanished, poolvars, poolstate, revars>>
Login   == /\ Users /\ requests < MaxRequests
           /\ \E pair \in Logins : QueryGetRes(pair)
           /\ requests' = requests + 1
Manager == Users /\ (SqlStep \/ MySQL) /\ UNCHANGED requests

MCNext ==
  \/ Memory
  \/ Unowned \/ Ending \/ \E w \in Workers : Working(w)
  \/ Asking \/ Leaving \/ Going \/ \E l \in EventLoops : Looping(l)
  \/ Login \/ Manager

MCSpec == MCInit /\ [][MCNext]_rtvars

\* The types of the three.
RuntimeTypeOK == PoolTypeOK /\ ThreadsTypeOK /\ ReactorTypeOK

\* The fairness of ThreadsSpec and of ReactorSpec.
MCFairSpec ==
  /\ MCSpec
  /\ WF_rtvars(Ending) /\ \A w \in Workers : WF_rtvars(Working(w))
  /\ \A l \in EventLoops : WF_rtvars(Looping(l))

=============================================================================
