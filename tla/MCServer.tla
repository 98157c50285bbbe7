------------------------------- MODULE MCServer -------------------------------
(***************************************************************************)
(* Server on small instances.                                              *)
(***************************************************************************)
EXTENDS Server

CONSTANTS
  MaxAccepts,   \* bound: connections
  MaxAsks,      \* bound: operations, and logins that are refused
  MaxFaults,    \* bound: clients that vanish, operations that do not return, and
                \* compactions that miss a file
  MaxEvents     \* bound: connections, operations and faults together

VARIABLES accepts, asks, faults

counts == <<accepts, asks, faults>>

More == accepts + asks + faults < MaxEvents

MCInit == ServerInit /\ accepts = 0 /\ asks = 0 /\ faults = 0

MCAccept == /\ More /\ accepts < MaxAccepts /\ \E fd \in Fds : Accept(fd)
            /\ accepts' = accepts + 1 /\ UNCHANGED <<asks, faults>>

MCAsk == /\ More /\ asks < MaxAsks
         /\ \E fd \in Fds : \/ \E op \in {"NEW", "GET", "SET", "DES"}, v \in Vars : Ask(fd, op, v)
                            \/ AskLogin(fd, None)
         /\ asks' = asks + 1 /\ UNCHANGED <<accepts, faults>>

MCVanish == /\ More /\ faults < MaxFaults /\ \E fd \in Fds : Vanish(fd)
            /\ faults' = faults + 1 /\ UNCHANGED <<accepts, asks>>

MCSession == /\ \E fd \in Fds : \/ \E u \in Users : AskLogin(fd, u)
                                \/ AskQuit(fd)
                                \/ SendBytes(fd)
             /\ UNCHANGED counts

\* A handler that goes wrong; it need not, so the bound disables none.
Fails(fd) == Breaks(fd) \/ (lost' # lost /\ Head(inbox[fd]).op # "DES")

MCHandle(fd) ==
  /\ Handle(fd)
  /\ IF Fails(fd) THEN More /\ faults < MaxFaults /\ faults' = faults + 1 ELSE UNCHANGED faults
  /\ UNCHANGED <<accepts, asks>>

\* Bound: clients say nothing to a process that has ended.
MCClient == alive /\ (MCAsk \/ MCVanish \/ MCSession)

MCNext == MCAccept \/ MCClient \/ \E fd \in Fds : MCHandle(fd)

MCSpec == /\ MCInit /\ [][MCNext]_<<svars, counts>>
          /\ \A fd \in Fds : WF_<<svars, counts>>(MCHandle(fd))

=============================================================================
