----------------------------- MODULE MCManiFest -----------------------------
(***************************************************************************)
(* ManiFest on small instances.  The n-th table put stores the value n for *)
(* each of its keys, or a tombstone, so that every stale read shows.       *)
(***************************************************************************)
EXTENDS ManiFest

CONSTANTS
  MaxPuts,      \* bound: tables put
  MaxCrashes,   \* bound: crashes
  TableSizes,   \* bound: keys in one table, while nothing crashes
  MaxDeletes    \* bound: tombstones in one table

VARIABLES puts, crashes,
  faulty    \* of the sessions: they crash and begin again, with tables of one key

MCInit == ManiFestInit /\ puts = 0 /\ crashes = 0 /\ faulty \in {FALSE, MaxCrashes > 0}

MCPut ==
  /\ puts < MaxPuts
  /\ \E S \in SUBSET Keys : \E D \in SUBSET S :
       /\ Cardinality(S) \in (IF faulty THEN {1} ELSE TableSizes) /\ Cardinality(D) <= MaxDeletes
       /\ PutTable([k \in S |-> IF k \in D THEN Deleted ELSE puts + 1])
  /\ puts' = puts + 1
  /\ UNCHANGED <<crashes, faulty>>

MCCrash == /\ faulty /\ crashes < MaxCrashes /\ Crash
           /\ crashes' = crashes + 1 /\ UNCHANGED <<puts, faulty>>

\* manifest.log is read by a new session only.
MCFlush == faulty /\ crashes < MaxCrashes /\ FlushClear /\ UNCHANGED <<puts, crashes, faulty>>

MCStep == /\ \/ WriteTable
             \/ CompactLevel
             \/ NoVictim
             \/ CompactThrows
             \/ PutDone
             \/ FlushLog
             \/ Open
             \/ OpenAborts
          /\ UNCHANGED <<puts, crashes, faulty>>

MCNext == MCPut \/ MCCrash \/ MCFlush \/ MCStep

MCSpec == MCInit /\ [][MCNext]_<<mvars, puts, crashes, faulty>>

=============================================================================
