------------------------------ MODULE MCDBImpl ------------------------------
(***************************************************************************)
(* DBImpl on small instances.  The n-th put stores the value n.            *)
(***************************************************************************)
EXTENDS DBImpl, TLC

CONSTANTS
  MaxPuts,      \* bound: puts
  MaxErases,    \* bound: erases
  MaxCrashes,   \* bound: crashes
  MaxSessions   \* bound: sessions after the first

VARIABLES puts, erases, crashes, sessions

BlockSymmetry == Permutations(Blocks)

counts == <<puts, erases, crashes, sessions>>

MCInit == Init /\ puts = 0 /\ erases = 0 /\ crashes = 0 /\ sessions = 0

MCPut == /\ puts < MaxPuts
         /\ \E k \in Keys : Put(k, puts + 1)
         /\ puts' = puts + 1
         /\ UNCHANGED <<erases, crashes, sessions>>

MCGet == \E k \in Keys : Get(k) /\ UNCHANGED counts

MCErase == /\ erases < MaxErases
           /\ \E k \in Keys : Erase(k)
           /\ erases' = erases + 1
           /\ UNCHANGED <<puts, crashes, sessions>>

MCCrash == /\ crashes < MaxCrashes /\ CrashDB
           /\ crashes' = crashes + 1
           /\ UNCHANGED <<puts, erases, sessions>>

MCClose == sessions < MaxSessions /\ Close /\ UNCHANGED counts

MCOpen == /\ sessions < MaxSessions /\ OpenDB
          /\ sessions' = sessions + 1
          /\ UNCHANGED <<puts, erases, crashes>>

\* The steps the thread takes by itself.
MCRun == /\ \/ EraseDies
            \/ EraseMark
            \/ FlushMem
            \/ StoreTable
            \/ FlushDone
            \/ CloseNode
            \/ CloseFlush
            \/ CloseManifest
            \/ CloseDone
            \/ OpenDBAborts
            \/ ManiFestRuns
         /\ UNCHANGED counts

MCNext == MCPut \/ MCGet \/ MCErase \/ MCCrash \/ MCClose \/ MCOpen \/ MCRun

MCSpec == MCInit /\ [][MCNext]_<<vars, counts>>

\* The thread that runs an operation is scheduled until it returns.
MCFairSpec == MCSpec /\ WF_<<vars, counts>>(MCRun)

=============================================================================
