------------------------------ MODULE SqlManager ------------------------------
(***************************************************************************)
(* class SqlManager (src/usrinfo/sqlmanager.cpp): a loop's connection to   *)
(* MySQL and the one result set it holds, which handleLoginEvent asks for  *)
(* the rows of a user.  Each loop has its own and only its thread uses it, *)
(* so a call is one step.  Nobody looks at what connect(), selectDB() and  *)
(* query() return.                                                         *)
(*                                                                         *)
(* MySQL is external: a table that others change, and a connection that    *)
(* may be refused or lost.  One that is lost inside a query is one lost    *)
(* before it: m_result is null either way.                                 *)
(***************************************************************************)
EXTENDS Integers

CONSTANTS
  Logins,    \* pairs of a name and a password
  Null,      \* a null pointer
  Garbage    \* what m_result holds at first: the constructor does not set it

ASSUME SqlAssumption == Null \notin Nat /\ Garbage \notin Nat /\ Null # Garbage

VARIABLES
  infos,      \* mem_socket_login_infos, of MySQL
  link,       \* m_conn: none, open, lost
  m_result,   \* the result set that is held, by number
  results,    \* number -> rows not fetched yet, of the sets not freed
  sets,       \* how many result sets there were
  manager,    \* made, connected, ready, deleted, or crashed with its process
  login       \* history: whether the last login's pair was in the table and
              \* whether it was let in

sqlvars == <<infos, link, m_result, results, sets, manager, login>>

\* freeResult(): the sets that are left.
Rest == [r \in DOMAIN results \ {m_result} |-> results[r]]

Holds(rows) ==
  /\ m_result' = sets /\ sets' = sets + 1
  /\ results' = [r \in DOMAIN Rest \cup {sets} |-> IF r = sets THEN rows ELSE Rest[r]]

\* Mutant: a query that fails returns before it frees.
QueryKeeps(answers) ==
  \/ link = "open" /\ \E rows \in answers : Holds(rows)
  \/ /\ link # "open" \/ answers = {}
     /\ UNCHANGED <<m_result, results, sets>>

\* query(): answers is {} for a statement that returns no rows.
Query(answers) ==
  \/ link = "open" /\ \E rows \in answers : Holds(rows)
  \/ /\ link # "open" \/ answers = {}
     /\ m_result' = Null /\ results' = Rest /\ UNCHANGED sets

\* EventLoop's constructor, with selectDB(), whose query frees what m_result
\* holds at first.
Connects ==
  /\ manager = "made" /\ manager' = "connected"
  /\ link' \in {"none", "open"}
  /\ UNCHANGED <<infos, m_result, results, sets, login>>

SelectDB ==
  /\ manager = "connected" /\ m_result = Null
  /\ Query({}) /\ manager' = "ready"
  /\ UNCHANGED <<infos, link, login>>

FreesGarbage ==
  /\ manager = "connected" /\ m_result = Garbage
  /\ \/ manager' = "crashed" /\ UNCHANGED m_result
     \/ manager' = "ready" /\ m_result' = Null
  /\ UNCHANGED <<infos, link, results, sets, login>>

\* QueryGetRes() of handleLoginEvent's statement, up to getRes().
QueryGetRes(pair) ==
  /\ manager = "ready" /\ manager' = "fetching"
  /\ Query({infos \cap {pair}})
  /\ login' = [known |-> pair \in infos, found |-> FALSE]
  /\ UNCHANGED <<infos, link>>

\* getRes() fetches every row; it follows the null pointer of a query that failed.
GetRes ==
  /\ manager = "fetching"
  /\ IF m_result = Null THEN manager' = "crashed" /\ UNCHANGED <<results, login>>
     ELSE /\ manager' = "ready"
          /\ login' = [login EXCEPT !.found = results[m_result] # {}]
          /\ results' = [results EXCEPT ![m_result] = {}]
  /\ UNCHANGED <<infos, link, m_result, sets>>

\* The destructor.
Deletes ==
  /\ manager = "ready" /\ manager' = "deleted"
  /\ link' = "none" /\ m_result' = Null /\ results' = Rest
  /\ UNCHANGED <<infos, sets, login>>

Changes(pair) ==
  /\ infos' = IF pair \in infos THEN infos \ {pair} ELSE infos \cup {pair}
  /\ UNCHANGED <<link, m_result, results, sets, manager, login>>

Loses ==
  /\ link = "open" /\ link' = "lost"
  /\ UNCHANGED <<infos, m_result, results, sets, manager, login>>

-----------------------------------------------------------------------------
SqlInit ==
  /\ infos \in SUBSET Logins /\ link = "none"
  /\ m_result \in {Null, Garbage} /\ results = [r \in {} |-> {}] /\ sets = 0
  /\ manager = "made" /\ login = [known |-> FALSE, found |-> FALSE]

\* What the server does with it, and what MySQL does.
SqlStep == Connects \/ SelectDB \/ FreesGarbage \/ GetRes \/ Deletes
MySQL   == Loses \/ \E pair \in Logins : Changes(pair)

SqlNext == SqlStep \/ MySQL \/ \E pair \in Logins : QueryGetRes(pair)

SqlSpec == SqlInit /\ [][SqlNext]_sqlvars

-----------------------------------------------------------------------------
(* Properties.                                                             *)

\* server.cpp:91: who is let in, or sent away, is so by the rows of the query
\* made for that login, whatever queries failed before and whoever changed the
\* table; and of all result sets MySQL handed out exactly the one that is held
\* is not freed (sqlmanager.cpp:31).
LoginByOwnRows ==
  manager \in {"ready", "deleted"} =>
    /\ login.found = login.known
    /\ DOMAIN results = {m_result} \ {Null}

=============================================================================
