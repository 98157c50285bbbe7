------------------------------ MODULE KVStore -------------------------------
(***************************************************************************)
(* What the database promises its user: a map from keys to values that     *)
(* put, get and erase read and write, that a close keeps for the next      *)
(* session, and that flushes and compactions do not touch.  A crash may    *)
(* change it.  Once status is "lost" nothing is promised any more: the     *)
(* implementation says when.                                               *)
(***************************************************************************)
CONSTANTS
  Keys, Values, Absent,
  Misses       \* the answers a get() of an absent key may give

VARIABLES
  store,       \* key -> value, or Absent
  reply,       \* the last get(): <<key, answer>>
  status       \* "open", "closed", "down" or "lost"

Stores == [Keys -> Values \cup {Absent}]

Init ==
  /\ store = [k \in Keys |-> Absent]
  /\ reply = <<>>
  /\ status = "open"

Put(k, v) ==
  /\ status = "open"
  /\ store' = [store EXCEPT ![k] = v]
  /\ UNCHANGED <<reply, status>>

Erase(k) ==
  /\ status = "open"
  /\ store' = [store EXCEPT ![k] = Absent]
  /\ UNCHANGED <<reply, status>>

Get(k) ==
  /\ status = "open"
  /\ \E r \in (IF store[k] = Absent THEN Misses ELSE {store[k]}) : reply' = <<k, r>>
  /\ UNCHANGED <<store, status>>

Close ==
  /\ status = "open"
  /\ status' = "closed"
  /\ UNCHANGED <<store, reply>>

Crash ==
  /\ status = "open"
  /\ status' = "down"
  /\ store' \in Stores
  /\ UNCHANGED reply

Reopen ==
  /\ status \in {"closed", "down"}
  /\ status' = "open"
  /\ UNCHANGED <<store, reply>>

Lose == status' = "lost"

Next ==
  \/ \E k \in Keys : Get(k) \/ Erase(k) \/ \E v \in Values : Put(k, v)
  \/ Close \/ Crash \/ Reopen \/ Lose

Spec == Init /\ [][Next]_<<store, reply, status>>
=============================================================================
