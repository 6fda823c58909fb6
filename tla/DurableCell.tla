---------------------------- MODULE DurableCell ----------------------------
(***************************************************************************)
(* What an atomic single-record store promises its caller, with no word    *)
(* about files: one cell, the values asked for since the last confirmed    *)
(* operation, and the values a power loss may leave behind.                *)
(*                                                                         *)
(* The promise has one exception, and it is the store's: while the cell    *)
(* may still be absent, an interrupted first write can leave Torn in it.   *)
(***************************************************************************)
EXTENDS FiniteSets

CONSTANTS Values,   \* the records a caller may store
          Absent,   \* no record
          Torn      \* a record cut short

VARIABLES held,       \* what loading the cell returns
          survivors,  \* what loading may return after a power loss
          offered     \* the confirmed content and everything asked for since

cell == <<held, survivors, offered>>

(* What the cell may contain: only what was offered, and Torn only while a *)
(* first write is unconfirmed.                                             *)
Allowed(o) == IF Absent \in o /\ o # {Absent} THEN o \cup {Torn} ELSE o

Init ==
  /\ held = Absent
  /\ survivors = {Absent}
  /\ offered = {Absent}

(* A caller asks for the cell to become x (Absent: to be removed). *)
Request(x) ==
  /\ offered' = offered \cup {x}
  /\ UNCHANGED <<held, survivors>>

(* The store works on the requests, or falls back after an interruption. *)
Drift ==
  /\ held' \in Allowed(offered)
  /\ survivors' \in SUBSET Allowed(offered)
  /\ held' \in survivors'
  /\ UNCHANGED offered

(* The store answers "done": x is there, and only x can come back. *)
Confirm(x) ==
  /\ x \in offered
  /\ held' = x
  /\ survivors' = {x}
  /\ offered' = {x}

Next ==
  \/ \E x \in Values \cup {Absent} : Request(x) \/ Confirm(x)
  \/ Drift

Spec == Init /\ [][Next]_cell
=============================================================================
