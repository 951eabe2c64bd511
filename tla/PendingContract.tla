--------------------------- MODULE PendingContract ---------------------------
(***************************************************************************)
(* What the PendingStore interface promises (pkg/ethkit/pending.go:31-51). *)
(* A transaction is unknown, listed (in List and in Recent), or it was     *)
(* removed age ticks ago and only Recent shows it, for RecentTTL ticks.    *)
(***************************************************************************)
EXTENDS Naturals

CONSTANTS Hash, RecentTTL, Unknown, Listed

VARIABLES
  running,  \* the process that holds the store runs
  seen,     \* what a reader is told of each transaction
  known     \* the transactions ever added

vars == <<running, seen, known>>

Age == 0..RecentTTL
Status == {Unknown, Listed} \cup Age

\* One tick later; past RecentTTL a transaction is forgotten.
Older(s) ==
  IF s \notin Age THEN s
  ELSE IF s = RecentTTL THEN Unknown ELSE s + 1

Init ==
  /\ running = TRUE
  /\ seen = [h \in Hash |-> Unknown]
  /\ known = {}

Add(h) ==
  /\ running
  /\ seen' = [seen EXCEPT ![h] = Listed]
  /\ known' = known \cup {h}
  /\ UNCHANGED running

\* Only a listed transaction is stamped; another Remove changes nothing.
Remove(h) ==
  /\ running
  /\ seen[h] = Listed
  /\ seen' = [seen EXCEPT ![h] = 0]
  /\ UNCHANGED <<running, known>>

Tick ==
  /\ seen' = [h \in Hash |-> Older(seen[h])]
  /\ UNCHANGED <<running, known>>

Crash ==
  /\ running
  /\ running' = FALSE
  /\ seen' = [h \in Hash |-> Unknown]
  /\ UNCHANGED known

\* A new process is told what was saved; it invents nothing.
Restart ==
  /\ ~running
  /\ running' = TRUE
  /\ seen' \in [Hash -> Status]
  /\ \A h \in Hash \ known : seen'[h] = Unknown
  /\ UNCHANGED known

Next == Tick \/ Crash \/ Restart \/ \E h \in Hash : Add(h) \/ Remove(h)

Spec == Init /\ [][Next]_vars
=============================================================================
