--------------------------- MODULE Notifications ---------------------------
(***************************************************************************)
(* The notification table (domain/notification/storage/sqlite) and the     *)
(* settings row beside it.  Every operation here is one SQL statement: it  *)
(* happens at once or fails and changes nothing.                           *)
(*                                                                         *)
(* An id is a ULID: ids and created_at stamps are taken together, so the   *)
(* order of ids is the order of created_at.  Time is counted in periods    *)
(* of a little more than a day.                                            *)
(***************************************************************************)
EXTENDS Naturals, FiniteSets

CONSTANTS
  MaxStored,   \* maxStored of the usecase, 200
  Retention,   \* values of auto_delete_days the user picks; 0 turns it off
  MaxDay       \* bound on the clock

ASSUME TableAssumption ==
  /\ MaxStored \in Nat \ {0} /\ MaxDay \in Nat
  /\ Retention \subseteq Nat /\ 0 \in Retention

VARIABLES
  rows,       \* notifications: records [id, day, read]
  settings,   \* notification_settings: [autoRead, days]
  today,      \* the clock
  unpruned    \* history: inserts since the last prune that succeeded

table == <<rows, settings, today, unpruned>>

Row == [id : Nat \ {0}, day : 0..MaxDay, read : BOOLEAN]
Settings == [autoRead : BOOLEAN, days : Retention]
NoSettings == [autoRead |-> FALSE, days |-> 0]

TableTypeOK ==
  /\ rows \subseteq Row /\ IsFiniteSet(rows)
  /\ settings \in Settings /\ today \in 0..MaxDay /\ unpruned \in Nat

TableInit ==
  /\ rows = {}
  /\ settings = NoSettings
  /\ today = 0
  /\ unpruned = 0

\* What a reader of the settings may get: the row, or an error, which every
\* caller treats as both features being off.
GetSettings == {settings, NoSettings}

\* SELECT ... ORDER BY created_at DESC LIMIT keep: the rows with fewer than
\* keep newer ones.
Newest(keep) ==
  {r \in rows : Cardinality({q \in rows : q.id > r.id}) < keep}

\* Storage.List under clampNotificationsLimit, for a panel that asks for the
\* ceiling.
List == Newest(MaxStored)

Insert(r) ==
  /\ rows' = rows \cup {r}
  /\ unpruned' = unpruned + 1
  /\ UNCHANGED <<settings, today>>

\* Mutant: one row too many survives.
PruneOneMore ==
  /\ rows' = Newest(MaxStored + 1)
  /\ unpruned' = 0
  /\ UNCHANGED <<settings, today>>

PruneOlderThan ==
  /\ rows' = Newest(MaxStored)
  /\ unpruned' = 0
  /\ UNCHANGED <<settings, today>>

\* Rows made more than days days ago go; none does when days is not positive.
DeleteOlderThanDays(days) ==
  /\ rows' = IF days <= 0 THEN rows ELSE {r \in rows : r.day + days > today}
  /\ UNCHANGED <<settings, today, unpruned>>

MarkRead(id) ==
  /\ rows' = {[r EXCEPT !.read = @ \/ r.id = id] : r \in rows}
  /\ UNCHANGED <<settings, today, unpruned>>

MarkAllRead ==
  /\ rows' = {[r EXCEPT !.read = TRUE] : r \in rows}
  /\ UNCHANGED <<settings, today, unpruned>>

DeleteAll ==
  /\ rows' = {}
  /\ UNCHANGED <<settings, today, unpruned>>

\* UpdateNotificationSettings replaces the whole row.
UpdateSettings(s) ==
  /\ settings' = s
  /\ UNCHANGED <<rows, today, unpruned>>

NextDay ==
  /\ today < MaxDay
  /\ today' = today + 1
  /\ UNCHANGED <<rows, settings, unpruned>>

(* Save prunes after each insert and forgives a failed prune: the table    *)
(* exceeds the ceiling by no more than the inserts no prune has followed.  *)
TableBounded == Cardinality(rows) <= MaxStored + unpruned
=============================================================================
