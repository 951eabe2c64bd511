------------------------------ MODULE EventBus ------------------------------
(***************************************************************************)
(* The watcher's event bus with what feeds it and what it feeds: the       *)
(* monitor goroutines call emitAndPersist, which saves the event in the    *)
(* notification table and then broadcasts it under the read lock to the    *)
(* channels of the WatchEvents streams; clients also read and change the   *)
(* table through the notification RPCs.                                    *)
(*                                                                         *)
(* When a monitor raises an event is the subject of TxWatcher and Alerts;  *)
(* here it hands one to the bus whenever it is not busy with the last.     *)
(* Any SQL statement may fail.  A send on a closed channel panics, a send  *)
(* to a full one is dropped.                                               *)
(***************************************************************************)
EXTENDS Notifications, Sequences

CONSTANTS
  Producer,    \* the monitors: transactions, balance, gas
  Stream,      \* WatchEvents calls
  ChanCap,     \* capacity of a subscriber's channel, 64
  MaxEvents,   \* bound on events
  MaxCalls,    \* bound on notification RPCs that change the table
  MaxCrashes   \* bound on restarts

ASSUME BusAssumption ==
  /\ ChanCap \in Nat \ {0}
  /\ MaxEvents \in Nat /\ MaxCalls \in Nat /\ MaxCrashes \in Nat

NoId == 0  \* the empty id of an event that was not saved

VARIABLES
  producer,    \* the call of emitAndPersist a monitor is in
  stream,      \* the WatchEvents calls and their channels
  subscribers, \* Usecase.subscribers
  lastId,      \* history: ids handed out
  everStored,  \* history: ids whose INSERT succeeded
  events, rpcCalls, crashes   \* history: what the bounds count

counts == <<lastId, everStored, events, rpcCalls, crashes>>
vars == <<table, producer, stream, subscribers, counts>>

Ids == 0..lastId

\* autoRead and days are the local copies of the settings, event and day the
\* id and the stamp put on the event, forgotten when dead; todo the
\* subscribers the emit loop has not reached.
ProducerState ==
  [pc : {"idle", "settings", "insert", "prune", "retention", "sweep", "rlock", "send"},
   autoRead : BOOLEAN, days : Retention, event : Ids, day : 0..MaxDay, todo : Seq(Stream)]
Idle == [pc |-> "idle", autoRead |-> FALSE, days |-> 0, event |-> NoId, day |-> 0, todo |-> <<>>]

\* subscribing and leaving wait for the write lock; off has closed its
\* channel.  known is what the client holds, hydrated says that it has
\* listed the table since it subscribed; missed (history) are the ids
\* dropped because the channel was full.
StreamState ==
  [at : {"new", "subscribing", "on", "leaving", "off"}, chan : Seq(Ids),
   hydrated : BOOLEAN, known : SUBSET Ids, missed : SUBSET Ids]
New == [at |-> "new", chan |-> <<>>, hydrated |-> FALSE, known |-> {}, missed |-> {}]
Off == [New EXCEPT !.at = "off"]

TypeOK ==
  /\ TableTypeOK
  /\ producer \in [Producer -> ProducerState]
  /\ stream \in [Stream -> StreamState]
  /\ \A s \in Stream : Len(stream[s].chan) <= ChanCap
  /\ subscribers \in Seq(Stream)
  /\ lastId \in Nat /\ everStored \subseteq Ids

Init ==
  /\ TableInit
  /\ producer = [p \in Producer |-> Idle]
  /\ stream = [s \in Stream |-> New]
  /\ subscribers = <<>>
  /\ lastId = 0 /\ everStored = {} /\ events = 0 /\ rpcCalls = 0 /\ crashes = 0

-----------------------------------------------------------------------------
(* persist: Save in its SQL statements, each of which may fail. *)

At(p, here) == producer[p].pc = here

Goto(p, there) == producer' = [producer EXCEPT ![p].pc = there]

\* A monitor calls emitAndPersist.
EmitAndPersist(p) ==
  /\ At(p, "idle") /\ events < MaxEvents
  /\ Goto(p, "settings")
  /\ events' = events + 1
  /\ UNCHANGED <<table, stream, subscribers, lastId, everStored, rpcCalls, crashes>>

\* The first GetSettings, then the id and the stamp.
ReadSettings(p) ==
  /\ At(p, "settings")
  /\ \E got \in GetSettings :
       producer' = [producer EXCEPT ![p] = [@ EXCEPT !.autoRead = got.autoRead,
                      !.event = lastId + 1, !.day = today, !.pc = "insert"]]
  /\ lastId' = lastId + 1
  /\ UNCHANGED <<table, stream, subscribers, everStored, events, rpcCalls, crashes>>

StoreRow(p) ==
  /\ Insert([id |-> producer[p].event, day |-> producer[p].day,
             read |-> producer[p].autoRead])
  /\ everStored' = everStored \cup {producer[p].event}

\* An INSERT that fails ends Save with an error, and persist returns no id.
InsertRow(p) ==
  /\ At(p, "insert")
  /\ \/ /\ StoreRow(p)
        /\ producer' = [producer EXCEPT ![p] = [Idle EXCEPT !.pc = "prune", !.event = producer[p].event]]
     \/ /\ producer' = [producer EXCEPT ![p] = [Idle EXCEPT !.pc = "rlock"]]
        /\ UNCHANGED <<table, everStored>>
  /\ UNCHANGED <<stream, subscribers, lastId, events, rpcCalls, crashes>>

Prune(p) ==
  /\ At(p, "prune")
  /\ PruneOlderThan \/ UNCHANGED table
  /\ Goto(p, "retention")
  /\ UNCHANGED <<stream, subscribers, counts>>

\* The second GetSettings.
ReadRetention(p) ==
  /\ At(p, "retention")
  /\ \E got \in GetSettings :
       producer' = [producer EXCEPT ![p] = [@ EXCEPT !.days = got.days,
                      !.pc = IF got.days > 0 THEN "sweep" ELSE "rlock"]]
  /\ UNCHANGED <<table, stream, subscribers, counts>>

Sweep(p) ==
  /\ At(p, "sweep")
  /\ DeleteOlderThanDays(producer[p].days) \/ UNCHANGED table
  /\ producer' = [producer EXCEPT ![p] = [@ EXCEPT !.days = 0, !.pc = "rlock"]]
  /\ UNCHANGED <<stream, subscribers, counts>>

-----------------------------------------------------------------------------
(* emit: the loop over the subscribers under the read lock. *)

Readers == {p \in Producer : At(p, "send")}
Writers == {s \in Stream : stream[s].at \in {"subscribing", "leaving"}}

\* A waiting writer holds new readers back, as sync.RWMutex does.
RLock(p) ==
  /\ At(p, "rlock") /\ Writers = {}
  /\ producer' = [producer EXCEPT ![p] = [@ EXCEPT !.todo = subscribers, !.pc = "send"]]
  /\ UNCHANGED <<table, stream, subscribers, counts>>

\* Mutant: the send has no default case and waits for room.
SendBlocking(p) ==
  LET s == Head(producer[p].todo) IN
  /\ At(p, "send") /\ producer[p].todo # <<>>
  /\ Len(stream[s].chan) < ChanCap
  /\ stream' = [stream EXCEPT ![s].chan = Append(@, producer[p].event)]
  /\ producer' = [producer EXCEPT ![p].todo = Tail(@)]
  /\ UNCHANGED <<table, subscribers, counts>>

\* One round of the loop: a full channel drops the event.
Send(p) ==
  LET s == Head(producer[p].todo) IN
  /\ At(p, "send") /\ producer[p].todo # <<>>
  /\ stream' = IF Len(stream[s].chan) < ChanCap
                 THEN [stream EXCEPT ![s].chan = Append(@, producer[p].event)]
                 ELSE [stream EXCEPT ![s].missed = @ \cup {producer[p].event}]
  /\ producer' = [producer EXCEPT ![p].todo = Tail(@)]
  /\ UNCHANGED <<table, subscribers, counts>>

RUnlock(p) ==
  /\ At(p, "send") /\ producer[p].todo = <<>>
  /\ producer' = [producer EXCEPT ![p] = Idle]
  /\ UNCHANGED <<table, stream, subscribers, counts>>

Produce(p) ==
  ReadSettings(p) \/ InsertRow(p) \/ Prune(p) \/ ReadRetention(p) \/ Sweep(p)
    \/ RLock(p) \/ Send(p) \/ RUnlock(p)

-----------------------------------------------------------------------------
(* WatchEvents: one subscription for the life of a stream. *)

Connect(s) ==
  /\ stream[s].at = "new"
  /\ stream' = [stream EXCEPT ![s].at = "subscribing"]
  /\ UNCHANGED <<table, producer, subscribers, counts>>

\* Subscribe, under the write lock.
Subscribe(s) ==
  /\ stream[s].at = "subscribing" /\ Readers = {}
  /\ stream' = [stream EXCEPT ![s].at = "on"]
  /\ subscribers' = Append(subscribers, s)
  /\ UNCHANGED <<table, producer, counts>>

\* Mutant: a Send that fails does not end the stream.
DeliverForgiving(s) ==
  /\ stream[s].at = "on" /\ stream[s].chan # <<>>
  /\ \E got \in {{}, {Head(stream[s].chan)}} :
       stream' = [stream EXCEPT ![s] = [@ EXCEPT !.known = stream[s].known \cup got,
                                                 !.chan = Tail(stream[s].chan)]]
  /\ UNCHANGED <<table, producer, subscribers, counts>>

\* stream.Send of one event to the client.
Deliver(s) ==
  /\ stream[s].at = "on" /\ stream[s].chan # <<>>
  /\ stream' = [stream EXCEPT ![s] =
                  [@ EXCEPT !.known = stream[s].known \cup {Head(stream[s].chan)},
                            !.chan = Tail(stream[s].chan)]]
  /\ UNCHANGED <<table, producer, subscribers, counts>>

\* The stream's context ends or Send fails: the deferred unsub asks for the
\* write lock.
Disconnect(s) ==
  /\ stream[s].at = "on"
  /\ stream' = [stream EXCEPT ![s] = [New EXCEPT !.at = "leaving", !.chan = stream[s].chan]]
  /\ UNCHANGED <<table, producer, subscribers, counts>>

\* The first entry of the list that is the channel of s goes.
Remove(s) == \E i \in DOMAIN subscribers :
  /\ subscribers[i] = s /\ \A j \in 1..(i - 1) : subscribers[j] # s
  /\ subscribers' = SubSeq(subscribers, 1, i - 1)
                       \o SubSeq(subscribers, i + 1, Len(subscribers))

\* Mutant: unsub does not take the lock.
UnsubscribeUnlocked(s) ==
  /\ stream[s].at = "leaving"
  /\ stream' = [stream EXCEPT ![s] = Off]
  /\ Remove(s)
  /\ UNCHANGED <<table, producer, counts>>

\* unsub: the channel is taken off the list and closed, what it holds is
\* nobody's any more.
Unsubscribe(s) ==
  /\ stream[s].at = "leaving" /\ Readers = {}
  /\ stream' = [stream EXCEPT ![s] = Off]
  /\ Remove(s)
  /\ UNCHANGED <<table, producer, counts>>

-----------------------------------------------------------------------------
(* The notification RPCs. *)

\* ListNotifications by the client of a stream that is on.
Hydrate(s) ==
  /\ stream[s].at = "on" /\ ~stream[s].hydrated
  /\ stream' = [stream EXCEPT ![s] =
                  [@ EXCEPT !.hydrated = TRUE,
                            !.known = stream[s].known \cup {r.id : r \in List}]]
  /\ UNCHANGED <<table, producer, subscribers, counts>>

\* One call that changes the table.
Call ==
  /\ rpcCalls < MaxCalls
  /\ rpcCalls' = rpcCalls + 1
  /\ UNCHANGED <<producer, stream, subscribers, lastId, everStored, events, crashes>>

MarkNotificationRead == Call /\ \E r \in rows : MarkRead(r.id)
MarkAllNotificationsRead == Call /\ MarkAllRead
ClearNotifications == Call /\ DeleteAll
UpdateNotificationSettings == Call /\ \E s \in Settings : UpdateSettings(s)

-----------------------------------------------------------------------------
Day ==
  /\ NextDay
  /\ UNCHANGED <<producer, stream, subscribers, counts>>

\* The one-shot sweep at boot.
SweepOnStartup == \E got \in GetSettings : DeleteOlderThanDays(got.days)

\* The process ends and starts again; SweepOnStartup runs before the
\* watcher.  A client that was connected comes back as another stream.
Restart ==
  /\ crashes < MaxCrashes
  /\ crashes' = crashes + 1
  /\ SweepOnStartup
  /\ producer' = [p \in Producer |-> Idle]
  /\ stream' = [s \in Stream |-> IF stream[s].at = "new" THEN New ELSE Off]
  /\ subscribers' = <<>>
  /\ UNCHANGED <<lastId, everStored, events, rpcCalls>>

Next ==
  \/ \E p \in Producer : EmitAndPersist(p) \/ Produce(p)
  \/ \E s \in Stream : \/ Connect(s) \/ Subscribe(s) \/ Deliver(s)
                       \/ Disconnect(s) \/ Unsubscribe(s) \/ Hydrate(s)
  \/ MarkNotificationRead \/ MarkAllNotificationsRead
  \/ ClearNotifications \/ UpdateNotificationSettings
  \/ Day \/ Restart

\* The scheduler runs every goroutine that can go on; nobody is obliged to
\* connect, disconnect, call or read.
Spec ==
  /\ Init /\ [][Next]_vars
  /\ \A p \in Producer : WF_vars(Produce(p))
  /\ \A s \in Stream : WF_vars(Subscribe(s) \/ Unsubscribe(s))

-----------------------------------------------------------------------------
Elements(q) == {q[i] : i \in DOMAIN q}

(* No emit loop is about to send on a channel that unsub has closed: the   *)
(* process would panic.                                                    *)
NoSendOnClosed == \A p \in Producer : \A s \in Elements(producer[p].todo) :
  stream[s].at # "off"

\* Events the bus still owes a stream.
OnItsWay(s) ==
  Elements(stream[s].chan)
    \cup {producer[p].event : p \in {q \in Producer :
            \/ producer[q].pc \in {"prune", "retention", "sweep", "rlock"}
            \/ s \in Elements(producer[q].todo)}}

(* The panel of a client and the table agree.  An id the client ever saw   *)
(* is one the table took, and can be marked read unless it was deleted     *)
(* since (emitAndPersist sends an event that could not be saved without an *)
(* id).  A client that subscribes and then lists misses no row: it knows   *)
(* it, or finds it in its channel, or it is on its way through emit, or    *)
(* was dropped for want of room.                                           *)
PanelAgrees == \A s \in Stream :
  /\ stream[s].known \ {NoId} \subseteq everStored
  /\ stream[s].at = "on" /\ stream[s].hydrated =>
       {r.id : r \in List} \subseteq stream[s].known \cup stream[s].missed \cup OnItsWay(s)

(* A stream that does not read never holds up a monitor: whoever calls     *)
(* emitAndPersist comes back from it.  Nor do the monitors hold up a       *)
(* stream: one that ends gets the lock and is taken off the bus.           *)
NobodyIsStuck ==
  /\ \A p \in Producer : ~At(p, "idle") ~> At(p, "idle")
  /\ \A s \in Stream : stream[s].at = "leaving" ~> stream[s].at # "leaving"
=============================================================================
