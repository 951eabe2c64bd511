-------------------------------- MODULE App ---------------------------------
(***************************************************************************)
(* The life of the process (cmd/app, internal/app): Startup builds it and  *)
(* Run starts the watcher, the pending store's sweep and the gRPC server   *)
(* in one errgroup, and a signal or a runner that fails ends its context.  *)
(* Then the server is closed, gracefully for a while and then by force,    *)
(* and the database after it, while the runners return on their own.       *)
(***************************************************************************)
EXTENDS Alerts, Startup, FiniteSets

CONSTANT Request  \* unary requests the UI makes

VARIABLES
  done,      \* the errgroup's context has ended
  runner,    \* the gRPC runner: none, start, listening, serving, refused, returned
  sweeper,   \* the pending store's runner is in its loop
  server,    \* grpc.Server: none, new, serving, draining, stopped
  inflight,  \* requests in their handler
  stream,    \* WatchEvents is running
  shutdown,  \* waiting, closing the server, closing the database, done
  failed     \* a runner has returned an error

serverVars == <<runner, server, inflight, stream>>
procVars == <<startVars, sweeper, shutdown>>
appVars == <<alertVars, serverVars, procVars, done, failed>>

-----------------------------------------------------------------------------
(* New. *)

New == NewStep /\ UNCHANGED <<alertVars, serverVars, sweeper, shutdown, done, failed>>

\* initGRPCServer registers the runners and Run starts them, all or none.
StartRunners ==
  /\ boot = "transport"
  /\ boot' = "run"
  /\ shutdown' = "waiting"
  /\ IF enabled
     THEN /\ runner' = "start" /\ server' = "new" /\ sweeper' = TRUE
          /\ loop' = "waiting" /\ gasLoop' = TRUE
     ELSE UNCHANGED <<runner, server, sweeper, loop, gasLoop>>
  /\ UNCHANGED <<pair, strays, txLoop, replaced, polls,
                 enabled, network, inflight, stream, db, code, done, failed>>

\* A signal: main's context, and so the errgroup's.
Signal ==
  /\ boot # "exited" /\ ~done
  /\ done' = TRUE
  /\ UNCHANGED <<alertVars, serverVars, procVars, failed>>

-----------------------------------------------------------------------------
(* The gRPC runner and its server. *)

RunnerReturns(err) ==
  /\ runner' = "returned"
  /\ failed' = (failed \/ err)
  /\ done' = (done \/ err)

Listen ==
  /\ runner = "start"
  /\ \/ runner' = "listening" /\ UNCHANGED <<failed, done>>
     \/ RunnerReturns(TRUE)
  /\ UNCHANGED <<alertVars, procVars, server, inflight, stream>>

\* The goroutine of Serve gets going; a server that was stopped refuses.
Serve ==
  /\ runner = "listening"
  /\ IF server = "new" THEN runner' = "serving" /\ server' = "serving"
     ELSE runner' = "refused" /\ UNCHANGED server
  /\ UNCHANGED <<alertVars, procVars, inflight, stream, done, failed>>

\* Serve returns an error and Run passes it on.
ServeFails ==
  /\ runner = "refused" \/ (runner = "serving" /\ server = "serving")
  /\ RunnerReturns(TRUE)
  /\ UNCHANGED <<alertVars, procVars, server, inflight, stream>>

\* Run's select sees the context first.
RunnerStops ==
  /\ runner \in {"listening", "serving", "refused"} /\ done
  /\ RunnerReturns(FALSE)
  /\ UNCHANGED <<alertVars, procVars, server, inflight, stream>>

BeginRequest(q) ==
  /\ server = "serving" /\ q \notin inflight
  /\ inflight' = inflight \cup {q}
  /\ UNCHANGED <<alertVars, procVars, runner, server, stream, done, failed>>

\* A handler may outlive a forced stop.
EndRequest(q) ==
  /\ q \in inflight
  /\ inflight' = inflight \ {q}
  /\ UNCHANGED <<alertVars, procVars, runner, server, stream, done, failed>>

OpenStream ==
  /\ server = "serving" /\ ~stream
  /\ stream' = TRUE
  /\ UNCHANGED <<alertVars, procVars, runner, server, inflight, done, failed>>

\* The client goes away: nothing in the process ends a stream before Stop.
CloseStream ==
  /\ stream
  /\ stream' = FALSE
  /\ UNCHANGED <<alertVars, procVars, runner, server, inflight, done, failed>>

-----------------------------------------------------------------------------
(* App.shutdown. *)

\* The closers in reverse order; there is one, the server.
BeginShutdown ==
  /\ shutdown = "waiting" /\ done
  /\ IF enabled THEN shutdown' = "server" /\ server' = "draining"
     ELSE shutdown' = "db" /\ UNCHANGED server
  /\ UNCHANGED <<alertVars, runner, inflight, stream, boot, enabled, network, sweeper, db, code,
                 done, failed>>

\* GracefulStop returns: no handler is left.
GracefulStop ==
  /\ shutdown = "server"
  /\ inflight = {} /\ ~stream
  /\ server' = "stopped" /\ shutdown' = "db"
  /\ UNCHANGED <<alertVars, runner, inflight, stream, boot, enabled, network, sweeper, db, code,
                 done, failed>>

\* Mutant: no timer beside GracefulStop.
NeverForced == FALSE /\ UNCHANGED appVars

\* ShutdownTimeout: Stop closes the connections, which ends the stream; it
\* does not wait for the handlers.
ForceStop ==
  /\ shutdown = "server"
  /\ server' = "stopped" /\ stream' = FALSE /\ shutdown' = "db"
  /\ UNCHANGED <<alertVars, runner, inflight, boot, enabled, network, sweeper, db, code,
                 done, failed>>

\* Mutant: the database is closed first.
CloseDBEarly ==
  /\ shutdown \in {"server", "db"} /\ db = "open"
  /\ db' = "closed" /\ shutdown' = IF shutdown = "db" THEN "done" ELSE shutdown
  /\ UNCHANGED <<alertVars, serverVars, boot, enabled, network, sweeper, code, done, failed>>

CloseDB ==
  /\ shutdown = "db"
  /\ db' = "closed" /\ shutdown' = "done"
  /\ UNCHANGED <<alertVars, serverVars, boot, enabled, network, sweeper, code, done, failed>>

\* PendingStore.Run.
StopSweeper ==
  /\ sweeper /\ done
  /\ sweeper' = FALSE
  /\ UNCHANGED <<alertVars, serverVars, boot, enabled, network, shutdown, db, code, done, failed>>

\* g.Wait, and main returns.
Exit ==
  /\ boot = "run"
  /\ runner \in {"none", "returned"} /\ ~sweeper
  /\ loop = "off" /\ ~gasLoop /\ shutdown = "done"
  /\ boot' = "exited" /\ code' = IF failed THEN 1 ELSE 0
  /\ UNCHANGED <<alertVars, serverVars, enabled, network, sweeper, shutdown, db, done, failed>>

-----------------------------------------------------------------------------

AppInit ==
  /\ AlertInit /\ StartInit
  /\ done = FALSE
  /\ runner = "none" /\ sweeper = FALSE
  /\ server = "none" /\ inflight = {} /\ stream = FALSE
  /\ shutdown = "none" /\ failed = FALSE

\* The watcher's goroutines answer a cancelled context.
Unwind ==
  /\ \/ StopPoller \/ StopStray \/ StopMonitor \/ StopTxLoop
     \/ MonitorsEnd(done) \/ StopGas(done)
     \/ done /\ (WaitForWallet(done) \/ CancelMonitors(done))
  /\ UNCHANGED <<serverVars, procVars, done, failed>>

Watch ==
  /\ \/ \E b \in Balance : PollBalance(b)
     \/ SendUpdate \/ TakeUpdate
     \/ ~done /\ (WaitForWallet(done) \/ CancelMonitors(done))
  /\ UNCHANGED <<serverVars, procVars, done, failed>>

Requests ==
  \/ \E q \in Request : BeginRequest(q) \/ EndRequest(q)
  \/ OpenStream \/ CloseStream

\* What ends the process once its context has ended.
Stop == RunnerStops \/ BeginShutdown \/ ForceStop \/ CloseDB \/ StopSweeper \/ Exit

AppNext ==
  /\ boot # "exited"
  /\ \/ New \/ StartRunners \/ Signal
     \/ Listen \/ Serve \/ ServeFails \/ Requests \/ GracefulStop
     \/ Stop \/ Unwind \/ Watch

(***************************************************************************)
(* Goroutines that can run do, and the shutdown timer fires.  Nothing is   *)
(* asked of the requests, of the client of the stream or of New.           *)
(***************************************************************************)
AppFairness == WF_appVars(Listen) /\ WF_appVars(Stop) /\ WF_appVars(Unwind)

AppSpec == AppInit /\ [][AppNext]_appVars /\ AppFairness

-----------------------------------------------------------------------------
(* Properties. *)

\* Every variable has its type; the updates channel keeps its capacity.
AppTypeOK ==
  /\ AlertTypeOK
  /\ StartTypeOK
  /\ done \in BOOLEAN /\ failed \in BOOLEAN
  /\ runner \in {"none", "start", "listening", "serving", "refused", "returned"}
  /\ server \in {"none", "new", "serving", "draining", "stopped"}
  /\ sweeper \in BOOLEAN /\ stream \in BOOLEAN /\ inflight \subseteq Request
  /\ shutdown \in {"none", "waiting", "server", "db", "done"}

(***************************************************************************)
(* The process ends (App.Run, Runner.Close): after a signal or the failure *)
(* of a runner it exits, although the UI holds its event stream open and a *)
(* handler hangs, and although the monitors must return first.  Nor does   *)
(* it linger without its server, whatever makes the gRPC runner return.    *)
(***************************************************************************)
ShutdownEnds == (boot = "run" /\ (done \/ runner = "returned")) ~> boot = "exited"

(***************************************************************************)
(* The database is closed after the server has stopped (App.shutdown): no  *)
(* request or stream begins, or is still served, on a closed database; a   *)
(* handler that a forced stop left behind is the one exception.            *)
(***************************************************************************)
DbOutlivesServer == db = "closed" => server \in {"none", "stopped"} /\ ~stream

(***************************************************************************)
(* The pollers of a replaced wallet end (WatchBalance), also one that is   *)
(* blocked on the full channel its monitor no longer reads; nobody waits   *)
(* for them, so one that stayed would poll the node for ever.              *)
(***************************************************************************)
PollersEnd == strays # {} ~> (strays = {} \/ boot = "exited")
=============================================================================
