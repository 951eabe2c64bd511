------------------------------ MODULE Startup -------------------------------
(***************************************************************************)
(* run and App.New: the configuration, the network catalog, the token      *)
(* list, the database, the client of the node and the services, one after  *)
(* the other.  The first that fails ends the process; what was opened      *)
(* before is left to the system.                                           *)
(***************************************************************************)
EXTENDS Naturals, Sequences

VARIABLES
  boot,     \* the part being built, "run" in App.Run, "exited"
  enabled,  \* cfg.GRPC.Enabled
  network,  \* the selected network's addresses: none, good, garbled
  db,       \* the SQLite handle: none, open, closed
  code      \* the exit code, 3 before; a panic makes it 2

startVars == <<boot, enabled, network, db, code>>

Boot == <<"config", "network", "tokens", "sqlite", "migrate", "eth", "services",
          "transport", "run">>

After(part) == Boot[(CHOOSE i \in DOMAIN Boot : Boot[i] = part) + 1]

StartTypeOK ==
  /\ boot \in {Boot[i] : i \in DOMAIN Boot} \cup {"exited"}
  /\ enabled \in BOOLEAN
  /\ network \in {"none", "good", "garbled"}
  /\ db \in {"none", "open", "closed"} /\ code \in 0..3

StartInit ==
  /\ boot = "config" /\ enabled = FALSE /\ network = "none" /\ db = "none" /\ code = 3

\* A part is built, or has failed and run returns.
Built(part) == boot = part /\ boot' = After(part) /\ UNCHANGED code
Fails(part) == boot = part /\ boot' = "exited" /\ code' = 1

-----------------------------------------------------------------------------
(* Configuration. *)

\* What a place may say of one setting; "garbled" does not parse.  An
\* environment variable that is set to nothing parses neither.
Setting == {"unset", "on", "off", "garbled"}

\* Load takes the first file of each list that exists, or none.
FirstFile == Setting \cup {"missing"}

\* A variable that is unset or empty takes the value of the .env file.
parseEnvFile(env, dotenv) ==
  IF env \in {"unset", "empty"} /\ dotenv \notin {"unset", "missing"} THEN dotenv ELSE env

\* Environment over YAML over the zero value.
Effective(env, yaml) ==
  IF env # "unset" THEN env
  ELSE IF yaml \notin {"unset", "missing"} THEN yaml ELSE "off"

LoadConfig ==
  /\ \E env \in Setting \cup {"empty"}, dotenv, yaml \in FirstFile :
       LET e == parseEnvFile(env, dotenv)
           value == Effective(e, yaml) IN
         IF yaml # "garbled" /\ value \in {"on", "off"}
         THEN Built("config") /\ enabled' = (value = "on")
         ELSE Fails("config") /\ UNCHANGED enabled
  /\ UNCHANGED <<network, db>>

-----------------------------------------------------------------------------
(* initInfra. *)

\* parse of the catalog: every network must be valid, whichever is selected.
\* Addresses are asked to be there, not to be addresses.
Network == {"incomplete", "good", "garbled"}
validate(n) == n # "incomplete"
Catalog == {c \in SUBSET Network : c # {} /\ \A n \in c : validate(n)}

\* The file cannot be read or parsed, or does not have the network.
SelectNetwork ==
  /\ \/ \E c \in Catalog : \E n \in c : Built("network") /\ network' = n
     \/ Fails("network") /\ UNCHANGED network
  /\ UNCHANGED <<enabled, db>>

\* Rows without an address or a chain are skipped, a list without rows fails.
LoadTokenList ==
  /\ Built("tokens") \/ Fails("tokens")
  /\ UNCHANGED <<enabled, network, db>>

\* A database whose pragmas fail is closed again.
OpenSQLite ==
  /\ \/ Built("sqlite") /\ db' = "open"
     \/ Fails("sqlite") /\ db' \in {"none", "closed"}
  /\ UNCHANGED <<enabled, network>>

Migrate ==
  /\ Built("migrate") \/ Fails("migrate")
  /\ UNCHANGED <<enabled, network, db>>

\* MustAddress panics.
MustAddress ==
  /\ boot = "eth" /\ network = "garbled"
  /\ boot' = "exited" /\ code' = 2
  /\ UNCHANGED <<enabled, network, db>>

\* The rows of the pending store are read and the node is dialled.
ConnectEth ==
  /\ network = "good"
  /\ Built("eth") \/ Fails("eth")
  /\ UNCHANGED <<enabled, network, db>>

-----------------------------------------------------------------------------
(* initServices. *)

\* A failed retention sweep is logged; a wallet that cannot be restored fails.
InitServices ==
  /\ Built("services") \/ Fails("services")
  /\ UNCHANGED <<enabled, network, db>>

NewStep ==
  \/ LoadConfig \/ SelectNetwork \/ LoadTokenList \/ OpenSQLite \/ Migrate
  \/ MustAddress \/ ConnectEth \/ InitServices
=============================================================================
