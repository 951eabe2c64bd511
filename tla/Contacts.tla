------------------------------ MODULE Contacts ------------------------------
(***************************************************************************)
(* The address book: the contact RPCs, from the interceptors to the        *)
(* contacts table.  A SQL statement is one step and may fail; UpdateContact *)
(* is two, with other calls in between.  address is UNIQUE, and a handler  *)
(* may panic.                                                              *)
(***************************************************************************)
EXTENDS Rpc

CONSTANTS
  Address, Name,  \* what a contact holds
  Caller,         \* RPCs in flight
  Expected,       \* cfg.Authorization
  Presented,      \* bearer tokens clients come with
  MaxRpcs         \* bound on RPCs

VARIABLES
  contacts,  \* the table: records [id, address, name, favorite]
  rpc,       \* RPCs
  made,      \* history: ids handed out
  rpcs,      \* history: what the bound counts
  why        \* history: what decided the outcome of an RPC

contactVars == <<contacts, rpc, made, rpcs, why>>

Contact == [id : Nat \ {0}, address : Address, name : Name, favorite : BOOLEAN]

Method == {"CreateContact", "GetContact", "UpdateContact", "DeleteContact",
           "FavoriteContact", "ListContacts"}

\* read: the row UpdateContact has loaded.
NoRpc == [method |-> "", pc |-> "idle", id |-> 0, address |-> "", name |-> "",
          favorite |-> FALSE, read |-> {}, status |-> ""]

RowsAt(id) == {r \in contacts : r.id = id}

-----------------------------------------------------------------------------
(* The call path. *)

Arrive(c, request) ==
  /\ rpc[c].pc = "idle" /\ rpcs < MaxRpcs
  /\ rpcs' = rpcs + 1
  /\ \E token \in Presented :
       IF Authorized(Expected, token)
       THEN rpc' = [rpc EXCEPT ![c] = request] /\ UNCHANGED why
       ELSE /\ rpc' = [rpc EXCEPT ![c] = [request EXCEPT !.pc = "done", !.status = "UNAUTHENTICATED"]]
            /\ why' = [why EXCEPT ![c] = "refused"]
  /\ UNCHANGED <<contacts, made>>

Request(m) == [NoRpc EXCEPT !.method = m, !.pc = "handler"]

\* The messages of the service.  A client may hold the id of a deleted row.
Send(c) ==
  \/ \E a \in Address, n \in Name :
       Arrive(c, [Request("CreateContact") EXCEPT !.address = a, !.name = n])
  \/ \E i \in 1..made, n \in Name :
       Arrive(c, [Request("UpdateContact") EXCEPT !.id = i, !.name = n])
  \/ \E i \in 1..made, m \in {"GetContact", "DeleteContact"} :
       Arrive(c, [Request(m) EXCEPT !.id = i])
  \/ \E i \in 1..made, f \in BOOLEAN :
       Arrive(c, [Request("FavoriteContact") EXCEPT !.id = i, !.favorite = f])
  \/ Arrive(c, Request("ListContacts"))

In(c, method, here) == rpc[c].method = method /\ rpc[c].pc = here

\* The handler returns: its error becomes a status.  The end of the chain is
\* what really happened.
Answer(c, err) ==
  /\ rpc' = [rpc EXCEPT ![c] =
       [rpc[c] EXCEPT !.pc = "done", !.read = {}, !.status = HandleError(err)]]
  /\ why' = [why EXCEPT ![c] = IF err = <<>> THEN "done" ELSE err[Len(err)]]
  /\ UNCHANGED rpcs

Panic(c) ==
  /\ rpc[c].pc \in {"handler", "update"}
  /\ rpc' = [rpc EXCEPT ![c] =
       [rpc[c] EXCEPT !.pc = "done", !.read = {}, !.status = Recovered]]
  /\ why' = [why EXCEPT ![c] = "panic"]
  /\ UNCHANGED <<contacts, made, rpcs>>

\* The reply is sent.
Reply(c) ==
  /\ rpc[c].pc = "done"
  /\ rpc' = [rpc EXCEPT ![c] = NoRpc] /\ why' = [why EXCEPT ![c] = ""]
  /\ UNCHANGED <<contacts, made, rpcs>>

-----------------------------------------------------------------------------
(* The statements of the table, each with the error it returns. *)

ErrNotFound == New("NOT_FOUND")
ErrAlreadyExists == New("ALREADY_EXISTS")
ExecFails == Wrapf(<<"PLAIN">>, "INTERNAL")
StorageError == {<<>>, ErrNotFound, ErrAlreadyExists, ExecFails, <<"PLAIN">>}

Insert(a, n, err) ==
  LET taken == \E r \in contacts : r.address = a IN
  \/ /\ err = <<>> /\ ~taken /\ made' = made + 1
     /\ contacts' = contacts \cup {[id |-> made + 1, address |-> a, name |-> n, favorite |-> FALSE]}
  \/ /\ err = ExecFails \/ (err = ErrAlreadyExists /\ taken)
     /\ UNCHANGED <<contacts, made>>

GetByID(id, err) ==
  /\ err \in {IF RowsAt(id) # {} THEN <<>> ELSE ErrNotFound, <<"PLAIN">>}
  /\ UNCHANGED <<contacts, made>>

\* An UPDATE or DELETE of one row turns it into some of new.
Exec(id, new, err) ==
  /\ \/ err = ExecFails /\ UNCHANGED contacts
     \/ err = ErrNotFound /\ RowsAt(id) = {} /\ UNCHANGED contacts
     \/ err = <<>> /\ RowsAt(id) # {} /\ contacts' = (contacts \ RowsAt(id)) \cup new
  /\ UNCHANGED made

\* Mutant: the UPDATE writes every column of the row that was read.
UpdateWhole(id, name, read, err) == Exec(id, {[r EXCEPT !.name = name] : r \in read}, err)

\* SET name, notes, updated_at.
Update(id, name, read, err) == Exec(id, {[r EXCEPT !.name = name] : r \in RowsAt(id)}, err)

SetFavorite(id, f, err) == Exec(id, {[r EXCEPT !.favorite = f] : r \in RowsAt(id)}, err)
Delete(id, err) == Exec(id, {}, err)
List(err) == err \in {<<>>, ExecFails} /\ UNCHANGED <<contacts, made>>

\* The contacts' part of the transaction that empties six tables.
DeleteAll == contacts' = {} /\ UNCHANGED made

-----------------------------------------------------------------------------
(* The handlers. *)

\* Create wraps what the table says as internal; an address that does not
\* parse is an error of another package.
CreateContact(c) ==
  /\ In(c, "CreateContact", "handler")
  /\ \/ \E err \in StorageError :
          Insert(rpc[c].address, rpc[c].name, err) /\ Answer(c, Wrapf(err, "INTERNAL"))
     \/ Answer(c, <<"PLAIN">>) /\ UNCHANGED <<contacts, made>>

GetContact(c) ==
  /\ In(c, "GetContact", "handler")
  /\ \E err \in StorageError : GetByID(rpc[c].id, err) /\ Answer(c, err)

\* Usecase.Update loads the row ...
UpdateLoads(c) ==
  /\ In(c, "UpdateContact", "handler")
  /\ \E err \in StorageError :
       /\ GetByID(rpc[c].id, err)
       /\ IF err # <<>> THEN Answer(c, err)
          ELSE /\ rpc' = [rpc EXCEPT ![c] = [rpc[c] EXCEPT !.pc = "update", !.read = RowsAt(rpc[c].id)]]
               /\ UNCHANGED <<rpcs, why>>

\* ... and then stores it; it may be gone.
UpdateContact(c) ==
  /\ In(c, "UpdateContact", "update")
  /\ \E err \in StorageError :
       Update(rpc[c].id, rpc[c].name, rpc[c].read, err) /\ Answer(c, Wrapf(err, "INTERNAL"))

FavoriteContact(c) ==
  /\ In(c, "FavoriteContact", "handler")
  /\ \E err \in StorageError : SetFavorite(rpc[c].id, rpc[c].favorite, err) /\ Answer(c, err)

DeleteContact(c) ==
  /\ In(c, "DeleteContact", "handler")
  /\ \E err \in StorageError : Delete(rpc[c].id, err) /\ Answer(c, err)

ListContacts(c) ==
  /\ In(c, "ListContacts", "handler")
  /\ \E err \in StorageError : List(err) /\ Answer(c, err)

-----------------------------------------------------------------------------
ContactInit ==
  /\ contacts = {} /\ made = 0 /\ rpcs = 0
  /\ rpc = [c \in Caller |-> NoRpc]
  /\ why = [c \in Caller |-> ""]

ContactNext ==
  \E c \in Caller :
    \/ Send(c) \/ Reply(c) \/ Panic(c)
    \/ CreateContact(c) \/ GetContact(c) \/ UpdateLoads(c) \/ UpdateContact(c)
    \/ FavoriteContact(c) \/ DeleteContact(c) \/ ListContacts(c)

\* ImportWallet replaces the wallet, whatever RPCs are under way.
Reset == DeleteAll /\ UNCHANGED <<rpc, rpcs, why>>

-----------------------------------------------------------------------------
ContactTypeOK ==
  /\ contacts \subseteq Contact
  /\ \A r, q \in contacts : r.address = q.address => r = q

(***************************************************************************)
(* The client is told the truth: the status of an RPC is OK exactly when   *)
(* its statement took effect, NotFound when the row was gone (before the   *)
(* call or between the two statements of an update), AlreadyExists when    *)
(* the address was taken, however often the error was wrapped on the way;  *)
(* a failed statement and a panic are both Internal.                       *)
(***************************************************************************)
StatusIsTrue ==
  \A c \in Caller : rpc[c].pc = "done" =>
    rpc[c].status =
      CASE why[c] = "done" -> "OK"
        [] why[c] \in {"NOT_FOUND", "ALREADY_EXISTS"} -> why[c]
        [] why[c] = "refused" -> "UNAUTHENTICATED"
        [] OTHER -> "INTERNAL"

(***************************************************************************)
(* Editing a contact never undoes a star: a row changes its favorite flag  *)
(* only by a FavoriteContact RPC, although UpdateContact works on a row it *)
(* loaded earlier.                                                         *)
(***************************************************************************)
StarsAreKept ==
  [][\A r \in contacts, q \in contacts' :
       r.id = q.id /\ r.favorite # q.favorite =>
         \E c \in Caller :
           In(c, "FavoriteContact", "handler") /\ rpc[c].id = r.id
           /\ rpc[c].favorite = q.favorite]_contactVars
=============================================================================
