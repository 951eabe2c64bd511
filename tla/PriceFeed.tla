----------------------------- MODULE PriceFeed ------------------------------
(***************************************************************************)
(* The price feed (adapter/price) over its TTL cache (pkg/cache).  A read  *)
(* that misses asks CoinGecko itself; nothing keeps two readers of one key *)
(* from asking at once, nor the answers from being stored in the order     *)
(* they were sent.  A failed fetch falls back to the entry, however old.   *)
(*                                                                         *)
(* A price is known by the time CoinGecko sampled it.  The HTTP client     *)
(* gives up after FetchTimeout.  The three caches differ in their keys.    *)
(***************************************************************************)
EXTENDS Naturals

CONSTANTS
  Reader,        \* goroutines inside a Get call
  TTL,           \* lifetime of an entry
  FetchTimeout,  \* http.Client timeout
  MaxNow,        \* bound on the clock
  MaxReads       \* bound on Get calls

ASSUME FeedAssumption == TTL \in Nat /\ FetchTimeout \in Nat /\ MaxNow \in Nat /\ MaxReads \in Nat

VARIABLES
  cache,    \* entries: records [key, sampled, expires], one for a key
  reader,   \* the Get call of a reader
  now,      \* the clock
  stored,   \* history: keys that were ever stored
  reads     \* history: Get calls so far

feedVars == <<cache, reader, now, stored, reads>>

\* kind tells the caches apart; about is the addresses of a token key, the
\* address of a sparkline, nothing for the native prices.
Key(kind, about) == [kind |-> kind, about |-> about]
NoKey == Key("none", {})

\* got: nothing, or the age its price had when the call returned; hit says
\* that the entry was taken for fresh.
Empty == [any |-> FALSE, hit |-> FALSE, age |-> 0]
NoRead == [pc |-> "idle", key |-> NoKey, began |-> 0, sampled |-> 0, got |-> Empty]

FeedTypeOK ==
  /\ now \in 0..MaxNow /\ reads \in 0..MaxReads
  /\ \A e \in cache : e.sampled \in 0..now /\ e.expires \in 0..(MaxNow + TTL)
  /\ \A e, f \in cache : e.key = f.key => e = f
  /\ \A v \in Reader : reader[v].pc \in {"idle", "asking", "answered", "done"}
  /\ {e.key : e \in cache} \subseteq stored

FeedInit ==
  /\ cache = {} /\ stored = {} /\ now = 0 /\ reads = 0
  /\ reader = [v \in Reader |-> NoRead]

-----------------------------------------------------------------------------
(* pkg/cache. *)

Entries(key) == {e \in cache : e.key = key}

Get(key) == {e \in Entries(key) : now <= e.expires}
GetStale(key) == Entries(key)

Set(key, sampled) ==
  /\ cache' = {e \in cache : e.key # key}
                \cup {[key |-> key, sampled |-> sampled, expires |-> now + TTL]}
  /\ stored' = stored \cup {key}

-----------------------------------------------------------------------------
(* GetPrices, GetTokenPrices and GetSparkline. *)

Finish(v, got) == reader' = [reader EXCEPT ![v] = [@ EXCEPT !.pc = "done", !.got = got]]

\* The cache is asked first.
Lookup(v, key) ==
  /\ reader[v].pc = "idle" /\ reads < MaxReads
  /\ reads' = reads + 1
  /\ \/ \E e \in Get(key) :
          reader' = [reader EXCEPT ![v] = [NoRead EXCEPT !.pc = "done", !.key = key,
                       !.got = [any |-> TRUE, hit |-> TRUE, age |-> now - e.sampled]]]
     \/ /\ Get(key) = {}
        /\ reader' = [reader EXCEPT ![v] = [NoRead EXCEPT !.pc = "asking", !.key = key,
                                                          !.began = now]]
  /\ UNCHANGED <<cache, now, stored>>

\* CoinGecko samples the price; its answer is under way.
Respond(v) ==
  /\ reader[v].pc = "asking"
  /\ reader' = [reader EXCEPT ![v] = [@ EXCEPT !.pc = "answered", !.sampled = now]]
  /\ UNCHANGED <<cache, now, stored, reads>>

\* The answer is there and can be used: it replaces the entry.
FetchOK(v) ==
  /\ reader[v].pc = "answered"
  /\ Set(reader[v].key, reader[v].sampled)
  /\ Finish(v, [any |-> TRUE, hit |-> FALSE, age |-> now - reader[v].sampled])
  /\ UNCHANGED <<now, reads>>

\* Mutant: what the fallback returns is stored anew, with a new lifetime.
FetchFailsRenewing(v) ==
  /\ reader[v].pc \in {"asking", "answered"}
  /\ \/ \E e \in GetStale(reader[v].key) :
          /\ Finish(v, [any |-> TRUE, hit |-> FALSE, age |-> now - e.sampled])
          /\ Set(reader[v].key, e.sampled)
     \/ /\ GetStale(reader[v].key) = {}
        /\ Finish(v, Empty)
        /\ UNCHANGED <<cache, stored>>
  /\ UNCHANGED <<now, reads>>

\* No connection, a status that is not 200, a body that does not decode, a
\* sparkline without points: the entry, however old, or nothing.
FetchFails(v) ==
  /\ reader[v].pc \in {"asking", "answered"}
  /\ \/ \E e \in GetStale(reader[v].key) :
          Finish(v, [any |-> TRUE, hit |-> FALSE, age |-> now - e.sampled])
     \/ GetStale(reader[v].key) = {} /\ Finish(v, Empty)
  /\ UNCHANGED <<cache, now, stored, reads>>

Done(v) ==
  /\ reader[v].pc = "done"
  /\ reader' = [reader EXCEPT ![v] = NoRead]
  /\ UNCHANGED <<cache, now, stored, reads>>

\* No call outlives the client's timeout.
Tick ==
  /\ now < MaxNow
  /\ \A v \in Reader : reader[v].pc \in {"asking", "answered"} => now < reader[v].began + FetchTimeout
  /\ now' = now + 1
  /\ UNCHANGED <<cache, reader, stored, reads>>

-----------------------------------------------------------------------------
(* What a call returns (Get, FetchOK, FetchFails).  A price taken from the *)
(* cache as fresh was sampled no longer ago than the lifetime of an entry  *)
(* and one fetch, whichever of two racing answers came last; and a key     *)
(* that was answered once is never answered with nothing again.            *)
AnswersServe == [][\A v \in Reader :
  reader[v].pc # "done" /\ reader'[v].pc = "done" =>
    /\ reader'[v].got.hit => reader'[v].got.age <= TTL + FetchTimeout
    /\ reader[v].pc # "idle" /\ reader[v].key \in stored => reader'[v].got.any]_feedVars
=============================================================================
