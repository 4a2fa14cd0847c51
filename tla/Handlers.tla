------------------------------ MODULE Handlers ------------------------------
(***************************************************************************)
(* POST /orders in the eight applications, as data.  <App>CreateOrder is   *)
(* the control flow of the handler: whether its validation refuses every   *)
(* quantity below 1 (positive); between BEGIN and the response, for each   *)
(* statement, the step that follows it when it succeeds; the status of its *)
(* two business refusals, and how the transaction ends after one; and      *)
(* whether waiting for a pool connection can time out.  <App>Replay is     *)
(* how the handler answers when the INSERT hit an existing idempotency     *)
(* key:                                                                    *)
(*   endTx     it ends its transaction before the replay reads;            *)
(*   keepConn  it still holds its connection while it reads;               *)
(*   via       "conn" if it reads on that connection, "pool" if each read  *)
(*             takes a connection from the pool;                           *)
(*   onError   where it goes when a replay read fails.                     *)
(***************************************************************************)

Apps == {"go", "rust", "node", "bun", "python", "aspnet", "spring", "phoenix"}

(* Mutant: insufficient stock is answered with a status the contract lacks. *)
GoCreateOrder422 ==
    [positive |-> FALSE,
     begin |-> "lock", lock |-> "check", check |-> "insert", insert |-> "item",
     item |-> "ledger", ledger |-> "stock", stock |-> "commit",
     commit |-> "respond", unknown |-> 400, short |-> 422,
     refusal |-> "rollback", acquireTimeout |-> FALSE]

(* apps/go: binding:"required" refuses a quantity of 0 and lets negative ones
   through; pgxpool waits for a connection as long as the request's context
   lives; returnExistingOrder runs after tx.Rollback gave the connection back. *)
GoCreateOrder ==
    [positive |-> FALSE,
     begin |-> "lock", lock |-> "check", check |-> "insert", insert |-> "item",
     item |-> "ledger", ledger |-> "stock", stock |-> "commit",
     commit |-> "respond", unknown |-> 400, short |-> 409,
     refusal |-> "rollback", acquireTimeout |-> FALSE]

(* Mutant: the rollback is left to the deferred one, after the replay. *)
GoReplayDeferred ==
    [endTx |-> FALSE, keepConn |-> TRUE, via |-> "pool", onError |-> "abort"]

GoReplay ==
    [endTx |-> TRUE, keepConn |-> FALSE, via |-> "pool", onError |-> "done"]

(* apps/rust: acquire_timeout(5 s). *)
RustCreateOrder ==
    [positive |-> FALSE,
     begin |-> "lock", lock |-> "check", check |-> "insert", insert |-> "item",
     item |-> "ledger", ledger |-> "stock", stock |-> "commit",
     commit |-> "respond", unknown |-> 400, short |-> 409,
     refusal |-> "rollback", acquireTimeout |-> TRUE]

RustReplay ==
    [endTx |-> TRUE, keepConn |-> FALSE, via |-> "pool", onError |-> "done"]

(* apps/node: connectionTimeoutMillis 10 s.  replayOrder is awaited inside the
   try block, after client.release(); if it throws, the catch block sends
   ROLLBACK and release() to the client that was already given back. *)
NodeCreateOrder ==
    [positive |-> FALSE,
     begin |-> "lock", lock |-> "check", check |-> "insert", insert |-> "item",
     item |-> "ledger", ledger |-> "stock", stock |-> "commit",
     commit |-> "respond", unknown |-> 400, short |-> 409,
     refusal |-> "rollback", acquireTimeout |-> TRUE]

NodeReplay ==
    [endTx |-> TRUE, keepConn |-> FALSE, via |-> "pool",
     onError |-> "strayRollback"]

(* apps/bun: postgres.js queues without a limit.  The callback of sql.begin
   returns normally on a refusal and on a conflict, so those transactions,
   which wrote nothing, are committed; replayOrder runs after it. *)
(* Mutant: the stock is checked after the order is inserted. *)
BunCreateOrderLateCheck ==
    [positive |-> TRUE,
     begin |-> "lock", lock |-> "insert", check |-> "item", insert |-> "check",
     item |-> "ledger", ledger |-> "stock", stock |-> "commit",
     commit |-> "respond", unknown |-> 400, short |-> 409,
     refusal |-> "commit", acquireTimeout |-> FALSE]

BunCreateOrder ==
    [positive |-> TRUE,
     begin |-> "lock", lock |-> "check", check |-> "insert", insert |-> "item",
     item |-> "ledger", ledger |-> "stock", stock |-> "commit",
     commit |-> "respond", unknown |-> 400, short |-> 409,
     refusal |-> "commit", acquireTimeout |-> FALSE]

BunReplay ==
    [endTx |-> TRUE, keepConn |-> FALSE, via |-> "pool", onError |-> "done"]

(* apps/python: asyncpg's pool.acquire has no timeout; replay_order(p, ...)
   reads through the pool from inside "async with p.acquire() as conn". *)
PythonCreateOrder ==
    [positive |-> TRUE,
     begin |-> "lock", lock |-> "check", check |-> "insert", insert |-> "item",
     item |-> "ledger", ledger |-> "stock", stock |-> "commit",
     commit |-> "respond", unknown |-> 400, short |-> 409,
     refusal |-> "rollback", acquireTimeout |-> FALSE]

PythonReplay ==
    [endTx |-> TRUE, keepConn |-> TRUE, via |-> "pool", onError |-> "abort"]

(* apps/aspnet: Npgsql's connect timeout also bounds the wait for the pool;
   ReplayOrderAsync reads on the handler's own connection. *)
AspnetCreateOrder ==
    [positive |-> FALSE,
     begin |-> "lock", lock |-> "check", check |-> "insert", insert |-> "item",
     item |-> "ledger", ledger |-> "stock", stock |-> "commit",
     commit |-> "respond", unknown |-> 400, short |-> 409,
     refusal |-> "rollback", acquireTimeout |-> TRUE]

AspnetReplay ==
    [endTx |-> TRUE, keepConn |-> TRUE, via |-> "conn", onError |-> "abort"]

(* apps/spring: Hikari's connectionTimeout is 10 s; the refusals are
   exceptions that ErrorAdvice maps; the replay reads inside the transaction,
   with the product rows still locked, and @Transactional commits after. *)
SpringCreateOrder ==
    [positive |-> FALSE,
     begin |-> "lock", lock |-> "check", check |-> "insert", insert |-> "item",
     item |-> "ledger", ledger |-> "stock", stock |-> "commit",
     commit |-> "respond", unknown |-> 400, short |-> 409,
     refusal |-> "rollback", acquireTimeout |-> TRUE]

SpringReplay ==
    [endTx |-> FALSE, keepConn |-> TRUE, via |-> "conn", onError |-> "abort"]

(* apps/phoenix: a refusal is returned from the transaction's fun, which
   Postgrex.transaction wraps as {:ok, {:error, _}}; no clause of the case
   matches that, and the CaseClauseError becomes a 500.  DBConnection drops
   requests that queue for too long. *)
PhoenixCreateOrder ==
    [positive |-> FALSE,
     begin |-> "lock", lock |-> "check", check |-> "insert", insert |-> "item",
     item |-> "ledger", ledger |-> "stock", stock |-> "commit",
     commit |-> "respond", unknown |-> 500, short |-> 500,
     refusal |-> "commit", acquireTimeout |-> TRUE]

PhoenixReplay ==
    [endTx |-> TRUE, keepConn |-> FALSE, via |-> "pool", onError |-> "done"]

CreateOrder(app) ==
    CASE app = "go"      -> GoCreateOrder
      [] app = "rust"    -> RustCreateOrder
      [] app = "node"    -> NodeCreateOrder
      [] app = "bun"     -> BunCreateOrder
      [] app = "python"  -> PythonCreateOrder
      [] app = "aspnet"  -> AspnetCreateOrder
      [] app = "spring"  -> SpringCreateOrder
      [] app = "phoenix" -> PhoenixCreateOrder

Replay(app) ==
    CASE app = "go"      -> GoReplay
      [] app = "rust"    -> RustReplay
      [] app = "node"    -> NodeReplay
      [] app = "bun"     -> BunReplay
      [] app = "python"  -> PythonReplay
      [] app = "aspnet"  -> AspnetReplay
      [] app = "spring"  -> SpringReplay
      [] app = "phoenix" -> PhoenixReplay
=============================================================================
