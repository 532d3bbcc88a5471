-------------------------------- MODULE Server --------------------------------
(***************************************************************************)
(* The life of a server (mock-oracle-server lib.rs and main.rs) and of the *)
(* MockOracle object that owns one in Node (mock-oracle-node lib.rs): the  *)
(* seed script, the listener, and stop(), which several callers may await. *)
(*                                                                         *)
(* `stop` is a oneshot channel: the accept loop selects between it and the *)
(* next connection, and takes either when both are ready.                  *)
(***************************************************************************)
EXTENDS Naturals

CONSTANTS
  Caller,         (* JavaScript calls of stop()                             *)
  None,
  Seeds           (* the number of seed statements or files                 *)

VARIABLES
  server,         (* "seeding", "listening", "stopped" or "failed"          *)
  seeded,         (* how many seeds have run                                *)
  shutdown,       (* the oneshot: whether stop was sent                     *)
  owner,          (* who holds MockOracle.server's Mutex, or None           *)
  taken,          (* whether take() has emptied the Option                  *)
  caller          (* where each call of stop() is                           *)

serverVars == <<server, seeded, shutdown, owner, taken, caller>>

ServerInit ==
  /\ server = "seeding"
  /\ seeded = 0
  /\ shutdown = FALSE
  /\ owner = None
  /\ taken = FALSE
  /\ caller = [p \in Caller |-> "idle"]

(* run_script for the next seed: the first error ends the start.            *)
Seed ==
  /\ server = "seeding" /\ seeded < Seeds
  /\ \/ seeded' = seeded + 1 /\ UNCHANGED server
     \/ server' = "failed" /\ UNCHANGED seeded
  /\ UNCHANGED <<shutdown, owner, taken, caller>>

(* Server::start after the seeds: bind may fail.                            *)
Listen ==
  /\ server = "seeding" /\ seeded = Seeds
  /\ server' \in {"listening", "failed"}
  /\ UNCHANGED <<seeded, shutdown, owner, taken, caller>>

(* MockOracle::stop: the guard of the Mutex lives until the `if let` is     *)
(* over, so a second caller waits until the first has stopped the server.   *)
StopCall(p) ==
  /\ server \in {"listening", "stopped"}
  /\ caller[p] = "idle"
  /\ caller' = [caller EXCEPT ![p] = "locking"]
  /\ UNCHANGED <<server, seeded, shutdown, owner, taken>>

(* Mutant: the guard is dropped as soon as the Option is taken. *)
StopTakeUnlocked(p) ==
  /\ caller[p] = "locking"
  /\ caller' = [caller EXCEPT ![p] = IF taken THEN "returned" ELSE "joining"]
  /\ taken' = TRUE
  /\ shutdown' = TRUE
  /\ UNCHANGED <<server, seeded, owner>>

StopTake(p) ==
  /\ caller[p] = "locking" /\ owner = None
  /\ IF taken
     THEN /\ caller' = [caller EXCEPT ![p] = "returned"]
          /\ UNCHANGED <<owner, taken, shutdown>>
     ELSE /\ caller' = [caller EXCEPT ![p] = "joining"]
          /\ owner' = p
          /\ taken' = TRUE
          /\ shutdown' = TRUE
  /\ UNCHANGED <<server, seeded>>

(* The accept loop breaks and drops its listener.                           *)
BreakLoop ==
  /\ server = "listening" /\ shutdown
  /\ server' = "stopped"
  /\ UNCHANGED <<seeded, shutdown, owner, taken, caller>>

(* Mutant: the caller keeps the Mutex. *)
StopJoinLocked(p) ==
  /\ caller[p] = "joining" /\ server = "stopped"
  /\ caller' = [caller EXCEPT ![p] = "returned"]
  /\ UNCHANGED <<server, seeded, shutdown, owner, taken>>

(* Server::stop's await of the task, and the end of MockOracle::stop.       *)
StopJoin(p) ==
  /\ caller[p] = "joining" /\ server = "stopped"
  /\ caller' = [caller EXCEPT ![p] = "returned"]
  /\ owner' = None
  /\ UNCHANGED <<server, seeded, shutdown, taken>>

(* Every call of stop() that has returned, also one that found the server   *)
(* already taken by another call, returned after the accept loop ended      *)
(* (Node lib.rs stop, server lib.rs stop).                                  *)
StopReturnsStopped ==
  \A p \in Caller : caller[p] = "returned" => server = "stopped"

(* A call of stop() returns, whatever the clients and the other callers do  *)
(* (the accept loop's select and the Mutex of Node lib.rs).                 *)
StopReturns ==
  \A p \in Caller : caller[p] = "locking" ~> caller[p] = "returned"
=============================================================================
