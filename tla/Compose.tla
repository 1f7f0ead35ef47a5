------------------------------ MODULE Compose -------------------------------
(***************************************************************************)
(* docker-compose.yml: the api process (ChatService) among the containers  *)
(* it depends on.                                                          *)
(*                                                                         *)
(* `docker compose up` starts the stores, waits until Postgres is healthy, *)
(* runs db-migrate to its end, waits until vLLM is healthy and only then   *)
(* starts the api.  The daemon restarts a container that has died, or all  *)
(* of them after a reboot, without waiting for anything and without        *)
(* db-migrate (restart: "no").  What the api finds when it opens its       *)
(* connection decides for the life of the process whether it traces.       *)
(*                                                                         *)
(* A migration is one step here (Migrate has its steps): what matters is   *)
(* that 0001 makes the tables and 0002 the role the api connects as, with  *)
(* the API_DB_PASSWORD of that day.                                        *)
(***************************************************************************)
EXTENDS ChatService

CONSTANTS Passwords,      \* the values API_DB_PASSWORD may have
          FirstPassword,  \* the one the operator begins with
          NoRole,         \* the role does not exist
          MaxFaults       \* bound on deaths, reboots, swaps and rotations

ASSUME PasswordAssumption == FirstPassword \in Passwords
ASSUME NoRoleAssumption == NoRole \notin Passwords
ASSUME FaultsAssumption == MaxFaults \in Nat

VARIABLES
  up,         \* where a `compose up` is: "none", "stores", "migrate" or "api"
  wanted,     \* do the containers exist, for the daemon to keep running?
  postgres, vllm,   \* "down", or "up" and healthy
  schema,     \* migrations in the data volume: 0, 1 or 2
  role,       \* the password of api_writer in the volume, or NoRole
  env,        \* API_DB_PASSWORD in .env
  api,        \* the api container: "absent" or "running"
  apiEnv,     \* API_DB_PASSWORD as the container was created with it
  unreached,  \* has the store been out of reach while start() asked for it?
  since,      \* history: has it failed or changed since this `up` saw db-migrate done?
  gated,      \* history: is a process starting for which it has not?
  faults

composeVars == <<serviceVars, up, wanted, postgres, vllm, schema, role, env, api,
                 apiEnv, unreached, gated, since, faults>>

volumeVars == <<schema, role>>
procVars   == <<api, apiEnv, unreached, gated>>

ComposeTypeOK ==
  /\ up \in {"none", "stores", "migrate", "api"}
  /\ wanted \in BOOLEAN /\ unreached \in BOOLEAN /\ gated \in BOOLEAN /\ since \in BOOLEAN
  /\ postgres \in {"down", "up"} /\ vllm \in {"down", "up"}
  /\ schema \in 0..2 /\ role \in Passwords \cup {NoRole}
  /\ env \in Passwords /\ apiEnv \in Passwords
  /\ api \in {"absent", "running"}
  /\ faults \in 0..MaxFaults

ComposeInit ==
  /\ ServiceInit /\ dsn = TRUE
  /\ up = "none" /\ wanted = FALSE
  /\ postgres = "down" /\ vllm = "down"
  /\ schema = 0 /\ role = NoRole
  /\ env = FirstPassword /\ apiEnv = FirstPassword
  /\ api = "absent" /\ unreached = FALSE /\ gated = FALSE /\ since = FALSE
  /\ faults = 0

\* The api can connect, as api_writer.
Reachable == postgres = "up" /\ schema = 2 /\ role = apiEnv

-----------------------------------------------------------------------------
(* The process, in its container.  Its pool asks again until it reaches    *)
(* the store or its time is up; a connection it has outlives a change of   *)
(* the password.                                                           *)

InContainer(A) ==
  /\ api = "running" /\ A
  /\ UNCHANGED <<up, wanted, postgres, vllm, volumeVars, env, api, apiEnv, since, faults>>

ApiStarts ==
  InContainer(/\ Store!Start /\ UNCHANGED <<req, server>>
              /\ unreached' = ~ Reachable /\ UNCHANGED gated)

ApiOpens ==
  InContainer(/\ \/ Reachable /\ Store!OpenSucceeds
                 \/ unreached /\ Store!OpenFails
              /\ unreached' = FALSE /\ gated' = FALSE
              /\ UNCHANGED <<req, server>>)

ApiWrites ==
  InContainer(/\ \/ Store!Get \/ Store!WriteEnds
                 \/ postgres = "up" /\ schema = 2
                    /\ (Store!SendCommit \/ \E r \in Requests : Store!ServerCommits(r))
                 \/ Store!CancelIdle \/ Store!CancelWrite
                 \/ Store!Reap \/ Store!PoolCloses
              /\ UNCHANGED <<req, server, unreached, gated>>)

ApiServes ==
  InContainer(/\ \E r \in Requests : Arrive(r) \/ Progress(r) \/ EndBody(r)
              /\ UNCHANGED <<unreached, gated>>)

\* docker stop: SIGTERM, a drain, and SIGKILL after ten seconds; it is told
\* to only where a start follows (compose restart, up with a changed .env).
ApiStops ==
  InContainer(/\ \/ Sigterm /\ restarts < MaxRestarts
                 \/ Shutdown
              /\ UNCHANGED <<unreached, gated>>)

\* The process ends, of itself or killed, and the daemon starts the next one.
ApiRestarts ==
  /\ api = "running"
  /\ Crash
  /\ unreached' = FALSE /\ gated' = FALSE
  /\ UNCHANGED <<up, wanted, postgres, vllm, volumeVars, env, api, apiEnv, since, faults>>

-----------------------------------------------------------------------------
(* The daemon and db-migrate.                                              *)

PostgresStarts ==
  /\ wanted /\ postgres = "down"
  /\ postgres' = "up"
  /\ UNCHANGED <<serviceVars, up, wanted, vllm, volumeVars, env, procVars, since, faults>>

VllmStarts ==
  /\ wanted /\ vllm = "down"
  /\ vllm' = "up"
  /\ UNCHANGED <<serviceVars, up, wanted, postgres, volumeVars, env, procVars, since,
                 faults>>

MigrateApplies ==
  /\ up = "migrate" /\ postgres = "up" /\ schema < 2
  /\ schema' = schema + 1
  /\ role' = IF schema = 1 THEN env ELSE role
  /\ UNCHANGED <<serviceVars, up, wanted, postgres, vllm, env, procVars, since, faults>>

\* Exits 0, having found or made the whole schema ...
MigrateDone ==
  /\ up = "migrate" /\ postgres = "up" /\ schema = 2
  /\ up' = "api" /\ since' = FALSE
  /\ UNCHANGED <<serviceVars, wanted, postgres, vllm, volumeVars, env, procVars, faults>>

\* ... or gives up on a database that is away, and `compose up` with it.
MigrateFails ==
  /\ up = "migrate" /\ postgres = "down"
  /\ up' = "none"
  /\ UNCHANGED <<serviceVars, wanted, postgres, vllm, volumeVars, env, procVars, since,
                 faults>>

-----------------------------------------------------------------------------
(* docker compose up.                                                      *)

Up ==
  /\ up = "none"
  /\ up' = "stores" /\ wanted' = TRUE
  /\ UNCHANGED <<serviceVars, postgres, vllm, volumeVars, env, procVars, since, faults>>

\* db-migrate: postgres, service_healthy.
UpMigrates ==
  /\ up = "stores" /\ postgres = "up"
  /\ up' = "migrate"
  /\ UNCHANGED <<serviceVars, wanted, postgres, vllm, volumeVars, env, procVars, since,
                 faults>>

\* Mutant: api waits for db-migrate to have been started.
MayStartApi_Started == up \in {"migrate", "api"} /\ vllm = "up"

\* api: vllm, service_healthy, and db-migrate, service_completed_successfully.
MayStartApi == up = "api" /\ vllm = "up"

UpEnds == up' = "none" /\ since' = FALSE

UpStartsApi ==
  /\ MayStartApi /\ api = "absent"
  /\ UpEnds
  /\ api' = "running" /\ apiEnv' = env /\ gated' = ~ since /\ unreached' = FALSE
  /\ UNCHANGED <<serviceVars, wanted, postgres, vllm, volumeVars, env, faults>>

\* A container whose environment has changed is stopped and created anew.
UpRecreatesApi ==
  /\ MayStartApi /\ api = "running" /\ apiEnv # env /\ server = "draining"
  /\ Crash
  /\ UpEnds
  /\ apiEnv' = env /\ gated' = ~ since /\ unreached' = FALSE
  /\ UNCHANGED <<wanted, postgres, vllm, volumeVars, env, api, faults>>

\* Otherwise it is left alone, whether it traces or not.
UpKeepsApi ==
  /\ MayStartApi /\ api = "running" /\ apiEnv = env
  /\ UpEnds
  /\ UNCHANGED <<serviceVars, wanted, postgres, vllm, volumeVars, env, procVars, faults>>

-----------------------------------------------------------------------------
(* What goes wrong, and what the operator does.                            *)

Fault == faults < MaxFaults /\ faults' = faults + 1

StoreGone ==
  /\ unreached' = (phase = "opening")
  /\ since' = (up = "api")
  /\ gated' = FALSE

\* Statements on their way to a server that dies are not committed.
Severed == committing' = committing \cap rows

storeButTable == <<dsn, phase, pool, worker, queue, held, depth, metric,
                   restarts, calls, interrupted, fate>>

PostgresDies ==
  /\ postgres = "up" /\ Fault /\ StoreGone
  /\ postgres' = "down" /\ Severed
  /\ UNCHANGED <<req, server, storeButTable, rows, up, wanted, vllm, volumeVars, env,
                 api, apiEnv>>

VllmDies ==
  /\ vllm = "up" /\ Fault
  /\ vllm' = "down"
  /\ UNCHANGED <<serviceVars, up, wanted, postgres, volumeVars, env, procVars, since>>

\* The host goes down, or `compose down`: an api that was there ends with the rest.
EndAll ==
  /\ Fault
  /\ postgres' = "down" /\ vllm' = "down"
  /\ UpEnds
  /\ unreached' = FALSE /\ gated' = FALSE
  /\ IF api = "running" THEN Crash ELSE UNCHANGED serviceVars
  /\ UNCHANGED <<volumeVars, env, apiEnv>>

\* The daemon is back, and the containers that are not one-shot with it.
Reboot == wanted /\ EndAll /\ UNCHANGED <<wanted, api>>

Down == wanted /\ up = "none" /\ EndAll /\ wanted' = FALSE /\ api' = "absent"

\* `down -v`, or another disk.
ReplaceVolume ==
  /\ postgres = "down" /\ schema # 0 /\ Fault /\ StoreGone
  /\ schema' = 0 /\ role' = NoRole
  /\ rows' = {} /\ committing' = {}
  /\ UNCHANGED <<req, server, storeButTable, up, wanted, postgres, vllm, env, api,
                 apiEnv>>

\* API_DB_PASSWORD is changed in .env, and in the database, in some order.
EditEnv ==
  /\ up = "none" /\ Fault
  /\ \E p \in Passwords \ {env} : env' = p
  /\ UNCHANGED <<serviceVars, up, wanted, postgres, vllm, volumeVars, procVars, since>>

AlterRole ==
  /\ postgres = "up" /\ role \notin {NoRole, env}
  /\ role' = env /\ StoreGone
  /\ UNCHANGED <<serviceVars, up, wanted, postgres, vllm, schema, env, api, apiEnv,
                 faults>>

-----------------------------------------------------------------------------
Process == ApiStarts \/ ApiOpens \/ ApiWrites \/ ApiServes \/ ApiStops \/ ApiRestarts

Daemon == PostgresStarts \/ VllmStarts \/ MigrateApplies \/ MigrateDone \/ MigrateFails

Operator == Up \/ UpMigrates \/ UpStartsApi \/ UpRecreatesApi \/ UpKeepsApi

Trouble == \/ PostgresDies \/ VllmDies \/ Reboot \/ Down \/ ReplaceVolume
           \/ EditEnv \/ AlterRole

ComposeNext == Process \/ Daemon \/ Operator \/ Trouble

ComposeSpec == ComposeInit /\ [][ComposeNext]_composeVars

\* Requests make progress (ChatProxy's RequestsEnd), start() returns, vLLM comes
\* up when the daemon starts it, and a process told to stop is killed after the
\* grace period.  Neither the worker nor Postgres, db-migrate or the operator
\* need ever take a step.
ComposeFairSpec ==
  /\ ComposeSpec
  /\ WF_composeVars(ApiStarts) /\ WF_composeVars(ApiOpens)
  /\ WF_composeVars(VllmStarts)
  /\ WF_composeVars(server = "draining" /\ ApiRestarts)
  /\ \A r \in Requests :
       /\ WF_composeVars(InContainer(/\ Progress(r) /\ req[r] = "active"
                                     /\ UNCHANGED <<unreached, gated>>))
       /\ WF_composeVars(InContainer(EndBody(r) /\ UNCHANGED <<unreached, gated>>))

-----------------------------------------------------------------------------
\* The gate does its job ("keeps api from starting against a half-applied
\* schema", and Compose ordering makes a disabled writer unlikely): an api that
\* `compose up` has started misses the store only if the store has failed or
\* changed since db-migrate was done, or .env has a password the role does not.
GateHolds ==
  gated /\ phase = "opening" /\ unreached => role \notin {NoRole, apiEnv}

\* Whatever dies or is swapped, and with Postgres away for good, the daemon
\* alone brings chat back: a running api comes to serve a healthy model again.
ChatComesBack ==
  api = "running" ~>
    \/ phase = "serving" /\ server = "up" /\ vllm = "up"
    \/ api = "absent"
=============================================================================
