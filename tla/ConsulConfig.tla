---------------------------- MODULE ConsulConfig ----------------------------
(***************************************************************************)
(* src/config/consul: a server that takes its configuration from consul.   *)
(* runConfigUpdater loads it every three seconds; configMiddleware gives   *)
(* each request the map of the moment, by reference, and the handler       *)
(* prints it under the number consulLastIndex, which it reads without the  *)
(* lock.  A configuration is the number it was written under: a loaded map *)
(* is made new each time and never written again.                          *)
(***************************************************************************)
EXTENDS Naturals

CONSTANTS
  Reader,        \* goroutines that serve a request
  MaxIndex,      \* bound: writes to consul
  MaxLoads       \* bound: loads

VARIABLES
  consulIndex,      \* consul: the index of its configuration
  globalCfg,        \* the configuration of the server
  consulLastIndex,  \* and its number
  loading,          \* the updater: "idle", "asked", "got" or "locked"
  answered,         \* what consul answered it
  loads,
  reading,          \* a request: "none", "middleware", "handler" or "done"
  localCfg,         \* its configuration
  version           \* the number it prints

configVars == <<consulIndex, globalCfg, consulLastIndex, loading, answered,
                loads, reading, localCfg, version>>

ConfigInit ==
  /\ consulIndex = 1
  /\ globalCfg = 0 /\ consulLastIndex = 0
  /\ loading = "asked" /\ answered = 0 /\ loads = 1
  /\ reading = [r \in Reader |-> "none"]
  /\ localCfg = [r \in Reader |-> 0]
  /\ version = [r \in Reader |-> 0]

requests == <<reading, localCfg, version>>
config == <<globalCfg, consulLastIndex>>

Write ==
  /\ consulIndex < MaxIndex /\ consulIndex' = consulIndex + 1
  /\ UNCHANGED <<config, loading, answered, loads, requests>>

-----------------------------------------------------------------------------
(* loadConfig.  main calls it once before it serves; then the ticker does. *)

Tick ==
  /\ loading = "idle" /\ loads < MaxLoads
  /\ loading' = "asked" /\ loads' = loads + 1
  /\ UNCHANGED <<consulIndex, config, answered, requests>>

(* consul answers a query with WaitIndex when it has something newer, or   *)
(* after its own time.  What is not newer is not taken, nor an error.      *)
ConsulAnswers ==
  /\ loading = "asked"
  /\ \/ answered' = consulIndex
        /\ loading' = IF consulLastIndex = consulIndex THEN "idle" ELSE "got"
     \/ loading' = "idle" /\ UNCHANGED answered
  /\ UNCHANGED <<consulIndex, config, loads, requests>>

(* globalCfgMu.Lock; the map.                                              *)
LockConfig ==
  /\ loading = "got" /\ loading' = "locked"
  /\ globalCfg' = answered
  /\ UNCHANGED <<consulIndex, consulLastIndex, answered, loads, requests>>

(* The number; Unlock.                                                     *)
UnlockConfig ==
  /\ loading = "locked" /\ loading' = "idle"
  /\ consulLastIndex' = answered
  /\ UNCHANGED <<consulIndex, globalCfg, answered, loads, requests>>

-----------------------------------------------------------------------------
(* A request: configMiddleware copies the map's reference under RLock, and *)
(* loadPostsHandle prints it.                                              *)
Serving == loads > 1 \/ loading = "idle"

(* Faulty: the map is copied without the lock.                             *)
Middleware_NoLock(r) ==
  /\ Serving /\ reading[r] = "none"
  /\ localCfg' = [localCfg EXCEPT ![r] = globalCfg]
  /\ reading' = [reading EXCEPT ![r] = "handler"]
  /\ UNCHANGED <<consulIndex, config, loading, answered, loads, version>>

Middleware(r) ==
  /\ Serving /\ reading[r] = "none" /\ loading # "locked"
  /\ localCfg' = [localCfg EXCEPT ![r] = globalCfg]
  /\ reading' = [reading EXCEPT ![r] = "handler"]
  /\ UNCHANGED <<consulIndex, config, loading, answered, loads, version>>

PostsHandle(r) ==
  /\ reading[r] = "handler"
  /\ version' = [version EXCEPT ![r] = consulLastIndex]
  /\ reading' = [reading EXCEPT ![r] = "done"]
  /\ UNCHANGED <<consulIndex, config, loading, answered, loads, localCfg>>

ConfigNext ==
  \/ Write \/ Tick \/ ConsulAnswers \/ LockConfig \/ UnlockConfig
  \/ \E r \in Reader : Middleware(r) \/ PostsHandle(r)

ConfigSpec == ConfigInit /\ [][ConfigNext]_configVars

-----------------------------------------------------------------------------
(* The number a request prints is never older than the configuration it    *)
(* prints it for, and newer only if that was replaced in the meantime: the *)
(* handler reads the number without the lock, after the map.               *)
VersionCoversConfig ==
  [][\A r \in Reader : reading[r] = "handler" /\ reading'[r] = "done" =>
       /\ version'[r] >= localCfg[r]
       /\ version'[r] # localCfg[r] => globalCfg # localCfg[r]]_configVars
=============================================================================
