------------------------------ MODULE Providers ------------------------------
(***************************************************************************)
(* The dependency providers of the API, as concurrent HTTP requests call   *)
(* them: every request gets the storage first, and one that triggers an    *)
(* ingestion then gets the adapter registry, whose adapter owns the rate   *)
(* limiter of the source.  Requests of either kind share both globals.     *)
(***************************************************************************)
EXTENDS Naturals

CONSTANTS
  Requests,
  Triggers,      \* the requests for POST /ingest; the others only read
  Configured,    \* the Supabase settings are in the environment
  None

ASSUME ProvidersAssumption ==
  /\ Triggers \subseteq Requests
  /\ Configured \in BOOLEAN
  /\ None \notin [by : Requests, kind : {"postgres", "memory", "registry"}]

VARIABLES storage, storageAt, gotStorage, registry, registryAt, gotRegistry

storageVars  == <<storage, storageAt, gotStorage>>
registryVars == <<registry, registryAt, gotRegistry>>
vars == <<storageVars, registryVars>>

\* create_client may fail: the storage is then in memory, for good.
StorageKinds == IF Configured THEN {"postgres", "memory"} ELSE {"memory"}

Storage == INSTANCE LazySingleton
  WITH Callers <- Requests, Kinds <- StorageKinds,
       global <- storage, place <- storageAt, got <- gotStorage

Registry == INSTANCE LazySingleton
  WITH Callers <- Triggers, Kinds <- {"registry"},
       global <- registry, place <- registryAt, got <- gotRegistry

Init == Storage!Init /\ Registry!Init

GetStorage(r) == Storage!Step(r) /\ UNCHANGED registryVars

GetRegistry(r) ==
  r \in Triggers /\ storageAt[r] = "after" /\ Registry!Step(r) /\ UNCHANGED storageVars

Next == \E r \in Requests : GetStorage(r) \/ GetRegistry(r)

Spec == Init /\ [][Next]_vars

-----------------------------------------------------------------------------
TypeOK == Storage!TypeOK /\ Registry!TypeOK

(***************************************************************************)
(* The two globals settle: after the race of the first requests each one   *)
(* is made, is not made again, and is the one that later requests get.     *)
(***************************************************************************)
StorageSettles == Storage!SettlesForGood
RegistrySettles == Registry!SettlesForGood

-----------------------------------------------------------------------------
(***************************************************************************)
(* DECISIONS.md: "a shared singleton registry": concurrent triggers are    *)
(* paced by one and the same limiter.  The first ones may not be.          *)
(***************************************************************************)
OneRegistry ==
  \A r, s \in Triggers :
    gotRegistry[r] # None /\ gotRegistry[s] # None => gotRegistry[r] = gotRegistry[s]
=============================================================================
