--------------------------- MODULE ProvidersProofs ---------------------------
(***************************************************************************)
(* The globals of api/deps.py settle, for every number of requests.        *)
(***************************************************************************)
EXTENDS Providers, TLAPS

\* The places of the callers are in the provider, in every reachable state.
PlacesInv == storageAt \in [Requests -> {"before", "making", "reading", "after"}]
             /\ registryAt \in [Triggers -> {"before", "making", "reading", "after"}]

\* A step of a request moves it alone, from a place of the provider to another one.
LEMMA PlacesStep ==
  ASSUME PlacesInv, [Next]_vars
  PROVE  PlacesInv'
<1>. USE DEF PlacesInv
<1>1. ASSUME NEW r \in Requests, GetStorage(r) PROVE PlacesInv'
  BY <1>1 DEF GetStorage, registryVars, Storage!Step, Storage!Test, Storage!Make,
              Storage!Return
<1>2. ASSUME NEW r \in Requests, GetRegistry(r) PROVE PlacesInv'
  BY <1>2 DEF GetRegistry, storageVars, Registry!Step, Registry!Test, Registry!Make,
              Registry!Return
<1>3. ASSUME UNCHANGED vars PROVE PlacesInv'
  BY <1>3 DEF vars, storageVars, registryVars
<1> QED BY <1>1, <1>2, <1>3 DEF Next

\* The places are well formed in every reachable state.
LEMMA PlacesInvariant == Spec => []PlacesInv
<1>1. Init => PlacesInv
  BY DEF Init, Storage!Init, Registry!Init, PlacesInv
<1> QED BY <1>1, PlacesStep, PTL DEF Spec

\* A storage that is made, with no caller about to overwrite it, is the storage of the
\* process for good: whatever later requests do, they get that one.
THEOREM StorageSettlesOnce == Spec => StorageSettles
<1>1. ASSUME PlacesInv, [Next]_vars
      PROVE  [Storage!Settled => Storage!Settled' /\ storage' = storage]_(Storage!singletonVars)
  <2>. SUFFICES ASSUME Storage!Settled PROVE Storage!Settled' /\ storage' = storage
    OBVIOUS
  <2>. USE DEF PlacesInv, Storage!Settled
  <2>1. ASSUME NEW r \in Requests, GetStorage(r) PROVE Storage!Settled' /\ storage' = storage
    BY <1>1, <2>1 DEF GetStorage, Storage!Step, Storage!Test, Storage!Make, Storage!Return
  <2>2. ASSUME NEW r \in Requests, GetRegistry(r) PROVE Storage!Settled' /\ storage' = storage
    BY <2>2 DEF GetRegistry, storageVars
  <2>3. ASSUME UNCHANGED vars PROVE Storage!Settled' /\ storage' = storage
    BY <2>3 DEF vars, storageVars
  <2> QED BY <1>1, <2>1, <2>2, <2>3 DEF Next
<1> QED BY <1>1, PlacesInvariant, PTL DEF Spec, StorageSettles, Storage!SettlesForGood

\* So is the adapter registry: from then on all triggers share one rate limiter.
THEOREM RegistrySettlesOnce == Spec => RegistrySettles
<1>1. ASSUME PlacesInv, [Next]_vars
      PROVE  [Registry!Settled => Registry!Settled' /\ registry' = registry]_(Registry!singletonVars)
  <2>. SUFFICES ASSUME Registry!Settled PROVE Registry!Settled' /\ registry' = registry
    OBVIOUS
  <2>. USE DEF PlacesInv, Registry!Settled
  <2>1. ASSUME NEW r \in Requests, GetStorage(r) PROVE Registry!Settled' /\ registry' = registry
    BY <2>1 DEF GetStorage, registryVars
  <2>2. ASSUME NEW r \in Requests, GetRegistry(r) PROVE Registry!Settled' /\ registry' = registry
    BY <1>1, <2>2 DEF GetRegistry, Registry!Step, Registry!Test, Registry!Make, Registry!Return
  <2>3. ASSUME UNCHANGED vars PROVE Registry!Settled' /\ registry' = registry
    BY <2>3 DEF vars, registryVars
  <2> QED BY <1>1, <2>1, <2>2, <2>3 DEF Next
<1> QED BY <1>1, PlacesInvariant, PTL DEF Spec, RegistrySettles, Registry!SettlesForGood

-----------------------------------------------------------------------------
(* Type correctness: no request is given None.                             *)

\* Whoever is about to read a global comes after somebody who made it.
ReadingInv ==
  /\ \A r \in Requests : storageAt[r] = "reading" => storage # None
  /\ \A r \in Triggers : registryAt[r] = "reading" => registry # None

\* What is made is never None.
LEMMA MadeIsSomething == None \notin Storage!Instances /\ None \notin Registry!Instances
<1>1. /\ Storage!Instances \subseteq [by : Requests, kind : {"postgres", "memory", "registry"}]
      /\ Registry!Instances \subseteq [by : Requests, kind : {"postgres", "memory", "registry"}]
  BY ProvidersAssumption DEF Storage!Instances, Registry!Instances, StorageKinds
<1>. QED
  BY <1>1, ProvidersAssumption

\* A step keeps the types: a global that is made stays so until it is read.
LEMMA ProvidersTypeStep ==
  ASSUME TypeOK, ReadingInv, [Next]_vars
  PROVE  TypeOK' /\ ReadingInv'
<1>. USE DEF ReadingInv, TypeOK, Storage!TypeOK, Registry!TypeOK
<1>1. ASSUME NEW r \in Requests, GetStorage(r) PROVE TypeOK' /\ ReadingInv'
  <2>. USE DEF GetStorage, registryVars
  <2>1. CASE Storage!Test(r)
    BY <1>1, <2>1 DEF Storage!Test
  <2>2. CASE Storage!Make(r)
    <3>1. PICK kind \in StorageKinds : storage' = [by |-> r, kind |-> kind]
      BY <2>2 DEF Storage!Make
    <3>2. storage' \in Storage!Instances /\ storage' # None
      BY <3>1, MadeIsSomething DEF Storage!Instances
    <3>. QED
      BY <1>1, <2>2, <3>2 DEF Storage!Make
  <2>3. CASE Storage!Return(r)
    BY <1>1, <2>3 DEF Storage!Return
  <2>. QED
    BY <1>1, <2>1, <2>2, <2>3 DEF Storage!Step
<1>2. ASSUME NEW r \in Requests, GetRegistry(r) PROVE TypeOK' /\ ReadingInv'
  <2>. USE DEF GetRegistry, storageVars
  <2>1. CASE Registry!Test(r)
    BY <1>2, <2>1 DEF Registry!Test
  <2>2. CASE Registry!Make(r)
    <3>1. registry' = [by |-> r, kind |-> "registry"] /\ r \in Triggers
      BY <1>2, <2>2 DEF Registry!Make
    <3>2. registry' \in Registry!Instances /\ registry' # None
      BY <3>1, MadeIsSomething DEF Registry!Instances
    <3>. QED
      BY <1>2, <2>2, <3>2 DEF Registry!Make
  <2>3. CASE Registry!Return(r)
    BY <1>2, <2>3 DEF Registry!Return
  <2>. QED
    BY <1>2, <2>1, <2>2, <2>3 DEF Registry!Step
<1>3. CASE UNCHANGED vars
  BY <1>3 DEF vars, storageVars, registryVars
<1>. QED
  BY <1>1, <1>2, <1>3 DEF Next

\* The providers keep their types; among others, a request that got past a provider was given
\* an instance and never None, however the threads interleave.
THEOREM ProvidersType == Spec => []TypeOK
<1>1. Init => TypeOK /\ ReadingInv
  BY DEF Init, Storage!Init, Registry!Init, TypeOK, Storage!TypeOK, Registry!TypeOK, ReadingInv
<1>2. TypeOK /\ ReadingInv /\ [Next]_vars => TypeOK' /\ ReadingInv'
  BY ProvidersTypeStep
<1>. QED
  BY <1>1, <1>2, PTL DEF Spec
=============================================================================
