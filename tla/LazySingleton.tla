---------------------------- MODULE LazySingleton ----------------------------
(***************************************************************************)
(* A global that its provider function fills in on first use:              *)
(*                                                                         *)
(*     if _global is None:                                                 *)
(*         _global = Make()                                                *)
(*     return _global                                                      *)
(*                                                                         *)
(* The provider is a plain function, which FastAPI runs in a thread of its *)
(* pool: callers interleave between the test, the assignment and the read  *)
(* that returns.  api/deps.py holds two such globals.                      *)
(***************************************************************************)
CONSTANTS
  Callers,
  Kinds,     \* what Make may make
  None       \* not made yet

Instances == [by : Callers, kind : Kinds]

VARIABLES
  global,
  place,     \* where each caller is in the provider
  got        \* what the provider returned to it

singletonVars == <<global, place, got>>

TypeOK ==
  /\ global \in Instances \cup {None}
  /\ place \in [Callers -> {"before", "making", "reading", "after"}]
  /\ got \in [Callers -> Instances \cup {None}]
  /\ \A c \in Callers : place[c] = "after" <=> got[c] # None

Init ==
  /\ global = None
  /\ place = [c \in Callers |-> "before"]
  /\ got = [c \in Callers |-> None]

\* Mutant: the instance is made on every call.
TestAlwaysMakes(c) ==
  /\ place[c] = "before"
  /\ place' = [place EXCEPT ![c] = "making"]
  /\ UNCHANGED <<global, got>>

\* if _global is None
Test(c) ==
  /\ place[c] = "before"
  /\ place' = [place EXCEPT ![c] = IF global = None THEN "making" ELSE "reading"]
  /\ UNCHANGED <<global, got>>

\* The instance is made and assigned; an instance assigned meanwhile is overwritten.
Make(c) ==
  /\ place[c] = "making"
  /\ \E kind \in Kinds : global' = [by |-> c, kind |-> kind]
  /\ place' = [place EXCEPT ![c] = "reading"]
  /\ UNCHANGED got

\* return _global: the global is read again.
Return(c) ==
  /\ place[c] = "reading"
  /\ got' = [got EXCEPT ![c] = global]
  /\ place' = [place EXCEPT ![c] = "after"]
  /\ UNCHANGED global

Step(c) == Test(c) \/ Make(c) \/ Return(c)

Next == \E c \in Callers : Step(c)

Spec == Init /\ [][Next]_singletonVars

\* The global is made, and nobody is about to overwrite it.
Settled == global # None /\ \A c \in Callers : place[c] # "making"

(***************************************************************************)
(* The race is confined to the first use: once the global is settled it    *)
(* stays what it is, and every later caller gets it.                       *)
(***************************************************************************)
SettlesForGood == [][Settled => Settled' /\ global' = global]_singletonVars
=============================================================================
