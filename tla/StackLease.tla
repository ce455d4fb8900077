----------------------------- MODULE StackLease -----------------------------
(***************************************************************************)
(* What the owner token promises the rest of the system: a lock on the     *)
(* display stack that survives the crash of its holder.  One generation at *)
(* a time holds it; the token names that generation from its claim to its  *)
(* end, is given back by nobody else, and after a crash stays where it was *)
(* until a later generation claims it.  The READY edge is the holder's.    *)
(* StackOwnership implements it when Core runs one provider at a time.     *)
(***************************************************************************)
EXTENDS Naturals

CONSTANTS Gens,   \* provider generations, numbered in the order Core starts them
          NoGen   \* nobody

VARIABLES tenure,   \* where each generation is in its life
          token,    \* the generation named by the owner file
          announced \* the token's generation, once its READY edge is out

vars == <<tenure, token, announced>>

Init ==
  /\ tenure = [g \in Gens |-> "waiting"]
  /\ token = NoGen
  /\ announced = NoGen

Claim(g) ==
  /\ tenure[g] = "waiting"
  /\ \A h \in Gens : tenure[h] # "holding"
  /\ tenure' = [tenure EXCEPT ![g] = "holding"]
  /\ token' = g
  /\ announced' = NoGen

Announce(g) ==
  /\ tenure[g] = "holding"
  /\ token = g
  /\ announced' = g
  /\ UNCHANGED <<tenure, token>>

Release(g) ==
  /\ tenure[g] = "holding"
  /\ tenure' = [tenure EXCEPT ![g] = "ended"]
  /\ token' = NoGen
  /\ announced' = NoGen

Crash(g) ==
  /\ tenure[g] = "holding"
  /\ tenure' = [tenure EXCEPT ![g] = "ended"]
  /\ UNCHANGED <<token, announced>>

Next == \E g \in Gens : Claim(g) \/ Announce(g) \/ Release(g) \/ Crash(g)

Spec == Init /\ [][Next]_vars
=============================================================================
