------------------------ MODULE DisplayStack_proofs ------------------------
(***************************************************************************)
(* Theorems about StackOwnership for every set of generations, every fault *)
(* bound and, unless a theorem says otherwise, with overlapping providers; *)
(* and, at the end, about TransportRecovery, whatever the ports, the       *)
(* patience of the waits and the number of faults.                         *)
(***************************************************************************)
EXTENDS StackOwnership, TransportRecovery, TLAPS

LEMMA ProcFacts ==
  ASSUME NEW g \in Gens
  PROVE  /\ Daemon(g) \in Daemons /\ XServer(g) \in XServers /\ Sink(g) \in Sinks
         /\ Daemon(g) \in Procs /\ XServer(g) \in Procs /\ Sink(g) \in Procs
         /\ Stack(g) \subseteq Procs
  BY DEF Daemon, XServer, Sink, Daemons, XServers, Sinks, Procs, Stack

-----------------------------------------------------------------------------
(* Type correctness.                                                       *)

USE DEF files, provider, daemon, At, GoTo, Call, OnlyProvider

LEMMA ProviderType ==
  ASSUME TypeOK, NEW g \in Gens, ProviderStep(g)
  PROVE  TypeOK'
<1> USE DEF TypeOK, ProviderPoints, DaemonPoints, StartPoints, LaunchPoints, StopPoints,
            CleanupPoints, PublishPoints
<1>1. CASE TakeOver(g)
  BY <1>1 DEF TakeOver
<1>2. CASE CheckListed(g) \/ DropPids(g) \/ LaunchDaemon(g)
  BY <1>2, ProcFacts DEF CheckListed, DropPids, LaunchDaemon
<1>3. CASE CheckLaunched(g)
  BY <1>3 DEF CheckLaunched
<1>4. CASE ProbeDisplay(g) \/ AwaitReceipt(g) \/ ConfirmOwner(g) \/ GiveUp(g)
  BY <1>4 DEF ProbeDisplay, AwaitReceipt, ConfirmOwner, GiveUp
<1>5. CASE PublishOwner(g) \/ PublishSession(g) \/ PublishReady(g)
  BY <1>5 DEF PublishOwner, PublishSession, PublishReady
<1>6. CASE ConfirmPublished(g)
  BY <1>6 DEF ConfirmPublished
<1>7. CASE MonitorSuperseded(g) \/ MonitorLost(g) \/ MonitorRepublish(g)
  BY <1>7 DEF MonitorSuperseded, MonitorLost, MonitorRepublish
<1>8. CASE StopTerm(g)
  BY <1>8 DEF StopTerm
<1>9. CASE StopKill(g)
  BY <1>9 DEF StopKill
<1>10. CASE CleanupStep(g)
  BY <1>10 DEF CleanupStep, Cleanup, CleanupSession, DropSession, ReleaseFiles
<1> QED
  BY <1>1, <1>2, <1>3, <1>4, <1>5, <1>6, <1>7, <1>8, <1>9, <1>10 DEF ProviderStep, StopStep

LEMMA DaemonType ==
  ASSUME TypeOK, NEW g \in Gens, DaemonStep(g)
  PROVE  TypeOK'
<1> USE ProcFacts DEF TypeOK, DaemonPoints, DaemonCleanup, DAt, DGoTo, Refresh
<1>1. CASE Boot(g)
  BY <1>1 DEF Boot
<1>2. CASE AwaitX(g)
  BY <1>2 DEF AwaitX
<1>3. CASE WritePids(g)
  BY <1>3 DEF WritePids
<1>4. CASE EnsureX(g)
  BY <1>4 DEF EnsureX
<1>5. CASE Attach(g)
  BY <1>5 DEF Attach
<1>6. CASE SinkReceipt(g)
  BY <1>6 DEF SinkReceipt
<1>7. CASE StreamEnds(g) \/ Retry(g)
  BY <1>7 DEF StreamEnds, Retry
<1>8. CASE DaemonTerm(g)
  BY <1>8 DEF DaemonTerm
<1>9. CASE CleanStream(g)
  BY <1>9 DEF CleanStream
<1>10. CASE CleanCheck(g) \/ CleanX(g)
  BY <1>10 DEF CleanCheck, CleanX
<1> QED
  BY <1>1, <1>2, <1>3, <1>4, <1>5, <1>6, <1>7, <1>8, <1>9, <1>10 DEF DaemonStep

LEMMA EnvironmentType ==
  ASSUME TypeOK, Environment
  PROVE  TypeOK'
<1> USE FaultsAssumption
        DEF TypeOK, ProviderPoints, StartPoints, LaunchPoints, StopPoints, CleanupPoints,
            PublishPoints
<1>1. ASSUME NEW g \in Gens, Claim(g) PROVE TypeOK'
  BY <1>1 DEF Claim
<1>2. ASSUME NEW g \in Gens, CoreTerm(g) \/ CoreTermInCleanup(g) PROVE TypeOK'
  BY <1>2 DEF CoreTerm, CoreTermInCleanup
<1>3. ASSUME NEW g \in Gens, ProviderKilled(g) PROVE TypeOK'
  BY <1>3 DEF ProviderKilled
<1>4. ASSUME NEW p \in Procs, ProcessDies(p) PROVE TypeOK'
  BY <1>4 DEF ProcessDies
<1> QED
  BY <1>1, <1>2, <1>3, <1>4 DEF Environment

\* The types the definitions of the module rely on.
THEOREM TypeCorrect == Spec => []TypeOK
<1>1. Init => TypeOK
  BY FaultsAssumption DEF Init, TypeOK, ProviderPoints, DaemonPoints
<1>2. TypeOK /\ [Next]_vars => TypeOK'
  <2> SUFFICES ASSUME TypeOK, [Next]_vars PROVE TypeOK'
    OBVIOUS
  <2>1. CASE UNCHANGED vars
    BY <2>1 DEF vars, TypeOK
  <2>2. CASE Next
    BY <2>2, ProviderType, DaemonType, EnvironmentType DEF Next
  <2> QED
    BY <2>1, <2>2
<1> QED
  BY <1>1, <1>2, PTL DEF Spec

-----------------------------------------------------------------------------
(* What READY stands for.                                                  *)

\* The announced generations are those of providers past their receipt check,
\* a receipt is written by a live sink, and a live sink was counted when it
\* started: together these are inductive, the property alone is not.
StreamInv ==
  /\ \A g \in Gens : Sink(g) \in alive => g \in streamed
  /\ receipt \in Gens => receipt \in streamed
  /\ \A g \in Gens : ppc[g] \in {"confirm", "monitor"} \cup PublishPoints => g \in streamed
  /\ ReadyOnlyAfterOwnStream

LEMMA ProcsDiffer ==
  ASSUME NEW g \in Gens, NEW h \in Gens
  PROVE  /\ Sink(g) # Daemon(h) /\ Sink(g) # XServer(h) /\ XServer(g) # Daemon(h)
         /\ Sink(g) = Sink(h) => g = h
         /\ XServer(g) = XServer(h) => g = h
         /\ Daemon(g) = Daemon(h) => g = h
  BY DEF Sink, Daemon, XServer

LEMMA ProviderStream ==
  ASSUME TypeOK, StreamInv, NEW g \in Gens, ProviderStep(g)
  PROVE  StreamInv'
<1> USE GensAssumption DEF TypeOK, StreamInv, ReadyOnlyAfterOwnStream, PublishPoints
<1>1. CASE TakeOver(g)
  BY <1>1 DEF TakeOver
<1>2. CASE CheckListed(g) \/ DropPids(g) \/ LaunchDaemon(g)
  BY <1>2, ProcsDiffer DEF CheckListed, DropPids, LaunchDaemon
<1>3. CASE CheckLaunched(g)
  BY <1>3 DEF CheckLaunched
<1>4. CASE ProbeDisplay(g) \/ GiveUp(g)
  BY <1>4 DEF ProbeDisplay, GiveUp
<1>5. CASE AwaitReceipt(g)
  BY <1>5 DEF AwaitReceipt, ReceiptMatches
<1>6. CASE ConfirmOwner(g) \/ ConfirmPublished(g)
  BY <1>6 DEF ConfirmOwner, ConfirmPublished
<1>7. CASE PublishOwner(g) \/ PublishSession(g) \/ PublishReady(g)
  BY <1>7 DEF PublishOwner, PublishSession, PublishReady
<1>8. CASE MonitorSuperseded(g) \/ MonitorLost(g) \/ MonitorRepublish(g)
  BY <1>8 DEF MonitorSuperseded, MonitorLost, MonitorRepublish
<1>9. CASE StopTerm(g)
  BY <1>9 DEF StopTerm
<1>10. CASE StopKill(g)
  BY <1>10 DEF StopKill
<1>11. CASE CleanupStep(g)
  BY <1>11 DEF CleanupStep, Cleanup, CleanupSession, DropSession, ReleaseFiles
<1> QED
  BY <1>1, <1>2, <1>3, <1>4, <1>5, <1>6, <1>7, <1>8, <1>9, <1>10, <1>11
  DEF ProviderStep, StopStep

LEMMA DaemonStream ==
  ASSUME TypeOK, StreamInv, NEW g \in Gens, DaemonStep(g)
  PROVE  StreamInv'
<1> USE ProcsDiffer
        DEF TypeOK, StreamInv, ReadyOnlyAfterOwnStream, PublishPoints, DAt, DGoTo, Refresh
<1>1. CASE Boot(g)
  BY <1>1 DEF Boot
<1>2. CASE AwaitX(g) \/ WritePids(g) \/ EnsureX(g)
  BY <1>2 DEF AwaitX, WritePids, EnsureX
<1>3. CASE Attach(g)
  BY <1>3 DEF Attach
<1>4. CASE SinkReceipt(g)
  BY <1>4 DEF SinkReceipt
<1>5. CASE StreamEnds(g) \/ Retry(g)
  BY <1>5 DEF StreamEnds, Retry
<1>6. CASE DaemonTerm(g)
  BY <1>6 DEF DaemonTerm
<1>7. CASE CleanStream(g) \/ CleanCheck(g) \/ CleanX(g)
  BY <1>7 DEF CleanStream, CleanCheck, CleanX
<1> QED
  BY <1>1, <1>2, <1>3, <1>4, <1>5, <1>6, <1>7 DEF DaemonStep

LEMMA EnvironmentStream ==
  ASSUME TypeOK, StreamInv, Environment
  PROVE  StreamInv'
<1> USE DEF TypeOK, StreamInv, ReadyOnlyAfterOwnStream, PublishPoints
<1>1. ASSUME NEW g \in Gens, Claim(g) PROVE StreamInv'
  BY <1>1 DEF Claim
<1>2. ASSUME NEW g \in Gens, CoreTerm(g) \/ CoreTermInCleanup(g) PROVE StreamInv'
  BY <1>2 DEF CoreTerm, CoreTermInCleanup
<1>3. ASSUME NEW g \in Gens, ProviderKilled(g) PROVE StreamInv'
  BY <1>3 DEF ProviderKilled
<1>4. ASSUME NEW p \in Procs, ProcessDies(p) PROVE StreamInv'
  BY <1>4 DEF ProcessDies
<1> QED
  BY <1>1, <1>2, <1>3, <1>4 DEF Environment

\* Whatever providers overlap and whatever dies when, READY and
\* display-session.json name generations whose own sink ran on their own server.
THEOREM ReadyIsEarned == Spec => []ReadyOnlyAfterOwnStream
<1>1. Init => StreamInv
  BY GensAssumption
  DEF Init, StreamInv, ReadyOnlyAfterOwnStream, PublishPoints
<1>2. TypeOK /\ StreamInv /\ [Next]_vars => StreamInv'
  <2> SUFFICES ASSUME TypeOK, StreamInv, [Next]_vars PROVE StreamInv'
    OBVIOUS
  <2>1. CASE UNCHANGED vars
    BY <2>1 DEF vars, StreamInv, ReadyOnlyAfterOwnStream
  <2>2. CASE Next
    BY <2>2, ProviderStream, DaemonStream, EnvironmentStream DEF Next
  <2> QED
    BY <2>1, <2>2
<1>3. StreamInv => ReadyOnlyAfterOwnStream
  BY DEF StreamInv
<1> QED
  BY <1>1, <1>2, <1>3, TypeCorrect, PTL DEF Spec

-----------------------------------------------------------------------------
(* The lease, when Core runs one provider at a time.                       *)

\* The token of the owner file is that of the one running provider, and READY
\* is never that of a provider that has only just claimed the token.
LeaseInv ==
  /\ \A g, h \in Gens : Active(g) /\ Active(h) => g = h
  /\ \A g \in Gens : Active(g) => owner = g
  /\ \A g, h \in Gens : Started(g) /\ h < g => Started(h)
  /\ ready \in Gens => Started(ready) /\ ~At(ready, "claimed")

\* A provider's step leaves the other providers where they are, and none but its
\* last ends its tenure.
LEMMA ProviderPath ==
  ASSUME TypeOK, NEW g \in Gens, ProviderStep(g)
  PROVE  /\ Active(g) /\ Started(g)'
         /\ \A h \in Gens \ {g} : ppc'[h] = ppc[h]
         /\ ppc'[g] # "claimed"
<1> USE DEF TypeOK, Active, Started, PublishPoints
<1>1. CASE TakeOver(g)
  BY <1>1 DEF TakeOver
<1>2. CASE CheckListed(g) \/ DropPids(g) \/ LaunchDaemon(g) \/ CheckLaunched(g)
  BY <1>2 DEF CheckListed, DropPids, LaunchDaemon, CheckLaunched
<1>3. CASE ProbeDisplay(g) \/ AwaitReceipt(g) \/ ConfirmOwner(g) \/ GiveUp(g)
  BY <1>3 DEF ProbeDisplay, AwaitReceipt, ConfirmOwner, GiveUp
<1>4. CASE PublishOwner(g) \/ PublishSession(g) \/ PublishReady(g) \/ ConfirmPublished(g)
  BY <1>4 DEF PublishOwner, PublishSession, PublishReady, ConfirmPublished
<1>5. CASE MonitorSuperseded(g) \/ MonitorLost(g) \/ MonitorRepublish(g)
  BY <1>5 DEF MonitorSuperseded, MonitorLost, MonitorRepublish
<1>6. CASE StopStep(g)
  BY <1>6 DEF StopStep, StopTerm, StopKill
<1>7. CASE CleanupStep(g)
  BY <1>7 DEF CleanupStep, Cleanup, CleanupSession, DropSession, ReleaseFiles
<1> QED
  BY <1>1, <1>2, <1>3, <1>4, <1>5, <1>6, <1>7 DEF ProviderStep

\* What a provider's step does to the three files the lease is made of.
LEMMA ProviderFiles ==
  ASSUME TypeOK, LeaseInv, NEW g \in Gens, ProviderStep(g)
  PROVE  \/ /\ Active(g)' /\ owner' = owner
            /\ \/ ready' = ready
               \/ ready' = NoGen /\ ready # g
               \/ ready' = g
         \/ ~Active(g)' /\ owner' = NoGen /\ ready' = NoGen
<1> USE DEF TypeOK, LeaseInv, Active, PublishPoints
<1>1. CASE TakeOver(g)
  BY <1>1 DEF TakeOver
<1>2. CASE CheckListed(g) \/ DropPids(g) \/ LaunchDaemon(g) \/ CheckLaunched(g)
  BY <1>2 DEF CheckListed, DropPids, LaunchDaemon, CheckLaunched
<1>3. CASE ProbeDisplay(g) \/ AwaitReceipt(g) \/ ConfirmOwner(g) \/ GiveUp(g)
  BY <1>3 DEF ProbeDisplay, AwaitReceipt, ConfirmOwner, GiveUp
<1>4. CASE PublishOwner(g) \/ PublishSession(g) \/ PublishReady(g) \/ ConfirmPublished(g)
  BY <1>4 DEF PublishOwner, PublishSession, PublishReady, ConfirmPublished
<1>5. CASE MonitorSuperseded(g) \/ MonitorLost(g) \/ MonitorRepublish(g)
  BY <1>5 DEF MonitorSuperseded, MonitorLost, MonitorRepublish
<1>6. CASE StopStep(g)
  BY <1>6 DEF StopStep, StopTerm, StopKill
<1>7. CASE Cleanup(g)
  BY <1>7 DEF Cleanup
<1>8. CASE CleanupSession(g) \/ DropSession(g) \/ ReleaseFiles(g)
  BY <1>8 DEF CleanupSession, DropSession, ReleaseFiles
<1> QED
  BY <1>1, <1>2, <1>3, <1>4, <1>5, <1>6, <1>7, <1>8 DEF ProviderStep, CleanupStep

LEMMA DaemonKeepsLease ==
  ASSUME NEW g \in Gens, DaemonStep(g)
  PROVE  UNCHANGED <<owner, ready, ppc>>
  BY DEF DaemonStep, Boot, AwaitX, WritePids, EnsureX, Attach, SinkReceipt, StreamEnds, Retry,
         DaemonTerm, CleanStream, CleanCheck, CleanX

\* Core, its signals and the faults: a claim, a tenure cut short, or nothing.
LEMMA EnvironmentPath ==
  ASSUME TypeOK, Environment
  PROVE  \/ \E g \in Gens : Claim(g)
         \/ /\ UNCHANGED <<owner, ready>>
            /\ \E g \in Gens : /\ Active(g) /\ Started(g)' /\ ppc'[g] # "claimed"
                               /\ \A h \in Gens \ {g} : ppc'[h] = ppc[h]
         \/ UNCHANGED <<owner, ready, ppc>>
<1> USE DEF TypeOK, Active, Started, PublishPoints, CleanupPoints
<1>1. ASSUME NEW g \in Gens, CoreTerm(g) \/ CoreTermInCleanup(g) \/ ProviderKilled(g)
      PROVE  /\ UNCHANGED <<owner, ready>>
             /\ Active(g) /\ Started(g)' /\ ppc'[g] # "claimed"
             /\ \A h \in Gens \ {g} : ppc'[h] = ppc[h]
  BY <1>1 DEF CoreTerm, CoreTermInCleanup, ProviderKilled
<1>2. ASSUME NEW p \in Procs, ProcessDies(p) PROVE UNCHANGED <<owner, ready, ppc>>
  BY <1>2 DEF ProcessDies
<1> QED
  BY <1>1, <1>2 DEF Environment

LEMMA LeaseInvariant ==
  ASSUME ~Overlap, TypeOK, LeaseInv, [Next]_vars
  PROVE  LeaseInv'
<1> USE GensAssumption
<1>1. CASE UNCHANGED vars
  BY <1>1 DEF vars, LeaseInv, Active, Started
<1>2. ASSUME NEW g \in Gens, ProviderStep(g) PROVE LeaseInv'
  <2>1. /\ Active(g) /\ Started(g)'
        /\ \A h \in Gens \ {g} : ppc'[h] = ppc[h]
        /\ ppc'[g] # "claimed"
    BY <1>2, ProviderPath
  <2>2. \/ /\ Active(g)' /\ owner' = owner
           /\ ready' \in {ready, NoGen, g}
        \/ ~Active(g)' /\ owner' = NoGen /\ ready' = NoGen
    BY <1>2, ProviderFiles
  <2> QED
    BY <2>1, <2>2 DEF LeaseInv, Active, Started
<1>3. ASSUME NEW g \in Gens, DaemonStep(g) PROVE LeaseInv'
  BY <1>3, DaemonKeepsLease DEF LeaseInv, Active, Started
<1>4. ASSUME NEW g \in Gens, Claim(g) PROVE LeaseInv'
  <2>1. \A h \in Gens : ~Active(h)
    BY <1>4 DEF Claim, LeaseInv, Active, Started, TypeOK
  <2>2. /\ owner' = g /\ ready' = ready
        /\ ppc'[g] = "claimed"
        /\ \A h \in Gens \ {g} : ppc'[h] = ppc[h]
    BY <1>4 DEF Claim, TypeOK
  <2>3. ready # g
    BY <1>4 DEF Claim, LeaseInv, Started
  <2>4. \A h \in Gens : h < g => Started(h)
    BY <1>4 DEF Claim
  <2> QED
    BY <2>1, <2>2, <2>3, <2>4 DEF LeaseInv, Active, Started
<1>5. ASSUME Environment PROVE LeaseInv'
  <2>1. CASE \E g \in Gens : Claim(g)
    BY <2>1, <1>4
  <2>2. CASE /\ UNCHANGED <<owner, ready>>
             /\ \E g \in Gens : /\ Active(g) /\ Started(g)' /\ ppc'[g] # "claimed"
                                /\ \A h \in Gens \ {g} : ppc'[h] = ppc[h]
    BY <2>2 DEF LeaseInv, Active, Started
  <2>3. CASE UNCHANGED <<owner, ready, ppc>>
    BY <2>3 DEF LeaseInv, Active, Started
  <2> QED
    BY <1>5, <2>1, <2>2, <2>3, EnvironmentPath
<1> QED
  BY <1>1, <1>2, <1>3, <1>5 DEF Next

\* A generation that goes on or stops: how the mapped tenure moves.
LEMMA TenureMoves ==
  ASSUME TypeOK, NEW g \in Gens, ppc' \in [Gens -> ProviderPoints],
         Active(g), Started(g)', \A h \in Gens \ {g} : ppc'[h] = ppc[h]
  PROVE  /\ Tenure(g) = "holding"
         /\ Active(g)' => [h \in Gens |-> Tenure(h)]' = [h \in Gens |-> Tenure(h)]
         /\ ~Active(g)' => [h \in Gens |-> Tenure(h)]'
                           = [[h \in Gens |-> Tenure(h)] EXCEPT ![g] = "ended"]
  BY DEF Tenure, Active, Started

LEMMA StepImplementsLease ==
  ASSUME ~Overlap, TypeOK, TypeOK', LeaseInv, LeaseInv', [Next]_vars
  PROVE  [Lease!Next]_(Lease!vars)
<1> USE DEF Lease!vars
<1> DEFINE announced == IF ready = owner THEN ready ELSE NoGen
           tenure == [h \in Gens |-> Tenure(h)]
<1>1. CASE UNCHANGED vars
  BY <1>1 DEF vars, Tenure, Active, Started
<1>2. ASSUME NEW g \in Gens, ProviderStep(g) PROVE [Lease!Next]_(Lease!vars)
  <2>1. /\ Active(g) /\ Started(g)'
        /\ \A h \in Gens \ {g} : ppc'[h] = ppc[h]
    BY <1>2, ProviderPath
  <2>2. ppc' \in [Gens -> ProviderPoints]
    BY DEF TypeOK
  <2>3. owner = g
    BY <2>1 DEF LeaseInv
  <2>4. tenure[g] = "holding"
    BY <2>1, <2>2, TenureMoves
  <2>5. CASE /\ Active(g)' /\ owner' = owner
             /\ \/ ready' = ready
                \/ ready' = NoGen /\ ready # g
    <3>1. tenure' = tenure
      BY <2>1, <2>2, <2>5, TenureMoves
    <3>2. announced' = announced
      BY <2>3, <2>5
    <3> QED
      BY <3>1, <3>2, <2>5
  <2>6. CASE Active(g)' /\ owner' = owner /\ ready' = g
    <3>1. tenure' = tenure
      BY <2>1, <2>2, <2>6, TenureMoves
    <3>2. announced' = g
      BY <2>3, <2>6
    <3>3. Lease!Announce(g)
      BY <3>1, <3>2, <2>3, <2>4, <2>6 DEF Lease!Announce
    <3> QED
      BY <3>3 DEF Lease!Next
  <2>7. CASE ~Active(g)' /\ owner' = NoGen /\ ready' = NoGen
    <3>1. tenure' = [tenure EXCEPT ![g] = "ended"]
      BY <2>1, <2>2, <2>7, TenureMoves
    <3>2. Lease!Release(g)
      BY <3>1, <2>4, <2>7 DEF Lease!Release
    <3> QED
      BY <3>2 DEF Lease!Next
  <2> QED
    BY <1>2, <2>5, <2>6, <2>7, ProviderFiles
<1>3. ASSUME NEW g \in Gens, DaemonStep(g) PROVE [Lease!Next]_(Lease!vars)
  BY <1>3, DaemonKeepsLease DEF Tenure, Active, Started
<1>4. ASSUME NEW g \in Gens, Claim(g) PROVE [Lease!Next]_(Lease!vars)
  <2>1. \A h \in Gens : ~Active(h)
    BY <1>4, GensAssumption DEF Claim, LeaseInv, Active, Started, TypeOK
  <2>2. /\ owner' = g /\ ready' = ready
        /\ ~Started(g) /\ ppc' = [ppc EXCEPT ![g] = "claimed"]
    BY <1>4 DEF Claim, Started
  <2>3. announced' = NoGen
    BY <2>2 DEF LeaseInv, Started
  <2>4. tenure' = [tenure EXCEPT ![g] = "holding"]
    BY <2>2 DEF Tenure, Active, Started, TypeOK
  <2>5. tenure[g] = "waiting" /\ \A h \in Gens : tenure[h] # "holding"
    BY <2>1, <2>2 DEF Tenure, Active, Started
  <2>6. Lease!Claim(g)
    BY <2>2, <2>3, <2>4, <2>5 DEF Lease!Claim
  <2> QED
    BY <2>6 DEF Lease!Next
<1>5. ASSUME NEW g \in Gens, CoreTermInCleanup(g) \/ ProviderKilled(g) \/ CoreTerm(g)
      PROVE [Lease!Next]_(Lease!vars)
  <2>1. /\ UNCHANGED <<owner, ready>>
        /\ Active(g) /\ Started(g)'
        /\ \A h \in Gens \ {g} : ppc'[h] = ppc[h]
    BY <1>5 DEF CoreTerm, CoreTermInCleanup, ProviderKilled, TypeOK, Active, Started,
                PublishPoints, CleanupPoints
  <2>2. ppc' \in [Gens -> ProviderPoints]
    BY DEF TypeOK
  <2>3. CASE Active(g)'
    <3>1. tenure' = tenure
      BY <2>1, <2>2, <2>3, TenureMoves
    <3> QED
      BY <2>1, <3>1
  <2>4. CASE ~Active(g)'
    <3>1. tenure[g] = "holding" /\ tenure' = [tenure EXCEPT ![g] = "ended"]
      BY <2>1, <2>2, <2>4, TenureMoves
    <3>2. Lease!Crash(g)
      BY <2>1, <3>1 DEF Lease!Crash
    <3> QED
      BY <3>2 DEF Lease!Next
  <2> QED
    BY <2>3, <2>4
<1>6. ASSUME NEW p \in Procs, ProcessDies(p) PROVE [Lease!Next]_(Lease!vars)
  BY <1>6 DEF ProcessDies, Tenure, Active, Started
<1> QED
  BY <1>1, <1>2, <1>3, <1>4, <1>5, <1>6 DEF Next, Environment

\* One provider at a time makes the owner file a lock that survives crashes.
THEOREM LeaseImplemented ==
  ASSUME ~Overlap
  PROVE  Spec => LeaseSpec
<1>1. Init => LeaseInv /\ Lease!Init
  BY GensAssumption DEF Init, LeaseInv, Active, Started, Lease!Init, Tenure
<1>2. TypeOK /\ LeaseInv /\ [Next]_vars => LeaseInv'
  BY LeaseInvariant
<1>3. TypeOK /\ TypeOK' /\ LeaseInv /\ LeaseInv' /\ [Next]_vars
      => [Lease!Next]_(Lease!vars)
  BY StepImplementsLease
<1> QED
  BY <1>1, <1>2, <1>3, TypeCorrect, PTL DEF Spec, LeaseSpec, Lease!Spec

-----------------------------------------------------------------------------
(* The processes, when Core runs one provider at a time.                   *)
(*                                                                         *)
(* The three properties of the run are inductive only together with what   *)
(* the pid file means between two commands: it lists the one daemon that   *)
(* lives, unless that daemon has not run its first command, and every      *)
(* server that it ever listed and that lives.  The last two conjuncts of   *)
(* StackInv are for the files the EXIT trap removes.                       *)

\* A living daemon is in the pid file, or its provider still waits for it.
DaemonsAreListed ==
  \A h \in Gens : Daemon(h) \in alive => \/ Daemon(h) \in pids
                                         \/ dpc[h] = "init" /\ At(h, "launched")

\* The points behind a stop script, up to the launch or the end.
Stopped == LaunchPoints \cup {"cleanup_files", "drop_session", "release"}

\* At most one daemon lives, and none but the daemon of the provider that serves;
\* behind a stop script there is none.
OneDaemon ==
  \A g, h \in Gens :
    Daemon(h) \in alive => /\ Daemon(g) \in alive \/ Serving(g) => g = h
                           /\ ppc[g] \notin Stopped

\* A sink lives under its daemon, which stops it before anything else.
SinksHaveDaemons ==
  \A h \in Gens : Sink(h) \in alive => Daemon(h) \in alive /\ ~InCleanup(h)

\* Between the two passes of a stop script nothing streams, and the daemon that
\* lives is not going to start a stream again.
StopEndsStreams ==
  \A g, h \in Gens :
    At(g, "stop_kill") =>
      /\ Sink(h) \notin alive
      /\ Daemon(h) \in alive => \/ Daemon(h) \in termed
                                \/ dpc[h] = "clean_stream"
                                \/ InCleanup(h)

\* Before its provider launched it, a generation's daemon has done nothing.
BeforeLaunch(g) ==
  \/ ppc[g] \in {"off", "claimed"} \cup LaunchPoints
  \/ ppc[g] \in StopPoints /\ ret[g] = "launch"

\* The stop script reaches nobody who did not put himself on the list, which is
\* the first thing a daemon does.
ListedHaveBooted ==
  /\ \A g \in Gens : BeforeLaunch(g) => dpc[g] = "off"
  /\ pids \cup termed \subseteq listed
  /\ \A g \in Gens : Daemon(g) \in listed \/ XServer(g) \in listed
                     => dpc[g] \notin {"off", "init"}

\* The servers that were ever listed: the pid file keeps them while they live, and
\* no other generation's daemon lives beside them.
ServersStayListed ==
  /\ \A g \in Gens : XServer(g) \in alive \cap listed => XServer(g) \in pids
  /\ \A g, h \in Gens : XServer(g) \in alive \cap listed /\ Daemon(h) \in alive => g = h

\* What the last command of the EXIT trap relies on to withdraw the session.
SessionIsNamed ==
  /\ session \in Gens => Started(session)
  /\ sessionOwner \in Gens => Started(sessionOwner)
  /\ \A g \in Gens : At(g, "publish_session") => sessionOwner = g
  /\ \A g \in Gens : Active(g) /\ session = g => sessionOwner = g
  /\ \A g \in Gens : At(g, "release") => g \notin {session, sessionOwner}

\* The pid file is gone when the EXIT trap comes to the other files and when a daemon
\* is launched, and nothing on it lives when the start script removes it.
StoppedFirst ==
  /\ \A g \in Gens :
       ppc[g] \in {"detach", "cleanup_files", "drop_session", "release"} => pids = {}
  /\ \A g \in Gens : At(g, "drop_pids") => pids \cap alive = {}

\* The READY of older generations goes before the old stack is stopped.
ReadyIsWithdrawn ==
  \A g \in Gens :
    \/ Serving(g) \/ ppc[g] \in LaunchPoints
    \/ ppc[g] \in StopPoints /\ ret[g] = "launch"
    => ready \in {NoGen, g}

StackInv ==
  /\ DaemonsAreListed /\ OneDaemon /\ SinksHaveDaemons /\ StopEndsStreams
  /\ ListedHaveBooted /\ ServersStayListed
  /\ SessionIsNamed /\ StoppedFirst /\ ReadyIsWithdrawn /\ CleanExit

LEMMA ProcKinds ==
  ASSUME NEW g \in Gens
  PROVE  /\ Daemon(g) \in Daemons /\ XServer(g) \notin Daemons /\ Sink(g) \notin Daemons
         /\ Sink(g) \in Sinks /\ XServer(g) \notin Sinks /\ Daemon(g) \notin Sinks
  BY DEF Daemon, XServer, Sink, Daemons, Sinks

LEMMA ProviderStack ==
  ASSUME ~Overlap, TypeOK, LeaseInv, StackInv, NEW g \in Gens, ProviderStep(g)
  PROVE  StackInv'
<1> USE GensAssumption, ProcsDiffer, ProcKinds
        DEF TypeOK, LeaseInv, StackInv, DaemonsAreListed, OneDaemon, SinksHaveDaemons,
            StopEndsStreams, BeforeLaunch, ListedHaveBooted, ServersStayListed,
            SessionIsNamed, StoppedFirst, ReadyIsWithdrawn, CleanExit, Active, Started, Serving,
            PublishPoints, StopPoints, LaunchPoints, Stopped, InCleanup, Stack
<1>1. CASE TakeOver(g)
  <2>1. /\ At(g, "claimed") /\ ready' = NoGen /\ receipt' = NoGen
        /\ \/ ppc' = [ppc EXCEPT ![g] = "launch"] /\ ret' = ret /\ pids = {}
           \/ ppc' = [ppc EXCEPT ![g] = "stop_term"] /\ ret' = [ret EXCEPT ![g] = "launch"]
        /\ UNCHANGED <<owner, session, sessionOwner, pids, alive, termed, daemon, listed>>
    BY <1>1 DEF TakeOver
  <2>2. ReadyIsWithdrawn' /\ CleanExit'
    BY <2>1
  <2>3. DaemonsAreListed' /\ OneDaemon' /\ SinksHaveDaemons' /\ StopEndsStreams'
    BY <2>1
  <2>4. ListedHaveBooted' /\ ServersStayListed' /\ SessionIsNamed' /\ StoppedFirst'
    BY <2>1
  <2> QED
    BY <2>2, <2>3, <2>4
<1>2. CASE CheckListed(g) \/ DropPids(g) \/ LaunchDaemon(g)
  <2>1. CASE CheckListed(g)
    BY <2>1 DEF CheckListed
  <2>2. CASE DropPids(g)
    BY <2>2 DEF DropPids
  <2>3. CASE LaunchDaemon(g)
    BY <2>3 DEF LaunchDaemon
  <2> QED
    BY <1>2, <2>1, <2>2, <2>3
<1>3. CASE CheckLaunched(g)
  BY <1>3 DEF CheckLaunched
<1>4. CASE ProbeDisplay(g) \/ AwaitReceipt(g)
  BY <1>4 DEF ProbeDisplay, AwaitReceipt
<1>5. CASE ConfirmOwner(g) \/ GiveUp(g)
  BY <1>5 DEF ConfirmOwner, GiveUp
<1>6. CASE PublishOwner(g)
  BY <1>6 DEF PublishOwner
<1>7. CASE PublishSession(g)
  BY <1>7 DEF PublishSession
<1>8. CASE PublishReady(g) \/ ConfirmPublished(g)
  BY <1>8 DEF PublishReady, ConfirmPublished
<1>9. CASE MonitorSuperseded(g) \/ MonitorLost(g) \/ MonitorRepublish(g)
  BY <1>9 DEF MonitorSuperseded, MonitorLost, MonitorRepublish
<1>10. CASE StopTerm(g)
  BY <1>10 DEF StopTerm
<1>11. CASE StopKill(g)
  BY <1>11 DEF StopKill
<1>12. CASE Cleanup(g)
  BY <1>12 DEF Cleanup
<1>13. CASE CleanupSession(g) \/ DropSession(g) \/ ReleaseFiles(g)
  <2>1. CASE CleanupSession(g)
    BY <2>1 DEF CleanupSession
  <2>2. CASE DropSession(g)
    BY <2>2 DEF DropSession
  <2>3. CASE ReleaseFiles(g)
    BY <2>3 DEF ReleaseFiles
  <2> QED
    BY <1>13, <2>1, <2>2, <2>3
<1> QED
  BY <1>1, <1>2, <1>3, <1>4, <1>5, <1>6, <1>7, <1>8, <1>9, <1>10, <1>11, <1>12, <1>13
  DEF ProviderStep, StopStep, CleanupStep

LEMMA DaemonStack ==
  ASSUME ~Overlap, TypeOK, LeaseInv, StackInv, NEW g \in Gens, DaemonStep(g)
  PROVE  StackInv'
<1> USE GensAssumption, ProcsDiffer, ProcKinds
        DEF TypeOK, LeaseInv, StackInv, DaemonsAreListed, OneDaemon, SinksHaveDaemons,
            StopEndsStreams, BeforeLaunch, ListedHaveBooted, ServersStayListed,
            SessionIsNamed, StoppedFirst, ReadyIsWithdrawn, CleanExit, Active, Started, Serving,
            PublishPoints, StopPoints, LaunchPoints, Stopped, InCleanup, DaemonCleanup, Stack,
            DAt, DGoTo, Refresh
<1>1. CASE Boot(g)
  BY <1>1 DEF Boot
<1>2. CASE AwaitX(g)
  BY <1>2 DEF AwaitX
<1>3. CASE WritePids(g)
  BY <1>3 DEF WritePids
<1>4. CASE EnsureX(g)
  BY <1>4 DEF EnsureX
<1>5. CASE Attach(g)
  BY <1>5 DEF Attach
<1>6. CASE SinkReceipt(g)
  BY <1>6 DEF SinkReceipt
<1>7. CASE StreamEnds(g) \/ Retry(g)
  BY <1>7 DEF StreamEnds, Retry
<1>8. CASE DaemonTerm(g)
  <2>1. /\ Daemon(g) \in alive /\ termed' = termed \ {Daemon(g)}
        /\ UNCHANGED <<owner, ready, session, sessionOwner, receipt, pids, ppc, ret, listed,
                       dret>>
    BY <1>8 DEF DaemonTerm
  <2>2. dpc[g] \notin {"off", "init"}
    BY <1>8 DEF DaemonTerm
  <2>3. CASE InCleanup(g)
    <3>1. dpc' = [dpc EXCEPT ![g] = "gone"] /\ alive' = alive \ {Daemon(g)}
      BY <1>8, <2>3 DEF DaemonTerm
    <3> QED
      BY <2>1, <2>3, <3>1
  <2>4. CASE ~InCleanup(g)
    <3>1. dpc' = [dpc EXCEPT ![g] = "clean_stream"] /\ alive' = alive
      BY <1>8, <2>4 DEF DaemonTerm
    <3>2. ~InCleanup(g)' /\ \A h \in Gens \ {g} : InCleanup(h)' = InCleanup(h)
      BY <2>1, <3>1
    <3>3. SinksHaveDaemons' /\ StopEndsStreams'
      BY <2>1, <3>1, <3>2
    <3>4. DaemonsAreListed' /\ OneDaemon'
      BY <2>1, <2>2, <3>1
    <3>5. ListedHaveBooted' /\ ServersStayListed'
      BY <2>1, <3>1
    <3>6. SessionIsNamed' /\ StoppedFirst' /\ ReadyIsWithdrawn' /\ CleanExit'
      BY <2>1, <3>1
    <3> QED
      BY <3>3, <3>4, <3>5, <3>6 DEF StackInv
  <2> QED
    BY <2>3, <2>4
<1>9. CASE CleanStream(g)
  BY <1>9 DEF CleanStream
<1>10. CASE CleanCheck(g)
  BY <1>10 DEF CleanCheck
<1>11. CASE CleanX(g)
  BY <1>11 DEF CleanX
<1> QED
  BY <1>1, <1>2, <1>3, <1>4, <1>5, <1>6, <1>7, <1>8, <1>9, <1>10, <1>11 DEF DaemonStep

LEMMA EnvironmentStack ==
  ASSUME ~Overlap, TypeOK, LeaseInv, StackInv, Environment
  PROVE  StackInv'
<1> USE GensAssumption, ProcsDiffer, ProcKinds
        DEF TypeOK, LeaseInv, StackInv, DaemonsAreListed, OneDaemon, SinksHaveDaemons,
            StopEndsStreams, BeforeLaunch, ListedHaveBooted, ServersStayListed,
            SessionIsNamed, StoppedFirst, ReadyIsWithdrawn, CleanExit, Active, Started, Serving,
            PublishPoints, StopPoints, CleanupPoints, LaunchPoints, Stopped, InCleanup, Stack
<1>1. ASSUME NEW g \in Gens, Claim(g) PROVE StackInv'
  BY <1>1 DEF Claim
<1>2. ASSUME NEW g \in Gens, CoreTerm(g) PROVE StackInv'
  BY <1>2 DEF CoreTerm
<1>3. ASSUME NEW g \in Gens, CoreTermInCleanup(g) PROVE StackInv'
  BY <1>3 DEF CoreTermInCleanup
<1>4. ASSUME NEW g \in Gens, ProviderKilled(g) PROVE StackInv'
  BY <1>4 DEF ProviderKilled
<1>5. ASSUME NEW p \in Procs, ProcessDies(p) PROVE StackInv'
  <2>1. /\ alive' = alive \ {p} /\ p \in XServers \cup Sinks
        /\ UNCHANGED <<owner, ready, session, sessionOwner, receipt, pids, termed, ppc, ret, dpc,
                       dret, listed>>
    BY <1>5 DEF ProcessDies
  <2>2. \A h \in Gens : Daemon(h) # p
    BY <2>1, ProcsDiffer DEF XServers, Sinks
  <2>3. \A h \in Gens : Daemon(h) \in alive' <=> Daemon(h) \in alive
    BY <2>1, <2>2
  <2>4. /\ \A h \in Gens : XServer(h) \in alive' => XServer(h) \in alive
        /\ \A h \in Gens : Sink(h) \in alive' => Sink(h) \in alive
    BY <2>1
  <2> QED
    BY <2>1, <2>3, <2>4
<1> QED
  BY <1>1, <1>2, <1>3, <1>4, <1>5 DEF Environment

LEMMA StackInvariant ==
  ASSUME ~Overlap
  PROVE  Spec => [](LeaseInv /\ StackInv)
<1>1. Init => LeaseInv /\ StackInv
  BY GensAssumption
  DEF Init, LeaseInv, StackInv, DaemonsAreListed, OneDaemon, SinksHaveDaemons,
      StopEndsStreams, BeforeLaunch, ListedHaveBooted, ServersStayListed,
      SessionIsNamed, StoppedFirst, ReadyIsWithdrawn, CleanExit, Active, Started, Serving,
      PublishPoints, LaunchPoints, StopPoints, Stopped
<1>2. TypeOK /\ LeaseInv /\ StackInv /\ [Next]_vars => StackInv'
  <2> SUFFICES ASSUME TypeOK, LeaseInv, StackInv, [Next]_vars PROVE StackInv'
    OBVIOUS
  <2>1. CASE UNCHANGED vars
    BY <2>1
    DEF vars, StackInv, DaemonsAreListed, OneDaemon, SinksHaveDaemons, StopEndsStreams,
        BeforeLaunch, ListedHaveBooted, ServersStayListed, SessionIsNamed, StoppedFirst,
        ReadyIsWithdrawn, CleanExit, Active, Started, Serving, Stopped, InCleanup
  <2>2. CASE Next
    BY <2>2, ProviderStack, DaemonStack, EnvironmentStack DEF Next
  <2> QED
    BY <2>1, <2>2
<1>3. TypeOK /\ LeaseInv /\ [Next]_vars => LeaseInv'
  BY LeaseInvariant
<1> QED
  BY <1>1, <1>2, <1>3, TypeCorrect, PTL DEF Spec

\* While a provider serves, no daemon and no sink of an older generation lives.
THEOREM NoRivals ==
  ASSUME ~Overlap
  PROVE  Spec => []NoRivalStack
<1>1. StackInv => NoRivalStack
  BY GensAssumption
  DEF StackInv, OneDaemon, SinksHaveDaemons, ReadyIsWithdrawn, NoRivalStack
<1> QED
  BY <1>1, StackInvariant, PTL

\* A provider whose EXIT trap ran to its end leaves nothing of its generation,
\* however its daemon, its sink and its server went down.
THEOREM ExitsAreClean ==
  ASSUME ~Overlap
  PROVE  Spec => []CleanExit
<1>1. StackInv => CleanExit
  BY DEF StackInv
<1> QED
  BY <1>1, StackInvariant, PTL

\* No server that was ever listed outlives its daemon off the pid file.
THEOREM NoServerIsLeftBehind ==
  ASSUME ~Overlap
  PROVE  Spec => []ListedServersAreStopped
<1>1. StackInv => ListedServersAreStopped
  BY DEF StackInv, ServersStayListed, ListedServersAreStopped
<1> QED
  BY <1>1, StackInvariant, PTL

-----------------------------------------------------------------------------
(* The transport below the stack.                                         *)

\* An address that still holds is that of the port the daemon knows.
AddressHolds == current => Here

\* From a look that found the adapter until the stream has ended the link is
\* published as healthy.
HealthyOnTheWay == at \in {"launch", "start", "stream"} => published = "healthy"

\* Only a running sink has it, and its driver let go before.
HeldByTheStream == held => at = "stream" /\ port # NoPort /\ ~bound

TransportInv == AddressHolds /\ HealthyOnTheWay /\ HeldByTheStream

LEMMA TransportStarts == TransportInit => TransportInv
  BY DEF TransportInit, NoticesInit, TransportInv, AddressHolds, HealthyOnTheWay,
         HeldByTheStream

\* The adapter takes the address and the sink with it when it enumerates.
LEMMA AdapterKeeps ==
  ASSUME TransportInv, Unplug \/ PlugIn \/ Loosen \/ Seat
  PROVE  TransportInv'
<1> USE DEF TransportInv, AddressHolds, HealthyOnTheWay, HeldByTheStream
<1>1. CASE Unplug
  BY <1>1 DEF Unplug, Undisturbed, progress
<1>2. CASE PlugIn
  BY <1>2 DEF PlugIn, Enumerate, Undisturbed, progress
<1>3. CASE Loosen
  BY <1>3 DEF Loosen, Enumerate, Undisturbed, progress
<1>4. CASE Seat
  BY <1>4 DEF Seat, Undisturbed, progress, Here
<1> QED
  BY <1>1, <1>2, <1>3, <1>4

\* A wait runs while nothing is held, and ends in "arm" or "launch" only with a
\* link that it has just published as healthy.
LEMMA WaitKeeps ==
  ASSUME TransportInv, Wait
  PROVE  TransportInv'
<1> USE DEF TransportInv, AddressHolds, HealthyOnTheWay, HeldByTheStream
<1>1. CASE Discover
  BY <1>1 DEF Discover, Discovered, Here
<1>2. CASE LookSettled
  BY <1>2 DEF LookSettled, Aside, First, adapter, Here
<1>3. CASE LookUnbound
  BY <1>3 DEF LookUnbound, LookAgain, Count, First,
              adapter, Here
<1>4. CASE LookWrong
  BY <1>4 DEF LookWrong, LookAgain, Count, First,
              adapter, Here
<1>5. CASE LookReset
  BY <1>5 DEF LookReset, LookAgain, Enumerate, First,
              adapter, Here
<1> QED
  BY <1>1, <1>2, <1>3, <1>4, <1>5 DEF Wait

\* The address is read where the adapter is, and the sink opens it only after
\* the driver has let go.
LEMMA RunKeeps ==
  ASSUME TransportInv, Run \/ StreamFails
  PROVE  TransportInv'
<1> USE DEF TransportInv, AddressHolds, HealthyOnTheWay, HeldByTheStream, Goes
<1>1. CASE Arm \/ ArmFails \/ RunAgain
  BY <1>1 DEF Arm, ArmFails, RunAgain, adapter, Here
<1>2. CASE ReadAddress
  BY <1>2, Zenon DEF ReadAddress, adapter, Here
<1>3. CASE StartSink
  BY <1>3, Zenon DEF StartSink, Here
<1>4. CASE StreamStops \/ StreamFails
  BY <1>4 DEF StreamStops, StreamFails, adapter, Here
<1>5. CASE GiveBack
  BY <1>5 DEF GiveBack, Here
<1> QED
  BY <1>1, <1>2, <1>3, <1>4, <1>5 DEF Run

\* The monitor loop only reads what the daemon publishes.
LEMMA MonitorKeeps ==
  ASSUME TransportInv, Monitor
  PROVE  TransportInv'
<1>1. UNCHANGED <<published, adapter, progress, current, held>>
  BY DEF Monitor, Observe, ReadLink, NoticeHealthy, NoticeDegraded, NoticeNothing
<1> QED
  BY <1>1 DEF adapter, progress, Here, TransportInv, AddressHolds,
              HealthyOnTheWay, HeldByTheStream

LEMMA TransportStep == TransportInv /\ [TransportNext]_transport => TransportInv'
<1> SUFFICES ASSUME TransportInv, [TransportNext]_transport
             PROVE  TransportInv'
  OBVIOUS
<1>1. CASE Unplug \/ PlugIn \/ Loosen \/ Seat
  BY <1>1, AdapterKeeps
<1>2. CASE Wait
  BY <1>2, WaitKeeps
<1>3. CASE Run \/ StreamFails
  BY <1>3, RunKeeps
<1>4. CASE Monitor
  BY <1>4, MonitorKeeps
<1>5. CASE UNCHANGED transport
  BY <1>5 DEF transport, adapter, progress, Here, TransportInv,
              AddressHolds, HealthyOnTheWay, HeldByTheStream
<1> QED
  BY <1>1, <1>2, <1>3, <1>4, <1>5 DEF TransportNext

\* Wherever the adapter goes between the daemon's looks, a sink that has it has
\* it alone, with a link that is published as healthy.
THEOREM SinkIsAlone == TransportSpec => []SinkHasItAlone
<1>1. TransportInv => SinkHasItAlone
  BY DEF TransportInv, HealthyOnTheWay, HeldByTheStream, SinkHasItAlone
<1>2. TransportSpec => []TransportInv
  BY TransportStarts, TransportStep, PTL DEF TransportSpec
<1> QED
  BY <1>1, <1>2, PTL

-----------------------------------------------------------------------------
(* What the user has been told.                                            *)

\* LINK_ALERT_ACTIVE is what the user believes: the last notice said that the link
\* is down, and no recovery went unheard since.
AlertIsBelief == alert \in BOOLEAN /\ lost \in BOOLEAN /\ (alert <=> said = "degraded" /\ ~lost)

\* The monitor loop alone touches the notices, a pass at a time.
LEMMA NoticesStep ==
  ASSUME AlertIsBelief, [TransportNext]_transport
  PROVE  AlertIsBelief' /\ (said' = "healthy" => said \in {"healthy", "degraded"})
<1>1. CASE UNCHANGED <<alert, said, lost>>
  BY <1>1 DEF AlertIsBelief
<1>2. CASE NoticeHealthy
  <2>1. /\ alert' = FALSE
        /\ \/ alert /\ said' = "healthy" /\ lost' = FALSE
           \/ alert /\ said' = said /\ lost' = TRUE
           \/ ~alert /\ said' = said /\ lost' = lost
    BY <1>2, Zenon DEF NoticeHealthy, Announced, Unsent
  <2>2. CASE alert /\ said' = "healthy" /\ lost' = FALSE
    BY <2>1, <2>2 DEF AlertIsBelief
  <2>3. CASE alert /\ said' = said /\ lost' = TRUE
    BY <2>1, <2>3 DEF AlertIsBelief
  <2>4. CASE ~alert /\ said' = said /\ lost' = lost
    BY <2>1, <2>4, Zenon DEF AlertIsBelief
  <2> QED
    BY <2>1, <2>2, <2>3, <2>4, Zenon
<1>3. CASE NoticeDegraded
  <2>1. \/ alert' = TRUE /\ said' = "degraded" /\ lost' = FALSE
        \/ ~alert /\ alert' = FALSE /\ said' = said /\ lost' = lost
    BY <1>3, Zenon DEF NoticeDegraded, Announced, Unsent, Alerted
  <2>2. CASE alert' = TRUE /\ said' = "degraded" /\ lost' = FALSE
    BY <2>2 DEF AlertIsBelief
  <2>3. CASE ~alert /\ alert' = FALSE /\ said' = said /\ lost' = lost
    BY <2>3, Zenon DEF AlertIsBelief
  <2> QED
    BY <2>1, <2>2, <2>3, Zenon
<1>4. CASE ReadLink \/ NoticeNothing
  BY <1>1, <1>4 DEF ReadLink, NoticeNothing
<1>5. CASE UNCHANGED notices
  BY <1>1, <1>5 DEF notices
<1>6. ASSUME Unplug \/ PlugIn \/ Loosen \/ Seat
      PROVE  UNCHANGED notices
  BY <1>6 DEF Unplug, PlugIn, Loosen, Seat, Undisturbed
<1>7. ASSUME Wait PROVE UNCHANGED notices
  BY <1>7 DEF Wait, Discover, LookSettled, LookUnbound, LookWrong, LookReset, Aside, Count
<1>8. ASSUME Run \/ StreamFails PROVE UNCHANGED notices
  BY <1>8 DEF Run, StreamFails, Arm, ArmFails,
              ReadAddress, StartSink, StreamStops, GiveBack,
              RunAgain, Goes
<1>9. ASSUME UNCHANGED transport PROVE UNCHANGED notices
  BY <1>9 DEF transport
<1> QED
  BY <1>2, <1>3, <1>4, <1>5, <1>6, <1>7, <1>8, <1>9
  DEF TransportNext, Monitor, Observe

\* However often the link comes and goes and whatever notices fail, the loop's alert
\* flag is what the user believes (observe_ch347_link_notice).
THEOREM AlertIsTrue == TransportSpec => []AlertIsBelief
<1>1. TransportInit => AlertIsBelief
  BY DEF TransportInit, NoticesInit, AlertIsBelief
<1>2. AlertIsBelief /\ [TransportNext]_transport => AlertIsBelief'
  BY NoticesStep
<1> QED
  BY <1>1, <1>2, PTL DEF TransportSpec

\* A user hears that the link is back only if the last notice said that it was down.
THEOREM RecoveryFollowsFailure ==
  TransportSpec =>
    [][said' = "healthy" => said \in {"healthy", "degraded"}]_transport
<1>1. AlertIsBelief /\ [TransportNext]_transport
        => [said' = "healthy" => said \in {"healthy", "degraded"}]_transport
  BY NoticesStep
<1>2. TransportSpec => []AlertIsBelief
  BY AlertIsTrue
<1> QED
  BY <1>1, <1>2, PTL DEF TransportSpec
=============================================================================
