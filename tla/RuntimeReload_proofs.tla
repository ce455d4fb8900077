----------------------- MODULE RuntimeReload_proofs -----------------------
(***************************************************************************)
(* A reload, wherever it fails, leaves capture running and the X session   *)
(* in place: for every set of values and bound on saves and faults.        *)
(***************************************************************************)
EXTENDS RuntimeReload, TLAPS

\* SessionKept is not inductive: the daemon looks at the root only when it starts
\* a stream, and until then the root has to keep the size that it believes in.
RootIsAsBelieved == root = Geometry(daemon.rotation)

\* Only a capture that lives is stopped, or the resume would miss it.
StoppedLives == cap.stopped => cap.alive


Safe == CaptureGoesOn /\ StoppedLives /\ RootIsAsBelieved /\ SessionKept

ReloadInv == TypeOK /\ Safe

LEMMA GeometryType == \A r \in Rotations : Geometry(r) \in Geometries
  BY DEF Geometry, Geometries

LEMMA FaultType ==
  ASSUME faults \in 0 .. MaxFaults, Fault \/ UNCHANGED faults
  PROVE  faults' \in 0 .. MaxFaults
  BY BoundsAssumption DEF Fault

-----------------------------------------------------------------------------
(* Type correctness.                                                       *)

LEMMA ReloadInit == Init => ReloadInv
<1> SUFFICES ASSUME NEW t \in Tunings, NEW a \in Affines,
                    files = [tuning |-> t, rotation |-> "normal", affine |-> a],
                    Init
             PROVE  ReloadInv
  BY DEF Init
<1> USE ValuesAssumption, BoundsAssumption
<1>1. Geometry("normal") \in Geometries
  BY GeometryType
<1>2. root = Geometry("normal") /\ daemon.pc = "wait" /\ daemon.rotation = "normal"
  BY DEF Init
<1>3. cap.stopped = FALSE
  BY DEF Init
<1>4. TypeOK
  <2>1. files \in Documents /\ receipts \in Receipts
    BY DEF Init, Documents, Receipts
  <2>2. session \in Sessions /\ root \in Geometries
    BY <1>1 DEF Init, Sessions, Document
  <2>3. prov \in ProviderStates
    BY <1>1 DEF Init, ProviderStates, ProviderSteps, Signature
  <2>4. daemon \in DaemonStates
    BY DEF Init, DaemonStates, DaemonSteps
  <2>5. cap \in CaptureStates
    BY DEF Init, CaptureStates
  <2>6. sink \in SinkStates
    BY DEF Init, SinkStates
  <2>7. confirmed \in BOOLEAN /\ excused \in BOOLEAN
    BY DEF Init
  <2>8. saves = MaxSaves /\ faults = MaxFaults
    BY DEF Init
  <2> QED
    BY <2>1, <2>2, <2>3, <2>4, <2>5, <2>6, <2>7, <2>8 DEF TypeOK
<1> QED
  BY <1>2, <1>3, <1>4
     DEF ReloadInv, Safe, CaptureGoesOn, StoppedLives, RootIsAsBelieved, SessionKept

LEMMA ProviderType ==
  ASSUME TypeOK, Provider
  PROVE  TypeOK'
<1> USE DEF TypeOK, stream, history
<1>1. CASE ReadDocuments
  <2>1. prov' \in ProviderStates
    BY <1>1 DEF ReadDocuments, Documents, ProviderStates, ProviderSteps
  <2> QED
    BY <1>1, <2>1 DEF ReadDocuments
<1>2. CASE RemoveReceipts
  <2>1. prov' \in ProviderStates
    BY <1>2 DEF RemoveReceipts, ProviderStates, ProviderSteps
  <2>2. receipts' \in Receipts
    BY <1>2 DEF RemoveReceipts, Receipts
  <2> QED
    BY <1>2, <2>1, <2>2 DEF RemoveReceipts
<1>3. CASE SignalDaemon
  <2>1. daemon' \in DaemonStates
    BY <1>3 DEF SignalDaemon, DaemonStates, DaemonSteps
  <2>2. prov' \in ProviderStates
    BY <1>3 DEF SignalDaemon, Returns, ProviderStates, ProviderSteps
  <2> QED
    BY <1>3, <2>1, <2>2 DEF SignalDaemon
<1>4. CASE Match \/ GiveUp
  <2>1. prov' \in ProviderStates
    BY <1>4 DEF Match, GiveUp, Returns, ProviderStates, ProviderSteps
  <2>2. confirmed' \in BOOLEAN /\ excused' \in BOOLEAN
    BY <1>4 DEF Match, GiveUp
  <2> QED
    BY <1>4, <2>1, <2>2 DEF Match, GiveUp
<1>5. CASE PublishAndReport \/ MonitorPublish
  <2>1. Signature \in [geometry : Geometries, affine : Affines]
    BY DEF Signature, Documents
  <2>2. Document(prov.rotation) \in Sessions
    BY DEF Document, Documents, Sessions, ProviderStates
  <2>3. prov' \in ProviderStates
    BY <1>5, <2>1
       DEF PublishAndReport, MonitorPublish, Returns, ProviderStates, ProviderSteps
  <2>4. session' \in Sessions
    BY <1>5, <2>2 DEF PublishAndReport, MonitorPublish, Published
  <2>5. faults' \in 0 .. MaxFaults
    BY <1>5, FaultType DEF PublishAndReport, MonitorPublish
  <2> QED
    BY <1>5, <2>3, <2>4, <2>5 DEF PublishAndReport, MonitorPublish
<1> QED
  BY <1>1, <1>2, <1>3, <1>4, <1>5 DEF Provider

LEMMA DaemonType ==
  ASSUME TypeOK, Daemon \/ WaitReturns
  PROVE  TypeOK'
<1> USE DEF TypeOK, stream, history
<1>1. daemon' \in DaemonStates
  <2> USE DEF DaemonStates, DaemonSteps, DaemonAt, Goes
  <2>1. files.tuning # Invalid => files.tuning \in Tunings /\ files.rotation \in Rotations
    BY DEF Documents
  <2>2. CASE Wake \/ WaitReturns \/ Look
    BY <2>2 DEF Wake, WaitReturns, Look
  <2>3. CASE ApplyRead
    BY <2>1, <2>3 DEF ApplyRead, Documents
  <2>4. CASE Pause \/ Resize \/ Resume
    BY <2>4 DEF Pause, Resize, Resume
  <2>5. CASE SetSettings \/ SignalSink \/ AwaitAffine \/ PublishReceipts
    BY <2>5 DEF SetSettings, SignalSink, AwaitAffine, PublishReceipts
  <2>6. CASE EndStream \/ StartStream
    BY <2>6 DEF EndStream, StartStream
  <2> QED
    BY <2>2, <2>3, <2>4, <2>5, <2>6 DEF Daemon
<1>2. \A reload \in BOOLEAN : Continued(reload) \in CaptureStates
  BY DEF Continued, CaptureStates
<1>3. /\ daemon.newRotation \in Rotations /\ daemon.rotation \in Rotations
      /\ daemon.tuning \in Tunings
  BY DEF DaemonStates
<1>4. CASE Wake \/ WaitReturns \/ Look \/ ApplyRead \/ AwaitAffine
  BY <1>1, <1>4 DEF Wake, WaitReturns, Look, ApplyRead, AwaitAffine
<1>5. CASE Pause
  <2>1. cap' \in CaptureStates
    BY <1>5 DEF Pause, CaptureStates
  <2> QED
    BY <1>1, <1>5, <2>1, FaultType DEF Pause
<1>6. CASE Resize
  <2>1. root' \in Geometries /\ cap' \in CaptureStates
    BY <1>2, <1>3, <1>6, GeometryType DEF Resize
  <2> QED
    BY <1>1, <1>6, <2>1, FaultType DEF Resize
<1>7. CASE Resume
  <2>1. cap' \in CaptureStates
    BY <1>2, <1>7 DEF Resume
  <2> QED
    BY <1>1, <1>7, <2>1, FaultType DEF Resume
<1>8. CASE SetSettings
  <2>1. cap' \in CaptureStates
    BY <1>2, <1>8 DEF SetSettings
  <2> QED
    BY <1>1, <1>8, <2>1 DEF SetSettings
<1>9. CASE SignalSink
  <2>1. sink' \in SinkStates
    BY <1>9 DEF SignalSink, SinkStates
  <2> QED
    BY <1>1, <1>9, <2>1 DEF SignalSink
<1>10. CASE PublishReceipts
  <2>1. receipts' \in Receipts
    BY <1>3, <1>10 DEF PublishReceipts, Receipts
  <2> QED
    BY <1>1, <1>10, <2>1 DEF PublishReceipts
<1>11. CASE EndStream
  <2>1. cap' \in CaptureStates
    BY <1>11 DEF EndStream, CaptureStates
  <2>2. sink' \in SinkStates
    BY <1>11 DEF EndStream, SinkStates
  <2> QED
    BY <1>1, <1>11, <2>1, <2>2 DEF EndStream
<1>12. CASE StartStream
  <2>1. cap' \in CaptureStates
    <3>1. CASE UNCHANGED stream
      BY <3>1
    <3>2. CASE cap' = [alive |-> TRUE, stopped |-> FALSE, asked |-> FALSE,
                       rotation |-> daemon.rotation]
      BY <1>3, <3>2 DEF CaptureStates
    <3> QED
      BY <1>12, <3>1, <3>2 DEF StartStream
  <2>2. sink' \in SinkStates
    BY <1>3, <1>12 DEF StartStream, SinkStates
  <2> QED
    BY <1>1, <1>12, <2>1, <2>2 DEF StartStream
<1> QED
  BY <1>4, <1>5, <1>6, <1>7, <1>8, <1>9, <1>10, <1>11, <1>12 DEF Daemon

LEMMA OthersType ==
  ASSUME TypeOK, Save \/ Sink \/ CaptureReloads \/ Dies
  PROVE  TypeOK'
<1> USE DEF TypeOK, stream, history
<1>1. CASE Save
  <2>1. files' \in Documents
    BY <1>1 DEF Save, Documents
  <2>2. prov' \in ProviderStates
    BY <1>1 DEF Save, ProviderStates
  <2>3. saves' \in 0 .. MaxSaves
    BY <1>1, BoundsAssumption DEF Save
  <2>4. confirmed' \in BOOLEAN
    BY <1>1 DEF Save
  <2> QED
    BY <1>1, <2>1, <2>2, <2>3, <2>4 DEF Save
<1>2. /\ files.affine \in Affines /\ files.rotation \in Rotations
      /\ files.tuning # Invalid => files.tuning \in Tunings
  BY DEF Documents
<1>3. CASE SinkStarts
  <2>1. sink' \in SinkStates
    BY <1>2, <1>3 DEF SinkStarts, SinkStates
  <2> QED
    BY <1>3, <2>1 DEF SinkStarts
<1>4. CASE SinkReady
  <2>1. sink' \in SinkStates
    BY <1>4 DEF SinkReady, SinkStates
  <2>2. receipts' \in Receipts
    BY <1>4 DEF SinkReady, SinkStates, Receipts
  <2> QED
    BY <1>4, <2>1, <2>2, FaultType DEF SinkReady
<1>5. CASE SinkReloads
  <2>1. sink' \in SinkStates
    <3>1. CASE files.tuning = Invalid
      BY <1>5, <3>1 DEF SinkReloads, SinkStates
    <3>2. CASE files.tuning # Invalid
      <4>1. sink' = [stage |-> "up", asked |-> FALSE, tuning |-> files.tuning,
                     rotation |-> files.rotation, affine |-> files.affine]
        BY <1>5, <3>2 DEF SinkReloads
      <4> QED
        BY <1>2, <3>2, <4>1 DEF SinkStates
    <3> QED
      BY <3>1, <3>2
  <2>2. receipts' \in Receipts
    BY <1>2, <1>5 DEF SinkReloads, Receipts
  <2>3. excused' \in BOOLEAN /\ faults' \in 0 .. MaxFaults
    BY <1>5, FaultType DEF SinkReloads
  <2> QED
    BY <1>5, <2>1, <2>2, <2>3 DEF SinkReloads
<1>6. CASE CaptureReloads
  <2>1. cap' \in CaptureStates
    BY <1>2, <1>6 DEF CaptureReloads, CaptureStates
  <2> QED
    BY <1>6, <2>1 DEF CaptureReloads
<1>7. CASE Dies
  <2>1. cap' \in CaptureStates
    BY <1>7 DEF Dies, CaptureStates
  <2>2. sink' \in SinkStates
    BY <1>7 DEF Dies, SinkStates
  <2> QED
    BY <1>7, <2>1, <2>2, FaultType DEF Dies
<1> QED
  BY <1>1, <1>3, <1>4, <1>5, <1>6, <1>7 DEF Sink

-----------------------------------------------------------------------------
(* Only the daemon resizes, stops capture and goes.                        *)

LEMMA DaemonSafe ==
  ASSUME TypeOK, Safe, Daemon \/ WaitReturns
  PROVE  Safe'
<1> USE DEF Safe, TypeOK, DaemonStates, CaptureStates, CaptureGoesOn, StoppedLives,
            RootIsAsBelieved, SessionKept, DaemonAt, Goes, stream
<1>1. CASE Wake \/ WaitReturns \/ Look
  BY <1>1 DEF Wake, WaitReturns, Look
<1>2. CASE ApplyRead
  BY <1>2 DEF ApplyRead
<1>3. CASE Pause
  BY <1>3 DEF Pause
<1>4. CASE Resize
  BY <1>4 DEF Resize, Continued
<1>5. CASE Resume
  BY <1>5 DEF Resume, Continued
<1>6. CASE SetSettings
  BY <1>6 DEF SetSettings, Continued
<1>7. CASE SignalSink \/ AwaitAffine \/ PublishReceipts
  BY <1>7 DEF SignalSink, AwaitAffine, PublishReceipts
<1>8. CASE EndStream
  BY <1>8 DEF EndStream
<1>9. CASE StartStream
  BY <1>9 DEF StartStream
<1> QED
  BY <1>1, <1>2, <1>3, <1>4, <1>5, <1>6, <1>7, <1>8, <1>9 DEF Daemon

LEMMA OthersSafe ==
  ASSUME TypeOK, Safe, Save \/ Provider \/ Sink \/ CaptureReloads \/ Dies
  PROVE  Safe'
<1> USE DEF Safe, TypeOK, DaemonStates, CaptureStates, CaptureGoesOn, StoppedLives,
            RootIsAsBelieved, SessionKept, stream
<1>1. CASE SignalDaemon
  BY <1>1 DEF SignalDaemon
<1>2. CASE Save \/ ReadDocuments \/ RemoveReceipts \/ Match \/ GiveUp \/ PublishAndReport
           \/ MonitorPublish \/ Sink
  BY <1>2 DEF Save, ReadDocuments, RemoveReceipts, Match, GiveUp, PublishAndReport,
              MonitorPublish, Sink, SinkStarts, SinkReady, SinkReloads
<1>3. CASE CaptureReloads
  BY <1>3 DEF CaptureReloads
<1>4. CASE Dies
  BY <1>4 DEF Dies
<1> QED
  BY <1>1, <1>2, <1>3, <1>4 DEF Provider

LEMMA ReloadInvariant == Spec => []ReloadInv
<1>1. ReloadInv /\ [Next]_vars => ReloadInv'
  <2> SUFFICES ASSUME ReloadInv, [Next]_vars PROVE ReloadInv'
    OBVIOUS
  <2> USE DEF ReloadInv
  <2>1. CASE Daemon \/ WaitReturns
    BY <2>1, DaemonType, DaemonSafe
  <2>2. CASE Provider
    BY <2>2, ProviderType, OthersSafe
  <2>3. CASE Save \/ Sink \/ CaptureReloads \/ Dies
    BY <2>3, OthersType, OthersSafe
  <2>4. CASE UNCHANGED vars
    BY <2>4 DEF vars, Safe, TypeOK, CaptureGoesOn, StoppedLives, RootIsAsBelieved, SessionKept
  <2> QED
    BY <2>1, <2>2, <2>3, <2>4 DEF Next
<1> QED
  BY <1>1, ReloadInit, PTL DEF Spec

-----------------------------------------------------------------------------
\* The documents, receipts and the settings of all four processes have their types.
THEOREM TypeCorrect == Spec => []TypeOK
<1>1. ReloadInv => TypeOK
  BY DEF ReloadInv, Safe
<1> QED
  BY <1>1, ReloadInvariant, PTL

\* Whichever step of a rotation fails, and whoever dies meanwhile, capture is
\* stopped only while the daemon is at the resize.
THEOREM CaptureIsResumed == Spec => []CaptureGoesOn
<1>1. ReloadInv => CaptureGoesOn
  BY DEF ReloadInv, Safe
<1> QED
  BY <1>1, ReloadInvariant, PTL

\* No rotation, failed or not, makes the daemon report its X session lost.
THEOREM SessionSurvives == Spec => []SessionKept
<1>1. ReloadInv => SessionKept
  BY DEF ReloadInv, Safe
<1> QED
  BY <1>1, ReloadInvariant, PTL

-----------------------------------------------------------------------------
(* What a reported reload stands for.  The receipts carry no number of the *)
(* request they answer, and the daemon may still be at an older one when   *)
(* the provider removes them.  It does not matter: the daemon that wrote   *)
(* the rotation of the document into the receipt has nothing left to turn, *)
(* since the next time it looks it reads the same document again.          *)

Reloading == prov.pc \in {"remove", "signal", "await", "publish"}
Awaiting == prov.pc \in {"signal", "await", "publish"}

\* Unless HAL has asked again the provider works on the documents as they are.
ProviderIsCurrent == Reloading /\ ~prov.asked => prov.rotation = files.rotation

\* A receipt for the rotation of the document: the daemon has turned, and stays.
DaemonHasTurned ==
  Awaiting /\ ~prov.asked /\ receipts.rotation = files.rotation
    => daemon.rotation = files.rotation /\ daemon.pc \notin {"pause", "resize"}

\* What is confirmed is confirmed to the last request of HAL.
ConfirmedIsLast ==
  confirmed => /\ ~prov.asked /\ prov.pc \in {"monitor", "publish"}
               /\ prov.pc = "publish" => receipts.rotation = files.rotation

\* The document shows the geometry of the signature that was published last.
SessionShowsPublished == session.geometry = prov.published.geometry

ReportInv == ProviderIsCurrent /\ DaemonHasTurned /\ ConfirmedIsLast /\ SessionShowsPublished

LEMMA ReportInit == Init => ReportInv
<1> SUFFICES ASSUME Init PROVE ReportInv
  OBVIOUS
<1>1. /\ prov.pc = "monitor" /\ prov.asked = FALSE
      /\ session.geometry = root /\ prov.published.geometry = root
  BY DEF Init, Document, Signature
<1> QED
  BY <1>1 DEF ReportInv, ProviderIsCurrent, DaemonHasTurned, ConfirmedIsLast,
              SessionShowsPublished, Reloading, Awaiting

LEMMA ProviderReports ==
  ASSUME ReloadInv, ReportInv, Provider
  PROVE  ReportInv'
<1> USE DEF ReportInv, ProviderIsCurrent, DaemonHasTurned, ConfirmedIsLast,
            SessionShowsPublished, Reloading, Awaiting, ReloadInv, TypeOK, ProviderStates,
            Documents, Receipts, history, stream
<1>1. CASE ReadDocuments
  BY <1>1 DEF ReadDocuments
<1>2. CASE RemoveReceipts
  <2>1. None \notin Rotations
    BY ValuesAssumption DEF None, AllRotations
  <2> QED
    BY <1>2, <2>1 DEF RemoveReceipts
<1>3. CASE SignalDaemon
  <2>1. /\ prov.pc = "signal" /\ UNCHANGED <<files, receipts, session, confirmed>>
        /\ prov' = [prov EXCEPT !.pc = "await"] \/ prov' = [prov EXCEPT !.pc = "monitor"]
    BY <1>3 DEF SignalDaemon, Returns
  <2>2. /\ daemon'.rotation = daemon.rotation
        /\ daemon'.pc = daemon.pc \/ daemon'.pc = "woken"
    BY <1>3 DEF SignalDaemon, DaemonStates
  <2> QED
    BY <2>1, <2>2
<1>4. CASE Match
  BY <1>4 DEF Match, ReceiptsMatch
<1>5. CASE GiveUp
  BY <1>5 DEF GiveUp, Returns
<1>6. CASE PublishAndReport
  <2>1. /\ UNCHANGED <<files, receipts, daemon, confirmed>>
        /\ prov'.pc = "monitor" /\ prov'.asked = prov.asked
    BY <1>6 DEF PublishAndReport, Returns
  <2>2. \/ session'.geometry = root /\ prov'.published.geometry = root
        \/ session' = session /\ prov'.published = prov.published
    <3>1. CASE /\ session' = Document(prov.rotation)
               /\ prov' = [prov EXCEPT !.pc = "monitor", !.published = Signature]
      BY <3>1 DEF Document, Signature
    <3>2. CASE session' = session /\ prov' = [prov EXCEPT !.pc = "monitor"]
      BY <3>2
    <3> QED
      BY <1>6, <3>1, <3>2 DEF PublishAndReport, Published, Returns
  <2> QED
    BY <2>1, <2>2
<1>7. CASE MonitorPublish
  BY <1>7 DEF MonitorPublish, Published, Document, Signature
<1> QED
  BY <1>1, <1>2, <1>3, <1>4, <1>5, <1>6, <1>7 DEF Provider

LEMMA DaemonReports ==
  ASSUME ReloadInv, ReportInv, Daemon \/ WaitReturns
  PROVE  ReportInv'
<1> USE DEF ReportInv, ProviderIsCurrent, DaemonHasTurned, ConfirmedIsLast,
            SessionShowsPublished, Reloading, Awaiting, ReloadInv, TypeOK, DaemonStates,
            Receipts, history, stream, DaemonAt, Goes
<1>1. CASE Wake \/ WaitReturns \/ Look
  BY <1>1 DEF Wake, WaitReturns, Look
<1>2. CASE ApplyRead
  BY <1>2 DEF ApplyRead
<1>3. CASE Pause
  BY <1>3 DEF Pause
<1>4. CASE Resize
  BY <1>4 DEF Resize
<1>5. CASE Resume \/ SetSettings
  <2>1. /\ UNCHANGED <<files, receipts, session, prov, confirmed>>
        /\ daemon'.rotation = daemon.rotation /\ daemon'.pc \notin {"pause", "resize"}
    BY <1>5 DEF Resume, SetSettings
  <2> QED
    BY <2>1
<1>6. CASE SignalSink \/ AwaitAffine
  BY <1>6 DEF SignalSink, AwaitAffine
<1>7. CASE PublishReceipts
  BY <1>7 DEF PublishReceipts
<1>8. CASE EndStream \/ StartStream
  BY <1>8 DEF EndStream, StartStream
<1> QED
  BY <1>1, <1>2, <1>3, <1>4, <1>5, <1>6, <1>7, <1>8 DEF Daemon

LEMMA OthersReport ==
  ASSUME ReloadInv, ReportInv, Save \/ Sink \/ CaptureReloads \/ Dies
  PROVE  ReportInv'
<1> USE DEF ReportInv, ProviderIsCurrent, DaemonHasTurned, ConfirmedIsLast,
            SessionShowsPublished, Reloading, Awaiting, ReloadInv, TypeOK, ProviderStates,
            Receipts, history, stream
<1>1. CASE Save
  BY <1>1 DEF Save
<1>2. CASE Sink
  BY <1>2 DEF Sink, SinkStarts, SinkReady, SinkReloads
<1>3. CASE CaptureReloads \/ Dies
  BY <1>3 DEF CaptureReloads, Dies
<1> QED
  BY <1>1, <1>2, <1>3

\* A reload that is reported has been published with the geometry it asked for,
\* even when the receipts that confirmed it answered an older request.
THEOREM GeometryIsReported == Spec => ReportedGeometry
<1>1. ReloadInv /\ ReportInv /\ [Next]_vars => ReportInv'
  <2> SUFFICES ASSUME ReloadInv, ReportInv, [Next]_vars PROVE ReportInv'
    OBVIOUS
  <2>1. CASE UNCHANGED vars
    BY <2>1 DEF vars, ReportInv, ProviderIsCurrent, DaemonHasTurned, ConfirmedIsLast,
                SessionShowsPublished, Reloading, Awaiting
  <2> QED
    BY <2>1, ProviderReports, DaemonReports, OthersReport DEF Next
<1>2. ASSUME ReloadInv, ReportInv, [Next]_vars,
             prov.pc = "publish", prov'.pc = "monitor", confirmed, faults' = faults
      PROVE  session'.geometry = Geometry(prov.rotation)
  <2>1. root = Geometry(prov.rotation)
    BY <1>2 DEF ReloadInv, Safe, RootIsAsBelieved, ReportInv, ProviderIsCurrent,
                DaemonHasTurned, ConfirmedIsLast, Reloading, Awaiting
  <2>2. PublishAndReport
    BY <1>2 DEF Next, Save, Provider, ReadDocuments, RemoveReceipts, SignalDaemon, Match,
                GiveUp, MonitorPublish, Daemon, WaitReturns, Wake, Look, ApplyRead, Pause,
                Resize, Resume, SetSettings, SignalSink, AwaitAffine, PublishReceipts,
                EndStream, StartStream, Sink, SinkStarts, SinkReady, SinkReloads,
                CaptureReloads, Dies, vars, ReloadInv, TypeOK, ProviderStates
  <2>3. ~Fault
    BY <1>2 DEF Fault, ReloadInv, TypeOK
  <2>4. CASE Published
    BY <2>1, <2>4 DEF Published, Document
  <2>5. CASE Signature = prov.published /\ UNCHANGED session
    BY <1>2, <2>1, <2>5 DEF Signature, ReportInv, SessionShowsPublished
  <2> QED
    BY <2>2, <2>3, <2>4, <2>5 DEF PublishAndReport
<1> QED
  BY <1>1, <1>2, ReloadInvariant, ReportInit, PTL DEF Spec, ReportedGeometry
=============================================================================
