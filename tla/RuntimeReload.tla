--------------------------- MODULE RuntimeReload ---------------------------
(***************************************************************************)
(* Changing settings of a running display: HAL commits a document and      *)
(* sends SIGUSR1 to the provider, the provider to the daemon, the daemon   *)
(* to capture and sink.  A rotation also resizes the X root, with capture  *)
(* stopped meanwhile.  Receipts tell HAL what has been applied, and the    *)
(* display-session document tells the rest of the system the geometry and  *)
(* the touch matrix.                                                       *)
(*                                                                         *)
(* One generation with touch enabled, xdamage capture.  The FPS, overlay   *)
(* and cursor documents, handled alike, are one: "tuning".  Reading the    *)
(* documents is one step of each process.  HAL and capture are external.   *)
(***************************************************************************)
EXTENDS Naturals

CONSTANTS
  Tunings, Affines, \* values of those two documents
  Rotations,        \* values of the rotation document
  MaxSaves,         \* bound on documents that HAL commits
  MaxFaults         \* bound on faults

Invalid == "invalid"
None == "none"
AllRotations == {"normal", "right", "inverted", "left"}

ASSUME ValuesAssumption ==
  /\ Tunings # {} /\ Affines # {} /\ {Invalid, None} \cap (Tunings \cup Affines) = {}
  /\ Rotations \subseteq AllRotations /\ "normal" \in Rotations
ASSUME BoundsAssumption == MaxSaves \in Nat /\ MaxFaults \in Nat

VARIABLES
  files,    \* the documents
  receipts, \* the applied documents
  session,  \* display-session.json: root geometry and touch matrix
  prov,     \* provider: next step, USR1 seen, settings read, signature published
  daemon,   \* daemon: next step, USR1 seen, settings in force, settings read
  root,     \* size of the X root
  cap,      \* capture: alive, stopped, settings reloaded
  sink,     \* sink: stage, USR1 seen, settings in force
  confirmed, \* history: receipts have confirmed the documents since they were committed
  excused,  \* history: the sink could not write a receipt, or a reload outlived its report
  saves, faults

vars == <<files, receipts, session, prov, daemon, root, cap, sink, confirmed, excused, saves,
          faults>>
history == <<confirmed, excused>>
stream == <<cap, sink>>

\* rotation_geometry, in the daemon.
Geometry(rotation) == IF rotation \in {"normal", "inverted"} THEN "320x480" ELSE "480x320"

\* Mutant of Signature: without the dimensions.
SignatureOfAffine == [geometry |-> Geometry("normal"), affine |-> files.affine]

\* display_signature (the depth never changes).
Signature == [geometry |-> root, affine |-> files.affine]

\* What write_state is given: the geometry as X has it, and ch347_transform of
\* the affine document and the provider's rotation.
Document(rotation) == [geometry |-> root, rotation |-> rotation, affine |-> files.affine]

Gone == [stage |-> "gone", asked |-> FALSE]

\* READY has been published: everything agrees.
Init ==
  \E t \in Tunings, a \in Affines :
    /\ files = [tuning |-> t, rotation |-> "normal", affine |-> a]
    /\ receipts = files /\ confirmed = TRUE /\ excused = FALSE
    /\ root = Geometry("normal")
    /\ session = Document("normal")
    /\ prov = [pc |-> "monitor", asked |-> FALSE, tuning |-> t, rotation |-> "normal",
               published |-> Signature]
    /\ daemon = [pc |-> "wait", asked |-> FALSE, tuning |-> t, rotation |-> "normal",
                 newTuning |-> t, newRotation |-> "normal"]
    /\ cap = [alive |-> TRUE, stopped |-> FALSE, asked |-> FALSE, rotation |-> "normal"]
    /\ sink = [stage |-> "up", asked |-> FALSE, tuning |-> t, rotation |-> "normal", affine |-> a]
    /\ saves = MaxSaves /\ faults = MaxFaults

Fault == faults > 0 /\ faults' = faults - 1

-----------------------------------------------------------------------------
(* HAL (external): it commits documents and signals the provider.          *)

Save ==
  /\ saves > 0 /\ saves' = saves - 1
  /\ \/ \E t \in Tunings \cup {Invalid} : files' = [files EXCEPT !.tuning = t]
     \/ \E r \in Rotations : files' = [files EXCEPT !.rotation = r]
     \/ \E a \in Affines : files' = [files EXCEPT !.affine = a]
  /\ prov' = [prov EXCEPT !.asked = TRUE] /\ confirmed' = FALSE
  /\ UNCHANGED <<receipts, session, daemon, root, stream, excused, faults>>

-----------------------------------------------------------------------------
(* Provider: reload_runtime_config, and the monitor loop around it.        *)

Returns == prov' = [prov EXCEPT !.pc = "monitor"]

DaemonAlive == daemon.pc # "gone"

\* The documents are read; an invalid one ends the reload before anything is
\* removed.  The daemon's pid is taken from the pid file.
ReadDocuments ==
  /\ prov.pc = "monitor" /\ prov.asked
  /\ prov' = IF files.tuning = Invalid THEN [prov EXCEPT !.asked = FALSE]
             ELSE [prov EXCEPT !.asked = FALSE, !.tuning = files.tuning, !.rotation = files.rotation,
                               !.pc = IF DaemonAlive THEN "remove" ELSE "monitor"]
  /\ UNCHANGED <<files, receipts, session, daemon, root, stream, history, saves, faults>>

\* Mutant of RemoveReceipts: the old receipts stay.
KeepReceipts ==
  /\ prov.pc = "remove" /\ prov' = [prov EXCEPT !.pc = "signal"]
  /\ UNCHANGED <<files, receipts, session, daemon, root, stream, history, saves, faults>>

RemoveReceipts ==
  /\ prov.pc = "remove"
  /\ receipts' = [receipts EXCEPT !.tuning = None, !.rotation = None]
  /\ prov' = [prov EXCEPT !.pc = "signal"]
  /\ UNCHANGED <<files, session, daemon, root, stream, history, saves, faults>>

\* USR1 interrupts "wait -n"; anywhere else in the daemon it is only noted.
SignalDaemon ==
  /\ prov.pc = "signal"
  /\ IF DaemonAlive THEN prov' = [prov EXCEPT !.pc = "await"] ELSE Returns
  /\ daemon' = CASE daemon.pc = "wait" -> [daemon EXCEPT !.asked = TRUE, !.pc = "woken"]
                 [] daemon.pc = "gone" -> daemon
                 [] OTHER              -> [daemon EXCEPT !.asked = TRUE]
  /\ UNCHANGED <<files, receipts, session, root, stream, history, saves, faults>>

\* Mutant of ReceiptsMatch: the affine receipt is not compared.
ReceiptsMatchPartly == receipts.tuning = prov.tuning /\ receipts.rotation = prov.rotation

\* runtime_receipts_match: the provider's settings, and the affine document as it is now.
ReceiptsMatch ==
  /\ receipts.tuning = prov.tuning /\ receipts.rotation = prov.rotation
  /\ receipts.affine = files.affine

\* What HAL has committed since the documents were read is not confirmed by this,
\* be it the same settings again.
Match ==
  /\ prov.pc = "await" /\ ReceiptsMatch
  /\ prov' = [prov EXCEPT !.pc = "publish"]
  /\ confirmed' = ~prov.asked
  /\ UNCHANGED <<files, receipts, session, daemon, root, stream, excused, saves, faults>>

\* After 80 looks, or when the daemon is gone.  The daemon may apply it yet.
GiveUp ==
  /\ prov.pc = "await" /\ ~ReceiptsMatch /\ Returns
  /\ excused' = (excused \/ daemon.asked \/ daemon.pc # "wait")
  /\ UNCHANGED <<files, receipts, session, daemon, root, stream, confirmed, saves, faults>>

Published == session' = Document(prov.rotation)

\* The document catches up before the reload is reported, if the signature has
\* changed; a root that cannot be asked (a fault) is as good as unchanged.
PublishAndReport ==
  /\ prov.pc = "publish"
  /\ \/ /\ Signature # prov.published /\ Published /\ UNCHANGED faults
        /\ prov' = [prov EXCEPT !.pc = "monitor", !.published = Signature]
     \/ Signature = prov.published /\ UNCHANGED <<session, faults>> /\ Returns
     \/ Fault /\ UNCHANGED session /\ Returns
  /\ UNCHANGED <<files, receipts, daemon, root, stream, history, saves>>

\* The monitor loop publishes when the root or the affine document has changed.
MonitorPublish ==
  /\ prov.pc = "monitor" /\ Signature # prov.published
  /\ Published /\ prov' = [prov EXCEPT !.published = Signature]
  /\ UNCHANGED <<files, receipts, daemon, root, stream, history, saves, faults>>

-----------------------------------------------------------------------------
(* Daemon: the wait loop and apply_runtime_config.                         *)

DaemonAt(pc) == daemon.pc = pc

Goes(pc) == daemon' = [daemon EXCEPT !.pc = pc]

StreamAlive == cap.alive /\ sink.stage # "gone"

\* "wait -n" has returned: for a signal, or because a process of the stream ended.
Wake ==
  /\ DaemonAt("wait") /\ ~StreamAlive
  /\ Goes("woken")
  /\ UNCHANGED <<files, receipts, session, prov, root, stream, history, saves, faults>>

\* Some versions of bash return at once from the first wait after an interrupted one.
WaitReturns ==
  /\ DaemonAt("wait") /\ Goes("woken")
  /\ UNCHANGED <<files, receipts, session, prov, root, stream, history, saves, faults>>

\* Apply, or wait again, or end the stream.
Look ==
  /\ DaemonAt("woken")
  /\ Goes(CASE ~StreamAlive -> "ending" [] StreamAlive /\ daemon.asked -> "read" [] OTHER -> "wait")
  /\ UNCHANGED <<files, receipts, session, prov, root, stream, history, saves, faults>>

\* A rejected document ends the attempt, like every error from here on.
ApplyRead ==
  /\ DaemonAt("read")
  /\ daemon' =
       IF files.tuning = Invalid THEN [daemon EXCEPT !.asked = FALSE, !.pc = "wait"]
       ELSE [daemon EXCEPT !.asked = FALSE, !.newTuning = files.tuning, !.newRotation = files.rotation,
                           !.pc = IF files.rotation # daemon.rotation THEN "pause" ELSE "set"]
  /\ UNCHANGED <<files, receipts, session, prov, root, stream, history, saves, faults>>

\* pause_capture_for_rotation: SIGSTOP, wait until it shows, ask the X server.
Pause ==
  /\ DaemonAt("pause")
  /\ \/ cap.alive /\ cap' = [cap EXCEPT !.stopped = TRUE] /\ Goes("resize") /\ UNCHANGED faults
     \/ ~cap.alive /\ Goes("wait") /\ UNCHANGED <<cap, faults>>
     \/ cap.alive /\ Fault /\ Goes("wait") /\ UNCHANGED cap
  /\ UNCHANGED <<files, receipts, session, prov, root, sink, history, saves>>

\* Mutant of Continued: SIGUSR1 without SIGCONT.
NotContinued(reload) == IF cap.alive THEN [cap EXCEPT !.asked = @ \/ reload] ELSE cap

\* resume_capture_after_rotation: SIGCONT, after SIGUSR1 if it is to reload.
Continued(reload) ==
  IF cap.alive THEN [cap EXCEPT !.stopped = FALSE, !.asked = @ \/ reload] ELSE cap

\* Mutant of Resize: the daemon's settings change even if xrandr fails.
ResizeRegardless ==
  /\ DaemonAt("resize")
  /\ \/ /\ root' = Geometry(daemon.newRotation) /\ UNCHANGED <<cap, faults>>
        /\ daemon' = [daemon EXCEPT !.rotation = daemon.newRotation, !.pc = "resume"]
     \/ /\ Fault /\ cap' = Continued(FALSE) /\ UNCHANGED root
        /\ daemon' = [daemon EXCEPT !.rotation = daemon.newRotation, !.pc = "wait"]
  /\ UNCHANGED <<files, receipts, session, prov, sink, history, saves>>

\* xrandr, and the settings that describe the root; or xrandr fails.
Resize ==
  /\ DaemonAt("resize")
  /\ \/ /\ root' = Geometry(daemon.newRotation)
        /\ daemon' = [daemon EXCEPT !.rotation = daemon.newRotation, !.pc = "resume"]
        /\ UNCHANGED <<cap, faults>>
     \/ Fault /\ cap' = Continued(FALSE) /\ Goes("wait") /\ UNCHANGED root
  /\ UNCHANGED <<files, receipts, session, prov, sink, history, saves>>

\* validate_x_root_dimensions, and capture goes on whatever it said.
Resume ==
  /\ DaemonAt("resume")
  /\ cap' = Continued(TRUE)
  /\ \/ Goes(IF cap.alive THEN "setQuietly" ELSE "wait") /\ UNCHANGED faults
     \/ Fault /\ Goes("wait")
  /\ UNCHANGED <<files, receipts, session, prov, root, sink, history, saves>>

\* The other settings; capture is told unless it has been told already.
SetSettings ==
  /\ \/ DaemonAt("setQuietly") /\ UNCHANGED cap
     \/ DaemonAt("set") /\ cap' = Continued(TRUE)
  /\ daemon' = [daemon EXCEPT !.tuning = daemon.newTuning,
                              !.pc = IF DaemonAt("set") /\ ~cap.alive THEN "wait" ELSE "signal"]
  /\ UNCHANGED <<files, receipts, session, prov, root, sink, history, saves, faults>>

\* A sink that has not installed its handler yet dies of SIGUSR1.
SignalSink ==
  /\ DaemonAt("signal")
  /\ sink' = CASE sink.stage = "gone"  -> sink
               [] sink.stage = "fresh" -> [sink EXCEPT !.stage = "gone"]
               [] OTHER                -> [sink EXCEPT !.asked = TRUE]
  /\ Goes(IF sink.stage = "gone" THEN "wait" ELSE "affine")
  /\ UNCHANGED <<files, receipts, session, prov, root, cap, history, saves, faults>>

\* The sink's receipt matches, or the sink is gone, or 80 looks were in vain.
AwaitAffine ==
  /\ DaemonAt("affine")
  /\ Goes(IF receipts.affine = files.affine THEN "publish" ELSE "wait")
  /\ UNCHANGED <<files, receipts, session, prov, root, stream, history, saves, faults>>

\* publish_applied_runtime_config.
PublishReceipts ==
  /\ DaemonAt("publish")
  /\ receipts' = [receipts EXCEPT !.tuning = daemon.tuning, !.rotation = daemon.rotation]
  /\ Goes("wait")
  /\ UNCHANGED <<files, session, prov, root, stream, history, saves, faults>>

\* One of the two has ended, the other is ended and waited for: a stopped
\* capture would not end.
EndStream ==
  /\ DaemonAt("ending") /\ ~(cap.alive /\ cap.stopped)
  /\ Goes("down")
  /\ cap' = [cap EXCEPT !.alive = FALSE, !.asked = FALSE]
  /\ sink' = [sink EXCEPT !.stage = "gone", !.asked = FALSE]
  /\ UNCHANGED <<files, receipts, session, prov, root, history, saves, faults>>

\* run_stream_once again: a root of the wrong size is a lost session.  Capture and
\* sink get the daemon's settings.
StartStream ==
  /\ DaemonAt("down")
  /\ IF root # Geometry(daemon.rotation) THEN Goes("gone") /\ UNCHANGED stream
     ELSE /\ Goes("wait")
          /\ cap' = [alive |-> TRUE, stopped |-> FALSE, asked |-> FALSE,
                   rotation |-> daemon.rotation]
          /\ sink' = [sink EXCEPT !.stage = "fresh", !.tuning = daemon.tuning,
                                  !.rotation = daemon.rotation]
  /\ UNCHANGED <<files, receipts, session, prov, root, history, saves, faults>>

-----------------------------------------------------------------------------
(* Sink and capture.                                                       *)

\* The handler is installed, the affine document read.
SinkStarts ==
  /\ sink.stage = "fresh"
  /\ sink' = [sink EXCEPT !.stage = "starting", !.affine = files.affine]
  /\ UNCHANGED <<files, receipts, session, prov, daemon, root, cap, history, saves, faults>>

\* The receipt is written; without it the sink ends.
SinkReady ==
  /\ sink.stage = "starting"
  /\ \/ /\ sink' = [sink EXCEPT !.stage = "up"] /\ UNCHANGED faults
        /\ receipts' = [receipts EXCEPT !.affine = sink.affine]
     \/ Fault /\ sink' = [sink EXCEPT !.stage = "gone"] /\ UNCHANGED receipts
  /\ UNCHANGED <<files, session, prov, daemon, root, cap, history, saves>>

\* The reload in the main loop: all documents or none; the receipt may fail.
SinkReloads ==
  /\ sink.stage = "up" /\ sink.asked
  /\ IF files.tuning = Invalid
     THEN sink' = [sink EXCEPT !.asked = FALSE] /\ UNCHANGED <<receipts, excused, faults>>
     ELSE /\ sink' = [stage |-> "up", asked |-> FALSE, tuning |-> files.tuning,
                      rotation |-> files.rotation, affine |-> files.affine]
          /\ \/ /\ receipts' = [receipts EXCEPT !.affine = files.affine]
                /\ UNCHANGED <<excused, faults>>
             \/ Fault /\ excused' = TRUE /\ UNCHANGED receipts
  /\ UNCHANGED <<files, session, prov, daemon, root, cap, confirmed, saves>>

\* Capture (external) reads the rotation again when it is asked to.
CaptureReloads ==
  /\ cap.alive /\ cap.asked /\ ~cap.stopped
  /\ cap' = [cap EXCEPT !.asked = FALSE, !.rotation = files.rotation]
  /\ UNCHANGED <<files, receipts, session, prov, daemon, root, sink, history, saves, faults>>

Dies ==
  /\ Fault
  /\ \/ /\ cap.alive /\ cap' = [cap EXCEPT !.alive = FALSE, !.stopped = FALSE, !.asked = FALSE]
        /\ UNCHANGED sink
     \/ /\ sink.stage # "gone" /\ sink' = [sink EXCEPT !.stage = "gone", !.asked = FALSE]
        /\ UNCHANGED cap
  /\ UNCHANGED <<files, receipts, session, prov, daemon, root, history, saves>>

Provider == ReadDocuments \/ RemoveReceipts \/ SignalDaemon \/ Match \/ GiveUp \/ PublishAndReport
            \/ MonitorPublish

Daemon ==
  \/ Wake \/ Look \/ ApplyRead \/ Pause \/ Resize \/ Resume \/ SetSettings \/ SignalSink
  \/ AwaitAffine \/ PublishReceipts \/ EndStream \/ StartStream

Sink == SinkStarts \/ SinkReady \/ SinkReloads

Next == Save \/ Provider \/ Daemon \/ WaitReturns \/ Sink \/ CaptureReloads \/ Dies

Spec == Init /\ [][Next]_vars

\* Every process goes on; the waits of provider and daemon are bounded.
FairSpec ==
  /\ Spec
  /\ WF_vars(Provider) /\ WF_vars(Daemon) /\ WF_vars(Sink) /\ WF_vars(CaptureReloads)

-----------------------------------------------------------------------------
ProviderSteps == {"monitor", "remove", "signal", "await", "publish"}
DaemonSteps == {"wait", "woken", "read", "pause", "resize", "resume", "set", "setQuietly", "signal",
                "affine", "publish", "ending", "down", "gone"}
Geometries == {"320x480", "480x320"}
Documents == [tuning : Tunings \cup {Invalid}, rotation : Rotations, affine : Affines]
Receipts == [tuning : Tunings \cup {None}, rotation : Rotations \cup {None}, affine : Affines]
Sessions == [geometry : Geometries, rotation : Rotations, affine : Affines]
ProviderStates ==
  [pc : ProviderSteps, asked : BOOLEAN, tuning : Tunings, rotation : Rotations,
   published : [geometry : Geometries, affine : Affines]]
DaemonStates ==
  [pc : DaemonSteps, asked : BOOLEAN, tuning : Tunings, rotation : Rotations,
   newTuning : Tunings, newRotation : Rotations]
CaptureStates == [alive : BOOLEAN, stopped : BOOLEAN, asked : BOOLEAN, rotation : Rotations]
SinkStates ==
  [stage : {"gone", "fresh", "starting", "up"}, asked : BOOLEAN, tuning : Tunings,
   rotation : Rotations, affine : Affines]

TypeOK ==
  /\ files \in Documents /\ receipts \in Receipts /\ session \in Sessions
  /\ prov \in ProviderStates /\ daemon \in DaemonStates
  /\ root \in Geometries /\ cap \in CaptureStates /\ sink \in SinkStates
  /\ confirmed \in BOOLEAN /\ excused \in BOOLEAN
  /\ saves \in 0 .. MaxSaves /\ faults \in 0 .. MaxFaults

\* Capture is stopped only while the root is being resized, whichever step fails:
\* a capture left stopped freezes the panel, and the daemon that waits for its end.
CaptureGoesOn == cap.stopped => daemon.pc \in {"resize", "resume"}

\* A rotation, whatever step of it fails, never makes the daemon take the X session
\* for lost: a stream that starts finds the root in the size the daemon believes in.
SessionKept == daemon.pc # "gone"

\* Before a reload is reported the document has caught up with the geometry
\* (the provider's comment), unless the root could not be asked or HAL has
\* committed something newer.
ReportedGeometry ==
  [][prov.pc = "publish" /\ prov'.pc = "monitor" /\ confirmed /\ faults' = faults
       => session'.geometry = Geometry(prov.rotation)]_vars

Runs(settings) ==
  /\ sink.stage = "up" /\ cap.alive /\ ~cap.stopped
  /\ [tuning |-> sink.tuning, rotation |-> sink.rotation, affine |-> sink.affine] = settings
  /\ cap.rotation = settings.rotation /\ root = Geometry(settings.rotation)

\* What the receipts confirmed comes true and stays: once HAL leaves the documents
\* alone root, capture and sink all run them, whatever died meanwhile.  Excused:
\* after a sink that could not write its receipt, or a request that the daemon
\* applies after the provider gave it up, an old receipt may confirm a new request.
ConfirmedComesTrue == <>[](confirmed /\ ~excused) => <>[]Runs(files)
=============================================================================
