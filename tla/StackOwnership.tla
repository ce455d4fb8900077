--------------------------- MODULE StackOwnership ---------------------------
(***************************************************************************)
(* Ownership of the X11 display stack by successive provider generations.  *)
(*                                                                         *)
(* Core starts one provider process (msys_ch347_x11_provider.sh) per       *)
(* generation.  A provider claims the owner file, stops whatever the pid   *)
(* file lists, launches a detached daemon (ch347_dirty_usb_x11_daemon.sh), *)
(* announces the display and monitors it; its EXIT trap stops the stack it *)
(* owns.  The daemon starts Xorg and then keeps a capture/sink stream      *)
(* alive.  All of them meet only in files of the run directory and in the  *)
(* signals the stop script sends to the pids it reads there.               *)
(*                                                                         *)
(* One action is one command on shared state: a check of the owner file    *)
(* and what is done on the strength of it are different steps.  The        *)
(* capture/sink pair is represented by the sink.                           *)
(***************************************************************************)
EXTENDS Naturals, FiniteSets

CONSTANTS
  Gens,       \* provider generations, numbered in the order Core starts them
  NoGen,      \* content of an absent file
  Overlap,    \* may Core start a generation before its predecessor exited?
  MaxFaults   \* bound on process deaths that nobody in the model causes

ASSUME GensAssumption == Gens \subseteq Nat \ {0} /\ NoGen \notin Gens
ASSUME OverlapAssumption == Overlap \in BOOLEAN
ASSUME FaultsAssumption == MaxFaults \in Nat

VARIABLES
  owner,        \* OWNER_FILE: the token of a generation
  ready,        \* READY_FILE: the generation in the document
  session,      \* display-session.json: the generation in the document
  sessionOwner, \* display-session.json.owner
  receipt,      \* touch-affine.applied.env: MSYS_GENERATION of the sink
  pids,         \* PID_FILE: the processes listed; {} stands for no file
  alive,        \* processes that exist
  termed,       \* daemons with a SIGTERM they have not handled yet
  ppc,          \* control point of each provider
  ret,          \* where a provider's stop script returns to
  dpc,          \* control point of each daemon; kept when it is killed
  dret,         \* where a daemon's refresh_pid_file returns to
  streamed,     \* history: generations whose sink ran on their own X server
  listed,       \* history: processes that were ever written to PID_FILE
  faults        \* deaths used up so far

vars == <<owner, ready, session, sessionOwner, receipt, pids, alive, termed,
          ppc, ret, dpc, dret, streamed, listed, faults>>

files == <<owner, ready, session, sessionOwner, receipt>>
provider == <<ppc, ret>>
daemon == <<dpc, dret, streamed>>

Daemon(g)  == <<"daemon", g>>
XServer(g) == <<"xserver", g>>
Sink(g)    == <<"sink", g>>
Stack(g)   == {Daemon(g), XServer(g), Sink(g)}
Daemons    == {Daemon(g) : g \in Gens}
Sinks      == {Sink(g) : g \in Gens}
XServers   == {XServer(g) : g \in Gens}
Procs      == Daemons \cup XServers \cup Sinks

StopPoints    == {"stop_term", "stop_kill"}
CleanupPoints == {"cleanup", "cleanup_files", "drop_session", "release"}
LaunchPoints  == {"launch", "drop_pids", "detach"}
StartPoints   == {"claimed", "launched", "probe", "await", "confirm"} \cup LaunchPoints
PublishPoints == {"publish", "publish_session", "publish_ready", "confirm_ready"}
ProviderPoints == {"off", "monitor", "exited", "killed"}
                  \cup StopPoints \cup CleanupPoints \cup StartPoints \cup PublishPoints

DaemonCleanup == {"clean_stream", "clean_check", "clean_x"}
DaemonPoints  == {"off", "init", "await_x", "ensure_x", "attach",
                  "streaming", "retry", "write_pids", "gone"} \cup DaemonCleanup

\* A provider process that exists.
Active(g) == ppc[g] \notin {"off", "exited", "killed"}
Started(g) == ppc[g] # "off"

\* Some X server answers on the one DISPLAY every generation uses.
DisplayUp == \E x \in XServers : x \in alive

Init ==
  /\ owner = NoGen /\ ready = NoGen /\ session = NoGen /\ sessionOwner = NoGen
  /\ receipt = NoGen
  /\ pids = {} /\ alive = {} /\ termed = {}
  /\ ppc = [g \in Gens |-> "off"] /\ ret = [g \in Gens |-> "launch"]
  /\ dpc = [g \in Gens |-> "off"] /\ dret = [g \in Gens |-> "ensure_x"]
  /\ streamed = {} /\ listed = {} /\ faults = 0

At(g, point) == ppc[g] = point
GoTo(g, point) == ppc' = [ppc EXCEPT ![g] = point] /\ UNCHANGED ret
Call(g, back) == /\ ppc' = [ppc EXCEPT ![g] = "stop_term"]
                 /\ ret' = [ret EXCEPT ![g] = back]

\* A step that only moves a provider's control point.
OnlyProvider == UNCHANGED <<files, pids, alive, termed, daemon, listed, faults>>

-----------------------------------------------------------------------------
(* The provider: start-up.                                                 *)

\* Core starts the next generation; its first write is claim_ownership.
\* Whether Core waits for the predecessor to exit is the constant Overlap.
Claim(g) ==
  /\ At(g, "off")
  /\ \A h \in Gens : h < g => Started(h) /\ (Overlap \/ ~Active(h))
  /\ owner' = g
  /\ GoTo(g, "claimed")
  /\ UNCHANGED <<ready, session, sessionOwner, receipt, pids, alive, termed, daemon,
                 listed, faults>>

\* The predecessor's readiness and receipts go, and a pid file that is there
\* means a stack to stop first.
TakeOver(g) ==
  /\ At(g, "claimed")
  /\ ready' = NoGen /\ receipt' = NoGen
  /\ IF pids = {} THEN GoTo(g, "launch") ELSE Call(g, "launch")
  /\ UNCHANGED <<owner, session, sessionOwner, pids, alive, termed, daemon, listed, faults>>

\* The start script refuses while a listed pid lives.
CheckListed(g) ==
  /\ At(g, "launch")
  /\ pids \cap alive = {}
  /\ GoTo(g, "drop_pids")
  /\ OnlyProvider

\* Then it drops the pid file, whatever that lists by now,
DropPids(g) ==
  /\ At(g, "drop_pids")
  /\ pids' = {}
  /\ GoTo(g, "detach")
  /\ UNCHANGED <<files, alive, termed, daemon, listed, faults>>

\* and detaches the daemon.
LaunchDaemon(g) ==
  /\ At(g, "detach")
  /\ alive' = alive \cup {Daemon(g)}
  /\ dpc' = [dpc EXCEPT ![g] = "init"]
  /\ GoTo(g, "launched")
  /\ UNCHANGED <<files, pids, termed, dret, streamed, listed, faults>>

\* The start script returns 2 s later, when the daemon has long run its first
\* command, and checks that it is still there.
CheckLaunched(g) ==
  /\ At(g, "launched")
  /\ Daemon(g) \in alive => dpc[g] # "init"
  /\ GoTo(g, IF Daemon(g) \in alive THEN "probe" ELSE "cleanup")
  /\ OnlyProvider

ProbeDisplay(g) ==
  /\ At(g, "probe")
  /\ DisplayUp
  /\ GoTo(g, "await")
  /\ OnlyProvider

\* Mutant of ReceiptMatches: any generation's receipt will do.
ReceiptOfAnybody(g) == receipt \in Gens

\* touch_affine_receipt_matches: the receipt must carry this generation.
ReceiptMatches(g) == receipt = g

AwaitReceipt(g) ==
  /\ At(g, "await")
  /\ ReceiptMatches(g)
  /\ GoTo(g, "confirm")
  /\ OnlyProvider

\* The check of `superseded` that guards publish_display_state.
ConfirmOwner(g) ==
  /\ At(g, "confirm")
  /\ GoTo(g, IF owner = g THEN "publish" ELSE "cleanup")
  /\ OnlyProvider

\* A config is invalid, the start script refuses, the display or the receipt
\* does not come in time: the provider exits through its EXIT trap.
GiveUp(g) ==
  /\ ppc[g] \in {"launch", "probe", "await"}
  /\ GoTo(g, "cleanup")
  /\ OnlyProvider

-----------------------------------------------------------------------------
(* The provider: publish_display_state and the monitor loop.               *)

PublishOwner(g) ==
  /\ At(g, "publish")
  /\ sessionOwner' = g
  /\ GoTo(g, "publish_session")
  /\ UNCHANGED <<owner, ready, session, receipt, pids, alive, termed, daemon, listed, faults>>

PublishSession(g) ==
  /\ At(g, "publish_session")
  /\ session' = g
  /\ GoTo(g, "publish_ready")
  /\ UNCHANGED <<owner, ready, sessionOwner, receipt, pids, alive, termed, daemon, listed,
                 faults>>

PublishReady(g) ==
  /\ At(g, "publish_ready")
  /\ ready' = g
  /\ GoTo(g, "confirm_ready")
  /\ UNCHANGED <<owner, session, sessionOwner, receipt, pids, alive, termed, daemon, listed,
                 faults>>

ConfirmPublished(g) ==
  /\ At(g, "confirm_ready")
  /\ GoTo(g, IF owner = g THEN "monitor" ELSE "cleanup")
  /\ OnlyProvider

\* Mutant of MonitorSuperseded: the loop only looks while the display is down.
MonitorSupersededLate(g) ==
  /\ At(g, "monitor")
  /\ owner # g /\ ~DisplayUp
  /\ GoTo(g, "cleanup")
  /\ OnlyProvider

MonitorSuperseded(g) ==
  /\ At(g, "monitor")
  /\ owner # g
  /\ GoTo(g, "cleanup")
  /\ OnlyProvider

\* The pid file stays away, no listed pid lives, or the display stays down.
MonitorLost(g) ==
  /\ At(g, "monitor")
  /\ pids \cap alive = {} \/ ~DisplayUp
  /\ GoTo(g, "cleanup")
  /\ OnlyProvider

\* The geometry or the input mode changed while this generation was the owner.
MonitorRepublish(g) ==
  /\ At(g, "monitor")
  /\ owner = g /\ DisplayUp
  /\ GoTo(g, "publish")
  /\ OnlyProvider

-----------------------------------------------------------------------------
(* The stop script, run at start-up and in the EXIT trap.                  *)

\* SIGTERM to every listed process, and pkill of every sink whoever started it.
\* A daemon handles the signal when its current command ends; the others die.
StopTerm(g) ==
  /\ At(g, "stop_term")
  /\ termed' = termed \cup (pids \cap alive \cap Daemons)
  /\ alive' = alive \ ((pids \ Daemons) \cup Sinks)
  /\ GoTo(g, "stop_kill")
  /\ UNCHANGED <<files, pids, daemon, listed, faults>>

\* Mutant of StopKill: no second pass, a daemon slow to handle SIGTERM survives.
StopWithoutKill(g) ==
  /\ At(g, "stop_kill")
  /\ pids' = {}
  /\ GoTo(g, ret[g])
  /\ UNCHANGED <<files, alive, termed, daemon, listed, faults>>

\* A second later the pid file is read again: what it lists now is killed -9,
\* and the file is removed.
StopKill(g) ==
  /\ At(g, "stop_kill")
  /\ alive' = alive \ pids
  /\ pids' = {}
  /\ GoTo(g, ret[g])
  /\ UNCHANGED <<files, termed, daemon, listed, faults>>

-----------------------------------------------------------------------------
(* The provider: the EXIT trap, and what Core does to a provider.          *)

\* Mutant of Cleanup: the token is given back before the stack is stopped.
CleanupReleasesFirst(g) ==
  /\ At(g, "cleanup")
  /\ IF owner = g
     THEN Call(g, "cleanup_files") /\ owner' = NoGen
     ELSE GoTo(g, "exited") /\ UNCHANGED owner
  /\ UNCHANGED <<ready, session, sessionOwner, receipt, pids, alive, termed, daemon,
                 listed, faults>>

Cleanup(g) ==
  /\ At(g, "cleanup")
  /\ IF owner = g THEN Call(g, "cleanup_files") ELSE GoTo(g, "exited")
  /\ OnlyProvider

\* owns_session_state.
CleanupSession(g) ==
  /\ At(g, "cleanup_files")
  /\ GoTo(g, IF sessionOwner = g THEN "drop_session" ELSE "release")
  /\ OnlyProvider

\* Mutant of DropSession: display-session.json is forgotten.
DropSessionOwnerOnly(g) ==
  /\ At(g, "drop_session")
  /\ sessionOwner' = NoGen
  /\ GoTo(g, "release")
  /\ UNCHANGED <<owner, ready, session, receipt, pids, alive, termed, daemon, listed, faults>>

DropSession(g) ==
  /\ At(g, "drop_session")
  /\ session' = NoGen /\ sessionOwner' = NoGen
  /\ GoTo(g, "release")
  /\ UNCHANGED <<owner, ready, receipt, pids, alive, termed, daemon, listed, faults>>

\* READY, the token and the receipts go in one command.
ReleaseFiles(g) ==
  /\ At(g, "release")
  /\ ready' = NoGen /\ owner' = NoGen /\ receipt' = NoGen
  /\ GoTo(g, "exited")
  /\ UNCHANGED <<session, sessionOwner, pids, alive, termed, daemon, listed, faults>>

\* SIGTERM from Core; Bash runs the trap between two commands, never inside
\* the start or the stop script.
CoreTerm(g) ==
  /\ ppc[g] \in {"claimed", "launch", "probe", "await", "confirm", "monitor"}
                 \cup PublishPoints
  /\ GoTo(g, "cleanup")
  /\ OnlyProvider

\* SIGTERM while the EXIT trap is at work: CLEANED is set, so handle_term does
\* nothing but exit, and the rest of the trap is lost.
CoreTermInCleanup(g) ==
  /\ ppc[g] \in CleanupPoints
  /\ GoTo(g, "killed")
  /\ OnlyProvider

\* The provider is killed outright while no script of it runs.
ProviderKilled(g) ==
  /\ ppc[g] \in {"probe", "await", "confirm", "monitor"} \cup PublishPoints
  /\ faults < MaxFaults
  /\ faults' = faults + 1
  /\ GoTo(g, "killed")
  /\ UNCHANGED <<files, pids, alive, termed, daemon, listed>>

-----------------------------------------------------------------------------
(* The daemon.                                                             *)

\* Bash runs a pending SIGTERM's trap before its next command.
DAt(g, point) == Daemon(g) \in alive \ termed /\ dpc[g] = point
DGoTo(g, point) == dpc' = [dpc EXCEPT ![g] = point] /\ UNCHANGED <<dret, streamed>>

InCleanup(g) ==
  \/ dpc[g] \in DaemonCleanup \ {"clean_stream"}
  \/ dpc[g] = "write_pids" /\ dret[g] = "clean_check"

\* Mutant of Boot: $PPID, the process that detached the daemon, is listed.
BootListsParent(g) ==
  /\ DAt(g, "init")
  /\ pids' = {<<"parent", g>>}
  /\ listed' = listed \cup pids'
  /\ alive' = IF DisplayUp THEN alive ELSE alive \cup {XServer(g)}
  /\ DGoTo(g, "await_x")
  /\ UNCHANGED <<files, termed, provider, faults>>

\* echo $$ > PID_FILE, the one write to it that does not look at the owner; then
\* Xorg, which exits at once when the display is taken and is not in the pid file
\* before start_x_stack ends.
Boot(g) ==
  /\ DAt(g, "init")
  /\ pids' = {Daemon(g)}
  /\ listed' = listed \cup {Daemon(g)}
  /\ alive' = IF DisplayUp THEN alive ELSE alive \cup {XServer(g)}
  /\ DGoTo(g, "await_x")
  /\ UNCHANGED <<files, termed, provider, faults>>

\* refresh_pid_file: the owner check is one step, the write another.
Refresh(g, back) ==
  /\ IF owner = g
     THEN /\ dpc' = [dpc EXCEPT ![g] = "write_pids"]
          /\ dret' = [dret EXCEPT ![g] = back]
     ELSE /\ dpc' = [dpc EXCEPT ![g] = back]
          /\ UNCHANGED dret
  /\ UNCHANGED streamed

\* The rest of start_x_stack: a display that answers lets the start-up go on
\* to refresh_pid_file, one that does not ends the daemon (set -e).
AwaitX(g) ==
  /\ DAt(g, "await_x")
  /\ \/ DisplayUp /\ Refresh(g, "ensure_x")
     \/ DGoTo(g, "clean_stream")
  /\ UNCHANGED <<files, pids, alive, termed, provider, listed, faults>>

\* The rename is a child process: it completes although a SIGTERM is pending.
WritePids(g) ==
  /\ Daemon(g) \in alive /\ dpc[g] = "write_pids"
  /\ pids' = Stack(g) \cap alive
  /\ listed' = listed \cup pids'
  /\ DGoTo(g, dret[g])
  /\ UNCHANGED <<files, alive, termed, provider, faults>>

\* ensure_x_stack: only this daemon's own server counts, and losing it, or
\* three failed probes of it, is fatal.
EnsureX(g) ==
  /\ DAt(g, "ensure_x")
  /\ \/ XServer(g) \in alive /\ DGoTo(g, "attach")
     \/ DGoTo(g, "clean_stream")
  /\ UNCHANGED <<files, pids, alive, termed, provider, listed, faults>>

\* The link settles and the stream starts, or run_stream_once returns 1.
Attach(g) ==
  /\ DAt(g, "attach")
  /\ \/ /\ alive' = alive \cup {Sink(g)}
        /\ streamed' = streamed \cup {g}
        /\ IF owner = g
           THEN dpc' = [dpc EXCEPT ![g] = "write_pids"]
                /\ dret' = [dret EXCEPT ![g] = "streaming"]
           ELSE dpc' = [dpc EXCEPT ![g] = "streaming"] /\ UNCHANGED dret
     \/ DGoTo(g, "retry") /\ UNCHANGED alive
  /\ UNCHANGED <<files, pids, termed, provider, listed, faults>>

\* The sink writes the touch receipt of its generation when it starts.
SinkReceipt(g) ==
  /\ Sink(g) \in alive
  /\ receipt # g
  /\ receipt' = g
  /\ UNCHANGED <<owner, ready, session, sessionOwner, pids, alive, termed, provider, daemon,
                 listed, faults>>

StreamEnds(g) ==
  /\ DAt(g, "streaming")
  /\ Sink(g) \notin alive
  /\ Refresh(g, "retry")
  /\ UNCHANGED <<files, pids, alive, termed, provider, listed, faults>>

\* A stopped stack has no pid file any more: the daemon leaves.
Retry(g) ==
  /\ DAt(g, "retry")
  /\ DGoTo(g, IF pids = {} THEN "clean_stream" ELSE "ensure_x")
  /\ UNCHANGED <<files, pids, alive, termed, provider, listed, faults>>

\* handle_term of the daemon.  Inside cleanup, which runs once, it exits and
\* leaves the rest of the cleanup undone.
DaemonTerm(g) ==
  /\ Daemon(g) \in alive \cap termed
  /\ termed' = termed \ {Daemon(g)}
  /\ IF InCleanup(g)
     THEN DGoTo(g, "gone") /\ alive' = alive \ {Daemon(g)}
     ELSE DGoTo(g, "clean_stream") /\ UNCHANGED alive
  /\ UNCHANGED <<files, pids, provider, listed, faults>>

CleanStream(g) ==
  /\ DAt(g, "clean_stream")
  /\ alive' = alive \ {Sink(g)}
  /\ Refresh(g, "clean_check")
  /\ UNCHANGED <<files, pids, termed, provider, listed, faults>>

\* Only the owner goes on to stop X; a superseded daemon just exits.
CleanCheck(g) ==
  /\ DAt(g, "clean_check")
  /\ IF owner = g
     THEN DGoTo(g, "clean_x") /\ UNCHANGED alive
     ELSE DGoTo(g, "gone") /\ alive' = alive \ {Daemon(g)}
  /\ UNCHANGED <<files, pids, termed, provider, listed, faults>>

\* Mutant of CleanX: the cleanup forgets the X server.
CleanKeepsX(g) ==
  /\ DAt(g, "clean_x")
  /\ alive' = alive \ {Daemon(g)}
  /\ pids' = {}
  /\ DGoTo(g, "gone")
  /\ UNCHANGED <<files, termed, provider, listed, faults>>

CleanX(g) ==
  /\ DAt(g, "clean_x")
  /\ alive' = alive \ {XServer(g), Daemon(g)}
  /\ pids' = {}
  /\ DGoTo(g, "gone")
  /\ UNCHANGED <<files, termed, provider, listed, faults>>

\* An X server or a sink dies by itself.
ProcessDies(p) ==
  /\ p \in alive \cap (XServers \cup Sinks)
  /\ faults < MaxFaults
  /\ faults' = faults + 1
  /\ alive' = alive \ {p}
  /\ UNCHANGED <<files, pids, termed, provider, daemon, listed>>

-----------------------------------------------------------------------------
StopStep(g) == StopTerm(g) \/ StopKill(g)

CleanupStep(g) == Cleanup(g) \/ CleanupSession(g) \/ DropSession(g) \/ ReleaseFiles(g)

ProviderStep(g) ==
  \/ TakeOver(g)
  \/ CheckListed(g) \/ DropPids(g) \/ LaunchDaemon(g) \/ CheckLaunched(g)
  \/ ProbeDisplay(g) \/ AwaitReceipt(g) \/ ConfirmOwner(g) \/ GiveUp(g)
  \/ PublishOwner(g) \/ PublishSession(g) \/ PublishReady(g) \/ ConfirmPublished(g)
  \/ MonitorSuperseded(g) \/ MonitorLost(g) \/ MonitorRepublish(g)
  \/ StopStep(g) \/ CleanupStep(g)

DaemonStep(g) ==
  \/ Boot(g) \/ AwaitX(g) \/ WritePids(g) \/ EnsureX(g)
  \/ Attach(g) \/ SinkReceipt(g) \/ StreamEnds(g) \/ Retry(g) \/ DaemonTerm(g)
  \/ CleanStream(g) \/ CleanCheck(g) \/ CleanX(g)

Environment ==
  \/ \E g \in Gens : Claim(g) \/ CoreTerm(g) \/ CoreTermInCleanup(g)
                     \/ ProviderKilled(g)
  \/ \E p \in Procs : ProcessDies(p)

Next == (\E g \in Gens : ProviderStep(g) \/ DaemonStep(g)) \/ Environment

Spec == Init /\ [][Next]_vars

\* The kernel keeps scheduling a provider, every wait of which is bounded, and a
\* freshly started daemon.  Core, the faults and the daemon's stream, which may
\* wait for hardware for ever, are under no obligation.
Fairness == \A g \in Gens : WF_vars(ProviderStep(g)) /\ WF_vars(Boot(g))

FairSpec == Spec /\ Fairness

-----------------------------------------------------------------------------
TypeOK ==
  /\ owner \in Gens \cup {NoGen} /\ ready \in Gens \cup {NoGen}
  /\ session \in Gens \cup {NoGen} /\ sessionOwner \in Gens \cup {NoGen}
  /\ receipt \in Gens \cup {NoGen}
  /\ pids \subseteq Procs /\ alive \subseteq Procs /\ termed \subseteq Daemons
  /\ listed \subseteq Procs /\ streamed \subseteq Gens
  /\ ppc \in [Gens -> ProviderPoints] /\ ret \in [Gens -> {"launch", "cleanup_files"}]
  /\ dpc \in [Gens -> DaemonPoints]
  /\ dret \in [Gens -> {"ensure_x", "streaming", "retry", "clean_check"}]
  /\ faults \in 0 .. MaxFaults

\* A consumer that sees READY or display-session.json of a generation can rely
\* on that generation's own sink having run on that generation's own X server:
\* a predecessor's server that still answers on the display, or a predecessor's
\* receipt, is never announced as the new generation's.
ReadyOnlyAfterOwnStream ==
  {ready, session} \cap Gens \subseteq streamed

\* A provider that finds it was superseded leaves (exit 0 in every loop).
SupersededLeaves ==
  \A g \in Gens : (Active(g) /\ owner # g) ~> (~Active(g) \/ owner = g)

(* What holds when Core runs one provider at a time (~Overlap).            *)

\* A provider that has launched its daemon and runs the stack.
Serving(g) == ppc[g] \in {"launched", "probe", "await", "confirm", "monitor"} \cup PublishPoints

\* Taking over ends every older daemon and sink and withdraws what READY says of
\* them, although daemons outlive their provider and handle SIGTERM late, and a
\* provider may have left its EXIT trap half done: from the launch on no rival can
\* touch the pid file, the receipt or the panel.
NoRivalStack ==
  \A g, h \in Gens :
    Serving(g) /\ h < g => {Daemon(h), Sink(h)} \cap alive = {} /\ ready # h

\* A provider that ran its EXIT trap to the end leaves nothing of its
\* generation: no daemon, no sink, no pid file, no token and no announcement.
CleanExit ==
  \A g \in Gens :
    At(g, "exited") => /\ {Daemon(g), Sink(g)} \cap alive = {}
                       /\ g \notin {owner, ready, session, sessionOwner, receipt}
                       /\ pids \cap Stack(g) = {}

\* An X server that was once listed in the pid file is never left behind: when
\* its daemon is gone the server is gone too, or the stop script that is running
\* still has it on its list.
ListedServersAreStopped ==
  \A g \in Gens :
    /\ XServer(g) \in alive \cap listed
    /\ Daemon(g) \notin alive
    => XServer(g) \in pids

(* What the repository says of overlapping generations and the code does   *)
(* not keep: a check of the owner file is not atomic with what follows it. *)

\* README: "A delayed cleanup from an older `msysd` generation can stop only its
\* own processes".  No command of the stop script in the cleanup of one generation
\* ends a process of the generation that owns the stack.
StopSparesTheOwner ==
  [][\A g \in Gens : StopStep(g) /\ ret[g] = "cleanup_files" /\ owner \in Gens \ {g}
                      => Stack(owner) \cap alive \subseteq alive']_vars

(* With one provider at a time the owner file is a lease.                  *)
Tenure(g) == CASE ~Started(g) -> "waiting" [] Active(g) -> "holding" [] OTHER -> "ended"

Lease == INSTANCE StackLease WITH
  tenure <- [g \in Gens |-> Tenure(g)],
  token <- owner,
  announced <- IF ready = owner THEN ready ELSE NoGen

\* Every step of the providers, the daemons and the stop script is a step of the
\* lease or leaves it alone: the token names the one generation that runs, from
\* its claim until the last command of its EXIT trap, and only that generation
\* announces READY.
LeaseSpec == Lease!Spec
=============================================================================
