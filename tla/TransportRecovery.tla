------------------------- MODULE TransportRecovery -------------------------
(***************************************************************************)
(* How the daemon brings the panel back after the CH347 adapter was lost:  *)
(* run_stream_once waits for the adapter at 480M, arms it, waits again,    *)
(* takes it from its driver and starts the sink; the loop around it does   *)
(* this again whenever the stream ends.  The provider's notices run beside *)
(* it.  The settings are those of production: restarts without a limit and *)
(* an unbounded stream.  The daemon keeps the stack and its X server runs; *)
(* what happens otherwise is in StackOwnership.                            *)
(*                                                                         *)
(* The adapter (external) sits in a port, at one of two speeds, with or    *)
(* without a driver.  A loose connector makes it enumerate at 12M, where   *)
(* it stays when the connector is pushed in again, until it is reset.      *)
(***************************************************************************)
EXTENDS LinkNotices

CONSTANTS
  Ports, NoPort,  \* where the adapter can be
  Tries,          \* CH347_WAIT_SEC * 4
  ResetAfter      \* 4, looks at the wrong speed in a row

ASSUME WaitAssumption == {Tries, ResetAfter} \subseteq Nat \ {0} /\ ResetAfter <= Tries
ASSUME PortAssumption == NoPort \notin Ports

VARIABLES
  port, speed, bound, loose,  \* the adapter, its driver and its connector
  at,                         \* where the daemon is
  sys,                        \* USB_SYS and IFACE_ID
  tries, wrong, tried,        \* looks left, wrong_speed_checks, reset_attempted
  current,                    \* does the address the daemon has read still hold?
  held                        \* the sink has the adapter

adapter == <<port, speed, bound, loose>>
progress == <<at, sys, tries, wrong, tried>>
transport == <<published, notices, failures, adapter, progress, current, held>>

Here == port # NoPort /\ sys = port

TransportInit ==
  /\ NoticesInit
  /\ port \in Ports \cup {NoPort} /\ speed \in {"12M", "480M"} /\ bound \in BOOLEAN
  /\ port = NoPort => ~bound
  /\ loose = FALSE
  /\ at = "discover" /\ sys \in Ports
  /\ tries = Tries /\ wrong = 0 /\ tried = FALSE
  /\ current = FALSE /\ held = FALSE

-----------------------------------------------------------------------------
(* The adapter.                                                            *)

\* It gets a new address; the driver probes it, or is not quick enough.
Enumerate(p) ==
  /\ port' = p
  /\ IF loose' THEN speed' \in {"12M", "480M"} ELSE speed' = "480M"
  /\ bound' \in BOOLEAN
  /\ current' = FALSE /\ held' = FALSE

Undisturbed == UNCHANGED <<published, notices, progress>>

Unplug ==
  /\ port # NoPort /\ Spend
  /\ port' = NoPort /\ bound' = FALSE /\ current' = FALSE /\ held' = FALSE
  /\ UNCHANGED <<speed, loose>> /\ Undisturbed

PlugIn ==
  /\ port = NoPort
  /\ UNCHANGED <<loose, failures>> /\ Undisturbed
  /\ \E p \in Ports : Enumerate(p)

Loosen ==
  /\ port # NoPort /\ ~loose /\ Spend
  /\ loose' = TRUE
  /\ Enumerate(port)
  /\ Undisturbed

Seat == loose /\ loose' = FALSE /\ UNCHANGED <<port, speed, bound, current, held, failures>> /\ Undisturbed

-----------------------------------------------------------------------------
(* wait_ch347_bound.                                                       *)

Aside == UNCHANGED <<notices, failures>>

\* Mutant of WaitBegins: reset_attempted is not local to the call.
WaitBeginsTried == tries' = Tries /\ wrong' = 0 /\ UNCHANGED tried

WaitBegins == tries' = Tries /\ wrong' = 0 /\ tried' = FALSE

\* Mutant of Discovered: the adapter is looked for once.
DiscoveredOnce == sys

\* discover_ch347: nothing found leaves what was known.
Discovered == IF port = NoPort THEN sys ELSE port

\* The first or the second wait of a run is at its next look.
Discover ==
  /\ at \in {"discover", "discover_again"}
  /\ at' = IF at = "discover" THEN "look" ELSE "look_again"
  /\ sys' = Discovered
  /\ \/ bound' = (port # NoPort /\ (bound \/ sys' = port)) /\ UNCHANGED failures
     \/ ~bound /\ sys' = port /\ Spend /\ UNCHANGED bound
  /\ UNCHANGED <<published, notices, port, speed, loose, tries, wrong, tried, current, held>>

First == at = "look"
Settled == Here /\ bound /\ speed = "480M"
WrongSpeed == Here /\ bound /\ speed = "12M"

\* Bound at 480M.
LookSettled ==
  /\ at \in {"look", "look_again"} /\ Settled
  /\ published' = "healthy"
  /\ at' = IF First THEN "arm" ELSE "launch"
  /\ UNCHANGED <<sys, tries, wrong, tried, adapter, current, held>> /\ Aside

\* The look found something else; the last one ends the wait.
LookAgain ==
  IF tries > 1
    THEN tries' = tries - 1 /\ UNCHANGED published
         /\ at' = IF First THEN "discover" ELSE "discover_again"
    ELSE published' = "degraded" /\ at' = "delay" /\ UNCHANGED tries

Count(n) == wrong' = n /\ UNCHANGED <<sys, adapter, current, held, notices>>

\* Not there, or not bound; lsusb starts the count again only where it went
\* after the device node was seen.
LookUnbound ==
  /\ at \in {"look", "look_again"} /\ ~(Here /\ bound)
  /\ \E n \in {0, wrong} : Count(n)
  /\ LookAgain /\ UNCHANGED <<tried, failures>>

LookWrong ==
  /\ at \in {"look", "look_again"} /\ WrongSpeed
  /\ wrong + 1 < ResetAfter \/ tried
  /\ Count(IF wrong < ResetAfter THEN wrong + 1 ELSE wrong)
  /\ LookAgain /\ UNCHANGED <<tried, failures>>

\* The reset is tried: by ioctl or by authorization, or neither works.
LookReset ==
  /\ at \in {"look", "look_again"} /\ WrongSpeed
  /\ wrong + 1 >= ResetAfter /\ ~tried
  /\ tried' = TRUE /\ wrong' = 0
  /\ \/ UNCHANGED <<loose, failures>> /\ Enumerate(port)
     \/ Spend /\ UNCHANGED <<adapter, current, held>>
  /\ LookAgain /\ UNCHANGED <<sys, notices>>

Wait == Discover \/ LookSettled \/ LookUnbound \/ LookWrong \/ LookReset

-----------------------------------------------------------------------------
(* run_stream_once and the loop around it.                                 *)

Goes(point) == at' = point /\ UNCHANGED <<published, notices, sys>>
Kept == UNCHANGED <<tries, wrong, tried>>

Arm ==
  /\ at = "arm" /\ Goes("discover_again")
  /\ WaitBegins
  /\ UNCHANGED <<adapter, current, held, failures>>

ArmFails ==
  /\ at = "arm" /\ Spend /\ Goes("delay")
  /\ Kept /\ UNCHANGED <<adapter, current, held>>

\* The address is read from sysfs, where the adapter may no longer be.
ReadAddress ==
  /\ at = "launch" /\ Goes("start")
  /\ current' = Here
  /\ Kept /\ UNCHANGED <<adapter, held, failures>>

\* Mutant of StartSink: the driver keeps the interface.
StartSinkBeside ==
  /\ at = "start" /\ Goes("stream")
  /\ held' = current
  /\ Kept /\ UNCHANGED <<adapter, current, failures>>

\* The driver lets go of the interface and the sink opens the address.
StartSink ==
  /\ at = "start" /\ Goes("stream")
  /\ bound' = (bound /\ ~Here)
  /\ held' = current
  /\ Kept /\ UNCHANGED <<port, speed, loose, current, failures>>

\* The sink fails, or the capture does.
StreamFails ==
  /\ at = "stream" /\ held /\ Spend
  /\ held' = FALSE /\ Goes("ended")
  /\ Kept /\ UNCHANGED <<adapter, current>>

\* The sink has no adapter, or no longer has.
StreamStops ==
  /\ at = "stream" /\ ~held /\ Goes("ended")
  /\ Kept /\ UNCHANGED <<adapter, current, held, failures>>

\* The interface goes back to its driver, if it is still where it was.
GiveBack ==
  /\ at = "ended" /\ Goes("delay")
  /\ \/ bound' = (bound \/ Here) /\ UNCHANGED failures
     \/ ~bound /\ Here /\ Spend /\ UNCHANGED bound
  /\ Kept /\ UNCHANGED <<port, speed, loose, current, held>>

\* restart_sleep, and the next run's first wait.
RunAgain ==
  /\ at = "delay" /\ Goes("discover")
  /\ WaitBegins
  /\ UNCHANGED <<adapter, current, held, failures>>

Run == Arm \/ ArmFails \/ ReadAddress \/ StartSink \/ StreamStops \/ GiveBack \/ RunAgain

Monitor == Observe /\ UNCHANGED <<adapter, progress, current, held>>

TransportNext == Unplug \/ PlugIn \/ Loosen \/ Seat \/ StreamFails \/ Wait \/ Run \/ Monitor

\* The two scripts go on; nothing is asked of the adapter.
TransportSpec ==
  /\ TransportInit /\ [][TransportNext]_transport
  /\ WF_transport(Wait) /\ WF_transport(Run) /\ WF_transport(Monitor)

-----------------------------------------------------------------------------
(* Properties.                                                             *)

\* Wherever the adapter goes between the daemon's looks, a sink never has an
\* adapter that its driver has too, that is gone, or that was announced as lost.
SinkHasItAlone == held => port # NoPort /\ ~bound /\ published = "healthy"

\* Once the adapter stays plugged in and firmly seated, in whatever port and
\* at whatever speed, the panel is fed again and stays so.
PanelComesBack == <>[](port # NoPort /\ ~loose) => <>[]held
=============================================================================
