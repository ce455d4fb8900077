---------------------------- MODULE LinkNotices ----------------------------
(***************************************************************************)
(* The provider's notices of the transport's health: on every pass of its  *)
(* monitor loop it reads the link state file the daemon publishes to and   *)
(* decides whether the user hears of it.  The loop and the daemon share    *)
(* only that file; the helper that sends the notice may fail.              *)
(***************************************************************************)
EXTENDS Integers

CONSTANTS
  Interval,      \* LINK_NOTICE_MIN_INTERVAL, in passes of the loop
  MaxFailures    \* bound on everything that fails

ASSUME NoticeAssumption == Interval \in Nat \ {0} /\ MaxFailures \in Nat

VARIABLES
  published,  \* CH347_LINK_STATE_FILE
  seen,       \* what the loop has read and not acted upon, or "nothing"
  alert,      \* LINK_ALERT_ACTIVE
  elapsed,    \* SECONDS - LAST_DEGRADED_NOTICE_AT, up to Interval
  said,       \* the last notice the user got
  lost,       \* history: a recovery the user did not hear of since
  failures    \* failures so far

notices == <<seen, alert, elapsed, said, lost>>

States == {"checking", "healthy", "degraded"}

\* LAST_DEGRADED_NOTICE_AT starts an hour ago.
NoticesInit ==
  /\ published = "checking" /\ seen = "nothing" /\ alert = FALSE
  /\ elapsed = Interval /\ said = "nothing" /\ lost = FALSE /\ failures = 0

Spend == failures < MaxFailures /\ failures' = failures + 1

\* A pass of the loop begins; time has passed since the one before.
ReadLink ==
  /\ seen = "nothing"
  /\ seen' = published
  /\ elapsed' = IF elapsed < Interval THEN elapsed + 1 ELSE elapsed
  /\ UNCHANGED <<published, alert, said, lost, failures>>

\* Mutant of Alerted: raised before the helper has answered.
AlertedAnyway(sent) == TRUE

\* LINK_ALERT_ACTIVE after a failure notice was tried.
Alerted(sent) == sent

Announced(state) == said' = state /\ lost' = FALSE /\ UNCHANGED failures
Unsent == Spend /\ UNCHANGED said

\* A recovery is told only where a failure was, and consumed in any case.
NoticeHealthy ==
  /\ seen = "healthy" /\ seen' = "nothing"
  /\ \/ alert /\ Announced("healthy")
     \/ alert /\ Unsent /\ lost' = TRUE
     \/ ~alert /\ UNCHANGED <<said, lost, failures>>
  /\ alert' = FALSE
  /\ UNCHANGED <<published, elapsed>>

NoticeDegraded ==
  /\ seen = "degraded" /\ seen' = "nothing"
  /\ ~alert /\ elapsed >= Interval
  /\ elapsed' = 0
  /\ \/ alert' = Alerted(TRUE) /\ Announced("degraded")
     \/ alert' = Alerted(FALSE) /\ Unsent /\ UNCHANGED lost
  /\ UNCHANGED published

NoticeNothing ==
  /\ \/ seen = "checking"
     \/ seen = "degraded" /\ (alert \/ elapsed < Interval)
  /\ seen' = "nothing"
  /\ UNCHANGED <<published, alert, elapsed, said, lost, failures>>

Observe == ReadLink \/ NoticeHealthy \/ NoticeDegraded \/ NoticeNothing

-----------------------------------------------------------------------------
\* A link that stays down is the last thing the user was told of, however
\* often it came and went and whatever notices were late or failed; one that
\* stays up is not believed down, unless its one notice was lost.
LastNoticeIsRight ==
  /\ <>[](published = "degraded") => <>[](said = "degraded")
  /\ <>[](published = "healthy") => <>[](said # "degraded" \/ lost)
=============================================================================
