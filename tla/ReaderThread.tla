---------------------------- MODULE ReaderThread ----------------------------
(***************************************************************************)
(* The sink fed from a pipe with CH347_LATEST_ONLY: a thread reads frames  *)
(* into one buffer while main shows the other, and swaps them under a      *)
(* lock; main sleeps on a condition, with a deadline if the touch panel or *)
(* the overlay has to be looked at meanwhile.                              *)
(*                                                                         *)
(* The thread touches what it shares only inside the lock, so its critical *)
(* sections are single steps; main's copies are taken apart, because the   *)
(* thread fills its own buffer meanwhile.  CH347_REPEAT is off.            *)
(***************************************************************************)
EXTENDS Naturals

CONSTANTS Parts,      \* pieces of a frame that one read or the copy moves
          MaxFrames,  \* bound: frames in the input
          MaxPasses   \* the limit of a sink that has one

ASSUME ReaderAssumption == MaxFrames \in Nat \ {0} /\ MaxPasses \in Nat \ {0} /\ Parts # {}

VARIABLES
  lock,         \* "free", "main": the thread holds it within one step
  signal,       \* the condition was signalled while main slept on it
  latest, tmp,  \* which buffer is which
  bufs,         \* the two buffers, each part with the number of its frame
  seq,          \* reader.seq
  eof, error, stop,
  rpc, got,     \* the thread: "none", "read", "done"; the parts read so far
  mpc,          \* main: "start", "top", "asleep", "woken", "look", "copy", "idle", "recopy",
                \* "pass", "ended", "failed"
  copied,       \* parts copied so far
  frame,        \* frame
  consumed,     \* consumed_seq
  expired,      \* poll_wakeup
  floor, taken, \* history: seq when main last locked; the frame last handed to a pass
  limit,        \* max_frames, 0 for none
  passes        \* frames, counted up to the limit

shared == <<latest, tmp, bufs, seq, eof, error, stop>>
thread == <<rpc, got>>
main == <<mpc, copied, frame, consumed, expired, floor, taken, limit, passes>>
vars == <<lock, signal, shared, thread, main>>

Whole(n) == [p \in Parts |-> n]

Init ==
  /\ lock = "free" /\ signal = FALSE
  /\ latest = 1 /\ tmp = 2 /\ bufs = [b \in {1, 2} |-> Whole(0)] /\ seq = 0
  /\ eof = FALSE /\ error = FALSE /\ stop = FALSE
  /\ rpc = "none" /\ got = {}
  /\ mpc = "start" /\ copied = {} /\ frame = Whole(0) /\ consumed = 0 /\ expired = FALSE
  /\ floor = 0 /\ taken = 0 /\ limit \in {0, MaxPasses} /\ passes = 0

\* main reads the first frame itself, which tells it the protocol, and then creates
\* the thread.
FirstFrame ==
  /\ mpc = "start"
  /\ bufs' = [b \in {1, 2} |-> Whole(1)] /\ seq' = 1
  /\ mpc' = "top" /\ rpc' = "read"
  /\ UNCHANGED <<lock, signal, latest, tmp, eof, error, stop, got, copied, frame, consumed,
                 expired, floor, taken, limit, passes>>

\* The input ends first, or pthread_create fails.
NoFirstFrame ==
  /\ mpc = "start" /\ mpc' = "failed"
  /\ UNCHANGED <<lock, signal, shared, thread, copied, frame, consumed, expired, floor, taken,
                 limit, passes>>

-----------------------------------------------------------------------------
(* The thread.                                                             *)

Signal == signal' = (mpc = "asleep" \/ signal)

ReadPart ==
  /\ rpc = "read" /\ seq < MaxFrames
  /\ \E p \in Parts \ got :
       /\ got' = got \cup {p}
       /\ bufs' = [bufs EXCEPT ![tmp][p] = seq + 1]
  /\ UNCHANGED <<lock, signal, latest, tmp, seq, eof, error, stop, rpc, main>>

\* Mutant of Swap: the thread goes on in the buffer it has just published.
SwapForgotten == latest' = tmp /\ UNCHANGED tmp

Swap == latest' = tmp /\ tmp' = latest

Publish ==
  /\ rpc = "read" /\ got = Parts /\ lock = "free" /\ ~stop
  /\ Swap /\ seq' = seq + 1 /\ Signal
  /\ got' = {}
  /\ UNCHANGED <<lock, bufs, eof, error, stop, rpc, main>>

Stopped ==
  /\ rpc = "read" /\ got = Parts /\ lock = "free" /\ stop
  /\ rpc' = "done"
  /\ UNCHANGED <<lock, signal, shared, got, main>>

\* Mutant of EndOfInput: nobody is told.
EndOfInputUnheard ==
  /\ rpc = "read" /\ got = {} /\ lock = "free"
  /\ eof' = TRUE /\ UNCHANGED signal /\ rpc' = "done"
  /\ UNCHANGED <<lock, latest, tmp, bufs, seq, error, stop, got, main>>

EndOfInput ==
  /\ rpc = "read" /\ got = {} /\ lock = "free"
  /\ eof' = TRUE /\ Signal /\ rpc' = "done"
  /\ UNCHANGED <<lock, latest, tmp, bufs, seq, error, stop, got, main>>

\* An error, or the end in the middle of a frame.
ReadError ==
  /\ rpc = "read" /\ got # Parts /\ lock = "free"
  /\ error' = TRUE /\ Signal /\ rpc' = "done"
  /\ UNCHANGED <<lock, latest, tmp, bufs, seq, eof, stop, got, main>>

-----------------------------------------------------------------------------
(* main.                                                                   *)

Lock(from, to) ==
  /\ mpc = from /\ lock = "free"
  /\ lock' = "main" /\ floor' = seq /\ mpc' = to
  /\ UNCHANGED <<signal, shared, thread, copied, frame, consumed, taken, limit, passes>>

Begin == Lock("top", "look") /\ expired' = FALSE

\* pthread_cond_wait takes the lock again.
Relock == Lock("woken", "look") /\ UNCHANGED expired

Sleep ==
  /\ mpc = "look" /\ seq = consumed /\ ~eof /\ ~error /\ ~expired
  /\ mpc' = "asleep" /\ lock' = "free" /\ signal' = FALSE
  /\ UNCHANGED <<shared, thread, copied, frame, consumed, expired, floor, taken, limit, passes>>

Wake ==
  /\ mpc = "asleep" /\ signal
  /\ mpc' = "woken" /\ signal' = FALSE
  /\ UNCHANGED <<lock, shared, thread, copied, frame, consumed, expired, floor, taken, limit, passes>>

\* idle_wake_interval_ms is over.
Expire ==
  /\ mpc = "asleep"
  /\ mpc' = "woken" /\ expired' = TRUE /\ signal' = FALSE
  /\ UNCHANGED <<lock, shared, thread, copied, frame, consumed, floor, taken, limit, passes>>

\* out: the thread is told to stop; nobody waits for it.
Leave(how) ==
  /\ mpc' = how /\ lock' = "free" /\ eof' = TRUE /\ stop' = TRUE
  /\ UNCHANGED <<signal, latest, tmp, bufs, seq, error, thread, copied, frame, consumed,
                 expired, floor, taken, limit, passes>>

Fail == mpc = "look" /\ error /\ Leave("failed")

End == mpc = "look" /\ ~error /\ eof /\ seq = consumed /\ Leave("ended")

StartCopy ==
  /\ mpc = "look" /\ ~error /\ seq # consumed
  /\ mpc' = "copy" /\ copied' = {}
  /\ UNCHANGED <<lock, signal, shared, thread, frame, consumed, expired, floor, taken, limit, passes>>

\* The deadline has passed and there is no new frame.
Idle ==
  /\ mpc = "look" /\ ~error /\ seq = consumed /\ ~eof /\ expired
  /\ mpc' = "idle" /\ lock' = "free"
  /\ UNCHANGED <<signal, shared, thread, copied, frame, consumed, expired, floor, taken, limit, passes>>

\* Neither touch nor overlay has changed.
NothingToDo ==
  /\ mpc = "idle" /\ mpc' = "top"
  /\ UNCHANGED <<lock, signal, shared, thread, copied, frame, consumed, expired, floor, taken,
                 limit, passes>>

\* Something is to be drawn over the latest frame, which may be newer by now.
Redraw == Lock("idle", "recopy") /\ UNCHANGED expired

CopyPart ==
  /\ mpc \in {"copy", "recopy"}
  /\ \E p \in Parts \ copied :
       /\ frame' = [frame EXCEPT ![p] = bufs[latest][p]]
       /\ copied' = copied \cup {p}
  /\ UNCHANGED <<lock, signal, shared, thread, mpc, consumed, expired, floor, taken, limit, passes>>

\* The number of the frame whose parts main holds, 0 if they are of several.
Number(f) == IF \E n \in 1 .. seq : f = Whole(n) THEN CHOOSE n \in 1 .. seq : f = Whole(n) ELSE 0

EndCopy ==
  /\ mpc \in {"copy", "recopy"} /\ copied = Parts
  /\ consumed' = IF mpc = "copy" THEN seq ELSE consumed
  /\ mpc' = "pass" /\ lock' = "free" /\ copied' = {} /\ taken' = Number(frame)
  /\ UNCHANGED <<signal, shared, thread, frame, expired, floor, limit, passes>>

\* The frame is drawn and sent; after max_frames main leaves.
Pass ==
  /\ mpc = "pass"
  /\ passes' = IF limit = 0 THEN 0 ELSE passes + 1
  /\ IF limit # 0 /\ passes + 1 = limit
     THEN mpc' = "ended" /\ eof' = TRUE /\ stop' = TRUE
     ELSE mpc' = "top" /\ UNCHANGED <<eof, stop>>
  /\ UNCHANGED <<lock, signal, latest, tmp, bufs, seq, error, thread, copied, frame, consumed,
                 expired, floor, taken, limit>>

-----------------------------------------------------------------------------
Thread == ReadPart \/ Publish \/ Stopped \/ EndOfInput \/ ReadError

Main ==
  \/ Begin \/ Relock \/ Sleep \/ Wake \/ Fail \/ End \/ StartCopy \/ Idle \/ NothingToDo
  \/ Redraw \/ CopyPart \/ EndCopy \/ Pass

Next == FirstFrame \/ NoFirstFrame \/ Thread \/ Main \/ Expire

Spec == Init /\ [][Next]_vars

\* main runs; the input may stop without an end, and the deadline is optional.
FairSpec == Spec /\ WF_vars(Main)

-----------------------------------------------------------------------------
(* Properties.                                                             *)

Register == INSTANCE FrameRegister WITH newest <- seq, got <- taken

\* A frame handed to a pass is whole, was the newest while main held the lock, and
\* is never older than one shown before, an overlay's redraw included.
RegisterSpec == Register!Spec

\* When the thread has seen the end or an error, main does not sleep on: it leaves,
\* at the end of the input only after the last frame went through a pass.
LastFrameShown ==
  rpc = "done" ~> /\ mpc \in {"ended", "failed"}
                  /\ mpc = "ended" => taken = seq \/ (limit # 0 /\ passes = limit)
=============================================================================
