---------------------------- MODULE FrameMailbox ----------------------------
(***************************************************************************)
(* The frame mailbox between the capture program and the sink: a ring of   *)
(* slots in shared memory, a sequence number per slot, and the number of   *)
(* the frame published last.                                               *)
(*                                                                         *)
(* The reader is mailbox_copy_latest of the sink, one action per access to *)
(* shared memory.  The writer is not in the repository: it does what the   *)
(* reader's checks need, and gives a slot no valid number while it         *)
(* rewrites it.  A frame is its parts, each stamped with the number of the *)
(* frame it belongs to.  Memory accesses are sequentially consistent.      *)
(***************************************************************************)
EXTENDS Naturals

CONSTANTS Slots,       \* FRAME_MAILBOX_SLOTS
          Parts,       \* pieces of a frame that one step of memcpy moves
          MaxAttempts, \* attempts of mailbox_copy_latest, 4 in the code
          MaxFrames    \* bound on the frames the writer publishes

ASSUME SlotsAssumption == Slots \in Nat \ {0}
ASSUME BoundsAssumption == MaxAttempts \in Nat \ {0} /\ MaxFrames \in Nat

VARIABLES
  published,  \* header->published_seq
  slotSeq,    \* header->slot_seq
  pixels,     \* the slots' frame data
  wpc,        \* the writer: "idle", "writing"
  written,    \* parts of the next frame the writer has stored
  rpc,        \* the reader: "idle", "load", "check", "copy", "recheck"
  attempt,    \* attempts begun in this call
  seq,        \* the reader's local seq
  frame,      \* the reader's frame buffer
  copied,     \* parts that memcpy has moved in this attempt
  consumed,   \* *consumed_seq
  whole,      \* the buffer as it was when a call last returned 1
  dropped,    \* *dropped_frames
  since,      \* history: published when this call began
  first,      \* history: the first frame a call returned
  taken       \* history: calls that returned 1

vars == <<published, slotSeq, pixels, wpc, written, rpc, attempt, seq, frame, copied,
          consumed, whole, dropped, since, first, taken>>

writer == <<published, slotSeq, pixels, wpc, written>>
reader == <<rpc, attempt, seq, frame, copied, consumed, whole, dropped, since, first, taken>>

SlotOf(n) == n % Slots

Init ==
  /\ published = 0
  /\ slotSeq = [s \in 0 .. Slots - 1 |-> 0]
  /\ pixels = [s \in 0 .. Slots - 1 |-> [p \in Parts |-> 0]]
  /\ wpc = "idle" /\ written = {}
  /\ rpc = "idle" /\ attempt = 0 /\ seq = 0
  /\ frame = [p \in Parts |-> 0] /\ copied = {}
  /\ consumed = 0 /\ whole = [p \in Parts |-> 0] /\ dropped = 0
  /\ since = 0 /\ first = 0 /\ taken = 0

-----------------------------------------------------------------------------
(* The writer (external).                                                  *)

\* The slot of the next frame loses its number before its pixels change.
Invalidate ==
  /\ wpc = "idle" /\ published < MaxFrames
  /\ slotSeq' = [slotSeq EXCEPT ![SlotOf(published + 1)] = 0]
  /\ wpc' = "writing" /\ written' = {}
  /\ UNCHANGED <<published, pixels>> /\ UNCHANGED reader

WritePart(p) ==
  /\ wpc = "writing" /\ p \notin written
  /\ pixels' = [pixels EXCEPT ![SlotOf(published + 1)][p] = published + 1]
  /\ written' = written \cup {p}
  /\ UNCHANGED <<published, slotSeq, wpc>> /\ UNCHANGED reader

Validate ==
  /\ wpc = "writing" /\ written = Parts
  /\ slotSeq' = [slotSeq EXCEPT ![SlotOf(published + 1)] = published + 1]
  /\ wpc' = "valid"
  /\ UNCHANGED <<published, pixels, written>> /\ UNCHANGED reader

Publish ==
  /\ wpc = "valid"
  /\ published' = published + 1
  /\ wpc' = "idle"
  /\ UNCHANGED <<slotSeq, pixels, written>> /\ UNCHANGED reader

-----------------------------------------------------------------------------
(* The reader: mailbox_copy_latest.                                        *)

Call ==
  /\ rpc = "idle"
  /\ rpc' = "load" /\ attempt' = 1 /\ since' = published
  /\ UNCHANGED <<seq, frame, copied, consumed, whole, dropped, first, taken>>
  /\ UNCHANGED writer

\* Mutant of Load: the frame before the newest.
LoadOneBehind ==
  /\ rpc = "load"
  /\ seq' = IF published = 0 THEN 0 ELSE published - 1
  /\ rpc' = IF published \in {0, 1, consumed + 1} THEN "idle" ELSE "check"
  /\ UNCHANGED <<attempt, frame, copied, consumed, whole, dropped, since, first, taken>>
  /\ UNCHANGED writer

\* Mutant of Load: a single new frame is not enough.
LoadWaitsForTwo ==
  /\ rpc = "load"
  /\ seq' = published
  /\ rpc' = IF published \in {0, consumed, consumed + 1} THEN "idle" ELSE "check"
  /\ UNCHANGED <<attempt, frame, copied, consumed, whole, dropped, since, first, taken>>
  /\ UNCHANGED writer

\* Without a new frame the call returns 0.
Load ==
  /\ rpc = "load"
  /\ seq' = published
  /\ rpc' = IF published \in {0, consumed} THEN "idle" ELSE "check"
  /\ UNCHANGED <<attempt, frame, copied, consumed, whole, dropped, since, first, taken>>
  /\ UNCHANGED writer

\* The writer was faster: another attempt, or the call returns 0.
Retry ==
  /\ rpc' = IF attempt < MaxAttempts THEN "load" ELSE "idle"
  /\ attempt' = IF attempt < MaxAttempts THEN attempt + 1 ELSE attempt

Check ==
  /\ rpc = "check"
  /\ IF slotSeq[SlotOf(seq)] = seq
     THEN rpc' = "copy" /\ UNCHANGED attempt
     ELSE Retry
  /\ copied' = {}
  /\ UNCHANGED <<seq, frame, consumed, whole, dropped, since, first, taken>>
  /\ UNCHANGED writer

CopyPart(p) ==
  /\ rpc = "copy" /\ p \notin copied
  /\ frame' = [frame EXCEPT ![p] = pixels[SlotOf(seq)][p]]
  /\ copied' = copied \cup {p}
  /\ rpc' = IF copied' = Parts THEN "recheck" ELSE "copy"
  /\ UNCHANGED <<attempt, seq, consumed, whole, dropped, since, first, taken>> /\ UNCHANGED writer

\* Mutant of SlotUnchanged: the second look at slot_seq is left out.
SlotNotChecked == TRUE

\* The writer has not been at the slot since the check.
SlotUnchanged == slotSeq[SlotOf(seq)] = seq

\* Mutant of Recheck: a skipped frame is counted although none came before.
RecheckCountsFromZero ==
  /\ rpc = "recheck"
  /\ IF SlotUnchanged
     THEN /\ dropped' = dropped + (seq - consumed - 1)
          /\ consumed' = seq /\ whole' = frame /\ taken' = taken + 1
          /\ first' = IF taken = 0 THEN seq ELSE first
          /\ rpc' = "idle" /\ UNCHANGED attempt
     ELSE Retry /\ UNCHANGED <<dropped, consumed, whole, first, taken>>
  /\ UNCHANGED <<seq, frame, copied, since>> /\ UNCHANGED writer

\* memcpy may have read the slot while it was rewritten: look again.
Recheck ==
  /\ rpc = "recheck"
  /\ IF SlotUnchanged
     THEN /\ dropped' = dropped + (IF consumed > 0 THEN seq - consumed - 1 ELSE 0)
          /\ consumed' = seq /\ whole' = frame /\ taken' = taken + 1
          /\ first' = IF taken = 0 THEN seq ELSE first
          /\ rpc' = "idle" /\ UNCHANGED attempt
     ELSE Retry /\ UNCHANGED <<dropped, consumed, whole, first, taken>>
  /\ UNCHANGED <<seq, frame, copied, since>> /\ UNCHANGED writer

-----------------------------------------------------------------------------
Write == Invalidate \/ (\E p \in Parts : WritePart(p)) \/ Validate \/ Publish

Read == Call \/ Load \/ Check \/ (\E p \in Parts : CopyPart(p)) \/ Recheck

Next == Write \/ Read

Spec == Init /\ [][Next]_vars

\* Both programs keep running; the writer may always stop for good between two
\* frames, so only a frame it has begun is sure to be finished.
FairSpec == Spec /\ WF_vars(Read) /\ WF_vars(Write /\ wpc # "idle")

-----------------------------------------------------------------------------
TypeOK ==
  /\ published \in Nat /\ consumed \in Nat /\ seq \in Nat /\ attempt \in 0 .. MaxAttempts
  /\ slotSeq \in [0 .. Slots - 1 -> Nat]
  /\ pixels \in [0 .. Slots - 1 -> [Parts -> Nat]]
  /\ wpc \in {"idle", "writing", "valid"} /\ written \subseteq Parts
  /\ rpc \in {"idle", "load", "check", "copy", "recheck"} /\ copied \subseteq Parts
  /\ frame \in [Parts -> Nat] /\ whole \in [Parts -> Nat]
  /\ dropped \in Nat /\ since \in Nat /\ first \in Nat /\ taken \in Nat

\* A frame the sink takes is whole: every part belongs to the frame whose number
\* the call returns, however far the writer got while memcpy ran.
Untorn == \A p \in Parts : whole[p] = consumed

\* The counters of the statistics line agree with what happened: of the frames
\* from the first one taken to the last one, each was taken or counted dropped.
EveryFrameCounted == taken > 0 => consumed = first + (taken - 1) + dropped

\* No frame is lost to the retries for good: each published frame, or a newer
\* one, is taken by some call.
NewestIsTaken ==
  \A n \in 1 .. MaxFrames : published = n ~> \A p \in Parts : whole[p] >= n

Register == INSTANCE FrameRegister WITH newest <- published, floor <- since, got <- consumed

\* Seen from outside the mailbox is a register of whole frames.
RegisterSpec == Register!Spec
=============================================================================
