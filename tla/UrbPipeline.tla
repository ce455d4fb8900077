---------------------------- MODULE UrbPipeline ----------------------------
(***************************************************************************)
(* send_bytes of the sink: a buffer goes to the CH347 as bulk URBs of at   *)
(* most Payload units, Depth of them in flight, each in a slot that is     *)
(* filled again when its URB has been reaped.                              *)
(*                                                                         *)
(* The kernel and the bridge are external: the endpoint works the URBs off *)
(* in the order of submission and hands them back in that order, a URB may *)
(* fail, and the bridge may stop answering.  usbfs copies the data when a  *)
(* URB is submitted.  A unit is a pixel; the header of a packet is left    *)
(* out, and so is the delay between packets.                               *)
(***************************************************************************)
EXTENDS Integers, Sequences

CONSTANTS Depth,    \* slots
          Payload   \* PAYLOAD, units of data in a packet

ASSUME PipelineAssumption == Depth \in Nat \ {0} /\ Payload \in Nat \ {0}

VARIABLES
  spc,        \* send_bytes: "idle", "fill", "reap", "refill", "discard", "sent", "failed"
  length,     \* len
  nextOff, inFlight, completed,  \* next_off, in_flight, completed
  urbs,       \* what this call has submitted: slot, offset and size of each URB
  finished,   \* how many of them the endpoint is done with
  bad,        \* those that it ended with an error
  stream      \* the chunks that have reached the bridge

sender == <<spc, length, nextOff, inFlight, completed>>
endpoint == <<finished, bad, stream>>
pipeline == <<sender, urbs, endpoint>>

Urb == [slot : 1 .. Depth, off : Nat, size : Nat]

PipelineInit ==
  /\ spc = "idle" /\ length = 0 /\ nextOff = 0 /\ inFlight = 0 /\ completed = 0
  /\ urbs = <<>> /\ finished = 0 /\ bad = {} /\ stream = <<>>

Total == (length + Payload - 1) \div Payload

-----------------------------------------------------------------------------
(* The sink.                                                               *)

Begin(n) ==
  /\ spc \in {"idle", "sent"}
  /\ spc' = "fill" /\ length' = n
  /\ nextOff' = 0 /\ inFlight' = 0 /\ completed' = 0
  /\ urbs' = <<>> /\ finished' = 0 /\ bad' = {} /\ stream' = <<>>

\* fill_slot: the size of the packet that starts at off.
Chunk(off) == IF length - off > Payload THEN Payload ELSE length - off

Submit(slot) ==
  /\ nextOff < length
  /\ urbs' = Append(urbs, [slot |-> slot, off |-> nextOff, size |-> Chunk(nextOff)])
  /\ nextOff' = nextOff + Chunk(nextOff)
  /\ inFlight' = inFlight + 1
  /\ UNCHANGED <<length, completed, endpoint>>

Fill == spc = "fill" /\ inFlight < Depth /\ Submit(inFlight + 1) /\ UNCHANGED spc

FillEnds ==
  /\ spc = "fill" /\ (nextOff >= length \/ inFlight = Depth)
  /\ spc' = "reap"
  /\ UNCHANGED <<length, nextOff, inFlight, completed, urbs, endpoint>>

\* Mutant of Refill: the slot is chosen by the number of URBs in flight.
RefillByCount == spc = "refill" /\ Submit(inFlight + 1) /\ spc' = "reap"

\* The reaped slot is filled with the next chunk.
Refill == spc = "refill" /\ Submit(urbs[completed].slot) /\ spc' = "reap"

SubmitFails ==
  /\ spc \in {"fill", "refill"} /\ nextOff < length /\ inFlight < Depth
  /\ spc' = "failed"
  /\ UNCHANGED <<length, nextOff, inFlight, completed, urbs, endpoint>>

\* Mutant of AllDone: everything has been submitted.
AllSubmitted(reaped) == nextOff >= length

\* Mutant of AllDone: the number of packets is rounded up once too often.
AllDoneRoundedUp(reaped) == reaped = length \div Payload + 1

AllDone(reaped) == reaped = Total

Reap ==
  /\ spc = "reap" /\ finished > completed /\ completed + 1 \notin bad
  /\ completed' = completed + 1 /\ inFlight' = inFlight - 1
  /\ spc' = IF AllDone(completed + 1) THEN "sent"
            ELSE IF nextOff < length THEN "refill" ELSE "reap"
  /\ UNCHANGED <<length, nextOff, urbs, endpoint>>

\* A URB came back with an error.
ReapBad ==
  /\ spc = "reap" /\ finished > completed /\ completed + 1 \in bad
  /\ spc' = "discard"
  /\ UNCHANGED <<length, nextOff, inFlight, completed, urbs, endpoint>>

\* REAPURBNDELAY itself fails.
ReapFails ==
  /\ spc = "reap"
  /\ spc' = "discard"
  /\ UNCHANGED <<length, nextOff, inFlight, completed, urbs, endpoint>>

\* No URB came back for CH347_URB_TIMEOUT_MS.
Timeout ==
  /\ spc = "reap" /\ finished = completed
  /\ spc' = "discard"
  /\ UNCHANGED <<length, nextOff, inFlight, completed, urbs, endpoint>>

\* DISCARDURB on every slot: what is still in flight is not sent any more.
Discard ==
  /\ spc = "discard"
  /\ spc' = "failed"
  /\ urbs' = SubSeq(urbs, 1, finished)
  /\ UNCHANGED <<length, nextOff, inFlight, completed, endpoint>>

-----------------------------------------------------------------------------
(* The endpoint (external).                                                *)

Transfer ==
  /\ finished < Len(urbs)
  /\ finished' = finished + 1
  /\ stream' = Append(stream, urbs[finished + 1])
  /\ UNCHANGED <<sender, urbs, bad>>

TransferFails ==
  /\ finished < Len(urbs)
  /\ finished' = finished + 1 /\ bad' = bad \cup {finished + 1}
  /\ UNCHANGED <<sender, urbs, stream>>

-----------------------------------------------------------------------------
\* The next sink, on a bridge that was reset.
Reopen ==
  /\ spc' = "idle" /\ length' = 0 /\ nextOff' = 0 /\ inFlight' = 0 /\ completed' = 0
  /\ urbs' = <<>> /\ finished' = 0 /\ bad' = {} /\ stream' = <<>>

SendStep == Fill \/ FillEnds \/ Refill \/ Reap \/ ReapBad \/ Discard

PipelineNext ==
  \/ \E n \in Nat \ {0} : Begin(n)
  \/ Reopen
  \/ SendStep \/ SubmitFails \/ ReapFails \/ Timeout \/ Transfer \/ TransferFails

PipelineSpec == PipelineInit /\ [][PipelineNext]_pipeline

-----------------------------------------------------------------------------
PipelineTypeOK ==
  /\ spc \in {"idle", "fill", "reap", "refill", "discard", "sent", "failed"}
  /\ length \in Nat /\ nextOff \in 0 .. length
  /\ inFlight \in 0 .. Depth /\ completed \in Nat /\ finished \in Nat
  /\ urbs \in Seq(Urb) /\ stream \in Seq(Urb) /\ bad \subseteq Nat

InFlight == completed + 1 .. Len(urbs)

\* A slot is filled only when its URB has been reaped: no two URBs in flight
\* share a slot, so that usercontext names the slot that is really free.
SlotsExclusive ==
  spc # "failed" => \A i, j \in InFlight : urbs[i].slot = urbs[j].slot => i = j

\* When send_bytes returns 0 the bridge has received the buffer once, in order
\* and to the last unit, and no URB of the call is left for a later call to reap.
SentIsComplete ==
  spc = "sent" =>
    /\ stream = urbs /\ completed = Len(urbs)
    /\ \A k \in 1 .. Len(urbs) :
         urbs[k].off = IF k = 1 THEN 0 ELSE urbs[k - 1].off + urbs[k - 1].size
    /\ urbs[Len(urbs)].off + urbs[Len(urbs)].size = length
=============================================================================
