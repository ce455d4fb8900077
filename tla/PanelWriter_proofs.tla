------------------------- MODULE PanelWriter_proofs -------------------------
(***************************************************************************)
(* What the sink sends is what the panel lacks, and it arrives: for every  *)
(* grid of tiles, policy, number of slots and packet size.                 *)
(*                                                                         *)
(* Three parts, one on the other: send_bytes and its slots; the rectangles *)
(* that the policies choose; the pass that sends them, which implements    *)
(* PanelUpdate.  Recursive functions are reasoned about by their least     *)
(* counterexample.                                                         *)
(***************************************************************************)
EXTENDS PanelWriter, FiniteSetTheorems, TLAPS

-----------------------------------------------------------------------------
(* send_bytes.                                                             *)

Live == spc \notin {"idle", "failed"}

\* What is in flight, and where it stands.
Counts ==
  /\ completed <= finished /\ finished <= Len(urbs)
  /\ bad \subseteq 1 .. finished
  /\ \A k \in bad : k > completed
  /\ Live => length > 0 /\ inFlight = Len(urbs) - completed
  /\ spc = "idle" => urbs = <<>>
  /\ spc = "fill" => completed = 0
  /\ spc = "refill" => completed > 0 /\ nextOff < length /\ inFlight < Depth
  /\ spc = "sent" => completed = Total

\* A slot is free to be filled: all of them at first, then the one last reaped.
Slots ==
  /\ SlotsExclusive
  /\ spc = "fill" => \A i \in 1 .. Len(urbs) : urbs[i].slot = i
  /\ spc = "refill" => \A i \in InFlight : urbs[i].slot # urbs[completed].slot

\* The URBs cut the buffer into packets, all full but the last.
Packets ==
  /\ \A k \in 1 .. Len(urbs) : urbs[k].off = (k - 1) * Payload /\ urbs[k].off < length
  /\ \A k \in 1 .. Len(urbs) : urbs[k].size = Chunk(urbs[k].off)
  /\ spc # "failed" =>
       nextOff = IF Len(urbs) * Payload < length THEN Len(urbs) * Payload ELSE length

\* As long as no URB has failed the bridge has what the endpoint is done with.
Arrived == bad = {} => Len(stream) = finished /\ \A k \in 1 .. finished : stream[k] = urbs[k]

PipelineInv == PipelineTypeOK /\ Counts /\ Slots /\ Packets /\ Arrived

-----------------------------------------------------------------------------
(* Arithmetic of packets.                                                  *)

LEMMA ChunkType ==
  ASSUME length \in Nat, NEW off \in Nat, off < length
  PROVE  Chunk(off) \in Nat \ {0} /\ off + Chunk(off) <= length /\ Chunk(off) <= Payload
  BY PipelineAssumption DEF Chunk

\* Total is the number of packets that the buffer needs.
LEMMA TotalCovers ==
  ASSUME NEW l \in Nat \ {0}, NEW p \in Nat \ {0}
  PROVE  LET t == (l + p - 1) \div p IN t \in Nat \ {0} /\ (t - 1) * p < l /\ l <= t * p
<1> DEFINE t == (l + p - 1) \div p
           r == (l + p - 1) % p
<1>1. t \in Int /\ r \in 0 .. p - 1 /\ l + p - 1 = p * t + r
  BY Z3
<1> HIDE DEF t, r
<1>2. p * t = t * p /\ (t - 1) * p = t * p - p
  BY <1>1, Z3
<1>3. (t - 1) * p < l /\ l <= t * p
  BY <1>1, <1>2, Z3
<1>4. t >= 1
  <2> SUFFICES ASSUME t <= 0 PROVE FALSE
    BY <1>1
  <2>1. t * p <= 0
    BY <1>1, Z3
  <2> QED
    BY <2>1, <1>1, <1>3
<1> QED
  BY <1>1, <1>3, <1>4 DEF t

\* A packet that starts before the end is one of them.
LEMMA StartsBefore ==
  ASSUME NEW p \in Nat \ {0}, NEW l \in Nat, NEW k \in Nat, NEW t \in Nat,
         (k - 1) * p < l, l <= t * p
  PROVE  k <= t
<1> SUFFICES ASSUME k >= t + 1 PROVE FALSE
  OBVIOUS
<1>1. (k - 1) * p >= t * p
  BY Z3
<1> QED
  BY <1>1, Z3

-----------------------------------------------------------------------------
(* The invariant.                                                          *)

LEMMA PipelineStarts == PipelineInit => PipelineInv
  BY PipelineAssumption
  DEF PipelineInit, PipelineInv, PipelineTypeOK, Counts, Slots, Packets, Arrived, SlotsExclusive,
      InFlight, Live, Urb

LEMMA BeginKeeps ==
  ASSUME PipelineInv, NEW n \in Nat \ {0}, Begin(n)
  PROVE  PipelineInv'
  BY PipelineAssumption
  DEF Begin, PipelineInv, PipelineTypeOK, Counts, Slots, Packets, Arrived, SlotsExclusive,
      InFlight, Live, Urb

LEMMA ReopenKeeps ==
  ASSUME PipelineInv, Reopen
  PROVE  PipelineInv'
  BY PipelineAssumption
  DEF Reopen, PipelineInv, PipelineTypeOK, Counts, Slots, Packets, Arrived, SlotsExclusive,
      InFlight, Live, Urb

\* A slot that no URB in flight uses may be filled.
LEMMA SubmitKeeps ==
  ASSUME PipelineInv, NEW slot \in 1 .. Depth, Submit(slot), inFlight < Depth,
         \/ spc = "fill" /\ slot = inFlight + 1 /\ spc' = "fill"
         \/ spc = "refill" /\ slot = urbs[completed].slot /\ spc' = "reap"
  PROVE  PipelineInv'
<1> DEFINE u == [slot |-> slot, off |-> nextOff, size |-> Chunk(nextOff)]
           N == Len(urbs)
<1> USE PipelineAssumption
<1>1. nextOff \in Nat /\ nextOff < length /\ length \in Nat /\ urbs \in Seq(Urb) /\ N \in Nat
  BY DEF PipelineInv, PipelineTypeOK, Submit
<1>2. Chunk(nextOff) \in Nat \ {0} /\ nextOff + Chunk(nextOff) <= length
  BY <1>1, ChunkType
<1>3. u \in Urb
  BY <1>1, <1>2 DEF Urb
<1>4. urbs' = Append(urbs, u) /\ nextOff' = nextOff + Chunk(nextOff) /\ inFlight' = inFlight + 1
      /\ UNCHANGED <<length, completed, finished, bad, stream>>
  BY DEF Submit, endpoint
<1>5. urbs' \in Seq(Urb) /\ Len(urbs') = N + 1 /\ urbs'[N + 1] = u
      /\ \A k \in 1 .. N : urbs'[k] = urbs[k]
  BY <1>1, <1>3, <1>4
<1> HIDE DEF u
<1>6. N * Payload \in Nat /\ (N + 1) * Payload = N * Payload + Payload /\ N = (N + 1) - 1
  BY <1>1
<1>7. nextOff = N * Payload /\ N * Payload < length
  BY <1>1, <1>6 DEF PipelineInv, Packets
<1>8. nextOff' = IF (N + 1) * Payload < length THEN (N + 1) * Payload ELSE length
  <2>1. \A m, n \in Nat : m < length /\ n = m + Payload
           => m + (IF length - m > Payload THEN Payload ELSE length - m)
                = IF n < length THEN n ELSE length
    BY <1>1
  <2>2. (N + 1) * Payload \in Nat
    BY <1>1
  <2>3. nextOff' = N * Payload + (IF length - N * Payload > Payload THEN Payload
                                  ELSE length - N * Payload)
    BY <1>4, <1>7 DEF Chunk
  <2> QED
    BY <1>6, <1>7, <2>1, <2>2, <2>3
<1>9. PipelineTypeOK'
  BY <1>1, <1>2, <1>4, <1>5 DEF PipelineInv, PipelineTypeOK
<1>10. Counts'
  BY <1>1, <1>4, <1>5 DEF PipelineInv, PipelineTypeOK, Counts, Live
<1>11. Slots'
  <2>1. completed \in Nat /\ completed <= N /\ inFlight = N - completed /\ inFlight \in Nat
    BY DEF PipelineInv, PipelineTypeOK, Counts, Live
  <2>2. \A i \in InFlight : urbs[i].slot # slot
    <3>1. CASE spc = "fill"
      BY <3>1, <2>1 DEF PipelineInv, Slots, Counts, InFlight
    <3>2. CASE spc = "refill"
      BY <3>2 DEF PipelineInv, Slots
    <3> QED
      BY <3>1, <3>2
  <2>3. InFlight' = InFlight \cup {N + 1}
    BY <1>4, <1>5, <2>1 DEF InFlight
  <2>4. u.slot = slot
    BY DEF u
  <2>5. \A i, j \in InFlight : urbs[i].slot = urbs[j].slot => i = j
    BY DEF PipelineInv, Slots, SlotsExclusive
  <2>6. SlotsExclusive'
    <3>1. \A i \in InFlight : urbs'[i] = urbs[i] /\ urbs'[i].slot # slot
      BY <1>1, <1>5, <2>1, <2>2 DEF InFlight
    <3>2. urbs'[N + 1].slot = slot
      BY <1>5, <2>4
    <3>3. \A i, j \in InFlight' : urbs'[i].slot = urbs'[j].slot => i = j
      BY <2>3, <2>5, <3>1, <3>2
    <3> QED
      BY <3>3 DEF SlotsExclusive
  <2>7. spc' = "fill" => \A i \in 1 .. Len(urbs') : urbs'[i].slot = i
    BY <1>1, <1>5, <2>1, <2>4 DEF PipelineInv, Slots, Counts
  <2> QED
    BY <2>6, <2>7 DEF Slots
<1>12. Packets'
  <2>1. u.off = nextOff /\ u.size = Chunk(nextOff)
    BY DEF u
  <2>2. \A k \in 1 .. N : urbs[k].off = (k - 1) * Payload /\ urbs[k].off < length
                          /\ urbs[k].size = Chunk(urbs[k].off)
    BY DEF PipelineInv, Packets
  <2>3. \A k \in 1 .. Len(urbs') : urbs'[k].off = (k - 1) * Payload /\ urbs'[k].off < length
    <3>1. \A k \in 1 .. N : urbs'[k].off = (k - 1) * Payload /\ urbs'[k].off < length
      BY <1>5, <2>2
    <3>2. urbs'[N + 1].off = ((N + 1) - 1) * Payload /\ urbs'[N + 1].off < length
      BY <1>1, <1>5, <1>6, <1>7, <2>1
    <3>3. \A k \in 1 .. N + 1 : k \in 1 .. N \/ k = N + 1
      BY <1>1
    <3> QED
      BY <1>5, <3>1, <3>2, <3>3
  <2>4. \A off : Chunk(off)' = Chunk(off)
    BY <1>4 DEF Chunk
  <2>5. \A k \in 1 .. Len(urbs') : urbs'[k].size = Chunk(urbs'[k].off)
    BY <1>1, <1>5, <2>1, <2>2
  <2>6. \A k \in 1 .. Len(urbs') : urbs'[k].size = Chunk(urbs[k].off)'
    BY <1>4, <2>5 DEF Chunk
  <2> QED
    BY <1>4, <1>5, <1>8, <2>3, <2>6 DEF Packets
<1>13. Arrived'
  BY <1>1, <1>4, <1>5 DEF PipelineInv, PipelineTypeOK, Counts, Arrived
<1> QED
  BY <1>9, <1>10, <1>11, <1>12, <1>13 DEF PipelineInv

\* FillEnds, SubmitFails, ReapBad, ReapFails and Timeout only change where send_bytes is.
LEMMA MovesKeep ==
  ASSUME PipelineInv,
         FillEnds \/ SubmitFails \/ ReapBad \/ ReapFails \/ Timeout
  PROVE  PipelineInv'
<1>1. /\ spc' \in {"reap", "failed", "discard"} /\ spc \notin {"failed", "idle"}
      /\ UNCHANGED <<length, nextOff, inFlight, completed, urbs, finished, bad, stream>>
  BY DEF FillEnds, SubmitFails, ReapBad, ReapFails, Timeout, endpoint
<1>2. PipelineTypeOK' /\ Arrived'
  BY <1>1 DEF PipelineInv, PipelineTypeOK, Arrived
<1>3. Counts'
  BY <1>1 DEF PipelineInv, Counts, Live
<1>4. Slots'
  BY <1>1 DEF PipelineInv, Slots, SlotsExclusive, InFlight
<1>5. Packets'
  BY <1>1 DEF PipelineInv, Packets, Chunk
<1> QED
  BY <1>2, <1>3, <1>4, <1>5 DEF PipelineInv

LEMMA ReapKeeps ==
  ASSUME PipelineInv, Reap
  PROVE  PipelineInv'
<1>1. /\ completed' = completed + 1 /\ inFlight' = inFlight - 1 /\ spc = "reap"
      /\ finished > completed /\ completed + 1 \notin bad
      /\ spc' = IF AllDone(completed + 1) THEN "sent"
                ELSE IF nextOff < length THEN "refill" ELSE "reap"
      /\ UNCHANGED <<length, nextOff, urbs, finished, bad, stream>>
  BY DEF Reap, endpoint
<1>2. PipelineTypeOK
  BY DEF PipelineInv
<1>3. completed \in Nat /\ finished \in Nat /\ Len(urbs) \in Nat /\ finished <= Len(urbs)
      /\ inFlight = Len(urbs) - completed /\ length > 0 /\ bad \subseteq 1 .. finished
      /\ \A k \in bad : k > completed
  BY <1>1 DEF PipelineInv, PipelineTypeOK, Counts, Live
<1>4. PipelineTypeOK'
  <2>1. inFlight' \in 0 .. Depth /\ inFlight' < Depth
    BY <1>1, <1>2, <1>3, PipelineAssumption DEF PipelineTypeOK
  <2>2. completed' \in Nat
    BY <1>1, <1>3
  <2>3. spc' \in {"sent", "refill", "reap"}
    BY <1>1
  <2> QED
    BY <1>1, <1>2, <2>1, <2>2, <2>3 DEF PipelineTypeOK
<1>5. Counts'
  <2>1. \A k \in bad : k > completed + 1
    BY <1>1, <1>3
  <2>2. spc' = "sent" => completed' = Total'
    BY <1>1 DEF AllDone, Total
  <2>3. inFlight' < Depth /\ completed' > 0
    BY <1>1, <1>2, <1>3, PipelineAssumption DEF PipelineTypeOK
  <2>4. completed' <= finished' /\ inFlight' = Len(urbs') - completed'
    BY <1>1, <1>3
  <2>5. spc' \in {"sent", "refill", "reap"} /\ (spc' = "refill" => nextOff' < length')
    BY <1>1
  <2> QED
    BY <1>1, <1>3, <2>1, <2>2, <2>3, <2>4, <2>5 DEF Counts, Live
<1>6. Slots'
  <2>1. InFlight' = InFlight \ {completed + 1} /\ completed + 1 \in InFlight
    BY <1>1, <1>3 DEF InFlight
  <2>2. \A i, j \in InFlight : urbs[i].slot = urbs[j].slot => i = j
    BY <1>1 DEF PipelineInv, Slots, SlotsExclusive
  <2>3. SlotsExclusive'
    BY <1>1, <2>1, <2>2 DEF SlotsExclusive
  <2>4. \A i \in InFlight' : urbs'[i].slot # urbs'[completed'].slot
    BY <1>1, <2>1, <2>2
  <2> QED
    BY <1>1, <2>3, <2>4 DEF Slots
<1>7. Packets'
  BY <1>1 DEF PipelineInv, Packets, Chunk
<1>8. Arrived'
  BY <1>1 DEF PipelineInv, Arrived
<1> QED
  BY <1>4, <1>5, <1>6, <1>7, <1>8 DEF PipelineInv

LEMMA DiscardKeeps ==
  ASSUME PipelineInv, Discard
  PROVE  PipelineInv'
<1>1. /\ spc' = "failed" /\ spc = "discard" /\ urbs' = SubSeq(urbs, 1, finished)
      /\ UNCHANGED <<length, nextOff, inFlight, completed, finished, bad, stream>>
  BY DEF Discard, endpoint
<1>2. PipelineTypeOK /\ Counts /\ Arrived
  BY DEF PipelineInv
<1>3. /\ urbs' \in Seq(Urb) /\ Len(urbs') = finished
      /\ \A k \in 1 .. finished : urbs'[k] = urbs[k]
  BY <1>1, <1>2 DEF PipelineTypeOK, Counts
<1>4. PipelineTypeOK' /\ Counts'
  BY <1>1, <1>2, <1>3 DEF PipelineTypeOK, Counts, Live
<1>5. Slots'
  BY <1>1 DEF Slots, SlotsExclusive
<1>6. Packets'
  <2>1. /\ \A k \in 1 .. Len(urbs) : urbs[k].off = (k - 1) * Payload /\ urbs[k].off < length
        /\ \A k \in 1 .. Len(urbs) : urbs[k].size = Chunk(urbs[k].off)
    BY DEF PipelineInv, Packets
  <2>2. finished \in Nat /\ Len(urbs) \in Nat /\ finished <= Len(urbs)
    BY <1>2 DEF PipelineTypeOK, Counts
  <2>3. \A k \in 1 .. finished : k \in 1 .. Len(urbs)
    BY <2>2
  <2>4. ASSUME NEW k \in 1 .. finished
        PROVE  /\ urbs'[k].off = (k - 1) * Payload /\ urbs'[k].off < length'
               /\ urbs'[k].size = Chunk(urbs[k].off)'
    <3>1. urbs'[k] = urbs[k] /\ k \in 1 .. Len(urbs) /\ length' = length
      BY <1>1, <1>3, <2>3
    <3>2. urbs[k].off = (k - 1) * Payload /\ urbs[k].off < length /\ urbs[k].size = Chunk(urbs[k].off)
      BY <2>1, <3>1
    <3> QED
      BY <3>1, <3>2 DEF Chunk
  <2> QED
    BY <1>1, <1>3, <2>4 DEF Packets
<1>7. Arrived'
  BY <1>1, <1>2, <1>3 DEF Arrived
<1> QED
  BY <1>4, <1>5, <1>6, <1>7 DEF PipelineInv

LEMMA EndpointKeeps ==
  ASSUME PipelineInv, Transfer \/ TransferFails
  PROVE  PipelineInv'
<1>1. /\ finished < Len(urbs) /\ finished' = finished + 1
      /\ UNCHANGED <<spc, length, nextOff, inFlight, completed, urbs>>
      /\ \/ stream' = Append(stream, urbs[finished + 1]) /\ bad' = bad
         \/ bad' = bad \cup {finished + 1} /\ stream' = stream
  BY DEF Transfer, TransferFails, sender
<1>2. PipelineTypeOK /\ Counts /\ Arrived
  BY DEF PipelineInv
<1>3. /\ finished \in Nat /\ Len(urbs) \in Nat /\ completed \in Nat /\ completed <= finished
      /\ urbs \in Seq(Urb) /\ stream \in Seq(Urb) /\ bad \subseteq 1 .. finished
  BY <1>2 DEF PipelineTypeOK, Counts
<1>4. finished + 1 \in 1 .. Len(urbs) /\ urbs[finished + 1] \in Urb
  BY <1>1, <1>3
<1>5. Slots' /\ Packets'
  BY <1>1 DEF PipelineInv, Slots, SlotsExclusive, InFlight, Packets, Chunk
<1>6. CASE stream' = Append(stream, urbs[finished + 1]) /\ bad' = bad
  <2>1. /\ stream' \in Seq(Urb) /\ Len(stream') = Len(stream) + 1
        /\ stream'[Len(stream) + 1] = urbs[finished + 1]
        /\ \A k \in 1 .. Len(stream) : stream'[k] = stream[k]
    BY <1>3, <1>4, <1>6
  <2>2. PipelineTypeOK'
    BY <1>1, <1>2, <1>3, <1>6, <2>1 DEF PipelineTypeOK
  <2>3. bad' \subseteq 1 .. finished'
    BY <1>1, <1>3, <1>6
  <2>4. completed' <= finished' /\ finished' <= Len(urbs')
    BY <1>1, <1>3, <1>4
  <2>5. Counts'
    BY <1>1, <1>2, <1>6, <2>3, <2>4 DEF Counts, Live, Total
  <2>6. Arrived'
    BY <1>1, <1>2, <1>3, <1>6, <2>1 DEF Arrived
  <2> QED
    BY <1>5, <2>2, <2>5, <2>6 DEF PipelineInv
<1>7. CASE bad' = bad \cup {finished + 1} /\ stream' = stream
  <2>1. PipelineTypeOK'
    BY <1>1, <1>2, <1>3, <1>7 DEF PipelineTypeOK
  <2>2. bad' \subseteq 1 .. finished' /\ \A k \in bad' : k > completed'
    BY <1>1, <1>2, <1>3, <1>7 DEF Counts
  <2>3. completed' <= finished' /\ finished' <= Len(urbs')
    BY <1>1, <1>3, <1>4
  <2>4. Counts'
    BY <1>1, <1>2, <2>2, <2>3 DEF Counts, Live, Total
  <2>5. Arrived'
    BY <1>7 DEF Arrived
  <2> QED
    BY <1>5, <2>1, <2>4, <2>5 DEF PipelineInv
<1> QED
  BY <1>1, <1>6, <1>7

LEMMA PipelineStep == PipelineInv /\ [PipelineNext]_pipeline => PipelineInv'
<1> SUFFICES ASSUME PipelineInv, [PipelineNext]_pipeline
             PROVE  PipelineInv'
  OBVIOUS
<1>1. ASSUME NEW n \in Nat \ {0}, Begin(n)
      PROVE  PipelineInv'
  BY <1>1, BeginKeeps
<1>2. CASE Reopen
  BY <1>2, ReopenKeeps
<1>3. CASE Fill
  <2>1. inFlight + 1 \in 1 .. Depth
    BY <1>3, PipelineAssumption DEF Fill, PipelineInv, PipelineTypeOK
  <2> QED
    BY <1>3, <2>1, SubmitKeeps DEF Fill
<1>4. CASE Refill
  <2>1. completed \in 1 .. Len(urbs) /\ inFlight < Depth /\ urbs[completed].slot \in 1 .. Depth
    <3>1. completed \in 1 .. Len(urbs) /\ inFlight < Depth /\ urbs \in Seq(Urb)
      BY <1>4 DEF Refill, PipelineInv, PipelineTypeOK, Counts
    <3>2. urbs[completed] \in Urb
      BY <3>1
    <3> QED
      BY <3>1, <3>2 DEF Urb
  <2> QED
    BY <1>4, <2>1, SubmitKeeps DEF Refill
<1>5. CASE FillEnds \/ SubmitFails \/ ReapBad \/ ReapFails \/ Timeout
  BY <1>5, MovesKeep
<1>6. CASE Reap
  BY <1>6, ReapKeeps
<1>7. CASE Discard
  BY <1>7, DiscardKeeps
<1>8. CASE Transfer \/ TransferFails
  BY <1>8, EndpointKeeps
<1>9. CASE UNCHANGED pipeline
  BY <1>9 DEF pipeline, sender, endpoint, PipelineInv, PipelineTypeOK, Counts, Slots, Packets, Arrived,
              SlotsExclusive, InFlight, Live, Chunk, Total
<1> QED
  BY <1>1, <1>2, <1>3, <1>4, <1>5, <1>6, <1>7, <1>8, <1>9 DEF PipelineNext, SendStep

-----------------------------------------------------------------------------
(* What it gives.                                                          *)

\* When the last URB has been reaped they are as many as the buffer needs, so
\* the last of them ends it.
LEMMA AllOfIt == PipelineInv => SentIsComplete
<1> SUFFICES ASSUME PipelineInv, spc = "sent"
             PROVE  /\ stream = urbs /\ completed = Len(urbs)
                    /\ \A k \in 1 .. Len(urbs) :
                         urbs[k].off = IF k = 1 THEN 0 ELSE urbs[k - 1].off + urbs[k - 1].size
                    /\ urbs[Len(urbs)].off + urbs[Len(urbs)].size = length
  BY DEF SentIsComplete
<1> DEFINE N == Len(urbs)
<1> USE PipelineAssumption
<1>1. /\ length \in Nat \ {0} /\ urbs \in Seq(Urb) /\ stream \in Seq(Urb) /\ N \in Nat
      /\ completed \in Nat /\ finished \in Nat /\ completed <= finished /\ finished <= N
      /\ bad \subseteq 1 .. finished /\ completed = Total /\ \A k \in bad : k > completed
  BY DEF PipelineInv, PipelineTypeOK, Counts, Live
<1>2. \A k \in 1 .. N : /\ urbs[k].off = (k - 1) * Payload /\ urbs[k].off < length
                        /\ urbs[k].size = Chunk(urbs[k].off)
  BY DEF PipelineInv, Packets
<1>3. Total \in Nat \ {0} /\ (Total - 1) * Payload < length /\ length <= Total * Payload
  BY <1>1, TotalCovers DEF Total
<1>4. N = Total
  <2>1. N \in 1 .. N
    BY <1>1, <1>3
  <2> HIDE DEF N
  <2>2. (N - 1) * Payload < length
    BY <1>2, <2>1
  <2>3. N <= Total
    BY <1>1, <1>3, <2>2, StartsBefore
  <2> QED
    BY <1>1, <2>3
<1>5. completed = N /\ finished = N /\ bad = {}
  BY <1>1, <1>4
<1>6. stream = urbs
  <2>1. Len(stream) = N /\ \A k \in 1 .. N : stream[k] = urbs[k]
    BY <1>5 DEF PipelineInv, Arrived
  <2> QED
    BY <1>1, <2>1
<1>7. \A k \in 1 .. N : k * Payload = (k - 1) * Payload + Payload
  BY <1>1
<1>8. urbs[N].off + urbs[N].size = length
  <2>1. N \in 1 .. N
    BY <1>3, <1>4
  <2>2. length - (N - 1) * Payload <= Payload /\ (N - 1) * Payload \in Nat
    BY <1>1, <1>3, <1>4, <1>7, <2>1
  <2>3. \A m \in Nat : length - m <= Payload
          => (IF length - m > Payload THEN Payload ELSE length - m) = length - m
    BY <1>1
  <2> HIDE DEF N
  <2>4. urbs[N].off = (N - 1) * Payload /\ urbs[N].size = Chunk(urbs[N].off)
    BY <1>2, <2>1
  <2>5. urbs[N].size = length - (N - 1) * Payload
    BY <2>2, <2>3, <2>4 DEF Chunk
  <2>6. \A m \in Nat : m + (length - m) = length
    BY <1>1
  <2> QED
    BY <2>2, <2>4, <2>5, <2>6
<1>9. ASSUME NEW k \in 1 .. N
      PROVE  urbs[k].off = IF k = 1 THEN 0 ELSE urbs[k - 1].off + urbs[k - 1].size
  <2>1. CASE k = 1
    BY <1>2, <2>1
  <2>2. CASE k # 1
    <3>1. k - 1 \in 1 .. N
      BY <1>1, <2>2
    <3>2. /\ urbs[k].off = (k - 1) * Payload /\ urbs[k].off < length
          /\ urbs[k - 1].off = (k - 1 - 1) * Payload
          /\ urbs[k - 1].size = Chunk(urbs[k - 1].off)
      BY <1>2, <3>1
    <3>3. (k - 1) * Payload = (k - 1 - 1) * Payload + Payload /\ (k - 1 - 1) * Payload \in Nat
      BY <1>7, <3>1
    <3>4. urbs[k - 1].size = Payload
      BY <1>1, <3>2, <3>3 DEF Chunk
    <3> QED
      BY <2>2, <3>2, <3>3, <3>4
  <2> QED
    BY <2>1, <2>2
<1> QED
  BY <1>5, <1>6, <1>8, <1>9

LEMMA PipelineSafe == PipelineSpec => []PipelineInv
  BY PipelineStarts, PipelineStep, PTL DEF PipelineSpec

\* Type correctness, for every number of slots and packet size.
THEOREM PipelineTypeCorrect == PipelineSpec => []PipelineTypeOK
<1>1. PipelineInv => PipelineTypeOK
  BY DEF PipelineInv
<1> QED
  BY <1>1, PipelineSafe, PTL

\* No two URBs in flight share a slot, whichever were reaped or failed.
THEOREM SlotsStayExclusive == PipelineSpec => []SlotsExclusive
<1>1. PipelineInv => SlotsExclusive
  BY DEF PipelineInv, Slots
<1> QED
  BY <1>1, PipelineSafe, PTL

\* When send_bytes returns 0 the bridge has had the buffer once, in order and to
\* the last unit, however the packets divide it.
THEOREM SentIsAllOfIt == PipelineSpec => []SentIsComplete
  BY AllOfIt, PipelineSafe, PTL

-----------------------------------------------------------------------------
(* Numbers.                                                                *)

\* A set of numbers has a least one, and if it is bounded a greatest.
LEMMA LeastOfSome ==
  ASSUME NEW T \in SUBSET Int, T # {}, NEW low \in Int, \A x \in T : low <= x
  PROVE  Min(T) \in T /\ \A y \in T : Min(T) <= y
<1> DEFINE Initials == {low .. k : k \in T}
<1>1. Initials \subseteq FiniteSubsetsOf(Int)
  <2> SUFFICES ASSUME NEW k \in T PROVE low .. k \in FiniteSubsetsOf(Int)
    OBVIOUS
  <2>1. IsFiniteSet(low .. k) /\ low .. k \in SUBSET Int
    BY FS_Interval
  <2> QED
    BY <2>1 DEF FiniteSubsetsOf
<1>2. PICK I \in Initials : \A J \in Initials : <<J, I>> \notin StrictSubsetOrdering(Int)
  <2>1. Initials # {}
    OBVIOUS
  <2> HIDE DEF Initials
  <2> QED
    BY <1>1, <2>1, FS_StrictSubsetOrderingWellFounded, WFMin
<1>3. PICK x \in T : I = low .. x
  OBVIOUS
<1>4. ASSUME NEW y \in T, y < x PROVE FALSE
  <2>1. low .. y \in Initials /\ low .. y \subseteq Int /\ low .. x \subseteq Int
    OBVIOUS
  <2>2. low .. y \subseteq low .. x /\ low .. y # low .. x
    <3>1. x \in low .. x /\ x \notin low .. y /\ low .. y \subseteq low .. x
      BY <1>4
    <3> QED
      BY <3>1
  <2> QED
    BY <1>2, <1>3, <2>1, <2>2 DEF StrictSubsetOrdering
<1>5. \A y \in T : x <= y
  BY <1>4
<1> QED
  BY <1>5 DEF Min

LEMMA GreatestOfSome ==
  ASSUME NEW T \in SUBSET Int, T # {}, NEW high \in Int, \A x \in T : x <= high
  PROVE  Max(T) \in T /\ \A y \in T : y <= Max(T)
<1> DEFINE D == {-x : x \in T}
<1>1. D \in SUBSET Int /\ D # {} /\ \A d \in D : -high <= d
  <2>1. \A x \in T : -x \in Int /\ -high <= -x
    OBVIOUS
  <2> QED
    BY <2>1
<1>2. PICK d \in D : \A e \in D : d <= e
  <2>1. -high \in Int
    OBVIOUS
  <2> HIDE DEF D
  <2>2. Min(D) \in D /\ \A e \in D : Min(D) <= e
    BY <1>1, <2>1, LeastOfSome
  <2> QED
    BY <2>2
<1>3. PICK x \in T : d = -x
  OBVIOUS
<1>4. ASSUME NEW y \in T PROVE y <= x
  <2>1. -y \in D
    OBVIOUS
  <2> QED
    BY <1>2, <1>3, <2>1
<1> QED
  BY <1>4 DEF Max

LEMMA MinOfTwo ==
  ASSUME NEW a \in Int, NEW b \in Int
  PROVE  Min({a, b}) = IF a <= b THEN a ELSE b
<1>1. \A x \in {a, b} : (IF a <= b THEN a ELSE b) <= x
  OBVIOUS
<1>2. Min({a, b}) \in {a, b} /\ \A y \in {a, b} : Min({a, b}) <= y
  BY <1>1, LeastOfSome
<1> QED
  BY <1>2

-----------------------------------------------------------------------------
(* Arithmetic.                                                             *)

\* Division under names of its own, which the provers take as they are.
Quot(a, w) == a \div w
Rest(a, w) == a % w

LEMMA DivMod ==
  ASSUME NEW a \in Nat, NEW w \in Nat \ {0}
  PROVE  Quot(a, w) \in Nat /\ Rest(a, w) \in 0 .. w - 1 /\ a = Quot(a, w) * w + Rest(a, w)
  BY Z3 DEF Quot, Rest

LEMMA DivUnique ==
  ASSUME NEW q \in Nat, NEW w \in Nat \ {0}, NEW r \in 0 .. w - 1
  PROVE  Quot(q * w + r, w) = q /\ Rest(q * w + r, w) = r
  BY Z3 DEF Quot, Rest

LEMMA DivBounds ==
  ASSUME NEW a \in Nat, NEW w \in Nat \ {0}, NEW q \in Nat
  PROVE  (q * w <= a <=> q <= Quot(a, w)) /\ (a < (q + 1) * w <=> Quot(a, w) <= q)
<1> DEFINE d == Quot(a, w)
           m == Rest(a, w)
<1>1. d \in Nat /\ m \in 0 .. w - 1 /\ a = d * w + m
  BY DivMod
<1> HIDE DEF d, m
<1>2. \A x, y \in Nat : x > y => x * w >= y * w + w
  <2> SUFFICES ASSUME NEW x \in Nat, NEW y \in Nat, x > y PROVE x * w >= y * w + w
    OBVIOUS
  <2>1. x - (y + 1) \in Nat /\ (x - (y + 1)) * w >= 0
    BY Z3
  <2>2. x * w = (x - (y + 1)) * w + y * w + w
    BY Z3
  <2> QED
    BY <2>1, <2>2, Z3
<1>3. (q + 1) * w = q * w + w /\ q * w \in Nat /\ d * w \in Nat
  BY <1>1, Z3
<1>4. (q * w <= a <=> q <= d) /\ (a < (q + 1) * w <=> d <= q)
  BY <1>1, <1>2, <1>3
<1> QED
  BY <1>4 DEF d

-----------------------------------------------------------------------------
(* Tiles and rectangles.                                                   *)

TileOf(p) == <<Quot(p[1], TileW), Quot(p[2], TileH)>>

\* How many tiles of w cover a length of l.
LEMMA TileCount ==
  ASSUME NEW l \in Nat \ {0}, NEW w \in Nat \ {0}
  PROVE  /\ Quot(l + w - 1, w) \in Nat \ {0}
         /\ \A a \in Nat : a < Quot(l + w - 1, w) <=> a * w < l
<1> DEFINE n == Quot(l + w - 1, w)
<1>1. l + w - 1 \in Nat /\ n \in Nat
  BY DivMod
<1>2. ASSUME NEW a \in Nat PROVE a < n <=> a * w < l
  <2>1. (a + 1) * w <= l + w - 1 <=> a + 1 <= n
    BY <1>1, DivBounds
  <2>2. (a + 1) * w = a * w + w /\ a * w \in Nat
    BY Z3
  <2> HIDE DEF n
  <2> QED
    BY <1>1, <2>1, <2>2
<1>3. n # 0
  <2>1. 0 * w < l
    BY Z3
  <2> HIDE DEF n
  <2> QED
    BY <1>2, <2>1
<1> QED
  BY <1>1, <1>2, <1>3

\* The pixels of the tiles from a to c in one direction.
LEMMA TileSpan ==
  ASSUME NEW l \in Nat \ {0}, NEW w \in Nat \ {0}, NEW a \in Nat, NEW c \in Nat,
         a <= c, c * w < l
  PROVE  LET lo == a * w
             hi == Min({(c + 1) * w, l}) - 1
         IN /\ lo \in 0 .. l - 1 /\ hi \in 0 .. l - 1 /\ lo <= hi
            /\ \A x \in Int : x \in lo .. hi <=> x \in 0 .. l - 1 /\ a <= Quot(x, w) /\ Quot(x, w) <= c
<1> DEFINE lo == a * w
           above == (c + 1) * w
           hi == Min({above, l}) - 1
<1>1. lo \in Nat /\ above \in Nat /\ above = c * w + w /\ lo <= c * w
  <2>1. (c - a) * w >= 0 /\ c * w = (c - a) * w + a * w
    BY Z3
  <2> QED
    BY <2>1, Z3
<1>2. Min({above, l}) = IF above <= l THEN above ELSE l
  BY <1>1, MinOfTwo
<1>3. ASSUME NEW x \in Nat PROVE (lo <= x <=> a <= Quot(x, w)) /\ (x < above <=> Quot(x, w) <= c)
  BY DivBounds
<1> HIDE DEF lo, above
<1>4. lo \in 0 .. l - 1 /\ hi \in 0 .. l - 1 /\ lo <= hi
  BY <1>1, <1>2
<1>5. ASSUME NEW x \in Int
      PROVE  x \in lo .. hi <=> x \in 0 .. l - 1 /\ a <= Quot(x, w) /\ Quot(x, w) <= c
  <2>1. x \in lo .. hi <=> x \in 0 .. l - 1 /\ lo <= x /\ x < above
    BY <1>1, <1>2
  <2> QED
    BY <1>3, <2>1
<1> QED
  BY <1>4, <1>5 DEF lo, above

LEMMA Grid ==
  /\ Cols \in Nat \ {0} /\ Rows \in Nat \ {0} /\ TileW \in Nat \ {0} /\ TileH \in Nat \ {0}
  /\ WordPixels \in Nat \ {0} /\ MaxRects \in Nat \ {0}
  /\ TilesX \in Nat \ {0} /\ TilesY \in Nat \ {0}
  /\ \A a \in Nat : a < TilesX <=> a * TileW < Cols
  /\ \A b \in Nat : b < TilesY <=> b * TileH < Rows
<1>1. /\ Cols \in Nat \ {0} /\ Rows \in Nat \ {0} /\ TileW \in Nat \ {0} /\ TileH \in Nat \ {0}
      /\ WordPixels \in Nat \ {0} /\ MaxRects \in Nat \ {0}
  BY GridAssumption
<1>2. TilesX = Quot(Cols + TileW - 1, TileW) /\ TilesY = Quot(Rows + TileH - 1, TileH)
  BY DEF TilesX, TilesY, Quot
<1> QED
  BY <1>1, <1>2, TileCount

\* Tiles that make up a block are a rectangle of the panel.
LEMMA BlockArea ==
  ASSUME NEW a \in 0 .. TilesX - 1, NEW c \in a .. TilesX - 1,
         NEW b \in 0 .. TilesY - 1, NEW d \in b .. TilesY - 1
  PROVE  /\ OnPanel(RectFromTiles(a, b, c, d))
         /\ Area(RectFromTiles(a, b, c, d)) = {p \in Pixels : TileOf(p) \in (a .. c) \X (b .. d)}
<1> DEFINE r == RectFromTiles(a, b, c, d)
<1>1. /\ r.x0 = a * TileW /\ r.x1 = Min({(c + 1) * TileW, Cols}) - 1
      /\ r.y0 = b * TileH /\ r.y1 = Min({(d + 1) * TileH, Rows}) - 1
      /\ r = [x0 |-> r.x0, y0 |-> r.y0, x1 |-> r.x1, y1 |-> r.y1]
  BY DEF RectFromTiles, Rect
<1>2. a \in Nat /\ b \in Nat /\ c \in Nat /\ d \in Nat /\ a <= c /\ b <= d
      /\ c * TileW < Cols /\ d * TileH < Rows
  BY Grid
<1>3. /\ r.x0 \in 0 .. Cols - 1 /\ r.x1 \in 0 .. Cols - 1 /\ r.x0 <= r.x1
      /\ \A x \in Int : x \in r.x0 .. r.x1
           <=> x \in 0 .. Cols - 1 /\ a <= Quot(x, TileW) /\ Quot(x, TileW) <= c
  <2> DEFINE low == a * TileW
             high == Min({(c + 1) * TileW, Cols}) - 1
  <2>1. Cols \in Nat \ {0} /\ TileW \in Nat \ {0} /\ a \in Nat /\ c \in Nat /\ a <= c /\ c * TileW < Cols
    BY <1>2, Grid
  <2>2. /\ low \in 0 .. Cols - 1 /\ high \in 0 .. Cols - 1 /\ low <= high
        /\ \A x \in Int : x \in low .. high
             <=> x \in 0 .. Cols - 1 /\ a <= Quot(x, TileW) /\ Quot(x, TileW) <= c
    BY <2>1, TileSpan
  <2> QED
    BY <1>1, <2>2
<1>4. /\ r.y0 \in 0 .. Rows - 1 /\ r.y1 \in 0 .. Rows - 1 /\ r.y0 <= r.y1
      /\ \A y \in Int : y \in r.y0 .. r.y1
           <=> y \in 0 .. Rows - 1 /\ b <= Quot(y, TileH) /\ Quot(y, TileH) <= d
  <2> DEFINE low == b * TileH
             high == Min({(d + 1) * TileH, Rows}) - 1
  <2>1. Rows \in Nat \ {0} /\ TileH \in Nat \ {0} /\ b \in Nat /\ d \in Nat /\ b <= d /\ d * TileH < Rows
    BY <1>2, Grid
  <2>2. /\ low \in 0 .. Rows - 1 /\ high \in 0 .. Rows - 1 /\ low <= high
        /\ \A y \in Int : y \in low .. high
             <=> y \in 0 .. Rows - 1 /\ b <= Quot(y, TileH) /\ Quot(y, TileH) <= d
    BY <2>1, TileSpan
  <2> QED
    BY <1>1, <2>2
<1> HIDE DEF r
<1>5. OnPanel(r)
  BY <1>1, <1>3, <1>4 DEF OnPanel
<1>6. \A x \in 0 .. Cols - 1, y \in 0 .. Rows - 1 : Quot(x, TileW) \in Nat /\ Quot(y, TileH) \in Nat
  BY Grid, DivMod
<1>7. Area(r) = {p \in Pixels : TileOf(p) \in (a .. c) \X (b .. d)}
  <2>1. ASSUME NEW x \in Int, NEW y \in Int
        PROVE  <<x, y>> \in Area(r)
                 <=> <<x, y>> \in Pixels /\ TileOf(<<x, y>>) \in (a .. c) \X (b .. d)
    BY <1>2, <1>3, <1>4, <1>6 DEF Area, Pixels, TileOf
  <2>2. Area(r) \subseteq Int \X Int /\ Pixels \subseteq Int \X Int
    BY DEF Area, Pixels
  <2> QED
    BY <2>1, <2>2
<1> QED
  BY <1>5, <1>7 DEF r

\* The tile of a pixel.
LEMMA TileOfPixel ==
  ASSUME NEW p \in Pixels
  PROVE  TileOf(p) \in Tiles /\ p \in Area(TileRect(TileOf(p)))
<1>1. p[1] \in 0 .. Cols - 1 /\ p[2] \in 0 .. Rows - 1 /\ p = <<p[1], p[2]>>
  BY DEF Pixels
<1>2. /\ Quot(p[1], TileW) \in Nat /\ (Quot(p[1], TileW)) * TileW <= p[1]
      /\ Quot(p[2], TileH) \in Nat /\ (Quot(p[2], TileH)) * TileH <= p[2]
  <2>1. p[1] \in Nat /\ p[2] \in Nat
    BY <1>1, Grid
  <2>2. Quot(p[1], TileW) \in Nat /\ Quot(p[2], TileH) \in Nat
    BY <2>1, Grid, DivMod
  <2> QED
    BY <2>1, <2>2, Grid, DivBounds
<1>3. Quot(p[1], TileW) < TilesX /\ Quot(p[2], TileH) < TilesY
  <2> DEFINE a == Quot(p[1], TileW)
             b == Quot(p[2], TileH)
  <2>1. a * TileW \in Int /\ b * TileH \in Int
    BY <1>2, Grid
  <2> QED
    BY <1>1, <1>2, <2>1, Grid
<1>4. TileOf(p) \in Tiles
  BY <1>2, <1>3, Grid DEF TileOf, Tiles
<1>5. TileOf(p)[1] \in 0 .. TilesX - 1 /\ TileOf(p)[2] \in 0 .. TilesY - 1
      /\ TileOf(p) = <<TileOf(p)[1], TileOf(p)[2]>>
  BY <1>4 DEF Tiles, TileOf
<1>6. TileOf(p) \in (TileOf(p)[1] .. TileOf(p)[1]) \X (TileOf(p)[2] .. TileOf(p)[2])
  BY <1>5
<1>7. TileOf(p)[1] \in TileOf(p)[1] .. TilesX - 1 /\ TileOf(p)[2] \in TileOf(p)[2] .. TilesY - 1
  BY <1>5
<1> QED
  BY <1>4, <1>5, <1>6, <1>7, BlockArea DEF TileRect

-----------------------------------------------------------------------------
(* build_tile_rects.                                                       *)

Corners == [x0 : 0 .. Cols - 1, y0 : 0 .. Rows - 1, x1 : 0 .. Cols - 1, y1 : 0 .. Rows - 1]

\* How far the scan is when it has seen the tiles before the n-th: what it has
\* taken is dirty and cut into rectangles of their own, and no dirty tile is left.
Scanned(dirty, s, n) ==
  /\ s.used \subseteq dirty
  /\ \A t \in dirty : ScanNumber(t) < n => t \in s.used
  /\ s.rects \in Seq({r \in Corners : OnPanel(r)})
  /\ \A i \in 1 .. Len(s.rects) :
       /\ \A p \in Area(s.rects[i]) : p \in Pixels /\ TileOf(p) \in s.used
       /\ \A j \in 1 .. Len(s.rects) : i # j => Area(s.rects[i]) \cap Area(s.rects[j]) = {}
  /\ \A p \in Pixels : TileOf(p) \in s.used => \E i \in 1 .. Len(s.rects) : p \in Area(s.rects[i])

LEMMA TileNumbers ==
  /\ \A t \in Tiles : TileAt(ScanNumber(t)) = t /\ ScanNumber(t) \in 0 .. TilesX * TilesY - 1
  /\ \A n \in 0 .. TilesX * TilesY - 1 : TileAt(n) \in Tiles
<1>1. ASSUME NEW t \in Tiles
      PROVE  TileAt(ScanNumber(t)) = t /\ ScanNumber(t) \in 0 .. TilesX * TilesY - 1
  <2>1. PICK x \in 0 .. TilesX - 1, y \in 0 .. TilesY - 1 : t = <<x, y>>
    BY DEF Tiles
  <2>2. x \in Nat /\ y \in Nat /\ y <= TilesY - 1
    BY <2>1, Grid
  <2>3. TileAt(y * TilesX + x) = <<Rest(y * TilesX + x, TilesX), Quot(y * TilesX + x, TilesX)>>
    BY DEF TileAt, Rest, Quot
  <2>4. TileAt(y * TilesX + x) = t
    BY <2>1, <2>2, <2>3, Grid, DivUnique
  <2>5. y * TilesX \in Nat /\ y * TilesX + TilesX <= TilesX * TilesY
    <3>1. (TilesY - 1 - y) * TilesX >= 0
      BY <2>2, Grid, Z3
    <3>2. TilesX * TilesY = (TilesY - 1 - y) * TilesX + y * TilesX + TilesX
      BY <2>2, Grid, Z3
    <3> QED
      BY <2>2, <3>1, <3>2, Grid, Z3
  <2>6. y * TilesX + x \in 0 .. TilesX * TilesY - 1
    BY <2>2, <2>5, Grid, Z3
  <2> QED
    BY <2>1, <2>4, <2>6 DEF ScanNumber
<1>2. ASSUME NEW n \in 0 .. TilesX * TilesY - 1
      PROVE  TileAt(n) \in Tiles
  <2>1. TileAt(n) = <<Rest(n, TilesX), Quot(n, TilesX)>>
    BY DEF TileAt, Rest, Quot
  <2>2. TilesX * TilesY \in Nat /\ TilesX * TilesY = TilesY * TilesX
    BY Grid, Z3
  <2>3. n \in Nat /\ n < TilesY * TilesX
    BY <2>2
  <2>4. Rest(n, TilesX) \in 0 .. TilesX - 1 /\ Quot(n, TilesX) \in Nat
    BY <2>3, Grid, DivMod
  <2>5. TilesY - 1 \in Nat /\ TilesY - 1 + 1 = TilesY
    BY Grid
  <2>6. Quot(n, TilesX) <= TilesY - 1
    BY <2>3, <2>5, Grid, DivBounds
  <2> QED
    BY <2>1, <2>4, <2>5, <2>6 DEF Tiles
<1> QED
  BY <1>1, <1>2

\* The block of tiles that is taken from t.
LEMMA BlockTaken ==
  ASSUME NEW dirty \in SUBSET Tiles, NEW used, NEW t \in dirty \ used
  PROVE  LET x1 == RunEnd(dirty, used, t)
             y1 == RunBottom(dirty, used, t, x1)
         IN /\ t[1] \in 0 .. TilesX - 1 /\ x1 \in t[1] .. TilesX - 1
            /\ t[2] \in 0 .. TilesY - 1 /\ y1 \in t[2] .. TilesY - 1
            /\ t \in (t[1] .. x1) \X (t[2] .. y1)
            /\ (t[1] .. x1) \X (t[2] .. y1) \subseteq dirty \ used
<1> DEFINE xs == {x \in t[1] .. TilesX - 1 : \A i \in t[1] .. x : <<i, t[2]>> \in dirty \ used}
           x1 == RunEnd(dirty, used, t)
           ys == {y \in t[2] .. TilesY - 1 :
                    \A j \in t[2] + 1 .. y : FreeBelow(dirty, used, t[1], x1, j)}
           y1 == RunBottom(dirty, used, t, x1)
<1>1. /\ t[1] \in 0 .. TilesX - 1 /\ t[2] \in 0 .. TilesY - 1 /\ t = <<t[1], t[2]>>
      /\ TilesX \in Nat /\ TilesY \in Nat
  BY Grid DEF Tiles
<1>2. x1 \in xs
  <2>1. xs \in SUBSET Int /\ \A x \in xs : x <= TilesX - 1
    BY <1>1
  <2>2. t[1] \in xs
    BY <1>1
  <2>3. x1 = Max(xs)
    BY DEF RunEnd
  <2>4. TilesX - 1 \in Int
    BY <1>1
  <2> HIDE DEF xs, x1
  <2> QED
    BY <2>1, <2>2, <2>3, <2>4, GreatestOfSome
<1>3. y1 \in ys
  <2>1. ys \in SUBSET Int /\ \A y \in ys : y <= TilesY - 1
    BY <1>1
  <2>2. t[2] \in ys
    BY <1>1
  <2>3. y1 = Max(ys)
    BY DEF RunBottom
  <2>4. TilesY - 1 \in Int
    BY <1>1
  <2> HIDE DEF ys, y1, x1
  <2> QED
    BY <2>1, <2>2, <2>3, <2>4, GreatestOfSome
<1>4. x1 \in t[1] .. TilesX - 1 /\ \A i \in t[1] .. x1 : <<i, t[2]>> \in dirty \ used
  BY <1>2
<1>5. y1 \in t[2] .. TilesY - 1 /\ \A j \in t[2] + 1 .. y1, i \in t[1] .. x1 : <<i, j>> \in dirty \ used
  BY <1>3 DEF FreeBelow
<1> HIDE DEF x1, y1
<1>6. ASSUME NEW i \in t[1] .. x1, NEW j \in t[2] .. y1 PROVE <<i, j>> \in dirty \ used
  <2>1. j = t[2] \/ j \in t[2] + 1 .. y1
    BY <1>1, <1>5
  <2> QED
    BY <1>4, <1>5, <2>1
<1>7. t \in (t[1] .. x1) \X (t[2] .. y1)
  BY <1>1, <1>4, <1>5
<1>8. (t[1] .. x1) \X (t[2] .. y1) \subseteq dirty \ used
  BY <1>6
<1> QED
  BY <1>1, <1>4, <1>5, <1>7, <1>8 DEF x1, y1

LEMMA TakeKeeps ==
  ASSUME NEW dirty \in SUBSET Tiles, NEW n \in 0 .. TilesX * TilesY - 1,
         NEW s, Scanned(dirty, s, n)
  PROVE  Scanned(dirty, TakeFrom(dirty, s, TileAt(n)), n + 1)
<1> DEFINE t == TileAt(n)
           used == s.used
           x1 == RunEnd(dirty, used, t)
           y1 == RunBottom(dirty, used, t, x1)
           block == (t[1] .. x1) \X (t[2] .. y1)
           r == RectFromTiles(t[1], t[2], x1, y1)
           taken == [used |-> s.used \cup block, rects |-> Append(s.rects, r)]
<1>1. \A u \in dirty : ScanNumber(u) < n + 1 => ScanNumber(u) < n \/ u = t
  <2> SUFFICES ASSUME NEW u \in dirty, ScanNumber(u) < n + 1, ~(ScanNumber(u) < n)
               PROVE  u = t
    OBVIOUS
  <2>1. TileAt(ScanNumber(u)) = u /\ ScanNumber(u) \in Int
    BY TileNumbers
  <2>2. ScanNumber(u) = n
    BY <2>1
  <2> QED
    BY <2>1, <2>2
<1>2. CASE t \notin dirty \ s.used
  <2>1. TakeFrom(dirty, s, t) = s
    BY <1>2 DEF TakeFrom
  <2> QED
    BY <1>1, <1>2, <2>1 DEF Scanned
<1>3. CASE t \in dirty \ s.used
  <2>1. TakeFrom(dirty, s, t) = taken
    BY <1>3 DEF TakeFrom
  <2> HIDE DEF t, used
  <2>2. /\ t[1] \in 0 .. TilesX - 1 /\ x1 \in t[1] .. TilesX - 1
        /\ t[2] \in 0 .. TilesY - 1 /\ y1 \in t[2] .. TilesY - 1
        /\ t \in block
        /\ block \subseteq dirty \ used
    <3>1. t \in dirty \ used
      BY <1>3 DEF used
    <3> QED
      BY <3>1, BlockTaken
  <2> USE DEF used
  <2> HIDE DEF x1, y1
  <2>3. OnPanel(r) /\ Area(r) = {p \in Pixels : TileOf(p) \in block}
    BY <2>2, BlockArea
  <2>4. r \in {q \in Corners : OnPanel(q)}
    BY <2>3 DEF OnPanel, Corners
  <2> HIDE DEF block, r
  <2>5. /\ taken.used = s.used \cup block /\ taken.rects = Append(s.rects, r)
    OBVIOUS
  <2> DEFINE rects == Append(s.rects, r)
  <2>6. /\ rects \in Seq({q \in Corners : OnPanel(q)}) /\ Len(rects) = Len(s.rects) + 1
        /\ Len(s.rects) \in Nat /\ rects[Len(s.rects) + 1] = r
        /\ \A i \in 1 .. Len(s.rects) : rects[i] = s.rects[i]
    BY <2>4 DEF Scanned
  <2> HIDE DEF rects
  <2>7. \A i \in 1 .. Len(s.rects) : \A p \in Area(s.rects[i]) : p \in Pixels /\ TileOf(p) \in s.used
    BY DEF Scanned
  <2>8. \A i \in 1 .. Len(s.rects) : Area(s.rects[i]) \cap Area(r) = {}
    BY <2>2, <2>3, <2>7
  <2>9. ASSUME NEW i \in 1 .. Len(rects)
        PROVE  /\ \A p \in Area(rects[i]) : p \in Pixels /\ TileOf(p) \in s.used \cup block
               /\ \A j \in 1 .. Len(rects) : i # j => Area(rects[i]) \cap Area(rects[j]) = {}
    <3>1. i \in 1 .. Len(s.rects) \/ (i = Len(s.rects) + 1 /\ rects[i] = r)
      BY <2>6
    <3>2. \A p \in Area(rects[i]) : p \in Pixels /\ TileOf(p) \in s.used \cup block
      BY <2>3, <2>6, <2>7, <3>1
    <3>3. ASSUME NEW j \in 1 .. Len(rects), i # j PROVE Area(rects[i]) \cap Area(rects[j]) = {}
      <4>1. j \in 1 .. Len(s.rects) \/ (j = Len(s.rects) + 1 /\ rects[j] = r)
        BY <2>6
      <4> QED
        BY <2>6, <2>8, <3>1, <3>3, <4>1 DEF Scanned
    <3> QED
      BY <3>2, <3>3
  <2>10. ASSUME NEW p \in Pixels, TileOf(p) \in s.used \cup block
         PROVE  \E i \in 1 .. Len(rects) : p \in Area(rects[i])
    <3>1. CASE TileOf(p) \in s.used
      <4>1. PICK i \in 1 .. Len(s.rects) : p \in Area(s.rects[i])
        BY <3>1 DEF Scanned
      <4> QED
        BY <2>6, <4>1
    <3>2. CASE TileOf(p) \in block
      BY <2>3, <2>6, <3>2
    <3> QED
      BY <2>10, <3>1, <3>2
  <2>11. s.used \cup block \subseteq dirty
         /\ \A u \in dirty : ScanNumber(u) < n + 1 => u \in s.used \cup block
    BY <1>1, <2>2 DEF Scanned
  <2>12. Scanned(dirty, taken, n + 1)
    BY <2>5, <2>6, <2>9, <2>10, <2>11 DEF Scanned, rects
  <2> QED
    BY <2>1, <2>12 DEF t
<1> QED
  BY <1>2, <1>3

\* f is the scan of the first k tiles.
Scans(dirty, f, k) ==
  f = [n \in 0 .. k |-> IF n = 0 THEN [used |-> {}, rects |-> <<>>]
                        ELSE TakeFrom(dirty, f[n - 1], TileAt(n - 1))]

\* The recursion of build_tile_rects has a solution: there is no least scan without.
LEMMA ScanExists ==
  ASSUME NEW dirty, NEW k \in Nat
  PROVE  \E f : Scans(dirty, f, k)
<1> DEFINE none == {i \in Nat : ~\E f : Scans(dirty, f, i)}
<1>1. SUFFICES ASSUME none # {} PROVE FALSE
  OBVIOUS
<1>2. PICK i \in none : \A j \in none : i <= j
  <2>1. none \in SUBSET Int /\ 0 \in Int /\ \A j \in none : 0 <= j
    OBVIOUS
  <2> HIDE DEF none
  <2> QED
    BY <1>1, <2>1, LeastOfSome
<1>3. CASE i = 0
  <2> DEFINE f == [n \in 0 .. 0 |-> [used |-> {}, rects |-> <<>>]]
  <2>1. Scans(dirty, f, 0)
    <3>1. \A n \in 0 .. 0 : n = 0
      OBVIOUS
    <3> QED
      BY <3>1 DEF Scans
  <2> QED
    BY <1>3, <2>1
<1>4. CASE i # 0
  <2>1. i \in Nat /\ i - 1 \in Nat /\ i - 1 \notin none
    BY <1>2, <1>4
  <2>2. PICK g : Scans(dirty, g, i - 1)
    BY <2>1
  <2> DEFINE f == [n \in 0 .. i |-> IF n = i THEN TakeFrom(dirty, g[i - 1], TileAt(i - 1)) ELSE g[n]]
  <2>3. \A n \in 0 .. i - 1 : f[n] = g[n]
    BY <2>1
  <2>4. \A n \in 0 .. i - 1 :
          g[n] = IF n = 0 THEN [used |-> {}, rects |-> <<>>]
                 ELSE TakeFrom(dirty, g[n - 1], TileAt(n - 1))
    BY <2>2 DEF Scans
  <2>5. ASSUME NEW n \in 0 .. i
        PROVE  f[n] = IF n = 0 THEN [used |-> {}, rects |-> <<>>]
                      ELSE TakeFrom(dirty, f[n - 1], TileAt(n - 1))
    <3>1. CASE n = i
      <4>1. f[n] = TakeFrom(dirty, g[i - 1], TileAt(i - 1))
        BY <3>1
      <4>2. f[i - 1] = g[i - 1]
        BY <2>1, <2>3
      <4> HIDE DEF f
      <4> QED
        BY <1>4, <3>1, <4>1, <4>2
    <3>2. CASE n # i
      <4>1. n \in 0 .. i - 1 /\ (n # 0 => n - 1 \in 0 .. i - 1)
        BY <2>1, <3>2
      <4> HIDE DEF f
      <4> QED
        BY <2>3, <2>4, <4>1
    <3> QED
      BY <3>1, <3>2
  <2>6. f = [n \in 0 .. i |-> f[n]]
    OBVIOUS
  <2> HIDE DEF f
  <2>7. Scans(dirty, f, i)
    BY <2>5, <2>6 DEF Scans
  <2> QED
    BY <1>2, <2>7
<1> QED
  BY <1>3, <1>4

\* What the scan has done is right at every step: there is no first wrong one.
LEMMA ScanIsRight ==
  ASSUME NEW dirty \in SUBSET Tiles, NEW f, Scans(dirty, f, TilesX * TilesY)
  PROVE  \A n \in 0 .. TilesX * TilesY : Scanned(dirty, f[n], n)
<1> DEFINE N == TilesX * TilesY
           wrong == {n \in 0 .. N : ~Scanned(dirty, f[n], n)}
<1>1. N \in Nat
  BY Grid, Z3
<1> HIDE DEF N
<1>2. SUFFICES ASSUME wrong # {} PROVE FALSE
  BY DEF N
<1>3. PICK n \in wrong : \A j \in wrong : n <= j
  <2>1. wrong \in SUBSET Int /\ 0 \in Int /\ \A j \in wrong : 0 <= j
    BY <1>1
  <2> HIDE DEF wrong
  <2> QED
    BY <1>2, <2>1, LeastOfSome
<1>4. \A i \in 0 .. N : f[i] = IF i = 0 THEN [used |-> {}, rects |-> <<>>]
                               ELSE TakeFrom(dirty, f[i - 1], TileAt(i - 1))
  BY DEF Scans, N
<1>5. CASE n = 0
  <2>1. f[0].used = {} /\ f[0].rects = <<>>
    BY <1>1, <1>4
  <2>2. \A t \in dirty : ~(ScanNumber(t) < 0)
    BY TileNumbers
  <2>3. <<>> \in Seq({r \in Corners : OnPanel(r)}) /\ Len(<<>>) = 0
    OBVIOUS
  <2>4. Scanned(dirty, f[0], 0)
    BY <2>1, <2>2, <2>3 DEF Scanned
  <2> QED
    BY <1>3, <1>5, <2>4
<1>6. CASE n # 0
  <2>1. n - 1 \in 0 .. N - 1 /\ n - 1 \in 0 .. N /\ n \in 0 .. N /\ n - 1 \notin wrong /\ (n - 1) + 1 = n
    BY <1>1, <1>3, <1>6
  <2>2. Scanned(dirty, f[n - 1], n - 1)
    BY <2>1
  <2>3. Scanned(dirty, TakeFrom(dirty, f[n - 1], TileAt(n - 1)), n)
    BY <2>1, <2>2, TakeKeeps DEF N
  <2>4. f[n] = TakeFrom(dirty, f[n - 1], TileAt(n - 1))
    BY <1>4, <1>6, <2>1
  <2> QED
    BY <1>3, <2>3, <2>4
<1> QED
  BY <1>5, <1>6

\* build_tile_rects cuts the dirty tiles, and no others, into rectangles.
LEMMA TileRectsAreRight ==
  ASSUME NEW dirty \in SUBSET Tiles
  PROVE  LET rects == BuildTileRects(dirty)
         IN /\ rects \in Seq({r \in Corners : OnPanel(r)})
            /\ \A i \in 1 .. Len(rects) :
                 /\ Area(rects[i]) \subseteq Pixels
                 /\ \A j \in 1 .. Len(rects) : i # j => Area(rects[i]) \cap Area(rects[j]) = {}
            /\ \A p \in Pixels : TileOf(p) \in dirty => \E i \in 1 .. Len(rects) : p \in Area(rects[i])
<1> DEFINE N == TilesX * TilesY
           f == CHOOSE f : Scans(dirty, f, N)
<1>1. N \in Nat
  BY Grid, Z3
<1>2. Scans(dirty, f, N)
  BY <1>1, ScanExists
<1>3. BuildTileRects(dirty) = f[N].rects
  BY DEF BuildTileRects, Scans
<1>4. Scanned(dirty, f[N], N)
  BY <1>1, <1>2, ScanIsRight
<1> HIDE DEF f, N
<1>5. \A t \in dirty : ScanNumber(t) < N
  BY <1>1, TileNumbers DEF N
<1> QED
  BY <1>3, <1>4, <1>5 DEF Scanned

-----------------------------------------------------------------------------
(* The single box.                                                         *)

Differ(f, g, x, y) == f[<<x, y>>] # g[<<x, y>>]

\* The bounds of a row are the first and the last pixel that differ, although only
\* words are looked at first.
LEMMA RowBounds ==
  ASSUME NEW f, NEW g, NEW y
  PROVE  \/ /\ RowDiffBounds(f, g, y) = <<>>
            /\ \A x \in 0 .. Cols - 1 : ~Differ(f, g, x, y)
         \/ \E left, right \in 0 .. Cols - 1 :
              /\ RowDiffBounds(f, g, y) = <<left, right>> /\ left <= right
              /\ \A x \in 0 .. Cols - 1 : Differ(f, g, x, y) => left <= x /\ x <= right
<1> DEFINE C == Cols \div WordPixels
           words == {w \in 0 .. C - 1 : \E i \in 0 .. WordPixels - 1 : Differ(f, g, w * WordPixels + i, y)}
           low == Min(words)
           high == Max(words)
           lefts == {x \in low * WordPixels .. Cols - 1 : Differ(f, g, x, y)}
           left == Min(lefts)
           rights == {x \in left .. (high + 1) * WordPixels - 1 : Differ(f, g, x, y)}
           right == Max(rights)
<1>1. RowDiffBounds(f, g, y) = IF words = {} THEN <<>> ELSE <<left, right>>
  BY DEF RowDiffBounds, Differ
<1>2. C \in Nat /\ Cols = C * WordPixels
  <2>1. C = Quot(Cols, WordPixels) /\ Cols % WordPixels = Rest(Cols, WordPixels)
    BY DEF Quot, Rest
  <2>2. Cols % WordPixels = 0
    BY GridAssumption
  <2> HIDE DEF C
  <2>3. C \in Nat /\ Cols = C * WordPixels + 0
    BY <2>1, <2>2, Grid, DivMod
  <2> QED
    BY <2>3, Grid, Z3
<1> HIDE DEF C
<1>3. ASSUME NEW x \in 0 .. Cols - 1, Differ(f, g, x, y)
      PROVE  Quot(x, WordPixels) \in words
  <2> DEFINE w == Quot(x, WordPixels)
             i == Rest(x, WordPixels)
  <2>1. x \in Nat /\ w \in Nat /\ i \in 0 .. WordPixels - 1 /\ x = w * WordPixels + i
    BY Grid, DivMod
  <2>2. C - 1 \in Nat /\ C - 1 + 1 = C
    <3>1. C # 0
      BY <1>2, Grid, Z3
    <3> QED
      BY <1>2, <3>1
  <2>3. x < (C - 1 + 1) * WordPixels
    BY <1>2, <2>2, Grid
  <2>4. w <= C - 1
    BY <2>1, <2>2, <2>3, Grid, DivBounds
  <2> HIDE DEF w, i
  <2> QED
    BY <1>2, <1>3, <2>1, <2>2, <2>4 DEF w
<1>4. ASSUME NEW w \in words
      PROVE  /\ w \in Nat /\ w * WordPixels \in Nat /\ (w + 1) * WordPixels <= Cols
             /\ \E x \in 0 .. Cols - 1 : Differ(f, g, x, y) /\ w * WordPixels <= x
  <2>1. w \in Nat /\ w <= C - 1
    BY <1>2
  <2>2. (w + 1) * WordPixels <= Cols /\ w * WordPixels \in Nat
        /\ (w + 1) * WordPixels = w * WordPixels + WordPixels
    <3>1. (C - (w + 1)) * WordPixels >= 0
      BY <1>2, <2>1, Grid, Z3
    <3>2. C * WordPixels = (C - (w + 1)) * WordPixels + (w + 1) * WordPixels
      BY <1>2, <2>1, Grid, Z3
    <3> QED
      BY <1>2, <2>1, <3>1, <3>2, Grid, Z3
  <2>3. PICK i \in 0 .. WordPixels - 1 : Differ(f, g, w * WordPixels + i, y)
    OBVIOUS
  <2>4. w * WordPixels + i \in 0 .. Cols - 1 /\ w * WordPixels <= w * WordPixels + i
    BY <2>2, Grid
  <2> QED
    BY <2>1, <2>2, <2>3, <2>4
<1>5. CASE words = {}
  BY <1>1, <1>3, <1>5
<1>6. CASE words # {}
  <2>1. /\ low \in words /\ \A w \in words : low <= w
        /\ high \in words /\ \A w \in words : w <= high
    <3>1. words \in SUBSET Int /\ (\A w \in words : 0 <= w) /\ (\A w \in words : w <= C - 1)
          /\ 0 \in Int /\ C - 1 \in Int
      BY <1>2
    <3> HIDE DEF words
    <3> QED
      BY <1>6, <3>1, LeastOfSome, GreatestOfSome
  <2> HIDE DEF words, low, high
  <2>2. /\ low \in Nat /\ low * WordPixels \in Nat
        /\ high \in Nat /\ (high + 1) * WordPixels \in Nat /\ (high + 1) * WordPixels <= Cols
        /\ \E x \in 0 .. Cols - 1 : Differ(f, g, x, y) /\ low * WordPixels <= x
    <3>1. (high + 1) * WordPixels \in Nat
      BY <1>4, <2>1, Grid, Z3
    <3> QED
      BY <1>4, <2>1, <3>1
  <2>3. \A x \in 0 .. Cols - 1 : Differ(f, g, x, y)
          => low * WordPixels <= x /\ x < (high + 1) * WordPixels
    <3> SUFFICES ASSUME NEW x \in 0 .. Cols - 1, Differ(f, g, x, y)
                 PROVE  low * WordPixels <= x /\ x < (high + 1) * WordPixels
      OBVIOUS
    <3>1. low <= Quot(x, WordPixels) /\ Quot(x, WordPixels) <= high /\ x \in Nat
      BY <1>3, <2>1, Grid
    <3> QED
      BY <2>2, <3>1, Grid, DivBounds
  <2>4. left \in lefts /\ \A x \in lefts : left <= x
    <3>1. lefts \in SUBSET Int /\ lefts # {} /\ 0 \in Int /\ \A x \in lefts : 0 <= x
      BY <2>2, Grid
    <3> HIDE DEF lefts
    <3> QED
      BY <3>1, LeastOfSome
  <2>5. left \in 0 .. Cols - 1 /\ Differ(f, g, left, y)
        /\ \A x \in 0 .. Cols - 1 : Differ(f, g, x, y) => left <= x
    BY <2>2, <2>3, <2>4, Grid
  <2> HIDE DEF left, lefts
  <2>6. right \in rights /\ \A x \in rights : x <= right
    <3>1. left \in rights
      BY <2>2, <2>3, <2>5
    <3>2. rights \in SUBSET Int /\ rights # {} /\ Cols \in Int /\ \A x \in rights : x <= Cols
      BY <2>2, <2>5, <3>1, Grid
    <3> HIDE DEF rights
    <3> QED
      BY <3>2, GreatestOfSome
  <2>7. right \in 0 .. Cols - 1 /\ left <= right
        /\ \A x \in 0 .. Cols - 1 : Differ(f, g, x, y) => x <= right
    BY <2>2, <2>3, <2>5, <2>6, Grid
  <2> HIDE DEF right, rights
  <2> QED
    BY <1>1, <1>6, <2>5, <2>7
<1> QED
  BY <1>5, <1>6

-----------------------------------------------------------------------------
(* What a pass sends.                                                      *)

\* A list of rectangles a pass may send, and one that shows the new frame where
\* the panel shows the old one.
Sendable(rects) ==
  /\ rects \in Seq({r \in Corners : OnPanel(r)}) /\ Len(rects) <= MaxRects
  /\ \A i, j \in 1 .. Len(rects) : i # j => Area(rects[i]) \cap Area(rects[j]) = {}

Repaints(rects, f, g) ==
  \A p \in Pixels : f[p] # g[p] => \E i \in 1 .. Len(rects) : p \in Area(rects[i])

LEMMA PanelAreas ==
  /\ \A r \in Corners : OnPanel(r) => Area(r) \subseteq Pixels
  /\ OnPanel(Full) /\ Full \in Corners /\ Area(Full) = Pixels
<1>1. ASSUME NEW r \in Corners PROVE Area(r) \subseteq Pixels
  <2>1. /\ r.x0 \in 0 .. Cols - 1 /\ r.x1 \in 0 .. Cols - 1
        /\ r.y0 \in 0 .. Rows - 1 /\ r.y1 \in 0 .. Rows - 1
    BY DEF Corners
  <2>2. \A x \in r.x0 .. r.x1 : x \in 0 .. Cols - 1
    BY <2>1, Grid
  <2>3. \A y \in r.y0 .. r.y1 : y \in 0 .. Rows - 1
    BY <2>1, Grid
  <2> QED
    BY <2>2, <2>3 DEF Area, Pixels
<1>2. 0 \in 0 .. Cols - 1 /\ Cols - 1 \in 0 .. Cols - 1 /\ 0 \in 0 .. Rows - 1 /\ Rows - 1 \in 0 .. Rows - 1
  BY Grid
<1>3. OnPanel(Full) /\ Full \in Corners /\ Area(Full) = Pixels
  BY <1>2 DEF OnPanel, Corners, Full, Rect, Area, Pixels
<1> QED
  BY <1>1, <1>3

LEMMA OneIsSendable ==
  ASSUME NEW r \in Corners, OnPanel(r)
  PROVE  Sendable(<<r>>) /\ Len(<<r>>) = 1 /\ <<r>>[1] = r
<1>1. <<r>> \in Seq({q \in Corners : OnPanel(q)}) /\ Len(<<r>>) = 1 /\ <<r>>[1] = r
  OBVIOUS
<1>2. 1 <= MaxRects
  BY Grid
<1> QED
  BY <1>1, <1>2 DEF Sendable

\* Nothing, everything, or one box.
LEMMA NoneAndFull ==
  /\ Sendable(<<>>)
  /\ Sendable(<<Full>>) /\ \A f, g : Repaints(<<Full>>, f, g)
<1>1. <<>> \in Seq({q \in Corners : OnPanel(q)}) /\ Len(<<>>) = 0 /\ 0 <= MaxRects
  BY Grid
<1>2. Sendable(<<>>)
  BY <1>1 DEF Sendable
<1>3. Sendable(<<Full>>) /\ Len(<<Full>>) = 1 /\ <<Full>>[1] = Full
  BY OneIsSendable, PanelAreas
<1>4. ASSUME NEW f, NEW g PROVE Repaints(<<Full>>, f, g)
  BY <1>3, PanelAreas DEF Repaints
<1> QED
  BY <1>2, <1>3, <1>4

LEMMA BoxIsRight ==
  ASSUME NEW f, NEW g
  PROVE  Sendable(FastDirtyBbox(f, g)) /\ Repaints(FastDirtyBbox(f, g), f, g)
<1> DEFINE bounds == [y \in 0 .. Rows - 1 |-> RowDiffBounds(f, g, y)]
           ys == {y \in 0 .. Rows - 1 : bounds[y] # <<>>}
           lefts == {bounds[y][1] : y \in ys}
           rights == {bounds[y][2] : y \in ys}
           r == Rect(Min(lefts), Min(ys), Max(rights), Max(ys))
<1>1. FastDirtyBbox(f, g) = IF ys = {} THEN <<>> ELSE <<r>>
  BY DEF FastDirtyBbox
<1>2. \A y \in 0 .. Rows - 1 : bounds[y] = RowDiffBounds(f, g, y)
  OBVIOUS
<1> HIDE DEF bounds
<1>3. ASSUME NEW y \in ys
      PROVE  /\ bounds[y][1] \in 0 .. Cols - 1 /\ bounds[y][2] \in 0 .. Cols - 1
             /\ bounds[y][1] <= bounds[y][2]
             /\ \A x \in 0 .. Cols - 1 : Differ(f, g, x, y) => bounds[y][1] <= x /\ x <= bounds[y][2]
  <2>1. PICK left \in 0 .. Cols - 1, right \in 0 .. Cols - 1 :
          /\ bounds[y] = <<left, right>> /\ left <= right
          /\ \A x \in 0 .. Cols - 1 : Differ(f, g, x, y) => left <= x /\ x <= right
    BY <1>2, RowBounds
  <2> QED
    BY <2>1
<1>4. ASSUME NEW y \in 0 .. Rows - 1, NEW x \in 0 .. Cols - 1, Differ(f, g, x, y) PROVE y \in ys
  <2>1. PICK left \in 0 .. Cols - 1, right \in 0 .. Cols - 1 : bounds[y] = <<left, right>>
    BY <1>2, <1>4, RowBounds
  <2>2. <<left, right>> # <<>>
    OBVIOUS
  <2> QED
    BY <2>1, <2>2
<1>5. CASE ys = {}
  <2>1. ASSUME NEW p \in Pixels PROVE f[p] = g[p]
    <3>1. p = <<p[1], p[2]>> /\ p[1] \in 0 .. Cols - 1 /\ p[2] \in 0 .. Rows - 1
      BY DEF Pixels
    <3>2. ~Differ(f, g, p[1], p[2])
      BY <1>4, <1>5, <3>1
    <3> QED
      BY <3>1, <3>2 DEF Differ
  <2> QED
    BY <1>1, <1>5, <2>1, NoneAndFull DEF Repaints
<1>6. CASE ys # {}
  <2>1. /\ Cols \in Int /\ Rows \in Int
        /\ \A x \in 0 .. Cols - 1 : x \in Int /\ 0 <= x /\ x <= Cols
        /\ \A y \in 0 .. Rows - 1 : y \in Int /\ 0 <= y /\ y <= Rows
    BY Grid
  <2>2. /\ \A y \in ys : y \in 0 .. Rows - 1 /\ bounds[y][1] \in lefts /\ bounds[y][2] \in rights
        /\ \A x \in lefts : x \in 0 .. Cols - 1
        /\ \A x \in rights : x \in 0 .. Cols - 1
    BY <1>3
  <2>3. lefts # {} /\ rights # {}
    BY <1>6
  <2> HIDE DEF ys, lefts, rights
  <2>4. /\ Min(ys) \in ys /\ (\A y \in ys : Min(ys) <= y)
        /\ Min(lefts) \in lefts /\ (\A x \in lefts : Min(lefts) <= x)
    <3>1. ys \in SUBSET Int /\ lefts \in SUBSET Int /\ 0 \in Int
          /\ (\A y \in ys : 0 <= y) /\ (\A x \in lefts : 0 <= x)
      BY <2>1, <2>2
    <3> QED
      BY <1>6, <2>3, <3>1, LeastOfSome
  <2>5. /\ Max(ys) \in ys /\ (\A y \in ys : y <= Max(ys))
        /\ Max(rights) \in rights /\ (\A x \in rights : x <= Max(rights))
    <3>1. ys \in SUBSET Int /\ rights \in SUBSET Int
          /\ (\A y \in ys : y <= Rows) /\ (\A x \in rights : x <= Cols)
      BY <2>1, <2>2
    <3> QED
      BY <1>6, <2>1, <2>3, <3>1, GreatestOfSome
  <2>6. Min(lefts) \in 0 .. Cols - 1 /\ Max(rights) \in 0 .. Cols - 1
        /\ Min(ys) \in 0 .. Rows - 1 /\ Max(ys) \in 0 .. Rows - 1
    BY <2>2, <2>4, <2>5
  <2>7. Min(lefts) <= Max(rights) /\ Min(ys) <= Max(ys)
    <3>1. PICK y \in ys : TRUE
      BY <1>6
    <3>2. Min(lefts) <= bounds[y][1] /\ bounds[y][1] <= bounds[y][2] /\ bounds[y][2] <= Max(rights)
          /\ Min(ys) <= y /\ y <= Max(ys)
      BY <1>3, <2>2, <2>4, <2>5
    <3>3. bounds[y][1] \in Int /\ bounds[y][2] \in Int /\ y \in Int
          /\ Min(lefts) \in Int /\ Max(rights) \in Int /\ Min(ys) \in Int /\ Max(ys) \in Int
      BY <1>3, <2>1, <2>2, <2>6
    <3> QED
      BY <3>2, <3>3
  <2>8. r \in Corners /\ OnPanel(r)
    BY <2>6, <2>7 DEF Corners, OnPanel, Rect
  <2>9. ASSUME NEW p \in Pixels, f[p] # g[p] PROVE p \in Area(r)
    <3>1. p = <<p[1], p[2]>> /\ p[1] \in 0 .. Cols - 1 /\ p[2] \in 0 .. Rows - 1
      BY DEF Pixels
    <3>2. Differ(f, g, p[1], p[2]) /\ p[2] \in ys
      BY <1>4, <2>9, <3>1 DEF Differ
    <3>3. bounds[p[2]][1] <= p[1] /\ p[1] <= bounds[p[2]][2]
          /\ bounds[p[2]][1] \in Int /\ bounds[p[2]][2] \in Int
      BY <1>3, <3>1, <3>2
    <3>4. Min(lefts) <= p[1] /\ p[1] <= Max(rights) /\ Min(ys) <= p[2] /\ p[2] <= Max(ys)
      <4>1. bounds[p[2]][1] \in lefts /\ bounds[p[2]][2] \in rights
        BY <2>2, <3>2
      <4> QED
        BY <2>4, <2>5, <2>6, <3>1, <3>2, <3>3, <4>1
    <3> QED
      BY <2>6, <3>1, <3>4 DEF Area, Rect
  <2>10. Sendable(<<r>>) /\ Len(<<r>>) = 1 /\ <<r>>[1] = r
    BY <2>8, OneIsSendable
  <2> HIDE DEF r
  <2> QED
    BY <1>1, <1>6, <2>9, <2>10 DEF Repaints
<1> QED
  BY <1>5, <1>6

\* A box around dirty tiles.
LEMMA TileBoxIsRight ==
  ASSUME NEW dirty \in SUBSET Tiles, dirty # {}
  PROVE  /\ DirtyBbox(dirty) \in Corners /\ OnPanel(DirtyBbox(dirty))
         /\ \A p \in Pixels : TileOf(p) \in dirty => p \in Area(DirtyBbox(dirty))
<1> DEFINE xs == {t[1] : t \in dirty}
           ys == {t[2] : t \in dirty}
<1>1. /\ \A t \in dirty : t[1] \in 0 .. TilesX - 1 /\ t[2] \in 0 .. TilesY - 1
      /\ \A t \in dirty : t = <<t[1], t[2]>> /\ t[1] \in xs /\ t[2] \in ys
  BY DEF Tiles
<1>2. /\ \A x \in xs : x \in 0 .. TilesX - 1
      /\ \A y \in ys : y \in 0 .. TilesY - 1
      /\ xs # {} /\ ys # {}
  BY <1>1
<1>3. DirtyBbox(dirty) = RectFromTiles(Min(xs), Min(ys), Max(xs), Max(ys))
  BY DEF DirtyBbox
<1> HIDE DEF xs, ys
<1>4. /\ TilesX \in Int /\ TilesY \in Int /\ 0 \in Int /\ xs \in SUBSET Int /\ ys \in SUBSET Int
      /\ (\A x \in xs : 0 <= x /\ x <= TilesX) /\ (\A y \in ys : 0 <= y /\ y <= TilesY)
  BY <1>2, Grid
<1>5. /\ Min(xs) \in xs /\ (\A x \in xs : Min(xs) <= x) /\ Min(ys) \in ys /\ (\A y \in ys : Min(ys) <= y)
  BY <1>2, <1>4, LeastOfSome
<1>6. /\ Max(xs) \in xs /\ (\A x \in xs : x <= Max(xs)) /\ Max(ys) \in ys /\ (\A y \in ys : y <= Max(ys))
  BY <1>2, <1>4, GreatestOfSome
<1>7. /\ Min(xs) \in 0 .. TilesX - 1 /\ Max(xs) \in Min(xs) .. TilesX - 1
      /\ Min(ys) \in 0 .. TilesY - 1 /\ Max(ys) \in Min(ys) .. TilesY - 1
  BY <1>2, <1>5, <1>6
<1>8. /\ OnPanel(DirtyBbox(dirty))
      /\ Area(DirtyBbox(dirty)) = {p \in Pixels : TileOf(p) \in (Min(xs) .. Max(xs)) \X (Min(ys) .. Max(ys))}
  BY <1>3, <1>7, BlockArea
<1>9. \A t \in dirty : t \in (Min(xs) .. Max(xs)) \X (Min(ys) .. Max(ys))
  BY <1>1, <1>5, <1>6
<1> QED
  BY <1>8, <1>9 DEF OnPanel, Corners

\* A pixel that changed makes its tile dirty.
LEMMA ChangedTile ==
  ASSUME NEW f, NEW g, NEW p \in Pixels, f[p] # g[p]
  PROVE  TileOf(p) \in Tiles /\ TileChanged(f, g, TileOf(p))
  BY TileOfPixel DEF TileChanged

\* All, the rectangles, or a box: whatever is chosen for dirty tiles repaints them.
LEMMA ChoiceIsRight ==
  ASSUME NEW dirty \in SUBSET Tiles, dirty # {}, NEW f, NEW g,
         \A p \in Pixels : f[p] # g[p] => TileOf(p) \in dirty
  PROVE  /\ Len(BuildTileRects(dirty)) <= MaxRects
              => Sendable(BuildTileRects(dirty)) /\ Repaints(BuildTileRects(dirty), f, g)
         /\ Sendable(<<DirtyBbox(dirty)>>) /\ Repaints(<<DirtyBbox(dirty)>>, f, g)
<1> DEFINE rects == BuildTileRects(dirty)
           r == DirtyBbox(dirty)
<1>1. /\ rects \in Seq({q \in Corners : OnPanel(q)})
      /\ \A i \in 1 .. Len(rects) :
           /\ Area(rects[i]) \subseteq Pixels
           /\ \A j \in 1 .. Len(rects) : i # j => Area(rects[i]) \cap Area(rects[j]) = {}
      /\ \A p \in Pixels : TileOf(p) \in dirty => \E i \in 1 .. Len(rects) : p \in Area(rects[i])
  BY TileRectsAreRight
<1>2. /\ r \in Corners /\ OnPanel(r)
      /\ \A p \in Pixels : TileOf(p) \in dirty => p \in Area(r)
  BY TileBoxIsRight
<1> HIDE DEF rects, r
<1>3. Len(rects) <= MaxRects => Sendable(rects) /\ Repaints(rects, f, g)
  BY <1>1 DEF Sendable, Repaints
<1>4. Sendable(<<r>>) /\ Len(<<r>>) = 1 /\ <<r>>[1] = r
  BY <1>2, OneIsSendable
<1>5. Repaints(<<r>>, f, g)
  BY <1>2, <1>4 DEF Repaints
<1> QED
  BY <1>3, <1>4, <1>5 DEF rects, r

LEMMA TileDamageIsRight ==
  ASSUME NEW first \in BOOLEAN, NEW f, NEW g, NEW old \in SUBSET Tiles
  PROVE  /\ Sendable(TileDamage(first, f, g, old)) /\ Repaints(TileDamage(first, f, g, old), f, g)
         /\ first => TileDamage(first, f, g, old) = <<Full>>
<1> DEFINE changed == {t \in Tiles : first \/ TileChanged(f, g, t)}
           dirty == changed \cup StaleTiles(old, changed)
           rects == BuildTileRects(dirty)
<1>1. TileDamage(first, f, g, old) =
        IF dirty = {} THEN <<>>
        ELSE IF first \/ TilesPixels(dirty) >= FullArea THEN <<Full>>
        ELSE IF Len(rects) <= MaxRects THEN rects
        ELSE IF RectPixels(DirtyBbox(dirty)) < FullArea THEN <<DirtyBbox(dirty)>>
        ELSE <<Full>>
  BY DEF TileDamage
<1>2. dirty \in SUBSET Tiles
  BY DEF StaleTiles
<1>3. \A p \in Pixels : f[p] # g[p] => TileOf(p) \in dirty
  BY ChangedTile
<1>4. first => dirty # {}
  <2>1. <<0, 0>> \in Tiles
    BY Grid DEF Tiles
  <2> QED
    BY <2>1
<1> HIDE DEF changed, dirty
<1>5. dirty = {} => Repaints(<<>>, f, g)
  BY <1>3 DEF Repaints
<1>6. dirty # {} =>
        /\ Len(rects) <= MaxRects => Sendable(rects) /\ Repaints(rects, f, g)
        /\ Sendable(<<DirtyBbox(dirty)>>) /\ Repaints(<<DirtyBbox(dirty)>>, f, g)
  BY <1>2, <1>3, ChoiceIsRight
<1> HIDE DEF rects
<1> QED
  BY <1>1, <1>4, <1>5, <1>6, NoneAndFull

LEMMA QuotMono ==
  ASSUME NEW a \in Nat, NEW b \in Nat, NEW w \in Nat \ {0}, a <= b
  PROVE  Quot(a, w) \in Nat /\ Quot(b, w) \in Nat /\ Quot(a, w) <= Quot(b, w)
<1>1. Quot(a, w) \in Nat /\ Quot(b, w) \in Nat
  BY DivMod
<1>2. Quot(a, w) * w <= a
  BY <1>1, DivBounds
<1>3. Quot(a, w) * w \in Nat
  BY <1>1, Z3
<1>4. Quot(a, w) * w <= b
  BY <1>2, <1>3
<1> QED
  BY <1>1, <1>4, DivBounds

\* The union of the rectangles of a packet.
LEMMA UnionIsRight ==
  ASSUME NEW packet, packet # {}, \A r \in packet : OnPanel(r)
  PROVE  OnPanel(Union(packet)) /\ \A r \in packet : Area(r) \subseteq Area(Union(packet))
<1> DEFINE x0s == {r.x0 : r \in packet}
           y0s == {r.y0 : r \in packet}
           x1s == {r.x1 : r \in packet}
           y1s == {r.y1 : r \in packet}
           u == Union(packet)
<1>1. u = [x0 |-> Min(x0s), y0 |-> Min(y0s), x1 |-> Max(x1s), y1 |-> Max(y1s)]
  BY DEF Union, Rect
<1>2. \A r \in packet :
        /\ r.x0 \in x0s /\ r.y0 \in y0s /\ r.x1 \in x1s /\ r.y1 \in y1s
        /\ r.x0 \in 0 .. Cols - 1 /\ r.x1 \in 0 .. Cols - 1 /\ r.x0 <= r.x1
        /\ r.y0 \in 0 .. Rows - 1 /\ r.y1 \in 0 .. Rows - 1 /\ r.y0 <= r.y1
  BY DEF OnPanel
<1>3. /\ x0s # {} /\ y0s # {} /\ x1s # {} /\ y1s # {}
      /\ (\A x \in x0s : x \in 0 .. Cols - 1) /\ (\A x \in x1s : x \in 0 .. Cols - 1)
      /\ (\A y \in y0s : y \in 0 .. Rows - 1) /\ (\A y \in y1s : y \in 0 .. Rows - 1)
  BY <1>2
<1> HIDE DEF x0s, y0s, x1s, y1s
<1>4. /\ Cols \in Int /\ Rows \in Int /\ 0 \in Int
      /\ x0s \in SUBSET Int /\ y0s \in SUBSET Int /\ x1s \in SUBSET Int /\ y1s \in SUBSET Int
      /\ (\A x \in x0s : 0 <= x) /\ (\A x \in x1s : x <= Cols)
      /\ (\A y \in y0s : 0 <= y) /\ (\A y \in y1s : y <= Rows)
  BY <1>3, Grid
<1>5. /\ Min(x0s) \in x0s /\ (\A x \in x0s : Min(x0s) <= x)
      /\ Min(y0s) \in y0s /\ (\A y \in y0s : Min(y0s) <= y)
  BY <1>3, <1>4, LeastOfSome
<1>6. /\ Max(x1s) \in x1s /\ (\A x \in x1s : x <= Max(x1s))
      /\ Max(y1s) \in y1s /\ (\A y \in y1s : y <= Max(y1s))
  BY <1>3, <1>4, GreatestOfSome
<1>7. /\ Min(x0s) \in 0 .. Cols - 1 /\ Max(x1s) \in 0 .. Cols - 1
      /\ Min(y0s) \in 0 .. Rows - 1 /\ Max(y1s) \in 0 .. Rows - 1
  BY <1>3, <1>5, <1>6
<1>8. \A r \in packet : /\ Min(x0s) <= r.x0 /\ r.x1 <= Max(x1s)
                        /\ Min(y0s) <= r.y0 /\ r.y1 <= Max(y1s)
  BY <1>2, <1>5, <1>6
<1>9. Min(x0s) <= Max(x1s) /\ Min(y0s) <= Max(y1s)
  <2>1. PICK r \in packet : TRUE
    OBVIOUS
  <2> QED
    BY <1>2, <1>7, <1>8
<1>10. OnPanel(u)
  BY <1>1, <1>7, <1>9 DEF OnPanel
<1>11. ASSUME NEW r \in packet PROVE Area(r) \subseteq Area(u)
  <2>1. \A x \in r.x0 .. r.x1 : x \in Min(x0s) .. Max(x1s)
    BY <1>2, <1>7, <1>8
  <2>2. \A y \in r.y0 .. r.y1 : y \in Min(y0s) .. Max(y1s)
    BY <1>2, <1>7, <1>8
  <2> QED
    BY <1>1, <2>1, <2>2 DEF Area
<1> QED
  BY <1>10, <1>11

LEMMA RectDamageIsRight ==
  ASSUME NEW first \in BOOLEAN, NEW f, NEW g, NEW packet, \A r \in packet : OnPanel(r),
         ~first => \A p \in Pixels : f[p] # g[p] => \E r \in packet : p \in Area(r)
  PROVE  /\ Sendable(RectDamage(first, f, g, packet)) /\ Repaints(RectDamage(first, f, g, packet), f, g)
         /\ first => RectDamage(first, f, g, packet) = <<Full>>
<1> DEFINE dirty == IF packet = {} THEN {} ELSE DirtyTilesIn(f, g, Union(packet))
           rects == BuildTileRects(dirty)
<1>1. RectDamage(first, f, g, packet) =
        IF first THEN <<Full>>
        ELSE IF dirty = {} THEN <<>>
        ELSE IF TilesPixels(dirty) >= FullArea THEN <<Full>>
        ELSE IF Len(rects) <= MaxRects THEN rects
        ELSE <<DirtyBbox(dirty)>>
  BY DEF RectDamage
<1>2. CASE first
  BY <1>1, <1>2, NoneAndFull
<1>3. CASE ~first
  <2>1. dirty \in SUBSET Tiles /\ \A p \in Pixels : f[p] # g[p] => TileOf(p) \in dirty
    <3>1. CASE packet = {}
      BY <1>3, <3>1
    <3>2. CASE packet # {}
      <4> DEFINE u == Union(packet)
      <4>1. OnPanel(u) /\ \A r \in packet : Area(r) \subseteq Area(u)
        BY <3>2, UnionIsRight
      <4>2. dirty = {t \in (Quot(u.x0, TileW) .. Quot(u.x1, TileW)) \X (Quot(u.y0, TileH) .. Quot(u.y1, TileH)) :
                       TileChanged(f, g, t)}
        BY <3>2 DEF DirtyTilesIn, Quot
      <4> HIDE DEF u, dirty
      <4>3. /\ u.x0 \in Nat /\ u.x1 \in Nat /\ u.y0 \in Nat /\ u.y1 \in Nat
            /\ <<u.x1, u.y1>> \in Pixels
        BY <4>1, Grid DEF OnPanel, Pixels
      <4>4. <<Quot(u.x1, TileW), Quot(u.y1, TileH)>> \in Tiles
        BY <4>3, TileOfPixel DEF TileOf
      <4>5. /\ Quot(u.x0, TileW) \in Nat /\ Quot(u.x1, TileW) <= TilesX - 1 /\ Quot(u.x1, TileW) \in Nat
            /\ Quot(u.y0, TileH) \in Nat /\ Quot(u.y1, TileH) <= TilesY - 1 /\ Quot(u.y1, TileH) \in Nat
        <5>1. /\ Quot(u.x0, TileW) \in Nat /\ Quot(u.x1, TileW) \in Nat
              /\ Quot(u.y0, TileH) \in Nat /\ Quot(u.y1, TileH) \in Nat
          BY <4>3, Grid, DivMod
        <5>2. Quot(u.x1, TileW) \in 0 .. TilesX - 1 /\ Quot(u.y1, TileH) \in 0 .. TilesY - 1
          BY <4>4 DEF Tiles
        <5> QED
          BY <5>1, <5>2, Grid
      <4>6. dirty \in SUBSET Tiles
        <5>1. \A x \in Quot(u.x0, TileW) .. Quot(u.x1, TileW) : x \in 0 .. TilesX - 1
          BY <4>5, Grid
        <5>2. \A y \in Quot(u.y0, TileH) .. Quot(u.y1, TileH) : y \in 0 .. TilesY - 1
          BY <4>5, Grid
        <5> QED
          BY <4>2, <5>1, <5>2 DEF Tiles
      <4>7. ASSUME NEW p \in Pixels, f[p] # g[p] PROVE TileOf(p) \in dirty
        <5>1. p \in Area(u)
          BY <1>3, <4>1, <4>7
        <5>2. /\ p[1] \in Nat /\ p[2] \in Nat /\ u.x0 <= p[1] /\ p[1] <= u.x1 /\ u.y0 <= p[2] /\ p[2] <= u.y1
          BY <4>3, <5>1 DEF Area
        <5>3. /\ Quot(p[1], TileW) \in Nat /\ Quot(u.x0, TileW) <= Quot(p[1], TileW)
              /\ Quot(p[1], TileW) <= Quot(u.x1, TileW)
          BY <4>3, <5>2, Grid, QuotMono
        <5>4. /\ Quot(p[2], TileH) \in Nat /\ Quot(u.y0, TileH) <= Quot(p[2], TileH)
              /\ Quot(p[2], TileH) <= Quot(u.y1, TileH)
          BY <4>3, <5>2, Grid, QuotMono
        <5>5. TileChanged(f, g, TileOf(p))
          BY <4>7, ChangedTile
        <5> QED
          BY <4>2, <4>5, <5>3, <5>4, <5>5 DEF TileOf
      <4> QED
        BY <4>6, <4>7
    <3> QED
      BY <3>1, <3>2
  <2> HIDE DEF dirty
  <2>2. dirty = {} => Repaints(<<>>, f, g)
    BY <2>1 DEF Repaints
  <2>3. dirty # {} =>
          /\ Len(rects) <= MaxRects => Sendable(rects) /\ Repaints(rects, f, g)
          /\ Sendable(<<DirtyBbox(dirty)>>) /\ Repaints(<<DirtyBbox(dirty)>>, f, g)
    BY <2>1, ChoiceIsRight
  <2> HIDE DEF rects
  <2> QED
    BY <1>1, <1>3, <2>2, <2>3, NoneAndFull
<1> QED
  BY <1>2, <1>3

-----------------------------------------------------------------------------
(* Windows and what has arrived in them.                                   *)

\* Whichever policy selects, a pass may send the list and it covers the change; the
\* first one sends everything.
LEMMA DamageIsRight ==
  ASSUME policy \in {"bbox", "tiles", "rects"}, shown \in BOOLEAN,
         NEW f, NEW old \in SUBSET Tiles, NEW packet, \A r \in packet : OnPanel(r),
         policy = "rects" /\ shown =>
           \A p \in Pixels : f[p] # prev[p] => \E r \in packet : p \in Area(r)
  PROVE  /\ Sendable(Damage(f, old, packet)) /\ Repaints(Damage(f, old, packet), f, prev)
         /\ ~shown => Damage(f, old, packet) = <<Full>>
<1> DEFINE first == ~shown
<1>1. first \in BOOLEAN
  OBVIOUS
<1>2. CASE policy = "bbox"
  <2>1. Damage(f, old, packet) = IF ~shown THEN <<Full>> ELSE FastDirtyBbox(f, prev)
    BY <1>2 DEF Damage, BboxDamage
  <2> QED
    BY <2>1, NoneAndFull, BoxIsRight
<1>3. CASE policy = "tiles"
  <2>1. Damage(f, old, packet) = TileDamage(first, f, prev, old)
    BY <1>3 DEF Damage
  <2> HIDE DEF first
  <2>2. /\ Sendable(TileDamage(first, f, prev, old)) /\ Repaints(TileDamage(first, f, prev, old), f, prev)
        /\ first => TileDamage(first, f, prev, old) = <<Full>>
    BY <1>1, TileDamageIsRight
  <2> QED
    BY <2>1, <2>2 DEF first
<1>4. CASE policy = "rects"
  <2>1. Damage(f, old, packet) = RectDamage(first, f, prev, packet)
    BY <1>4 DEF Damage
  <2>2. ~first => \A p \in Pixels : f[p] # prev[p] => \E r \in packet : p \in Area(r)
    BY <1>4
  <2> HIDE DEF first
  <2>3. /\ Sendable(RectDamage(first, f, prev, packet)) /\ Repaints(RectDamage(first, f, prev, packet), f, prev)
        /\ first => RectDamage(first, f, prev, packet) = <<Full>>
    BY <1>1, <2>2, RectDamageIsRight
  <2> QED
    BY <2>1, <2>3 DEF first
<1> QED
  BY <1>2, <1>3, <1>4

\* The place of a pixel in the stream that fills window r, and the pixel at a place.
Place(r, p) == (p[2] - r.y0) * Width(r) + p[1] - r.x0
Source(r, n) == <<r.x0 + Rest(n, Width(r)), r.y0 + Quot(n, Width(r))>>

LEMMA WindowPlaces ==
  ASSUME NEW r, OnPanel(r)
  PROVE  /\ RectPixels(r) \in Nat \ {0}
         /\ \A p \in Area(r) : Place(r, p) \in 0 .. RectPixels(r) - 1 /\ Source(r, Place(r, p)) = p
         /\ \A n \in 0 .. RectPixels(r) - 1 : Source(r, n) \in Area(r)
<1> DEFINE w == Width(r)
           h == r.y1 - r.y0 + 1
<1>1. /\ r.x0 \in Nat /\ r.x1 \in Nat /\ r.y0 \in Nat /\ r.y1 \in Nat
      /\ r.x0 <= r.x1 /\ r.y0 <= r.y1
  BY Grid DEF OnPanel
<1>2. w \in Nat \ {0} /\ h \in Nat \ {0} /\ r.x1 = r.x0 + w - 1 /\ r.y1 = r.y0 + h - 1
  BY <1>1 DEF Width
<1>3. RectPixels(r) = w * h
  BY DEF RectPixels
<1>4. \A p : Place(r, p) = (p[2] - r.y0) * w + p[1] - r.x0
  BY DEF Place
<1>5. \A n : Source(r, n) = <<r.x0 + Rest(n, w), r.y0 + Quot(n, w)>>
  BY DEF Source
<1> HIDE DEF w, h
<1>6. w * h \in Nat \ {0} /\ w * h = (h - 1) * w + w /\ (h - 1 + 1) * w = w * h
  BY <1>2, Z3
<1>7. ASSUME NEW p \in Area(r)
      PROVE  Place(r, p) \in 0 .. w * h - 1 /\ Source(r, Place(r, p)) = p
  <2> DEFINE q == p[2] - r.y0
             c == p[1] - r.x0
  <2>1. /\ p[1] \in Nat /\ p[2] \in Nat /\ p = <<p[1], p[2]>>
        /\ r.x0 <= p[1] /\ p[1] <= r.x1 /\ r.y0 <= p[2] /\ p[2] <= r.y1
    BY <1>1 DEF Area
  <2>2. q \in 0 .. h - 1 /\ c \in 0 .. w - 1 /\ p[1] = r.x0 + c /\ p[2] = r.y0 + q
    BY <1>1, <1>2, <2>1
  <2>3. Place(r, p) = q * w + p[1] - r.x0
    BY <1>4
  <2> HIDE DEF q, c
  <2>4. q * w \in Nat /\ q * w <= (h - 1) * w
    BY <1>2, <2>2, Z3
  <2>5. Place(r, p) = q * w + c
    BY <1>1, <2>1, <2>2, <2>3, <2>4
  <2>6. q * w + c \in 0 .. w * h - 1
    <3> DEFINE a == q * w
               b == (h - 1) * w
               z == w * h
    <3>1. a \in Nat /\ a <= b /\ b \in Int /\ z = b + w /\ c \in 0 .. w - 1 /\ w \in Nat
      BY <1>2, <1>6, <2>2, <2>4
    <3> HIDE DEF a, b, z
    <3>2. a + c \in 0 .. z - 1
      BY <3>1
    <3> QED
      BY <3>2 DEF a, z
  <2>7. Quot(q * w + c, w) = q /\ Rest(q * w + c, w) = c
    <3>1. q \in Nat
      BY <1>2, <2>2
    <3> QED
      BY <1>2, <2>2, <3>1, DivUnique, Zenon
  <2> QED
    BY <1>5, <2>1, <2>2, <2>5, <2>6, <2>7
<1>8. ASSUME NEW n \in 0 .. w * h - 1 PROVE Source(r, n) \in Area(r)
  <2>1. n \in Nat /\ n < w * h
    BY <1>6
  <2>2. Quot(n, w) \in Nat /\ Rest(n, w) \in 0 .. w - 1
    BY <1>2, <2>1, DivMod
  <2>3. h - 1 \in Nat
    BY <1>2
  <2>4. n < (h - 1 + 1) * w
    BY <1>6, <2>1
  <2>5. Quot(n, w) <= h - 1
    BY <1>2, <2>1, <2>3, <2>4, DivBounds
  <2>6. r.x0 + Rest(n, w) \in r.x0 .. r.x1 /\ r.y0 + Quot(n, w) \in r.y0 .. r.y1
    BY <1>1, <1>2, <2>2, <2>5
  <2> QED
    BY <1>5, <2>6 DEF Area
<1> QED
  BY <1>3, <1>6, <1>7, <1>8

\* How much of the buffer k packets hold.
Upto(k) == IF k * Payload < length THEN k * Payload ELSE length

\* As long as nothing was lost the panel has received the packets the endpoint is done with.
Sums(f, k) == f = [n \in 0 .. k |-> IF n = 0 THEN 0 ELSE f[n - 1] + stream[n].size]

LEMMA SumExists ==
  ASSUME NEW k \in Nat
  PROVE  \E f : Sums(f, k)
<1> DEFINE none == {i \in Nat : ~\E f : Sums(f, i)}
<1>1. SUFFICES ASSUME none # {} PROVE FALSE
  OBVIOUS
<1>2. PICK i \in none : \A j \in none : i <= j
  <2>1. none \in SUBSET Int /\ 0 \in Int /\ \A j \in none : 0 <= j
    OBVIOUS
  <2> HIDE DEF none
  <2> QED
    BY <1>1, <2>1, LeastOfSome
<1>3. CASE i = 0
  <2> DEFINE f == [n \in 0 .. 0 |-> 0]
  <2>1. Sums(f, 0)
    <3>1. \A n \in 0 .. 0 : n = 0
      OBVIOUS
    <3> QED
      BY <3>1 DEF Sums
  <2> QED
    BY <1>3, <2>1
<1>4. CASE i # 0
  <2>1. i \in Nat /\ i - 1 \in Nat /\ i - 1 \notin none
    BY <1>2, <1>4
  <2>2. PICK g : Sums(g, i - 1)
    BY <2>1
  <2> DEFINE f == [n \in 0 .. i |-> IF n = i THEN g[i - 1] + stream[i].size ELSE g[n]]
  <2>3. \A n \in 0 .. i - 1 : f[n] = g[n]
    BY <2>1
  <2>4. \A n \in 0 .. i - 1 : g[n] = IF n = 0 THEN 0 ELSE g[n - 1] + stream[n].size
    BY <2>2 DEF Sums
  <2>5. ASSUME NEW n \in 0 .. i
        PROVE  f[n] = IF n = 0 THEN 0 ELSE f[n - 1] + stream[n].size
    <3>1. CASE n = i
      <4>1. f[n] = g[i - 1] + stream[i].size
        BY <3>1
      <4>2. f[i - 1] = g[i - 1]
        BY <2>1, <2>3
      <4> HIDE DEF f
      <4> QED
        BY <1>4, <3>1, <4>1, <4>2
    <3>2. CASE n # i
      <4>1. n \in 0 .. i - 1 /\ (n # 0 => n - 1 \in 0 .. i - 1)
        BY <2>1, <3>2
      <4> HIDE DEF f
      <4> QED
        BY <2>3, <2>4, <4>1
    <3> QED
      BY <3>1, <3>2
  <2>6. f = [n \in 0 .. i |-> f[n]]
    OBVIOUS
  <2> HIDE DEF f
  <2>7. Sums(f, i)
    BY <2>5, <2>6 DEF Sums
  <2> QED
    BY <1>2, <2>7
<1> QED
  BY <1>3, <1>4

\* What the sums of a stream have in common all along, the last of them has.
LEMMA ReceivedIsSum ==
  ASSUME stream \in Seq(Urb), NEW good, 0 \in good[0],
         \A k \in 1 .. Len(stream) : \A s \in good[k - 1] : s + stream[k].size \in good[k]
  PROVE  Received \in good[Len(stream)]
<1> DEFINE F == Len(stream)
           f == CHOOSE f : Sums(f, F)
           wrong == {n \in 0 .. F : f[n] \notin good[n]}
<1>1. F \in Nat
  OBVIOUS
<1>2. Sums(f, F)
  BY <1>1, SumExists
<1>3. Received = f[F]
  BY DEF Received, Sums
<1> HIDE DEF f
<1>4. \A n \in 0 .. F : f[n] = IF n = 0 THEN 0 ELSE f[n - 1] + stream[n].size
  BY <1>2 DEF Sums
<1>5. wrong = {}
  <2> SUFFICES ASSUME wrong # {} PROVE FALSE
    OBVIOUS
  <2>1. PICK n \in wrong : \A j \in wrong : n <= j
    <3>1. wrong \in SUBSET Int /\ 0 \in Int /\ \A j \in wrong : 0 <= j
      BY <1>1
    <3> HIDE DEF wrong
    <3> QED
      BY <3>1, LeastOfSome
  <2>2. n # 0
    BY <1>4, <2>1
  <2>3. n \in 1 .. F /\ n - 1 \in 0 .. F /\ n - 1 \notin wrong
    BY <1>1, <2>1, <2>2
  <2>4. f[n - 1] \in good[n - 1] /\ f[n] = f[n - 1] + stream[n].size
    BY <1>4, <2>1, <2>2, <2>3
  <2>5. f[n] \in good[n]
    BY <2>3, <2>4
  <2> QED
    BY <2>1, <2>5
<1> QED
  BY <1>1, <1>3, <1>5

LEMMA ReceivedIsNumber ==
  ASSUME stream \in Seq(Urb)
  PROVE  Received \in Nat
<1> DEFINE good == [n \in 0 .. Len(stream) |-> Nat]
<1>1. Len(stream) \in Nat /\ \A k \in 1 .. Len(stream) : stream[k].size \in Nat
  <2>1. \A k \in 1 .. Len(stream) : stream[k] \in Urb
    OBVIOUS
  <2> QED
    BY <2>1 DEF Urb
<1>2. good[0] = Nat /\ good[Len(stream)] = Nat
  BY <1>1
<1>3. ASSUME NEW k \in 1 .. Len(stream), NEW s \in good[k - 1]
      PROVE  s + stream[k].size \in good[k]
  <2>1. good[k - 1] = Nat /\ good[k] = Nat
    BY <1>1
  <2> HIDE DEF good
  <2> QED
    BY <1>1, <1>3, <2>1
<1> HIDE DEF good
<1> QED
  BY <1>2, <1>3, ReceivedIsSum

LEMMA NothingReceivedYet == stream = <<>> => Received = 0
<1> SUFFICES ASSUME stream = <<>> PROVE Received = 0
  OBVIOUS
<1> DEFINE good == [n \in 0 .. 0 |-> {0}]
<1>1. good[0] = {0} /\ stream \in Seq(Urb) /\ Len(stream) = 0
  OBVIOUS
<1> HIDE DEF good
<1>2. \A k \in 1 .. Len(stream) : \A s \in good[k - 1] : s + stream[k].size \in good[k]
  BY <1>1
<1> QED
  BY <1>1, <1>2, ReceivedIsSum

LEMMA NothingReceived == (stream = <<>> => Received = 0)'
  BY NothingReceivedYet, PTL

LEMMA ReceivedPackets == PipelineInv /\ bad = {} => Received = Upto(finished)
<1> SUFFICES ASSUME PipelineInv, bad = {} PROVE Received = Upto(finished)
  OBVIOUS
<1> DEFINE F == finished
           good == [n \in 0 .. F |-> {Upto(n)}]
<1>1. /\ F \in Nat /\ length \in Nat /\ Len(urbs) \in Nat /\ F <= Len(urbs)
      /\ Len(stream) = F /\ \A k \in 1 .. F : stream[k] = urbs[k]
      /\ \A k \in 1 .. Len(urbs) : urbs[k].off = (k - 1) * Payload /\ urbs[k].off < length
      /\ \A k \in 1 .. Len(urbs) : urbs[k].size = Chunk(urbs[k].off)
  BY DEF PipelineInv, PipelineTypeOK, Counts, Packets, Arrived
<1> HIDE DEF F
<1>2. Upto(0) = 0
  BY <1>1, PipelineAssumption DEF Upto
<1>3. ASSUME NEW k \in 1 .. F PROVE Upto(k) = Upto(k - 1) + stream[k].size
  <2> DEFINE a == (k - 1) * Payload
  <2>1. k \in 1 .. Len(urbs)
    BY <1>1
  <2>2. stream[k].size = Chunk(a) /\ a < length
    BY <1>1, <2>1
  <2>3. a \in Nat /\ k * Payload = a + Payload
    BY <1>1, PipelineAssumption, Z3
  <2>4. Upto(k - 1) = IF a < length THEN a ELSE length
    BY DEF Upto
  <2> HIDE DEF a
  <2> QED
    BY <1>1, <2>2, <2>3, <2>4, PipelineAssumption DEF Upto, Chunk
<1>4. good[0] = {0} /\ good[F] = {Upto(F)}
  BY <1>1, <1>2
<1>5. ASSUME NEW k \in 1 .. Len(stream), NEW s \in good[k - 1]
      PROVE  s + stream[k].size \in good[k]
  <2>1. k \in 1 .. F /\ good[k - 1] = {Upto(k - 1)} /\ good[k] = {Upto(k)}
    BY <1>1
  <2> HIDE DEF good
  <2> QED
    BY <1>3, <1>5, <2>1
<1>6. stream \in Seq(Urb)
  BY DEF PipelineInv, PipelineTypeOK
<1> HIDE DEF good
<1>7. Received \in good[Len(stream)]
  BY <1>4, <1>5, <1>6, ReceivedIsSum
<1> QED
  BY <1>1, <1>4, <1>7 DEF F

LEMMA ReceivedPacketsNext == (PipelineInv /\ bad = {} => Received = Upto(finished))'
  BY ReceivedPackets, PTL

\* The next packet continues where the panel stands, and none goes beyond the buffer.
LEMMA NextPacket ==
  ASSUME PipelineInv, finished < Len(urbs)
  PROVE  LET u == urbs[finished + 1]
         IN /\ u.off \in Nat /\ u.size \in Nat /\ u.off + u.size <= length
            /\ u.off = Upto(finished) /\ u.off + u.size = Upto(finished + 1)
<1> DEFINE a == finished * Payload
           u == urbs[finished + 1]
<1>1. /\ finished \in Nat /\ length \in Nat /\ Len(urbs) \in Nat
      /\ \A k \in 1 .. Len(urbs) : urbs[k].off = (k - 1) * Payload /\ urbs[k].off < length
      /\ \A k \in 1 .. Len(urbs) : urbs[k].size = Chunk(urbs[k].off)
  BY DEF PipelineInv, PipelineTypeOK, Packets
<1>2. finished + 1 \in 1 .. Len(urbs) /\ (finished + 1) - 1 = finished
  BY <1>1
<1>3. u.off = a /\ a < length /\ u.size = Chunk(a)
  BY <1>1, <1>2
<1>4. a \in Nat /\ (finished + 1) * Payload = a + Payload
  BY <1>1, PipelineAssumption, Z3
<1>5. Upto(finished) = IF a < length THEN a ELSE length
  BY DEF Upto
<1> HIDE DEF a, u
<1>6. /\ u.off \in Nat /\ u.size \in Nat /\ u.off + u.size <= length
      /\ u.off = Upto(finished) /\ u.off + u.size = Upto(finished + 1)
  BY <1>1, <1>3, <1>4, <1>5, PipelineAssumption DEF Upto, Chunk
<1> QED
  BY <1>6 DEF u

\* When send_bytes is not at work nothing is lost.
LEMMA QuietIsGood ==
  ASSUME PipelineInv, spc \in {"idle", "sent"}
  PROVE  bad = {}
<1>1. /\ completed \in Nat /\ finished \in Nat /\ Len(urbs) \in Nat /\ completed <= finished
      /\ finished <= Len(urbs) /\ bad \subseteq 1 .. finished /\ \A k \in bad : k > completed
  BY DEF PipelineInv, PipelineTypeOK, Counts
<1>2. CASE spc = "idle"
  <2>1. Len(urbs) = 0
    BY <1>2 DEF PipelineInv, Counts
  <2> QED
    BY <1>1, <2>1
<1>3. CASE spc = "sent"
  <2>1. completed = Len(urbs)
    BY <1>3, AllOfIt DEF SentIsComplete
  <2> QED
    BY <1>1, <2>1
<1> QED
  BY <1>2, <1>3

\* When it returns 0 the panel has received as much as it was to get.
LEMMA SentIsReceived ==
  ASSUME PipelineInv, spc = "sent"
  PROVE  Received = length
<1>1. /\ completed \in Nat /\ finished \in Nat /\ Len(urbs) \in Nat /\ completed <= finished
      /\ finished <= Len(urbs) /\ completed = Total /\ length \in Nat \ {0}
  BY DEF PipelineInv, PipelineTypeOK, Counts, Live
<1>2. finished = Total
  BY <1>1, AllOfIt DEF SentIsComplete
<1>3. length <= Total * Payload /\ Total \in Nat
  BY <1>1, TotalCovers, PipelineAssumption DEF Total
<1>4. Received = Upto(Total)
  BY <1>2, QuietIsGood, ReceivedPackets
<1> DEFINE a == Total * Payload
<1>5. a \in Nat /\ Upto(Total) = IF a < length THEN a ELSE length
  BY <1>3, PipelineAssumption, Z3 DEF Upto
<1> HIDE DEF a
<1> QED
  BY <1>1, <1>3, <1>4, <1>5 DEF a

-----------------------------------------------------------------------------
(* The writer.                                                             *)

WriterTypeOK ==
  /\ policy \in {"bbox", "tiles", "rects"} /\ shown \in BOOLEAN
  /\ wpc \in {"wait", "window", "data", "exited"} /\ cur \in Nat
  /\ frame \in [Pixels -> Colours] /\ prev \in [Pixels -> Colours] /\ panel \in [Pixels -> Colours]

\* Where the sink is, in its list and in the pipeline.
Turn ==
  /\ wpc = "wait" => list = <<>> /\ frame = prev /\ spc \in {"idle", "sent"}
  /\ wpc = "window" => cur \in 1 .. Len(list) + 1 /\ spc \in {"idle", "sent"}
  /\ wpc = "data" => cur \in 1 .. Len(list) /\ length = RectPixels(list[cur])

\* The pixel belongs to a rectangle that is still to come, or to what is missing of
\* the one being sent.
Have == IF wpc = "data" THEN Received ELSE 0
LeftToSend(p) ==
  \E i \in cur .. Len(list) : p \in Area(list[i]) /\ (i = cur => Place(list[i], p) >= Have)

\* What the panel does not show is left to send, unless data was lost.
Progress ==
  /\ wpc = "wait" /\ shown => panel = frame
  /\ wpc \in {"window", "data"} /\ bad = {} =>
       \A p \in Pixels : panel[p] # frame[p] => LeftToSend(p)

SinkInv == WriterTypeOK /\ Sendable(list) /\ Turn /\ Progress
WriterInv == PipelineInv /\ SinkInv

LEMMA PixelsToSend ==
  ASSUME WriterInv, NEW i \in 1 .. Len(list)
  PROVE  OnPanel(list[i]) /\ Area(list[i]) \subseteq Pixels
<1>1. list \in Seq({r \in Corners : OnPanel(r)})
  BY DEF WriterInv, SinkInv, Sendable
<1> QED
  BY <1>1, PanelAreas

LEMMA WriterStarts == Init => WriterInv /\ Update!Init
<1> SUFFICES ASSUME Init PROVE WriterInv /\ Update!Init
  OBVIOUS
<1>1. /\ policy \in {"bbox", "tiles", "rects"} /\ frame = Black /\ prev = Black /\ list = <<>>
      /\ cur = 1 /\ wpc = "wait" /\ shown = FALSE /\ PipelineInit
      /\ panel \in {Black, [p \in Pixels |-> 1]}
  BY DEF Init
<1>2. Black \in [Pixels -> Colours] /\ [p \in Pixels |-> 1] \in [Pixels -> Colours]
  BY DEF Black, Colours
<1>3. spc = "idle" /\ PipelineInv
  BY <1>1, PipelineStarts DEF PipelineInit
<1>4. Sendable(<<>>)
  BY NoneAndFull
<1>5. WriterInv
  BY <1>1, <1>2, <1>3, <1>4 DEF WriterInv, SinkInv, WriterTypeOK, Turn, Progress
<1>6. Update!Init
  BY <1>1, <1>2 DEF Update!Init, Phase
<1> QED
  BY <1>5, <1>6

\* What the pipeline does while a rectangle is sent, but for the transfer, only
\* matters to the panel when data is lost.
LEMMA PipelineMoves ==
  ASSUME WriterInv, wpc = "data", UNCHANGED <<sink, panel>>,
         SendStep \/ SubmitFails \/ ReapFails \/ Timeout \/ TransferFails
  PROVE  SinkInv' /\ [Update!Next]_(Update!vars)
<1>1. /\ wpc' = "data" /\ UNCHANGED <<policy, frame, prev, list, cur, shown, panel>>
      /\ length' = length /\ stream' = stream
  BY DEF sink, SendStep, Fill, FillEnds, Refill, Submit, Reap, ReapBad, Discard, SubmitFails,
         ReapFails, Timeout, TransferFails, sender, endpoint
<1>2. bad' = bad \/ bad' = bad \cup {finished + 1}
  BY DEF SendStep, Fill, FillEnds, Refill, Submit, Reap, ReapBad, Discard, SubmitFails,
         ReapFails, Timeout, TransferFails, sender, endpoint
<1>3. Received' = Received
  BY <1>1 DEF Received
<1>4. WriterTypeOK' /\ Sendable(list)' /\ Turn'
  BY <1>1 DEF WriterInv, SinkInv, WriterTypeOK, Sendable, Turn
<1>5. bad' = {} => bad = {}
  BY <1>2
<1>6. Progress'
  <2> SUFFICES ASSUME bad' = {}, NEW p \in Pixels, panel'[p] # frame'[p] PROVE LeftToSend(p)'
    BY <1>1 DEF Progress
  <2>1. LeftToSend(p)
    BY <1>1, <1>5 DEF WriterInv, SinkInv, Progress
  <2>2. Have' = Have
    BY <1>1, <1>3 DEF Have
  <2> QED
    BY <1>1, <2>1, <2>2 DEF LeftToSend
<1>7. ASSUME bad' = bad PROVE [Update!Next]_(Update!vars)
  BY <1>1, <1>7 DEF Update!vars, Phase
<1>8. ASSUME bad' # {} PROVE [Update!Next]_(Update!vars)
  <2>1. Phase \in {"pass", "spoilt"} /\ Phase' = "spoilt"
    BY <1>1, <1>8 DEF Phase
  <2>2. panel' \in [Pixels -> Colours]
    BY <1>4 DEF WriterTypeOK
  <2>3. Update!Spoil
    BY <1>1, <2>1, <2>2 DEF Update!Spoil
  <2> QED
    BY <2>3 DEF Update!Next
<1> QED
  BY <1>2, <1>4, <1>6, <1>7, <1>8 DEF SinkInv

\* The URB that is worked off puts its pixels where they belong.
LEMMA LandShows ==
  ASSUME WriterInv, PipelineInv', Land
  PROVE  SinkInv' /\ [Update!Next]_(Update!vars)
<1> DEFINE r == list[cur]
           u == urbs[finished + 1]
           Written(p) == p \in Area(r) /\ Place(r, p) \in Received .. Received + u.size - 1
<1>1. /\ wpc = "data" /\ wpc' = "data" /\ UNCHANGED <<policy, frame, prev, list, cur, shown>>
      /\ finished < Len(urbs) /\ finished' = finished + 1 /\ panel' = Landed(u)
      /\ length' = length /\ bad' = bad
  BY DEF Land, Transfer, sink, sender
<1>2. /\ PipelineInv /\ cur \in 1 .. Len(list) /\ length = RectPixels(r) /\ length \in Nat
      /\ frame \in [Pixels -> Colours] /\ panel \in [Pixels -> Colours] /\ WriterTypeOK
  BY <1>1 DEF WriterInv, SinkInv, Turn, WriterTypeOK, PipelineInv, PipelineTypeOK
<1>3. OnPanel(r) /\ Area(r) \subseteq Pixels
  BY <1>2, PixelsToSend
<1>4. Landed(u) = [p \in Pixels |-> IF Written(p) THEN frame[Source(r, u.off + Place(r, p) - Received)]
                                    ELSE panel[p]]
  BY DEF Landed, Place, Source, Quot, Rest
<1>5. /\ u.off \in Nat /\ u.size \in Nat /\ u.off + u.size <= length
      /\ u.off = Upto(finished) /\ u.off + u.size = Upto(finished + 1)
  BY <1>1, <1>2, NextPacket
<1>6. /\ \A p \in Area(r) : Place(r, p) \in 0 .. length - 1 /\ Source(r, Place(r, p)) = p
      /\ \A n \in 0 .. length - 1 : Source(r, n) \in Area(r)
  BY <1>2, <1>3, WindowPlaces
<1> HIDE DEF r, u
<1>7. panel' \in [Pixels -> Colours]
  <2> SUFFICES ASSUME NEW p \in Pixels, Written(p)
               PROVE  frame[Source(r, u.off + Place(r, p) - Received)] \in Colours
    BY <1>1, <1>2, <1>4
  <2> DEFINE a == Place(r, p)
  <2>1. a \in Received .. Received + u.size - 1
    OBVIOUS
  <2> HIDE DEF a
  <2>2. Received \in Int
    BY <1>2, ReceivedIsNumber DEF PipelineInv, PipelineTypeOK
  <2>3. u.off + a - Received \in 0 .. length - 1
    BY <1>2, <1>5, <2>1, <2>2
  <2> QED
    BY <1>2, <1>3, <1>6, <2>3 DEF a
<1>8. WriterTypeOK' /\ Sendable(list)' /\ Turn'
  BY <1>1, <1>2, <1>7 DEF r, WriterInv, SinkInv, WriterTypeOK, Sendable, Turn
<1>9. CASE bad # {}
  <2>1. Progress'
    BY <1>1, <1>9 DEF Progress
  <2>2. Update!Spoil
    BY <1>1, <1>7, <1>9 DEF Update!Spoil, Phase
  <2> QED
    BY <1>8, <2>1, <2>2 DEF SinkInv, Update!Next
<1>10. CASE bad = {}
  <2>1. Received = u.off /\ Received' = u.off + u.size
    <3>1. Received = Upto(finished)
      BY <1>2, <1>10, ReceivedPackets
    <3>2. Received' = Upto(finished)'
      BY <1>1, <1>10, ReceivedPacketsNext
    <3>3. Upto(finished)' = Upto(finished + 1)
      BY <1>1 DEF Upto
    <3> QED
      BY <1>5, <3>1, <3>2, <3>3
  <2>2. \A p \in Pixels : panel'[p] = IF Written(p) THEN frame[p] ELSE panel[p]
    <3> SUFFICES ASSUME NEW p \in Pixels, Written(p)
                 PROVE  frame[Source(r, u.off + Place(r, p) - Received)] = frame[p]
      BY <1>1, <1>4
    <3>1. Place(r, p) \in Int /\ Source(r, Place(r, p)) = p
      BY <1>6
    <3>2. u.off + Place(r, p) - Received = Place(r, p)
      BY <1>5, <2>1, <3>1
    <3> QED
      BY <3>1, <3>2
  <2>3. Progress'
    <3> SUFFICES ASSUME NEW p \in Pixels, panel'[p] # frame'[p] PROVE LeftToSend(p)'
      BY <1>1 DEF Progress
    <3>1. ~Written(p) /\ panel[p] # frame[p]
      BY <1>1, <2>2
    <3>2. LeftToSend(p)
      BY <1>1, <1>10, <3>1 DEF WriterInv, SinkInv, Progress
    <3>3. PICK i \in cur .. Len(list) : p \in Area(list[i]) /\ (i = cur => Place(list[i], p) >= Received)
      BY <1>1, <3>2 DEF LeftToSend, Have
    <3>4. i = cur => Place(list[i], p) >= Received'
      <4> SUFFICES ASSUME i = cur PROVE Place(r, p) >= Received'
        BY DEF r
      <4>1. p \in Area(r) /\ Place(r, p) >= Received
        BY <3>3 DEF r
      <4>2. Place(r, p) \in Int /\ Place(r, p) \notin Received .. Received + u.size - 1
        BY <1>6, <3>1, <4>1
      <4> DEFINE a == Place(r, p)
      <4>3. a \in Int /\ a >= Received /\ a \notin Received .. Received + u.size - 1
        BY <4>1, <4>2
      <4> HIDE DEF a
      <4>4. a >= u.off + u.size
        BY <1>5, <2>1, <4>3
      <4> QED
        BY <2>1, <4>4 DEF a
    <3>5. Have' = Received'
      BY <1>1 DEF Have
    <3> QED
      BY <1>1, <3>3, <3>4, <3>5 DEF LeftToSend
  <2>4. Update!Write
    <3>1. Phase = "pass" /\ Phase' = "pass"
      BY <1>1, <1>10 DEF Phase
    <3>2. \A p \in Pixels : panel'[p] \in {panel[p], frame[p]}
      BY <2>2
    <3> QED
      BY <1>1, <1>7, <3>1, <3>2 DEF Update!Write
  <2> QED
    BY <1>8, <2>3, <2>4 DEF SinkInv, Update!Next
<1> QED
  BY <1>9, <1>10

\* A pass: the frame, the windows one after the other, the end.
LEMMA PassStarts ==
  ASSUME WriterInv, StartPass
  PROVE  SinkInv' /\ [Update!Next]_(Update!vars)
<1>1. /\ wpc = "wait" /\ wpc' = "window" /\ cur' = 1
      /\ UNCHANGED <<policy, prev, shown, pipeline, panel>>
  BY DEF StartPass
<1>2. PICK d \in Changes, old \in {{}, Tiles}, packet \in SUBSET Items :
        /\ policy # "tiles" => old = {}
        /\ IF policy = "rects" THEN d \subseteq UNION {Area(r) : r \in packet} ELSE packet = {}
        /\ frame' = Flip(frame, d)
        /\ list' = Damage(Flip(frame, d), old, packet)
  BY DEF StartPass
<1>3. /\ WriterTypeOK /\ PipelineInv /\ frame = prev /\ spc \in {"idle", "sent"}
      /\ (shown => panel = frame)
  BY <1>1 DEF WriterInv, SinkInv, Turn, Progress
<1>4. bad = {} /\ bad' = {} /\ spc' = spc
  BY <1>1, <1>3, QuietIsGood DEF pipeline, sender, endpoint
<1>5. frame' \in [Pixels -> Colours]
  BY <1>2, <1>3 DEF Flip, WriterTypeOK, Colours
<1>6. \A p \in Pixels : frame'[p] # prev[p] => p \in d
  BY <1>2, <1>3 DEF Flip, WriterTypeOK
<1>7. /\ Sendable(list') /\ Repaints(list', frame', prev)
      /\ ~shown => list' = <<Full>>
  <2>1. \A r \in packet : r \in Items
    BY <1>2
  <2>2. \A r \in packet : OnPanel(r)
    BY <2>1, ItemsAssumption
  <2>3. policy = "rects" => \A p \in Pixels : frame'[p] # prev[p] => \E r \in packet : p \in Area(r)
    BY <1>2, <1>6
  <2>4. old \in SUBSET Tiles
    OBVIOUS
  <2>5. policy \in {"bbox", "tiles", "rects"} /\ shown \in BOOLEAN
    BY <1>3 DEF WriterTypeOK
  <2> DEFINE f == Flip(frame, d)
  <2>6. f = frame'
    BY <1>2
  <2> HIDE DEF f
  <2>7. /\ Sendable(Damage(f, old, packet)) /\ Repaints(Damage(f, old, packet), f, prev)
        /\ ~shown => Damage(f, old, packet) = <<Full>>
    BY <2>2, <2>3, <2>4, <2>5, <2>6, DamageIsRight
  <2> QED
    BY <1>2, <2>6, <2>7 DEF f
<1>8. Len(list') \in Nat /\ \A i \in 1 .. Len(list') : OnPanel(list'[i])
  BY <1>7 DEF Sendable
<1>9. Progress'
  <2> SUFFICES ASSUME NEW p \in Pixels, panel'[p] # frame'[p] PROVE LeftToSend(p)'
    BY <1>1 DEF Progress
  <2>1. PICK i \in 1 .. Len(list') : p \in Area(list'[i])
    <3>1. CASE shown
      <4>1. frame'[p] # prev[p]
        BY <1>1, <1>3, <3>1
      <4> QED
        BY <1>7, <4>1 DEF Repaints
    <3>2. CASE ~shown
      <4>1. list' = <<Full>> /\ Len(list') = 1 /\ list'[1] = Full
        BY <1>7, <3>2
      <4>2. 1 \in 1 .. Len(list') /\ p \in Area(list'[1])
        BY <4>1, PanelAreas
      <4> QED
        BY <4>2
    <3> QED
      BY <3>1, <3>2
  <2>2. Place(list'[i], p) \in Nat
    BY <1>8, <2>1, WindowPlaces
  <2>3. Have' = 0
    BY <1>1 DEF Have
  <2> QED
    BY <1>1, <2>1, <2>2, <2>3 DEF LeftToSend
<1>10. WriterTypeOK' /\ Sendable(list)' /\ Turn'
  <2>1. WriterTypeOK'
    <3>1. policy' = policy /\ prev' = prev /\ shown' = shown /\ panel' = panel
      BY <1>1
    <3> QED
      BY <1>1, <1>3, <1>5, <3>1 DEF WriterTypeOK
  <2>2. Sendable(list)'
    BY <1>7 DEF Sendable
  <2>3. Turn'
    BY <1>1, <1>3, <1>4, <1>8 DEF Turn
  <2> QED
    BY <2>1, <2>2, <2>3
<1>11. Update!Start
  BY <1>1, <1>4, <1>5 DEF Update!Start, Phase
<1> QED
  BY <1>9, <1>10, <1>11 DEF SinkInv, Update!Next

LEMMA WindowIsSet ==
  ASSUME WriterInv, SetWindow
  PROVE  SinkInv' /\ [Update!Next]_(Update!vars)
<1>1. /\ wpc = "window" /\ wpc' = "data" /\ cur <= Len(list)
      /\ UNCHANGED <<policy, frame, prev, list, cur, shown, panel>>
      /\ length' = RectPixels(list[cur]) /\ bad' = {} /\ stream' = <<>>
  BY DEF SetWindow, Begin
<1>2. /\ WriterTypeOK /\ PipelineInv /\ spc \in {"idle", "sent"} /\ cur \in 1 .. Len(list) + 1
      /\ cur \in 1 .. Len(list)
  BY <1>1 DEF WriterInv, SinkInv, Turn
<1>3. bad = {}
  BY <1>2, QuietIsGood
<1>4. Received' = 0
  <2>1. (stream = <<>> => Received = 0)'
    BY NothingReceived
  <2> QED
    BY <1>1, <2>1
<1>5. Progress'
  <2> SUFFICES ASSUME NEW p \in Pixels, panel'[p] # frame'[p] PROVE LeftToSend(p)'
    BY <1>1 DEF Progress
  <2>1. LeftToSend(p) /\ Have = 0 /\ Have' = 0
    BY <1>1, <1>3, <1>4 DEF WriterInv, SinkInv, Progress, Have
  <2> QED
    BY <1>1, <2>1 DEF LeftToSend
<1>6. WriterTypeOK' /\ Sendable(list)' /\ Turn'
  BY <1>1, <1>2 DEF WriterInv, SinkInv, WriterTypeOK, Sendable, Turn
<1>7. UNCHANGED Update!vars
  BY <1>1, <1>3 DEF Update!vars, Phase
<1> QED
  BY <1>5, <1>6, <1>7 DEF SinkInv

LEMMA RectIsSent ==
  ASSUME WriterInv, RectSent
  PROVE  SinkInv' /\ [Update!Next]_(Update!vars)
<1>1. /\ wpc = "data" /\ spc = "sent" /\ wpc' = "window" /\ cur' = cur + 1
      /\ UNCHANGED <<policy, frame, prev, list, shown, panel, spc, bad>>
  BY DEF RectSent, pipeline, sender, endpoint
<1>2. /\ WriterTypeOK /\ PipelineInv /\ cur \in 1 .. Len(list) /\ length = RectPixels(list[cur])
  BY <1>1 DEF WriterInv, SinkInv, Turn
<1>3. bad = {} /\ Received = RectPixels(list[cur])
  BY <1>1, <1>2, QuietIsGood, SentIsReceived
<1>4. Len(list) \in Nat
  BY DEF WriterInv, SinkInv, Sendable
<1>5. Progress'
  <2> SUFFICES ASSUME NEW p \in Pixels, panel'[p] # frame'[p] PROVE LeftToSend(p)'
    BY <1>1 DEF Progress
  <2>1. LeftToSend(p)
    BY <1>1, <1>3 DEF WriterInv, SinkInv, Progress
  <2>2. PICK i \in cur .. Len(list) :
          p \in Area(list[i]) /\ (i = cur => Place(list[i], p) >= RectPixels(list[cur]))
    BY <1>1, <1>3, <2>1 DEF LeftToSend, Have
  <2>3. i \in 1 .. Len(list)
    BY <1>2, <1>4
  <2>4. Place(list[i], p) \in 0 .. RectPixels(list[i]) - 1 /\ RectPixels(list[i]) \in Nat
    BY <2>2, <2>3, PixelsToSend, WindowPlaces
  <2>5. i # cur
    BY <2>2, <2>4
  <2>6. i \in cur' .. Len(list') /\ Have' = 0
    BY <1>1, <1>2, <1>4, <2>2, <2>5 DEF Have
  <2> QED
    BY <1>1, <2>2, <2>4, <2>6 DEF LeftToSend
<1>6. WriterTypeOK' /\ Sendable(list)' /\ Turn'
  <2>1. WriterTypeOK'
    BY <1>1, <1>2 DEF WriterTypeOK
  <2>2. Sendable(list)'
    BY <1>1 DEF WriterInv, SinkInv, Sendable
  <2>3. cur + 1 \in 1 .. Len(list) + 1
    BY <1>2, <1>4
  <2>4. Turn'
    BY <1>1, <2>3 DEF Turn
  <2> QED
    BY <2>1, <2>2, <2>4
<1>7. UNCHANGED Update!vars
  BY <1>1, <1>3 DEF Update!vars, Phase
<1> QED
  BY <1>5, <1>6, <1>7 DEF SinkInv

LEMMA PassEnds ==
  ASSUME WriterInv, FinishPass
  PROVE  SinkInv' /\ [Update!Next]_(Update!vars)
<1>1. /\ wpc = "window" /\ cur > Len(list) /\ prev' = frame /\ shown' = TRUE /\ wpc' = "wait"
      /\ list' = <<>> /\ cur' = 1 /\ UNCHANGED <<policy, frame, panel, spc, bad>>
  BY DEF FinishPass, pipeline, sender, endpoint
<1>2. /\ WriterTypeOK /\ PipelineInv /\ spc \in {"idle", "sent"} /\ cur \in 1 .. Len(list) + 1
      /\ Len(list) \in Nat
  BY <1>1 DEF WriterInv, SinkInv, Turn, Sendable
<1>3. bad = {}
  BY <1>2, QuietIsGood
<1>4. panel = frame
  <2>1. \A p \in Pixels : panel[p] = frame[p]
    <3> SUFFICES ASSUME NEW p \in Pixels, panel[p] # frame[p] PROVE FALSE
      OBVIOUS
    <3>1. LeftToSend(p)
      BY <1>1, <1>3 DEF WriterInv, SinkInv, Progress
    <3> QED
      BY <1>1, <1>2, <3>1 DEF LeftToSend
  <2> QED
    BY <1>2, <2>1 DEF WriterTypeOK
<1>5. WriterTypeOK' /\ Sendable(list)' /\ Turn' /\ Progress'
  <2>1. Sendable(list')
    BY <1>1, NoneAndFull
  <2>2. Sendable(list)'
    BY <2>1 DEF Sendable
  <2> QED
    BY <1>1, <1>2, <1>4, <2>2 DEF WriterTypeOK, Turn, Progress
<1>6. Update!Finish
  BY <1>1, <1>3, <1>4 DEF Update!Finish, Phase
<1> QED
  BY <1>5, <1>6 DEF SinkInv, Update!Next

\* The ends of a sink, and the next one.
LEMMA SinkEnds ==
  ASSUME WriterInv, wpc # "exited", Exit
  PROVE  SinkInv' /\ [Update!Next]_(Update!vars)
<1>1. wpc' = "exited" /\ UNCHANGED <<policy, frame, prev, list, cur, shown, panel>>
  BY DEF Exit
<1>2. SinkInv'
  BY <1>1 DEF WriterInv, SinkInv, WriterTypeOK, Sendable, Turn, Progress
<1>3. Phase # "down" /\ Phase' = "down"
  BY <1>1 DEF Phase
<1>4. Update!GoDown
  BY <1>1, <1>3 DEF Update!GoDown
<1> QED
  BY <1>2, <1>4 DEF Update!Next

LEMMA NextSink ==
  ASSUME WriterInv, Restart
  PROVE  SinkInv' /\ [Update!Next]_(Update!vars)
<1>1. /\ wpc = "exited" /\ wpc' = "wait" /\ shown' = FALSE /\ list' = <<>> /\ cur' = 1
      /\ frame' = Black /\ prev' = Black /\ spc' = "idle" /\ UNCHANGED <<policy, panel>>
  BY DEF Restart, Reopen
<1>2. WriterTypeOK /\ Black \in [Pixels -> Colours]
  BY DEF WriterInv, SinkInv, Black, Colours
<1>3. Sendable(list)'
  <2>1. Sendable(list')
    BY <1>1, NoneAndFull
  <2> QED
    BY <2>1 DEF Sendable
<1>4. SinkInv'
  BY <1>1, <1>2, <1>3 DEF SinkInv, WriterTypeOK, Turn, Progress
<1>5. Update!ComeBack
  BY <1>1, <1>2 DEF Update!ComeBack, Phase
<1> QED
  BY <1>4, <1>5 DEF Update!Next

-----------------------------------------------------------------------------
(* Every step.                                                             *)

\* What the writer does to the pipeline is what the pipeline may do.
LEMMA StepOfPipeline == WriterInv /\ [Next]_vars => [PipelineNext]_pipeline
<1> SUFFICES ASSUME WriterInv, [Next]_vars PROVE [PipelineNext]_pipeline
  OBVIOUS
<1>1. CASE UNCHANGED vars
  BY <1>1 DEF vars
<1>2. CASE StartPass
  BY <1>2 DEF StartPass
<1>3. CASE SinkStep
  <2>1. ASSUME SetWindow PROVE PipelineNext
    <3>1. cur \in 1 .. Len(list)
      BY <2>1 DEF SetWindow, WriterInv, SinkInv, Turn
    <3>2. RectPixels(list[cur]) \in Nat \ {0}
      BY <3>1, PixelsToSend, WindowPlaces
    <3>3. Begin(RectPixels(list[cur]))
      BY <2>1 DEF SetWindow
    <3> QED
      BY <3>2, <3>3 DEF PipelineNext
  <2>2. ASSUME SendFailed \/ RectSent \/ FinishPass PROVE UNCHANGED pipeline
    BY <2>2 DEF SendFailed, Exit, RectSent, FinishPass
  <2>3. ASSUME SendStep \/ TimesOut PROVE PipelineNext
    BY <2>3 DEF TimesOut, PipelineNext
  <2> QED
    BY <1>3, <2>1, <2>2, <2>3 DEF SinkStep
<1>4. CASE Land
  BY <1>4 DEF Land, PipelineNext
<1>5. CASE Fault
  <2>1. ASSUME WindowFails \/ ReleaseFails \/ InputFails \/ Stall PROVE UNCHANGED pipeline
    BY <2>1 DEF WindowFails, ReleaseFails, InputFails, Stall, Exit
  <2>2. ASSUME SubmitFails \/ ReapFails \/ LandFails PROVE PipelineNext
    BY <2>2 DEF LandFails, PipelineNext
  <2> QED
    BY <1>5, <2>1, <2>2 DEF Fault
<1>6. CASE Restart
  BY <1>6 DEF Restart, PipelineNext
<1> QED
  BY <1>1, <1>2, <1>3, <1>4, <1>5, <1>6 DEF Next

LEMMA WriterStep == WriterInv /\ [Next]_vars => WriterInv' /\ [Update!Next]_(Update!vars)
<1> SUFFICES ASSUME WriterInv, [Next]_vars PROVE WriterInv' /\ [Update!Next]_(Update!vars)
  OBVIOUS
<1>1. PipelineInv'
  BY StepOfPipeline, PipelineStep DEF WriterInv
<1> SUFFICES SinkInv' /\ [Update!Next]_(Update!vars)
  BY <1>1 DEF WriterInv
<1>2. ASSUME UNCHANGED <<sink, pipeline, panel>> PROVE SinkInv' /\ [Update!Next]_(Update!vars)
  <2>1. UNCHANGED <<policy, frame, prev, list, cur, wpc, shown, panel, spc, length, bad, stream>>
    BY <1>2 DEF sink, pipeline, sender, endpoint
  <2>2. Received' = Received
    BY <2>1 DEF Received
  <2>3. SinkInv'
    BY <2>1, <2>2
    DEF WriterInv, SinkInv, WriterTypeOK, Sendable, Turn, Progress, LeftToSend, Have
  <2>4. UNCHANGED Update!vars
    BY <2>1 DEF Update!vars, Phase
  <2> QED
    BY <2>3, <2>4
<1>3. CASE UNCHANGED vars
  BY <1>2, <1>3 DEF vars
<1>4. CASE StartPass
  BY <1>4, PassStarts
<1>5. CASE SinkStep
  <2>1. CASE SetWindow
    BY <2>1, WindowIsSet
  <2>2. CASE SendFailed
    BY <2>2, SinkEnds DEF SendFailed
  <2>3. CASE RectSent
    BY <2>3, RectIsSent
  <2>4. CASE FinishPass
    BY <2>4, PassEnds
  <2>5. CASE Sending /\ (SendStep \/ TimesOut)
    BY <2>5, PipelineMoves DEF Sending, TimesOut
  <2> QED
    BY <1>5, <2>1, <2>2, <2>3, <2>4, <2>5 DEF SinkStep
<1>6. CASE Land
  BY <1>1, <1>6, LandShows
<1>7. CASE Fault
  <2>1. CASE WindowFails \/ ReleaseFails \/ InputFails
    BY <2>1, SinkEnds DEF WindowFails, ReleaseFails, InputFails
  <2>2. CASE Stall
    BY <1>2, <2>2 DEF Stall
  <2>3. CASE Sending /\ (SubmitFails \/ ReapFails \/ LandFails)
    BY <2>3, PipelineMoves DEF Sending, LandFails
  <2> QED
    BY <1>7, <2>1, <2>2, <2>3 DEF Fault
<1>8. CASE Restart
  BY <1>8, NextSink
<1> QED
  BY <1>3, <1>4, <1>5, <1>6, <1>7, <1>8 DEF Next

LEMMA WriterSafe == Spec => []WriterInv
  BY WriterStarts, WriterStep, PTL DEF Spec

\* The writer uses the pipeline as the pipeline wants to be used, with every number of
\* slots and size of packets.
THEOREM WriterDrivesPipeline == Spec => PipelineSpec
<1>1. Init => PipelineInit
  BY DEF Init
<1> QED
  BY <1>1, WriterSafe, StepOfPipeline, PTL DEF Spec, PipelineSpec

\* For every grid, policy and difference: a pass sends no pixel twice, nothing outside
\* the panel, and no more rectangles than allowed.
THEOREM ListsAreSound == Spec => []ListIsSound
<1>1. WriterInv => ListIsSound
  <2> SUFFICES ASSUME WriterInv PROVE ListIsSound
    OBVIOUS
  <2>1. /\ list \in Seq({r \in Corners : OnPanel(r)}) /\ Len(list) <= MaxRects
        /\ \A i, j \in 1 .. Len(list) : i # j => Area(list[i]) \cap Area(list[j]) = {}
    BY DEF WriterInv, SinkInv, Sendable
  <2>2. DOMAIN list = 1 .. Len(list)
    BY <2>1
  <2> QED
    BY <2>1, <2>2, PixelsToSend DEF ListIsSound
<1> QED
  BY <1>1, WriterSafe, PTL

\* The writer keeps what a pass promises: no write puts a pixel in a wrong place, a pass
\* that ends has put them all on the panel, and one in which data was lost ends only
\* with the sink.
THEOREM WriterUpdatesPanel == Spec => UpdateSpec
  BY WriterStarts, WriterSafe, WriterStep, PTL DEF Spec, UpdateSpec, Update!Spec
=============================================================================
