---------------------------- MODULE PanelWriter -----------------------------
(***************************************************************************)
(* A pass of the sink from the new frame to the last pixel on the panel:   *)
(* the damage is selected by the policy the sink was started with, and     *)
(* each rectangle is sent as a window and a stream of data through the URB *)
(* pipeline.  The ways a pass can fail are those of the pipeline, of the   *)
(* window and of the chip select; all end the sink, and the daemon starts  *)
(* another.                                                                *)
(*                                                                         *)
(* The panel (external) writes what arrives into its window, row by row.   *)
(* Overlay, cursor and calibration, which draw into the frame and append   *)
(* rectangles of their own, are left out.                                  *)
(***************************************************************************)
EXTENDS UrbPipeline, DirtyRects

CONSTANTS
  Changes,    \* sets of pixels in which a frame may differ from the one before
  Items,      \* rectangles that a packet of the rectangle protocol may carry
  MaxPasses,  \* bound: passes of a sink that has shown its first frame
  MaxFaults   \* bound: failures

ASSUME WriterAssumption == MaxPasses \in Nat /\ MaxFaults \in Nat
ASSUME ChangesAssumption == Changes \subseteq SUBSET Pixels
\* rect_protocol_loop stops at an item that is empty or reaches beyond the panel.
ASSUME ItemsAssumption == \A r \in Items : OnPanel(r)

VARIABLES
  policy,  \* "bbox", "tiles", "rects": the configuration of the sink
  frame, prev, \* frame, prev
  list,    \* send_list
  cur,     \* the rectangle being sent, i of the send loop
  wpc,     \* "wait" for input, "window", "data", "exited"
  shown,   \* frames > 0
  panel,
  stalled, \* the bridge does not answer until it is reset
  passes, faults

sink == <<policy, frame, prev, list, cur, wpc, shown>>
budget == <<passes, faults>>
vars == <<sink, pipeline, panel, stalled, budget>>

Colours == {0, 1}
Black == [p \in Pixels |-> 0]
Flip(f, ps) == [p \in Pixels |-> IF p \in ps THEN 1 - f[p] ELSE f[p]]

Init ==
  /\ policy \in {"bbox", "tiles", "rects"}
  /\ frame = Black /\ prev = Black /\ list = <<>> /\ cur = 1
  /\ wpc = "wait" /\ shown = FALSE
  /\ panel \in {Black, [p \in Pixels |-> 1]}
  /\ PipelineInit
  /\ stalled = FALSE /\ passes = 0 /\ faults = 0

-----------------------------------------------------------------------------
(* The sink.                                                               *)

Damage(f, old, packet) ==
  CASE policy = "bbox" -> BboxDamage(~shown, f, prev)
    [] policy = "tiles" -> TileDamage(~shown, f, prev, old)
    [] policy = "rects" -> RectDamage(~shown, f, prev, packet)

\* A frame, or a packet that changes some of its rectangles; old are the tiles that
\* were not refreshed for stale_ms.
StartPass ==
  /\ wpc = "wait"
  /\ shown => passes < MaxPasses
  /\ \E d \in Changes, old \in {{}, Tiles}, packet \in SUBSET Items :
       /\ policy # "tiles" => old = {}
       /\ IF policy = "rects" THEN d \subseteq UNION {Area(r) : r \in packet} ELSE packet = {}
       /\ frame' = Flip(frame, d)
       /\ list' = Damage(Flip(frame, d), old, packet)
  /\ wpc' = "window" /\ cur' = 1
  /\ passes' = IF shown THEN passes + 1 ELSE passes
  /\ UNCHANGED <<policy, prev, shown, pipeline, panel, stalled, faults>>

\* send_rect: lcd_set_window_for_data, then send_bytes begins.
SetWindow ==
  /\ wpc = "window" /\ cur <= Len(list)
  /\ Begin(RectPixels(list[cur]))
  /\ wpc' = "data"
  /\ UNCHANGED <<policy, frame, prev, list, cur, shown, panel, stalled, budget>>

Exit == wpc' = "exited" /\ UNCHANGED <<policy, frame, prev, list, cur, shown, pipeline, panel, stalled>>

WindowFails == wpc = "window" /\ cur <= Len(list) /\ Exit

\* goto out.
SendFailed == wpc = "data" /\ spc = "failed" /\ Exit /\ UNCHANGED budget

\* lcd_cs(fd, 0) and the next rectangle.
RectSent ==
  /\ wpc = "data" /\ spc = "sent"
  /\ wpc' = "window" /\ cur' = cur + 1
  /\ UNCHANGED <<policy, frame, prev, list, shown, pipeline, panel, stalled, budget>>

ReleaseFails == wpc = "data" /\ spc = "sent" /\ Exit

\* main swaps frame and prev, and the next frame is written over the old prev;
\* rect_protocol_loop copies.
FinishPass ==
  /\ wpc = "window" /\ cur > Len(list)
  /\ prev' = frame /\ shown' = TRUE /\ wpc' = "wait" /\ list' = <<>> /\ cur' = 1
  /\ UNCHANGED <<policy, frame, pipeline, panel, stalled, budget>>

\* rect_protocol_loop: the input has ended or lost its synchronisation.
InputFails == wpc = "wait" /\ policy = "rects" /\ Exit

Sending == wpc = "data" /\ UNCHANGED <<sink, panel, stalled>>

-----------------------------------------------------------------------------
(* The panel, the bridge and the daemon.                                   *)

\* What the panel has received of the rectangle.
Received ==
  LET sum[n \in 0 .. Len(stream)] == IF n = 0 THEN 0 ELSE sum[n - 1] + stream[n].size
  IN sum[Len(stream)]

\* The data of URB u lands in the window after what was received before.
Landed(u) ==
  LET r == list[cur]
      Place(p) == (p[2] - r.y0) * Width(r) + p[1] - r.x0
      Source(n) == <<r.x0 + (n % Width(r)), r.y0 + (n \div Width(r))>>
  IN [p \in Pixels |->
        IF p \in Area(r) /\ Place(p) \in Received .. Received + u.size - 1
        THEN frame[Source(u.off + Place(p) - Received)] ELSE panel[p]]

Land ==
  /\ wpc = "data" /\ ~stalled
  /\ Transfer
  /\ panel' = Landed(urbs[finished + 1])
  /\ UNCHANGED <<sink, stalled, budget>>

LandFails == ~stalled /\ TransferFails

Stall == wpc = "data" /\ ~stalled /\ stalled' = TRUE /\ UNCHANGED <<sink, pipeline, panel>>

TimesOut == stalled /\ Timeout

\* Another sink, with new buffers and a bridge that was reset.
Restart ==
  /\ wpc = "exited"
  /\ wpc' = "wait" /\ shown' = FALSE /\ list' = <<>> /\ cur' = 1
  /\ frame' = Black /\ prev' = Black
  /\ Reopen
  /\ stalled' = FALSE
  /\ UNCHANGED <<policy, panel, budget>>

-----------------------------------------------------------------------------
SinkStep ==
  \/ SetWindow \/ SendFailed \/ RectSent \/ FinishPass
  \/ Sending /\ (SendStep \/ TimesOut) /\ UNCHANGED budget

Fault ==
  /\ faults < MaxFaults /\ faults' = faults + 1 /\ UNCHANGED passes
  /\ \/ WindowFails \/ ReleaseFails \/ InputFails \/ Stall
     \/ Sending /\ (SubmitFails \/ ReapFails \/ LandFails)

Next == StartPass \/ SinkStep \/ Land \/ Fault \/ Restart

Spec == Init /\ [][Next]_vars

\* The sink runs, the daemon replaces it, the input has a first frame for a new
\* sink, and a bridge that is not stalled works its queue off.
FairSpec ==
  /\ Spec
  /\ WF_vars(SinkStep) /\ WF_vars(Restart) /\ WF_vars(Land)
  /\ WF_vars(~shown /\ StartPass)

-----------------------------------------------------------------------------
(* Properties.                                                             *)

Phase ==
  CASE wpc = "wait" -> "rest"
    [] wpc = "exited" -> "down"
    [] OTHER -> IF bad = {} THEN "pass" ELSE "spoilt"

Update == INSTANCE PanelUpdate WITH phase <- Phase, target <- frame

\* Whatever the policy selects covers every pixel that differs, no write puts a
\* pixel in a wrong place, a pass that ends has put them all on the panel, and one
\* in which data was lost never ends but with the sink.
UpdateSpec == Update!Spec

\* A pass sends no pixel twice, nothing outside the panel, and no more rectangles
\* than allowed.
ListIsSound ==
  /\ Len(list) <= MaxRects
  /\ \A i \in DOMAIN list :
       /\ Area(list[i]) \subseteq Pixels
       /\ \A j \in DOMAIN list : i # j => Area(list[i]) \cap Area(list[j]) = {}

\* After any single failure, a bridge that stops answering included, the sink ends,
\* comes back, and the panel shows the frame.
ShownAgain == <>[](wpc = "wait" /\ shown /\ panel = frame)
=============================================================================
