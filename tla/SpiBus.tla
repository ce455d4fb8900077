------------------------------- MODULE SpiBus -------------------------------
(***************************************************************************)
(* The panel and the touch controller share one SPI bus behind the CH347.  *)
(* The sink switches it with USB commands: the data/command line, the      *)
(* clock and the two chip selects.  It caches what it set and skips a      *)
(* command that would change nothing.                                      *)
(*                                                                         *)
(* One action is one USB command and, where the code waits for it, its     *)
(* reply.  A command may get lost, a reply may get lost or come after the  *)
(* timeout, a clock may be refused, the sink may be killed.  A touch       *)
(* transaction (touch_probe_pressure, touch_read_raw) and a rectangle      *)
(* (send_rect) are sequences of commands.  Of a rectangle's two window     *)
(* commands one is modelled, and of its pixels one packet.                 *)
(***************************************************************************)
EXTENDS Integers, Sequences, SequencesExt

CONSTANTS
  Options,   \* the settings to look at, see OptionsAssumption
  Samples,   \* reads of touch_read_raw; touch_probe_pressure makes one
  Backlog,   \* unread replies to writes that the CH347 keeps
  MaxFaults  \* bound on faults

\* hold: CH347_HOLD_CS, the panel stays selected between rectangles; irq:
\* CH347_TOUCH_USE_IRQ, look at the interrupt line first; replies: the CH347
\* answers the writes to the panel, though nobody reads the answers.
ASSUME OptionsAssumption == Options \subseteq [hold : BOOLEAN, irq : BOOLEAN, replies : BOOLEAN]
ASSUME SamplesAssumption == Samples \in Nat \ {0} /\ MaxFaults \in Nat
\* ch347_read_expected skips so many replies that it always finds its own.
ASSUME BacklogAssumption == Backlog \in Nat /\ Backlog + MaxFaults < 127

VARIABLES
  options,
  dev,      \* the hardware: DC line, clock, selects of panel and touch
  cache,    \* gpio_dc_high, spi_clock_index, spi_cfg_valid
  replies,  \* the commands whose replies nobody has read, oldest first
  pc,       \* the next command
  left,     \* samples, or writes, left to do
  unsure,   \* history: a select or clock command failed, and no transaction succeeded since
  late,     \* history: answers that came too late, counted up to 2
  faults

vars == <<options, dev, cache, replies, pc, left, unsure, late, faults>>

Clocks == {"touch", "lcd"}

TouchSteps == {"irq", "touchClock", "selectTouch", "sample", "deselectTouch", "lcdClock",
               "selectLcd", "undoSelect", "undoClock", "undoLcd"}
RectSteps == {"dc", "select", "write"}

\* The levels of DC that the writes of send_rect need: the window command, its
\* coordinates, RAMWR, and pixels.
Levels == <<FALSE, TRUE, FALSE, TRUE>>
Level == Levels[Len(Levels) + 1 - left]

\* The caches of a new process.
EmptyCache == [dc |-> TRUE, clock |-> "none", cfg |-> FALSE]

\* CH347_ARM has initialised the panel, and main() sets the selects as it needs
\* them between rectangles; it does not look whether that worked.
Armed ==
  \E selects \in [lcd : BOOLEAN, touch : BOOLEAN], dc \in BOOLEAN :
    /\ dev' = [dc |-> dc, clock |-> "lcd", lcd |-> selects.lcd, touch |-> selects.touch]
    /\ unsure' = (selects # [lcd |-> options.hold, touch |-> FALSE])

Init ==
  /\ options \in Options
  /\ dev \in [dc : BOOLEAN, clock : {"lcd"}, lcd : {options.hold}, touch : {FALSE}]
  /\ cache = EmptyCache /\ replies = <<>> /\ pc = "idle" /\ left = 0
  /\ unsure = FALSE /\ late = 0 /\ faults = MaxFaults

Fault == faults > 0 /\ faults' = faults - 1

\* One more answer that nobody waited for.
Late == late' = IF late < 2 THEN late + 1 ELSE late

-----------------------------------------------------------------------------
(* Commands.                                                               *)

\* Where a failed command leads: a rectangle ends the sink, a sample leads to
\* "fail:" and there nothing stops the next command; all others end the
\* transaction and undo nothing.
AfterFailure(step) ==
  CASE step \in RectSteps   -> "exited"
    [] step = "sample"      -> "undoSelect"
    [] step = "undoSelect"  -> "undoClock"
    [] step = "undoClock"   -> "undoLcd"
    [] OTHER                -> "idle"

Fails ==
  /\ pc' = AfterFailure(pc)
  /\ unsure' = (unsure \/ pc \in TouchSteps \ {"irq", "sample"})

Done(next) == pc' = next /\ UNCHANGED unsure

\* A command that nobody waits for an answer to.
Send(effect, next) ==
  /\ \/ dev' = effect /\ UNCHANGED faults /\ Done(next)
     \/ Fault /\ dev' \in {dev, effect} /\ Fails
  /\ UNCHANGED <<cache, replies, late>>

\* Mutant of Search: only the first reply is looked at.
SearchFirst(queue, op) ==
  [heard |-> queue # <<>> /\ Head(queue) = op, rest |-> IF queue = <<>> THEN queue ELSE Tail(queue)]

\* ch347_read_expected: read up to the first reply to such a command, or all there is.
Search(queue, op) ==
  LET i == SelectInSeq(queue, LAMBDA r : r = op)
  IN [heard |-> i > 0, rest |-> IF i > 0 THEN SubSeq(queue, i + 1, Len(queue)) ELSE <<>>]

\* A command whose reply is recognised by its opcode: answered; the answer late
\* or lost; not sent; or sent although the transfer failed.  An older reply to
\* such a command passes for the answer.
Query(op, effect, accepted, next) ==
  LET Read(queue, tail) ==
        /\ dev' = effect
        /\ replies' = Search(queue, op).rest \o tail
        /\ IF Search(queue, op).heard THEN cache' = accepted /\ Done(next)
           ELSE UNCHANGED cache /\ Fails
  IN \/ Read(Append(replies, op), <<>>) /\ UNCHANGED <<late, faults>>
     \/ Fault /\ Read(replies, <<>>) /\ UNCHANGED late
     \/ Fault /\ Read(replies, <<op>>) /\ Late
     \/ Fault /\ Fails /\ UNCHANGED <<dev, cache, replies, late>>
     \/ Fault /\ Fails /\ dev' = effect /\ replies' = Append(replies, op) /\ Late /\ UNCHANGED cache

\* gpio_dc: skipped if it would change nothing; any reply passes for the answer.
SetDc(high, next) ==
  LET accepted == [cache EXCEPT !.dc = high]
      effect == [dev EXCEPT !.dc = high]
  IN IF cache.dc = high THEN Done(next) /\ UNCHANGED <<dev, cache, replies, late, faults>>
     ELSE \/ /\ dev' = effect /\ cache' = accepted /\ Done(next) /\ UNCHANGED <<late, faults>>
             /\ replies' = Tail(Append(replies, "gpio"))
          \/ /\ Fault /\ dev' = effect /\ replies # <<>> /\ cache' = accepted /\ Done(next)
             /\ replies' = Tail(replies) /\ UNCHANGED late
          \/ /\ Fault /\ Fails /\ dev' \in {dev, effect} /\ UNCHANGED <<cache, late>>
             /\ replies' \in {replies, Append(replies, "gpio")}

\* Mutant of SetClock: nobody looks whether the CH347 refused.
SetClockRefused(clock, next) ==
  IF cache.clock = clock THEN Done(next) /\ UNCHANGED <<dev, cache, replies, late, faults>>
  ELSE IF ~cache.cfg
  THEN Query("cfg", dev, [cache EXCEPT !.cfg = TRUE, !.clock = dev.clock], pc)
  ELSE \E clocks \in {dev.clock, clock} :
         Query("clock", [dev EXCEPT !.clock = clocks], [cache EXCEPT !.clock = clock], next)

\* ch347_spi_set_clock: nothing to do; read the configuration first, which also
\* tells the clock; or write it.  The CH347 may refuse: that is an error, but the
\* cache takes the clock for set.
SetClock(clock, next) ==
  IF cache.clock = clock THEN Done(next) /\ UNCHANGED <<dev, cache, replies, late, faults>>
  ELSE IF ~cache.cfg
  THEN Query("cfg", dev, [cache EXCEPT !.cfg = TRUE, !.clock = dev.clock], pc)
  ELSE \/ Query("clock", [dev EXCEPT !.clock = clock], [cache EXCEPT !.clock = clock], next)
       \/ /\ Fault /\ Fails /\ UNCHANGED <<dev, late>>
          /\ replies' = Search(Append(replies, "clock"), "clock").rest
          /\ cache' = [cache EXCEPT !.clock = clock]

\* One packet sets both selects.
Selecting(lcd, touch) == [dev EXCEPT !.lcd = lcd, !.touch = touch]

\* The panel keeps the bus between rectangles: lcd_cs_raw.
Resting == IF options.hold THEN Selecting(TRUE, FALSE) ELSE dev

-----------------------------------------------------------------------------
(* A touch transaction.  DC is high already: a rectangle leaves it so, and a   *)
(* new process takes it to be, so that its gpio_dc sends nothing.              *)

BeginTouch ==
  /\ pc = "idle"
  /\ pc' = (IF options.irq THEN "irq" ELSE "touchClock")
  /\ left' \in {1, Samples}
  /\ UNCHANGED <<options, dev, cache, replies, unsure, late, faults>>

\* ch347_read_gpio: when nobody touches the panel there is nothing to sample.
ReadIrq ==
  /\ pc = "irq"
  /\ \E next \in {"touchClock", "idle"} : Query("gpio", dev, cache, next)
  /\ UNCHANGED <<options, left>>

TouchClock ==
  /\ pc = "touchClock"
  /\ SetClock("touch", "selectTouch")
  /\ UNCHANGED <<options, left>>

SelectTouch ==
  /\ pc = "selectTouch"
  /\ Send(Selecting(FALSE, TRUE), "sample")
  /\ UNCHANGED <<options, left>>

\* ch347_touch_spi_read.
Sample ==
  /\ pc = "sample"
  /\ Query("spi", dev, cache, IF left > 1 THEN "sample" ELSE "deselectTouch")
  /\ left' = (IF pc' = AfterFailure("sample") THEN left ELSE left - 1)
  /\ UNCHANGED options

DeselectTouch ==
  /\ pc = "deselectTouch"
  /\ Send(Selecting(FALSE, FALSE), "lcdClock")
  /\ UNCHANGED <<options, left>>

LcdClock ==
  /\ pc = "lcdClock"
  /\ SetClock("lcd", "selectLcd")
  /\ UNCHANGED <<options, left>>

\* Mutant of SelectLcd: the panel is not selected again.
SelectLcdForgotten ==
  /\ pc = "selectLcd"
  /\ pc' = "idle" /\ unsure' = FALSE
  /\ UNCHANGED <<options, dev, cache, replies, left, late, faults>>

\* The transaction ends well.
SelectLcd ==
  /\ pc = "selectLcd"
  /\ \/ dev' = Resting /\ pc' = "idle" /\ unsure' = FALSE /\ UNCHANGED faults
     \/ options.hold /\ Fault /\ dev' \in {dev, Resting} /\ Fails
  /\ UNCHANGED <<options, cache, replies, left, late>>

\* "fail:", whose errors nobody looks at.
UndoSelect ==
  /\ pc = "undoSelect"
  /\ Send(Selecting(FALSE, FALSE), "undoClock")
  /\ UNCHANGED <<options, left>>

UndoClock ==
  /\ pc = "undoClock"
  /\ SetClock("lcd", "undoLcd")
  /\ UNCHANGED <<options, left>>

UndoLcd ==
  /\ pc = "undoLcd"
  /\ Send(Resting, "idle")
  /\ UNCHANGED <<options, left>>

-----------------------------------------------------------------------------
(* A rectangle.  The selects around each write are one packet each, unless the *)
(* panel stays selected.                                                       *)

BeginRect ==
  /\ pc = "idle"
  /\ pc' = "dc" /\ left' = Len(Levels)
  /\ UNCHANGED <<options, dev, cache, replies, unsure, late, faults>>

RectDc ==
  /\ pc = "dc"
  /\ SetDc(Level, IF options.hold THEN "write" ELSE "select")
  /\ UNCHANGED <<options, left>>

\* lcd_cs(1); the lcd_cs(0) that follows a write is left to the next packet.
RectSelect ==
  /\ pc = "select"
  /\ Send(Selecting(TRUE, FALSE), "write")
  /\ UNCHANGED <<options, left>>

\* spi_small or send_bytes, and lcd_cs(0) unless the panel stays selected.
Write ==
  /\ pc = "write"
  /\ \/ /\ Done(IF left > 1 THEN "dc" ELSE "idle") /\ UNCHANGED faults
        /\ dev' = (IF options.hold THEN dev ELSE Selecting(FALSE, FALSE))
     \/ Fault /\ Fails /\ dev' \in {dev, IF options.hold THEN dev ELSE Selecting(FALSE, FALSE)}
  /\ replies' = IF options.replies /\ Len(replies) < Backlog THEN Append(replies, "write")
                ELSE replies
  /\ left' = left - 1
  /\ UNCHANGED <<options, cache, late>>

\* The sink is killed (a fault) or has given up; the daemon arms the panel and
\* starts the next one.  Replies may have survived in the CH347.
Restart ==
  /\ \/ pc = "exited" /\ UNCHANGED faults
     \/ pc # "exited" /\ Fault
  /\ Armed /\ cache' = EmptyCache
  /\ replies' \in {<<>>, replies}
  /\ pc' = "idle" /\ left' = 0
  /\ UNCHANGED <<options, late>>

Touch ==
  \/ ReadIrq \/ TouchClock \/ SelectTouch \/ Sample \/ DeselectTouch \/ LcdClock
  \/ SelectLcd \/ UndoSelect \/ UndoClock \/ UndoLcd

Rect == RectDc \/ RectSelect \/ Write

Next == BeginTouch \/ Touch \/ BeginRect \/ Rect \/ Restart

Spec == Init /\ [][Next]_vars

\* The sink goes on, the daemon restarts it, and the main loop polls the touch
\* panel in every round, whatever it draws between two polls.
FairSpec ==
  /\ Spec
  /\ WF_vars(Touch) /\ WF_vars(Rect) /\ WF_vars(Restart)
  /\ SF_vars(BeginTouch)

-----------------------------------------------------------------------------
TypeOK ==
  /\ options \in Options
  /\ dev \in [dc : BOOLEAN, clock : Clocks, lcd : BOOLEAN, touch : BOOLEAN]
  /\ cache \in [dc : BOOLEAN, clock : Clocks \cup {"none"}, cfg : BOOLEAN]
  /\ replies \in Seq({"gpio", "cfg", "clock", "spi", "write"})
  /\ pc \in {"idle", "exited"} \cup TouchSteps \cup RectSteps
  /\ left \in 0 .. Samples \cup 0 .. Len(Levels)
  /\ unsure \in BOOLEAN /\ late \in 0 .. 2 /\ faults \in 0 .. MaxFaults

\* What is written to the panel reaches the panel and nobody else, with the right
\* DC level and at its clock: whatever failed before, once a touch transaction
\* went through, and between rectangles nothing is left over from touch.  DC is
\* right even before that, and with CH347_HOLD_CS=0 so are the selects.
PanelHears ==
  pc = "write" =>
    /\ dev.dc = Level
    /\ ~unsure \/ ~options.hold => dev.lcd /\ ~dev.touch
    /\ ~unsure => dev.clock = "lcd"

\* A sample that counts is the answer to its own command, taken from the touch
\* controller at its clock, although unread answers to writes and one late answer
\* may wait in the CH347: samples skip what clock commands left there, and clock
\* commands what samples left.  Two late answers can keep each other there, and
\* then every sample is the former transaction's.
SamplesAreTrue ==
  [][pc = "sample" /\ pc' \in {"sample", "deselectTouch"} /\ ~unsure
       => /\ dev.touch /\ ~dev.lcd /\ dev.clock = "touch"
          /\ late < 2 => replies' = <<>>]_vars

\* The bus heals: after the last fault a transaction goes through.  If the
\* interrupt line has a say that takes a finger.
Heals == ~options.irq => (unsure ~> ~unsure)
=============================================================================
