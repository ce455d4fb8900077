--------------------------- MODULE SpiBus_proofs ---------------------------
(***************************************************************************)
(* What is written to the panel reaches the panel and nobody else, and a   *)
(* sample that counts is the touch controller's answer to its own command: *)
(* for every set of options, number of samples, backlog and number of      *)
(* faults.  For the first it does not matter which reply passes for which  *)
(* command; the second is about nothing else.                              *)
(***************************************************************************)
EXTENDS SpiBus, FiniteSetTheorems, TLAPS

Types ==
  /\ options \in Options /\ options.hold \in BOOLEAN
  /\ dev \in [dc : BOOLEAN, clock : Clocks, lcd : BOOLEAN, touch : BOOLEAN]
  /\ cache \in [dc : BOOLEAN, clock : Clocks \cup {"none"}, cfg : BOOLEAN]
  /\ cache.clock # "none" => cache.cfg
  /\ left \in Int
  /\ pc \in RectSteps => left \in 1 .. 4

\* The cache of DC is right, except that a new process takes it to be high, which
\* the first command of a rectangle, at left = 4, is not.
DcKnown ==
  /\ pc \in {"select", "write"} \/ (pc = "dc" /\ left # 4) => cache.dc = dev.dc
  /\ pc \in TouchSteps \cup {"idle", "dc"} => cache.dc = dev.dc \/ cache.dc
  /\ pc \in {"select", "write"} => dev.dc = Level

\* Inside a transaction the clock that the cache knows is that of touch, so that
\* the one of the panel is really set.
ClockKnown ==
  pc \in {"selectTouch", "sample", "deselectTouch", "lcdClock", "undoSelect", "undoClock"}
    => cache.clock = "touch" /\ cache.cfg

\* How far the bus has been given back.
BusGiven ==
  /\ pc = "lcdClock" => ~dev.touch
  /\ pc = "selectLcd" => ~dev.touch /\ dev.clock = "lcd"
  /\ pc = "undoClock" /\ ~unsure => ~dev.touch
  /\ pc = "undoLcd" /\ ~unsure => ~dev.touch /\ dev.clock = "lcd"
  /\ pc \in RectSteps \cup {"idle", "irq", "touchClock"} /\ ~unsure
       => dev.clock = "lcd" /\ (options.hold => dev.lcd /\ ~dev.touch)
  /\ pc = "write" /\ ~options.hold => dev.lcd /\ ~dev.touch

BusInv == Types /\ DcKnown /\ ClockKnown /\ BusGiven

-----------------------------------------------------------------------------
(* What the commands do.                                                   *)

LEMMA QueryOutcome ==
  ASSUME NEW op, NEW effect, NEW accepted, NEW next, Query(op, effect, accepted, next)
  PROVE  \/ dev' = effect /\ cache' = accepted /\ Done(next)
         \/ (dev' = dev \/ dev' = effect) /\ cache' = cache /\ Fails
  BY DEF Query

LEMMA SetClockOutcome ==
  ASSUME NEW clock, NEW next, SetClock(clock, next)
  PROVE  \/ cache.clock = clock /\ dev' = dev /\ cache' = cache /\ Done(next)
         \/ /\ cache.clock # clock /\ ~cache.cfg /\ dev' = dev /\ Done(pc)
            /\ cache' = [cache EXCEPT !.cfg = TRUE, !.clock = dev.clock]
         \/ /\ cache.clock # clock /\ cache.cfg /\ dev' = [dev EXCEPT !.clock = clock] /\ Done(next)
            /\ cache' = [cache EXCEPT !.clock = clock]
         \/ /\ dev' = dev \/ dev' = [dev EXCEPT !.clock = clock]
            /\ cache' = cache \/ (cache.cfg /\ cache' = [cache EXCEPT !.clock = clock])
            /\ Fails
<1>1. CASE cache.clock = clock
  BY <1>1 DEF SetClock
<1>2. CASE cache.clock # clock /\ ~cache.cfg
  BY <1>2, QueryOutcome DEF SetClock
<1>3. CASE cache.clock # clock /\ cache.cfg
  BY <1>3, QueryOutcome DEF SetClock
<1> QED
  BY <1>1, <1>2, <1>3

LEMMA SetDcOutcome ==
  ASSUME NEW high, NEW next, SetDc(high, next)
  PROVE  \/ cache.dc = high /\ dev' = dev /\ cache' = cache /\ Done(next)
         \/ /\ dev' = [dev EXCEPT !.dc = high] /\ cache' = [cache EXCEPT !.dc = high] /\ Done(next)
         \/ (dev' = dev \/ dev' = [dev EXCEPT !.dc = high]) /\ cache' = cache /\ Fails
  BY DEF SetDc

LEMMA SendOutcome ==
  ASSUME NEW effect, NEW next, Send(effect, next)
  PROVE  /\ UNCHANGED <<cache, replies, late>>
         /\ \/ dev' = effect /\ Done(next)
            \/ (dev' = dev \/ dev' = effect) /\ Fails
  BY DEF Send

\* SetClock leaves everything but the clock and what is known of it alone.
LEMMA ClockOutcome ==
  ASSUME Types, NEW clock \in Clocks, NEW next, SetClock(clock, next)
  PROVE  /\ dev' \in [dc : BOOLEAN, clock : Clocks, lcd : BOOLEAN, touch : BOOLEAN]
         /\ cache' \in [dc : BOOLEAN, clock : Clocks \cup {"none"}, cfg : BOOLEAN]
         /\ dev'.dc = dev.dc /\ dev'.lcd = dev.lcd /\ dev'.touch = dev.touch
         /\ cache'.dc = cache.dc /\ (cache.cfg => cache'.cfg)
         /\ cache'.clock # "none" => cache'.cfg
         /\ \/ Fails
            \/ Done(pc) /\ ~cache.cfg /\ dev'.clock = dev.clock
            \/ Done(next) /\ cache.clock = clock /\ cache' = cache /\ dev'.clock = dev.clock
            \/ Done(next) /\ cache.cfg /\ cache'.clock = clock /\ dev'.clock = clock
<1> USE SetClockOutcome DEF Types
<1>1. /\ dev' = dev \/ dev' = [dev EXCEPT !.clock = clock]
      /\ \/ cache' = cache
         \/ cache.cfg /\ cache' = [cache EXCEPT !.clock = clock]
         \/ cache' = [cache EXCEPT !.cfg = TRUE, !.clock = dev.clock]
  OBVIOUS
<1>2. /\ dev' \in [dc : BOOLEAN, clock : Clocks, lcd : BOOLEAN, touch : BOOLEAN]
      /\ dev'.dc = dev.dc /\ dev'.lcd = dev.lcd /\ dev'.touch = dev.touch
  BY <1>1
<1>3. /\ cache' \in [dc : BOOLEAN, clock : Clocks \cup {"none"}, cfg : BOOLEAN]
      /\ cache'.dc = cache.dc /\ (cache.cfg => cache'.cfg)
      /\ cache'.clock # "none" => cache'.cfg
  BY <1>1
<1> QED
  BY <1>2, <1>3

\* What is left of a command that sets the selects.
LEMMA SelectOutcome ==
  ASSUME Types, NEW lcd \in BOOLEAN, NEW touch \in BOOLEAN, NEW next,
         Send(Selecting(lcd, touch), next)
  PROVE  /\ dev' \in [dc : BOOLEAN, clock : Clocks, lcd : BOOLEAN, touch : BOOLEAN]
         /\ dev'.dc = dev.dc /\ dev'.clock = dev.clock /\ cache' = cache
         /\ \/ Fails
            \/ Done(next) /\ (dev'.lcd <=> lcd) /\ (dev'.touch <=> touch)
<1>1. /\ Selecting(lcd, touch) \in [dc : BOOLEAN, clock : Clocks, lcd : BOOLEAN, touch : BOOLEAN]
      /\ Selecting(lcd, touch).dc = dev.dc /\ Selecting(lcd, touch).clock = dev.clock
      /\ (Selecting(lcd, touch).lcd <=> lcd) /\ (Selecting(lcd, touch).touch <=> touch)
  BY DEF Types, Selecting
<1>2. dev \in [dc : BOOLEAN, clock : Clocks, lcd : BOOLEAN, touch : BOOLEAN]
  BY DEF Types
<1> QED
  BY <1>1, <1>2, SendOutcome

\* Where a failure leads, and what it leaves unsure.
LEMMA FailsTo ==
  ASSUME Fails
  PROVE  /\ pc \in RectSteps => pc' = "exited" /\ (unsure' <=> unsure)
         /\ pc = "irq" => pc' = "idle" /\ (unsure' <=> unsure)
         /\ pc = "sample" => pc' = "undoSelect" /\ (unsure' <=> unsure)
         /\ pc = "undoSelect" => pc' = "undoClock" /\ unsure'
         /\ pc = "undoClock" => pc' = "undoLcd" /\ unsure'
         /\ pc \in {"touchClock", "selectTouch", "deselectTouch", "lcdClock", "selectLcd", "undoLcd"}
              => pc' = "idle" /\ unsure'
<1>1. pc' = AfterFailure(pc) /\ unsure' = (unsure \/ pc \in TouchSteps \ {"irq", "sample"})
  BY DEF Fails
<1>2. /\ pc \in RectSteps => pc' = "exited"
      /\ pc = "sample" => pc' = "undoSelect"
      /\ pc = "undoSelect" => pc' = "undoClock"
      /\ pc = "undoClock" => pc' = "undoLcd"
      /\ pc \in {"irq", "touchClock", "selectTouch", "deselectTouch", "lcdClock", "selectLcd", "undoLcd"}
           => pc' = "idle"
  BY <1>1 DEF AfterFailure, RectSteps
<1>3. /\ pc \in RectSteps \cup {"irq", "sample"} => (unsure' <=> unsure)
      /\ pc \in TouchSteps \ {"irq", "sample"} => unsure'
  BY <1>1 DEF RectSteps, TouchSteps
<1> QED
  BY <1>2, <1>3 DEF RectSteps, TouchSteps

-----------------------------------------------------------------------------
(* The steps.                                                              *)

LEMMA TouchKeeps ==
  ASSUME BusInv, Touch
  PROVE  BusInv'
<1> USE DEF BusInv, Types, DcKnown, ClockKnown, BusGiven, TouchSteps, RectSteps, Clocks
<1>1. CASE ReadIrq
  <2>1. /\ pc = "irq" /\ dev' = dev /\ cache' = cache /\ UNCHANGED <<options, left>> /\ (unsure' <=> unsure)
        /\ pc' \in {"touchClock", "idle"}
    BY <1>1, QueryOutcome, FailsTo DEF Done, ReadIrq
  <2> QED
    BY <2>1
<1>2. CASE TouchClock
  <2>1. /\ pc = "touchClock" /\ UNCHANGED <<options, left>> /\ SetClock("touch", "selectTouch")
    BY <1>2 DEF TouchClock
  <2>2. /\ dev' \in [dc : BOOLEAN, clock : Clocks, lcd : BOOLEAN, touch : BOOLEAN]
        /\ cache' \in [dc : BOOLEAN, clock : Clocks \cup {"none"}, cfg : BOOLEAN]
        /\ dev'.dc = dev.dc /\ dev'.lcd = dev.lcd /\ dev'.touch = dev.touch
        /\ cache'.dc = cache.dc /\ (cache'.clock # "none" => cache'.cfg)
        /\ \/ Fails
           \/ Done(pc) /\ ~cache.cfg /\ dev'.clock = dev.clock
           \/ Done("selectTouch") /\ cache.clock = "touch" /\ cache' = cache /\ dev'.clock = dev.clock
           \/ Done("selectTouch") /\ cache.cfg /\ cache'.clock = "touch" /\ dev'.clock = "touch"
    BY <2>1, ClockOutcome
  <2>3. \/ pc' = "idle" /\ unsure'
        \/ pc' = "touchClock" /\ (unsure' <=> unsure) /\ dev'.clock = dev.clock
        \/ pc' = "selectTouch" /\ cache'.clock = "touch"
    BY <2>1, <2>2, FailsTo DEF Done
  <2> QED
    BY <2>1, <2>2, <2>3
<1>3. CASE SelectTouch
  <2>1. /\ pc = "selectTouch" /\ UNCHANGED <<options, left>> /\ Send(Selecting(FALSE, TRUE), "sample")
    BY <1>3 DEF SelectTouch
  <2>2. /\ dev' \in [dc : BOOLEAN, clock : Clocks, lcd : BOOLEAN, touch : BOOLEAN]
        /\ dev'.dc = dev.dc /\ cache' = cache
        /\ (pc' = "idle" /\ unsure') \/ pc' = "sample"
    BY <2>1, SelectOutcome, FailsTo DEF Done
  <2> QED
    BY <2>1, <2>2
<1>4. CASE Sample
  <2>1. /\ pc = "sample" /\ dev' = dev /\ cache' = cache /\ options' = options /\ (unsure' <=> unsure)
        /\ pc' \in {"sample", "deselectTouch", "undoSelect"} /\ left' \in Int
    BY <1>4, QueryOutcome, FailsTo DEF Done, Sample
  <2> QED
    BY <2>1
<1>5. CASE DeselectTouch
  <2>1. /\ pc = "deselectTouch" /\ UNCHANGED <<options, left>>
        /\ Send(Selecting(FALSE, FALSE), "lcdClock")
    BY <1>5 DEF DeselectTouch
  <2>2. /\ dev' \in [dc : BOOLEAN, clock : Clocks, lcd : BOOLEAN, touch : BOOLEAN]
        /\ dev'.dc = dev.dc /\ cache' = cache
        /\ (pc' = "idle" /\ unsure') \/ (pc' = "lcdClock" /\ ~dev'.touch)
    BY <2>1, SelectOutcome, FailsTo DEF Done
  <2> QED
    BY <2>1, <2>2
<1>6. CASE LcdClock
  <2>1. /\ pc = "lcdClock" /\ UNCHANGED <<options, left>> /\ SetClock("lcd", "selectLcd")
    BY <1>6 DEF LcdClock
  <2>2. /\ dev' \in [dc : BOOLEAN, clock : Clocks, lcd : BOOLEAN, touch : BOOLEAN]
        /\ cache' \in [dc : BOOLEAN, clock : Clocks \cup {"none"}, cfg : BOOLEAN]
        /\ dev'.dc = dev.dc /\ dev'.lcd = dev.lcd /\ dev'.touch = dev.touch
        /\ cache'.dc = cache.dc /\ (cache'.clock # "none" => cache'.cfg)
        /\ \/ Fails
           \/ Done(pc) /\ ~cache.cfg /\ dev'.clock = dev.clock
           \/ Done("selectLcd") /\ cache.clock = "lcd" /\ cache' = cache /\ dev'.clock = dev.clock
           \/ Done("selectLcd") /\ cache.cfg /\ cache'.clock = "lcd" /\ dev'.clock = "lcd"
    BY <2>1, ClockOutcome
  <2>3. \/ pc' = "idle" /\ unsure'
        \/ pc' = "selectLcd" /\ dev'.clock = "lcd"
    BY <2>1, <2>2, FailsTo DEF Done
  <2> QED
    BY <2>1, <2>2, <2>3
<1>7. CASE SelectLcd
  BY <1>7, FailsTo DEF SelectLcd, Resting, Selecting
<1>8. CASE UndoSelect
  <2>1. /\ pc = "undoSelect" /\ UNCHANGED <<options, left>>
        /\ Send(Selecting(FALSE, FALSE), "undoClock")
    BY <1>8 DEF UndoSelect
  <2>2. /\ dev' \in [dc : BOOLEAN, clock : Clocks, lcd : BOOLEAN, touch : BOOLEAN]
        /\ dev'.dc = dev.dc /\ cache' = cache
        /\ pc' = "undoClock" /\ (unsure' \/ ~dev'.touch)
    BY <2>1, SelectOutcome, FailsTo DEF Done
  <2> QED
    BY <2>1, <2>2
<1>9. CASE UndoClock
  <2>1. /\ pc = "undoClock" /\ UNCHANGED <<options, left>> /\ SetClock("lcd", "undoLcd")
    BY <1>9 DEF UndoClock
  <2>2. /\ dev' \in [dc : BOOLEAN, clock : Clocks, lcd : BOOLEAN, touch : BOOLEAN]
        /\ cache' \in [dc : BOOLEAN, clock : Clocks \cup {"none"}, cfg : BOOLEAN]
        /\ dev'.dc = dev.dc /\ dev'.lcd = dev.lcd /\ dev'.touch = dev.touch
        /\ cache'.dc = cache.dc /\ (cache'.clock # "none" => cache'.cfg)
        /\ \/ Fails
           \/ Done(pc) /\ ~cache.cfg /\ dev'.clock = dev.clock
           \/ Done("undoLcd") /\ cache.clock = "lcd" /\ cache' = cache /\ dev'.clock = dev.clock
           \/ Done("undoLcd") /\ cache.cfg /\ cache'.clock = "lcd" /\ dev'.clock = "lcd"
    BY <2>1, ClockOutcome
  <2>3. pc' = "undoLcd" /\ (unsure' \/ (~unsure /\ dev'.clock = "lcd"))
    BY <2>1, <2>2, FailsTo DEF Done
  <2> QED
    BY <2>1, <2>2, <2>3
<1>10. CASE UndoLcd
  <2>1. /\ pc = "undoLcd" /\ UNCHANGED <<options, left>> /\ Send(Resting, "idle")
    BY <1>10 DEF UndoLcd
  <2>2. /\ dev' \in [dc : BOOLEAN, clock : Clocks, lcd : BOOLEAN, touch : BOOLEAN]
        /\ dev'.dc = dev.dc /\ dev'.clock = dev.clock /\ cache' = cache /\ pc' = "idle"
        /\ \/ unsure'
           \/ options.hold /\ dev'.lcd /\ ~dev'.touch /\ (unsure' <=> unsure)
           \/ ~options.hold /\ (unsure' <=> unsure)
    <3>1. CASE options.hold
      BY <2>1, <3>1, SelectOutcome, FailsTo DEF Done, Resting
    <3>2. CASE ~options.hold
      BY <2>1, <3>2, SendOutcome, FailsTo DEF Done, Resting
    <3> QED
      BY <3>1, <3>2
  <2> QED
    BY <2>1, <2>2
<1> QED
  BY <1>1, <1>2, <1>3, <1>4, <1>5, <1>6, <1>7, <1>8, <1>9, <1>10 DEF Touch

LEMMA RectKeeps ==
  ASSUME BusInv, Rect
  PROVE  BusInv'
<1> USE DEF BusInv, Types, DcKnown, ClockKnown, BusGiven, TouchSteps, RectSteps, Clocks
<1>1. Levels[1] = FALSE /\ Len(Levels) = 4 /\ \A i \in 1 .. 4 : Levels[i] \in BOOLEAN
  BY DEF Levels
<1>2. CASE RectDc
  <2>1. /\ pc = "dc" /\ UNCHANGED <<options, left>>
        /\ SetDc(Level, IF options.hold THEN "write" ELSE "select")
    BY <1>2 DEF RectDc
  <2>2. Level \in BOOLEAN /\ (left = 4 => Level = FALSE) /\ Level' = Level
    BY <1>1, <2>1 DEF Level
  <2> QED
    BY <2>1, <2>2, SetDcOutcome, FailsTo DEF Done
<1>3. CASE RectSelect
  <2>1. /\ pc = "select" /\ UNCHANGED <<options, left>> /\ Send(Selecting(TRUE, FALSE), "write")
    BY <1>3 DEF RectSelect
  <2>2. Level' = Level
    BY <2>1 DEF Level
  <2>3. /\ dev' \in [dc : BOOLEAN, clock : Clocks, lcd : BOOLEAN, touch : BOOLEAN]
        /\ dev'.dc = dev.dc /\ dev'.clock = dev.clock /\ cache' = cache
        /\ \/ pc' = "exited"
           \/ pc' = "write" /\ dev'.lcd /\ ~dev'.touch /\ (unsure' <=> unsure)
    BY <2>1, SelectOutcome, FailsTo DEF Done
  <2> QED
    BY <2>1, <2>2, <2>3
<1>4. CASE Write
  <2>1. /\ pc = "write" /\ left' = left - 1 /\ UNCHANGED <<options, cache>>
        /\ \/ /\ Done(IF left > 1 THEN "dc" ELSE "idle")
              /\ dev' = (IF options.hold THEN dev ELSE Selecting(FALSE, FALSE))
           \/ Fails /\ dev' \in {dev, IF options.hold THEN dev ELSE Selecting(FALSE, FALSE)}
    BY <1>4 DEF Write
  <2>2. Selecting(FALSE, FALSE) \in [dc : BOOLEAN, clock : Clocks, lcd : BOOLEAN, touch : BOOLEAN]
        /\ Selecting(FALSE, FALSE).dc = dev.dc /\ Selecting(FALSE, FALSE).clock = dev.clock
    BY DEF Selecting
  <2>3. \/ pc' = "exited"
        \/ pc' = "idle" /\ (unsure' <=> unsure)
        \/ pc' = "dc" /\ left > 1 /\ (unsure' <=> unsure)
    BY <2>1, FailsTo DEF Done
  <2>4. \/ dev' = dev
        \/ ~options.hold /\ dev' = Selecting(FALSE, FALSE)
    BY <2>1
  <2>5. /\ dev' \in [dc : BOOLEAN, clock : Clocks, lcd : BOOLEAN, touch : BOOLEAN]
        /\ dev'.dc = dev.dc /\ dev'.clock = dev.clock /\ (options.hold => dev' = dev)
    BY <2>2, <2>4
  <2>6. left' \in Int /\ left' # 4 /\ (left > 1 => left' \in 1 .. 4)
    BY <2>1
  <2> QED
    BY <2>1, <2>3, <2>5, <2>6
<1> QED
  BY <1>2, <1>3, <1>4 DEF Rect

LEMMA BeginningsKeep ==
  ASSUME BusInv, BeginTouch \/ BeginRect \/ Restart
  PROVE  BusInv'
<1> USE DEF BusInv, Types, DcKnown, ClockKnown, BusGiven, TouchSteps, RectSteps, Clocks
<1>1. CASE BeginTouch
  BY <1>1, SamplesAssumption DEF BeginTouch
<1>2. CASE BeginRect
  BY <1>2 DEF BeginRect, Levels
<1>3. CASE Restart
  <2>1. /\ pc' = "idle" /\ left' = 0 /\ options' = options /\ cache' = EmptyCache /\ Armed
    BY <1>3 DEF Restart
  <2>2. PICK selects \in [lcd : BOOLEAN, touch : BOOLEAN], dc \in BOOLEAN :
          /\ dev' = [dc |-> dc, clock |-> "lcd", lcd |-> selects.lcd, touch |-> selects.touch]
          /\ unsure' = (selects # [lcd |-> options.hold, touch |-> FALSE])
    BY <2>1 DEF Armed
  <2>3. dev' \in [dc : BOOLEAN, clock : Clocks, lcd : BOOLEAN, touch : BOOLEAN] /\ dev'.clock = "lcd"
    BY <2>2
  <2>4. ~unsure' => dev'.lcd = options.hold /\ ~dev'.touch
    BY <2>2
  <2> QED
    BY <2>1, <2>2, <2>3, <2>4 DEF EmptyCache
<1> QED
  BY <1>1, <1>2, <1>3

LEMMA BusStarts == Init => BusInv
<1> SUFFICES ASSUME Init PROVE BusInv
  OBVIOUS
<1>1. pc = "idle" /\ left = 0 /\ ~unsure /\ options \in Options /\ options.hold \in BOOLEAN
  BY OptionsAssumption DEF Init
<1>2. /\ dev \in [dc : BOOLEAN, clock : Clocks, lcd : BOOLEAN, touch : BOOLEAN]
      /\ dev.clock = "lcd" /\ dev.lcd = options.hold /\ ~dev.touch
  BY <1>1 DEF Init, Clocks
<1>3. cache \in [dc : BOOLEAN, clock : Clocks \cup {"none"}, cfg : BOOLEAN] /\ cache.dc
      /\ cache.clock = "none"
  BY DEF Init, EmptyCache
<1>4. Types
  BY <1>1, <1>2, <1>3 DEF Types, RectSteps
<1>5. DcKnown
  BY <1>1, <1>3 DEF DcKnown
<1>6. ClockKnown /\ BusGiven
  BY <1>1, <1>2 DEF ClockKnown, BusGiven
<1> QED
  BY <1>4, <1>5, <1>6 DEF BusInv

LEMMA BusStep == BusInv /\ [Next]_vars => BusInv'
<1> SUFFICES ASSUME BusInv, [Next]_vars
             PROVE  BusInv'
  OBVIOUS
<1>1. CASE Touch
  BY <1>1, TouchKeeps
<1>2. CASE Rect
  BY <1>2, RectKeeps
<1>3. CASE BeginTouch \/ BeginRect \/ Restart
  BY <1>3, BeginningsKeep
<1>4. CASE UNCHANGED vars
  BY <1>4 DEF vars, BusInv, Types, DcKnown, ClockKnown, BusGiven, Level
<1> QED
  BY <1>1, <1>2, <1>3, <1>4 DEF Next

\* What is written to the panel reaches it and nobody else, with the right DC
\* level and at its clock, whatever was lost, late, refused or killed before.
THEOREM PanelAlwaysHears == Spec => []PanelHears
<1>1. BusInv => PanelHears
  BY DEF BusInv, DcKnown, BusGiven, PanelHears, RectSteps
<1> QED
  BY <1>1, BusStarts, BusStep, PTL DEF Spec

-----------------------------------------------------------------------------
(* Whose answer a sample is.                                               *)

Commands == {"gpio", "cfg", "clock", "spi", "write"}
Holds(queue, c) == \E i \in 1 .. Len(queue) : queue[i] = c

\* A set of numbers has a least one.  The theorem about the orders of finite sets
\* stands in for the induction over numbers.
LEMMA LeastOfSome ==
  ASSUME NEW T \in SUBSET Nat, T # {}
  PROVE  Min(T) \in T /\ \A y \in T : Min(T) <= y
<1> DEFINE Initials == {0 .. k : k \in T}
<1>1. Initials \subseteq FiniteSubsetsOf(Nat)
  <2> SUFFICES ASSUME NEW k \in T PROVE 0 .. k \in FiniteSubsetsOf(Nat)
    OBVIOUS
  <2>1. IsFiniteSet(0 .. k) /\ 0 .. k \in SUBSET Nat
    BY FS_Interval
  <2> QED
    BY <2>1 DEF FiniteSubsetsOf
<1>2. PICK I \in Initials : \A J \in Initials : <<J, I>> \notin StrictSubsetOrdering(Nat)
  <2>1. Initials # {}
    OBVIOUS
  <2> HIDE DEF Initials
  <2> QED
    BY <1>1, <2>1, FS_StrictSubsetOrderingWellFounded, WFMin
<1>3. PICK x \in T : I = 0 .. x
  OBVIOUS
<1>4. ASSUME NEW y \in T, y < x PROVE FALSE
  <2>1. 0 .. y \in Initials /\ 0 .. y \subseteq Nat /\ 0 .. x \subseteq Nat
    OBVIOUS
  <2>2. 0 .. y \subseteq 0 .. x /\ 0 .. y # 0 .. x
    <3>1. x \in 0 .. x /\ x \notin 0 .. y /\ 0 .. y \subseteq 0 .. x
      BY <1>4
    <3> QED
      BY <3>1
  <2> QED
    BY <1>2, <1>3, <2>1, <2>2 DEF StrictSubsetOrdering
<1>5. \A y \in T : x <= y
  BY <1>4
<1> QED
  BY <1>5 DEF Min

\* Search in terms of the places of the replies to such a command.
Places(queue, op) == {i \in 1 .. Len(queue) : queue[i] = op}

LEMMA SearchByPlaces ==
  ASSUME NEW queue \in Seq(Commands), NEW op
  PROVE  /\ Places(queue, op) = {} =>
              Search(queue, op) = [heard |-> FALSE, rest |-> <<>>]
         /\ Places(queue, op) # {} =>
              /\ Min(Places(queue, op)) \in Places(queue, op)
              /\ Search(queue, op) =
                   [heard |-> TRUE, rest |-> SubSeq(queue, Min(Places(queue, op)) + 1, Len(queue))]
<1>1. Search(queue, op) =
        LET i == IF Places(queue, op) # {} THEN Min(Places(queue, op)) ELSE 0
        IN [heard |-> i > 0, rest |-> IF i > 0 THEN SubSeq(queue, i + 1, Len(queue)) ELSE <<>>]
  BY DEF Search, SelectInSeq, Places
<1>2. Places(queue, op) \in SUBSET Nat /\ 0 \notin Places(queue, op)
  BY DEF Places
<1>3. CASE Places(queue, op) = {}
  <2>1. (IF Places(queue, op) # {} THEN Min(Places(queue, op)) ELSE 0) = 0 /\ (0 > 0) = FALSE
    BY <1>3
  <2>2. Search(queue, op) = [heard |-> FALSE, rest |-> <<>>]
    BY <1>1, <2>1
  <2> QED
    BY <1>3, <2>2
<1>4. CASE Places(queue, op) # {}
  <2> DEFINE at == Min(Places(queue, op))
  <2>1. at \in Places(queue, op) /\ at \in Nat /\ at > 0
    BY <1>2, <1>4, LeastOfSome
  <2>2. Search(queue, op) =
          [heard |-> at > 0, rest |-> IF at > 0 THEN SubSeq(queue, at + 1, Len(queue)) ELSE <<>>]
    BY <1>1, <1>4
  <2> HIDE DEF at
  <2>3. (at > 0) = TRUE
    BY <2>1
  <2>4. Search(queue, op) = [heard |-> TRUE, rest |-> SubSeq(queue, at + 1, Len(queue))]
    BY <2>2, <2>3
  <2> QED
    BY <1>4, <2>1, <2>4 DEF at
<1> QED
  BY <1>3, <1>4

\* What ch347_read_expected finds, and what it leaves behind.
LEMMA SearchFinds ==
  ASSUME NEW queue \in Seq(Commands), NEW op
  PROVE  /\ Search(queue, op).heard <=> Holds(queue, op)
         /\ Search(queue, op).rest \in Seq(Commands)
         /\ \A c : Holds(Search(queue, op).rest, c) => Holds(queue, c)
         /\ ~Holds(queue, op) => Search(queue, op).rest = <<>>
<1>1. CASE Places(queue, op) = {}
  <2>1. Search(queue, op) = [heard |-> FALSE, rest |-> <<>>]
    BY <1>1, SearchByPlaces
  <2>2. ~Holds(queue, op)
    BY <1>1 DEF Holds, Places
  <2> QED
    BY <2>1, <2>2 DEF Holds
<1>2. CASE Places(queue, op) # {}
  <2>1. PICK at \in 1 .. Len(queue) :
          /\ queue[at] = op
          /\ Search(queue, op) = [heard |-> TRUE, rest |-> SubSeq(queue, at + 1, Len(queue))]
    BY <1>2, SearchByPlaces DEF Places
  <2>2. /\ SubSeq(queue, at + 1, Len(queue)) \in Seq(Commands)
        /\ Len(SubSeq(queue, at + 1, Len(queue))) = Len(queue) - at
        /\ \A i \in 1 .. Len(queue) - at :
             SubSeq(queue, at + 1, Len(queue))[i] = queue[at + i]
    OBVIOUS
  <2> QED
    BY <2>1, <2>2 DEF Holds
<1> QED
  BY <1>1, <1>2

\* Without an older reply to such a command the answer is the own one, and the last.
LEMMA SearchFindsOwn ==
  ASSUME NEW queue \in Seq(Commands), NEW op \in Commands, ~Holds(queue, op)
  PROVE  Search(Append(queue, op), op) = [heard |-> TRUE, rest |-> <<>>]
<1> DEFINE longer == Append(queue, op)
<1>1. /\ longer \in Seq(Commands) /\ Len(longer) = Len(queue) + 1
      /\ longer[Len(queue) + 1] = op /\ \A i \in 1 .. Len(queue) : longer[i] = queue[i]
  OBVIOUS
<1>2. Places(longer, op) = {Len(queue) + 1}
  BY <1>1 DEF Holds, Places
<1>3. SubSeq(longer, Len(queue) + 2, Len(longer)) = <<>>
  BY <1>1
<1>4. Min(Places(longer, op)) = Len(queue) + 1
  <2>1. Places(longer, op) # {}
    BY <1>2
  <2>2. Min(Places(longer, op)) \in Places(longer, op)
    BY <1>1, <2>1, SearchByPlaces
  <2> QED
    BY <1>2, <2>2
<1>5. Search(longer, op) = [heard |-> TRUE, rest |-> SubSeq(longer, Len(queue) + 2, Len(longer))]
  <2>1. Search(longer, op) =
          [heard |-> TRUE, rest |-> SubSeq(longer, Min(Places(longer, op)) + 1, Len(longer))]
    BY <1>1, <1>2, SearchByPlaces
  <2> QED
    BY <1>4, <2>1
<1> QED
  BY <1>3, <1>5

LEMMA AppendHolds ==
  ASSUME NEW queue \in Seq(Commands), NEW op \in Commands
  PROVE  /\ Append(queue, op) \in Seq(Commands)
         /\ \A c : Holds(Append(queue, op), c) <=> Holds(queue, c) \/ c = op
<1>1. /\ Append(queue, op) \in Seq(Commands) /\ Len(Append(queue, op)) = Len(queue) + 1
      /\ Append(queue, op)[Len(queue) + 1] = op
      /\ \A i \in 1 .. Len(queue) : Append(queue, op)[i] = queue[i]
  OBVIOUS
<1> QED
  BY <1>1 DEF Holds

\* Taking the first reply away, and what Late leaves.
LEMMA TailHolds ==
  ASSUME NEW queue \in Seq(Commands), queue # <<>>
  PROVE  Tail(queue) \in Seq(Commands) /\ \A c : Holds(Tail(queue), c) => Holds(queue, c)
<1>1. /\ Tail(queue) \in Seq(Commands) /\ Len(Tail(queue)) = Len(queue) - 1 /\ Len(queue) \in Nat \ {0}
      /\ \A i \in 1 .. Len(queue) - 1 : Tail(queue)[i] = queue[i + 1]
  OBVIOUS
<1> QED
  BY <1>1 DEF Holds

-----------------------------------------------------------------------------
(* The answers that came too late.                                         *)

\* The replies that may pass for the answer to a later command of a touch
\* transaction.
Kinds == {"cfg", "clock", "spi"}

\* Without late answers there are none, and one late answer leaves one kind of them.
MailKnown ==
  /\ replies \in Seq(Commands) /\ late \in 0 .. 2
  /\ late = 0 => \A c \in Kinds : ~Holds(replies, c)
  /\ late < 2 => \A c, d \in Kinds : Holds(replies, c) /\ Holds(replies, d) => c = d

\* The clock command has thrown away what samples left.
NoStaleSample ==
  late < 2 /\ ~unsure /\ pc \in {"selectTouch", "sample"} => ~Holds(replies, "spi")

SamplesSelected ==
  /\ ~unsure /\ pc = "selectTouch" => dev.clock = "touch"
  /\ ~unsure /\ pc = "sample" => dev.touch /\ ~dev.lcd /\ dev.clock = "touch"

\* When a touch transaction begins its clock command is really sent.
PanelsClock ==
  /\ ~unsure /\ pc \in {"idle", "irq", "touchClock", "undoLcd"} \cup RectSteps
       => cache.clock # "touch"
  /\ pc = "selectLcd" => cache.clock # "touch"

SampleInv == BusInv /\ MailKnown /\ NoStaleSample /\ SamplesSelected /\ PanelsClock

LEMMA MailShrinks ==
  ASSUME MailKnown, replies' \in Seq(Commands), late' = late,
         \A c \in Kinds : Holds(replies', c) => Holds(replies, c)
  PROVE  MailKnown'
  BY DEF MailKnown

LEMMA MailGrows ==
  ASSUME MailKnown, NEW op, replies' \in Seq(Commands), Late,
         \A c \in Kinds : Holds(replies', c) => Holds(replies, c) \/ c = op
  PROVE  MailKnown'
<1>1. CASE late = 0
  <2>1. late' = 1 /\ \A c \in Kinds : Holds(replies', c) => c = op
    BY <1>1 DEF MailKnown, Late
  <2> QED
    BY <2>1 DEF MailKnown
<1>2. CASE late # 0
  <2>1. late' = 2
    BY <1>2 DEF MailKnown, Late
  <2> QED
    BY <2>1 DEF MailKnown
<1> QED
  BY <1>1, <1>2

\* A command that waits for its answer: an older reply to such a command was
\* there, or the answer came and nothing else is left.
LEMMA QueryMail ==
  ASSUME MailKnown, NEW op \in Commands, NEW effect, NEW accepted, NEW next,
         Query(op, effect, accepted, next)
  PROVE  /\ MailKnown' /\ (late' < 2 => late < 2)
         /\ \/ Fails
            \/ /\ dev' = effect /\ cache' = accepted /\ Done(next)
               /\ \A c : Holds(replies', c) => Holds(replies, c) \/ c = op
               /\ ~Holds(replies, op) => replies' = <<>>
<1> DEFINE Read(queue, tail) ==
             /\ dev' = effect
             /\ replies' = Search(queue, op).rest \o tail
             /\ IF Search(queue, op).heard THEN cache' = accepted /\ Done(next)
                ELSE UNCHANGED cache /\ Fails
<1>1. replies \in Seq(Commands) /\ late \in 0 .. 2
  BY DEF MailKnown
<1>2. /\ Append(replies, op) \in Seq(Commands)
      /\ \A c : Holds(Append(replies, op), c) <=> Holds(replies, c) \/ c = op
  BY <1>1, AppendHolds
<1>3. late' = late \/ Late => (late' < 2 => late < 2)
  BY <1>1 DEF Late
<1>4. CASE Read(Append(replies, op), <<>>) /\ UNCHANGED late
  <2> DEFINE rest == Search(Append(replies, op), op).rest
  <2>1. rest \in Seq(Commands) /\ \A c : Holds(rest, c) => Holds(replies, c) \/ c = op
    BY <1>2, SearchFinds
  <2>2. ~Holds(replies, op) => rest = <<>>
    BY <1>1, SearchFindsOwn
  <2>3. replies' = rest
    BY <1>4, <2>1
  <2>4. Search(Append(replies, op), op).heard
    BY <1>2, SearchFinds
  <2>5. dev' = effect /\ cache' = accepted /\ Done(next) /\ late' = late
    BY <1>4, <2>4
  <2> HIDE DEF rest
  <2>6. \A c \in Kinds : Holds(replies', c) => Holds(replies, c)
    BY <2>1, <2>2, <2>3 DEF Holds
  <2> QED
    BY <1>3, <2>1, <2>2, <2>3, <2>5, <2>6, MailShrinks
<1>5. CASE Read(replies, <<>>) /\ UNCHANGED late
  <2> DEFINE rest == Search(replies, op).rest
  <2>1. rest \in Seq(Commands) /\ \A c : Holds(rest, c) => Holds(replies, c)
    BY <1>1, SearchFinds
  <2>2. replies' = rest /\ late' = late
    BY <1>5, <2>1
  <2>3. Search(replies, op).heard <=> Holds(replies, op)
    BY <1>1, SearchFinds
  <2>4. Fails \/ (Holds(replies, op) /\ dev' = effect /\ cache' = accepted /\ Done(next))
    BY <1>5, <2>3
  <2> HIDE DEF rest
  <2> QED
    BY <1>3, <2>1, <2>2, <2>4, MailShrinks
<1>6. CASE Read(replies, <<op>>) /\ Late
  <2> DEFINE rest == Search(replies, op).rest
  <2>1. rest \in Seq(Commands) /\ \A c : Holds(rest, c) => Holds(replies, c)
    BY <1>1, SearchFinds
  <2>2. Search(replies, op).heard <=> Holds(replies, op)
    BY <1>1, SearchFinds
  <2>3. Fails \/ (Holds(replies, op) /\ dev' = effect /\ cache' = accepted /\ Done(next))
    BY <1>6, <2>2
  <2> DEFINE longer == rest \o <<op>>
  <2>4. replies' = longer /\ Late
    BY <1>6
  <2> HIDE DEF rest
  <2>5. /\ longer \in Seq(Commands) /\ Len(longer) = Len(rest) + 1 /\ Len(rest) \in Nat
        /\ \A i \in 1 .. Len(rest) : longer[i] = rest[i]
        /\ longer[Len(rest) + 1] = op
    BY <2>1
  <2> HIDE DEF longer
  <2>6. \A c : Holds(longer, c) => Holds(rest, c) \/ c = op
    BY <2>5 DEF Holds
  <2>7. replies' \in Seq(Commands) /\ \A c : Holds(replies', c) => Holds(replies, c) \/ c = op
    BY <2>1, <2>4, <2>5, <2>6
  <2> QED
    BY <1>3, <2>3, <2>4, <2>7, MailGrows
<1>7. CASE Fails /\ UNCHANGED <<replies, late>>
  BY <1>1, <1>3, <1>7, MailShrinks
<1>8. CASE Fails /\ replies' = Append(replies, op) /\ Late
  BY <1>2, <1>3, <1>8, MailGrows
<1> QED
  BY <1>4, <1>5, <1>6, <1>7, <1>8 DEF Query

\* Setting the clock: nothing to do; the configuration was read; or the clock was
\* written, and behind the reply to that no sample is left.
LEMMA ClockMail ==
  ASSUME MailKnown, NEW clock, NEW next, SetClock(clock, next)
  PROVE  /\ MailKnown' /\ (late' < 2 => late < 2)
         /\ \/ Fails
            \/ cache.clock = clock /\ Done(next) /\ UNCHANGED <<dev, cache, replies>>
            \/ /\ cache.clock # clock /\ ~cache.cfg /\ Done(pc) /\ dev' = dev
               /\ cache' = [cache EXCEPT !.cfg = TRUE, !.clock = dev.clock]
            \/ /\ cache.clock # clock /\ cache.cfg /\ Done(next)
               /\ dev' = [dev EXCEPT !.clock = clock]
               /\ cache' = [cache EXCEPT !.clock = clock]
               /\ late' < 2 => ~Holds(replies', "spi")
<1>1. CASE cache.clock = clock
  <2>1. Done(next) /\ UNCHANGED <<dev, cache, replies, late>>
    BY <1>1 DEF SetClock
  <2> QED
    BY <1>1, <2>1, MailShrinks DEF MailKnown
<1>2. CASE cache.clock # clock /\ ~cache.cfg
  <2>1. Query("cfg", dev, [cache EXCEPT !.cfg = TRUE, !.clock = dev.clock], pc)
    BY <1>2 DEF SetClock
  <2>2. "cfg" \in Commands
    BY DEF Commands
  <2> QED
    BY <1>2, <2>1, <2>2, QueryMail
<1>3. CASE cache.clock # clock /\ cache.cfg
  <2>1. "clock" \in Commands
    BY DEF Commands
  <2>2. CASE Query("clock", [dev EXCEPT !.clock = clock], [cache EXCEPT !.clock = clock], next)
    <3>1. /\ MailKnown' /\ (late' < 2 => late < 2)
          /\ \/ Fails
             \/ /\ dev' = [dev EXCEPT !.clock = clock] /\ cache' = [cache EXCEPT !.clock = clock]
                /\ Done(next)
                /\ \A c : Holds(replies', c) => Holds(replies, c) \/ c = "clock"
                /\ ~Holds(replies, "clock") => replies' = <<>>
      BY <2>1, <2>2, QueryMail
    <3>2. Holds(replies, "clock") /\ late < 2 => ~Holds(replies, "spi")
      BY DEF MailKnown, Kinds
    <3>3. ~Holds(<<>>, "spi")
      BY DEF Holds
    <3> QED
      BY <1>3, <3>1, <3>2, <3>3
  <2>3. CASE Fails /\ late' = late /\ replies' = Search(Append(replies, "clock"), "clock").rest
    <3>1. replies \in Seq(Commands)
      BY DEF MailKnown
    <3>2. /\ Append(replies, "clock") \in Seq(Commands)
          /\ \A c : Holds(Append(replies, "clock"), c) <=> Holds(replies, c) \/ c = "clock"
      BY <2>1, <3>1, AppendHolds
    <3>3. replies' \in Seq(Commands) /\ \A c : Holds(replies', c) => Holds(replies, c) \/ c = "clock"
      BY <2>3, <3>2, SearchFinds
    <3>4. ~Holds(replies, "clock") => replies' = <<>>
      BY <2>1, <2>3, <3>1, SearchFindsOwn
    <3>5. \A c : Holds(replies', c) => Holds(replies, c)
      BY <3>3, <3>4 DEF Holds
    <3> QED
      BY <2>3, <3>3, <3>5, MailShrinks DEF MailKnown
  <2> QED
    BY <1>3, <2>2, <2>3 DEF SetClock
<1> QED
  BY <1>1, <1>2, <1>3

-----------------------------------------------------------------------------
(* The steps.                                                              *)

\* What holds of the bus after every step.
LEMMA SampleTouch ==
  ASSUME SampleInv, Touch
  PROVE  MailKnown' /\ NoStaleSample' /\ SamplesSelected' /\ PanelsClock'
<1> USE DEF NoStaleSample, SamplesSelected, PanelsClock, TouchSteps, RectSteps
<1>0. BusInv /\ MailKnown
  BY DEF SampleInv
<1>1. CASE ReadIrq
  <2>1. PICK next \in {"touchClock", "idle"} : Query("gpio", dev, cache, next)
    BY <1>1 DEF ReadIrq
  <2>2. pc = "irq" /\ UNCHANGED <<options, left>> /\ "gpio" \in Commands
    BY <1>1 DEF ReadIrq, Commands
  <2>3. MailKnown'
    BY <1>0, <2>1, <2>2, QueryMail
  <2>4. dev' = dev /\ cache' = cache /\ pc' \in {"touchClock", "idle"} /\ (unsure' <=> unsure)
    BY <2>1, <2>2, QueryOutcome, FailsTo DEF Done
  <2> QED
    BY <2>2, <2>3, <2>4 DEF SampleInv
<1>2. CASE TouchClock
  <2>1. pc = "touchClock" /\ SetClock("touch", "selectTouch")
    BY <1>2 DEF TouchClock
  <2>2. /\ MailKnown' /\ (late' < 2 => late < 2)
        /\ \/ Fails
           \/ cache.clock = "touch" /\ Done("selectTouch") /\ UNCHANGED <<dev, cache, replies>>
           \/ /\ cache.clock # "touch" /\ ~cache.cfg /\ Done(pc) /\ dev' = dev
              /\ cache' = [cache EXCEPT !.cfg = TRUE, !.clock = dev.clock]
           \/ /\ cache.clock # "touch" /\ cache.cfg /\ Done("selectTouch")
              /\ dev' = [dev EXCEPT !.clock = "touch"]
              /\ cache' = [cache EXCEPT !.clock = "touch"]
              /\ late' < 2 => ~Holds(replies', "spi")
    BY <1>0, <2>1, ClockMail
  <2>3. CASE Fails
    BY <2>1, <2>2, <2>3, FailsTo
  <2>4. CASE cache.clock = "touch" /\ Done("selectTouch")
    BY <2>1, <2>2, <2>4 DEF SampleInv, Done
  <2>5. CASE Done(pc) /\ dev' = dev /\ cache' = [cache EXCEPT !.cfg = TRUE, !.clock = dev.clock]
    <3>1. cache'.clock = dev.clock
      BY <1>0, <2>5 DEF BusInv, Types
    <3>2. ~unsure => dev.clock = "lcd"
      BY <1>0, <2>1 DEF BusInv, BusGiven
    <3> QED
      BY <2>1, <2>2, <2>5, <3>1, <3>2 DEF Done
  <2>6. CASE /\ Done("selectTouch") /\ dev' = [dev EXCEPT !.clock = "touch"]
             /\ late' < 2 => ~Holds(replies', "spi")
    <3>1. dev'.clock = "touch"
      BY <1>0, <2>6 DEF BusInv, Types
    <3> QED
      BY <2>2, <2>6, <3>1 DEF Done
  <2> QED
    BY <2>2, <2>3, <2>4, <2>5, <2>6
<1>3. CASE SelectTouch
  <2> DEFINE effect == Selecting(FALSE, TRUE)
  <2>1. pc = "selectTouch" /\ Send(effect, "sample")
    BY <1>3, Zenon DEF SelectTouch
  <2> HIDE DEF effect
  <2>2. MailKnown'
    BY <1>0, <2>1, SendOutcome, MailShrinks DEF MailKnown
  <2>3. \/ pc' = "idle" /\ unsure'
        \/ pc' = "sample" /\ (unsure' <=> unsure) /\ dev' = effect /\ UNCHANGED <<replies, late>>
    BY <2>1, SendOutcome, FailsTo DEF Done
  <2>4. effect.clock = dev.clock /\ effect.touch /\ ~effect.lcd
    BY <1>0 DEF effect, BusInv, Types, Selecting
  <2> QED
    BY <2>1, <2>2, <2>3, <2>4 DEF SampleInv
<1>4. CASE Sample
  <2> DEFINE next == IF left > 1 THEN "sample" ELSE "deselectTouch"
  <2>1. pc = "sample" /\ Query("spi", dev, cache, next) /\ "spi" \in Commands
    BY <1>4 DEF Sample, Commands
  <2> HIDE DEF next
  <2>2. /\ MailKnown' /\ (late' < 2 => late < 2)
        /\ \/ Fails
           \/ /\ dev' = dev /\ cache' = cache /\ Done(next)
              /\ ~Holds(replies, "spi") => replies' = <<>>
    BY <1>0, <2>1, QueryMail
  <2>3. CASE Fails
    BY <2>1, <2>2, <2>3, FailsTo
  <2>4. CASE dev' = dev /\ Done(next) /\ (~Holds(replies, "spi") => replies' = <<>>)
    <3>1. ~Holds(<<>>, "spi")
      BY DEF Holds
    <3>2. pc' \in {"sample", "deselectTouch"} /\ (unsure' <=> unsure)
      BY <2>4 DEF Done, next
    <3> QED
      BY <2>1, <2>2, <2>4, <3>1, <3>2 DEF SampleInv
  <2> QED
    BY <2>2, <2>3, <2>4
<1>5. CASE DeselectTouch
  <2> DEFINE effect == Selecting(FALSE, FALSE)
  <2>1. pc = "deselectTouch" /\ Send(effect, "lcdClock")
    BY <1>5, Zenon DEF DeselectTouch
  <2> HIDE DEF effect
  <2>2. MailKnown'
    BY <1>0, <2>1, SendOutcome, MailShrinks DEF MailKnown
  <2>3. (pc' = "idle" /\ unsure') \/ pc' = "lcdClock"
    BY <2>1, SendOutcome, FailsTo DEF Done
  <2> QED
    BY <2>2, <2>3
<1>6. CASE LcdClock
  <2>1. pc = "lcdClock" /\ SetClock("lcd", "selectLcd")
    BY <1>6 DEF LcdClock
  <2>2. MailKnown'
    BY <1>0, <2>1, ClockMail
  <2>3. \/ Fails
        \/ Done(pc)
        \/ Done("selectLcd") /\ cache'.clock = "lcd"
    BY <1>0, <2>1, ClockOutcome DEF BusInv, Clocks
  <2>4. (pc' = "idle" /\ unsure') \/ pc' = "lcdClock" \/ (pc' = "selectLcd" /\ cache'.clock = "lcd")
    BY <2>1, <2>3, FailsTo DEF Done
  <2> QED
    BY <2>2, <2>4
<1>7. CASE SelectLcd
  <2>1. pc = "selectLcd" /\ pc' = "idle" /\ UNCHANGED <<cache, replies, late>>
    BY <1>7, FailsTo DEF SelectLcd
  <2>2. MailKnown'
    BY <1>0, <2>1, MailShrinks DEF MailKnown
  <2> QED
    BY <2>1, <2>2 DEF SampleInv
<1>8. CASE UndoSelect
  <2> DEFINE effect == Selecting(FALSE, FALSE)
  <2>1. pc = "undoSelect" /\ Send(effect, "undoClock")
    BY <1>8, Zenon DEF UndoSelect
  <2> HIDE DEF effect
  <2>2. MailKnown'
    BY <1>0, <2>1, SendOutcome, MailShrinks DEF MailKnown
  <2>3. pc' = "undoClock"
    BY <2>1, SendOutcome, FailsTo DEF Done
  <2> QED
    BY <2>2, <2>3
<1>9. CASE UndoClock
  <2>1. pc = "undoClock" /\ SetClock("lcd", "undoLcd")
    BY <1>9 DEF UndoClock
  <2>2. MailKnown'
    BY <1>0, <2>1, ClockMail
  <2>3. \/ Fails
        \/ Done(pc)
        \/ Done("undoLcd") /\ cache'.clock = "lcd"
    BY <1>0, <2>1, ClockOutcome DEF BusInv, Clocks
  <2>4. (pc' = "undoLcd" /\ unsure') \/ pc' = "undoClock" \/ (pc' = "undoLcd" /\ cache'.clock = "lcd")
    BY <2>1, <2>3, FailsTo DEF Done
  <2> QED
    BY <2>2, <2>4
<1>10. CASE UndoLcd
  <2>1. pc = "undoLcd" /\ Send(Resting, "idle") /\ UNCHANGED <<replies, late>>
    BY <1>10 DEF UndoLcd, Send
  <2>2. MailKnown'
    BY <1>0, <2>1, MailShrinks DEF MailKnown
  <2>3. pc' = "idle" /\ cache' = cache /\ (unsure' \/ (unsure' <=> unsure))
    BY <2>1, SendOutcome, FailsTo DEF Done
  <2> QED
    BY <2>1, <2>2, <2>3 DEF SampleInv
<1> QED
  BY <1>1, <1>2, <1>3, <1>4, <1>5, <1>6, <1>7, <1>8, <1>9, <1>10 DEF Touch

LEMMA SampleRect ==
  ASSUME SampleInv, Rect
  PROVE  MailKnown' /\ NoStaleSample' /\ SamplesSelected' /\ PanelsClock'
<1>1. /\ pc \in RectSteps /\ late' = late
      /\ \/ pc' = "exited"
         \/ pc' \in RectSteps \cup {"idle"} /\ (unsure' <=> unsure)
      /\ cache' = cache \/ \E high : cache' = [cache EXCEPT !.dc = high]
  <2>1. CASE RectDc
    <3>1. /\ pc = "dc" /\ SetDc(Level, IF options.hold THEN "write" ELSE "select")
      BY <2>1 DEF RectDc
    <3>2. late' = late
      BY <3>1 DEF SetDc
    <3> QED
      BY <3>1, <3>2, SetDcOutcome, FailsTo DEF Done, RectSteps
  <2>2. CASE RectSelect
    <3>1. pc = "select" /\ Send(Selecting(TRUE, FALSE), "write")
      BY <2>2, Zenon DEF RectSelect
    <3> QED
      BY <3>1, SendOutcome, FailsTo, Zenon DEF Done, RectSteps
  <2>3. CASE Write
    <3>1. pc = "write" /\ late' = late /\ cache' = cache
          /\ (Fails \/ Done(IF left > 1 THEN "dc" ELSE "idle"))
      BY <2>3 DEF Write
    <3> QED
      BY <3>1, FailsTo DEF Done, RectSteps
  <2> QED
    BY <2>1, <2>2, <2>3 DEF Rect
<1>2. /\ replies' \in Seq(Commands)
      /\ \A c \in Kinds : Holds(replies', c) => Holds(replies, c)
  <2>1. replies \in Seq(Commands) /\ {"gpio", "write"} \subseteq Commands /\ Kinds \cap {"gpio", "write"} = {}
    BY DEF SampleInv, MailKnown, Commands, Kinds
  <2>2. \A op \in {"gpio", "write"} :
          /\ Append(replies, op) \in Seq(Commands) /\ Append(replies, op) # <<>>
          /\ \A c : Holds(Append(replies, op), c) <=> Holds(replies, c) \/ c = op
    BY <2>1, AppendHolds
  <2>3. \/ replies' = replies
        \/ replies' = Tail(replies) /\ replies # <<>>
        \/ \E op \in {"gpio", "write"} : replies' = Append(replies, op) \/ replies' = Tail(Append(replies, op))
    <3>1. CASE RectDc
      BY <3>1 DEF RectDc, SetDc
    <3>2. CASE RectSelect
      BY <3>2, SendOutcome, Zenon DEF RectSelect
    <3>3. CASE Write
      BY <3>3 DEF Write
    <3> QED
      BY <3>1, <3>2, <3>3 DEF Rect
  <2>4. CASE replies' = Tail(replies) /\ replies # <<>>
    BY <2>1, <2>4, TailHolds
  <2>5. ASSUME NEW op \in {"gpio", "write"}, replies' = Append(replies, op)
        PROVE  /\ replies' \in Seq(Commands)
               /\ \A c \in Kinds : Holds(replies', c) => Holds(replies, c)
    BY <2>1, <2>2, <2>5
  <2>6. ASSUME NEW op \in {"gpio", "write"}, replies' = Tail(Append(replies, op))
        PROVE  /\ replies' \in Seq(Commands)
               /\ \A c \in Kinds : Holds(replies', c) => Holds(replies, c)
    BY <2>1, <2>2, <2>6, TailHolds
  <2> QED
    BY <2>1, <2>3, <2>4, <2>5, <2>6
<1>3. MailKnown'
  BY <1>1, <1>2, MailShrinks DEF SampleInv
<1>4. cache'.clock = cache.clock
  BY <1>1 DEF SampleInv, BusInv, Types
<1> QED
  BY <1>1, <1>3, <1>4 DEF SampleInv, NoStaleSample, SamplesSelected, PanelsClock, RectSteps

LEMMA SampleBeginnings ==
  ASSUME SampleInv, BeginTouch \/ BeginRect \/ Restart
  PROVE  MailKnown' /\ NoStaleSample' /\ SamplesSelected' /\ PanelsClock'
<1> USE DEF NoStaleSample, SamplesSelected, PanelsClock, RectSteps
<1>1. replies \in Seq(Commands) /\ MailKnown
  BY DEF SampleInv, MailKnown
<1>2. CASE BeginTouch
  <2>1. pc = "idle" /\ pc' \in {"irq", "touchClock"} /\ UNCHANGED <<cache, replies, unsure, late>>
    BY <1>2 DEF BeginTouch
  <2> QED
    BY <1>1, <2>1, MailShrinks DEF SampleInv
<1>3. CASE BeginRect
  <2>1. pc = "idle" /\ pc' = "dc" /\ UNCHANGED <<cache, replies, unsure, late>>
    BY <1>3 DEF BeginRect
  <2> QED
    BY <1>1, <2>1, MailShrinks DEF SampleInv
<1>4. CASE Restart
  <2>1. pc' = "idle" /\ cache' = EmptyCache /\ replies' \in {<<>>, replies} /\ late' = late
    BY <1>4 DEF Restart
  <2>2. replies' \in Seq(Commands) /\ \A c : Holds(replies', c) => Holds(replies, c)
    <3>1. <<>> \in Seq(Commands) /\ \A c : ~Holds(<<>>, c)
      BY DEF Holds
    <3>2. replies' = <<>> \/ replies' = replies
      BY <2>1
    <3> QED
      BY <1>1, <3>1, <3>2
  <2> QED
    <3>1. MailKnown' /\ cache'.clock = "none"
      BY <1>1, <2>1, <2>2, MailShrinks DEF EmptyCache
    <3> QED
      BY <2>1, <3>1
<1> QED
  BY <1>2, <1>3, <1>4

LEMMA SamplesInvariant == Spec => []SampleInv
<1>1. Init => SampleInv
  <2> SUFFICES ASSUME Init PROVE SampleInv
    OBVIOUS
  <2>1. pc = "idle" /\ replies = <<>> /\ late = 0 /\ cache.clock = "none"
    BY DEF Init, EmptyCache
  <2>2. MailKnown
    BY <2>1 DEF MailKnown, Holds
  <2> QED
    BY <2>1, <2>2, BusStarts DEF SampleInv, NoStaleSample, SamplesSelected, PanelsClock
<1>2. SampleInv /\ [Next]_vars => SampleInv'
  <2> SUFFICES ASSUME SampleInv, [Next]_vars PROVE SampleInv'
    OBVIOUS
  <2>1. BusInv'
    BY BusStep DEF SampleInv
  <2>2. CASE Touch
    BY <2>1, <2>2, SampleTouch DEF SampleInv
  <2>3. CASE Rect
    BY <2>1, <2>3, SampleRect DEF SampleInv
  <2>4. CASE BeginTouch \/ BeginRect \/ Restart
    BY <2>1, <2>4, SampleBeginnings DEF SampleInv
  <2>5. CASE UNCHANGED vars
    BY <2>1, <2>5 DEF vars, SampleInv, MailKnown, NoStaleSample, SamplesSelected, PanelsClock, Holds
  <2> QED
    BY <2>2, <2>3, <2>4, <2>5 DEF Next
<1> QED
  BY <1>1, <1>2, PTL DEF Spec

\* A sample that counts comes from the touch controller at its clock, and unless
\* two answers came too late it is the answer to its own command: however many
\* answers to writes wait in the CH347, and whatever was lost, refused or killed.
THEOREM SamplesAreOwn == Spec => SamplesAreTrue
<1> DEFINE Own ==
      pc = "sample" /\ pc' \in {"sample", "deselectTouch"} /\ ~unsure
        => /\ dev.touch /\ ~dev.lcd /\ dev.clock = "touch"
           /\ late < 2 => replies' = <<>>
<1>1. SampleInv /\ [Next]_vars => [Own]_vars
  <2> SUFFICES ASSUME SampleInv, Next, pc = "sample", pc' \in {"sample", "deselectTouch"}, ~unsure
               PROVE  /\ dev.touch /\ ~dev.lcd /\ dev.clock = "touch"
                      /\ late < 2 => replies' = <<>>
    OBVIOUS
  <2>1. Sample
    <3>1. pc = "sample" => ~BeginTouch /\ ~BeginRect /\ ~Rect /\ (Touch => Sample)
      BY DEF BeginTouch, BeginRect, Rect, RectDc, RectSelect, Write, Touch, ReadIrq, TouchClock,
             SelectTouch, DeselectTouch, LcdClock, SelectLcd, UndoSelect, UndoClock, UndoLcd
    <3>2. Restart => pc' = "idle"
      BY DEF Restart
    <3> QED
      BY <3>1, <3>2 DEF Next
  <2>2. "spi" \in Commands
    BY DEF Commands
  <2>3. \/ Fails
        \/ ~Holds(replies, "spi") => replies' = <<>>
    BY <2>1, <2>2, QueryMail DEF Sample, SampleInv
  <2>4. ~Fails
    BY FailsTo
  <2> QED
    BY <2>3, <2>4 DEF SampleInv, NoStaleSample, SamplesSelected
<1> QED
  BY <1>1, SamplesInvariant, PTL DEF Spec, SamplesAreTrue
=============================================================================
